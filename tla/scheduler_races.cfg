SPECIFICATION Spec
CONSTANTS
  t1 = t1
  t2 = t2
  t3 = t3
  r1 = r1
  r2 = r2
  NoTimer = NoTimer
  NoRow = NoRow
  Absent = Absent
  Modes <- MCModes
  Unsupported <- MCUnsupported
  DayLen = 8
  WeekLen = 1
  Catalogue <- CatRaces
  Library <- LibPair
  ProgramIds <- Two
  Timers <- Timers2
  Requests <- Requests2
  StartOffsets <- Now
  MaxClock = 3
  LastStart = 0
  MaxDrops = 0
  MaxCrashes = 1
  MaxEdits = 1
  MaxLate = 1
SYMMETRY Interchangeable
INVARIANTS RowNamesDriver NeverEarly
PROPERTIES ResumeKeepsPlace
