SPECIFICATION Spec
CONSTANTS
  t1 = t1
  t2 = t2
  t3 = t3
  r1 = r1
  r2 = r2
  NoTimer = NoTimer
  NoRow = NoRow
  Absent = Absent
  Modes <- MCModes
  Unsupported <- MCUnsupported
  DayLen = 8
  WeekLen = 1
  Catalogue <- CatZero
  Library <- LibZero
  ProgramIds <- Two
  Timers <- Timers2
  Requests <- Requests1
  StartOffsets <- NowOrEarlier
  MaxClock = 3
  LastStart = 1
  MaxDrops = 1
  MaxCrashes = 1
  MaxEdits = 0
  MaxLate = 0
SYMMETRY Interchangeable
INVARIANTS TypeOK OneDriver StepInForce RowNamesDriver NeverEarly
PROPERTIES ResumeKeepsPlace BootLeavesNoOrphanRow
