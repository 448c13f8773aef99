SPECIFICATION Spec
CONSTANTS
  t1 = t1
  t2 = t2
  t3 = t3
  r1 = r1
  r2 = r2
  NoTimer = NoTimer
  NoRow = NoRow
  Absent = Absent
  Modes <- MCModes
  Unsupported <- MCUnsupported
  DayLen = 2
  WeekLen = 2
  Catalogue <- CatDaily
  Library <- LibDaily
  ProgramIds <- One
  Timers <- Timers1
  Requests <- Requests1
  StartOffsets <- Now
  MaxClock = 4
  LastStart = 0
  MaxDrops = 0
  MaxCrashes = 0
  MaxEdits = 0
  MaxLate = 0
PROPERTIES ScheduleFires
