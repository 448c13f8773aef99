SPECIFICATION FairSpec
CONSTANTS
  t1 = t1
  t2 = t2
  t3 = t3
  r1 = r1
  r2 = r2
  NoTimer = NoTimer
  NoRow = NoRow
  Absent = Absent
  Modes <- MCModes
  Unsupported <- MCUnsupported
  DayLen = 8
  WeekLen = 1
  Catalogue <- CatEmptied
  Library <- LibEmptied
  ProgramIds <- One
  Timers <- Timers2
  Requests <- Requests1
  StartOffsets <- Now
  MaxClock = 5
  LastStart = 1
  MaxDrops = 0
  MaxCrashes = 1
  MaxEdits = 1
  MaxLate = 0
PROPERTIES  HubComesUp
