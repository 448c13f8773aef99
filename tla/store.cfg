SPECIFICATION StoreSpec
CONSTANTS
  Programs = {p1, p2}
  Stored = {p1}
  Keys = {k1}
  Asked = {{"days"}}
  MaxCalls = 3
  AtOnce = 2
  MaxSteps = 1
  MaxWide = 1
  MaxCrashes = 1
INVARIANTS TypeOK AnsweredIsOnDisk OneUpdateIsWhole DeletedStaysDeleted ReadsTheWrite
CHECK_DEADLOCK FALSE
