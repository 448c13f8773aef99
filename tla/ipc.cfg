SPECIFICATION FairSpec
CONSTANTS
  NumRequests = 2
  Led = {1, 2}
  Watchers = {w1}
  MaxUpsets = 1
INVARIANTS TypeOK ReadYourWrites PendingMatchesCalls CacheFollows WatcherFollows
PROPERTIES RpcHolds Settles
CHECK_DEADLOCK FALSE
