SPECIFICATION FairSpec
CONSTANTS
  MaxCmds = 2
  MaxDrops = 1
  MaxMutes = 1
  MaxRestarts = 1
  MaxFailures = 1
  WaitsForClients = TRUE
INVARIANTS TypeOK QueueHasServer NothingLost
PROPERTIES Recovers
