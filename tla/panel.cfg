SPECIFICATION Spec
CONSTANTS
  Presets <- MCPresets
  Found <- MCFound
  Percents <- MCPercents
  Quarters <- MCQuarters
  Runtimes <- MCRuntimes
  Coldest = 38
  Hottest = 86
  MaxCalls = 2
  MaxByHand = 1
INVARIANTS TypeOK ShownIsAsked
CHECK_DEADLOCK FALSE
