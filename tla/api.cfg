SPECIFICATION Spec
CONSTANTS
  Modes <- MCModes
  Catalogue <- NoCatalogue
  DayLen = 1
  WeekLen = 1
  Segments = {"", ".", "..", "api", "%61pi", "%2E", "a%2Fb", "device", "programs", "ws", "id"}
  Unquoted <- MCUnquoted
  Percents <- MCPercents
  MaxSteps = 3
  MaxDuration = 3
INVARIANTS TypeOK ServesTheEntitled ToldTheTruth ToolsFitTheHub SeekFindsTheStep
CHECK_DEADLOCK FALSE
