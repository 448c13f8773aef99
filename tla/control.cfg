SPECIFICATION Spec
CONSTANTS
  Handlers = {h1, h2}
  Minute = 2
  Default = 5
  Runtimes = {2, 8}
  EndNoise = 1
  MaxCalls = 2
  MaxPresses = 1
INVARIANTS TypeOK TimerKept ModeAsAsked MuteKept ShownRuns
