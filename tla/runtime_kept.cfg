SPECIFICATION Spec
CONSTANTS
  Handlers = {h1}
  Minute = 2
  Default = 5
  Runtimes = {2, 10}
  EndNoise = 1
  MaxCalls = 2
  MaxPresses = 0
PROPERTIES RestoresRemaining
