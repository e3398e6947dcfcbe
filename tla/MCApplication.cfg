SPECIFICATION FairSpec
CONSTANTS
  None = None
  main = main
  other = other
  camera = camera
  Inputs = {camera}
  Capacity = 2
  Main = main
  Others = {other}
  MaxWork = 2
  MaxAttempts = 2
INVARIANTS TypeOK QuiescentIsQuiet CommandsAccounted
PROPERTIES ImplementsContract ClosersReturn FramesAreShown
CHECK_DEADLOCK FALSE
