SPECIFICATION FairSpec
CONSTANTS
  tool = tool
  joints = joints
  camera = camera
  FifoInputs = {tool}
  LatestInputs = {joints, camera}
  FifoCapacity = 2
  MaxEvents = 4
  MaxTicks = 1
INVARIANTS TypeOK FifoKept LatestKept
PROPERTIES RunEnds
CHECK_DEADLOCK FALSE
