\* An obstacle on the left.
SPECIFICATION Spec
CONSTANTS
  AvoidDist = 4
  BackDist = 3
  Dists = {0, 3, 5}
  Infrared <- LeftOnly
  WordLen = 1
  RingBytes = 3
  SocketUnits = 4
  MaxSamples = 2
  MaxRestarts = 0
  Unopened <- EveryDevice
INVARIANT AvoidsObstacle
CHECK_DEADLOCK FALSE
