\* Two bytes to a value, a ring of one value and a half.
SPECIFICATION FairSpec
CONSTANTS
  AvoidDist = 4
  BackDist = 3
  Dists = {0, 2, 5}
  Infrared <- LeftOnly
  WordLen = 2
  RingBytes = 4
  SocketUnits = 4
  MaxSamples = 3
  MaxRestarts = 1
  Unopened <- NoDevice
INVARIANTS
  TypeOK
  AheadOnlyOnEcho
PROPERTIES
  StepLostOnlyByOpen
  InOrder
  StrandedForGood
  RoundCompleted
  UsesTunnels
CHECK_DEADLOCK FALSE
