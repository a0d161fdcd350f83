\* Every module, loaded twice; three readers of sr04, one of them hit by a signal.
SPECIFICATION FairSpec
CONSTANTS
  Drivers = {"sr04", "ir", "motor", "list", "car"}
  Infrareds = 2
  Lists = 2
  CarDevs = 2
  MaxLoads = 2
  r1 = r1
  r2 = r2
  r3 = r3
  Readers <- ThreeReaders
  Width = 16
  Starts = {0, 15}
  EchoTimes = {1, 5}
  Factor = 4
  Scale = 2
  MaxSignals = 1
INVARIANTS
  TypeOK
  Alone
  DistanceRight
  NoDanglingDevice
  UsedUninitialised
PROPERTIES
  CleanUnload
  Served
CHECK_DEADLOCK FALSE
