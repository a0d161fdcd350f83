\* Three commands through a tunnel of three slots.
SPECIFICATION FairSpec
CONSTANTS
  forward = forward
  Moves = {forward}
  Stop = stop
  Other = other
  RingSlots = 3
  BufUnits = 7
  SocketUnits = 8
  MaxCommands = 3
  MaxMisses = 1
  Unopened = {"relay", "car"}
INVARIANTS
  TypeOK
  NothingInvented
PROPERTIES
  InOrder
  EndsAfterRelay
  KeepsDraining
CHECK_DEADLOCK FALSE
