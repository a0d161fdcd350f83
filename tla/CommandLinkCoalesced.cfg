\* Two lines read by the car as one.
SPECIFICATION Spec
CONSTANTS
  forward = forward
  Moves = {forward}
  Stop = stop
  Other = other
  RingSlots = 3
  BufUnits = 7
  SocketUnits = 8
  MaxCommands = 2
  MaxMisses = 0
  Unopened = {}
INVARIANTS
  ExecutesResults
CHECK_DEADLOCK FALSE
