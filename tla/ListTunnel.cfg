\* Two clients, memory for two nodes, calls that overlap and calls that do not.
SPECIFICATION Spec
CONSTANTS
  relay = relay
  car = car
  m1 = m1
  m2 = m2
  n1 = n1
  n2 = n2
  Threads = {relay, car}
  Messages = {m1, m2}
  Nodes = {n1, n2}
  Front = front
  Rear = rear
  Null = null
  SizeBound = 2
INVARIANTS
  TypeOK
  WellFormed
  SentinelsHold
PROPERTIES
  LostOnlyByFault
  KeepsPromise
CHECK_DEADLOCK FALSE
SYMMETRY MCSymmetry
