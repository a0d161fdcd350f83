\* Two items of one quantum of two bytes are all an int can count: the positions
\* from 4 on share the cells of those from 0 on.  One open file, with any position.
SPECIFICATION Spec
CONSTANTS
  Files = {f1}
  Values = {0, 1}
  Quantum = 2
  Qset = 1
  IntSize = 2
  MaxCall = 2
  MaxPos = 5
INVARIANTS
  TypeOK
  ListReachesEnd
PROPERTIES
  StoresBytes
  HolesOnlyBehindSeeks
CHECK_DEADLOCK FALSE
