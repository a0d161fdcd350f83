\* An ioctl that finds the ring without room for a whole command.
SPECIFICATION Spec
CONSTANTS
  relay = relay
  car = car
  stop = stop
  go = go
  garbage = garbage
  Threads = {relay, car}
  NonBlocking = {car}
  BufSize = 4
  MsgLen = 2
  Modes = {{"r"}, {"r", "w"}}
  ReadSizes = {2}
  Byte <- MCByte
  Junk = junk
  Commands = {stop, go}
  OtherCodes = {garbage}
INVARIANTS
  SemBalanced
