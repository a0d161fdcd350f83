\* Two clients, a ring of two slots, reads of one byte or one command.
SPECIFICATION FairSpec
CONSTANTS
  relay = relay
  car = car
  stop = stop
  go = go
  garbage = garbage
  Threads = {relay, car}
  NonBlocking = {car}
  BufSize = 4
  MsgLen = 2
  Modes = {{"r"}, {"r", "w"}}
  ReadSizes = {1, 2}
  Byte <- MCByte
  Junk = junk
  Commands = {stop, go}
  OtherCodes = {garbage}
INVARIANTS
  TypeOK
  MutualExclusion
  NoLostWakeup
  SlotsWhole
  BufferHeld
PROPERTIES
  KeepsPromise
  Served
CHECK_DEADLOCK FALSE
