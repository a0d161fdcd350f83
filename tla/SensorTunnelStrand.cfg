\* An open while a writer sleeps on the full ring.
SPECIFICATION Spec
CONSTANTS
  relay = relay
  car = car
  far = far
  near = near
  Threads = {relay, car}
  NonBlocking = {}
  BufSize = 4
  MsgLen = 2
  Modes = {{"r", "w"}}
  ReadSizes = {2}
  Byte <- MCByte
  Junk = junk
  Values = {far, near}
INVARIANTS
  WaitsOnlyWhenFull
