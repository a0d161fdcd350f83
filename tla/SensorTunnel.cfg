\* The relay and the car program on a ring of two values.
SPECIFICATION FairSpec
CONSTANTS
  relay = relay
  car = car
  far = far
  near = near
  Threads = {relay, car}
  NonBlocking = {}
  BufSize = 4
  MsgLen = 2
  Modes = {{"r", "w"}}
  ReadSizes = {2}
  Byte <- MCByte
  Junk = junk
  Values = {far, near}
INVARIANTS
  SemExact
PROPERTIES
  StrandedOnlyByOpen
  FramingLostOnlyByShortWrite
  KeepsPromise
  Served
