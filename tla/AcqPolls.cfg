\* Two devices that poll into one channel, a growing configuration, backoff.
CONSTANTS
  d1 = d1
  d2 = d2
  r1 = r1
  r2 = r2
  r3 = r3
  Devices = {d1, d2}
  Reqs = {r1}
  DevOf <- TwoDevices
  RegOf <- Registers
  InitRegs <- OneRegister
  MaxRegs = 2
  ChanCap = 2
  QueueCap = 1
  ReconnectInitial = 1
  ReconnectMax = 4
  MaxExponent = 2
SPECIFICATION Spec
INVARIANTS
  FailingMeansDisconnected
  BatchesGrow
PROPERTIES
  ConnectBackoffDoubles
CHECK_DEADLOCK FALSE
