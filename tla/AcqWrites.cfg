\* Three writes to one device: queueing, timeouts, late execution, order, shutdown.
CONSTANTS
  d1 = d1
  d2 = d2
  r1 = r1
  r2 = r2
  r3 = r3
  Devices = {d1}
  Reqs = {r1, r2, r3}
  DevOf <- OneDevice
  RegOf <- Registers
  InitRegs <- OneRegister
  MaxRegs = 2
  ChanCap = 1
  QueueCap = 2
  ReconnectInitial = 1
  ReconnectMax = 2
  MaxExponent = 1
SPECIFICATION Spec
INVARIANTS
  TypeOK
  OkMeansExecuted
  AtMostOnce
  RefusedNeverExecuted
  CleanConnection
PROPERTIES
  KeepsWritePromise
  ServedInOrder
CHECK_DEADLOCK FALSE
