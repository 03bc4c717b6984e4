\* Shutdown need not complete: a task can be blocked on the sample channel.
CONSTANTS
  d1 = d1
  d2 = d2
  r1 = r1
  r2 = r2
  r3 = r3
  Devices = {d1, d2}
  Reqs = {}
  DevOf <- TwoDevices
  RegOf <- Registers
  InitRegs <- OneRegister
  MaxRegs = 1
  ChanCap = 2
  QueueCap = 1
  ReconnectInitial = 1
  ReconnectMax = 2
  MaxExponent = 1
SPECIFICATION FairSpec
PROPERTIES
  ShutdownCompletes
CHECK_DEADLOCK FALSE
