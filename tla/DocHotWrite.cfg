\* A register that is being polled can be unknown to writes.
CONSTANTS
  d1 = d1
  d2 = d2
  r1 = r1
  r2 = r2
  r3 = r3
  Devices = {d1}
  Reqs = {r3}
  DevOf <- OneDevice
  RegOf <- Registers
  InitRegs <- OneRegister
  MaxRegs = 2
  ChanCap = 1
  QueueCap = 1
  ReconnectInitial = 1
  ReconnectMax = 2
  MaxExponent = 1
SPECIFICATION Spec
PROPERTIES
  AddedRegisterWritable
CHECK_DEADLOCK FALSE
