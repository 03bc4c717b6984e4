\* Writes are answered and added registers stored; r2 names a sensor of
\* another device.
CONSTANTS
  d1 = d1
  d2 = d2
  r1 = r1
  r2 = r2
  r3 = r3
  Devices = {d1}
  Reqs = {r1, r2}
  DevOf <- OneDevice
  RegOf <- Misaddressed
  InitRegs <- OneRegister
  MaxRegs = 2
  ChanCap = 1
  QueueCap = 1
  ReconnectInitial = 1
  ReconnectMax = 2
  MaxExponent = 1
SPECIFICATION SteadySpec
PROPERTIES
  WritesAnswered
  AddedRegisterStored
  PollsForever
CHECK_DEADLOCK FALSE
