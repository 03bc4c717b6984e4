\* What the documentation says of the addresses when registers are added.
CONSTANTS
  d1 = d1
  d2 = d2
  s1 = s1
  s2 = s2
  s3 = s3
  s4 = s4
  c1 = c1
  w1 = w1
  Devices <- TwoDevices
  Sensors = {s1, s2, s3, s4, c1}
  Files <- InitialFiles
  Additions <- Requests
  MaxRegs = 3
  AddrMax = 5
  Writes = {w1}
  Words = {1}
SPECIFICATION Spec
PROPERTIES
  AppendKeepsAddresses
CHECK_DEADLOCK FALSE
