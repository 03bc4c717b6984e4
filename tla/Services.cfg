\* The address table, the resources and the writes of the Modbus and Redfish
\* services, over a configuration that registers are added to and that is reloaded.
CONSTANTS
  d1 = d1
  d2 = d2
  s1 = s1
  s2 = s2
  s3 = s3
  s4 = s4
  c1 = c1
  w1 = w1
  Devices <- TwoDevices
  Sensors = {s1, s2, s3, s4, c1}
  Files <- InitialFiles
  Additions <- Requests
  MaxRegs = 3
  AddrMax = 5
  Writes = {w1}
  Words = {1}
  Top = 1
  Unit = 2
  Factor <- Factors
  Offset <- Offsets
  Short <- FallShort
  Late = {s4}
  Readings <- Asked
  KindOf <- Units
SPECIFICATION RedfishSpec
INVARIANTS
  FileLoads
  WordsDisjoint
  OneAddressPerWord
  EverySensorReachable
PROPERTIES
  MovesOnlyLater
  WriteHitsItsSensor
  PatchedSensorListed
  
CHECK_DEADLOCK FALSE
