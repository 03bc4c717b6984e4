\* The simulator with formulas and register layouts of many shapes.
CONSTANTS
  NaN = NaN
  NoAddress = NoAddress
  Base = 4
  Floats <- SmallFloats
  FloatBits <- SmallFloatBits
  Largest = 7
  SimConfigs <- AllConfigs
  AddressSpace = 5
  DutyMax = 2
  Settings <- WebValues
  Payload = {1, 3}
  MaxWords = 2
  MaxTime = 1
SPECIFICATION Spec
INVARIANTS
  EvalExact
  SlotsKept
  TwoWordsOneValue
  WebAgrees
PROPERTIES
  WritesLand
CHECK_DEADLOCK FALSE
