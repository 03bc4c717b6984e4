\* Small inputs of the algorithms without a state.
CONSTANTS
  c1 = c1
  c2 = c2
  c3 = c3
  s1 = s1
  s2 = s2
  NaN = NaN
  NoBound = NoBound
  Base = 4
  Floats <- SmallFloats
  FloatBits <- SmallFloatBits
  Sensors <- AllSensors
  ComputedLists <- SmallLists
  Numbers <- SmallNumbers
  Replies <- ShortReplies
  WordAreas <- SmallAreas
  Stores <- SmallStores
  Coils <- TwoCoils
  Addresses <- AddressSet
  Counts <- CountSet
  Pipelines <- ShortPipelines
  Samples <- ShortSamples
  Infinite = 100000
  MaxWindow = 3
SPECIFICATION Spec
INVARIANTS
  CheckExact
  OrderSound
  NearestIsSent
  WordsSurvive
  ReadsAgree
  PipelineForgets
  PipelineExact
CHECK_DEADLOCK FALSE
