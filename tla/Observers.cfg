\* Batches of two devices, registers added between them, restarts.
CONSTANTS
  d1 = d1
  d2 = d2
  s1 = s1
  s2 = s2
  s3 = s3
  s4 = s4
  c1 = c1
  c2 = c2
  w1 = w1
  Devices <- TwoDevices
  Sensors = {s1, s2, s3, s4, c1, c2}
  Files <- InitialFiles
  Additions <- Requests
  MaxRegs = 4
  AddrMax = 4
  Window = 2
  ChanCap = 2
  MaxTime = 4
  Failing = {s2}
  Interval <- EveryTick
  RingCap = 1
  Clients = {w1}
  Watched = {s1}
SPECIFICATION ObserversSpec
INVARIANTS
  ComputedFollowsInputs
  MetricIsOfLatest
  ConnectedMeansAlive
  ShowsLastBroadcast
PROPERTIES
  RawNeverLost
  NeverOlder
CHECK_DEADLOCK FALSE
