SPECIFICATION PartSpec
CONSTANTS
  Agents = {a1, a2}
  Fps = {f1, f2}
  TTL = 2
  MaxEntries = 2
  InitLimit = 0
  LimitInputs = {0, 3}
  Second = 2
  MaxClock = 4
  MaxSightings = 4
  Others = {b1, b2}
  Solo = b1
  OthersMemory = 1
  SketchBodies <- TurnBodies
  Near <- LookAlike
  ShingleSize = 2
  MaxShingles = 6
  SketchWindow = 3
  SketchLimit = 2
  SketchTTL = 4
  SketchSecond = 3
  SketchClock = 4
  SketchRequests = 5
  ToolBodies <- Calls
  MaxSeq = 8
  MaxPeriod = 4
  CycleLimit = 2
  ToolTTL = 2
  ToolSecond = 1
  ToolClock = 2
  MaxNames = 12
  TokenCounts = {1, 3}
  Window = 4
  ShortWindow = 2
  BurstTokens = 4
  SpikeFactor = 1
  MaxEvents = 3
  RateClock = 6
  MaxObserved = 4
  Latencies = {4}
  Savings = {2, 3}
  TriggerCap = 2
  MaxServed = 3
  Amounts = {0, 1}
  Buckets = 3
  Horizon = 2
  BootSecond = 1
  GaugeClock = 5
  MaxLag = 1
  MaxTokens = 1
SYMMETRY Symmetry
INVARIANTS TypeOK OneAlertPerWindow SlidingQuota LoopQuota BlocksCycles RingsAreExact AdmittedWithinBurst
PROPERTIES HonestRetryAfter ForgetsDeadFirst AlertsAreRare SnapshotIsOrdered PollIsExact
