SPECIFICATION Spec
CONSTANTS
  f1 = f1
  f2 = f2
  Requests = {r1, r2}
  Agents = {a1}
  Fps = {f1, f2}
  Bodies <- MCBodies
  HashTTL = 2
  InitLimit = 3
  Near = {}
  ShingleSize = 2
  MaxShingles = 2
  SketchWindow = 3
  SketchLimit = 2
  MaxSeq = 4
  MaxPeriod = 2
  CycleLimit = 1
  Window = 2
  ShortWindow = 1
  BurstTokens = 2
  SpikeFactor = 3
  MaxEvents = 4
  TTL = 2
  MaxEntries = 3
  Second = 1
  MaxClock = 1
  MaxChecks = 3
  MaxResets = 1
CHECK_DEADLOCK FALSE
SYMMETRY Symmetry
INVARIANTS LeftoverIsInFlight FunnelNarrows
