SPECIFICATION Spec
CONSTANTS
  Requests = {r1, r2}
  Callers = {k1}
  Anonymous = none
  Unknown = unknown
  From = {k1, unknown}
  Kinds = {"normal"}
  Daily = 2
  Monthly = 2
  CallerDaily <- MCDaily
  CallerMonthly <- MCMonthly
  Inputs <- MCInputs
  DayTicks = 2
  MonthDays = 2
  MaxArrivals = 3
  Agents = {a1}
  Fps = {f1}
  TTL = 1
  MaxEntries = 2
  InitLimit = 9
  Second = 2
  MaxClock = 4
  Costs <- GateCosts
  DailyBudget = 0
  ThresholdInputs = {}
  Failures = {}
SYMMETRY Symmetry
INVARIANTS OverspendBounded RetryReachesNextWindow
