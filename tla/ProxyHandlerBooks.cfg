SPECIFICATION Spec
CONSTANTS
  Requests = {r1, r2}
  Callers = {}
  Anonymous = none
  Unknown = unknown
  From = {none}
  Kinds = {"free", "oversized", "unreadable", "normal"}
  Daily = 0
  Monthly = 0
  CallerDaily <- MCDaily
  CallerMonthly <- MCMonthly
  Inputs <- MCInputs
  DayTicks = 2
  MonthDays = 2
  MaxArrivals = 3
  Agents = {a1}
  Fps = {f1}
  TTL = 2
  MaxEntries = 2
  InitLimit = 2
  Second = 1
  MaxClock = 3
  Costs = {1}
  DailyBudget = 2
  ThresholdInputs = {50, 100}
  Failures = {"log", "sum"}
SYMMETRY Symmetry
INVARIANTS BooksBalance IncidentIsNotified
PROPERTIES PartsAreUsedAsSpecified
