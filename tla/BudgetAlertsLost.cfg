SPECIFICATION Spec
CONSTANTS
  Workers = {w1}
  Costs = {4}
  DailyBudget = 4
  ThresholdInputs = {100}
  Failures = {}
  Durable = {TRUE}
  MaxRestarts = 0
  MaxDay = 2
  MaxRows = 2
INVARIANTS RealCrossingIsAnnounced
