SPECIFICATION FairSpec
CONSTANTS
  Workers = {w1, w2}
  Costs <- MCCosts
  DailyBudget = 4
  ThresholdInputs = {0, 50, 100, 101}
  Failures = {"log"}
  Durable = {TRUE, FALSE}
  MaxRestarts = 1
  MaxDay = 2
  MaxRows = 3
INVARIANTS MissedOnlyByStaleSum
PROPERTIES CrossingIsAlerted
