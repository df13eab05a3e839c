SPECIFICATION Spec
CONSTANTS
  MaxRestarts = 1
  RetryOnNonzero = FALSE
  MaxDeleteRetries = 0
  Stays = FALSE
  MaxAttempts = 2
INVARIANTS NeverSignalsReaped
