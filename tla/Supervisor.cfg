SPECIFICATION FairSpec
CONSTANTS
  MaxRestarts = 1
  RetryOnNonzero = TRUE
  MaxDeleteRetries = 1
  Stays = TRUE
  MaxAttempts = 2
INVARIANT AttemptIsSettled
PROPERTIES LoopIsBroken InterruptEndsRun
