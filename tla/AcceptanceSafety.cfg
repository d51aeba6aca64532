\* Two attempts, one of which may run while the other's result is adopted; three
\* checks, some proposed by hand or withdrawn; the controller restarts with either
\* precheck.
SPECIFICATION Spec
CONSTANTS
  MaxAttempts = 2
  MaxChecks = 3
  MaxRounds = 2
  RoundBound = 1
  Prechecks = {"ci", "verify"}
  ByHand = TRUE
  Withdrawals = TRUE
INVARIANTS TypeOK ReviewAfterPass AcceptedHasResult AcceptedOnce
PROPERTIES StopHoldsVerdicts KeptChecked
