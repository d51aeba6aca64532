\* A check withdrawn by the proposer of its mission.
SPECIFICATION Spec
CONSTANTS
  MaxAttempts = 2
  MaxChecks = 3
  MaxRounds = 2
  RoundBound = 1
  Prechecks = {"ci", "verify"}
  ByHand = FALSE
  Withdrawals = TRUE
INVARIANTS VerifyingIsChecked
