\* Two orders and two overlapping requests, long enough for a window to run out.
CONSTANTS
  annual = annual
  triennial = triennial
  Orders = {annual, triennial}
  Period <- Terms
  TrialDays = 1
  Workers = {w1, w2}
  Edge = {w2}
  Announced <- Seen
  MaxDay = 2
  MaxValid = 4
  MaxAgain <- Again
SPECIFICATION FairSpec
INVARIANTS CreditedOnlyIfCaptured CountedOnce
PROPERTY CapturedUnlocks
\* A trial may run out unpaid, and the days of the model end.
CHECK_DEADLOCK FALSE
