\* One browser with two tabs and one elsewhere, two calls at a time.
SPECIFICATION WebSpec
CONSTANTS
  home = home  away = away  q1 = q1  q2 = q2
  Tabs <- TwoAndOne
  Handles = {q1, q2}
  MaxPairs = 3
  MaxSid = 2
  MaxCalls = 3
  MaxLost = 1
SYMMETRY SameCalls
INVARIANTS OwnRefreshKept
PROPERTIES SignOutEndsItsOwn ProviderSparesSession
\* The bounds run out.
CHECK_DEADLOCK FALSE
