\* One obligation, two requests that overlap.
SPECIFICATION Spec
CONSTANTS
  s1 = s1  r1 = r1  r2 = r2  e1 = e1  e2 = e2
  Slots = {s1}
  Level <- LevelAttest
  NeedsSigner <- EverySigner
  Entries = {e1}
  Requests = {r1, r2}
  TaskMoves = {"TODO", "DONE"}
  DueDates = {1}
  MaxDay = 1
  MaxDocs = 1
  Lookback = 0
  Lookahead = 2
  Soon = 0
INVARIANTS FiledHasTask ClaimWellFormed
