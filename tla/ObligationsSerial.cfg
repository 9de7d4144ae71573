\* One obligation, one request at a time.
SPECIFICATION FairSpec
CONSTANTS
  s1 = s1  r1 = r1  r2 = r2  e1 = e1  e2 = e2
  Slots = {s1}
  Level <- LevelAttest
  NeedsSigner <- EverySigner
  Entries = {e1, e2}
  Requests = {r1}
  TaskMoves = {"TODO", "IN_PROGRESS", "DONE"}
  DueDates = {1, 3}
  MaxDay = 2
  MaxDocs = 2
  Lookback = 1
  Lookahead = 2
  Soon = 1
INVARIANTS FiledWorkDone DeadlinesAgree
PROPERTIES SyncSparesHistory OverdueSurfaces ImplementsLifecycle
