----------------------------- MODULE MCDailyJob -----------------------------
\* Small instances of DailyJob: one obligation due on day 0, of a company that
\* was there before, a member and a super admin.
EXTENDS DailyJob, TLC

DueOnDay0 == [i \in Items |-> 0]
WorkerSymmetry == Permutations(Workers)
=============================================================================
