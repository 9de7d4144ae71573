------------------------------ MODULE DailyJob ------------------------------
(***************************************************************************)
(* The daily job: jobs/runner.ts, which claims a day's slot in job_runs    *)
(* and records how the run ended, and the reminder sweep it runs,          *)
(* notifications.service.ts, which anyone with audit.read can also start   *)
(* by hand.  Any number of processes, fired by any number of triggers.     *)
(*                                                                         *)
(* The job's other parts change nothing the sweep or the claim tells       *)
(* apart: refreshStatuses (module Obligations) only moves open items among *)
(* open statuses, and snapshotAllScores swallows each company's error.  A  *)
(* run may fail in any of them, which Fail allows at every step.           *)
(*                                                                         *)
(* One slot, that of day 0: the rows of two days share nothing, and what   *)
(* the sweep of another slot does, one by hand does.                       *)
(***************************************************************************)
EXTENDS Integers, FiniteSets

CONSTANTS
  Workers,     \* processes: replicas of the API, one-shot containers, edge functions
  Replicas,    \* those of them that serve requests
  Items, Users,
  SuperAdmins, \* the organisation's SUPER_ADMINs
  Holders,     \* users with a membership of the company other than VIEWER
  Due,         \* Due[i]: the item's due date
  Created,     \* the day the company was created
  Offsets,     \* REMINDER_OFFSET_DAYS
  Nudges,      \* OVERDUE_NUDGE_DAYS
  MaxDay,      \* bound: the last day of the model
  MaxRuns      \* bound: how often one slot is claimed

Nobody == "nobody"   \* assigneeId is null

ASSUME DailyJobAssumption ==
  /\ Replicas \subseteq Workers
  /\ SuperAdmins \subseteq Users /\ SuperAdmins # {} /\ Holders \subseteq Users /\ Nobody \notin Users
  /\ Due \in [Items -> Int] /\ Created \in Int
  /\ Offsets \subseteq Nat /\ Nudges \subseteq Nat
  /\ MaxDay \in Nat /\ MaxRuns \in Nat \ {0}

VARIABLES
  today,
  open,     \* the items that are neither COMPLETED nor WAIVED, of a company with isActive
  assignee, \* assignee[i]: who the item's task is assigned to
  active,   \* the users with isActive
  slot,     \* the job_runs row of day 0
  note,     \* note[n]: the status of the notification row n, or "none"
  mailed,   \* mailed[n]: the digests that carried n, a fact of the world
  presumed, \* history: the runs somebody took over while RUNNING
  proc      \* proc[w]: what worker w is in the middle of

vars == <<today, open, assignee, active, slot, note, mailed, presumed, proc>>

Days == 0..MaxDay

\* (complianceItemId, userId, kind), the unique key of a notification: the kind
\* is named by the days left, which is what it is formed from.
Keys == Items \X Users \X ({0} \cup Offsets \cup {-n : n \in Nudges})

\* run stands for startedAt, which tells one claim of the row from the next.
\* stale: it has been RUNNING for more than STALE_AFTER_MS.
Slots == [status : {"none", "RUNNING", "FAILED", "SUCCEEDED"}, run : 0..MaxRuns, stale : BOOLEAN]

Unclaimed == [status |-> "none", run |-> 0, stale |-> FALSE]

\* run: the run of the slot this is, or 0 for a sweep by hand.
At(step, run) == [step |-> step, run |-> run, saw |-> Unclaimed, todo |-> {}, digest |-> {}]
Idle == At("idle", 0)

Procs ==
  [step : {"idle", "reclaim", "scan", "create", "send", "mark", "finish"},
   run : 0..MaxRuns, saw : Slots, todo : SUBSET Keys, digest : SUBSET Keys]

Init ==
  /\ today = 0
  /\ open = Items
  /\ assignee \in [Items -> Users \cup {Nobody}]
  /\ active = Users
  /\ slot = Unclaimed
  /\ note = [n \in Keys |-> "none"]
  /\ mailed = [n \in Keys |-> 0]
  /\ presumed = {}
  /\ proc = [w \in Workers |-> Idle]

Become(w, p) == proc' = [proc EXCEPT ![w] = p]

World == <<today, open, assignee, active>>

-----------------------------------------------------------------------------
(* claim, runJob *)

Running(run) == [status |-> "RUNNING", run |-> run, stale |-> FALSE]

\* claim: the insert, or a look at the row that was in its way.  A slot that is
\* taken ends the trigger, which is no step.  On a later day an operator may name
\* the slot with --date.
Claim(w) ==
  /\ proc[w].step = "idle" /\ slot.run < MaxRuns
  /\ \/ /\ slot.status = "none"
        /\ slot' = Running(1)
        /\ Become(w, At("scan", 1))
     \/ /\ slot.status = "FAILED" \/ slot.stale
        /\ Become(w, [At("reclaim", 0) EXCEPT !.saw = slot])
        /\ UNCHANGED slot
  /\ UNCHANGED <<World, note, mailed, presumed>>

TakenOver == IF slot.status = "RUNNING" THEN presumed \cup {slot.run} ELSE presumed

Unmoved_Unchecked(saw) == TRUE

\* updateMany's where: the row is still the one that was read.  Staleness is not
\* stored, it follows from startedAt.
Unmoved(saw) == slot.status = saw.status /\ slot.run = saw.run

Reclaim(w) ==
  /\ proc[w].step = "reclaim"
  /\ IF Unmoved(proc[w].saw)
     THEN /\ slot' = Running(slot.run + 1)
          /\ presumed' = IF slot.stale THEN TakenOver ELSE presumed
          /\ Become(w, At("scan", slot.run + 1))
     ELSE Become(w, Idle) /\ UNCHANGED <<slot, presumed>>
  /\ UNCHANGED <<World, note, mailed>>

\* runJob with force: an upsert that looks at nothing.
ForceRun(w) ==
  /\ proc[w].step = "idle" /\ slot.run < MaxRuns
  /\ slot' = Running(slot.run + 1)
  /\ presumed' = TakenOver
  /\ Become(w, At("scan", slot.run + 1))
  /\ UNCHANGED <<World, note, mailed>>

\* POST /notifications/sweep.
SweepByHand(w) ==
  /\ w \in Replicas /\ proc[w].step = "idle"
  /\ Become(w, At("scan", 0))
  /\ UNCHANGED <<World, slot, note, mailed, presumed>>

\* The edge function scheduled-compliance: it inserts the day's row or, with force,
\* goes on without one, under an id no row has; the look before the insert decides
\* nothing the insert does not.  Its sweep and its refresh ask for items of status
\* PENDING, which there is none of, and its snapshots lack a column: the answers'
\* errors are dropped, and all it does is record how it ended.
EdgeRun(w) ==
  /\ today = 0 /\ proc[w].step = "idle"
  /\ IF slot.status = "none"
     THEN slot' = Running(1) /\ Become(w, At("finish", 1))
     ELSE Become(w, At("finish", 0)) /\ UNCHANGED slot
  /\ UNCHANGED <<World, note, mailed, presumed>>

-----------------------------------------------------------------------------
(* runReminderSweep *)

\* reminderKind: the due date is one whatever the offsets.
HasKind(daysOut) == daysOut = 0 \/ (IF daysOut > 0 THEN daysOut \in Offsets ELSE -daysOut \in Nudges)

\* The items the sweep speaks of, as of today, whatever slot it runs for.  The
\* horizon of its query is that of the kinds.
Chased(i) == i \in open /\ Due[i] >= Created /\ HasKind(Due[i] - today)

Recipients_Trusting(i) ==
  IF assignee[i] # Nobody THEN {assignee[i]} \cap active ELSE (Holders \cup SuperAdmins) \cap active

\* The assignee, if still active; else whoever holds the company, and the super
\* admins.
Recipients(i) ==
  IF assignee[i] \in active THEN {assignee[i]} ELSE (Holders \cup SuperAdmins) \cap active

\* The sweep's reads, of one moment.
Scan(w) ==
  /\ proc[w].step = "scan"
  /\ Become(w, [proc[w] EXCEPT
       !.step = "create",
       !.todo = {n \in Keys : Chased(n[1]) /\ n[2] \in Recipients(n[1]) /\ n[3] = Due[n[1]] - today}])
  /\ UNCHANGED <<World, slot, note, mailed, presumed>>

Fresh_All(todo) == todo

\* createManyAndReturn with skipDuplicates: what is inserted is what no earlier
\* sweep recorded.
Fresh(todo) == {n \in todo : note[n] = "none"}

Create(w) ==
  /\ proc[w].step = "create"
  /\ LET made == Fresh(proc[w].todo) IN
       /\ note' = [n \in Keys |-> IF n \in made THEN "PENDING" ELSE note[n]]
       /\ Become(w, [proc[w] EXCEPT !.step = IF made = {} THEN "finish" ELSE "send", !.todo = made])
  /\ UNCHANGED <<World, slot, mailed, presumed>>

Marked(digest, status) == [n \in Keys |-> IF n \in digest THEN status ELSE note[n]]

\* The catch around one person's sendMail: the sweep goes on with the next.
Undelivered(digest) == Marked(digest, "FAILED")

\* What is left to do once the digest is dealt with.
Past(p, digest) ==
  [p EXCEPT !.todo = @ \ digest, !.digest = {},
            !.step = IF p.todo \ digest = {} THEN "finish" ELSE "send"]

\* The next person's digest: sendMail takes it, or throws.  An address that was
\* good when it was read is used even if its user has since been deactivated.
Send(w) ==
  /\ proc[w].step = "send"
  /\ \E n \in proc[w].todo :
       LET digest == {m \in proc[w].todo : m[2] = n[2]} IN
         \/ /\ mailed' = [m \in Keys |-> IF m \in digest THEN mailed[m] + 1 ELSE mailed[m]]
            /\ Become(w, [proc[w] EXCEPT !.step = "mark", !.digest = digest])
            /\ UNCHANGED note
         \/ /\ note' = Undelivered(digest)
            /\ Become(w, Past(proc[w], digest))
            /\ UNCHANGED mailed
  /\ UNCHANGED <<World, slot, presumed>>

\* The update to SENT; if it throws, the catch that is meant for sendMail runs.
Mark(w) ==
  /\ proc[w].step = "mark"
  /\ note' \in {Marked(proc[w].digest, "SENT"), Undelivered(proc[w].digest)}
  /\ Become(w, Past(proc[w], proc[w].digest))
  /\ UNCHANGED <<World, slot, mailed, presumed>>

-----------------------------------------------------------------------------
(* execute *)

Ended(w, status) ==
  IF proc[w].run = 0 THEN slot ELSE [slot EXCEPT !.status = status, !.stale = FALSE]

\* The run is recorded by the row's id: whoever holds the row by now.
Finish(w) ==
  /\ proc[w].step = "finish"
  /\ slot' = Ended(w, "SUCCEEDED")
  /\ Become(w, Idle)
  /\ UNCHANGED <<World, note, mailed, presumed>>

\* Any database call of a run may throw.
Fail(w) ==
  /\ proc[w].step \in {"scan", "create", "send", "mark", "finish"}
  /\ slot' = Ended(w, "FAILED")
  /\ Become(w, Idle)
  /\ UNCHANGED <<World, note, mailed, presumed>>

\* The process dies, or cannot even record that it failed.
Crash(w) ==
  /\ proc[w].step # "idle"
  /\ Become(w, Idle)
  /\ UNCHANGED <<World, slot, note, mailed, presumed>>

-----------------------------------------------------------------------------
(* The world around the job *)

GrowStale ==
  /\ slot.status = "RUNNING" /\ ~slot.stale
  /\ slot' = [slot EXCEPT !.stale = TRUE]
  /\ UNCHANGED <<World, note, mailed, presumed, proc>>

NextDay ==
  /\ today < MaxDay /\ today' = today + 1
  /\ UNCHANGED <<open, assignee, active, slot, note, mailed, presumed, proc>>

\* Users file and reopen obligations, switch companies off and on, and hand tasks
\* around.
Work ==
  /\ \/ open' \in SUBSET Items /\ UNCHANGED assignee
     \/ /\ \E i \in Items, u \in active \cup {Nobody} : assignee' = [assignee EXCEPT ![i] = u]
        /\ UNCHANGED open
  /\ UNCHANGED <<today, active, slot, note, mailed, presumed, proc>>

\* updateUser's isActive and an invitation; the last active super admin stays.
Activate(u) ==
  /\ active' \in {active \cup {u}, active \ {u}}
  /\ active' \cap SuperAdmins # {}
  /\ UNCHANGED <<today, open, assignee, slot, note, mailed, presumed, proc>>

Next ==
  \/ \E w \in Workers :
       \/ Claim(w) \/ Reclaim(w) \/ ForceRun(w) \/ EdgeRun(w) \/ SweepByHand(w)
       \/ Scan(w) \/ Create(w) \/ Send(w) \/ Mark(w)
       \/ Finish(w) \/ Fail(w) \/ Crash(w)
  \/ GrowStale
  \/ NextDay
  \/ Work
  \/ \E u \in Users : Activate(u)

Spec == Init /\ [][Next]_vars

-----------------------------------------------------------------------------
(***************************************************************************)
(* Properties.                                                             *)
(***************************************************************************)

\* Rows, workers and what they carry are well formed.
TypeOK ==
  /\ today \in Days
  /\ open \subseteq Items
  /\ assignee \in [Items -> Users \cup {Nobody}]
  /\ active \subseteq Users
  /\ slot \in Slots
  /\ note \in [Keys -> {"none", "PENDING", "SENT", "FAILED"}]
  /\ mailed \in [Keys -> Nat]
  /\ presumed \subseteq 1..MaxRuns
  /\ proc \in [Workers -> Procs]

\* "Idempotent": however many runs, forced runs, take-overs and sweeps by hand
\* overlap, fail or die, no reminder is mailed twice, none reads SENT unmailed, and
\* what went out is on record.
OneMailEach ==
  \A n \in Keys :
    /\ mailed[n] <= 1
    /\ note[n] = "SENT" => mailed[n] = 1
    /\ note[n] = "none" => mailed[n] = 0

Executing(w) == proc[w].step \notin {"idle", "reclaim"} /\ proc[w].run # 0

\* "Running a job exactly once per slot": two processes are inside one slot only
\* if the one that started first, or one before it, was taken over, presumed dead
\* or by force.  One before it: a run that was taken over and lives records its own
\* end on the row, and so frees it under the run that holds it.
OneOwner ==
  \A w, v \in Workers :
    w # v /\ Executing(w) /\ Executing(v) =>
      /\ proc[w].run # proc[v].run
      /\ \E p \in presumed : p <= proc[w].run /\ p <= proc[v].run

\* A reminder that falls due while anyone can receive it has a recipient: the
\* assignee's deactivation does not silence the obligation.
SomebodyHears ==
  [][\A w \in Workers : proc[w].step = "scan" /\ proc'[w].step = "create" =>
       \A i \in Items : Chased(i) => \E n \in proc'[w].todo : n[1] = i]_vars
=============================================================================
