---------------------------- MODULE Obligations ----------------------------
(***************************************************************************)
(* One company's compliance calendar: the obligations (ComplianceItem),    *)
(* the task and the documents behind each, and the requests that change    *)
(* them.  compliance.service.ts, tasks.service.ts, documents.service.ts.   *)
(*                                                                         *)
(* A database transaction is one step: the rows two of these transactions  *)
(* share are locked until commit, and a deadlock aborts one of them        *)
(* (Abandon).  What a handler reads BEFORE its transaction is a step of    *)
(* its own, and what it keeps of that read is in req[r].  With one request *)
(* handle the requests run one after the other; with two they overlap.     *)
(*                                                                         *)
(* A row that is deleted takes its id along, and a request or plan that    *)
(* still names the id fails at its write or deletes nothing; After says    *)
(* what becomes of it.  Rows therefore need no ids here.                   *)
(***************************************************************************)
EXTENDS Integers, CompletionGate

CONSTANTS
  Slots,       \* the (ruleCode, periodKey) pairs, the unique key of an item
  Level,       \* Level[s]: the rule's evidenceLevel; an overlay that patches it is left out
  NeedsSigner, \* NeedsSigner[s]: the rule's signatoryRequired
  Entries,     \* the checklist entries seeded from evidenceRequired
  Requests,    \* handles of requests in flight
  TaskMoves,   \* bound: the task statuses a request may ask for
  DueDates,    \* bound: the days a rule may set as due date
  MaxDay,      \* bound: the last day of the model
  MaxDocs,     \* bound: documents attached to one item
  Lookback,    \* LOOKBACK_DAYS
  Lookahead,   \* LOOKAHEAD_DAYS
  Soon         \* the 7 days before its due date in which an item is DUE

NoDue == -1

ASSUME ObligationsAssumption ==
  /\ Level \in [Slots -> EvidenceLevels] /\ NeedsSigner \in [Slots -> BOOLEAN]
  /\ TaskMoves \subseteq TaskStatuses
  /\ DueDates \subseteq Nat
  /\ {MaxDay, MaxDocs, Lookback, Lookahead, Soon} \subseteq Nat

VARIABLES
  today,  \* the calendar day
  rule,   \* rule[s]: the due date the engine computes for s, or NoDue
  item,   \* item[s]: the ComplianceItem row
  task,   \* task[s]: its Task row
  docs,   \* docs[s]: how many Document rows name the item
  req     \* req[r]: what request r has read and not yet written

vars == <<today, rule, item, task, docs, req>>

OpenStatuses == {"UPCOMING", "DUE", "OVERDUE"}
Settled      == {"COMPLETED", "WAIVED"}

\* exists: the row is there.  completed, attested, signed: completedAt,
\* attestationText and signatoryName are not null.
Items ==
  [exists : BOOLEAN, status : OpenStatuses \cup Settled, due : DueDates \cup {NoDue},
   completed : BOOLEAN, attested : BOOLEAN, signed : BOOLEAN]

NoItem ==
  [exists |-> FALSE, status |-> "UPCOMING", due |-> NoDue,
   completed |-> FALSE, attested |-> FALSE, signed |-> FALSE]

NewItem(due, status) ==
  [exists |-> TRUE, status |-> status, due |-> due,
   completed |-> FALSE, attested |-> FALSE, signed |-> FALSE]

\* assigned: assigneeId is not null.  listed, ticked: the entries of the
\* checklist and those of them that are done.
Tasks ==
  [exists : BOOLEAN, status : TaskStatuses, completed : BOOLEAN, assigned : BOOLEAN,
   due : DueDates \cup {NoDue}, listed : SUBSET Entries, ticked : SUBSET Entries]

NoTask ==
  [exists |-> FALSE, status |-> "TODO", completed |-> FALSE, assigned |-> FALSE,
   due |-> NoDue, listed |-> {}, ticked |-> {}]

NewTask(due) ==
  [exists |-> TRUE, status |-> "TODO", completed |-> FALSE, assigned |-> FALSE,
   due |-> due, listed |-> Entries, ticked |-> {}]

\* What one sync means to do to one slot.  status "KEEP": leave it alone.
Plans ==
  {p \in [op : {"skip", "create", "update", "withdraw"}, due : DueDates \cup {NoDue},
          status : OpenStatuses \cup {"KEEP"}, moved : BOOLEAN] :
     p.op = "create" => p.status # "KEEP"}

Skip == [op |-> "skip", due |-> NoDue, status |-> "KEEP", moved |-> FALSE]

Idle     == [kind |-> "idle"]
Filings  == [kind : {"file"}, slot : Slots, attested : BOOLEAN, signed : BOOLEAN]
Moves    == [kind : {"move"}, slot : Slots, was : TaskStatuses, to : TaskMoves]
Tickings == [kind : {"tick"}, slot : Slots, listed : SUBSET Entries, ticked : SUBSET Entries]
Syncs    == [kind : {"sync"}, plan : [Slots -> Plans]]
Synced   == [kind |-> "synced"]
Backfills == [kind : {"backfill"}, missing : SUBSET Slots, due : [Slots -> DueDates \cup {NoDue}]]

RequestStates == {Idle, Synced} \cup Filings \cup Moves \cup Tickings \cup Syncs \cup Backfills

Open(s) == item[s].exists /\ item[s].status \in OpenStatuses

Derive_NeverOverdue(due, day) ==
  IF due <= day + Soon THEN "DUE" ELSE "UPCOMING"

\* deriveStatusValue(due, null, day), and refreshStatuses' three ranges.
Derive(due, day) ==
  IF due < day THEN "OVERDUE" ELSE IF due <= day + Soon THEN "DUE" ELSE "UPCOMING"

InWindow(due) == today - Lookback <= due /\ due <= today + Lookahead

-----------------------------------------------------------------------------
(***************************************************************************)
(* The calendar before its first sync: no rows, nobody at work.            *)
(***************************************************************************)
Init ==
  /\ today = 0
  /\ rule \in [Slots -> DueDates]
  /\ item = [s \in Slots |-> NoItem]
  /\ task = [s \in Slots |-> NoTask]
  /\ docs = [s \in Slots |-> 0]
  /\ req  = [r \in Requests |-> Idle]

Free(r) == req[r].kind = "idle"

Hold(r, state) == req' = [req EXCEPT ![r] = state]

-----------------------------------------------------------------------------
(* markItemStatus *)

\* A signatory on file stands unless the caller sends a new one.  A name sent
\* blank is still sent: it takes the place of the one on file.
Signatory(s, sent) ==
  IF sent # "absent" THEN sent ELSE IF item[s].signed THEN "ok" ELSE "blank"

GateInput(s, attestation, sent) ==
  [level |-> Level[s], documents |-> docs[s] > 0, assigned |-> task[s].assigned,
   taskStatus |-> task[s].status, outstanding |-> task[s].listed \ task[s].ticked # {},
   signatoryRequired |-> NeedsSigner[s], attestation |-> attestation,
   signatory |-> Signatory(s, sent)]

\* getItemOrThrow and assertCompletionAllowed: reads, outside the transaction.
\* A refused completion changes nothing and is no step.
FileRead(r, s) ==
  /\ Free(r) /\ item[s].exists
  /\ \E attestation \in Texts, sent \in Texts \cup {"absent"} :
       /\ Allowed(GateInput(s, attestation, sent))
       /\ Hold(r, [kind |-> "file", slot |-> s, attested |-> attestation # "blank",
                   signed |-> Signatory(s, sent) = "ok"])
  /\ UNCHANGED <<today, rule, item, task, docs>>

\* "The task and the obligation are one thing seen from two angles, so they move
\* together": what the handler writes to the task, if there is one.
InStep(row, status) ==
  IF ~row.exists THEN row
  ELSE IF status = "COMPLETED" THEN [row EXCEPT !.status = "DONE", !.completed = TRUE]
  ELSE [row EXCEPT !.status = IF status = "WAIVED" THEN "CANCELLED" ELSE "TODO",
                   !.completed = FALSE]

\* The transaction of a completion: the item, then its task.
FileWrite(r) ==
  /\ req[r].kind = "file"
  /\ LET s == req[r].slot IN
       /\ item' = [item EXCEPT ![s].status = "COMPLETED", ![s].completed = TRUE,
                               ![s].attested = req[r].attested, ![s].signed = req[r].signed]
       /\ task' = [task EXCEPT ![s] = InStep(@, "COMPLETED")]
  /\ Hold(r, Idle)
  /\ UNCHANGED <<today, rule, docs>>

Unfiled_KeepsClaim(row, status) == [row EXCEPT !.status = status]

\* An item row that stops being, or is not, filed: its claim goes.
Unfiled(row, status) ==
  [row EXCEPT !.status = status, !.completed = FALSE, !.attested = FALSE, !.signed = FALSE]

\* The same handler asked for any other status: nothing it reads decides what
\* it writes.  The caller names the status, whatever the due date says.
SetStatus(r, s) ==
  /\ Free(r) /\ item[s].exists
  /\ \E status \in OpenStatuses \cup {"WAIVED"} :
       /\ item' = [item EXCEPT ![s] = Unfiled(@, status)]
       /\ task' = [task EXCEPT ![s] = InStep(@, status)]
  /\ UNCHANGED <<today, rule, docs, req>>

-----------------------------------------------------------------------------
(* tasks.service.ts *)

\* updateTask with a status: what the task was is read before the transaction.
MoveRead(r, s) ==
  /\ Free(r) /\ task[s].exists
  /\ \E to \in TaskMoves :
       Hold(r, [kind |-> "move", slot |-> s, was |-> task[s].status, to |-> to])
  /\ UNCHANGED <<today, rule, item, task, docs>>

LeavingDone_ToTodo(was, to) == to = "TODO" /\ was = "DONE"

BecomingDone(was, to) == to = "DONE" /\ was # "DONE"
LeavingDone(was, to)  == to # "DONE" /\ was = "DONE"

\* completedAt is set, cleared, or left as it stands.
Moved(row, was, to) ==
  [row EXCEPT !.status = to,
              !.completed = BecomingDone(was, to) \/ (@ /\ ~LeavingDone(was, to))]

\* The transaction: whether the work becomes or stops being done is judged by
\* the status read before it; whether the item is COMPLETED, inside it.
MoveWrite(r) ==
  /\ req[r].kind = "move"
  /\ LET s == req[r].slot IN
       /\ task' = [task EXCEPT ![s] = Moved(@, req[r].was, req[r].to)]
       /\ item' = IF LeavingDone(req[r].was, req[r].to) /\ item[s].status = "COMPLETED"
                  THEN [item EXCEPT ![s] = Unfiled(@, Derive(@.due, today))]
                  ELSE item
  /\ Hold(r, Idle)
  /\ UNCHANGED <<today, rule, docs>>

\* updateTask's assigneeId and bulkAssign; releasing a user's tasks.
Assign(r, s) ==
  /\ Free(r) /\ task[s].exists
  /\ \E who \in BOOLEAN : task' = [task EXCEPT ![s].assigned = who]
  /\ UNCHANGED <<today, rule, item, docs, req>>

Relisted(row, listed, ticked) == [row EXCEPT !.listed = listed, !.ticked = ticked]

\* updateTask's checklist: the caller's array replaces the stored one.
ReplaceChecklist(r, s) ==
  /\ Free(r) /\ task[s].exists
  /\ \E listed \in SUBSET Entries : \E ticked \in SUBSET listed :
       task' = [task EXCEPT ![s] = Relisted(@, listed, ticked)]
  /\ UNCHANGED <<today, rule, item, docs, req>>

\* toggleChecklistItem reads the whole array, changes one entry of its copy and
\* writes the copy back.
TickRead(r, s) ==
  /\ Free(r) /\ task[s].exists
  /\ \E e \in task[s].listed, done \in BOOLEAN :
       Hold(r, [kind |-> "tick", slot |-> s, listed |-> task[s].listed,
                ticked |-> IF done THEN task[s].ticked \cup {e} ELSE task[s].ticked \ {e}])
  /\ UNCHANGED <<today, rule, item, task, docs>>

TickWrite(r) ==
  /\ req[r].kind = "tick"
  /\ task' = [task EXCEPT ![req[r].slot] = Relisted(@, req[r].listed, req[r].ticked)]
  /\ Hold(r, Idle)
  /\ UNCHANGED <<today, rule, item, docs>>

-----------------------------------------------------------------------------
(* documents.service.ts, as the gate and the sync see it: rows per item. *)

\* uploadDocument's insert; its earlier reads only refuse, and the foreign key
\* refuses an item that is gone by then.
AttachDocument(r, s) ==
  /\ Free(r) /\ item[s].exists /\ docs[s] < MaxDocs
  /\ docs' = [docs EXCEPT ![s] = @ + 1]
  /\ UNCHANGED <<today, rule, item, task, req>>

\* deleteDocument: no look at the item the document is evidence for.
RemoveDocument(r, s) ==
  /\ Free(r) /\ docs[s] > 0
  /\ docs' = [docs EXCEPT ![s] = @ - 1]
  /\ UNCHANGED <<today, rule, item, task, req>>

-----------------------------------------------------------------------------
(* regenerate *)

\* What generateCalendar yields for s, and what the window query finds of it.
Produced(s) == rule[s] # NoDue /\ InWindow(rule[s])
Found(s)    == item[s].exists /\ InWindow(item[s].due)

\* What the sync may take off the calendar: stored, generated no longer, open,
\* never completed, and without a document.  Its due date plays no part.
Withdrawable_IgnoresEvidence(s) ==
  ~Produced(s) /\ Found(s) /\ Open(s) /\ ~item[s].completed

Withdrawable(s) ==
  ~Produced(s) /\ Found(s) /\ Open(s) /\ ~item[s].completed /\ docs[s] = 0

\* A descriptive field other than the due date differs: the title, which the task
\* has a copy of too, or any other (severity, metadata, penalty note...).
Rewordings == {"none", "title", "other"}

PlanFor_WritesStatusBack(s, reworded) ==
  IF Produced(s) /\ ~Found(s)
  THEN [op |-> "create", due |-> rule[s], status |-> Derive(rule[s], today), moved |-> FALSE]
  ELSE IF Produced(s) /\ (item[s].due # rule[s] \/ reworded # "none")
  THEN [op |-> "update", due |-> rule[s], moved |-> item[s].due # rule[s] \/ reworded = "title",
        status |-> IF item[s].status \in Settled THEN item[s].status ELSE Derive(rule[s], today)]
  ELSE IF Withdrawable(s)
  THEN [op |-> "withdraw", due |-> NoDue, status |-> "KEEP", moved |-> FALSE]
  ELSE Skip

\* The diff of the generated calendar against the stored one.  moved: title and
\* due date go to the task as well.
PlanFor(s, reworded) ==
  IF Produced(s) /\ ~Found(s)
  THEN [op |-> "create", due |-> rule[s], status |-> Derive(rule[s], today), moved |-> FALSE]
  ELSE IF Produced(s) /\ (item[s].due # rule[s] \/ reworded # "none")
  THEN [op |-> "update", due |-> rule[s], moved |-> item[s].due # rule[s] \/ reworded = "title",
        status |-> IF item[s].status \in Settled THEN "KEEP" ELSE Derive(rule[s], today)]
  ELSE IF Withdrawable(s)
  THEN [op |-> "withdraw", due |-> NoDue, status |-> "KEEP", moved |-> FALSE]
  ELSE Skip

\* Every read of the sync, up to the diff.
SyncRead(r) ==
  /\ Free(r)
  /\ \E reworded \in [Slots -> Rewordings] :
       Hold(r, [kind |-> "sync", plan |-> [s \in Slots |-> PlanFor(s, reworded[s])]])
  /\ UNCHANGED <<today, rule, item, task, docs>>

\* What is left of a request's state q once the items in gone are deleted: a
\* request about one of them, a sync that would update one (P2025 rolls it all
\* back) and a backfill for one (the foreign key) can only fail; deleting one
\* again deletes nothing.
After(q, gone) ==
  IF q.kind \in {"file", "move", "tick"} THEN IF q.slot \in gone THEN Idle ELSE q
  ELSE IF q.kind = "sync"
  THEN IF \E s \in gone : q.plan[s].op = "update" THEN Idle
       ELSE [kind |-> "sync",
             plan |-> [s \in Slots |-> IF s \in gone /\ q.plan[s].op = "withdraw"
                                       THEN Skip ELSE q.plan[s]]]
  ELSE IF q.kind = "backfill" THEN IF q.missing \cap gone # {} THEN Idle ELSE q
  ELSE q

\* What an update does to the item's row and to its task's.
Updated(row, p) ==
  [row EXCEPT !.due = p.due, !.status = IF p.status = "KEEP" THEN @ ELSE p.status]

Retimed_ItemOnly(row, p) == row

Retimed(row, p) == IF row.exists /\ p.moved THEN [row EXCEPT !.due = p.due] ELSE row

SyncedItem(row, p) ==
  IF p.op = "create" THEN IF row.exists THEN row ELSE NewItem(p.due, p.status)
  ELSE IF p.op = "update" THEN Updated(row, p)
  ELSE IF p.op = "withdraw" THEN NoItem ELSE row

SyncedTask(row, p) ==
  IF p.op = "update" THEN Retimed(row, p)
  ELSE IF p.op = "withdraw" THEN NoTask ELSE row

\* The transaction: createMany with skipDuplicates, the updates and deletes by
\* id.  Nothing the plan was made from is looked at again.  The documents of a
\* deleted item stay, with no item.
SyncWrite(r) ==
  /\ req[r].kind = "sync"
  /\ LET plan == req[r].plan
         gone == {s \in Slots : plan[s].op = "withdraw"}
     IN  /\ item' = [s \in Slots |-> SyncedItem(item[s], plan[s])]
         /\ task' = [s \in Slots |-> SyncedTask(task[s], plan[s])]
         /\ docs' = [s \in Slots |-> IF s \in gone THEN 0 ELSE docs[s]]
         /\ req'  = [x \in Requests |-> IF x = r THEN Synced ELSE After(req[x], gone)]
  /\ UNCHANGED <<today, rule>>

\* createMissingTasks: the items without a task are read...
BackfillRead(r) ==
  /\ req[r].kind = "synced"
  /\ LET missing == {s \in Slots : item[s].exists /\ ~task[s].exists}
     IN  Hold(r, IF missing = {} THEN Idle
                 ELSE [kind |-> "backfill", missing |-> missing,
                       due |-> [s \in Slots |-> IF s \in missing THEN item[s].due ELSE NoDue]])
  /\ UNCHANGED <<today, rule, item, task, docs>>

\* ...and given one, from what was read; skipDuplicates skips those that have
\* one by now.
BackfillWrite(r) ==
  /\ req[r].kind = "backfill"
  /\ task' = [s \in Slots |-> IF s \in req[r].missing /\ ~task[s].exists
                              THEN NewTask(req[r].due[s]) ELSE task[s]]
  /\ Hold(r, Idle)
  /\ UNCHANGED <<today, rule, item, docs>>

-----------------------------------------------------------------------------
\* A request that dies between its steps: a crash, a lost connection, a
\* transaction chosen as deadlock victim.
Abandon(r) ==
  /\ ~Free(r)
  /\ Hold(r, Idle)
  /\ UNCHANGED <<today, rule, item, task, docs>>

\* refreshStatuses, from the daily job or its route: one transaction.
RefreshStatuses ==
  /\ item' = [s \in Slots |-> IF Open(s) /\ ~item[s].completed
                              THEN [item[s] EXCEPT !.status = Derive(item[s].due, today)]
                              ELSE item[s]]
  /\ UNCHANGED <<today, rule, task, docs, req>>

\* A profile edit, a logged event or an approved overlay changes what the
\* engine generates for a slot.
RuleChange(s) ==
  /\ \E due \in DueDates \cup {NoDue} : rule' = [rule EXCEPT ![s] = due]
  /\ UNCHANGED <<today, item, task, docs, req>>

NextDay ==
  /\ today < MaxDay /\ today' = today + 1
  /\ UNCHANGED <<rule, item, task, docs, req>>

Request(r) ==
  \/ \E s \in Slots : FileRead(r, s)
  \/ FileWrite(r)
  \/ \E s \in Slots : SetStatus(r, s)
  \/ \E s \in Slots : MoveRead(r, s)
  \/ MoveWrite(r)
  \/ \E s \in Slots : Assign(r, s)
  \/ \E s \in Slots : ReplaceChecklist(r, s)
  \/ \E s \in Slots : TickRead(r, s)
  \/ TickWrite(r)
  \/ \E s \in Slots : AttachDocument(r, s)
  \/ \E s \in Slots : RemoveDocument(r, s)
  \/ SyncRead(r)
  \/ SyncWrite(r)
  \/ BackfillRead(r)
  \/ BackfillWrite(r)
  \/ Abandon(r)

Next ==
  \/ \E r \in Requests : Request(r)
  \/ RefreshStatuses
  \/ \E s \in Slots : RuleChange(s)
  \/ NextDay

Spec == Init /\ [][Next]_vars

\* The scheduler keeps running the daily job, which refreshes the statuses.
FairSpec == Spec /\ WF_vars(RefreshStatuses)

-----------------------------------------------------------------------------
(***************************************************************************)
(* Properties.                                                             *)
(***************************************************************************)

\* Every row, task, plan and request is well formed, and what a request in
\* flight names is still there.
TypeOK ==
  /\ today \in 0..MaxDay
  /\ rule \in [Slots -> DueDates \cup {NoDue}]
  /\ item \in [Slots -> Items]
  /\ task \in [Slots -> Tasks]
  /\ docs \in [Slots -> 0..MaxDocs]
  /\ req \in [Requests -> RequestStates]

\* "Never overwrite the user's own progress" (regenerate), and the claim cleared
\* on reopen (markItemStatus): however requests overlap, a sync's diff that was
\* made while an obligation was filed, or waived, does not bring that status back
\* without its claim.  What reads COMPLETED has its completion date, what reads
\* WAIVED has none, and no declaration or signatory is on file without one.
ClaimWellFormed ==
  \A s \in Slots :
    /\ item[s].status = "COMPLETED" => item[s].completed
    /\ item[s].status = "WAIVED" => ~item[s].completed
    /\ item[s].attested \/ item[s].signed => item[s].completed

\* "A stale claim never outlives the completion it was made for" (README.md):
\* an obligation that is open or waived carries no completion date.  One that
\* does is skipped by refreshStatuses for good.
ClaimOnlyWhileFiled ==
  \A s \in Slots : item[s].completed => item[s].status = "COMPLETED"

\* "An obligation must never read COMPLETED while the task behind it has been
\* pulled back open" (tasks.service.ts), for the levels the gate polices.
FiledWorkDone ==
  \A s \in Slots :
    item[s].status = "COMPLETED" /\ Level[s] # "NONE" =>
      task[s].exists /\ task[s].status = "DONE"

\* However requests overlap, an obligation filed through the gate has a task: the
\* gate read one, and a task goes only with its item.
FiledHasTask ==
  \A s \in Slots :
    item[s].status = "COMPLETED" /\ Level[s] # "NONE" => task[s].exists

\* A task has a completion date exactly while it is DONE.
WorkStamped == \A s \in Slots : task[s].completed <=> task[s].status = "DONE"

\* "Both copies have to move" (regenerate): a task shows its item's deadline.
DeadlinesAgree == \A s \in Slots : task[s].exists => task[s].due = item[s].due

\* syncCompany's first reconciliation rule and the condition of its third: a
\* sync moves at most the deadline of a completed or waived obligation, and
\* takes off the calendar only an open one without evidence.
SyncSpares(s) ==
  /\ item[s].status \in Settled =>
       /\ item'[s] = [item[s] EXCEPT !.due = item'[s].due]
       /\ docs'[s] = docs[s]
  /\ item[s].exists /\ ~item'[s].exists => Open(s) /\ docs[s] = 0

SyncSparesHistory ==
  [][(\E r \in Requests : req[r].kind = "sync" /\ req'[r].kind = "synced")
       => \A s \in Slots : SyncSpares(s)]_vars

\* An open obligation whose day has passed is eventually shown OVERDUE, unless
\* it is settled, withdrawn or moved first.
OverdueSurfaces ==
  \A s \in Slots :
    (Open(s) /\ item[s].due < today)
      ~> (item[s].status = "OVERDUE" \/ ~Open(s) \/ item[s].due >= today)

\* The rows, tasks and documents implement the lifecycle the README promises.
Lifecycle == INSTANCE ObligationLifecycle WITH
  stage    <- [s \in Slots |-> IF ~item[s].exists THEN "none"
                               ELSE IF item[s].status = "COMPLETED" THEN "filed"
                               ELSE IF item[s].status = "WAIVED" THEN "waived" ELSE "open"],
  workDone <- [s \in Slots |-> task[s].status = "DONE"],
  evidence <- [s \in Slots |-> docs[s] > 0],
  declared <- [s \in Slots |-> item[s].attested]

ImplementsLifecycle == Lifecycle!Spec
=============================================================================
