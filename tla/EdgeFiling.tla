----------------------------- MODULE EdgeFiling -----------------------------
(***************************************************************************)
(* The second implementation of filing: the edge functions compliance-api  *)
(* and tasks-api over _shared/completion.ts and _shared/sync.ts.  They     *)
(* have no transactions.  Every call to the database is a step of its own, *)
(* any of them may fail, and what was written before it is undone by hand, *)
(* or not at all.                                                          *)
(*                                                                         *)
(* One obligation, its task, and the gate both runtimes share.  The edge   *)
(* never makes either row (its inserts leave out the id and updatedAt that *)
(* the table requires), so they are here from the start, as a sync of the  *)
(* service made them.  Only columns some property tells apart are kept; an *)
(* audit entry shows in bare alone.                                        *)
(***************************************************************************)
EXTENDS Integers, CompletionGate

CONSTANTS
  Level,       \* the rule's evidenceLevel
  NeedsSigner, \* the rule's signatoryRequired
  Requests,    \* handles of requests in flight
  DueDates,    \* bound: the days the engine may put the due date on
  MaxDay,      \* bound: the last day of the model
  MaxFaults,   \* bound: calls to the database that fail
  Soon         \* the 7 days before its due date in which an item is DUE

ASSUME EdgeFilingAssumption ==
  /\ Level \in EvidenceLevels /\ NeedsSigner \in BOOLEAN
  /\ DueDates \subseteq Nat /\ {MaxDay, MaxFaults, Soon} \subseteq Nat

VARIABLES
  today,  \* the calendar day
  item,   \* the compliance_items row
  task,   \* its tasks row
  docs,   \* whether a documents row names the item
  req,    \* req[r]: where request r is, and what it read
  faults, \* calls that have failed so far
  bare    \* the item's status was written by a change that left no audit entry

vars == <<today, item, task, docs, req, faults, bare>>
rows == <<item, task>>

OpenStatuses == {"UPCOMING", "DUE", "OVERDUE"}
Settled      == {"COMPLETED", "WAIVED"}

Items ==
  [status : OpenStatuses \cup Settled, due : DueDates,
   completed : BOOLEAN, attested : BOOLEAN, signed : BOOLEAN]

\* open: some checklist entry is not ticked.
Tasks ==
  [exists : BOOLEAN, status : TaskStatuses, completed : BOOLEAN,
   assigned : BOOLEAN, open : BOOLEAN]

NoTask == [exists |-> FALSE, status |-> "TODO", completed |-> FALSE,
           assigned |-> FALSE, open |-> FALSE]

Idle  == [pc |-> "idle"]
Calls == {"item", "task", "audit", "undoItem", "undoTask"}

Changes == [pc : Calls, to : OpenStatuses \cup Settled, attested : BOOLEAN,
            signed : BOOLEAN, item : Items, task : Tasks]
Patches == [pc : {"patch", "follow", "reopen", "undoPatch"}, task : Tasks,
            to : TaskStatuses \cup {"unsent"}, assignee : {"unsent", "yes", "no"},
            checklist : {"unsent", "open", "done"}]
Ticks   == [pc : {"tick"}, open : BOOLEAN]
Syncs   == [pc : {"sync"}, status : OpenStatuses \cup Settled, due : DueDates]

Derive(due, day) ==
  IF due < day THEN "OVERDUE" ELSE IF due <= day + Soon THEN "DUE" ELSE "UPCOMING"

Init ==
  /\ today = 0
  /\ \E due \in DueDates :
       item = [status |-> Derive(due, 0), due |-> due, completed |-> FALSE,
               attested |-> FALSE, signed |-> FALSE]
  /\ task = [NoTask EXCEPT !.exists = TRUE, !.open = TRUE]
  /\ docs = FALSE
  /\ req = [r \in Requests |-> Idle]
  /\ faults = 0 /\ bare = FALSE

Free(r)        == req[r].pc = "idle"
At(r, pc)      == req[r].pc = pc
Hold(r, state) == req' = [req EXCEPT ![r] = state]
GoTo(r, pc)    == req' = [req EXCEPT ![r].pc = pc]

\* A call answers with an error and has written nothing.
Fail == faults < MaxFaults /\ faults' = faults + 1 /\ UNCHANGED rows

-----------------------------------------------------------------------------
(* applyItemStatusChange, behind PATCH /items/:id/status *)

\* evaluateItemCompletion: the signatory on file stands unless one is sent.
Signatory(sent) ==
  IF sent # "absent" THEN sent ELSE IF item.signed THEN "ok" ELSE "blank"

GateInput(attestation, sent) ==
  [level |-> Level, documents |-> docs, assigned |-> task.assigned,
   taskStatus |-> task.status, outstanding |-> task.open,
   signatoryRequired |-> NeedsSigner, attestation |-> attestation,
   signatory |-> Signatory(sent)]

\* loadGateItem and the gate: a refusal or a failed read changes nothing.  The
\* whole item and task are kept for the rollback.
ChangeRead(r) ==
  /\ Free(r)
  /\ \E to \in OpenStatuses \cup Settled, attestation \in Texts, sent \in Texts \cup {"absent"} :
       /\ to = "COMPLETED" => Allowed(GateInput(attestation, sent))
       /\ Hold(r, [pc |-> "item", to |-> to,
                   attested |-> to = "COMPLETED" /\ attestation # "blank",
                   signed |-> to = "COMPLETED" /\ Signatory(sent) = "ok",
                   item |-> item, task |-> task])
  /\ UNCHANGED <<today, rows, docs, faults, bare>>

\* buildItemUpdate
ItemUpdate(q) ==
  [item EXCEPT !.status = q.to, !.completed = q.to = "COMPLETED",
               !.attested = q.attested, !.signed = q.signed]

ItemWrite(r) ==
  /\ At(r, "item")
  /\ \/ item' = ItemUpdate(req[r]) /\ GoTo(r, "task") /\ UNCHANGED <<task, faults>>
     \/ Fail /\ Hold(r, Idle)
  /\ UNCHANGED <<today, docs, bare>>

TaskStatusFor(status) ==
  IF status = "COMPLETED" THEN "DONE" ELSE IF status = "WAIVED" THEN "CANCELLED" ELSE "TODO"

\* An update by complianceItemId: it finds no row once the task is deleted.
SetTask(status, completed) ==
  task' = IF task.exists THEN [task EXCEPT !.status = status, !.completed = completed] ELSE task

\* buildTaskSync.  When the call fails the request only answers with the
\* error: the item keeps its new status, and no audit entry will say so.
TaskWrite(r) ==
  /\ At(r, "task")
  /\ \/ /\ SetTask(TaskStatusFor(req[r].to), req[r].to = "COMPLETED")
        /\ GoTo(r, "audit") /\ UNCHANGED <<item, faults, bare>>
     \/ Fail /\ Hold(r, Idle) /\ bare' = TRUE
  /\ UNCHANGED <<today, docs>>

AuditWrite(r) ==
  /\ At(r, "audit")
  /\ \/ Hold(r, Idle) /\ bare' = FALSE /\ UNCHANGED <<rows, faults>>
     \/ Fail /\ GoTo(r, "undoItem") /\ UNCHANGED bare
  /\ UNCHANGED <<today, docs>>

\* The columns of before, over whatever the row holds by now.  Nobody looks at
\* how the call ends, here and in UndoTask.
UndoItem(r) ==
  /\ At(r, "undoItem")
  /\ LET before == req[r].item IN
       \/ /\ item' = [item EXCEPT !.status = before.status, !.completed = before.completed,
                                  !.attested = before.attested, !.signed = before.signed]
          /\ UNCHANGED <<task, faults>>
       \/ Fail
  /\ IF req[r].task.exists THEN GoTo(r, "undoTask") ELSE Hold(r, Idle)
  /\ UNCHANGED <<today, docs, bare>>

UndoTask_ByStatus(r) ==
  /\ At(r, "undoTask")
  /\ LET was == TaskStatusFor(req[r].item.status) IN
       \/ SetTask(was, was = "DONE") /\ UNCHANGED <<item, faults>>
       \/ Fail
  /\ Hold(r, Idle)
  /\ UNCHANGED <<today, docs, bare>>

\* "What was actually on the task, not what the mapping would imply."
UndoTask(r) ==
  /\ At(r, "undoTask")
  /\ \/ /\ SetTask(req[r].task.status, req[r].task.completed)
        /\ UNCHANGED <<item, faults>>
     \/ Fail
  /\ Hold(r, Idle)
  /\ UNCHANGED <<today, docs, bare>>

-----------------------------------------------------------------------------
(* tasks-api *)

\* PATCH /tasks/:id: each field of its body may be sent or not.
PatchRead(r) ==
  /\ Free(r) /\ task.exists
  /\ \E to \in TaskStatuses \cup {"unsent"}, assignee \in {"unsent", "yes", "no"},
        checklist \in {"unsent", "open", "done"} :
       Hold(r, [pc |-> "patch", task |-> task, to |-> to,
                assignee |-> assignee, checklist |-> checklist])
  /\ UNCHANGED <<today, rows, docs, faults, bare>>

LeavingDone_ToTodo(q) == q.task.status = "DONE" /\ q.to = "TODO"

\* isLeavingDone
LeavingDone(q) == q.task.status = "DONE" /\ q.to \notin {"DONE", "unsent"}

\* The assignee and the checklist of the body, over a row.
SentOver(q, row) ==
  [row EXCEPT !.assigned = IF q.assignee = "unsent" THEN @ ELSE q.assignee = "yes",
              !.open     = IF q.checklist = "unsent" THEN @ ELSE q.checklist = "open"]

\* updateData, in the one update of the row.
Patched(q, row) ==
  [SentOver(q, row) EXCEPT !.status    = IF q.to = "unsent" THEN @ ELSE q.to,
                       !.completed = q.to = "DONE" \/ (@ /\ ~LeavingDone(q))]

\* A task deleted by now is an error of its own: no row comes back.
PatchWrite(r) ==
  /\ At(r, "patch")
  /\ LET q == req[r] IN
       \/ /\ task.exists
          /\ task' = Patched(q, task)
          /\ Hold(r, IF LeavingDone(q) THEN [q EXCEPT !.pc = "follow"] ELSE Idle)
          /\ UNCHANGED <<item, faults>>
       \/ ~task.exists /\ Hold(r, Idle) /\ UNCHANGED <<rows, faults>>
       \/ Fail /\ Hold(r, Idle)
  /\ UNCHANGED <<today, docs, bare>>

\* reopenItemForTask: the item's status decides whether it is reopened.
PatchFollow(r) ==
  /\ At(r, "follow")
  /\ \/ /\ IF item.status = "COMPLETED" THEN GoTo(r, "reopen") ELSE Hold(r, Idle)
        /\ UNCHANGED <<rows, faults>>
     \/ Fail /\ GoTo(r, "undoPatch")
  /\ UNCHANGED <<today, docs, bare>>

\* buildItemReopen.  derivedStatusFor rounds the hours between a due date at
\* midnight and now: from noon on, a day has elapsed more than the calendar says.
ReopenWrite(r) ==
  /\ At(r, "reopen")
  /\ \/ /\ \E elapsed \in {0, 1} :
             item' = [item EXCEPT !.status = Derive(item.due, today + elapsed),
                                  !.completed = FALSE, !.attested = FALSE, !.signed = FALSE]
        /\ Hold(r, Idle) /\ bare' = FALSE /\ UNCHANGED <<task, faults>>
     \/ Fail /\ GoTo(r, "undoPatch") /\ UNCHANGED bare
  /\ UNCHANGED <<today, docs>>

\* Only the status and its date go back; an assignee and a checklist that came with
\* them stay.
UndoPatch(r) ==
  /\ At(r, "undoPatch")
  /\ \/ SetTask(req[r].task.status, req[r].task.completed) /\ UNCHANGED <<item, faults>>
     \/ Fail
  /\ Hold(r, Idle)
  /\ UNCHANGED <<today, docs, bare>>

\* POST /tasks/bulk-assign, which asks for no grant at all.
Assign(r) ==
  /\ Free(r) /\ task.exists
  /\ \E who \in BOOLEAN : task' = [task EXCEPT !.assigned = who]
  /\ UNCHANGED <<today, item, docs, req, faults, bare>>

\* POST /tasks/:id/checklist/:entryId copies the array and writes the copy back.
TickRead(r) ==
  /\ Free(r) /\ task.exists
  /\ \E open \in BOOLEAN : Hold(r, [pc |-> "tick", open |-> open])
  /\ UNCHANGED <<today, rows, docs, faults, bare>>

TickWrite(r) ==
  /\ At(r, "tick")
  /\ \/ /\ task' = IF task.exists THEN [task EXCEPT !.open = req[r].open] ELSE task
        /\ UNCHANGED <<item, faults>>
     \/ Fail
  /\ Hold(r, Idle)
  /\ UNCHANGED <<today, docs, bare>>

\* DELETE /tasks/:id: no look at what the item says of the work.
DeleteTask(r) ==
  /\ Free(r) /\ task.exists
  /\ task' = NoTask
  /\ UNCHANGED <<today, item, docs, req, faults, bare>>

-----------------------------------------------------------------------------
(* The rest of what changes these rows. *)

\* One turn of syncCompanyCalendar's loop: read the row, keep a settled status...
SyncRead(r) ==
  /\ Free(r)
  /\ \E due \in DueDates :
       Hold(r, [pc |-> "sync", due |-> due,
                status |-> IF item.status \in Settled THEN item.status ELSE Derive(due, today)])
  /\ UNCHANGED <<today, rows, docs, faults, bare>>

\* ...and write it back with the due date.  The task's copy of that is not moved.
SyncWrite(r) ==
  /\ At(r, "sync")
  /\ \/ /\ item' = [item EXCEPT !.status = req[r].status, !.due = req[r].due]
        /\ UNCHANGED <<task, faults>>
     \/ Fail
  /\ Hold(r, Idle)
  /\ UNCHANGED <<today, docs, bare>>

\* POST /refresh-statuses: three updates over ranges that share no day.
RefreshStatuses ==
  /\ item.status \in OpenStatuses /\ ~item.completed
  /\ item' = [item EXCEPT !.status = Derive(item.due, today)]
  /\ UNCHANGED <<today, task, docs, req, faults, bare>>

\* Uploads and deletions, which the service serves.
Evidence(r) ==
  /\ Free(r)
  /\ docs' = ~docs
  /\ UNCHANGED <<today, rows, req, faults, bare>>

NextDay ==
  /\ today < MaxDay /\ today' = today + 1
  /\ UNCHANGED <<rows, docs, req, faults, bare>>

Request(r) ==
  \/ ChangeRead(r)  \/ ItemWrite(r) \/ TaskWrite(r) \/ AuditWrite(r)
  \/ UndoItem(r)    \/ UndoTask(r)
  \/ PatchRead(r)   \/ PatchWrite(r) \/ PatchFollow(r) \/ ReopenWrite(r) \/ UndoPatch(r)
  \/ Assign(r)      \/ TickRead(r)  \/ TickWrite(r) \/ DeleteTask(r)
  \/ SyncRead(r)    \/ SyncWrite(r) \/ Evidence(r)

Next == (\E r \in Requests : Request(r)) \/ RefreshStatuses \/ NextDay

Spec == Init /\ [][Next]_vars

-----------------------------------------------------------------------------
(***************************************************************************)
(* Properties.                                                             *)
(***************************************************************************)

\* Rows and requests are well formed.
TypeOK ==
  /\ today \in 0..MaxDay /\ item \in Items /\ task \in Tasks /\ docs \in BOOLEAN
  /\ req \in [Requests -> {Idle} \cup Changes \cup Patches \cup Ticks \cup Syncs]
  /\ faults \in 0..MaxFaults /\ bare \in BOOLEAN

\* "An obligation must never read COMPLETED while the task behind it has been
\* pulled back open" (tasks-api): when nothing is in flight and one call at most
\* has failed, a filed obligation has its completion date and its task, if there
\* still is one, is DONE.  The one exception is a change whose own task write
\* failed: it answers with an error and leaves the claim it made (bare).
FiledIsBacked ==
  (\A r \in Requests : Free(r)) /\ item.status = "COMPLETED" /\ ~bare =>
    item.completed /\ (task.exists => task.status = "DONE")

Undoing(r) == req[r].pc \in {"undoItem", "undoTask", "undoPatch"}

\* The claim an item row makes: refreshing the status of an open one is no part
\* of it.
Claim(row) ==
  [row EXCEPT !.status = IF @ \in OpenStatuses THEN "DUE" ELSE @, !.due = 0]

\* "The rollback restores what was actually on the task" (completion.ts): a change
\* of the item that rolls back leaves the item's claim and the whole task as it
\* found them, work that was finished and not yet filed included.  A PATCH of the
\* task that rolls back (tasks-api) leaves the status and the completion date as it
\* found them, and what else it sent as it sent it.
RollbackRestores ==
  [][\A r \in Requests : Undoing(r) /\ req'[r].pc = "idle" =>
       IF req[r].pc = "undoPatch"
       THEN task' = SentOver(req[r], req[r].task)
       ELSE task' = req[r].task /\ Claim(item') = Claim(req[r].item)]_vars
=============================================================================
