----------------------------- MODULE Edge_proofs -----------------------------
(***************************************************************************)
(* Proofs about the edge functions and the browsers that call them.        *)
(*                                                                         *)
(* EdgeFiling: for any level of evidence, due dates and days, how the      *)
(* hand-made rollback fares when requests come one after the other and at  *)
(* most one call fails.                                                    *)
(*                                                                         *)
(* WebSession: for any number of browsers, tabs, calls, tokens, sessions   *)
(* and losses, what a tab, a sign-out and a register's refusal do to the   *)
(* account's session.                                                      *)
(***************************************************************************)
EXTENDS EdgeFiling, WebSession, FiniteSetTheorems, TLAPS

-----------------------------------------------------------------------------
(* EdgeFiling: the terms of what is proved. *)

\* Without transactions, two requests may undo each other's writes, and nothing is
\* promised once a rollback fails as well: nobody looks at how it ends.
OneAtATime == \A a, b \in Requests : a = b
OneFault   == MaxFaults <= 1

-----------------------------------------------------------------------------
(* EdgeFiling: the inductive invariant. *)

\* The row i claims no more than the task t supports.
Backed(i, t) == i.status = "COMPLETED" => i.completed /\ (t.exists => t.status = "DONE")

SameStage(a, b) == a = b \/ {a, b} \subseteq OpenStatuses

\* The rows i and j make one claim.
SameClaim(i, j) ==
  /\ SameStage(i.status, j.status)
  /\ i.completed = j.completed /\ i.attested = j.attested /\ i.signed = j.signed

\* Rows with one assignee and one checklist.
SameWork(a, b) == a.assigned = b.assigned /\ a.open = b.open

\* What a rollback has to know is what the request found; what it has done so far
\* is all that has happened since.
Change(q) ==
  /\ bare \/ Backed(q.item, q.task)
  /\ q.pc \in {"item", "undoTask"} => SameClaim(item, q.item)
  /\ q.pc \in {"item", "task"} => task = q.task
  /\ q.pc \in {"task", "audit", "undoItem"} =>
       SameStage(item.status, q.to) /\ item.completed = (q.to = "COMPLETED")
  /\ q.pc \in {"audit", "undoItem", "undoTask"} =>
       IF q.task.exists
       THEN task.exists /\ task.status = TaskStatusFor(q.to) /\ SameWork(task, q.task)
       ELSE task = q.task
  /\ q.pc = "undoTask" => q.task.exists
  /\ q.pc \in {"undoItem", "undoTask"} => faults >= 1

Patch(q) ==
  /\ bare \/ Backed(item, q.task)
  /\ q.pc = "patch" => task = q.task
  /\ q.pc # "patch" =>
       LeavingDone(q) /\ task.exists /\ q.task.exists /\ SameWork(task, SentOver(q, q.task))
  /\ q.pc = "undoPatch" => faults >= 1

\* What holds while a request is where q is.
Stands(q) ==
  /\ q.pc \in {"idle", "item", "patch", "tick", "sync"} => bare \/ Backed(item, task)
  /\ q.pc \in Calls => Change(q)
  /\ q.pc \in {"patch", "follow", "reopen", "undoPatch"} => Patch(q)
  /\ q.pc = "sync" => SameStage(q.status, item.status)

\* At rest there may be no request to speak of.
FilingInv ==
  /\ \A r \in Requests : Stands(req[r])
  /\ (\A r \in Requests : Free(r)) => bare \/ Backed(item, task)

-----------------------------------------------------------------------------
(* EdgeFiling: types. *)

Reqs == {Idle} \cup Changes \cup Patches \cup Ticks \cup Syncs

\* What a request has read, by where it is.
LEMMA OfReq ==
  ASSUME NEW q \in Reqs
  PROVE  /\ q.pc \in {"idle"} \cup Calls \cup {"patch", "follow", "reopen", "undoPatch", "tick", "sync"}
         /\ q.pc = "idle" => q = Idle
         /\ q.pc \in Calls => q \in Changes
         /\ q.pc \in {"patch", "follow", "reopen", "undoPatch"} => q \in Patches
         /\ q.pc = "tick" => q \in Ticks
         /\ q.pc = "sync" => q \in Syncs
<1>1. CASE q = Idle
  BY <1>1 DEF Idle, Calls
<1>2. CASE q \in Changes
  BY <1>2 DEF Changes, Calls
<1>3. CASE q \in Patches
  BY <1>3 DEF Patches, Calls
<1>4. CASE q \in Ticks
  BY <1>4 DEF Ticks, Calls
<1>5. CASE q \in Syncs
  BY <1>5 DEF Syncs, Calls
<1> QED  BY <1>1, <1>2, <1>3, <1>4, <1>5 DEF Reqs

\* Where a request goes it keeps what it has read.
LEMMA GoesOn ==
  ASSUME NEW q \in Reqs, NEW pc
  PROVE  /\ q.pc \in Calls /\ pc \in Calls => [q EXCEPT !.pc = pc] \in Changes
         /\ q \in Patches /\ pc \in {"patch", "follow", "reopen", "undoPatch"} =>
              [q EXCEPT !.pc = pc] \in Patches
<1>1. q.pc \in Calls => q \in Changes
  BY OfReq
<1> QED  BY <1>1 DEF Changes, Patches

\* A request that is put in hand is one there can be.
LEMMA HoldType ==
  ASSUME TypeOK, NEW r \in Requests, NEW q \in Reqs, Hold(r, q)
  PROVE  req' \in [Requests -> Reqs] /\ req'[r] = q
  BY DEF TypeOK, Hold, Reqs

\* An item whose status is worked out is open.
LEMMA DeriveOpen == \A due, day : Derive(due, day) \in OpenStatuses
  BY DEF Derive, OpenStatuses

\* An update of the task by its item: its status and its date, if it is there.
LEMMA SetTaskType ==
  ASSUME task \in Tasks, NEW status \in TaskStatuses, NEW completed \in BOOLEAN, SetTask(status, completed)
  PROVE  /\ task' \in Tasks
         /\ task'.exists = task.exists
         /\ task.exists => /\ task'.status = status /\ task'.completed = completed
                           /\ SameWork(task', task)
         /\ ~task.exists => task' = task
<1>1. CASE task.exists
  BY <1>1 DEF SetTask, Tasks, SameWork
<1>2. CASE ~task.exists
  BY <1>2 DEF SetTask
<1> QED  BY <1>1, <1>2

\* What a PATCH sends over a row: the assignee and the checklist, ...
LEMMA SentType ==
  ASSUME NEW q \in Patches, NEW row \in Tasks
  PROVE  /\ SentOver(q, row) \in Tasks
         /\ SentOver(q, row).exists = row.exists
         /\ SentOver(q, row).status = row.status /\ SentOver(q, row).completed = row.completed
  BY DEF SentOver, Tasks

\* ... and the status with its date.
LEMMA PatchedType ==
  ASSUME NEW q \in Patches, NEW row \in Tasks
  PROVE  /\ Patched(q, row) \in Tasks
         /\ Patched(q, row).exists = row.exists
         /\ Patched(q, row).status = IF q.to = "unsent" THEN row.status ELSE q.to
         /\ SameWork(Patched(q, row), SentOver(q, row))
<1>1. q.to \in TaskStatuses \cup {"unsent"} /\ SentOver(q, row) \in Tasks
  BY SentType DEF Patches
<1> DEFINE sent == SentOver(q, row)
           to == IF q.to = "unsent" THEN sent.status ELSE q.to
           done == q.to = "DONE" \/ (sent.completed /\ ~LeavingDone(q))
<1>2. Patched(q, row) = [sent EXCEPT !.status = to, !.completed = done]
  BY DEF Patched
<1>3. to \in TaskStatuses /\ done \in BOOLEAN /\ sent \in Tasks
  BY <1>1 DEF Tasks
<1>4. sent.exists = row.exists /\ to = IF q.to = "unsent" THEN row.status ELSE q.to
  BY SentType
<1> HIDE DEF sent, to, done
<1>5. /\ Patched(q, row) \in Tasks /\ Patched(q, row).exists = sent.exists
      /\ Patched(q, row).status = to /\ SameWork(Patched(q, row), sent)
  BY <1>2, <1>3 DEF Tasks, SameWork
<1> QED  BY <1>4, <1>5 DEF sent

\* A row is what its columns are.
LEMMA SameTask ==
  ASSUME NEW a \in Tasks, NEW b \in Tasks, a.exists = b.exists, a.status = b.status,
         a.completed = b.completed, SameWork(a, b)
  PROVE  a = b
  BY DEF Tasks, SameWork

LEMMA InitType == EdgeFilingAssumption /\ Init => TypeOK
<1> SUFFICES ASSUME EdgeFilingAssumption, Init PROVE TypeOK
  OBVIOUS
<1>1. item \in Items
  <2>1. PICK due \in DueDates :
          item = [status |-> Derive(due, 0), due |-> due, completed |-> FALSE,
                  attested |-> FALSE, signed |-> FALSE]
    BY DEF Init
  <2> QED  BY <2>1, DeriveOpen DEF Items
<1>2. task \in Tasks
  BY DEF Init, Tasks, NoTask, TaskStatuses
<1>3. req \in [Requests -> {Idle} \cup Changes \cup Patches \cup Ticks \cup Syncs]
  BY DEF Init
<1>4. today \in 0..MaxDay /\ faults \in 0..MaxFaults
  BY DEF Init, EdgeFilingAssumption
<1> QED  BY <1>1, <1>2, <1>3, <1>4 DEF Init, TypeOK

LEMMA TypeStep == EdgeFilingAssumption /\ TypeOK /\ [Next]_vars => TypeOK'
<1> SUFFICES ASSUME EdgeFilingAssumption, TypeOK, [Next]_vars PROVE TypeOK'
  OBVIOUS
<1> USE DEF Reqs
<1>0. /\ Idle \in Reqs /\ TaskStatuses = {"TODO", "IN_PROGRESS", "BLOCKED", "DONE", "CANCELLED"}
      /\ \A status : TaskStatusFor(status) \in TaskStatuses
  BY DEF TaskStatuses, TaskStatusFor
<1>f. ASSUME Fail PROVE faults' \in 0..MaxFaults /\ item' \in Items /\ task' \in Tasks
  BY <1>f DEF Fail, TypeOK, EdgeFilingAssumption, rows
<1>i. /\ today \in 0..MaxDay /\ item \in Items /\ task \in Tasks /\ docs \in BOOLEAN
      /\ faults \in 0..MaxFaults /\ bare \in BOOLEAN
      /\ req \in [Requests -> Reqs]
  BY DEF TypeOK
<1>t. ASSUME NEW status \in TaskStatuses, NEW completed \in BOOLEAN, SetTask(status, completed)
      PROVE  task' \in Tasks
  BY <1>i, <1>t, SetTaskType
<1>r. ASSUME NEW r \in Requests, Request(r) PROVE TypeOK'
  <2> DEFINE q == req[r]
  <2>q. q \in Reqs
    BY <1>i
  <2>c. q.pc \in Calls =>
          /\ q \in Changes /\ q.to \in OpenStatuses \cup Settled /\ q.attested \in BOOLEAN /\ q.signed \in BOOLEAN
          /\ q.item \in Items /\ q.task \in Tasks
    BY <2>q, OfReq DEF Changes
  <2>p. q.pc \in {"patch", "follow", "reopen", "undoPatch"} =>
          q \in Patches /\ q.task \in Tasks
    BY <2>q, OfReq DEF Patches
  <2>g. ASSUME NEW p \in Reqs, Hold(r, p) PROVE req' \in [Requests -> Reqs]
    BY <2>g, HoldType
  <2>h. ASSUME NEW pc \in Calls, q.pc \in Calls, GoTo(r, pc) PROVE req' \in [Requests -> Reqs]
    <3>1. [q EXCEPT !.pc = pc] \in Reqs
      BY <2>q, <2>h, GoesOn
    <3> QED  BY <2>h, <3>1, <1>i DEF GoTo
  <2>k. ASSUME NEW pc \in {"patch", "follow", "reopen", "undoPatch"}, q \in Patches, GoTo(r, pc)
        PROVE  req' \in [Requests -> Reqs]
    <3>1. [q EXCEPT !.pc = pc] \in Reqs
      BY <2>q, <2>k, GoesOn
    <3> QED  BY <2>k, <3>1, <1>i DEF GoTo
  <2>1. CASE ChangeRead(r)
    <3>1. PICK to \in OpenStatuses \cup Settled, attestation \in Texts, sent \in Texts \cup {"absent"} :
            Hold(r, [pc |-> "item", to |-> to,
                     attested |-> to = "COMPLETED" /\ attestation # "blank",
                     signed |-> to = "COMPLETED" /\ Signatory(sent) = "ok",
                     item |-> item, task |-> task])
      BY <2>1 DEF ChangeRead
    <3> DEFINE p == [pc |-> "item", to |-> to,
                     attested |-> to = "COMPLETED" /\ attestation # "blank",
                     signed |-> to = "COMPLETED" /\ Signatory(sent) = "ok",
                     item |-> item, task |-> task]
    <3>2. p \in Changes
      BY <1>i DEF Changes, Calls
    <3>3. req' \in [Requests -> Reqs]
      BY <3>1, <3>2, <2>g
    <3> QED  BY <2>1, <3>3, <1>i DEF ChangeRead, TypeOK, rows
  <2>2. CASE ItemWrite(r)
    <3>1. q.pc \in Calls /\ "task" \in Calls
      BY <2>2 DEF ItemWrite, At, Calls
    <3>2. ItemUpdate(q) \in Items
      BY <3>1, <2>c, <1>i DEF ItemUpdate, Items
    <3> HIDE DEF q
    <3>3. req' \in [Requests -> Reqs]
      BY <2>2, <3>1, <2>g, <2>h, <1>0 DEF ItemWrite
    <3>4. item' \in Items /\ task' \in Tasks /\ faults' \in 0..MaxFaults
      BY <2>2, <3>2, <1>f, <1>i DEF ItemWrite, q
    <3> QED  BY <2>2, <3>3, <3>4, <1>i DEF ItemWrite, TypeOK
  <2>3. CASE TaskWrite(r)
    <3>1. q.pc \in Calls /\ "audit" \in Calls
      BY <2>3 DEF TaskWrite, At, Calls
    <3> HIDE DEF q
    <3>3. req' \in [Requests -> Reqs]
      BY <2>3, <3>1, <2>g, <2>h, <1>0 DEF TaskWrite
    <3>4. item' \in Items /\ task' \in Tasks /\ faults' \in 0..MaxFaults /\ bare' \in BOOLEAN
      BY <2>3, <1>0, <1>t, <1>f, <1>i DEF TaskWrite
    <3> QED  BY <2>3, <3>3, <3>4, <1>i DEF TaskWrite, TypeOK
  <2>4. CASE AuditWrite(r)
    <3>1. q.pc \in Calls /\ "undoItem" \in Calls
      BY <2>4 DEF AuditWrite, At, Calls
    <3> HIDE DEF q
    <3>3. req' \in [Requests -> Reqs]
      BY <2>4, <3>1, <2>g, <2>h, <1>0 DEF AuditWrite
    <3>4. item' \in Items /\ task' \in Tasks /\ faults' \in 0..MaxFaults /\ bare' \in BOOLEAN
      BY <2>4, <1>f, <1>i DEF AuditWrite, rows
    <3> QED  BY <2>4, <3>3, <3>4, <1>i DEF AuditWrite, TypeOK
  <2>5. CASE UndoItem(r)
    <3>1. q.pc \in Calls /\ "undoTask" \in Calls
      BY <2>5 DEF UndoItem, At, Calls
    <3>2. q.item \in Items
      BY <3>1, <2>c
    <3>4. item' \in Items /\ task' \in Tasks /\ faults' \in 0..MaxFaults
      <4>1. CASE Fail  BY <4>1, <1>f
      <4>2. CASE ~Fail
        BY <2>5, <3>2, <4>2, <1>i DEF UndoItem, Items
      <4> QED  BY <4>1, <4>2
    <3> HIDE DEF q
    <3>3. req' \in [Requests -> Reqs]
      BY <2>5, <3>1, <2>g, <2>h, <1>0 DEF UndoItem
    <3> QED  BY <2>5, <3>3, <3>4, <1>i DEF UndoItem, TypeOK
  <2>6. CASE UndoTask(r)
    <3>1. q.task.status \in TaskStatuses /\ q.task.completed \in BOOLEAN
      BY <2>6, <2>c DEF UndoTask, At, Calls, Tasks
    <3>3. req' \in [Requests -> Reqs]
      BY <2>6, <2>g, <1>0 DEF UndoTask
    <3>4. item' \in Items /\ task' \in Tasks /\ faults' \in 0..MaxFaults
      BY <2>6, <3>1, <1>t, <1>f, <1>i DEF UndoTask
    <3> QED  BY <2>6, <3>3, <3>4, <1>i DEF UndoTask, TypeOK
  <2>7. CASE PatchRead(r)
    <3>1. PICK to \in TaskStatuses \cup {"unsent"}, assignee \in {"unsent", "yes", "no"},
               checklist \in {"unsent", "open", "done"} :
            Hold(r, [pc |-> "patch", task |-> task, to |-> to,
                     assignee |-> assignee, checklist |-> checklist])
      BY <2>7 DEF PatchRead
    <3>2. [pc |-> "patch", task |-> task, to |-> to,
           assignee |-> assignee, checklist |-> checklist] \in Patches
      BY <1>i DEF Patches
    <3>3. req' \in [Requests -> Reqs]
      BY <3>1, <3>2, <2>g
    <3> QED  BY <2>7, <3>3, <1>i DEF PatchRead, TypeOK, rows
  <2>8. CASE PatchWrite(r)
    <3>1. q \in Patches
      BY <2>8, <2>p DEF PatchWrite, At
    <3>2. [q EXCEPT !.pc = "follow"] \in Reqs
      BY <2>q, <3>1, GoesOn
    <3>3. req' \in [Requests -> Reqs]
      BY <2>8, <3>2, <2>g, <1>0 DEF PatchWrite
    <3>4. item' \in Items /\ task' \in Tasks /\ faults' \in 0..MaxFaults
      <4>1. CASE Fail  BY <4>1, <1>f
      <4>2. CASE task' = Patched(q, task) /\ UNCHANGED <<item, faults>>
        BY <4>2, <3>1, <1>i, PatchedType
      <4>3. CASE UNCHANGED <<rows, faults>>
        BY <4>3, <1>i DEF rows
      <4> QED  BY <2>8, <4>1, <4>2, <4>3 DEF PatchWrite
    <3> QED  BY <2>8, <3>3, <3>4, <1>i DEF PatchWrite, TypeOK
  <2>9. CASE PatchFollow(r)
    <3>1. q \in Patches
      BY <2>9, <2>p DEF PatchFollow, At
    <3> HIDE DEF q
    <3>3. req' \in [Requests -> Reqs]
      BY <2>9, <3>1, <2>g, <2>k, <1>0 DEF PatchFollow
    <3>4. item' \in Items /\ task' \in Tasks /\ faults' \in 0..MaxFaults
      BY <2>9, <1>f, <1>i DEF PatchFollow, rows
    <3> QED  BY <2>9, <3>3, <3>4, <1>i DEF PatchFollow, TypeOK
  <2>10. CASE ReopenWrite(r)
    <3>1. q \in Patches
      BY <2>10, <2>p DEF ReopenWrite, At
    <3> HIDE DEF q
    <3>3. req' \in [Requests -> Reqs]
      BY <2>10, <3>1, <2>g, <2>k, <1>0 DEF ReopenWrite
    <3>4. item' \in Items /\ task' \in Tasks /\ faults' \in 0..MaxFaults /\ bare' \in BOOLEAN
      <4>1. CASE Fail /\ UNCHANGED bare  BY <4>1, <1>f, <1>i
      <4>2. ASSUME NEW elapsed \in {0, 1},
                   item' = [item EXCEPT !.status = Derive(item.due, today + elapsed),
                                        !.completed = FALSE, !.attested = FALSE, !.signed = FALSE],
                   bare' = FALSE, UNCHANGED <<task, faults>>
            PROVE  item' \in Items /\ task' \in Tasks /\ faults' \in 0..MaxFaults /\ bare' \in BOOLEAN
        <5>1. Derive(item.due, today + elapsed) \in OpenStatuses
          BY DeriveOpen
        <5> QED  BY <4>2, <5>1, <1>i DEF Items
      <4> QED  BY <2>10, <4>1, <4>2 DEF ReopenWrite
    <3> QED  BY <2>10, <3>3, <3>4, <1>i DEF ReopenWrite, TypeOK
  <2>11. CASE UndoPatch(r)
    <3>1. q.task.status \in TaskStatuses /\ q.task.completed \in BOOLEAN
      BY <2>11, <2>p DEF UndoPatch, At, Tasks
    <3>3. req' \in [Requests -> Reqs]
      BY <2>11, <2>g, <1>0 DEF UndoPatch
    <3>4. item' \in Items /\ task' \in Tasks /\ faults' \in 0..MaxFaults
      BY <2>11, <3>1, <1>t, <1>f, <1>i DEF UndoPatch
    <3> QED  BY <2>11, <3>3, <3>4, <1>i DEF UndoPatch, TypeOK
  <2>12. CASE Assign(r)
    <3>1. task' \in Tasks
      BY <2>12, <1>i DEF Assign, Tasks
    <3> QED  BY <2>12, <3>1, <1>i DEF Assign, TypeOK
  <2>13. CASE TickRead(r)
    <3>1. PICK open \in BOOLEAN : Hold(r, [pc |-> "tick", open |-> open])
      BY <2>13 DEF TickRead
    <3>2. [pc |-> "tick", open |-> open] \in Ticks
      BY DEF Ticks
    <3>3. req' \in [Requests -> Reqs]
      BY <3>1, <3>2, <2>g
    <3> QED  BY <2>13, <3>3, <1>i DEF TickRead, TypeOK, rows
  <2>14. CASE TickWrite(r)
    <3>1. q.open \in BOOLEAN
      BY <2>14, <2>q, OfReq DEF TickWrite, At, Ticks
    <3>3. req' \in [Requests -> Reqs]
      BY <2>14, <2>g, <1>0 DEF TickWrite
    <3>4. item' \in Items /\ task' \in Tasks /\ faults' \in 0..MaxFaults
      <4>1. CASE Fail  BY <4>1, <1>f
      <4>2. CASE ~Fail  BY <2>14, <3>1, <4>2, <1>i DEF TickWrite, Tasks
      <4> QED  BY <4>1, <4>2
    <3> QED  BY <2>14, <3>3, <3>4, <1>i DEF TickWrite, TypeOK
  <2>15. CASE DeleteTask(r)
    BY <2>15, <1>i DEF DeleteTask, TypeOK, NoTask, Tasks, TaskStatuses
  <2>16. CASE SyncRead(r)
    <3>1. PICK due \in DueDates :
            Hold(r, [pc |-> "sync", due |-> due,
                     status |-> IF item.status \in Settled THEN item.status ELSE Derive(due, today)])
      BY <2>16 DEF SyncRead
    <3>2. [pc |-> "sync", due |-> due,
           status |-> IF item.status \in Settled THEN item.status ELSE Derive(due, today)] \in Syncs
      BY DeriveOpen DEF Syncs
    <3>3. req' \in [Requests -> Reqs]
      BY <3>1, <3>2, <2>g
    <3> QED  BY <2>16, <3>3, <1>i DEF SyncRead, TypeOK, rows
  <2>17. CASE SyncWrite(r)
    <3>1. q.status \in OpenStatuses \cup Settled /\ q.due \in DueDates
      BY <2>17, <2>q, OfReq DEF SyncWrite, At, Syncs
    <3>3. req' \in [Requests -> Reqs]
      BY <2>17, <2>g, <1>0 DEF SyncWrite
    <3>4. item' \in Items /\ task' \in Tasks /\ faults' \in 0..MaxFaults
      <4>1. CASE Fail  BY <4>1, <1>f
      <4>2. CASE ~Fail  BY <2>17, <3>1, <4>2, <1>i DEF SyncWrite, Items
      <4> QED  BY <4>1, <4>2
    <3> QED  BY <2>17, <3>3, <3>4, <1>i DEF SyncWrite, TypeOK
  <2>18. CASE Evidence(r)
    BY <2>18, <1>i DEF Evidence, TypeOK, rows
  <2> QED
    BY <1>r, <2>1, <2>2, <2>3, <2>4, <2>5, <2>6, <2>7, <2>8, <2>9, <2>10, <2>11, <2>12, <2>13, <2>14,
       <2>15, <2>16, <2>17, <2>18 DEF Request
<1>1. CASE RefreshStatuses
  <2>1. item' \in Items
    BY <1>1, <1>i, DeriveOpen DEF RefreshStatuses, Items
  <2> QED  BY <1>1, <2>1, <1>i DEF RefreshStatuses, TypeOK
<1>2. CASE NextDay
  BY <1>2, <1>i DEF NextDay, TypeOK, rows, EdgeFilingAssumption
<1>3. CASE UNCHANGED vars
  BY <1>3, <1>i DEF vars, TypeOK
<1> QED  BY <1>r, <1>1, <1>2, <1>3 DEF Next

\* The rows, the requests and what they have read are well formed in every
\* reachable state, for any number of requests and of calls that fail.
THEOREM FilingTypeCorrect == Spec => []TypeOK
<1>1. Init => TypeOK
  BY EdgeFilingAssumption, InitType
<1>2. TypeOK /\ [Next]_vars => TypeOK'
  BY EdgeFilingAssumption, TypeStep
<1> QED  BY <1>1, <1>2, PTL DEF Spec

-----------------------------------------------------------------------------
(* EdgeFiling: the invariant, step by step. *)

\* What r has in hand after it is put there.
LEMMA ReqHeld ==
  ASSUME TypeOK, NEW r \in Requests
  PROVE  /\ req[r] \in Reqs
         /\ \A q : Hold(r, q) => req'[r] = q
         /\ \A pc : GoTo(r, pc) => req'[r] = [req[r] EXCEPT !.pc = pc]
  BY DEF TypeOK, Reqs, Hold, GoTo

\* A request that goes on knows what it knew.
LEMMA GoneTo ==
  ASSUME TypeOK, NEW r \in Requests, NEW pc, GoTo(r, pc), req[r] \in Changes \cup Patches
  PROVE  /\ req'[r].pc = pc /\ req'[r].to = req[r].to /\ req'[r].task = req[r].task
         /\ req[r] \in Changes => req'[r].item = req[r].item
         /\ req[r] \in Patches => \A row : SentOver(req'[r], row) = SentOver(req[r], row)
<1>1. req'[r] = [req[r] EXCEPT !.pc = pc]
  BY ReqHeld
<1>2. req[r] \in Patches =>
        req'[r].assignee = req[r].assignee /\ req'[r].checklist = req[r].checklist
  BY <1>1 DEF Patches
<1>3. req[r] \in Patches => \A row : SentOver(req'[r], row) = SentOver(req[r], row)
  BY <1>2 DEF SentOver
<1> QED  BY <1>1, <1>3 DEF Changes, Patches

\* A change of the item's status, from the read to the audit entry or the rollback.
LEMMA ChangeSteps ==
  ASSUME TypeOK, OneFault, EdgeFilingAssumption, NEW r \in Requests, Stands(req[r]),
         ChangeRead(r) \/ ItemWrite(r) \/ TaskWrite(r) \/ AuditWrite(r) \/ UndoItem(r) \/ UndoTask(r)
  PROVE  Stands(req[r])'
<1> DEFINE q == req[r]
           p == req'[r]
<1> USE DEF Calls
<1>0. /\ q \in Reqs
      /\ q.pc \in Calls => q \in Changes
      /\ item \in Items /\ task \in Tasks /\ faults \in 0..MaxFaults /\ MaxFaults \in Nat
  BY ReqHeld, OfReq DEF TypeOK, EdgeFilingAssumption
<1>i. Idle.pc = "idle"
  BY DEF Idle
<1>1. CASE ChangeRead(r)
  <2>1. PICK to \in OpenStatuses \cup Settled, attested \in BOOLEAN, signed \in BOOLEAN :
          Hold(r, [pc |-> "item", to |-> to, attested |-> attested, signed |-> signed,
                   item |-> item, task |-> task])
    BY <1>1 DEF ChangeRead
  <2>2. p.pc = "item" /\ p.item = item /\ p.task = task
    BY <2>1, ReqHeld
  <2>3. bare \/ Backed(item, task)
    BY <1>1 DEF ChangeRead, Free, Stands
  <2> QED  BY <1>1, <2>2, <2>3 DEF ChangeRead, Stands, Change, SameClaim, SameStage, rows
<1>2. CASE ItemWrite(r)
  <2>1. q.pc = "item" /\ q \in Changes /\ Change(q) /\ (bare \/ Backed(item, task))
    BY <1>0, <1>2 DEF ItemWrite, At, Stands
  <2>2. CASE Fail /\ Hold(r, Idle)
    BY <1>2, <1>i, <2>1, <2>2, ReqHeld DEF ItemWrite, Fail, rows, Stands
  <2>3. CASE item' = ItemUpdate(q) /\ GoTo(r, "task") /\ UNCHANGED <<task, faults>>
    <3>1. p.pc = "task" /\ p.to = q.to /\ p.item = q.item /\ p.task = q.task
      BY <2>1, <2>3, GoneTo
    <3>2. item'.status = q.to /\ item'.completed = (q.to = "COMPLETED")
      BY <1>0, <2>3 DEF ItemUpdate, Items
    <3> QED  BY <1>2, <2>1, <2>3, <3>1, <3>2 DEF ItemWrite, Stands, Change, SameStage
  <2> QED  BY <1>2, <2>2, <2>3 DEF ItemWrite
<1>3. CASE TaskWrite(r)
  <2>1. q.pc = "task" /\ q \in Changes /\ Change(q)
    BY <1>0, <1>3 DEF TaskWrite, At, Stands
  <2>2. CASE Fail /\ Hold(r, Idle) /\ bare' = TRUE
    BY <1>i, <2>2, ReqHeld DEF Stands
  <2>3. CASE /\ SetTask(TaskStatusFor(q.to), q.to = "COMPLETED")
             /\ GoTo(r, "audit") /\ UNCHANGED <<item, faults, bare>>
    <3>1. p.pc = "audit" /\ p.to = q.to /\ p.item = q.item /\ p.task = q.task
      BY <2>1, <2>3, GoneTo
    <3>2. TaskStatusFor(q.to) \in TaskStatuses
      BY DEF TaskStatusFor, TaskStatuses
    <3>3. IF task.exists
          THEN task'.exists /\ task'.status = TaskStatusFor(q.to) /\ SameWork(task', task)
          ELSE task' = task
      BY <1>0, <2>3, <3>2, SetTaskType
    <3> QED  BY <2>1, <2>3, <3>1, <3>3 DEF Stands, Change
  <2> QED  BY <1>3, <2>2, <2>3 DEF TaskWrite
<1>4. CASE AuditWrite(r)
  <2>1. q.pc = "audit" /\ q \in Changes /\ Change(q)
    BY <1>0, <1>4 DEF AuditWrite, At, Stands
  <2>2. CASE Hold(r, Idle) /\ UNCHANGED <<rows, faults>>
    <3>1. p.pc = "idle"
      BY <1>i, <2>2, ReqHeld
    <3>2. Backed(item, task)
      BY <2>1 DEF Change, Backed, SameStage, OpenStatuses, TaskStatusFor
    <3> QED  BY <2>2, <3>1, <3>2 DEF Stands, rows
  <2>3. CASE Fail /\ GoTo(r, "undoItem") /\ UNCHANGED bare
    <3>1. p.pc = "undoItem" /\ p.to = q.to /\ p.item = q.item /\ p.task = q.task
      BY <2>1, <2>3, GoneTo
    <3>2. faults' >= 1 /\ UNCHANGED <<item, task>>
      BY <1>0, <2>3 DEF Fail, rows
    <3> QED  BY <2>1, <2>3, <3>1, <3>2 DEF Stands, Change
  <2> QED  BY <1>4, <2>2, <2>3 DEF AuditWrite
<1>5. CASE UndoItem(r)
  <2>1. q.pc = "undoItem" /\ q \in Changes /\ Change(q) /\ q.item \in Items
    BY <1>0, <1>5 DEF UndoItem, At, Stands, Changes
  <2>2. ~Fail
    BY <1>0, <2>1 DEF Fail, Change, OneFault
  <2>3. /\ item' = [item EXCEPT !.status = q.item.status, !.completed = q.item.completed,
                                !.attested = q.item.attested, !.signed = q.item.signed]
        /\ UNCHANGED <<task, faults, bare>>
    BY <1>5, <2>2 DEF UndoItem
  <2>4. SameClaim(item', q.item) /\ item'.status = q.item.status /\ item'.completed = q.item.completed
    BY <1>0, <2>1, <2>3 DEF Items, SameClaim, SameStage
  <2>5. CASE q.task.exists
    <3>1. p.pc = "undoTask" /\ p.to = q.to /\ p.item = q.item /\ p.task = q.task
      BY <1>5, <2>1, <2>5, GoneTo DEF UndoItem
    <3> QED  BY <2>1, <2>3, <2>4, <2>5, <3>1 DEF Stands, Change
  <2>6. CASE ~q.task.exists
    <3>1. p.pc = "idle"
      BY <1>5, <1>i, <2>6, ReqHeld DEF UndoItem
    <3>2. bare \/ Backed(item', task)
      BY <2>1, <2>4, <2>6 DEF Change, Backed
    <3> QED  BY <2>3, <3>1, <3>2 DEF Stands
  <2> QED  BY <2>5, <2>6
<1>6. CASE UndoTask(r)
  <2>1. q.pc = "undoTask" /\ q \in Changes /\ Change(q) /\ q.task \in Tasks
    BY <1>0, <1>6 DEF UndoTask, At, Stands, Changes
  <2>2. ~Fail
    BY <1>0, <2>1 DEF Fail, Change, OneFault
  <2>3. SetTask(q.task.status, q.task.completed) /\ UNCHANGED <<item, bare>> /\ p.pc = "idle"
    BY <1>6, <1>i, <2>2, ReqHeld DEF UndoTask
  <2>4. q.task.status \in TaskStatuses /\ q.task.completed \in BOOLEAN
    BY <2>1 DEF Tasks
  <2>5. task.exists => task'.status = q.task.status
    BY <1>0, <2>3, <2>4, SetTaskType
  <2>6. task.exists /\ q.task.exists
    BY <2>1 DEF Change
  <2>7. bare \/ Backed(item, task')
    BY <2>1, <2>5, <2>6 DEF Change, Backed, SameClaim, SameStage, OpenStatuses
  <2> QED  BY <2>3, <2>7 DEF Stands
<1> QED  BY <1>1, <1>2, <1>3, <1>4, <1>5, <1>6

\* A task's move, and what it does to the item behind it.
LEMMA PatchSteps ==
  ASSUME TypeOK, OneFault, EdgeFilingAssumption, NEW r \in Requests, Stands(req[r]),
         PatchRead(r) \/ PatchWrite(r) \/ PatchFollow(r) \/ ReopenWrite(r) \/ UndoPatch(r)
  PROVE  Stands(req[r])'
<1> DEFINE q == req[r]
           p == req'[r]
<1> USE DEF Calls
<1>0. /\ q \in Reqs
      /\ q.pc \in {"patch", "follow", "reopen", "undoPatch"} =>
           q \in Patches /\ q.task \in Tasks
      /\ item \in Items /\ task \in Tasks /\ faults \in 0..MaxFaults /\ MaxFaults \in Nat
  BY ReqHeld, OfReq DEF TypeOK, EdgeFilingAssumption, Patches
<1>i. Idle.pc = "idle"
  BY DEF Idle
<1>1. CASE PatchRead(r)
  <2>1. PICK to \in TaskStatuses \cup {"unsent"}, assignee \in {"unsent", "yes", "no"},
             checklist \in {"unsent", "open", "done"} :
          Hold(r, [pc |-> "patch", task |-> task, to |-> to,
                   assignee |-> assignee, checklist |-> checklist])
    BY <1>1 DEF PatchRead
  <2>2. p.pc = "patch" /\ p.task = task
    BY <2>1, ReqHeld
  <2>3. bare \/ Backed(item, task)
    BY <1>1 DEF PatchRead, Free, Stands
  <2> QED  BY <1>1, <2>2, <2>3 DEF PatchRead, Stands, Patch, rows
<1>2. CASE PatchWrite(r)
  <2>1. q.pc = "patch" /\ q \in Patches /\ Patch(q) /\ (bare \/ Backed(item, task)) /\ q.task = task
    BY <1>0, <1>2 DEF PatchWrite, At, Stands, Patch
  <2>2. CASE (~task.exists \/ Fail) /\ Hold(r, Idle) /\ UNCHANGED <<rows, bare>>
    BY <1>i, <2>1, <2>2, ReqHeld DEF rows, Stands
  <2>3. CASE /\ task.exists
             /\ task' = Patched(q, task)
             /\ Hold(r, IF LeavingDone(q) THEN [q EXCEPT !.pc = "follow"] ELSE Idle)
             /\ UNCHANGED <<item, faults, bare>>
    <3>1. /\ task'.exists /\ task'.status = IF q.to = "unsent" THEN task.status ELSE q.to
          /\ SameWork(task', SentOver(q, q.task))
      BY <1>0, <2>1, <2>3, PatchedType
    <3>2. CASE LeavingDone(q)
      <4>1. p = [q EXCEPT !.pc = "follow"]
        BY <2>3, <3>2, ReqHeld
      <4>2. p.pc = "follow" /\ p.task = q.task /\ p.to = q.to
        BY <2>1, <4>1 DEF Patches
      <4>3. p.assignee = q.assignee /\ p.checklist = q.checklist
        BY <2>1, <4>1 DEF Patches
      <4>4. SentOver(p, p.task) = SentOver(q, q.task)
        BY <4>2, <4>3 DEF SentOver
      <4> QED  BY <2>1, <2>3, <3>1, <3>2, <4>2, <4>4 DEF Stands, Patch, LeavingDone
    <3>3. CASE ~LeavingDone(q)
      <4>1. p.pc = "idle"
        BY <1>i, <2>3, <3>3, ReqHeld
      <4>2. bare \/ Backed(item, task')
        BY <2>1, <2>3, <3>1, <3>3 DEF Backed, LeavingDone
      <4> QED  BY <2>3, <4>1, <4>2 DEF Stands
    <3> QED  BY <3>2, <3>3
  <2> QED  BY <1>2, <2>2, <2>3 DEF PatchWrite, Fail
<1>3. CASE PatchFollow(r)
  <2>1. q.pc = "follow" /\ q \in Patches /\ Patch(q)
    BY <1>0, <1>3 DEF PatchFollow, At, Stands
  <2>2. CASE GoTo(r, "reopen") /\ UNCHANGED <<rows, faults, bare>>
    <3>1. p.pc = "reopen" /\ p.to = q.to /\ p.task = q.task /\ SentOver(p, p.task) = SentOver(q, q.task)
      BY <2>1, <2>2, GoneTo
    <3> QED  BY <2>1, <2>2, <3>1 DEF Stands, Patch, LeavingDone, rows
  <2>3. CASE item.status # "COMPLETED" /\ Hold(r, Idle) /\ UNCHANGED <<rows, faults, bare>>
    BY <1>i, <2>3, ReqHeld DEF Stands, Backed, rows
  <2>4. CASE Fail /\ GoTo(r, "undoPatch") /\ UNCHANGED bare
    <3>1. p.pc = "undoPatch" /\ p.to = q.to /\ p.task = q.task /\ SentOver(p, p.task) = SentOver(q, q.task)
      BY <2>1, <2>4, GoneTo
    <3>2. faults' >= 1 /\ UNCHANGED <<item, task>>
      BY <1>0, <2>4 DEF Fail, rows
    <3> QED  BY <2>1, <2>4, <3>1, <3>2 DEF Stands, Patch, LeavingDone
  <2> QED  BY <1>3, <2>2, <2>3, <2>4 DEF PatchFollow
<1>4. CASE ReopenWrite(r)
  <2>1. q.pc = "reopen" /\ q \in Patches /\ Patch(q)
    BY <1>0, <1>4 DEF ReopenWrite, At, Stands
  <2>2. ASSUME NEW elapsed \in {0, 1},
               item' = [item EXCEPT !.status = Derive(item.due, today + elapsed),
                                    !.completed = FALSE, !.attested = FALSE, !.signed = FALSE],
               Hold(r, Idle)
        PROVE  Stands(req[r])'
    <3>1. item'.status \in OpenStatuses
      BY <1>0, <2>2, DeriveOpen DEF Items
    <3>2. Backed(item', task') /\ p.pc = "idle"
      BY <1>i, <2>2, <3>1, ReqHeld DEF Backed, OpenStatuses
    <3> QED  BY <3>2 DEF Stands
  <2>3. CASE Fail /\ GoTo(r, "undoPatch") /\ UNCHANGED bare
    <3>1. p.pc = "undoPatch" /\ p.to = q.to /\ p.task = q.task /\ SentOver(p, p.task) = SentOver(q, q.task)
      BY <2>1, <2>3, GoneTo
    <3>2. faults' >= 1 /\ UNCHANGED <<item, task>>
      BY <1>0, <2>3 DEF Fail, rows
    <3> QED  BY <2>1, <2>3, <3>1, <3>2 DEF Stands, Patch, LeavingDone
  <2> QED  BY <1>4, <2>2, <2>3 DEF ReopenWrite
<1>5. CASE UndoPatch(r)
  <2>1. q.pc = "undoPatch" /\ q \in Patches /\ Patch(q) /\ q.task \in Tasks
    BY <1>0, <1>5 DEF UndoPatch, At, Stands
  <2>2. ~Fail
    BY <1>0, <2>1 DEF Fail, Patch, OneFault
  <2>3. SetTask(q.task.status, q.task.completed) /\ UNCHANGED <<item, bare>> /\ p.pc = "idle"
    BY <1>5, <1>i, <2>2, ReqHeld DEF UndoPatch
  <2>4. q.task.status \in TaskStatuses /\ q.task.completed \in BOOLEAN /\ q.task.status = "DONE"
    BY <2>1 DEF Tasks, Patch, LeavingDone
  <2>5. task'.status = "DONE"
    BY <1>0, <2>1, <2>3, <2>4, SetTaskType DEF Patch
  <2>6. CASE bare  BY <2>3, <2>6 DEF Stands
  <2>7. CASE ~bare
    <3>1. item.status = "COMPLETED" => item.completed
      BY <2>1, <2>7 DEF Patch, Backed
    <3> QED  BY <2>3, <2>5, <3>1 DEF Stands, Backed
  <2> QED  BY <2>6, <2>7
<1> QED  BY <1>1, <1>2, <1>3, <1>4, <1>5

\* Assignment, the checklist, deletion, the sync and evidence move no status of a task,
\* and the item's only among open ones.
LEMMA OtherSteps ==
  ASSUME TypeOK, EdgeFilingAssumption, NEW r \in Requests, Stands(req[r]),
         \/ Assign(r) \/ TickRead(r) \/ TickWrite(r) \/ DeleteTask(r)
         \/ SyncRead(r) \/ SyncWrite(r) \/ Evidence(r)
  PROVE  Stands(req[r])'
<1> DEFINE q == req[r]
           p == req'[r]
<1> USE DEF Calls
<1>0. q \in Reqs /\ item \in Items /\ task \in Tasks
  BY ReqHeld DEF TypeOK
<1>i. Idle.pc = "idle"
  BY DEF Idle
<1>b. ASSUME q.pc \in {"idle", "tick", "sync"} PROVE bare \/ Backed(item, task)
  BY <1>b DEF Stands
<1>1. CASE Assign(r)
  <2>1. /\ q.pc = "idle" /\ UNCHANGED <<req, item, bare>>
        /\ task'.exists = task.exists /\ task'.status = task.status
    BY <1>0, <1>1 DEF Assign, Free, Tasks
  <2> QED  BY <1>b, <2>1 DEF Stands, Backed
<1>2. CASE TickRead(r)
  <2>1. PICK open \in BOOLEAN : Hold(r, [pc |-> "tick", open |-> open])
    BY <1>2 DEF TickRead
  <2>2. p.pc = "tick" /\ q.pc = "idle" /\ UNCHANGED <<item, task, bare>>
    BY <1>2, <2>1, ReqHeld DEF TickRead, Free, rows
  <2> QED  BY <1>b, <2>2 DEF Stands
<1>3. CASE TickWrite(r)
  <2>1. p.pc = "idle" /\ q.pc = "tick" /\ UNCHANGED <<item, bare>>
    BY <1>3, <1>i, ReqHeld DEF TickWrite, At, Fail, rows
  <2>2. task'.exists = task.exists /\ task'.status = task.status
    BY <1>0, <1>3 DEF TickWrite, Fail, rows, Tasks
  <2> QED  BY <1>b, <2>1, <2>2 DEF Stands, Backed
<1>4. CASE DeleteTask(r)
  <2>1. q.pc = "idle" /\ UNCHANGED <<req, item, bare>> /\ ~task'.exists
    BY <1>4 DEF DeleteTask, Free, NoTask
  <2> QED  BY <1>b, <2>1 DEF Stands, Backed
<1>5. CASE SyncRead(r)
  <2>1. PICK due \in DueDates :
          Hold(r, [pc |-> "sync", due |-> due,
                   status |-> IF item.status \in Settled THEN item.status ELSE Derive(due, today)])
    BY <1>5 DEF SyncRead
  <2>2. /\ p.pc = "sync" /\ q.pc = "idle" /\ UNCHANGED <<item, task, bare>>
        /\ p.status = IF item.status \in Settled THEN item.status ELSE Derive(due, today)
    BY <1>5, <2>1, ReqHeld DEF SyncRead, Free, rows
  <2>3. SameStage(p.status, item.status)
    BY <1>0, <2>2, DeriveOpen DEF SameStage, Items
  <2> QED  BY <1>b, <2>2, <2>3 DEF Stands
<1>6. CASE SyncWrite(r)
  <2>1. p.pc = "idle" /\ q.pc = "sync" /\ UNCHANGED <<task, bare>>
    BY <1>6, <1>i, ReqHeld DEF SyncWrite, At, Fail, rows
  <2>2. /\ item'.status \in {item.status, q.status} /\ item'.completed = item.completed
    BY <1>0, <1>6 DEF SyncWrite, Fail, rows, Items
  <2>3. SameStage(q.status, item.status)
    BY <2>1 DEF Stands
  <2> QED  BY <1>b, <2>1, <2>2, <2>3 DEF Stands, Backed, SameStage, OpenStatuses
<1>7. CASE Evidence(r)
  <2>1. q.pc = "idle" /\ UNCHANGED <<req, item, task, bare>>
    BY <1>7 DEF Evidence, Free, rows
  <2> QED  BY <1>b, <2>1 DEF Stands
<1> QED  BY <1>1, <1>2, <1>3, <1>4, <1>5, <1>6, <1>7

\* The refresh moves an open item among open statuses, whatever is in flight.
LEMMA RefreshStep ==
  ASSUME TypeOK, NEW r \in Requests, Stands(req[r]), RefreshStatuses
  PROVE  Stands(req[r])'
<1> DEFINE q == req[r]
<1>1. /\ item.status \in OpenStatuses /\ item'.status \in OpenStatuses
      /\ item'.completed = item.completed /\ item'.attested = item.attested /\ item'.signed = item.signed
      /\ UNCHANGED <<task, req, faults, bare>>
  BY DeriveOpen DEF RefreshStatuses, TypeOK, Items
<1>2. \A t : Backed(item', t)
  BY <1>1 DEF Backed, OpenStatuses
<1>3. \A i : SameClaim(item, i) => SameClaim(item', i)
  BY <1>1 DEF SameClaim, SameStage
<1>4. \A status : SameStage(item.status, status) => SameStage(item'.status, status)
  BY <1>1 DEF SameStage
<1>5. \A status : SameStage(status, item.status) => SameStage(status, item'.status)
  BY <1>1 DEF SameStage
<1>6. q.pc \in Calls => Change(q)'
  BY <1>1, <1>2, <1>3, <1>4 DEF Stands, Change
<1>7. q.pc \in {"patch", "follow", "reopen", "undoPatch"} => Patch(q)'
  BY <1>1, <1>2 DEF Stands, Patch, LeavingDone
<1> QED  BY <1>1, <1>2, <1>5, <1>6, <1>7 DEF Stands

LEMMA FilingStep ==
  ASSUME OneAtATime, OneFault, EdgeFilingAssumption, TypeOK, FilingInv, [Next]_vars
  PROVE  FilingInv'
<1>1. ASSUME NEW r \in Requests PROVE Stands(req[r])'
  <2>0. Stands(req[r])
    BY <1>1 DEF FilingInv
  <2>1. ASSUME NEW s \in Requests, Request(s) PROVE Stands(req[r])'
    <3>1. s = r
      BY <1>1 DEF OneAtATime
    <3> QED  BY <2>0, <2>1, <3>1, ChangeSteps, PatchSteps, OtherSteps DEF Request
  <2>2. CASE RefreshStatuses
    BY <1>1, <2>0, <2>2, RefreshStep
  <2>3. CASE NextDay \/ UNCHANGED vars
    BY <2>0, <2>3 DEF NextDay, vars, rows, Stands, Change, Patch, LeavingDone
  <2> QED  BY <2>1, <2>2, <2>3 DEF Next
<1>2. ASSUME \A r \in Requests : Free(r)' PROVE bare' \/ Backed(item', task')
  <2>1. CASE \E r \in Requests : TRUE
    BY <1>1, <1>2, <2>1 DEF Free, Stands
  <2>2. CASE Requests = {}
    <3>1. CASE RefreshStatuses
      <4>1. item'.status \in OpenStatuses
        BY <3>1, DeriveOpen DEF RefreshStatuses, TypeOK, Items
      <4> QED  BY <4>1 DEF Backed, OpenStatuses
    <3>2. CASE NextDay \/ UNCHANGED vars
      BY <2>2, <3>2 DEF NextDay, vars, rows, FilingInv
    <3> QED  BY <2>2, <3>1, <3>2 DEF Next
  <2> QED  BY <2>1, <2>2
<1> QED  BY <1>1, <1>2 DEF FilingInv

LEMMA FilingHolds ==
  ASSUME OneAtATime, OneFault
  PROVE  Spec => [](TypeOK /\ FilingInv)
<1>1. Init => TypeOK /\ FilingInv
  <2> SUFFICES ASSUME Init PROVE FilingInv
    BY EdgeFilingAssumption, InitType
  <2>1. \A r \in Requests : req[r].pc = "idle"
    BY DEF Init, Idle
  <2>2. PICK due \in DueDates :
          item = [status |-> Derive(due, 0), due |-> due, completed |-> FALSE,
                  attested |-> FALSE, signed |-> FALSE]
    BY DEF Init
  <2>3. item.status # "COMPLETED"
    BY <2>2, DeriveOpen DEF OpenStatuses
  <2> QED  BY <2>1, <2>3 DEF FilingInv, Stands, Backed, Calls, Free
<1>2. TypeOK /\ FilingInv /\ [Next]_vars => TypeOK' /\ FilingInv'
  BY EdgeFilingAssumption, TypeStep, FilingStep
<1> QED  BY <1>1, <1>2, PTL DEF Spec

\* With one request at a time and one failed call, a filed obligation has its date
\* and its work behind it, unless the change that filed it failed at its own task
\* write and left the claim standing.
THEOREM FiledStaysBacked ==
  ASSUME OneAtATime, OneFault
  PROVE  Spec => []FiledIsBacked
<1>1. FilingInv => FiledIsBacked
  <2> SUFFICES ASSUME FilingInv, \A r \in Requests : Free(r), item.status = "COMPLETED", ~bare
               PROVE  item.completed /\ (task.exists => task.status = "DONE")
    BY DEF FiledIsBacked
  <2> QED  BY DEF FilingInv, Backed
<1> QED  BY <1>1, FilingHolds, PTL

\* A rollback under the same conditions: that of a change of the item leaves its claim
\* and the task as the request found them (completion.ts), that of a PATCH the task's
\* status and date, and the assignee and the checklist as they were sent (tasks-api).
THEOREM RollbacksRestore ==
  ASSUME OneAtATime, OneFault
  PROVE  Spec => RollbackRestores
<1>1. ASSUME TypeOK, FilingInv, [Next]_vars, NEW r \in Requests, Undoing(r), req'[r].pc = "idle"
      PROVE  IF req[r].pc = "undoPatch"
             THEN task' = SentOver(req[r], req[r].task)
             ELSE task' = req[r].task /\ Claim(item') = Claim(req[r].item)
  <2> DEFINE q == req[r]
  <2>0. /\ q \in Reqs /\ Stands(q) /\ item \in Items /\ task \in Tasks
        /\ faults \in 0..MaxFaults /\ MaxFaults \in Nat
    BY <1>1, ReqHeld, EdgeFilingAssumption DEF FilingInv, TypeOK, EdgeFilingAssumption
  <2>1. \A i, j \in Items : SameClaim(i, j) => Claim(i) = Claim(j)
    <3> DEFINE stage(s) == IF s \in OpenStatuses THEN "DUE" ELSE s
    <3>1. ASSUME NEW i \in Items
          PROVE  Claim(i) = [status |-> stage(i.status), due |-> 0, completed |-> i.completed,
                             attested |-> i.attested, signed |-> i.signed]
      <4> DEFINE to == stage(i.status)
      <4>1. Claim(i) = [i EXCEPT !.status = to, !.due = 0]
        BY DEF Claim
      <4> HIDE DEF to
      <4>2. Claim(i) = [status |-> to, due |-> 0, completed |-> i.completed,
                        attested |-> i.attested, signed |-> i.signed]
        BY <4>1 DEF Items
      <4> QED  BY <4>2 DEF to
    <3>2. \A a, b : SameStage(a, b) => stage(a) = stage(b)
      BY DEF SameStage
    <3> HIDE DEF stage
    <3> QED  BY <3>1, <3>2 DEF SameClaim
  <2>2. \E s \in Requests : Request(s)
    BY <1>1 DEF Next, vars, RefreshStatuses, NextDay, Undoing
  <2>3. Request(r)
    BY <1>1, <2>2 DEF OneAtATime
  <2>4. UndoItem(r) \/ UndoTask(r) \/ UndoPatch(r)
    BY <1>1, <2>3 DEF Undoing, Request, At, Free, ChangeRead, ItemWrite, TaskWrite, AuditWrite, PatchRead,
       PatchWrite, PatchFollow, ReopenWrite, Assign, TickRead, TickWrite, DeleteTask, SyncRead, SyncWrite, Evidence
  <2>5. ~Fail
    BY <1>1, <2>0 DEF Fail, Undoing, Stands, Change, Patch, Calls, OneFault
  <2>6. CASE UndoItem(r)
    <3>1. q.pc = "undoItem" /\ q \in Changes /\ Change(q) /\ q.item \in Items
      BY <2>0, <2>6, OfReq DEF UndoItem, At, Stands, Changes, Calls
    <3>2. ~q.task.exists
      <4>1. ASSUME q.task.exists PROVE FALSE
        <5>1. req'[r].pc = "undoTask"
          BY <1>1, <2>6, <3>1, <4>1, GoneTo DEF UndoItem
        <5> QED  BY <1>1, <5>1
      <4> QED  BY <4>1
    <3>3. task' = q.task
      BY <2>5, <2>6, <3>1, <3>2 DEF UndoItem, Change
    <3>4. item' \in Items /\ SameClaim(item', q.item)
      BY <2>0, <2>5, <2>6, <3>1 DEF UndoItem, Items, SameClaim, SameStage
    <3> QED  BY <2>1, <3>1, <3>3, <3>4
  <2>7. CASE UndoTask(r)
    <3>1. q.pc = "undoTask" /\ q \in Changes /\ Change(q) /\ q.item \in Items /\ q.task \in Tasks
      BY <2>0, <2>7, OfReq DEF UndoTask, At, Stands, Changes, Calls
    <3>2. q.task.status \in TaskStatuses /\ q.task.completed \in BOOLEAN /\ task.exists
      BY <3>1 DEF Tasks, Change
    <3>3. task' = q.task
      <4>1. /\ task' \in Tasks /\ task'.exists /\ SameWork(task', task)
            /\ task'.status = q.task.status /\ task'.completed = q.task.completed
        BY <2>0, <2>5, <2>7, <3>2, SetTaskType DEF UndoTask
      <4>2. q.task.exists /\ SameWork(task, q.task)
        BY <3>1 DEF Change
      <4> QED  BY <3>1, <4>1, <4>2, SameTask DEF SameWork
    <3>4. item' = item /\ SameClaim(item, q.item)
      BY <2>5, <2>7, <3>1 DEF UndoTask, Change
    <3> QED  BY <2>0, <2>1, <3>1, <3>3, <3>4
  <2>8. CASE UndoPatch(r)
    <3>1. q.pc = "undoPatch" /\ q \in Patches /\ Patch(q) /\ q.task \in Tasks
      BY <2>0, <2>8, OfReq DEF UndoPatch, At, Stands, Patches
    <3>2. q.task.status \in TaskStatuses /\ q.task.completed \in BOOLEAN /\ task.exists
      BY <3>1 DEF Tasks, Patch
    <3>3. /\ task' \in Tasks /\ task'.exists /\ SameWork(task', task)
          /\ task'.status = q.task.status /\ task'.completed = q.task.completed
      BY <2>0, <2>5, <2>8, <3>2, SetTaskType DEF UndoPatch
    <3>4. q.task.exists /\ SameWork(task, SentOver(q, q.task))
      BY <3>1 DEF Patch
    <3>5. task' = SentOver(q, q.task)
      <4> DEFINE sent == SentOver(q, q.task)
      <4>1. /\ sent \in Tasks /\ sent.exists = q.task.exists
            /\ sent.status = q.task.status /\ sent.completed = q.task.completed
        BY <3>1, SentType
      <4> HIDE DEF sent
      <4>2. SameWork(task', sent)
        BY <3>3, <3>4 DEF SameWork, sent
      <4>3. task' = sent
        BY <3>3, <3>4, <4>1, <4>2, SameTask
      <4> QED  BY <4>3 DEF sent
    <3> QED  BY <3>1, <3>5
  <2> QED  BY <2>4, <2>6, <2>7, <2>8
<1>2. TypeOK /\ FilingInv /\ [Next]_vars =>
        [\A r \in Requests : Undoing(r) /\ req'[r].pc = "idle" =>
           IF req[r].pc = "undoPatch"
           THEN task' = SentOver(req[r], req[r].task)
           ELSE task' = req[r].task /\ Claim(item') = Claim(req[r].item)]_vars
  BY <1>1
<1> QED  BY <1>2, FilingHolds, PTL DEF Spec, RollbackRestores

-----------------------------------------------------------------------------
(* WebSession: the inductive invariant. *)

\* The browser that a pair of tokens was given to.
Given(k) == Browser(pair[k].tab)

\* k is a pair of browser b.
PairOf(k, b) == k \in Pairs /\ Given(k) = b

PairRows ==
  [sid : Nat \ {None}, tab : Tabs, renewed : BOOLEAN, live : BOOLEAN, old : BOOLEAN, crossed : BOOLEAN]

Renewals ==
  [step : {"sent", "checked", "answered", "renewed", "failed"}, pair : Nat, new : Nat]

CallSteps ==
  {"sent", "waits", "ok", "unauthorized", "displaced", "read", "claims", "purged", "claimed", "ends"}

CallRows ==
  [step : CallSteps, tab : Tabs, what : {"panel", "me", "login", "logout"},
   pair : Nat, body : Nat, retry : BOOLEAN, sid : Nat, let : BOOLEAN]

WebTypeOK ==
  /\ account \in [sid : Nat, device : Browsers]
  /\ \E n \in Nat : pair \in [1..n -> PairRows]
  /\ store \in [Browsers -> Nat]
  /\ tab \in [Tabs -> {"in", "out", "probe"}]
  /\ refreshing \in [Tabs -> {NoCall} \cup Renewals]
  /\ call \in [Handles -> {NoCall} \cup CallRows]
  /\ lastSid \in Nat /\ made \in Nat /\ lost \in Nat
  /\ out \subseteq Browsers /\ thrown \subseteq Tabs

\* A call that signs in with a session that it has read or made.
Signing(c) == c.step \in {"claims", "purged", "claimed"}

\* A browser keeps, renews and hands in pairs of its own.
Renews(t, r) == r # NoCall =>
  /\ PairOf(r.pair, Browser(t))
  /\ r.step = "answered" => r.new \in Pairs /\ pair[r.new].tab = t

Refers(c) == c # NoCall =>
  /\ c.pair # None => c.pair \in Pairs
  /\ c.what = "logout" => PairOf(c.body, Browser(c.tab))
  /\ c.step = "ends" => c.what = "logout"
  /\ Signing(c) => c.sid # None

RefersInv ==
  /\ \A b \in Browsers : store[b] # None => PairOf(store[b], b)
  /\ \A t \in Tabs : Renews(t, refreshing[t])
  /\ \A q \in Handles : Refers(call[q])

\* Until a tab's refresh has settled, no pair but the one it hands in may be in
\* storage from an earlier refresh of the same tab; and one that failed with
\* nothing lost handed in a pair that is off the record.  What is about to be
\* taken from storage, or has been for a second try, has not run out.
OwnInv ==
  /\ \A t \in Tabs : refreshing[t] # NoCall =>
       LET r == refreshing[t]
           s == store[Browser(t)] IN
       /\ r.step # "renewed" /\ s # None /\ pair[s].renewed /\ pair[s].tab = t => s = r.pair
       /\ r.step = "failed" /\ lost = 0 => ~pair[r.pair].live
       /\ r.step = "answered" => ~Old(r.new)
       /\ r.step = "renewed" => ~Old(s)
  /\ \A q \in Handles : call[q] # NoCall /\ call[q].retry /\ call[q].step # "waits" =>
       /\ ~Old(call[q].pair)
       /\ call[q].step = "unauthorized" => call[q].pair = None

\* Browser b has something of session s, or is about to.
HasOf(b, s) ==
  \/ account.sid = s /\ account.device = b
  \/ \E k \in Pairs : pair[k].sid = s /\ Given(k) = b
  \/ \E q \in Handles : Signing(call[q]) /\ call[q].sid = s /\ Browser(call[q].tab) = b

\* A session is of one browser.
SidInv ==
  \A s \in Nat \ {None}, b \in Browsers : HasOf(b, s) =>
    s <= lastSid /\ \A c \in Browsers : HasOf(c, s) => b = c

\* A refresh token on record is of the account's session, or crossed another's
\* sign-in; one that was minted between the two halves of a sign-in has.
LiveInv ==
  /\ \A k \in Pairs : pair[k].live /\ ~pair[k].crossed => account.sid \in {None, pair[k].sid}
  /\ \A k \in Pairs : pair[k].live /\ Purged => pair[k].crossed
  /\ \A q \in Handles : call[q].step = "ends" =>
       pair[call[q].body].crossed \/ call[q].sid \in {None, pair[call[q].body].sid}

\* A call of browser b that will end the session, or has begun another.
Owes(q, b) ==
  /\ call[q] # NoCall /\ Browser(call[q].tab) = b
  /\ \/ call[q].what = "logout" /\ call[q].step = "sent" /\ pair[call[q].body].live
     \/ call[q].step \in {"ends", "claimed"}

Nothing(b) == \A k \in Pairs : Given(k) = b => ~(pair[k].live /\ pair[k].sid = account.sid)

\* A browser signed out stores, renews and waits for nothing, and has nothing left
\* once no call owes it that.
OutInv ==
  \A b \in out :
    /\ store[b] = None
    /\ \A t \in Tabs : Browser(t) = b => refreshing[t] = NoCall
    /\ Nothing(b) \/ \E q \in Handles : Owes(q, b)

\* A call that was let in has been answered, and was no probe.
LetInv ==
  \A q \in Handles : call[q] # NoCall /\ call[q].let => call[q].step = "ok" /\ call[q].what = "panel"

WebInv ==
  WebTypeOK /\ RefersInv /\ OwnInv /\ thrown = {} /\ SidInv /\ LiveInv /\ OutInv /\ LetInv

-----------------------------------------------------------------------------
(* WebSession: types, and what a new pair is. *)

Minted == Cardinality(Pairs) + 1

CallOrNone == {NoCall} \cup CallRows

\* The pairs are numbered from one, and the next number is free.
LEMMA PairsCounted ==
  ASSUME WebTypeOK
  PROVE  /\ Cardinality(Pairs) \in Nat
         /\ Pairs = 1..Cardinality(Pairs)
         /\ pair \in [Pairs -> PairRows]
         /\ Minted \in Nat \ {None} /\ Minted \notin Pairs
         /\ None \notin Pairs /\ Pairs \subseteq Nat
         /\ Pairs \cup {Minted} = 1..Minted
<1>1. PICK n \in Nat : pair \in [1..n -> PairRows]
  BY DEF WebTypeOK
<1>2. Pairs = 1..n
  BY <1>1 DEF Pairs
<1>3. Cardinality(1..n) = n
  BY FS_Interval
<1> QED  BY <1>1, <1>2, <1>3 DEF Minted, None

\* What a request brings to pass where it mints a pair.
LEMMA Issued ==
  ASSUME WebTypeOK, NEW b, NEW t \in Tabs, NEW sid \in Nat \ {None}, NEW renewed \in BOOLEAN,
         NEW crossed \in BOOLEAN, NEW pairs \in [Pairs -> PairRows],
         Issue(b, t, sid, renewed, crossed, pairs)
  PROVE  /\ pair' \in [1..Minted -> PairRows]
         /\ DOMAIN pair' = Pairs \cup {Minted}
         /\ \A i \in Pairs : pair'[i] = pairs[i]
         /\ pair'[Minted] = [sid |-> sid, tab |-> t, renewed |-> renewed,
                             live |-> TRUE, old |-> FALSE, crossed |-> crossed]
<1> DEFINE row == [sid |-> sid, tab |-> t, renewed |-> renewed, live |-> TRUE, old |-> FALSE, crossed |-> crossed]
<1>1. row \in PairRows
  BY DEF PairRows
<1>2. pair' = [i \in Pairs \cup {Minted} |-> IF i = Minted THEN row ELSE pairs[i]]
  BY DEF Issue, Minted
<1> HIDE DEF row
<1>3. DOMAIN pair' = Pairs \cup {Minted} /\ pair'[Minted] = row /\ \A i \in Pairs : pair'[i] = pairs[i]
  BY <1>2, PairsCounted
<1>4. pair' \in [1..Minted -> PairRows]
  BY <1>1, <1>2, PairsCounted
<1> QED  BY <1>3, <1>4 DEF row

\* What a request that is not idle is made of.
LEMMA OfCall ==
  ASSUME WebTypeOK, NEW q \in Handles
  PROVE  /\ call[q] \in CallOrNone
         /\ call[q] # NoCall <=> call[q] \in CallRows
         /\ call[q].step # "idle" <=> call[q] # NoCall
         /\ call[q] # NoCall => /\ call[q].tab \in Tabs /\ Browser(call[q].tab) \in Browsers
                              /\ call[q].pair \in Nat /\ call[q].body \in Nat /\ call[q].sid \in Nat
                              /\ call[q].retry \in BOOLEAN /\ call[q].let \in BOOLEAN
<1>1. call[q] \in CallOrNone
  BY DEF WebTypeOK, CallOrNone
<1>2. CASE call[q] = NoCall
  BY <1>2, <1>1 DEF NoCall, CallRows, CallSteps
<1>3. CASE call[q] \in CallRows
  BY <1>3, <1>1 DEF NoCall, CallRows, CallSteps, Browsers
<1> QED  BY <1>1, <1>2, <1>3 DEF CallOrNone

\* What a tab's refresh is made of.
LEMMA OfRefresh ==
  ASSUME WebTypeOK, NEW t \in Tabs
  PROVE  /\ Browser(t) \in Browsers
         /\ refreshing[t] # NoCall <=> refreshing[t] \in Renewals
         /\ refreshing[t] # NoCall <=> refreshing[t].step # "idle"
         /\ refreshing[t] # NoCall => refreshing[t].pair \in Nat /\ refreshing[t].new \in Nat
<1>1. refreshing[t] \in {NoCall} \cup Renewals
  BY DEF WebTypeOK
<1>2. CASE refreshing[t] = NoCall
  BY <1>2 DEF NoCall, Renewals, Browsers
<1>3. CASE refreshing[t] \in Renewals
  BY <1>3 DEF NoCall, Renewals, Browsers
<1> QED  BY <1>1, <1>2, <1>3

\* One call changes and stays a call; the others are as they were.
LEMMA BecomeType ==
  ASSUME WebTypeOK, NEW q \in Handles, NEW c \in CallOrNone, Become(q, c)
  PROVE  /\ call' \in [Handles -> CallOrNone]
         /\ call'[q] = c
         /\ \A p \in Handles : p # q => call'[p] = call[p]
  BY DEF WebTypeOK, Become, CallOrNone

\* A call that is made anew, and one that goes on.
LEMMA NewCall ==
  ASSUME NEW t \in Tabs, NEW what \in {"panel", "me", "login", "logout"}, NEW k \in Nat
  PROVE  CallOf(t, what, k) \in CallRows /\ [CallOf(t, what, k) EXCEPT !.body = k] \in CallRows
  BY DEF CallOf, CallRows, CallSteps, None

\* A call whose step, answer or tokens change stays a call.
LEMMA CallGoesOn ==
  ASSUME NEW c \in CallRows, NEW step \in CallSteps, NEW k \in Nat, NEW sid \in Nat, NEW let \in BOOLEAN
  PROVE  /\ [c EXCEPT !.step = step] \in CallRows
         /\ [c EXCEPT !.step = step, !.retry = TRUE] \in CallRows
         /\ [c EXCEPT !.step = step, !.pair = k] \in CallRows
         /\ [c EXCEPT !.step = step, !.sid = sid] \in CallRows
         /\ [c EXCEPT !.step = step, !.let = let] \in CallRows
  BY DEF CallRows, CallSteps

\* A refresh that is joined, or begun with the pair in storage.
LEMMA Joined ==
  ASSUME WebTypeOK, NEW c \in CallRows, Join(c)
  PROVE  /\ refreshing' \in [Tabs -> {NoCall} \cup Renewals]
         /\ \A t \in Tabs : t # c.tab => refreshing'[t] = refreshing[t]
         /\ refreshing'[c.tab] = IF refreshing[c.tab] # NoCall THEN refreshing[c.tab]
                                 ELSE Renewal(store[Browser(c.tab)])
<1>1. c.tab \in Tabs
  BY DEF CallRows
<1>2. store[Browser(c.tab)] \in Nat
  BY <1>1 DEF WebTypeOK, Browsers
<1>3. Renewal(store[Browser(c.tab)]) \in Renewals
  BY <1>2 DEF Renewal, Renewals, None
<1>4. refreshing \in [Tabs -> {NoCall} \cup Renewals]
  BY DEF WebTypeOK
<1> QED  BY <1>1, <1>3, <1>4 DEF Join

\* A call goes out as it is, or waits for a refresh that it joins.
LEMMA Sent ==
  ASSUME WebTypeOK, NEW q \in Handles, NEW r \in CallRows, Send(q, r)
  PROVE  /\ call' \in [Handles -> CallOrNone] /\ refreshing' \in [Tabs -> {NoCall} \cup Renewals]
         /\ \A p \in Handles : p # q => call'[p] = call[p]
         /\ \/ ~Old(r.pair) /\ call'[q] = r /\ UNCHANGED refreshing
            \/ Old(r.pair) /\ call'[q] = [r EXCEPT !.step = "waits"] /\ Join(r)
<1>1. r \in CallOrNone /\ [r EXCEPT !.step = "waits"] \in CallOrNone
  BY CallGoesOn DEF CallOrNone, CallSteps
<1>3. CASE Old(r.pair)
  BY <1>1, <1>3, Joined, BecomeType DEF Send
<1>4. CASE ~Old(r.pair)
  BY <1>1, <1>4, BecomeType DEF Send, WebTypeOK
<1> QED  BY <1>3, <1>4

\* What a tab that gives the session up changes.
LEMMA LoseType ==
  ASSUME WebTypeOK, NEW q \in Handles, call[q] # NoCall, Lose(q)
  PROVE  /\ store' \in [Browsers -> Nat] /\ tab' \in [Tabs -> {"in", "out", "probe"}]
         /\ thrown' \subseteq Tabs
         /\ call' \in [Handles -> CallOrNone]
         /\ call'[q] = NoCall /\ \A p \in Handles : p # q => call'[p] = call[p]
         /\ store'[Browser(call[q].tab)] = None
         /\ \A b \in Browsers : b # Browser(call[q].tab) => store'[b] = store[b]
<1>1. call[q].tab \in Tabs /\ Browser(call[q].tab) \in Browsers
  BY OfCall
<1>2. store' \in [Browsers -> Nat] /\ store'[Browser(call[q].tab)] = None
      /\ \A b \in Browsers : b # Browser(call[q].tab) => store'[b] = store[b]
  BY <1>1 DEF Lose, WebTypeOK, None
<1>3. tab' \in [Tabs -> {"in", "out", "probe"}] /\ thrown' \subseteq Tabs
  BY <1>1 DEF Lose, WebTypeOK
<1>4. call' \in [Handles -> CallOrNone] /\ call'[q] = NoCall /\ \A p \in Handles : p # q => call'[p] = call[p]
  BY BecomeType DEF Lose, CallOrNone
<1> QED  BY <1>2, <1>3, <1>4

\* A behaviour begins with well-formed state.
LEMMA WebInitType == WebInit => WebTypeOK
<1> SUFFICES ASSUME WebInit PROVE WebTypeOK
  OBVIOUS
<1>1. PICK first \in Tabs :
        /\ account = [sid |-> 1, device |-> Browser(first)]
        /\ pair = [k \in {1} |-> [sid |-> 1, tab |-> first, renewed |-> FALSE,
                                  live |-> TRUE, old |-> FALSE, crossed |-> FALSE]]
        /\ store = [b \in Browsers |-> IF b = Browser(first) THEN 1 ELSE None]
        /\ tab = [t \in Tabs |-> IF Browser(t) = Browser(first) THEN "in" ELSE "out"]
        /\ refreshing = [t \in Tabs |-> NoCall]
        /\ call = [q \in Handles |-> NoCall]
        /\ lastSid = 1 /\ made = 0 /\ lost = 0 /\ out = {} /\ thrown = {}
  BY DEF WebInit
<1>2. pair \in [1..1 -> PairRows]
  BY <1>1 DEF PairRows, None
<1>3. Browser(first) \in Browsers
  BY DEF Browsers
<1> QED  BY <1>1, <1>2, <1>3 DEF WebTypeOK, None

\* A pair is changed in place.
LEMMA PairsKept ==
  ASSUME WebTypeOK, pair' \in [Pairs -> PairRows]
  PROVE  \E n \in Nat : pair' \in [1..n -> PairRows]
  BY PairsCounted

\* A pair that goes off the record, crosses a sign-in or runs out is a pair still.
LEMMA RowStays ==
  ASSUME NEW row \in PairRows, NEW b \in BOOLEAN
  PROVE  /\ [row EXCEPT !.live = b] \in PairRows
         /\ [row EXCEPT !.crossed = b] \in PairRows
         /\ [row EXCEPT !.old = b] \in PairRows
  BY DEF PairRows

\* One row replaced by another.
LEMMA RowsStay ==
  ASSUME NEW P, NEW f \in [P -> PairRows], NEW k, NEW row \in PairRows
  PROVE  [f EXCEPT ![k] = row] \in [P -> PairRows]
  OBVIOUS

\* One row off the record.
LEMMA OffRecord ==
  ASSUME NEW P, NEW f \in [P -> PairRows], NEW k
  PROVE  [f EXCEPT ![k].live = FALSE] \in [P -> PairRows]
<1> DEFINE g == [f EXCEPT ![k].live = FALSE]
<1>1. ASSUME NEW i \in P PROVE g[i] \in PairRows
  <2>1. [f[i] EXCEPT !.live = FALSE] \in PairRows
    BY RowStays
  <2>2. g[i] = f[i] \/ g[i] = [f[i] EXCEPT !.live = FALSE]
    OBVIOUS
  <2> QED  BY <2>1, <2>2
<1>2. g = [i \in P |-> g[i]]
  OBVIOUS
<1> HIDE DEF g
<1>3. g \in [P -> PairRows]
  BY <1>1, <1>2
<1> QED  BY <1>3 DEF g

\* Every step keeps the state well-formed.
LEMMA WebTypeStep ==
  ASSUME WebAssumption, WebTypeOK, RefersInv, WebNext
  PROVE  WebTypeOK'
<1> USE DEF None
<1>p. /\ pair \in [Pairs -> PairRows]
      /\ store \in [Browsers -> Nat] /\ tab \in [Tabs -> {"in", "out", "probe"}]
      /\ refreshing \in [Tabs -> {NoCall} \cup Renewals] /\ call \in [Handles -> CallOrNone]
      /\ lastSid \in Nat /\ made \in Nat /\ lost \in Nat
      /\ out \subseteq Browsers /\ thrown \subseteq Tabs
      /\ account \in [sid : Nat, device : Browsers]
      /\ MaxCalls \in Nat /\ MaxLost \in Nat /\ MaxSid \in Nat
  BY PairsCounted DEF WebTypeOK, WebAssumption, CallOrNone
<1>i. \E n \in Nat : pair \in [1..n -> PairRows]
  BY DEF WebTypeOK
<1>e. UNCHANGED pair => \E n \in Nat : pair' \in [1..n -> PairRows]
  BY <1>i
<1>k. pair' \in [Pairs -> PairRows] => \E n \in Nat : pair' \in [1..n -> PairRows]
  BY PairsKept
<1>n. NoCall \in CallOrNone /\ CallRows \subseteq CallOrNone
  BY DEF CallOrNone
<1>b. \A t \in Tabs : Browser(t) \in Browsers /\ store[Browser(t)] \in Nat
  BY <1>p DEF Browsers
<1> DEFINE Typed ==
      /\ account' \in [sid : Nat, device : Browsers]
      /\ \E n \in Nat : pair' \in [1..n -> PairRows]
      /\ store' \in [Browsers -> Nat]
      /\ tab' \in [Tabs -> {"in", "out", "probe"}]
      /\ refreshing' \in [Tabs -> {NoCall} \cup Renewals]
      /\ call' \in [Handles -> CallOrNone]
      /\ lastSid' \in Nat /\ made' \in Nat /\ lost' \in Nat
      /\ out' \subseteq Browsers /\ thrown' \subseteq Tabs
<1>q. SUFFICES Typed
  BY DEF WebTypeOK, CallOrNone, Browsers, Browser
<1>1. ASSUME NEW q \in Handles, NEW t \in Tabs, Ask(q, t) PROVE Typed
  <2>1. CallOf(t, "panel", store[Browser(t)]) \in CallRows
    BY <1>b, NewCall
  <2>2. call' \in [Handles -> CallOrNone] /\ refreshing' \in [Tabs -> {NoCall} \cup Renewals]
    BY <1>1, <2>1, Sent DEF Ask
  <2>3. made' = made + 1 /\ UNCHANGED <<account, pair, store, tab, lastSid, lost, out, thrown>>
    BY <1>1 DEF Ask, Start
  <2> QED  BY <1>p, <1>e, <2>2, <2>3
<1>2. ASSUME NEW q \in Handles, NEW t \in Tabs, Login(q, t) PROVE Typed
  <2>1. CallOf(t, "login", None) \in CallOrNone
    BY <1>n, NewCall
  <2>2. call' \in [Handles -> CallOrNone]
    BY <1>2, <2>1, BecomeType DEF Login
  <2>3. made' = made + 1 /\ UNCHANGED <<account, pair, store, tab, refreshing, lastSid, lost, out, thrown>>
    BY <1>2 DEF Login, Start
  <2> QED  BY <1>p, <1>e, <2>2, <2>3
<1>3. ASSUME NEW q \in Handles, NEW t \in Tabs, Logout(q, t) PROVE Typed
  <2>1. [CallOf(t, "logout", store[Browser(t)]) EXCEPT !.body = store[Browser(t)]] \in CallRows
    BY <1>b, NewCall
  <2>2. call' \in [Handles -> CallOrNone] /\ refreshing' \in [Tabs -> {NoCall} \cup Renewals]
    <3>1. CASE store[Browser(t)] = None
      BY <1>3, <3>1, <1>p DEF Logout
    <3>2. CASE store[Browser(t)] # None
      BY <1>3, <3>2, <2>1, Sent DEF Logout
    <3> QED  BY <3>1, <3>2
  <2>3. store' \in [Browsers -> Nat] /\ tab' \in [Tabs -> {"in", "out", "probe"}]
    BY <1>3, <1>p DEF Logout
  <2>4. out' \subseteq Browsers
    BY <1>3, <1>p, <1>b DEF Logout
  <2> QED  BY <1>3, <1>p, <1>e, <2>2, <2>3, <2>4 DEF Logout, Start
<1>4. ASSUME NEW q \in Handles, NEW t \in Tabs, Reload(q, t) PROVE Typed
  <2>1. CallOf(t, "me", store[Browser(t)]) \in CallRows
    BY <1>b, NewCall
  <2>2. call' \in [Handles -> CallOrNone] /\ refreshing' \in [Tabs -> {NoCall} \cup Renewals]
    BY <1>4, <2>1, Sent DEF Reload
  <2>3. tab' \in [Tabs -> {"in", "out", "probe"}]
    BY <1>4, <1>p DEF Reload
  <2> QED  BY <1>4, <1>p, <1>e, <2>2, <2>3 DEF Reload, Start
<1>5. ASSUME NEW q \in Handles, Answer(q) PROVE Typed
  <2>1. call[q] \in CallRows
    BY <1>5, OfCall DEF Answer
  <2>2. PICK said \in {"unauthorized", "ok", "displaced"}, let \in BOOLEAN :
          Become(q, [call[q] EXCEPT !.step = said, !.let = let])
    BY <1>5 DEF Answer, Verdict
  <2>3. [call[q] EXCEPT !.step = said, !.let = let] \in CallOrNone
    BY <2>1, <1>n, CallGoesOn DEF CallSteps
  <2>4. call' \in [Handles -> CallOrNone]
    BY <2>2, <2>3, BecomeType
  <2> QED  BY <1>5, <1>p, <1>e, <2>4 DEF Answer
<1>6. ASSUME NEW q \in Handles, Receive(q) PROVE Typed
  <2>1. call[q].tab \in Tabs
    BY <1>6, OfCall DEF Receive
  <2>2. call' \in [Handles -> CallOrNone] /\ tab' \in [Tabs -> {"in", "out", "probe"}]
    BY <1>6, <1>n, <1>p, <2>1, BecomeType DEF Receive
  <2> QED  BY <1>6, <1>p, <1>e, <2>2 DEF Receive
<1>7. ASSUME NEW q \in Handles, Refused(q) PROVE Typed
  <2>0. call[q].step # "idle"
    BY <1>7 DEF Refused
  <2>1. call[q] \in CallRows /\ call[q] # NoCall
    BY <2>0, OfCall
  <2>2. CASE Lose(q) /\ UNCHANGED refreshing
    BY <1>7, <2>1, <2>2, <1>p, <1>e, LoseType DEF Refused
  <2>3. CASE Become(q, [call[q] EXCEPT !.step = "waits", !.retry = TRUE]) /\ Join(call[q]) /\ UNCHANGED <<store, tab, thrown>>
    <3>1. [call[q] EXCEPT !.step = "waits", !.retry = TRUE] \in CallOrNone
      BY <2>1, <1>n, CallGoesOn DEF CallSteps
    <3>2. call' \in [Handles -> CallOrNone] /\ refreshing' \in [Tabs -> {NoCall} \cup Renewals]
      BY <2>1, <2>3, <3>1, BecomeType, Joined
    <3> QED  BY <1>7, <2>3, <3>2, <1>p, <1>e DEF Refused
  <2> QED  BY <1>7, <2>2, <2>3 DEF Refused
<1>8. ASSUME NEW q \in Handles, Resume(q) PROVE Typed
  <2>1. call[q] \in CallRows /\ call[q] # NoCall
    BY <1>8, OfCall DEF Resume
  <2>2. CASE Lose(q)
    BY <1>8, <2>1, <2>2, <1>p, <1>e, LoseType DEF Resume
  <2>3. CASE Become(q, [call[q] EXCEPT !.step = "sent", !.pair = store[Browser(call[q].tab)]]) /\ UNCHANGED <<store, tab, thrown>>
    <3>1. store[Browser(call[q].tab)] \in Nat
      BY <2>1, <1>b DEF CallRows
    <3>2. [call[q] EXCEPT !.step = "sent", !.pair = store[Browser(call[q].tab)]] \in CallOrNone
      BY <2>1, <3>1, <1>n, CallGoesOn DEF CallSteps
    <3>3. call' \in [Handles -> CallOrNone]
      BY <2>3, <3>2, BecomeType
    <3> QED  BY <1>8, <2>3, <3>3, <1>p, <1>e DEF Resume
  <2> QED  BY <1>8, <2>2, <2>3 DEF Resume
<1>9. ASSUME NEW q \in Handles, CallLost(q) PROVE Typed
  <2>0. call[q].step # "idle"
    BY <1>9 DEF CallLost
  <2>1. call[q].tab \in Tabs
    BY <2>0, OfCall
  <2>2. call' \in [Handles -> CallOrNone]
    BY <1>9, <1>n, BecomeType DEF CallLost
  <2>3. store' \in [Browsers -> Nat] /\ tab' \in [Tabs -> {"in", "out", "probe"}] /\ out' \subseteq Browsers
    BY <1>9, <1>p, <1>b, <2>1 DEF CallLost
  <2> QED  BY <1>9, <1>p, <1>e, <2>2, <2>3 DEF CallLost
<1>10. ASSUME NEW q \in Handles, LoginRead(q) PROVE Typed
  <2>1. call[q] \in CallRows
    BY <1>10, OfCall DEF LoginRead
  <2>2. [call[q] EXCEPT !.step = "claims", !.sid = account.sid] \in CallOrNone /\ [call[q] EXCEPT !.step = "read"] \in CallOrNone
    BY <2>1, <1>n, <1>p, CallGoesOn DEF CallSteps
  <2>3. call' \in [Handles -> CallOrNone]
    BY <1>10, <2>2, BecomeType DEF LoginRead
  <2> QED  BY <1>10, <1>p, <1>e, <2>3 DEF LoginRead
<1>11. ASSUME NEW q \in Handles, Purge(q) PROVE Typed
  <2>1. call[q] \in CallRows
    BY <1>11, OfCall DEF Purge
  <2>0. lastSid + 1 \in Nat
    BY <1>p
  <2>2. [call[q] EXCEPT !.step = "purged", !.sid = lastSid + 1] \in CallOrNone
    BY <2>0, <2>1, <1>n, CallGoesOn DEF CallSteps
  <2>3. call' \in [Handles -> CallOrNone]
    BY <1>11, <2>2, BecomeType DEF Purge
  <2>4. pair' \in [Pairs -> PairRows]
    <3>1. \A k \in Pairs : [pair[k] EXCEPT !.live = FALSE] \in PairRows
      BY <1>p, RowStays
    <3>2. pair' = [k \in Pairs |-> [pair[k] EXCEPT !.live = FALSE]]
      BY <1>11 DEF Purge
    <3> QED  BY <3>1, <3>2
  <2> QED  BY <1>11, <1>p, <1>k, <2>0, <2>3, <2>4 DEF Purge
<1>12. ASSUME NEW q \in Handles, ClaimSession(q) PROVE Typed
  <2>0. call[q].step # "idle"
    BY <1>12 DEF ClaimSession
  <2>1. call[q] \in CallRows /\ Browser(call[q].tab) \in Browsers /\ call[q].sid \in Nat
    BY <2>0, OfCall
  <2>2. [call[q] EXCEPT !.step = "claimed"] \in CallOrNone
    BY <2>1, <1>n, CallGoesOn DEF CallSteps
  <2>3. call' \in [Handles -> CallOrNone]
    BY <1>12, <2>2, BecomeType DEF ClaimSession
  <2>4. pair' \in [Pairs -> PairRows]
    <3>1. pair' = [k \in Pairs |-> [pair[k] EXCEPT !.crossed = @ \/ (call[q].step = "claims" /\ pair[k].sid # call[q].sid)]]
      BY <1>12 DEF ClaimSession
    <3>2. ASSUME NEW k \in Pairs, NEW b \in BOOLEAN PROVE [pair[k] EXCEPT !.crossed = b] \in PairRows
      BY <1>p, RowStays
    <3>3. \A k \in Pairs : (pair[k].crossed \/ (call[q].step = "claims" /\ pair[k].sid # call[q].sid)) \in BOOLEAN
      BY <1>p DEF PairRows
    <3> QED  BY <3>1, <3>2, <3>3
  <2> QED  BY <1>12, <1>p, <1>k, <2>1, <2>3, <2>4 DEF ClaimSession
<1>13. ASSUME NEW q \in Handles, SignedIn(q) PROVE Typed
  <2>1. call[q].tab \in Tabs /\ call[q].sid \in Nat \ {None} /\ Browser(call[q].tab) \in Browsers
    BY <1>13, OfCall DEF SignedIn, RefersInv, Refers, Signing
  <2>2. (Purged \/ call[q].sid # account.sid) \in BOOLEAN
    OBVIOUS
  <2>3. Minted \in Nat \ {None} /\ pair' \in [1..Minted -> PairRows]
    BY <1>13, <1>p, <2>1, <2>2, Issued, PairsCounted DEF SignedIn
  <2>4. CallOf(call[q].tab, "me", Minted) \in CallOrNone
    BY <2>1, <2>3, <1>n, NewCall
  <2>5. call' \in [Handles -> CallOrNone]
    BY <1>13, <2>4, BecomeType DEF SignedIn, Minted
  <2>6. store' \in [Browsers -> Nat]
    BY <1>13, <1>p, <2>1, <2>3 DEF SignedIn, Minted
  <2> QED  BY <1>13, <1>p, <2>3, <2>5, <2>6 DEF SignedIn
<1>14. ASSUME NEW q \in Handles, SignOut(q) PROVE Typed
  <2>1. call[q] \in CallRows
    BY <1>14, OfCall DEF SignOut
  <2>2. [call[q] EXCEPT !.step = "ends", !.sid = account.sid] \in CallOrNone
    BY <2>1, <1>n, <1>p, CallGoesOn DEF CallSteps
  <2>3. call' \in [Handles -> CallOrNone]
    BY <1>14, <1>n, <2>2, BecomeType DEF SignOut
  <2>4. pair' \in [Pairs -> PairRows]
    BY <1>14, <1>p, OffRecord DEF SignOut
  <2> QED  BY <1>14, <1>p, <1>k, <2>3, <2>4 DEF SignOut
<1>15. ASSUME NEW q \in Handles, EndSession(q) PROVE Typed
  <2>1. call' \in [Handles -> CallOrNone]
    BY <1>15, <1>n, BecomeType DEF EndSession
  <2> QED  BY <1>15, <1>p, <1>e, <2>1 DEF EndSession
<1>16. ASSUME NEW t \in Tabs, RefreshRead(t) PROVE Typed
  <2>1. refreshing[t] \in Renewals
    BY <1>16, OfRefresh DEF RefreshRead
  <2>2. \A step \in {"checked", "failed"} : [refreshing[t] EXCEPT !.step = step] \in Renewals
    BY <2>1 DEF Renewals
  <2>3. refreshing' \in [Tabs -> {NoCall} \cup Renewals]
    BY <1>16, <1>p, <2>2 DEF RefreshRead
  <2>4. pair' \in [Pairs -> PairRows]
    <3>1. pair' = pair \/ pair' = [pair EXCEPT ![refreshing[t].pair].live = FALSE]
      BY <1>16 DEF RefreshRead
    <3>2. [pair EXCEPT ![refreshing[t].pair].live = FALSE] \in [Pairs -> PairRows]
      BY <1>p, OffRecord
    <3> QED  BY <3>1, <3>2, <1>p
  <2> QED  BY <1>16, <1>p, <1>k, <2>3, <2>4 DEF RefreshRead
<1>17. ASSUME NEW t \in Tabs, Rotate(t) PROVE Typed
  <2> DEFINE k == refreshing[t].pair
             pairs == [pair EXCEPT ![k].live = FALSE]
  <2>1. refreshing[t] \in Renewals /\ k \in Pairs
    BY <1>17, OfRefresh DEF Rotate, RefersInv, Renews, PairOf
  <2>2. pairs \in [Pairs -> PairRows] /\ pair[k].sid \in Nat \ {None}
    <3>1. pairs \in [Pairs -> PairRows]
      BY <1>p, OffRecord
    <3> QED  BY <1>p, <2>1, <3>1 DEF PairRows
  <2>3. (Purged \/ pair[k].sid # account.sid) \in BOOLEAN /\ TRUE \in BOOLEAN
    OBVIOUS
  <2>4. Issue(Browser(t), t, pair[k].sid, TRUE, Purged \/ pair[k].sid # account.sid, pairs)
    BY <1>17 DEF Rotate
  <2> HIDE DEF pairs
  <2>5. Minted \in Nat /\ pair' \in [1..Minted -> PairRows]
    BY <2>2, <2>3, <2>4, Issued, PairsCounted
  <2>6. [refreshing[t] EXCEPT !.step = "answered", !.new = Minted] \in Renewals
    BY <2>1, <2>5 DEF Renewals
  <2>7. refreshing' \in [Tabs -> {NoCall} \cup Renewals]
    BY <1>17, <1>p, <2>6 DEF Rotate, Minted
  <2> QED  BY <1>17, <1>p, <2>5, <2>7 DEF Rotate
<1>18. ASSUME NEW t \in Tabs, Settle(t) PROVE Typed
  <2>1. refreshing[t] \in Renewals
    BY <1>18, OfRefresh DEF Settle
  <2>2. [refreshing[t] EXCEPT !.step = "renewed"] \in Renewals /\ refreshing[t].new \in Nat
    BY <2>1 DEF Renewals
  <2>3. refreshing' \in [Tabs -> {NoCall} \cup Renewals] /\ store' \in [Browsers -> Nat]
    BY <1>18, <1>p, <1>b, <2>2 DEF Settle
  <2> QED  BY <1>18, <1>p, <1>e, <2>3 DEF Settle
<1>19. ASSUME NEW t \in Tabs, Forget(t) PROVE Typed
  BY <1>19, <1>p, <1>e DEF Forget
<1>20. ASSUME NEW t \in Tabs, RefreshLost(t) PROVE Typed
  <2>0. refreshing[t].step # "idle"
    BY <1>20 DEF RefreshLost
  <2>1. refreshing[t] \in Renewals
    BY <2>0, OfRefresh
  <2>2. [refreshing[t] EXCEPT !.step = "failed"] \in Renewals
    BY <2>1 DEF Renewals
  <2>3. refreshing' \in [Tabs -> {NoCall} \cup Renewals]
    BY <1>20, <1>p, <2>2 DEF RefreshLost
  <2> QED  BY <1>20, <1>p, <1>e, <2>3 DEF RefreshLost
<1>21. ASSUME NEW k \in Pairs, Expire(k) PROVE Typed
  <2>1. pair' \in [Pairs -> PairRows]
    <3>1. pair' = [pair EXCEPT ![k] = [pair[k] EXCEPT !.old = TRUE]]
      BY <1>21, <1>p DEF Expire
    <3>2. [pair[k] EXCEPT !.old = TRUE] \in PairRows
      BY <1>p, RowStays
    <3> QED  BY <1>p, <3>1, <3>2, RowsStay
  <2> QED  BY <1>21, <1>p, <1>k, <2>1 DEF Expire
<1> QED
  BY <1>1, <1>2, <1>3, <1>4, <1>5, <1>6, <1>7, <1>8, <1>9, <1>10, <1>11, <1>12, <1>13, <1>14, <1>15, <1>16, <1>17,
     <1>18, <1>19, <1>20, <1>21 DEF WebNext

-----------------------------------------------------------------------------
(* WebSession: pairs stay, and lose at most their place on the record. *)

Grown ==
  /\ Pairs \subseteq DOMAIN pair'
  /\ \A k \in DOMAIN pair' : k \in Pairs \/ k = Minted
  /\ \A k \in Pairs :
       /\ pair'[k].tab = pair[k].tab /\ pair'[k].sid = pair[k].sid /\ pair'[k].renewed = pair[k].renewed
       /\ pair'[k].live => pair[k].live
       /\ pair[k].crossed => pair'[k].crossed
       /\ pair'[k].old => pair[k].old \/ Expire(k)

\* No step takes a pair away or gives it to another tab or session.
LEMMA PairsGrow ==
  ASSUME WebAssumption, WebTypeOK, RefersInv, WebNext
  PROVE  Grown
<1>p. pair \in [Pairs -> PairRows]
  BY PairsCounted
<1>s. DOMAIN pair = Pairs
  BY DEF Pairs
<1>u. UNCHANGED pair => Grown
  BY <1>s DEF Grown
<1>1. ASSUME NEW q \in Handles, Purge(q) PROVE Grown
  <2>1. pair' = [k \in Pairs |-> [pair[k] EXCEPT !.live = FALSE]]
    BY <1>1 DEF Purge
  <2> QED  BY <2>1, <1>p DEF Grown, PairRows
<1>2. ASSUME NEW q \in Handles, ClaimSession(q) PROVE Grown
  <2>1. pair' = [k \in Pairs |-> [pair[k] EXCEPT !.crossed = @ \/ (call[q].step = "claims" /\ pair[k].sid # call[q].sid)]]
    BY <1>2 DEF ClaimSession
  <2> QED  BY <2>1, <1>p DEF Grown, PairRows
<1>3. ASSUME NEW q \in Handles, SignedIn(q) PROVE Grown
  <2>1. Issue(Browser(call[q].tab), call[q].tab, call[q].sid, FALSE, Purged \/ call[q].sid # account.sid, pair)
    BY <1>3 DEF SignedIn
  <2>2. DOMAIN pair' = Pairs \cup {Minted} /\ \A i \in Pairs : pair'[i] = pair[i]
    <3> DEFINE row == [sid |-> call[q].sid, tab |-> call[q].tab, renewed |-> FALSE, live |-> TRUE, old |-> FALSE,
                       crossed |-> Purged \/ call[q].sid # account.sid]
    <3>1. pair' = [i \in Pairs \cup {Minted} |-> IF i = Minted THEN row ELSE pair[i]]
      BY <2>1 DEF Issue, Minted
    <3> HIDE DEF row
    <3> QED  BY <3>1, PairsCounted
  <2> QED  BY <2>2, <1>p DEF Grown
<1>4. ASSUME NEW q \in Handles, SignOut(q) PROVE Grown
  <2>1. pair' = [pair EXCEPT ![call[q].body].live = FALSE]
    BY <1>4 DEF SignOut
  <2> QED  BY <2>1, <1>p, <1>s DEF Grown, PairRows
<1>5. ASSUME NEW t \in Tabs, RefreshRead(t) PROVE Grown
  <2>1. pair' = pair \/ pair' = [pair EXCEPT ![refreshing[t].pair].live = FALSE]
    BY <1>5 DEF RefreshRead
  <2>2. CASE pair' = [pair EXCEPT ![refreshing[t].pair].live = FALSE]
    BY <2>2, <1>p, <1>s DEF Grown, PairRows
  <2> QED  BY <2>1, <2>2, <1>u
<1>6. ASSUME NEW t \in Tabs, Rotate(t) PROVE Grown
  <2> DEFINE k == refreshing[t].pair
             pairs == [pair EXCEPT ![k].live = FALSE]
  <2>1. k \in Pairs
    BY <1>6, OfRefresh DEF Rotate, RefersInv, Renews, PairOf
  <2>2. pairs \in [Pairs -> PairRows] /\ pair[k].sid \in Nat \ {None}
    BY <1>p, <2>1 DEF PairRows
  <2>3. (Purged \/ pair[k].sid # account.sid) \in BOOLEAN /\ TRUE \in BOOLEAN
    OBVIOUS
  <2>4. Issue(Browser(t), t, pair[k].sid, TRUE, Purged \/ pair[k].sid # account.sid, pairs)
    BY <1>6 DEF Rotate
  <2>5. \A i \in Pairs : /\ pairs[i].tab = pair[i].tab /\ pairs[i].sid = pair[i].sid /\ pairs[i].renewed = pair[i].renewed
                         /\ pairs[i].old = pair[i].old /\ pairs[i].crossed = pair[i].crossed
                         /\ pairs[i].live => pair[i].live
    BY <1>p DEF PairRows
  <2> HIDE DEF pairs
  <2>6. DOMAIN pair' = Pairs \cup {Minted} /\ \A i \in Pairs : pair'[i] = pairs[i]
    <3> DEFINE row == [sid |-> pair[k].sid, tab |-> t, renewed |-> TRUE, live |-> TRUE, old |-> FALSE,
                       crossed |-> Purged \/ pair[k].sid # account.sid]
    <3>1. pair' = [i \in Pairs \cup {Minted} |-> IF i = Minted THEN row ELSE pairs[i]]
      BY <2>4 DEF Issue, Minted
    <3> HIDE DEF row
    <3> QED  BY <3>1, PairsCounted
  <2> QED  BY <2>5, <2>6 DEF Grown
<1>7. ASSUME NEW k \in Pairs, Expire(k) PROVE Grown
  <2>1. pair' = [pair EXCEPT ![k].old = TRUE]
    BY <1>7 DEF Expire
  <2>2. \A i \in Pairs : /\ pair'[i].tab = pair[i].tab /\ pair'[i].sid = pair[i].sid /\ pair'[i].renewed = pair[i].renewed
                         /\ pair'[i].crossed = pair[i].crossed /\ pair'[i].live = pair[i].live
                         /\ i # k => pair'[i] = pair[i]
    BY <2>1, <1>p DEF PairRows
  <2>3. DOMAIN pair' = Pairs
    BY <2>1, <1>s
  <2> QED  BY <1>7, <2>2, <2>3 DEF Grown
<1>8. ASSUME NEW q \in Handles, NEW t \in Tabs, Ask(q, t) \/ Login(q, t) \/ Logout(q, t) \/ Reload(q, t) PROVE Grown
  BY <1>8, <1>u DEF Ask, Login, Logout, Reload
<1>9. ASSUME NEW q \in Handles,
             Answer(q) \/ Receive(q) \/ Refused(q) \/ Resume(q) \/ CallLost(q) \/ LoginRead(q) \/ EndSession(q)
      PROVE  Grown
  BY <1>9, <1>u DEF Answer, Receive, Refused, Resume, CallLost, LoginRead, EndSession
<1>10. ASSUME NEW t \in Tabs, Settle(t) \/ Forget(t) \/ RefreshLost(t) PROVE Grown
  BY <1>10, <1>u DEF Settle, Forget, RefreshLost
<1> QED
  BY <1>1, <1>2, <1>3, <1>4, <1>5, <1>6, <1>7, <1>8, <1>9, <1>10 DEF WebNext

\* What names a pair goes on naming it.
LEMMA StillNamed ==
  ASSUME Grown
  PROVE  /\ \A k, b : PairOf(k, b) => PairOf(k, b)'
         /\ \A t, r : Renews(t, r) => Renews(t, r)'
         /\ \A c : Refers(c) => Refers(c)'
<1>1. \A k \in Pairs : k \in Pairs' /\ Given(k)' = Given(k) /\ pair'[k].tab = pair[k].tab
  BY DEF Grown, Pairs, Given, Browser
<1>2. \A k, b : PairOf(k, b) => PairOf(k, b)'
  BY <1>1 DEF PairOf
<1>3. \A t, r : Renews(t, r) => Renews(t, r)'
  BY <1>1, <1>2 DEF Renews
<1>4. \A c : Refers(c) => Refers(c)'
  BY <1>1, <1>2 DEF Refers
<1> QED  BY <1>2, <1>3, <1>4

\* A call that goes on names the pairs it named, or one that is there.
LEMMA RefersOn ==
  ASSUME NEW c \in CallRows, Refers(c)
  PROVE  /\ \A step \in CallSteps \ {"claims", "purged", "claimed", "ends"} : Refers([c EXCEPT !.step = step])
         /\ Refers([c EXCEPT !.step = "waits", !.retry = TRUE])
         /\ \A said \in {"unauthorized", "ok", "displaced"}, let \in BOOLEAN : Refers([c EXCEPT !.step = said, !.let = let])
         /\ \A k \in Pairs : Refers([c EXCEPT !.step = "sent", !.pair = k])
         /\ Refers([c EXCEPT !.step = "sent", !.pair = None])
         /\ \A sid : c.what = "logout" => Refers([c EXCEPT !.step = "ends", !.sid = sid])
         /\ \A step \in {"claims", "purged"} : \A sid : sid # None => Refers([c EXCEPT !.step = step, !.sid = sid])
         /\ Signing(c) => Refers([c EXCEPT !.step = "claimed"])
<1>1. c # NoCall
  BY DEF CallRows, NoCall
<1>2. \A d \in CallRows : (d.pair # None => d.pair \in Pairs) /\ d.tab = c.tab /\ d.what = c.what /\ d.body = c.body
                            /\ (d.step = "ends" => c.what = "logout") /\ (Signing(d) => d.sid # None) => Refers(d)
  BY <1>1 DEF Refers
<1>3. (c.pair # None => c.pair \in Pairs) /\ (c.step = "ends" => c.what = "logout") /\ (Signing(c) => c.sid # None)
  BY <1>1 DEF Refers
<1>4. ASSUME NEW step \in CallSteps \ {"claims", "purged", "claimed", "ends"} PROVE Refers([c EXCEPT !.step = step])
  BY <1>1, <1>3 DEF CallRows, CallSteps, Refers, Signing
<1>5. Refers([c EXCEPT !.step = "waits", !.retry = TRUE])
  BY <1>1, <1>3 DEF CallRows, CallSteps, Refers, Signing
<1>6. ASSUME NEW said \in {"unauthorized", "ok", "displaced"}, NEW let \in BOOLEAN PROVE Refers([c EXCEPT !.step = said, !.let = let])
  BY <1>1, <1>3 DEF CallRows, CallSteps, Refers, Signing
<1>7. ASSUME NEW k, k = None \/ k \in Pairs PROVE Refers([c EXCEPT !.step = "sent", !.pair = k])
  BY <1>1, <1>3, <1>7 DEF CallRows, CallSteps, Refers, Signing
<1>8. ASSUME NEW sid, c.what = "logout" PROVE Refers([c EXCEPT !.step = "ends", !.sid = sid])
  BY <1>1, <1>3, <1>8 DEF CallRows, CallSteps, Refers, Signing
<1>9. ASSUME NEW step \in {"claims", "purged"}, NEW sid, sid # None PROVE Refers([c EXCEPT !.step = step, !.sid = sid])
  BY <1>1, <1>3, <1>9 DEF CallRows, CallSteps, Refers, Signing
<1>10. Signing(c) => Refers([c EXCEPT !.step = "claimed"])
  BY <1>1, <1>3 DEF CallRows, CallSteps, Refers, Signing
<1> QED  BY <1>4, <1>5, <1>6, <1>7, <1>8, <1>9, <1>10

\* Browsers go on storing, renewing and handing in pairs of their own.
LEMMA RefersStep ==
  ASSUME WebAssumption, WebTypeOK, RefersInv, WebNext
  PROVE  RefersInv'
<1>g. Grown
  BY PairsGrow
<1>n. /\ \A k, b : PairOf(k, b) => PairOf(k, b)'
      /\ \A t, r : Renews(t, r) => Renews(t, r)'
      /\ \A c : Refers(c) => Refers(c)'
  BY <1>g, StillNamed
<1> DEFINE S == \A b \in Browsers : store'[b] # None => PairOf(store[b], b)'
           T == \A t \in Tabs : Renews(t, refreshing[t])'
           C == \A q \in Handles : Refers(call[q])'
<1>q. SUFFICES S /\ T /\ C
  BY DEF RefersInv, Browsers, Browser
<1>s. UNCHANGED store => S
  BY <1>n DEF RefersInv
<1>t. UNCHANGED refreshing => T
  BY <1>n DEF RefersInv
<1>c. UNCHANGED call => C
  BY <1>n DEF RefersInv
<1>d. ASSUME NEW q \in Handles, \A p \in Handles : p # q => call'[p] = call[p], Refers(call[q])' PROVE C
  BY <1>n, <1>d DEF RefersInv
<1>e. ASSUME NEW q \in Handles, NEW c \in CallOrNone, Refers(c), Become(q, c) PROVE C
  <2>1. call'[q] = c /\ \A p \in Handles : p # q => call'[p] = call[p]
    BY <1>e, BecomeType
  <2>2. Refers(c)'
    BY <1>e, <1>n
  <2>3. Refers(call[q])'
    BY <2>1, <2>2
  <2> QED  BY <1>d, <2>1, <2>3
<1>o. Refers(NoCall) /\ NoCall \in CallOrNone /\ CallRows \subseteq CallOrNone
  BY DEF Refers, CallOrNone
<1>p. /\ store \in [Browsers -> Nat] /\ refreshing \in [Tabs -> {NoCall} \cup Renewals] /\ call \in [Handles -> CallOrNone]
      /\ lastSid \in Nat
  BY DEF WebTypeOK, CallOrNone
<1>b. \A t \in Tabs : Browser(t) \in Browsers /\ store[Browser(t)] \in Nat
                      /\ (store[Browser(t)] # None => PairOf(store[Browser(t)], Browser(t)))
  BY <1>p DEF Browsers, RefersInv
<1>j. ASSUME NEW c \in CallRows, Join(c), store[Browser(c.tab)] # None PROVE T
  <2>1. c.tab \in Tabs /\ PairOf(store[Browser(c.tab)], Browser(c.tab))
    BY <1>b, <1>j DEF CallRows
  <2>2. Renews(c.tab, Renewal(store[Browser(c.tab)]))
    BY <2>1 DEF Renews, Renewal
  <2>3. /\ \A t \in Tabs : t # c.tab => refreshing'[t] = refreshing[t]
        /\ refreshing'[c.tab] = refreshing[c.tab] \/ refreshing'[c.tab] = Renewal(store[Browser(c.tab)])
    BY <1>j, Joined
  <2>4. \A t \in Tabs : Renews(t, refreshing[t])
    BY DEF RefersInv
  <2>5. ASSUME NEW t \in Tabs PROVE Renews(t, refreshing[t])'
    <3>1. Renews(t, refreshing'[t])
      BY <2>1, <2>2, <2>3, <2>4
    <3>2. \A r : Renews(t, r) => Renews(t, r)'
      BY <1>n
    <3>3. ASSUME NEW r, r = refreshing'[t], Renews(t, r) PROVE Renews(t, refreshing[t])'
      BY <3>2, <3>3
    <3> QED  BY <3>1, <3>3
  <2> QED  BY <2>5
\* A call is sent, or waits.
<1>f. ASSUME NEW q \in Handles, NEW r \in CallRows, Refers(r), Send(q, r),
             r.pair = store[Browser(r.tab)]
      PROVE  T /\ C
  <2>1. /\ \A p \in Handles : p # q => call'[p] = call[p]
        /\ \/ ~Old(r.pair) /\ call'[q] = r /\ UNCHANGED refreshing
           \/ Old(r.pair) /\ call'[q] = [r EXCEPT !.step = "waits"] /\ Join(r)
    BY <1>f, Sent
  <2>2. Refers([r EXCEPT !.step = "waits"])
    BY <1>f, RefersOn DEF CallSteps
  <2>3. C
    <3>1. CASE call'[q] = r
      <4>1. Refers(r)'
        BY <1>f, <1>n
      <4> QED  BY <1>d, <2>1, <3>1, <4>1
    <3>2. CASE call'[q] = [r EXCEPT !.step = "waits"]
      <4>1. Refers([r EXCEPT !.step = "waits"])'
        BY <1>n, <2>2
      <4> QED  BY <1>d, <2>1, <3>2, <4>1
    <3> QED  BY <2>1, <3>1, <3>2
  <2>4. T
    <3>1. CASE Join(r) /\ Old(r.pair)
      BY <1>f, <1>j, <3>1 DEF Old
    <3>2. CASE UNCHANGED refreshing
      BY <1>t, <3>2
    <3> QED  BY <2>1, <3>1, <3>2
  <2> QED  BY <2>3, <2>4
<1>h. ASSUME NEW t \in Tabs, NEW what \in {"panel", "me", "login"} PROVE
        /\ CallOf(t, what, store[Browser(t)]) \in CallRows /\ Refers(CallOf(t, what, store[Browser(t)]))
        /\ CallOf(t, what, None) \in CallRows /\ Refers(CallOf(t, what, None))
        /\ CallOf(t, what, store[Browser(t)]).pair = store[Browser(CallOf(t, what, store[Browser(t)]).tab)]
  <2>1. CallOf(t, what, store[Browser(t)]) \in CallRows /\ CallOf(t, what, None) \in CallRows
    BY <1>b, NewCall DEF None
  <2>2. store[Browser(t)] # None => store[Browser(t)] \in Pairs
    BY <1>b DEF PairOf
  <2> QED  BY <2>1, <2>2 DEF CallOf, Refers, Signing
<1>1. ASSUME NEW q \in Handles, NEW t \in Tabs, Ask(q, t) PROVE S /\ T /\ C
  BY <1>1, <1>f, <1>h, <1>s DEF Ask
<1>2. ASSUME NEW q \in Handles, NEW t \in Tabs, Login(q, t) PROVE S /\ T /\ C
  BY <1>2, <1>e, <1>h, <1>o, <1>s, <1>t DEF Login
<1>3. ASSUME NEW q \in Handles, NEW t \in Tabs, Logout(q, t) PROVE S /\ T /\ C
  <2>1. S
    <3>1. store' = [store EXCEPT ![Browser(t)] = None]
      BY <1>3 DEF Logout
    <3> QED  BY <1>n, <1>p, <3>1 DEF RefersInv
  <2>2. CASE store[Browser(t)] = None
    BY <1>3, <1>c, <1>t, <2>1, <2>2 DEF Logout
  <2>3. CASE store[Browser(t)] # None
    <3> DEFINE r == [CallOf(t, "logout", store[Browser(t)]) EXCEPT !.body = store[Browser(t)]]
    <3>1. r \in CallRows
      BY <1>b, NewCall
    <3>2. PairOf(store[Browser(t)], Browser(t)) /\ store[Browser(t)] \in Pairs
      BY <1>b, <2>3 DEF PairOf
    <3>3. Refers(r) /\ r.pair = store[Browser(r.tab)]
      BY <3>2 DEF CallOf, Refers, Signing
    <3>4. Send(q, r)
      BY <1>3, <2>3 DEF Logout
    <3> HIDE DEF r
    <3> QED  BY <1>f, <2>1, <3>1, <3>3, <3>4
  <2> QED  BY <2>2, <2>3
<1>4. ASSUME NEW q \in Handles, NEW t \in Tabs, Reload(q, t) PROVE S /\ T /\ C
  BY <1>4, <1>f, <1>h, <1>s DEF Reload
<1>5. ASSUME NEW q \in Handles, Answer(q) PROVE S /\ T /\ C
  <2>1. call[q] \in CallRows /\ Refers(call[q])
    BY <1>5, OfCall DEF Answer, RefersInv
  <2>2. PICK said \in {"unauthorized", "ok", "displaced"}, let \in BOOLEAN :
          Become(q, [call[q] EXCEPT !.step = said, !.let = let])
    BY <1>5 DEF Answer, Verdict
  <2>3. [call[q] EXCEPT !.step = said, !.let = let] \in CallOrNone
    BY <2>1, <1>o, CallGoesOn DEF CallSteps, None
  <2>4. Refers([call[q] EXCEPT !.step = said, !.let = let])
    BY <2>1, RefersOn
  <2>5. C
    BY <1>e, <2>2, <2>3, <2>4
  <2> QED  BY <1>5, <1>s, <1>t, <2>5 DEF Answer
<1>6. ASSUME NEW q \in Handles, Receive(q) PROVE S /\ T /\ C
  BY <1>6, <1>e, <1>o, <1>s, <1>t DEF Receive
<1>l. ASSUME NEW q \in Handles, call[q] # NoCall, Lose(q) PROVE S /\ C
  <2>1. /\ store'[Browser(call[q].tab)] = None
        /\ \A b \in Browsers : b # Browser(call[q].tab) => store'[b] = store[b]
        /\ call'[q] = NoCall /\ \A p \in Handles : p # q => call'[p] = call[p]
    BY <1>l, LoseType
  <2>2. S
    BY <1>n, <2>1 DEF RefersInv
  <2>3. C
    BY <1>l, <1>e, <1>o DEF Lose
  <2> QED  BY <2>2, <2>3
<1>7. ASSUME NEW q \in Handles, Refused(q) PROVE S /\ T /\ C
  <2>0. call[q].step # "idle"
    BY <1>7 DEF Refused
  <2>1. call[q] \in CallRows /\ call[q] # NoCall /\ Refers(call[q])
    BY <2>0, OfCall DEF RefersInv
  <2>2. CASE Lose(q) /\ UNCHANGED refreshing
    BY <1>l, <1>t, <2>1, <2>2
  <2>3. CASE /\ Become(q, [call[q] EXCEPT !.step = "waits", !.retry = TRUE]) /\ Join(call[q]) /\ UNCHANGED <<store, tab, thrown>>
             /\ store[Browser(call[q].tab)] # None
    <3>1. [call[q] EXCEPT !.step = "waits", !.retry = TRUE] \in CallOrNone
      BY <2>1, <1>o, CallGoesOn DEF CallSteps, None
    <3>2. Refers([call[q] EXCEPT !.step = "waits", !.retry = TRUE])
      BY <2>1, RefersOn
    <3>3. C
      BY <1>e, <2>3, <3>1, <3>2
    <3>4. T
      BY <1>j, <2>1, <2>3
    <3> QED  BY <1>s, <2>3, <3>3, <3>4
  <2> QED  BY <1>7, <2>2, <2>3 DEF Refused
<1>8. ASSUME NEW q \in Handles, Resume(q) PROVE S /\ T /\ C
  <2>1. call[q] \in CallRows /\ call[q] # NoCall /\ Refers(call[q])
    BY <1>8, OfCall DEF Resume, RefersInv
  <2>2. CASE Lose(q)
    BY <1>8, <1>l, <1>t, <2>1, <2>2 DEF Resume
  <2>3. CASE Become(q, [call[q] EXCEPT !.step = "sent", !.pair = store[Browser(call[q].tab)]]) /\ UNCHANGED <<store, tab, thrown>>
    <3>1. call[q].tab \in Tabs
      BY <2>1 DEF CallRows
    <3>2. [call[q] EXCEPT !.step = "sent", !.pair = store[Browser(call[q].tab)]] \in CallOrNone
      BY <1>b, <1>o, <2>1, <3>1, CallGoesOn DEF CallSteps
    <3>3. Refers([call[q] EXCEPT !.step = "sent", !.pair = store[Browser(call[q].tab)]])
      BY <1>b, <2>1, <3>1, RefersOn DEF PairOf
    <3>4. C
      BY <1>e, <2>3, <3>2, <3>3
    <3> QED  BY <1>8, <1>s, <1>t, <2>3, <3>4 DEF Resume
  <2> QED  BY <1>8, <2>2, <2>3 DEF Resume
<1>9. ASSUME NEW q \in Handles, CallLost(q) PROVE S /\ T /\ C
  <2>1. C
    BY <1>9, <1>e, <1>o DEF CallLost
  <2>2. store' = store \/ store' = [store EXCEPT ![Browser(call[q].tab)] = None]
    BY <1>9 DEF CallLost
  <2>3. S
    BY <1>n, <1>p, <2>2 DEF RefersInv
  <2> QED  BY <1>9, <1>t, <2>1, <2>3 DEF CallLost
<1>10. ASSUME NEW q \in Handles, LoginRead(q) PROVE S /\ T /\ C
  <2>1. call[q] \in CallRows /\ Refers(call[q])
    BY <1>10, OfCall DEF LoginRead, RefersInv
  <2>2. [call[q] EXCEPT !.step = "claims", !.sid = account.sid] \in CallOrNone /\ [call[q] EXCEPT !.step = "read"] \in CallOrNone
    BY <2>1, <1>o, CallGoesOn DEF CallSteps, WebTypeOK, None
  <2>3. Refers([call[q] EXCEPT !.step = "read"]) /\ (account.sid # None => Refers([call[q] EXCEPT !.step = "claims", !.sid = account.sid]))
    BY <2>1, RefersOn DEF CallSteps
  <2>4. C
    <3>1. \/ Become(q, [call[q] EXCEPT !.step = "claims", !.sid = account.sid]) /\ account.sid # None
          \/ Become(q, [call[q] EXCEPT !.step = "read"])
      BY <1>10 DEF LoginRead
    <3> QED  BY <1>e, <2>2, <2>3, <3>1
  <2> QED  BY <1>10, <1>s, <1>t, <2>4 DEF LoginRead
<1>11. ASSUME NEW q \in Handles, Purge(q) PROVE S /\ T /\ C
  <2>0. lastSid + 1 \in Nat /\ lastSid + 1 # None
    BY <1>p DEF None
  <2>1. call[q] \in CallRows /\ Refers(call[q])
    BY <1>11, OfCall DEF Purge, RefersInv
  <2>2. [call[q] EXCEPT !.step = "purged", !.sid = lastSid + 1] \in CallOrNone
    BY <2>0, <2>1, <1>o, CallGoesOn DEF CallSteps, None
  <2>3. Refers([call[q] EXCEPT !.step = "purged", !.sid = lastSid + 1])
    BY <2>0, <2>1, RefersOn
  <2>4. C
    BY <1>11, <1>e, <2>2, <2>3 DEF Purge
  <2> QED  BY <1>11, <1>s, <1>t, <2>4 DEF Purge
<1>12. ASSUME NEW q \in Handles, ClaimSession(q) PROVE S /\ T /\ C
  <2>0. call[q].step # "idle" /\ Signing(call[q])
    BY <1>12 DEF ClaimSession, Signing
  <2>1. call[q] \in CallRows /\ Refers(call[q])
    BY <2>0, OfCall DEF RefersInv
  <2>2. [call[q] EXCEPT !.step = "claimed"] \in CallOrNone
    BY <2>1, <1>o, CallGoesOn DEF CallSteps, None
  <2>3. Refers([call[q] EXCEPT !.step = "claimed"])
    BY <2>0, <2>1, RefersOn
  <2>4. C
    BY <1>12, <1>e, <2>2, <2>3 DEF ClaimSession
  <2> QED  BY <1>12, <1>s, <1>t, <2>4 DEF ClaimSession
<1>13. ASSUME NEW q \in Handles, SignedIn(q) PROVE S /\ T /\ C
  <2>1. call[q].tab \in Tabs /\ Browser(call[q].tab) \in Browsers
    BY <1>13, OfCall DEF SignedIn
  <2>2. PICK t \in Tabs, b \in Browsers, k \in Nat \ {None} : t = call[q].tab /\ b = Browser(t) /\ k = Minted
    BY <2>1, PairsCounted
  <2>3. k \in DOMAIN pair' /\ pair'[k].tab = t
    BY <1>13, <2>2 DEF SignedIn, Issue, Minted
  <2>4. PairOf(k, b)'
    BY <2>2, <2>3 DEF PairOf, Given, Browser, Pairs
  <2>5. store' = [store EXCEPT ![b] = k] /\ Become(q, CallOf(t, "me", k))
    BY <1>13, <2>2 DEF SignedIn, Minted
  <2>6. S
    BY <1>n, <1>p, <2>4, <2>5 DEF RefersInv
  <2>7. CallOf(t, "me", k) \in CallOrNone
    BY <1>o, <2>2, NewCall
  <2>8. call'[q] = CallOf(t, "me", k) /\ \A p \in Handles : p # q => call'[p] = call[p]
    BY <2>5, <2>7, BecomeType
  <2>9. Refers(call[q])'
    BY <2>3, <2>8 DEF Refers, CallOf, Signing, Pairs
  <2>10. C
    BY <1>d, <2>8, <2>9
  <2> QED  BY <1>13, <1>t, <2>6, <2>10 DEF SignedIn
<1>14. ASSUME NEW q \in Handles, SignOut(q) PROVE S /\ T /\ C
  <2>1. call[q] \in CallRows /\ Refers(call[q]) /\ call[q].what = "logout"
    BY <1>14, OfCall DEF SignOut, RefersInv
  <2>2. [call[q] EXCEPT !.step = "ends", !.sid = account.sid] \in CallOrNone
    BY <2>1, <1>o, CallGoesOn DEF CallSteps, WebTypeOK, None
  <2>3. Refers([call[q] EXCEPT !.step = "ends", !.sid = account.sid])
    BY <2>1, RefersOn
  <2>4. C
    <3>1. Become(q, [call[q] EXCEPT !.step = "ends", !.sid = account.sid]) \/ Become(q, NoCall)
      BY <1>14 DEF SignOut
    <3> QED  BY <1>e, <1>o, <2>2, <2>3, <3>1
  <2> QED  BY <1>14, <1>s, <1>t, <2>4 DEF SignOut
<1>15. ASSUME NEW q \in Handles, EndSession(q) PROVE S /\ T /\ C
  BY <1>15, <1>e, <1>o, <1>s, <1>t DEF EndSession
\* A refresh goes on, or is dropped.
<1>r. ASSUME NEW t \in Tabs, NEW r, refreshing' = [refreshing EXCEPT ![t] = r], Renews(t, r)'
      PROVE  T
  <2>1. ASSUME NEW u \in Tabs PROVE Renews(u, refreshing[u])'
    <3>1. CASE u = t
      BY <1>p, <1>r, <3>1
    <3>2. CASE u # t
      <4>1. refreshing'[u] = refreshing[u] /\ Renews(u, refreshing[u])
        BY <1>p, <1>r, <3>2 DEF RefersInv
      <4>2. ASSUME NEW v, v = refreshing[u], refreshing'[u] = v, Renews(u, v) PROVE Renews(u, refreshing[u])'
        BY <1>n, <4>2
      <4> QED  BY <4>1, <4>2
    <3> QED  BY <3>1, <3>2
  <2> QED  BY <2>1
<1>u. ASSUME NEW t \in Tabs, refreshing[t] # NoCall,
             NEW step \in {"checked", "failed", "renewed"}, refreshing' = [refreshing EXCEPT ![t].step = step]
      PROVE  T
  <2>1. refreshing[t] \in Renewals /\ Renews(t, refreshing[t])
    BY <1>u, OfRefresh DEF RefersInv
  <2>2. PICK r : r = [refreshing[t] EXCEPT !.step = step]
    OBVIOUS
  <2>3. Renews(t, r)
    BY <2>1, <2>2 DEF Renews, Renewals, NoCall
  <2>4. refreshing' = [refreshing EXCEPT ![t] = r]
    BY <1>u, <2>2
  <2> QED  BY <1>n, <1>r, <2>3, <2>4
<1>16. ASSUME NEW t \in Tabs, RefreshRead(t) PROVE S /\ T /\ C
  <2>1. refreshing[t] # NoCall
    BY <1>16, OfRefresh DEF RefreshRead
  <2>2. T
    BY <1>16, <1>u, <2>1 DEF RefreshRead
  <2> QED  BY <1>16, <1>s, <1>c, <2>2 DEF RefreshRead
<1>17. ASSUME NEW t \in Tabs, Rotate(t) PROVE S /\ T /\ C
  <2>1. refreshing[t] \in Renewals /\ Renews(t, refreshing[t]) /\ refreshing[t] # NoCall
    BY <1>17, OfRefresh DEF Rotate, RefersInv
  <2>2. PICK k \in Nat \ {None} : k = Minted
    BY PairsCounted
  <2>3. k \in DOMAIN pair' /\ pair'[k].tab = t
    BY <1>17, <2>2 DEF Rotate, Issue, Minted
  <2>4. PICK r : r = [refreshing[t] EXCEPT !.step = "answered", !.new = k]
    OBVIOUS
  <2>5. refreshing' = [refreshing EXCEPT ![t] = r]
    BY <1>17, <2>2, <2>4 DEF Rotate, Minted
  <2>6. PICK old : old = refreshing[t].pair
    OBVIOUS
  <2>7. r.pair = old /\ r.new = k /\ PairOf(old, Browser(t))
    BY <2>1, <2>4, <2>6 DEF Renewals, Renews
  <2>8. PairOf(old, Browser(t))'
    BY <1>n, <2>7
  <2>9. Renews(t, r)'
    BY <2>3, <2>7, <2>8 DEF Renews, Pairs
  <2>10. T
    BY <1>r, <2>5, <2>9
  <2> QED  BY <1>17, <1>s, <1>c, <2>10 DEF Rotate
<1>18. ASSUME NEW t \in Tabs, Settle(t) PROVE S /\ T /\ C
  <2>1. refreshing[t] # NoCall
    BY <1>18, OfRefresh DEF Settle
  <2>2. T
    BY <1>18, <1>u, <2>1 DEF Settle
  <2>3. PICK k : k = refreshing[t].new
    OBVIOUS
  <2>4. PairOf(k, Browser(t))
    BY <1>18, <2>1, <2>3 DEF Settle, RefersInv, Renews, PairOf, Given
  <2>5. S
    BY <1>18, <1>n, <1>p, <2>3, <2>4 DEF RefersInv, Settle
  <2> QED  BY <1>18, <1>c, <2>2, <2>5 DEF Settle
<1>19. ASSUME NEW t \in Tabs, Forget(t) PROVE S /\ T /\ C
  <2>1. Renews(t, NoCall)'
    BY DEF Renews
  <2>2. T
    BY <1>19, <1>r, <2>1 DEF Forget
  <2> QED  BY <1>19, <1>s, <1>c, <2>2 DEF Forget
<1>20. ASSUME NEW t \in Tabs, RefreshLost(t) PROVE S /\ T /\ C
  <2>0. refreshing[t].step # "idle"
    BY <1>20 DEF RefreshLost
  <2>1. refreshing[t] # NoCall
    BY <2>0, OfRefresh
  <2>2. T
    BY <1>20, <1>u, <2>1 DEF RefreshLost
  <2> QED  BY <1>20, <1>s, <1>c, <2>2 DEF RefreshLost
<1>21. ASSUME NEW k \in Pairs, Expire(k) PROVE S /\ T /\ C
  BY <1>21, <1>s, <1>t, <1>c DEF Expire
<1> QED
  BY <1>1, <1>2, <1>3, <1>4, <1>5, <1>6, <1>7, <1>8, <1>9, <1>10, <1>11, <1>12, <1>13, <1>14, <1>15, <1>16, <1>17,
     <1>18, <1>19, <1>20, <1>21 DEF WebNext

-----------------------------------------------------------------------------
(* WebSession: what changes a call, a refresh, a browser's storage. *)

CallStep(q) ==
  \/ \E t \in Tabs : Ask(q, t) \/ Login(q, t) \/ Logout(q, t) \/ Reload(q, t)
  \/ Answer(q) \/ Receive(q) \/ Refused(q) \/ Resume(q) \/ CallLost(q)
  \/ LoginRead(q) \/ Purge(q) \/ ClaimSession(q) \/ SignedIn(q) \/ SignOut(q) \/ EndSession(q)

Renewing(t) == RefreshRead(t) \/ Rotate(t) \/ Settle(t) \/ Forget(t) \/ RefreshLost(t)

\* A step is that of a call, of a refresh, or of time.
LEMMA EachStep ==
  ASSUME WebNext
  PROVE  \/ \E q \in Handles : CallStep(q)
         \/ \E t \in Tabs : Renewing(t)
         \/ \E k \in Pairs : Expire(k)
  BY DEF WebNext, CallStep, Renewing

\* A step of one call, or of a refresh, leaves the other calls as they are.
LEMMA OwnMove ==
  ASSUME WebTypeOK, WebNext, NEW q \in Handles
  PROVE  CallStep(q) \/ call'[q] = call[q]
<1>c. call \in [Handles -> CallOrNone]
  BY DEF WebTypeOK, CallOrNone
<1>b. ASSUME NEW p \in Handles, NEW c, Become(p, c), p # q PROVE call'[q] = call[q]
  BY <1>b, <1>c DEF Become
<1>s. ASSUME NEW p \in Handles, NEW r, Send(p, r), p # q PROVE call'[q] = call[q]
  BY <1>s, <1>b DEF Send
<1>1. ASSUME NEW p \in Handles, CallStep(p), p # q PROVE call'[q] = call[q]
  <2>1. ASSUME NEW t \in Tabs, Ask(p, t) \/ Login(p, t) \/ Logout(p, t) \/ Reload(p, t) PROVE call'[q] = call[q]
    BY <1>1, <2>1, <1>b, <1>s DEF Ask, Login, Logout, Reload
  <2>2. ASSUME Answer(p) \/ Receive(p) \/ Refused(p) \/ Resume(p) \/ CallLost(p) PROVE call'[q] = call[q]
    BY <1>1, <2>2, <1>b DEF Answer, Receive, Refused, Resume, CallLost, Lose
  <2>3. ASSUME LoginRead(p) \/ Purge(p) \/ ClaimSession(p) \/ SignedIn(p) \/ SignOut(p) \/ EndSession(p)
        PROVE  call'[q] = call[q]
    BY <1>1, <2>3, <1>b DEF LoginRead, Purge, ClaimSession, SignedIn, SignOut, EndSession
  <2> QED  BY <1>1, <2>1, <2>2, <2>3 DEF CallStep
<1>2. ASSUME NEW t \in Tabs, Renewing(t) PROVE call' = call
  BY <1>2 DEF Renewing, RefreshRead, Rotate, Settle, Forget, RefreshLost
<1>3. ASSUME NEW k \in Pairs, Expire(k) PROVE call' = call
  BY <1>3 DEF Expire
<1> QED  BY <1>1, <1>2, <1>3, EachStep

\* A tab's refresh begins with the pair in storage.
Begun(t) ==
  /\ refreshing[t] = NoCall /\ refreshing'[t] = Renewal(store[Browser(t)])
  /\ store[Browser(t)] # None /\ pair' = pair /\ lost' = lost
  /\ store' = store \/ store' = [store EXCEPT ![Browser(t)] = None]

\* A tab's refresh changes by a step of its own, or begins.
LEMMA OwnRefresh ==
  ASSUME WebTypeOK, WebNext, NEW t \in Tabs
  PROVE  Renewing(t) \/ Begun(t) \/ refreshing'[t] = refreshing[t]
<1>p. refreshing \in [Tabs -> {NoCall} \cup Renewals]
  BY DEF WebTypeOK
<1>k. \A u \in Tabs : store[Browser(u)] \in Nat
  BY DEF WebTypeOK, Browsers
<1>j. ASSUME NEW c \in CallRows, Join(c), store[Browser(c.tab)] # None, pair' = pair, lost' = lost,
             store' = store \/ store' = [store EXCEPT ![Browser(c.tab)] = None]
      PROVE  Begun(t) \/ refreshing'[t] = refreshing[t]
  BY <1>j, Joined DEF Begun
<1>s. ASSUME NEW q \in Handles, NEW r \in CallRows, Send(q, r), r.pair = store[Browser(r.tab)], pair' = pair, lost' = lost,
             store' = store \/ store' = [store EXCEPT ![Browser(r.tab)] = None]
      PROVE  Begun(t) \/ refreshing'[t] = refreshing[t]
  <2>1. UNCHANGED refreshing \/ (Old(r.pair) /\ Join(r))
    BY <1>s, Sent
  <2> QED  BY <1>j, <1>s, <2>1 DEF Old
<1>1. ASSUME NEW q \in Handles, NEW u \in Tabs, Ask(q, u) \/ Reload(q, u) PROVE Begun(t) \/ refreshing'[t] = refreshing[t]
  <2>1. /\ CallOf(u, "panel", store[Browser(u)]) \in CallRows /\ CallOf(u, "me", store[Browser(u)]) \in CallRows
    BY <1>k, NewCall
  <2>2. /\ CallOf(u, "panel", store[Browser(u)]).pair = store[Browser(CallOf(u, "panel", store[Browser(u)]).tab)]
        /\ CallOf(u, "me", store[Browser(u)]).pair = store[Browser(CallOf(u, "me", store[Browser(u)]).tab)]
    BY DEF CallOf
  <2>3. pair' = pair /\ lost' = lost /\ store' = store
    BY <1>1 DEF Ask, Reload
  <2>4. Send(q, CallOf(u, "panel", store[Browser(u)])) \/ Send(q, CallOf(u, "me", store[Browser(u)]))
    BY <1>1 DEF Ask, Reload
  <2> QED  BY <1>s, <2>1, <2>2, <2>3, <2>4
<1>2. ASSUME NEW q \in Handles, NEW u \in Tabs, Logout(q, u) PROVE Begun(t) \/ refreshing'[t] = refreshing[t]
  <2> DEFINE r == [CallOf(u, "logout", store[Browser(u)]) EXCEPT !.body = store[Browser(u)]]
  <2>1. r \in CallRows
    BY <1>k, NewCall
  <2>2. r.pair = store[Browser(r.tab)] /\ r.tab = u
    BY DEF CallOf
  <2>3. Send(q, r) \/ UNCHANGED refreshing
    BY <1>2 DEF Logout
  <2>4. pair' = pair /\ lost' = lost /\ store' = [store EXCEPT ![Browser(u)] = None]
    BY <1>2 DEF Logout
  <2> HIDE DEF r
  <2> QED  BY <1>s, <2>1, <2>2, <2>3, <2>4
<1>3. ASSUME NEW q \in Handles, Refused(q) PROVE Begun(t) \/ refreshing'[t] = refreshing[t]
  <2>0. call[q].step # "idle"
    BY <1>3 DEF Refused
  <2>1. call[q] \in CallRows
    BY <2>0, OfCall
  <2>2. \/ UNCHANGED refreshing
        \/ Join(call[q]) /\ store[Browser(call[q].tab)] # None /\ pair' = pair /\ lost' = lost /\ store' = store
    BY <1>3 DEF Refused
  <2> QED  BY <1>j, <2>1, <2>2
<1>4. ASSUME NEW q \in Handles,
             Answer(q) \/ Receive(q) \/ Resume(q) \/ CallLost(q) \/ LoginRead(q) \/ Purge(q) \/ ClaimSession(q) \/ SignedIn(q)
             \/ SignOut(q) \/ EndSession(q)
      PROVE  refreshing' = refreshing
  BY <1>4 DEF Answer, Receive, Resume, CallLost, LoginRead, Purge, ClaimSession, SignedIn, SignOut, EndSession
<1>5. ASSUME NEW q \in Handles, NEW u \in Tabs, Login(q, u) PROVE refreshing' = refreshing
  BY <1>5 DEF Login
<1>6. ASSUME NEW u \in Tabs, Renewing(u), u # t PROVE refreshing'[t] = refreshing[t]
  BY <1>6, <1>p DEF Renewing, RefreshRead, Rotate, Settle, Forget, RefreshLost
<1>7. ASSUME NEW k \in Pairs, Expire(k) PROVE refreshing' = refreshing
  BY <1>7 DEF Expire
<1> QED  BY <1>1, <1>2, <1>3, <1>4, <1>5, <1>6, <1>7, EachStep DEF CallStep

\* What is in storage came of a sign-in or a refresh.
LEMMA OwnStore ==
  ASSUME WebTypeOK, WebNext, NEW b \in Browsers
  PROVE  \/ store'[b] = store[b] \/ store'[b] = None
         \/ \E t \in Tabs : Settle(t) /\ Browser(t) = b
         \/ \E q \in Handles : SignedIn(q) /\ Browser(call[q].tab) = b
<1>p. store \in [Browsers -> Nat]
  BY DEF WebTypeOK
<1>1. ASSUME NEW q \in Handles, CallStep(q), ~SignedIn(q) PROVE store'[b] = store[b] \/ store'[b] = None
  <2>1. \/ store' = store
        \/ \E c : store' = [store EXCEPT ![c] = None]
    <3>1. ASSUME NEW t \in Tabs, Ask(q, t) \/ Login(q, t) \/ Logout(q, t) \/ Reload(q, t)
          PROVE  store' = store \/ store' = [store EXCEPT ![Browser(t)] = None]
      BY <3>1 DEF Ask, Login, Logout, Reload
    <3>2. ASSUME Answer(q) \/ Receive(q) \/ LoginRead(q) \/ Purge(q) \/ ClaimSession(q) \/ SignOut(q) \/ EndSession(q)
          PROVE  store' = store
      BY <3>2 DEF Answer, Receive, LoginRead, Purge, ClaimSession, SignOut, EndSession
    <3>3. ASSUME Refused(q) \/ Resume(q) \/ CallLost(q)
          PROVE  store' = store \/ store' = [store EXCEPT ![Browser(call[q].tab)] = None]
      BY <3>3 DEF Refused, Resume, CallLost, Lose
    <3> QED  BY <1>1, <3>1, <3>2, <3>3 DEF CallStep
  <2> QED  BY <1>p, <2>1
<1>2. ASSUME NEW q \in Handles, SignedIn(q), Browser(call[q].tab) # b PROVE store'[b] = store[b]
  BY <1>2, <1>p DEF SignedIn
<1>3. ASSUME NEW t \in Tabs, Renewing(t), ~(Settle(t) /\ Browser(t) = b) PROVE store'[b] = store[b]
  BY <1>3, <1>p DEF Renewing, RefreshRead, Rotate, Settle, Forget, RefreshLost
<1>4. ASSUME NEW k \in Pairs, Expire(k) PROVE store' = store
  BY <1>4 DEF Expire
<1> QED  BY <1>1, <1>2, <1>3, <1>4, EachStep

\* The tab, the request and the tokens of a call stay as its steps go by.
Same(c, d) == d.tab = c.tab /\ d.what = c.what /\ d.body = c.body

MadeAnew(q) ==
  /\ call[q] = NoCall /\ call'[q] \in CallRows /\ ~call'[q].retry /\ ~call'[q].let
  /\ call'[q].step \in {"sent", "waits"}

Answered(q) ==
  /\ call[q].step = "sent" /\ call'[q].retry = call[q].retry /\ call'[q].pair = call[q].pair
  /\ call'[q].step \in {"unauthorized", "ok", "displaced"}
  /\ call'[q].let => call'[q].step = "ok" /\ call[q].what = "panel"
  /\ call'[q].step = "unauthorized" => call[q].pair = None \/ Old(call[q].pair)

Retried(q) ==
  /\ call[q].step = "unauthorized" /\ call'[q].step = "waits" /\ call'[q].retry /\ call'[q].let = call[q].let

Resumed(q) ==
  /\ call[q].step = "waits" /\ call'[q].step = "sent" /\ refreshing[call[q].tab].step = "renewed"
  /\ call'[q].pair = store[Browser(call[q].tab)] /\ call'[q].let = call[q].let
  /\ UNCHANGED <<pair, store>>

Advanced(q) ==
  /\ LoginRead(q) \/ Purge(q) \/ ClaimSession(q) \/ SignOut(q)
  /\ call[q].step \in {"sent", "read", "claims", "purged"}
  /\ call'[q].step \in {"read", "claims", "purged", "claimed", "ends"}
  /\ call'[q].retry = call[q].retry /\ call'[q].let = call[q].let /\ call'[q].pair = call[q].pair

Probing(q) ==
  /\ call'[q] \in CallRows /\ ~call'[q].retry /\ ~call'[q].let /\ call'[q].step = "sent"
  /\ SignedIn(q)

\* A register's word on a lookup never comes as a 401.
LEMMA NoStatus401 == 401 \notin LookupStatuses
<1>1. \A code, otherwise : Passed(code, otherwise) \in {200, 400, 404, 502, otherwise}
  BY DEF Passed
<1>2. \A a : 401 \notin gstApi(a) /\ 401 \notin udyamApi(a) /\ 401 \notin panApi(a) /\ 401 \notin lookupApi(a)
  BY <1>1 DEF gstApi, udyamApi, panApi, lookupApi
<1> QED  BY <1>2 DEF LookupStatuses

\* A call is dropped, made anew, or goes on in one of four ways.
LEMMA CallMoves ==
  ASSUME WebTypeOK, WebNext, NEW q \in Handles, call'[q] # call[q]
  PROVE  \/ call'[q] = NoCall \/ MadeAnew(q) \/ Probing(q)
         \/ /\ call[q] \in CallRows /\ call'[q] \in CallRows /\ Same(call[q], call'[q])
            /\ Answered(q) \/ Retried(q) \/ Resumed(q) \/ Advanced(q)
<1> DEFINE Moves ==
         \/ call'[q] = NoCall \/ MadeAnew(q) \/ Probing(q)
         \/ /\ call[q] \in CallRows /\ call'[q] \in CallRows /\ Same(call[q], call'[q])
            /\ Answered(q) \/ Retried(q) \/ Resumed(q) \/ Advanced(q)
<1>k. \A u \in Tabs : store[Browser(u)] \in Nat
  BY DEF WebTypeOK, Browsers
<1>o. NoCall \in CallOrNone /\ CallRows \subseteq CallOrNone
  BY DEF CallOrNone
<1>b. \A c \in CallOrNone : Become(q, c) => call'[q] = c
  BY BecomeType
<1>z. Become(q, NoCall) => Moves
  BY <1>b, <1>o
<1>s. ASSUME NEW r \in CallRows, Send(q, r), r.step = "sent", ~r.retry, ~r.let, call[q] = NoCall PROVE Moves
  <2>1. \/ call'[q] = r
        \/ call'[q] = [r EXCEPT !.step = "waits"] /\ Join(r)
    BY <1>s, Sent
  <2>2. CASE call'[q] = r
    BY <1>s, <2>2 DEF MadeAnew
  <2>3. CASE call'[q] = [r EXCEPT !.step = "waits"] /\ Join(r)
    <3>1. call'[q] \in CallRows /\ call'[q].tab = r.tab /\ call'[q].step = "waits" /\ ~call'[q].retry /\ ~call'[q].let
      BY <1>s, <2>3 DEF CallRows, CallSteps
    <3> QED  BY <1>s, <3>1 DEF MadeAnew
  <2> QED  BY <2>1, <2>2, <2>3
<1>n. ASSUME NEW t \in Tabs, NEW what \in {"panel", "me", "login", "logout"}, NEW k \in Nat
      PROVE  /\ CallOf(t, what, k) \in CallRows /\ CallOf(t, what, k).step = "sent"
             /\ ~CallOf(t, what, k).retry /\ ~CallOf(t, what, k).let
  BY NewCall DEF CallOf
<1>1. ASSUME NEW t \in Tabs, Ask(q, t) \/ Reload(q, t) PROVE Moves
  <2>1. Send(q, CallOf(t, "panel", store[Browser(t)])) \/ Send(q, CallOf(t, "me", store[Browser(t)]))
    BY <1>1 DEF Ask, Reload
  <2>2. call[q] = NoCall
    BY <1>1 DEF Ask, Reload, Start
  <2> QED  BY <1>s, <1>n, <1>k, <2>1, <2>2
<1>2. ASSUME NEW t \in Tabs, Login(q, t) PROVE Moves
  <2>1. call'[q] = CallOf(t, "login", None) /\ call[q] = NoCall
    BY <1>2, <1>b, <1>n, <1>o DEF Login, Start, None
  <2>2. CallOf(t, "login", None) \in CallRows /\ CallOf(t, "login", None).step = "sent"
        /\ ~CallOf(t, "login", None).retry /\ ~CallOf(t, "login", None).let
    BY <1>n DEF None
  <2> QED  BY <2>1, <2>2 DEF MadeAnew
<1>3. ASSUME NEW t \in Tabs, Logout(q, t) PROVE Moves
  <2> DEFINE r == [CallOf(t, "logout", store[Browser(t)]) EXCEPT !.body = store[Browser(t)]]
  <2>1. r \in CallRows
    BY <1>k, NewCall
  <2>2. r.step = "sent" /\ ~r.retry /\ ~r.let
    BY DEF CallOf
  <2>3. Send(q, r) /\ call[q] = NoCall
    BY <1>3 DEF Logout, Start
  <2> HIDE DEF r
  <2> QED  BY <1>s, <2>1, <2>2, <2>3
<1>4. CASE Refused(q)
  <2>0. call[q].step # "idle"
    BY <1>4 DEF Refused
  <2>1. call[q] \in CallRows
    BY <2>0, OfCall
  <2>2. CASE Lose(q)
    BY <1>z, <2>2 DEF Lose
  <2>3. CASE Become(q, [call[q] EXCEPT !.step = "waits", !.retry = TRUE]) /\ Join(call[q]) /\ call[q].step = "unauthorized"
    <3>1. [call[q] EXCEPT !.step = "waits", !.retry = TRUE] \in CallRows
      BY <2>1, CallGoesOn DEF CallSteps, None
    <3>2. call'[q] = [call[q] EXCEPT !.step = "waits", !.retry = TRUE]
      BY <1>b, <1>o, <2>3, <3>1
    <3>3. Same(call[q], call'[q]) /\ call'[q].step = "waits" /\ call'[q].retry /\ call'[q].let = call[q].let
      BY <2>1, <3>2 DEF CallRows, Same
    <3> QED  BY <2>1, <2>3, <3>1, <3>2, <3>3 DEF Retried
  <2> QED  BY <1>4, <2>2, <2>3 DEF Refused
<1>5. CASE Receive(q) \/ CallLost(q) \/ EndSession(q)
  BY <1>5, <1>z DEF Receive, CallLost, EndSession
<1>6. CASE Answer(q)
  <2>1. call[q] \in CallRows /\ call[q].step = "sent"
    BY <1>6, OfCall DEF Answer
  <2> DEFINE v  == Verdict(call[q].pair)
             in == v = "ok" /\ call[q].what = "panel"
  <2>2. PICK said \in IF in THEN {IF s = 401 THEN "unauthorized" ELSE "ok" : s \in LookupStatuses} ELSE {v} :
          Become(q, [call[q] EXCEPT !.step = said, !.let = in])
    BY <1>6 DEF Answer
  <2>3. in => said = "ok"
    BY <2>2, NoStatus401
  <2>4. v \in {"unauthorized", "displaced", "ok"} /\ (v = "unauthorized" => call[q].pair = None \/ Old(call[q].pair))
    BY DEF Verdict
  <2>5. said \in {"unauthorized", "displaced", "ok"} /\ (said = "unauthorized" => v = "unauthorized") /\ in \in BOOLEAN
    BY <2>2, <2>3, <2>4
  <2>6. in => call[q].what = "panel"
    OBVIOUS
  <2> HIDE DEF v, in
  <2>7. [call[q] EXCEPT !.step = said, !.let = in] \in CallRows
    BY <2>1, <2>5, CallGoesOn DEF CallSteps, None
  <2>8. call'[q] = [call[q] EXCEPT !.step = said, !.let = in]
    BY <1>b, <1>o, <2>2, <2>7
  <2>9. /\ Same(call[q], call'[q]) /\ call'[q].step = said /\ call'[q].let = in
        /\ call'[q].retry = call[q].retry /\ call'[q].pair = call[q].pair
    BY <2>1, <2>8 DEF CallRows, Same
  <2> QED  BY <2>1, <2>3, <2>4, <2>5, <2>6, <2>7, <2>8, <2>9 DEF Answered
<1>7. CASE Resume(q)
  <2>1. call[q] \in CallRows /\ call[q].tab \in Tabs
    BY <1>7, OfCall DEF Resume
  <2>2. CASE Lose(q)
    BY <1>z, <2>2 DEF Lose
  <2> DEFINE k == store[Browser(call[q].tab)]
  <2>3. CASE Become(q, [call[q] EXCEPT !.step = "sent", !.pair = k]) /\ UNCHANGED store /\ refreshing[call[q].tab].step = "renewed"
    <3>1. k \in Nat
      BY <1>k, <2>1
    <3>2. [call[q] EXCEPT !.step = "sent", !.pair = k] \in CallRows
      BY <2>1, <3>1, CallGoesOn DEF CallSteps
    <3>3. call'[q] = [call[q] EXCEPT !.step = "sent", !.pair = k]
      BY <1>b, <1>o, <2>3, <3>2
    <3>4. Same(call[q], call'[q]) /\ call'[q].step = "sent" /\ call'[q].pair = k /\ call'[q].let = call[q].let
      BY <2>1, <3>3 DEF CallRows, Same
    <3>5. call[q].step = "waits" /\ UNCHANGED pair
      BY <1>7 DEF Resume
    <3> QED  BY <2>1, <2>3, <3>2, <3>3, <3>4, <3>5 DEF Resumed
  <2> QED  BY <1>7, <2>2, <2>3 DEF Resume
<1>a. ASSUME NEW step \in {"read", "claims", "purged", "claimed", "ends"}, NEW sid \in Nat,
             LoginRead(q) \/ Purge(q) \/ ClaimSession(q) \/ SignOut(q),
             call[q].step \in {"sent", "read", "claims", "purged"},
             Become(q, [call[q] EXCEPT !.step = step]) \/ Become(q, [call[q] EXCEPT !.step = step, !.sid = sid])
      PROVE  Moves
  <2>1. call[q] \in CallRows
    BY <1>a, OfCall
  <2>2. [call[q] EXCEPT !.step = step] \in CallRows /\ [call[q] EXCEPT !.step = step, !.sid = sid] \in CallRows
    BY <2>1, CallGoesOn DEF CallSteps, None
  <2>3. call'[q] \in CallRows /\ (call'[q] = [call[q] EXCEPT !.step = step] \/ call'[q] = [call[q] EXCEPT !.step = step, !.sid = sid])
    BY <1>a, <1>b, <1>o, <2>2
  <2>4. /\ Same(call[q], call'[q]) /\ call'[q].step = step /\ call'[q].let = call[q].let
        /\ call'[q].retry = call[q].retry /\ call'[q].pair = call[q].pair
    BY <2>1, <2>3 DEF CallRows, Same
  <2> QED  BY <1>a, <2>1, <2>3, <2>4 DEF Advanced
<1>8. CASE LoginRead(q) \/ Purge(q) \/ ClaimSession(q) \/ SignOut(q)
  <2>1. account.sid \in Nat /\ lastSid + 1 \in Nat /\ 0 \in Nat
    BY DEF WebTypeOK
  <2>2. call[q].step \in {"sent", "read", "claims", "purged"}
    BY <1>8 DEF LoginRead, Purge, ClaimSession, SignOut
  <2>3. \/ Become(q, [call[q] EXCEPT !.step = "claims", !.sid = account.sid])
        \/ Become(q, [call[q] EXCEPT !.step = "read"])
        \/ Become(q, [call[q] EXCEPT !.step = "purged", !.sid = lastSid + 1])
        \/ Become(q, [call[q] EXCEPT !.step = "claimed"])
        \/ Become(q, [call[q] EXCEPT !.step = "ends", !.sid = account.sid])
        \/ Become(q, NoCall)
    BY <1>8 DEF LoginRead, Purge, ClaimSession, SignOut
  <2>4. \A step \in {"read", "claims", "purged", "claimed", "ends"} : \A sid \in Nat :
          Become(q, [call[q] EXCEPT !.step = step]) \/ Become(q, [call[q] EXCEPT !.step = step, !.sid = sid]) => Moves
    BY <1>8, <1>a, <2>2
  <2> HIDE DEF Moves
  <2>5. Become(q, [call[q] EXCEPT !.step = "read"]) \/ Become(q, [call[q] EXCEPT !.step = "claimed"]) => Moves
    BY <2>1, <2>4
  <2>6. Become(q, [call[q] EXCEPT !.step = "claims", !.sid = account.sid]) => Moves
    BY <2>1, <2>4
  <2>7. Become(q, [call[q] EXCEPT !.step = "purged", !.sid = lastSid + 1]) => Moves
    BY <2>1, <2>4
  <2>8. Become(q, [call[q] EXCEPT !.step = "ends", !.sid = account.sid]) => Moves
    BY <2>1, <2>4
  <2>9. Moves
    BY <1>z, <2>3, <2>5, <2>6, <2>7, <2>8
  <2> QED  BY <2>9 DEF Moves
<1>9. CASE SignedIn(q)
  <2>1. call[q].tab \in Tabs /\ Minted \in Nat
    BY <1>9, OfCall, PairsCounted DEF SignedIn
  <2>2. call'[q] = CallOf(call[q].tab, "me", Minted)
    BY <1>9, <1>b, <1>n, <1>o, <2>1 DEF SignedIn, Minted
  <2> QED  BY <1>9, <1>n, <2>1, <2>2 DEF Probing
<1> QED  BY <1>1, <1>2, <1>3, <1>4, <1>5, <1>6, <1>7, <1>8, <1>9, OwnMove DEF CallStep

\* A call that was let in stays answered until it is dropped.
LEMMA LetStep ==
  ASSUME WebTypeOK, LetInv, WebNext
  PROVE  LetInv'
<1> SUFFICES ASSUME NEW q \in Handles, call'[q] # NoCall, call'[q].let PROVE call'[q].step = "ok" /\ call'[q].what = "panel"
  BY DEF LetInv
<1>1. CASE call'[q] = call[q]
  BY <1>1 DEF LetInv
<1>2. CASE call'[q] # call[q]
  <2>1. call[q] # NoCall /\ call[q].let => call[q].step = "ok"
    BY DEF LetInv
  <2>2. call[q] \in CallRows => call[q] # NoCall
    BY OfCall
  <2> QED  BY <1>2, <2>1, <2>2, CallMoves DEF MadeAnew, Probing, Answered, Retried, Resumed, Advanced, Same
<1> QED  BY <1>1, <1>2

-----------------------------------------------------------------------------
(* WebSession: a tab keeps what its own refresh has renewed. *)

\* The parts of OwnInv, for one tab and for one call.
OwnTab(t) == refreshing[t] # NoCall =>
  LET r == refreshing[t]
      s == store[Browser(t)] IN
  /\ r.step # "renewed" /\ s # None /\ pair[s].renewed /\ pair[s].tab = t => s = r.pair
  /\ r.step = "failed" /\ lost = 0 => ~pair[r.pair].live
  /\ r.step = "answered" => ~Old(r.new)
  /\ r.step = "renewed" => ~Old(s)

OwnCall(q) == call[q] # NoCall /\ call[q].retry /\ call[q].step # "waits" =>
  /\ ~Old(call[q].pair)
  /\ call[q].step = "unauthorized" => call[q].pair = None

\* OwnInv, tab by tab and call by call.
LEMMA OwnParts == OwnInv <=> (\A t \in Tabs : OwnTab(t)) /\ (\A q \in Handles : OwnCall(q))
  BY DEF OwnInv, OwnTab, OwnCall

\* A loss is not forgotten.
LEMMA LostStays ==
  ASSUME WebTypeOK, WebNext
  PROVE  lost' = 0 => lost = 0
<1>0. lost \in Nat
  BY DEF WebTypeOK
<1>1. ASSUME NEW q \in Handles, CallStep(q) PROVE UNCHANGED lost \/ lost' = lost + 1
  BY <1>1 DEF CallStep, Ask, Login, Logout, Reload, Answer, Receive, Refused, Resume, CallLost, LoginRead, Purge,
              ClaimSession, SignedIn, SignOut, EndSession
<1>2. ASSUME NEW t \in Tabs, Renewing(t) PROVE UNCHANGED lost \/ lost' = lost + 1
  BY <1>2 DEF Renewing, RefreshRead, Rotate, Settle, Forget, RefreshLost
<1>3. ASSUME NEW k \in Pairs, Expire(k) PROVE UNCHANGED lost
  BY <1>3 DEF Expire
<1> QED  BY <1>0, <1>1, <1>2, <1>3, EachStep

\* What has run out had done so, or runs out now.
LEMMA OldSince ==
  ASSUME Grown, NEW k, k = None \/ k \in Pairs, Old(k)'
  PROVE  Old(k) \/ Expire(k)
  BY DEF Old, Grown

\* A pair that is minted is fresh, and of the tab that asked for it.
LEMMA MintedByRotate ==
  ASSUME WebTypeOK, RefersInv, NEW t \in Tabs, Rotate(t)
  PROVE  /\ DOMAIN pair' = Pairs \cup {Minted}
         /\ pair'[Minted].sid = pair[refreshing[t].pair].sid /\ pair'[Minted].tab = t
         /\ pair'[Minted].old = FALSE
         /\ pair'[Minted].crossed = (Purged \/ pair[refreshing[t].pair].sid # account.sid)
<1> DEFINE k == refreshing[t].pair
           pairs == [pair EXCEPT ![k].live = FALSE]
           across == Purged \/ pair[k].sid # account.sid
           row == [sid |-> pair[k].sid, tab |-> t, renewed |-> TRUE, live |-> TRUE, old |-> FALSE, crossed |-> across]
<1>1. Issue(Browser(t), t, pair[k].sid, TRUE, Purged \/ pair[k].sid # account.sid, pairs)
  BY DEF Rotate
<1> HIDE DEF pairs
<1>2. pair' = [i \in Pairs \cup {Minted} |-> IF i = Minted THEN row ELSE pairs[i]]
  BY <1>1 DEF Issue, Minted
<1> HIDE DEF row
<1>3. DOMAIN pair' = Pairs \cup {Minted} /\ pair'[Minted] = row
  BY <1>2
<1> HIDE DEF across
<1>4. row.sid = pair[k].sid /\ row.tab = t /\ row.old = FALSE /\ row.live = TRUE /\ row.crossed = across
  BY DEF row
<1> QED  BY <1>3, <1>4 DEF across

\* A pair that a sign-in mints is no renewal.
LEMMA MintedBySignIn ==
  ASSUME WebTypeOK, NEW q \in Handles, SignedIn(q)
  PROVE  /\ DOMAIN pair' = Pairs \cup {Minted}
         /\ \A i \in Pairs : pair'[i] = pair[i]
         /\ pair'[Minted].sid = call[q].sid /\ pair'[Minted].tab = call[q].tab
         /\ pair'[Minted].old = FALSE /\ pair'[Minted].renewed = FALSE
         /\ pair'[Minted].crossed = (Purged \/ call[q].sid # account.sid)
<1> DEFINE across == Purged \/ call[q].sid # account.sid
           row == [sid |-> call[q].sid, tab |-> call[q].tab, renewed |-> FALSE, live |-> TRUE, old |-> FALSE, crossed |-> across]
<1>1. Issue(Browser(call[q].tab), call[q].tab, call[q].sid, FALSE, Purged \/ call[q].sid # account.sid, pair)
  BY DEF SignedIn
<1>2. pair' = [i \in Pairs \cup {Minted} |-> IF i = Minted THEN row ELSE pair[i]]
  BY <1>1 DEF Issue, Minted
<1> HIDE DEF row
<1>3. DOMAIN pair' = Pairs \cup {Minted} /\ pair'[Minted] = row /\ \A i \in Pairs : pair'[i] = pair[i]
  BY <1>2, PairsCounted
<1> HIDE DEF across
<1>4. /\ row.sid = call[q].sid /\ row.tab = call[q].tab /\ row.old = FALSE /\ row.renewed = FALSE
      /\ row.live = TRUE /\ row.crossed = across
  BY DEF row
<1> QED  BY <1>3, <1>4 DEF across

\* A refresh of the tab moves on.
LEMMA OwnRefreshStep ==
  ASSUME WebAssumption, WebTypeOK, RefersInv, OwnInv, WebNext, NEW t \in Tabs, Renewing(t)
  PROVE  OwnTab(t)'
<1> SUFFICES ASSUME refreshing'[t] # NoCall PROVE OwnTab(t)'
  BY DEF OwnTab
<1>g. Grown
  BY PairsGrow
<1>o. OwnTab(t)
  BY OwnParts
<1>p. refreshing \in [Tabs -> {NoCall} \cup Renewals] /\ store \in [Browsers -> Nat] /\ Browser(t) \in Browsers
  BY DEF WebTypeOK, Browsers
<1>q. store[Browser(t)] # None => store[Browser(t)] \in Pairs
  BY <1>p DEF RefersInv, PairOf
<1>r. refreshing[t] # NoCall => refreshing[t].pair \in Pairs /\ refreshing[t] \in Renewals
  BY OfRefresh DEF RefersInv, Renews, PairOf
<1>i. NoCall.step = "idle"
  BY DEF NoCall
<1>1. CASE RefreshRead(t)
  <2>1. refreshing[t] # NoCall /\ refreshing[t].step = "sent" /\ store' = store
    BY <1>1, <1>i DEF RefreshRead
  <2>2. \/ refreshing' = [refreshing EXCEPT ![t].step = "checked"]
        \/ /\ refreshing' = [refreshing EXCEPT ![t].step = "failed"]
           /\ (pair' = pair /\ ~pair[refreshing[t].pair].live) \/ pair' = [pair EXCEPT ![refreshing[t].pair].live = FALSE]
    BY <1>1 DEF RefreshRead
  <2>3. refreshing'[t].pair = refreshing[t].pair
        /\ (refreshing'[t].step = "checked" \/ (refreshing'[t].step = "failed" /\ ~pair'[refreshing[t].pair].live))
    <3>1. CASE refreshing' = [refreshing EXCEPT ![t].step = "checked"]
      BY <1>p, <1>r, <2>1, <3>1 DEF Renewals
    <3>2. CASE /\ refreshing' = [refreshing EXCEPT ![t].step = "failed"]
               /\ (pair' = pair /\ ~pair[refreshing[t].pair].live) \/ pair' = [pair EXCEPT ![refreshing[t].pair].live = FALSE]
      <4>1. refreshing'[t].pair = refreshing[t].pair /\ refreshing'[t].step = "failed"
        BY <1>p, <1>r, <2>1, <3>2 DEF Renewals
      <4>2. ~pair'[refreshing[t].pair].live
        <5>1. CASE pair' = pair /\ ~pair[refreshing[t].pair].live
          BY <5>1
        <5>2. CASE pair' = [pair EXCEPT ![refreshing[t].pair].live = FALSE]
          BY <1>r, <2>1, <5>2, PairsCounted DEF PairRows
        <5> QED  BY <3>2, <5>1, <5>2
      <4> QED  BY <4>1, <4>2
    <3> QED  BY <2>2, <3>1, <3>2
  <2> QED  BY <1>g, <1>o, <1>q, <2>1, <2>3 DEF OwnTab, Grown
<1>2. CASE Rotate(t)
  <2>1. refreshing[t] # NoCall /\ refreshing[t].step = "checked" /\ store' = store
    BY <1>2, <1>i DEF Rotate
  <2>2. refreshing'[t].pair = refreshing[t].pair /\ refreshing'[t].step = "answered" /\ refreshing'[t].new = Minted
    BY <1>2, <1>p, <1>r, <2>1 DEF Rotate, Renewals, Minted
  <2>3. ~pair'[Minted].old
    BY <1>2, MintedByRotate, Zenon
  <2> QED  BY <1>g, <1>o, <1>q, <2>1, <2>2, <2>3 DEF OwnTab, Grown, Old
<1>3. CASE Settle(t)
  <2>1. refreshing[t] # NoCall /\ refreshing[t].step = "answered" /\ pair' = pair
    BY <1>3, <1>i DEF Settle
  <2>2. refreshing'[t].step = "renewed" /\ store'[Browser(t)] = refreshing[t].new
    BY <1>3, <1>p, <1>r, <2>1 DEF Settle, Renewals
  <2> QED  BY <1>o, <2>1, <2>2 DEF OwnTab, Old
<1>4. CASE Forget(t)
  BY <1>4, <1>p DEF Forget
<1>5. CASE RefreshLost(t)
  <2>1. refreshing[t] # NoCall /\ refreshing[t].step \in {"sent", "answered"} /\ store' = store /\ pair' = pair
        /\ lost' = lost + 1 /\ lost \in Nat
    BY <1>5, <1>i DEF RefreshLost, WebTypeOK
  <2>2. refreshing'[t].pair = refreshing[t].pair /\ refreshing'[t].step = "failed"
    BY <1>5, <1>p, <1>r, <2>1 DEF RefreshLost, Renewals
  <2> QED  BY <1>o, <2>1, <2>2 DEF OwnTab, Old
<1> QED  BY <1>1, <1>2, <1>3, <1>4, <1>5 DEF Renewing

\* The refresh of the tab stays as it is.
LEMMA OwnRefreshRests ==
  ASSUME WebAssumption, WebTypeOK, RefersInv, OwnInv, WebNext, NEW t \in Tabs, refreshing'[t] = refreshing[t],
         ~Renewing(t)
  PROVE  OwnTab(t)'
<1> SUFFICES ASSUME refreshing'[t] # NoCall PROVE OwnTab(t)'
  BY DEF OwnTab
<1>g. Grown
  BY PairsGrow
<1>o. OwnTab(t) /\ \A u \in Tabs : OwnTab(u)
  BY OwnParts
<1>p. Browser(t) \in Browsers
  BY DEF Browsers
<1>q. store[Browser(t)] # None => store[Browser(t)] \in Pairs
  BY <1>p DEF RefersInv, PairOf
<1>r. refreshing[t].pair \in Pairs
  BY DEF RefersInv, Renews, PairOf
<1>a. refreshing[t].step = "answered" => refreshing[t].new \in Pairs
  BY DEF RefersInv, Renews, PairOf
<1>1. ASSUME refreshing[t].step = "answered" PROVE ~Old(refreshing[t].new)'
  <2>1. ~Old(refreshing[t].new) /\ ~Expire(refreshing[t].new)
    BY <1>1, <1>o DEF OwnTab, Expire
  <2>2. PICK k \in Pairs : k = refreshing[t].new
    BY <1>1, <1>a
  <2>3. ~Old(k)'
    BY <1>g, <2>1, <2>2, OldSince
  <2> QED  BY <2>2, <2>3 DEF Old
<1>2. refreshing[t].step = "failed" /\ lost' = 0 => ~pair'[refreshing[t].pair].live
  BY <1>g, <1>o, <1>r, LostStays DEF OwnTab, Grown
<1> DEFINE a == refreshing[t].step # "renewed" /\ store'[Browser(t)] # None /\ pair'[store'[Browser(t)]].renewed
                /\ pair'[store'[Browser(t)]].tab = t => store'[Browser(t)] = refreshing[t].pair
           d == refreshing[t].step = "renewed" => ~(store'[Browser(t)] # None /\ pair'[store'[Browser(t)]].old)
<1>3. ASSUME store'[Browser(t)] = store[Browser(t)] PROVE a /\ d
  <2>1. a
    BY <1>3, <1>g, <1>o, <1>q DEF OwnTab, Grown
  <2>2. ASSUME refreshing[t].step = "renewed" PROVE ~(store[Browser(t)] # None /\ pair'[store[Browser(t)]].old)
    <3>1. ~Old(store[Browser(t)]) /\ ~Expire(store[Browser(t)])
      BY <1>o, <2>2 DEF OwnTab, Expire
    <3> QED  BY <1>g, <1>q, <3>1 DEF Old, Grown
  <2> QED  BY <1>3, <2>1, <2>2
<1>4. ASSUME store'[Browser(t)] = None PROVE a /\ d
  BY <1>4
<1>5. ASSUME NEW u \in Tabs, Settle(u), Browser(u) = Browser(t) PROVE a /\ d
  <2>1. u # t
    BY <1>5 DEF Renewing
  <2>2. refreshing[u] # NoCall /\ refreshing[u].step = "answered"
    BY <1>5 DEF Settle, NoCall
  <2>3. pair[refreshing[u].new].tab = u /\ ~Old(refreshing[u].new)
    BY <1>o, <2>2 DEF OwnTab, RefersInv, Renews
  <2>4. store'[Browser(t)] = refreshing[u].new /\ pair' = pair
    BY <1>5, <1>p DEF Settle, WebTypeOK
  <2> QED  BY <2>1, <2>3, <2>4 DEF Old
<1>6. ASSUME NEW q \in Handles, SignedIn(q), Browser(call[q].tab) = Browser(t) PROVE a /\ d
  <2>1. store'[Browser(t)] = Minted
    BY <1>6, <1>p DEF SignedIn, Minted, WebTypeOK
  <2>2. pair'[Minted].renewed = FALSE /\ pair'[Minted].old = FALSE
    BY <1>6, MintedBySignIn
  <2> QED  BY <2>1, <2>2
<1>7. a /\ d
  BY <1>3, <1>4, <1>5, <1>6, <1>p, OwnStore
<1> QED  BY <1>1, <1>2, <1>7 DEF OwnTab, Old

\* A refresh that begins hands in the pair in storage.
LEMMA OwnRefreshBegins ==
  ASSUME WebTypeOK, WebNext, NEW t \in Tabs, Begun(t)
  PROVE  OwnTab(t)'
<1>1. refreshing'[t].step = "sent" /\ refreshing'[t].pair = store[Browser(t)]
  BY DEF Begun, Renewal
<1>2. Browser(t) \in Browsers /\ store \in [Browsers -> Nat]
  BY DEF WebTypeOK, Browsers
<1>3. store'[Browser(t)] = store[Browser(t)] \/ store'[Browser(t)] = None
  BY <1>2 DEF Begun
<1> QED  BY <1>1, <1>3 DEF OwnTab

\* What a call sends a second time has not run out.
LEMMA OwnCallStep ==
  ASSUME WebAssumption, WebTypeOK, RefersInv, OwnInv, WebNext, NEW q \in Handles
  PROVE  OwnCall(q)'
<1> SUFFICES ASSUME call'[q] # NoCall, call'[q].retry, call'[q].step # "waits" PROVE OwnCall(q)'
  BY DEF OwnCall
<1>g. Grown
  BY PairsGrow
<1>o. OwnCall(q)
  BY OwnParts
<1>1. ASSUME call[q] # NoCall, call'[q].retry = call[q].retry, call'[q].pair = call[q].pair, call[q].step # "waits"
      PROVE  ~Old(call[q].pair) /\ ~Old(call[q].pair)'
  <2>1. ~Old(call[q].pair) /\ ~Expire(call[q].pair)
    BY <1>1, <1>o DEF OwnCall, Expire
  <2>2. PICK k : k = call[q].pair /\ (k = None \/ k \in Pairs)
    BY <1>1 DEF RefersInv, Refers
  <2>3. ~Old(k)'
    BY <1>g, <2>1, <2>2, OldSince
  <2> QED  BY <1>1, <2>1, <2>2, <2>3 DEF Old
<1>2. CASE call'[q] = call[q]
  BY <1>1, <1>2, <1>o DEF OwnCall, Old
<1>3. CASE call'[q] # call[q]
  <2>1. CASE MadeAnew(q) \/ Probing(q) \/ Retried(q)
    BY <2>1 DEF MadeAnew, Probing, Retried
  <2>2. CASE Answered(q) /\ call[q] \in CallRows
    <3>1. ~Old(call[q].pair) /\ ~Old(call[q].pair)' /\ call'[q].pair = call[q].pair
      BY <1>1, <2>2, OfCall DEF Answered
    <3> QED  BY <2>2, <3>1 DEF Answered, OwnCall, Old
  <2>3. CASE Advanced(q) /\ call[q] \in CallRows
    <3>1. ~Old(call[q].pair)' /\ call'[q].pair = call[q].pair /\ call'[q].step # "unauthorized"
      BY <1>1, <2>3, OfCall DEF Advanced
    <3> QED  BY <3>1 DEF OwnCall, Old
  <2>4. CASE Resumed(q) /\ call[q] \in CallRows
    <3>1. call[q].tab \in Tabs /\ refreshing[call[q].tab] # NoCall
      BY <2>4, OfCall DEF Resumed, NoCall
    <3>2. ~Old(store[Browser(call[q].tab)])
      BY <2>4, <3>1, OwnParts DEF Resumed, OwnTab
    <3> QED  BY <2>4, <3>2 DEF Resumed, OwnCall, Old
  <2> QED  BY <1>3, <2>1, <2>2, <2>3, <2>4, CallMoves
<1> QED  BY <1>2, <1>3

\* Only a call that loses the session throws, and never what its tab has renewed.
LEMMA NothingThrown ==
  ASSUME WebTypeOK, OwnInv, WebNext, thrown = {}
  PROVE  thrown' = {}
<1>1. ASSUME NEW q \in Handles, Lose(q), call[q] # NoCall,
             \A s : s = call[q].tab /\ OwnRenewal(s, call[q].pair) /\ lost = 0 => call[q].step = "displaced"
      PROVE  thrown' = {}
  BY <1>1 DEF Lose
<1>2. ASSUME NEW q \in Handles, Refused(q) PROVE thrown' = {}
  <2>1. call[q] # NoCall /\ call[q].step \in {"unauthorized", "displaced"}
    BY <1>2 DEF Refused, NoCall
  <2>2. CASE call[q].step = "displaced"
    BY <1>1, <1>2, <2>1, <2>2 DEF Refused
  <2>3. CASE call[q].step = "unauthorized" /\ ~call[q].retry /\ store[Browser(call[q].tab)] # None
    BY <1>2, <2>3 DEF Refused
  <2>4. CASE call[q].step = "unauthorized" /\ (call[q].retry \/ store[Browser(call[q].tab)] = None)
    <3>1. call[q].retry => call[q].pair = None
      BY <2>1, <2>4, OwnParts DEF OwnCall
    <3>2. \A s : s = call[q].tab /\ OwnRenewal(s, call[q].pair) => FALSE
      BY <2>4, <3>1 DEF OwnRenewal, Good
    <3>3. Lose(q)
      BY <1>2, <2>4 DEF Refused
    <3> QED  BY <1>1, <2>1, <3>2, <3>3
  <2> QED  BY <2>1, <2>2, <2>3, <2>4
<1>3. ASSUME NEW q \in Handles, Resume(q) PROVE thrown' = {}
  <2>1. call[q] # NoCall /\ call[q].tab \in Tabs
    BY <1>3, OfCall DEF Resume, NoCall
  <2>2. CASE refreshing[call[q].tab].step = "failed" /\ Lose(q)
    <3>1. refreshing[call[q].tab] # NoCall
      BY <2>2 DEF NoCall
    <3>2. OwnTab(call[q].tab)
      BY <2>1, OwnParts
    <3>3. \A s : s = call[q].tab /\ OwnRenewal(s, call[q].pair) /\ lost = 0 => FALSE
      BY <2>2, <3>1, <3>2 DEF OwnRenewal, Good, OwnTab
    <3> QED  BY <1>1, <2>1, <2>2, <3>3
  <2> QED  BY <1>3, <2>2 DEF Resume
<1>4. ASSUME NEW q \in Handles, CallStep(q), ~Refused(q), ~Resume(q) PROVE UNCHANGED thrown
  BY <1>4 DEF CallStep, Ask, Login, Logout, Reload, Answer, Receive, CallLost, LoginRead, Purge,
              ClaimSession, SignedIn, SignOut, EndSession
<1>5. ASSUME NEW t \in Tabs, Renewing(t) PROVE UNCHANGED thrown
  BY <1>5 DEF Renewing, RefreshRead, Rotate, Settle, Forget, RefreshLost
<1>6. ASSUME NEW k \in Pairs, Expire(k) PROVE UNCHANGED thrown
  BY <1>6 DEF Expire
<1> QED  BY <1>2, <1>3, <1>4, <1>5, <1>6, EachStep

\* Every step keeps OwnInv, by tabs and by calls.
LEMMA OwnStep ==
  ASSUME WebAssumption, WebTypeOK, RefersInv, OwnInv, WebNext
  PROVE  OwnInv'
<1>1. ASSUME NEW t \in Tabs PROVE OwnTab(t)'
  BY OwnRefresh, OwnRefreshStep, OwnRefreshRests, OwnRefreshBegins
<1>2. ASSUME NEW q \in Handles PROVE OwnCall(q)'
  BY OwnCallStep
<1> QED  BY <1>1, <1>2 DEF OwnInv, OwnTab, OwnCall

-----------------------------------------------------------------------------
(* WebSession: whose a session is. *)

\* Pairs are minted by a refresh and by a sign-in.
LEMMA NewPairs ==
  ASSUME WebAssumption, WebTypeOK, RefersInv, WebNext, NEW k \in DOMAIN pair', k \notin Pairs
  PROVE  k = Minted /\ ((\E t \in Tabs : Rotate(t)) \/ (\E q \in Handles : SignedIn(q)))
<1>0. DOMAIN pair = Pairs
  BY DEF Pairs
<1>1. ASSUME NEW q \in Handles, CallStep(q), ~SignedIn(q) PROVE DOMAIN pair' = Pairs
  <2>1. \/ pair' = pair \/ pair' = [pair EXCEPT ![call[q].body].live = FALSE]
        \/ \E f : pair' = [i \in Pairs |-> f[i]]
    <3>1. ASSUME NEW t \in Tabs, Ask(q, t) \/ Login(q, t) \/ Logout(q, t) \/ Reload(q, t) PROVE pair' = pair
      BY <3>1 DEF Ask, Login, Logout, Reload
    <3>2. ASSUME Answer(q) \/ Receive(q) \/ Refused(q) \/ Resume(q) \/ CallLost(q) \/ LoginRead(q) \/ EndSession(q)
          PROVE  pair' = pair
      BY <3>2 DEF Answer, Receive, Refused, Resume, CallLost, LoginRead, EndSession
    <3>3. ASSUME SignOut(q) PROVE pair' = [pair EXCEPT ![call[q].body].live = FALSE]
      BY <3>3 DEF SignOut
    <3>4. ASSUME Purge(q) PROVE \E f : pair' = [i \in Pairs |-> f[i]]
      <4>1. pair' = [i \in Pairs |-> [pair[i] EXCEPT !.live = FALSE]]
        BY <3>4 DEF Purge
      <4>2. pair' = [i \in Pairs |-> pair'[i]]
        BY <4>1
      <4> QED  BY <4>2
    <3>5. ASSUME ClaimSession(q) PROVE \E f : pair' = [i \in Pairs |-> f[i]]
      <4>1. pair' = [i \in Pairs |-> [pair[i] EXCEPT !.crossed = @ \/ (call[q].step = "claims" /\ pair[i].sid # call[q].sid)]]
        BY <3>5 DEF ClaimSession
      <4>2. pair' = [i \in Pairs |-> pair'[i]]
        BY <4>1
      <4> QED  BY <4>2
    <3> QED  BY <1>1, <3>1, <3>2, <3>3, <3>4, <3>5 DEF CallStep
  <2> QED  BY <1>0, <2>1
<1>2. ASSUME NEW t \in Tabs, Renewing(t), ~Rotate(t) PROVE DOMAIN pair' = Pairs
  BY <1>0, <1>2 DEF Renewing, RefreshRead, Settle, Forget, RefreshLost
<1>3. ASSUME NEW i \in Pairs, Expire(i) PROVE DOMAIN pair' = Pairs
  BY <1>0, <1>3 DEF Expire
<1>4. k = Minted
  BY PairsGrow DEF Grown
<1> QED  BY <1>1, <1>2, <1>3, <1>4, EachStep

\* The account's session changes where a sign-in writes it or a sign-out ends it.
LEMMA AccountMoves ==
  ASSUME WebNext
  PROVE  \/ account' = account
         \/ \E q \in Handles : ClaimSession(q) \/ EndSession(q)
<1>1. ASSUME NEW q \in Handles, CallStep(q) PROVE account' = account \/ ClaimSession(q) \/ EndSession(q)
  BY <1>1 DEF CallStep, Ask, Login, Logout, Reload, Answer, Receive, Refused, Resume, CallLost, LoginRead, Purge,
              SignedIn, SignOut
<1>2. ASSUME NEW t \in Tabs, Renewing(t) PROVE account' = account
  BY <1>2 DEF Renewing, RefreshRead, Rotate, Settle, Forget, RefreshLost
<1>3. ASSUME NEW k \in Pairs, Expire(k) PROVE account' = account
  BY <1>3 DEF Expire
<1> QED  BY <1>1, <1>2, <1>3, EachStep

\* Sessions are numbered in the order they are started.
LEMMA SidsGrow ==
  ASSUME WebTypeOK, WebNext
  PROVE  \/ lastSid' = lastSid
         \/ lastSid' = lastSid + 1 /\ \E q \in Handles : Purge(q)
<1>1. ASSUME NEW q \in Handles, CallStep(q) PROVE lastSid' = lastSid \/ Purge(q)
  BY <1>1 DEF CallStep, Ask, Login, Logout, Reload, Answer, Receive, Refused, Resume, CallLost, LoginRead, ClaimSession,
              SignedIn, SignOut, EndSession
<1>2. ASSUME NEW t \in Tabs, Renewing(t) PROVE lastSid' = lastSid
  BY <1>2 DEF Renewing, RefreshRead, Rotate, Settle, Forget, RefreshLost
<1>3. ASSUME NEW k \in Pairs, Expire(k) PROVE lastSid' = lastSid
  BY <1>3 DEF Expire
<1>4. ASSUME NEW q \in Handles, Purge(q) PROVE lastSid' = lastSid + 1
  BY <1>4 DEF Purge
<1> QED  BY <1>1, <1>2, <1>3, <1>4, EachStep

\* A sign-in keeps the account's session, goes on with the one it has, or starts one.
LEMMA SigningComes ==
  ASSUME WebTypeOK, WebNext, NEW q \in Handles, call'[q] # call[q], Signing(call'[q])
  PROVE  /\ call'[q].tab = call[q].tab
         /\ \/ account.sid = call'[q].sid /\ account.device = Browser(call[q].tab)
            \/ Signing(call[q]) /\ call'[q].sid = call[q].sid
            \/ Purge(q) /\ call'[q].sid = lastSid + 1
<1>1. Advanced(q) /\ Same(call[q], call'[q]) /\ call[q] \in CallRows
  BY CallMoves DEF Signing, MadeAnew, Probing, Answered, Retried, Resumed, NoCall
<1>2. call \in [Handles -> CallOrNone]
  BY DEF WebTypeOK, CallOrNone
<1>3. CASE LoginRead(q)
  <2>1. \/ /\ account.device = Browser(call[q].tab)
           /\ Become(q, [call[q] EXCEPT !.step = "claims", !.sid = account.sid])
        \/ Become(q, [call[q] EXCEPT !.step = "read"])
    BY <1>3 DEF LoginRead
  <2>2. CASE Become(q, [call[q] EXCEPT !.step = "read"])
    BY <1>1, <1>2, <2>2 DEF Become, CallRows, Signing
  <2>3. CASE /\ account.device = Browser(call[q].tab)
             /\ Become(q, [call[q] EXCEPT !.step = "claims", !.sid = account.sid])
    BY <1>1, <1>2, <2>3 DEF Become, CallRows
  <2> QED  BY <1>1, <2>1, <2>2, <2>3 DEF Same
<1>4. CASE Purge(q)
  BY <1>1, <1>2, <1>4 DEF Purge, Become, CallRows, Same
<1>5. CASE ClaimSession(q)
  BY <1>1, <1>2, <1>5 DEF ClaimSession, Become, CallRows, Same, Signing
<1>6. CASE SignOut(q)
  <2>1. Become(q, [call[q] EXCEPT !.step = "ends", !.sid = account.sid]) \/ Become(q, NoCall)
    BY <1>6 DEF SignOut
  <2>2. CASE Become(q, [call[q] EXCEPT !.step = "ends", !.sid = account.sid])
    BY <1>1, <1>2, <2>2 DEF Become, CallRows, Signing
  <2>3. CASE Become(q, NoCall)
    BY <1>2, <2>3 DEF Become, NoCall, Signing
  <2> QED  BY <2>1, <2>2, <2>3
<1> QED  BY <1>1, <1>3, <1>4, <1>5, <1>6 DEF Advanced

\* What a browser has of a session it had, or was given by a sign-in that starts it.
LEMMA HasSince ==
  ASSUME WebAssumption, WebTypeOK, RefersInv, WebNext, NEW s \in Nat \ {None}, NEW b \in Browsers, HasOf(b, s)'
  PROVE  HasOf(b, s) \/ \E q \in Handles : Purge(q) /\ s = lastSid + 1 /\ b = Browser(call[q].tab)
<1>g. Grown
  BY PairsGrow
<1>1. ASSUME account'.sid = s, account'.device = b PROVE HasOf(b, s)
  <2>1. ASSUME NEW q \in Handles, ClaimSession(q) PROVE HasOf(b, s)
    <3>1. account'.sid = call[q].sid /\ account'.device = Browser(call[q].tab) /\ Signing(call[q])
      BY <2>1 DEF ClaimSession, Signing
    <3> QED  BY <1>1, <3>1 DEF HasOf
  <2>2. ASSUME NEW q \in Handles, EndSession(q) PROVE account'.sid = None
    BY <2>2 DEF EndSession, WebTypeOK
  <2> QED  BY <1>1, <2>1, <2>2, AccountMoves DEF HasOf
<1>2. ASSUME NEW k \in DOMAIN pair', pair'[k].sid = s, Browser(pair'[k].tab) = b PROVE HasOf(b, s)
  <2>1. CASE k \in Pairs
    BY <1>2, <1>g, <2>1 DEF Grown, HasOf, Given
  <2>2. ASSUME NEW t \in Tabs, Rotate(t), k = Minted PROVE HasOf(b, s)
    <3>1. refreshing[t].pair \in Pairs /\ Given(refreshing[t].pair) = Browser(t)
      BY <2>2 DEF Rotate, NoCall, RefersInv, Renews, PairOf
    <3>2. pair'[Minted].sid = pair[refreshing[t].pair].sid /\ pair'[Minted].tab = t
      BY <2>2, MintedByRotate
    <3> QED  BY <1>2, <2>2, <3>1, <3>2 DEF HasOf
  <2>3. ASSUME NEW q \in Handles, SignedIn(q), k = Minted PROVE HasOf(b, s)
    <3>1. pair'[Minted].sid = call[q].sid /\ pair'[Minted].tab = call[q].tab
      BY <2>3, MintedBySignIn
    <3> QED  BY <1>2, <2>3, <3>1 DEF HasOf, Signing, SignedIn
  <2> QED  BY <2>1, <2>2, <2>3, NewPairs
<1>3. ASSUME NEW q \in Handles, Signing(call'[q]), call'[q].sid = s, Browser(call'[q].tab) = b
      PROVE  HasOf(b, s) \/ (Purge(q) /\ s = lastSid + 1 /\ b = Browser(call[q].tab))
  <2>1. CASE call'[q] = call[q]
    BY <1>3, <2>1 DEF HasOf
  <2>2. CASE call'[q] # call[q]
    BY <1>3, <2>2, SigningComes DEF HasOf
  <2> QED  BY <2>1, <2>2
<1> QED  BY <1>1, <1>2, <1>3 DEF HasOf, Signing, Given, Pairs

\* A session stays of one browser, and a new one is nobody else's.
LEMMA SidStep ==
  ASSUME WebAssumption, WebTypeOK, RefersInv, SidInv, WebNext
  PROVE  SidInv'
<1>1. lastSid \in Nat /\ lastSid' \in Nat /\ lastSid' >= lastSid
  BY SidsGrow DEF WebTypeOK
<1>2. ASSUME NEW q \in Handles, NEW p \in Handles, Purge(q), Purge(p) PROVE q = p
  <2>1. call \in [Handles -> CallOrNone] /\ call[q] \in CallRows
    BY <1>2, OfCall DEF WebTypeOK, CallOrNone, Purge
  <2>2. call'[q].step = "purged"
    BY <1>2, <2>1 DEF Purge, Become, CallRows
  <2>3. q # p => call'[q] = call[q]
    BY <1>2, <2>1 DEF Purge, Become
  <2> QED  BY <1>2, <2>2, <2>3 DEF Purge
<1>3. \A q \in Handles : Purge(q) => lastSid' = lastSid + 1
  BY DEF Purge
<1> SUFFICES ASSUME NEW s \in Nat \ {None}, NEW b \in Browsers, HasOf(b, s)'
             PROVE  s <= lastSid' /\ \A c \in Browsers : HasOf(c, s)' => b = c
  BY DEF SidInv, Browsers, Browser
<1>4. CASE HasOf(b, s)
  <2>1. s <= lastSid /\ s # lastSid + 1
    BY <1>1, <1>4 DEF SidInv
  <2>2. ASSUME NEW c \in Browsers, HasOf(c, s)' PROVE b = c
    <3>1. HasOf(c, s)
      BY <2>1, <2>2, HasSince
    <3> QED  BY <1>4, <3>1 DEF SidInv
  <2> QED  BY <1>1, <2>1, <2>2
<1>5. ASSUME NEW q \in Handles, Purge(q), s = lastSid + 1, b = Browser(call[q].tab)
      PROVE  s <= lastSid' /\ \A c \in Browsers : HasOf(c, s)' => b = c
  <2>1. \A c \in Browsers : ~HasOf(c, s)
    BY <1>1, <1>5 DEF SidInv
  <2>2. ASSUME NEW c \in Browsers, HasOf(c, s)' PROVE b = c
    BY <1>2, <1>5, <2>1, <2>2, HasSince
  <2> QED  BY <1>1, <1>3, <1>5, <2>2
<1> QED  BY <1>4, <1>5, HasSince

-----------------------------------------------------------------------------
(* WebSession: which tokens are on record. *)

\* A sign-in stands between its two halves once it has deleted the tokens.
LEMMA PurgedSince ==
  ASSUME WebTypeOK, WebNext, Purged'
  PROVE  Purged \/ \E q \in Handles : Purge(q)
<1>1. PICK q \in Handles : call'[q].step = "purged"
  BY DEF Purged
<1>2. CASE call'[q] = call[q]
  BY <1>1, <1>2 DEF Purged
<1>3. CASE call'[q] # call[q]
  <2>1. Advanced(q)
    BY <1>1, <1>3, CallMoves DEF MadeAnew, Probing, Answered, Retried, Resumed, NoCall
  <2>2. call \in [Handles -> CallOrNone] /\ call[q] \in CallRows
    BY <2>1, OfCall DEF Advanced, WebTypeOK, CallOrNone, NoCall
  <2>3. CASE LoginRead(q)
    <3>1. Become(q, [call[q] EXCEPT !.step = "claims", !.sid = account.sid]) \/ Become(q, [call[q] EXCEPT !.step = "read"])
      BY <2>3 DEF LoginRead
    <3>2. CASE Become(q, [call[q] EXCEPT !.step = "claims", !.sid = account.sid])
      BY <1>1, <2>2, <3>2 DEF Become, CallRows
    <3>3. CASE Become(q, [call[q] EXCEPT !.step = "read"])
      BY <1>1, <2>2, <3>3 DEF Become, CallRows
    <3> QED  BY <3>1, <3>2, <3>3
  <2>4. CASE ClaimSession(q)
    BY <1>1, <2>2, <2>4 DEF ClaimSession, Become, CallRows
  <2>5. CASE SignOut(q)
    <3>1. Become(q, [call[q] EXCEPT !.step = "ends", !.sid = account.sid]) \/ Become(q, NoCall)
      BY <2>5 DEF SignOut
    <3>2. CASE Become(q, NoCall)
      BY <1>1, <2>2, <3>2 DEF Become, NoCall
    <3> QED  BY <1>1, <2>2, <3>1, <3>2 DEF Become, CallRows
  <2> QED  BY <2>1, <2>3, <2>4, <2>5 DEF Advanced
<1> QED  BY <1>2, <1>3

\* A sign-out that goes on to end the session.
LEMMA EndsComes ==
  ASSUME WebTypeOK, WebNext, NEW q \in Handles, call'[q].step = "ends"
  PROVE  /\ call'[q].body = call[q].body
         /\ call'[q] = call[q] \/ (SignOut(q) /\ call'[q].sid = account.sid /\ pair[call[q].body].live)
<1>1. CASE call'[q] = call[q]
  BY <1>1
<1>2. CASE call'[q] # call[q]
  <2>1. Advanced(q) /\ Same(call[q], call'[q])
    BY <1>2, CallMoves DEF MadeAnew, Probing, Answered, Retried, Resumed, NoCall
  <2>2. call \in [Handles -> CallOrNone] /\ call[q] \in CallRows
    BY <2>1, OfCall DEF Advanced, WebTypeOK, CallOrNone, NoCall
  <2>3. CASE LoginRead(q)
    <3>1. Become(q, [call[q] EXCEPT !.step = "claims", !.sid = account.sid]) \/ Become(q, [call[q] EXCEPT !.step = "read"])
      BY <2>3 DEF LoginRead
    <3> QED  BY <2>2, <3>1 DEF Become, CallRows
  <2>4. CASE ClaimSession(q) \/ Purge(q)
    BY <2>2, <2>4 DEF ClaimSession, Purge, Become, CallRows
  <2>5. CASE SignOut(q)
    <3>1. \/ Become(q, [call[q] EXCEPT !.step = "ends", !.sid = account.sid]) /\ pair[call[q].body].live
          \/ Become(q, NoCall)
      BY <2>5 DEF SignOut
    <3>2. CASE Become(q, [call[q] EXCEPT !.step = "ends", !.sid = account.sid]) /\ pair[call[q].body].live
      <4>1. call'[q].sid = account.sid
        BY <2>2, <3>2 DEF Become, CallRows
      <4> QED  BY <2>1, <2>5, <3>2, <4>1 DEF Same
    <3>3. CASE Become(q, NoCall)
      BY <2>2, <3>3 DEF Become, NoCall
    <3> QED  BY <3>1, <3>2, <3>3
  <2> QED  BY <2>1, <2>3, <2>4, <2>5 DEF Advanced
<1> QED  BY <1>1, <1>2

\* A pair that is minted between the halves of a sign-in, or of a session that the
\* account no longer holds, has crossed that sign-in.
LEMMA MintedCrosses ==
  ASSUME WebAssumption, WebTypeOK, RefersInv, WebNext, NEW k \in DOMAIN pair', k \notin Pairs
  PROVE  /\ account' = account /\ \A q \in Handles : ~Purge(q)
         /\ Purged \/ account.sid # pair'[k].sid => pair'[k].crossed
<1>1. ASSUME NEW t \in Tabs, Rotate(t), k = Minted
      PROVE  /\ account' = account /\ DOMAIN pair' = Pairs \cup {Minted}
             /\ Purged \/ account.sid # pair'[k].sid => pair'[k].crossed
  BY <1>1, MintedByRotate DEF Rotate
<1>2. ASSUME NEW q \in Handles, SignedIn(q), k = Minted
      PROVE  /\ account' = account /\ DOMAIN pair' = Pairs \cup {Minted}
             /\ Purged \/ account.sid # pair'[k].sid => pair'[k].crossed
  BY <1>2, MintedBySignIn DEF SignedIn
<1>3. ASSUME NEW q \in Handles, Purge(q) PROVE DOMAIN pair' = Pairs
  BY <1>3 DEF Purge
<1> QED  BY <1>1, <1>2, <1>3, NewPairs, PairsCounted

\* What is on record stays of the account's session, or has crossed a sign-in.
LEMMA LiveStep ==
  ASSUME WebAssumption, WebTypeOK, RefersInv, LiveInv, WebNext
  PROVE  LiveInv'
<1>g. Grown
  BY PairsGrow
<1>p. pair \in [Pairs -> PairRows]
  BY PairsCounted
<1>1. ASSUME NEW k \in DOMAIN pair', pair'[k].live, ~pair'[k].crossed PROVE account'.sid \in {None, pair'[k].sid}
  <2>1. CASE k \in Pairs
    <3>1. account.sid \in {None, pair[k].sid} /\ ~Purged /\ pair'[k].sid = pair[k].sid
      BY <1>1, <1>g, <2>1 DEF LiveInv, Grown
    <3>2. ASSUME NEW q \in Handles, ClaimSession(q) PROVE account'.sid = pair[k].sid
      <4>1. call[q].step = "claims"
        BY <3>1, <3>2 DEF ClaimSession, Purged
      <4>2. pair' = [i \in Pairs |-> [pair[i] EXCEPT !.crossed = @ \/ (call[q].step = "claims" /\ pair[i].sid # call[q].sid)]]
        BY <3>2 DEF ClaimSession
      <4>3. pair[k].sid = call[q].sid
        BY <1>1, <1>p, <2>1, <4>1, <4>2 DEF PairRows
      <4> QED  BY <3>2, <4>3 DEF ClaimSession
    <3>3. ASSUME NEW q \in Handles, EndSession(q) PROVE account'.sid = None
      BY <3>3 DEF EndSession, WebTypeOK
    <3> QED  BY <3>1, <3>2, <3>3, AccountMoves
  <2>2. CASE k \notin Pairs
    BY <1>1, <2>2, MintedCrosses
  <2> QED  BY <2>1, <2>2
<1>2. ASSUME NEW k \in DOMAIN pair', pair'[k].live, Purged' PROVE pair'[k].crossed
  <2>1. ASSUME NEW q \in Handles, Purge(q) PROVE FALSE
    <3>1. pair' = [i \in Pairs |-> [pair[i] EXCEPT !.live = FALSE]]
      BY <2>1 DEF Purge
    <3> QED  BY <1>2, <1>p, <3>1 DEF PairRows
  <2>2. Purged
    BY <1>2, <2>1, PurgedSince
  <2>3. CASE k \in Pairs
    BY <1>2, <1>g, <2>2, <2>3 DEF LiveInv, Grown
  <2>4. CASE k \notin Pairs
    BY <2>2, <2>4, MintedCrosses
  <2> QED  BY <2>3, <2>4
<1>3. ASSUME NEW q \in Handles, call'[q].step = "ends"
      PROVE  pair'[call'[q].body].crossed \/ call'[q].sid \in {None, pair'[call'[q].body].sid}
  <2>1. call'[q].body = call[q].body
    BY <1>3, EndsComes
  <2>2. CASE call'[q] = call[q]
    <3>1. call[q].body \in Pairs
      BY <1>3, <2>2 DEF RefersInv, Refers, PairOf, NoCall
    <3> QED  BY <1>3, <1>g, <2>2, <3>1 DEF LiveInv, Grown
  <2>3. CASE SignOut(q) /\ call'[q].sid = account.sid /\ pair[call[q].body].live
    <3>1. call[q].body \in Pairs
      BY <2>3 DEF SignOut, RefersInv, Refers, PairOf, NoCall
    <3>2. pair[call[q].body].crossed \/ account.sid \in {None, pair[call[q].body].sid}
      BY <2>3, <3>1 DEF LiveInv
    <3> QED  BY <1>g, <2>1, <2>3, <3>1, <3>2 DEF Grown
  <2> QED  BY <1>3, <2>2, <2>3, EndsComes
<1> QED  BY <1>1, <1>2, <1>3 DEF LiveInv, Pairs

-----------------------------------------------------------------------------
(* WebSession: what a sign-out leaves. *)

\* The browsers signed out: one more by a sign-out, one fewer by a sign-in or a
\* sign-out that is lost.
LEMMA OutMoves ==
  ASSUME WebNext, NEW b \in out'
  PROVE  \/ b \in out /\ \A q \in Handles : SignedIn(q) \/ (CallLost(q) /\ call[q].what = "logout") => Browser(call[q].tab) # b
         \/ \E q \in Handles, t \in Tabs :
              /\ Logout(q, t) /\ b = Browser(t) /\ store[b] # None /\ pair[store[b]].live
              /\ \A s \in Tabs : Browser(s) = b => refreshing'[s] = NoCall
<1>1. ASSUME NEW q \in Handles, NEW t \in Tabs, Logout(q, t), b \notin out
      PROVE  /\ b = Browser(t) /\ store[b] # None /\ pair[store[b]].live
             /\ \A s \in Tabs : Browser(s) = b => refreshing'[s] = NoCall
  BY <1>1 DEF Logout
<1>2. ASSUME NEW q \in Handles, CallStep(q), \A t \in Tabs : ~Logout(q, t) PROVE out' \subseteq out
  <2>1. ASSUME NEW t \in Tabs, Ask(q, t) \/ Login(q, t) \/ Reload(q, t) PROVE out' \subseteq out
    BY <2>1 DEF Ask, Login, Reload
  <2>2. ASSUME \/ Answer(q) \/ Receive(q) \/ Refused(q) \/ Resume(q) \/ CallLost(q)
               \/ LoginRead(q) \/ Purge(q) \/ ClaimSession(q) \/ SignedIn(q) \/ SignOut(q) \/ EndSession(q)
        PROVE  out' \subseteq out
    BY <2>2 DEF Answer, Receive, Refused, Resume, CallLost, LoginRead, Purge, ClaimSession, SignedIn, SignOut, EndSession
  <2> QED  BY <1>2, <2>1, <2>2 DEF CallStep
<1>3. ASSUME NEW t \in Tabs, Renewing(t) PROVE out' \subseteq out
  BY <1>3 DEF Renewing, RefreshRead, Rotate, Settle, Forget, RefreshLost
<1>4. ASSUME NEW k \in Pairs, Expire(k) PROVE out' \subseteq out
  BY <1>4 DEF Expire
<1>5. b \in out \/ \E q \in Handles, t \in Tabs : Logout(q, t) /\ b \notin out
  BY <1>2, <1>3, <1>4, EachStep
<1>6. ASSUME NEW q \in Handles, SignedIn(q) \/ (CallLost(q) /\ call[q].what = "logout") PROVE Browser(call[q].tab) # b
  BY <1>6 DEF SignedIn, CallLost
<1> QED  BY <1>1, <1>5, <1>6

\* A pair goes off the record by a refresh that hands it in, a sign-out that does,
\* or a sign-in elsewhere.
LEMMA Recalled ==
  ASSUME WebTypeOK, WebNext, NEW k \in Pairs, pair[k].live, ~pair'[k].live
  PROVE  \/ \E t \in Tabs : refreshing[t] # NoCall /\ refreshing[t].pair = k
         \/ \E q \in Handles : SignOut(q) /\ call[q].body = k
         \/ \E q \in Handles : Purge(q)
<1>p. pair \in [Pairs -> PairRows]
  BY PairsCounted
<1>1. ASSUME NEW q \in Handles, CallStep(q) PROVE (SignOut(q) /\ call[q].body = k) \/ Purge(q)
  <2>1. ASSUME NEW t \in Tabs, Ask(q, t) \/ Login(q, t) \/ Logout(q, t) \/ Reload(q, t) PROVE FALSE
    BY <2>1 DEF Ask, Login, Logout, Reload
  <2>2. ASSUME Answer(q) \/ Receive(q) \/ Refused(q) \/ Resume(q) \/ CallLost(q) \/ LoginRead(q) \/ EndSession(q)
        PROVE  FALSE
    BY <2>2 DEF Answer, Receive, Refused, Resume, CallLost, LoginRead, EndSession
  <2>3. ASSUME ClaimSession(q) PROVE FALSE
    <3>1. pair' = [i \in Pairs |-> [pair[i] EXCEPT !.crossed = @ \/ (call[q].step = "claims" /\ pair[i].sid # call[q].sid)]]
      BY <2>3 DEF ClaimSession
    <3> QED  BY <1>p, <3>1 DEF PairRows
  <2>4. ASSUME SignedIn(q) PROVE FALSE
    BY <2>4, MintedBySignIn
  <2>5. ASSUME SignOut(q) PROVE call[q].body = k
    <3>1. pair' = [pair EXCEPT ![call[q].body].live = FALSE]
      BY <2>5 DEF SignOut
    <3> QED  BY <1>p, <3>1
  <2> QED  BY <1>1, <2>1, <2>2, <2>3, <2>4, <2>5 DEF CallStep
<1>2. ASSUME NEW t \in Tabs, Renewing(t) PROVE refreshing[t] # NoCall /\ refreshing[t].pair = k
  <2>1. CASE RefreshRead(t)
    <3>1. pair' = pair \/ pair' = [pair EXCEPT ![refreshing[t].pair].live = FALSE]
      BY <2>1 DEF RefreshRead
    <3> QED  BY <1>p, <2>1, <3>1 DEF RefreshRead, NoCall
  <2>2. CASE Rotate(t)
    <3> DEFINE pairs == [pair EXCEPT ![refreshing[t].pair].live = FALSE]
    <3>1. k # refreshing[t].pair => pairs[k] = pair[k]
      BY <1>p
    <3>2. Issue(Browser(t), t, pair[refreshing[t].pair].sid, TRUE, Purged \/ pair[refreshing[t].pair].sid # account.sid, pairs)
      BY <2>2 DEF Rotate
    <3> HIDE DEF pairs
    <3>3. pair'[k] = pairs[k]
      BY <3>2, PairsCounted DEF Issue, Minted
    <3> QED  BY <2>2, <3>1, <3>3 DEF Rotate, NoCall
  <2>3. CASE Settle(t) \/ Forget(t) \/ RefreshLost(t)
    BY <2>3 DEF Settle, Forget, RefreshLost
  <2> QED  BY <1>2, <2>1, <2>2, <2>3 DEF Renewing
<1>3. ASSUME NEW i \in Pairs, Expire(i) PROVE FALSE
  <2>1. pair' = [pair EXCEPT ![i].old = TRUE]
    BY <1>3 DEF Expire
  <2> QED  BY <1>p, <2>1 DEF PairRows
<1> QED  BY <1>1, <1>2, <1>3, EachStep

\* What may become of a call that owes its browser the end of the session.
LEMMA OwedMoves ==
  ASSUME WebTypeOK, WebNext, NEW q \in Handles, NEW b, Owes(q, b), call'[q] # call[q]
  PROVE  \/ CallLost(q) /\ call[q].what = "logout"
         \/ SignOut(q) /\ pair[call[q].body].live
         \/ EndSession(q) \/ SignedIn(q)
<1>1. CallStep(q)
  BY OwnMove
<1>2. call[q] # NoCall /\ \/ call[q].what = "logout" /\ call[q].step = "sent" /\ pair[call[q].body].live
                          \/ call[q].step \in {"ends", "claimed"}
  BY DEF Owes
<1>3. \A t \in Tabs : ~Ask(q, t) /\ ~Login(q, t) /\ ~Reload(q, t)
  BY <1>2 DEF Ask, Login, Reload, Start
<1>4. \A t \in Tabs : ~Logout(q, t)
  BY <1>2 DEF Logout, Start
<1>5. ~Answer(q) /\ ~Receive(q) /\ ~Refused(q) /\ ~Resume(q)
  BY <1>2 DEF Answer, Receive, Refused, Resume
<1>6. ~LoginRead(q) /\ ~Purge(q) /\ ~ClaimSession(q)
  BY <1>2 DEF LoginRead, Purge, ClaimSession
<1>7. CallLost(q) => call[q].what = "logout"
  BY <1>2 DEF CallLost
<1>8. SignOut(q) => pair[call[q].body].live
  BY <1>2 DEF SignOut
<1> QED  BY <1>1, <1>3, <1>4, <1>5, <1>6, <1>7, <1>8 DEF CallStep

\* A browser that has nothing is given nothing but by its own sign-in.
LEMMA NothingStays ==
  ASSUME WebAssumption, WebTypeOK, RefersInv, SidInv, WebNext, NEW b \in Browsers, Nothing(b),
         \A t \in Tabs : Browser(t) = b => refreshing[t] = NoCall,
         \A q \in Handles : SignedIn(q) => Browser(call[q].tab) # b
  PROVE  Nothing(b)' \/ \E q \in Handles : Owes(q, b)'
<1>g. Grown
  BY PairsGrow
<1>p. pair \in [Pairs -> PairRows]
  BY PairsCounted
<1>1. ASSUME NEW k \in DOMAIN pair', Browser(pair'[k].tab) = b
      PROVE  k \in Pairs /\ Given(k) = b /\ pair'[k].sid = pair[k].sid /\ (pair'[k].live => pair[k].live)
  <2>1. ASSUME NEW t \in Tabs, Rotate(t), k = Minted PROVE FALSE
    <3>1. pair'[k].tab = t
      BY <2>1, MintedByRotate
    <3> QED  BY <1>1, <2>1, <3>1 DEF Rotate, NoCall
  <2>2. ASSUME NEW q \in Handles, SignedIn(q), k = Minted PROVE FALSE
    <3>1. pair'[k].tab = call[q].tab
      BY <2>2, MintedBySignIn
    <3> QED  BY <1>1, <2>2, <3>1
  <2>3. k \in Pairs
    BY <2>1, <2>2, NewPairs
  <2> QED  BY <1>1, <1>g, <2>3 DEF Grown, Given
<1>2. CASE account' = account
  BY <1>1, <1>2 DEF Nothing, Given, Pairs
<1>3. ASSUME NEW q \in Handles, EndSession(q) PROVE Nothing(b)'
  <2>1. account'.sid = None
    BY <1>3 DEF EndSession, WebTypeOK
  <2>2. \A k \in Pairs : pair[k].sid # None
    BY <1>p DEF PairRows
  <2> QED  BY <1>1, <2>1, <2>2 DEF Nothing, Given, Pairs
<1>4. ASSUME NEW q \in Handles, ClaimSession(q), Browser(call[q].tab) # b PROVE Nothing(b)'
  <2>1. call[q] # NoCall /\ Signing(call[q]) /\ account'.sid = call[q].sid
    BY <1>4 DEF ClaimSession, Signing, NoCall
  <2>2. call[q].sid \in Nat \ {None} /\ Browser(call[q].tab) \in Browsers
    BY <2>1, OfCall DEF RefersInv, Refers
  <2>3. ~HasOf(b, call[q].sid)
    BY <1>4, <2>1, <2>2 DEF SidInv, HasOf
  <2>4. \A k \in Pairs : Given(k) = b => pair[k].sid # call[q].sid
    BY <2>3 DEF HasOf
  <2> QED  BY <1>1, <2>1, <2>4 DEF Nothing, Given, Pairs
<1>5. ASSUME NEW q \in Handles, ClaimSession(q), Browser(call[q].tab) = b PROVE Owes(q, b)'
  <2>1. call[q] \in CallRows /\ call \in [Handles -> CallOrNone]
    BY <1>5, OfCall DEF ClaimSession, WebTypeOK, CallOrNone, NoCall
  <2>2. call'[q].step = "claimed" /\ call'[q].tab = call[q].tab
    BY <1>5, <2>1 DEF ClaimSession, Become, CallRows
  <2> QED  BY <1>5, <2>2 DEF Owes, NoCall
<1> QED  BY <1>2, <1>3, <1>4, <1>5, AccountMoves

\* A sign-out's debt is paid by its own calls, and no other step adds to it.
LEMMA OutStep ==
  ASSUME WebAssumption, WebTypeOK, RefersInv, SidInv, OutInv, WebNext
  PROVE  OutInv'
<1>g. Grown
  BY PairsGrow
<1> SUFFICES ASSUME NEW b \in out'
             PROVE  /\ store'[b] = None
                    /\ \A t \in Tabs : Browser(t) = b => refreshing'[t] = NoCall
                    /\ Nothing(b)' \/ \E q \in Handles : Owes(q, b)'
  BY DEF OutInv, Browser
<1>1. ASSUME NEW q \in Handles, NEW t \in Tabs, Logout(q, t), b = Browser(t), store[b] # None, pair[store[b]].live,
             \A s \in Tabs : Browser(s) = b => refreshing'[s] = NoCall
      PROVE  store'[b] = None /\ Owes(q, b)'
  <2>1. b \in Browsers /\ store[b] \in Pairs /\ pair' = pair /\ store[b] \in Nat
    BY <1>1 DEF Browsers, RefersInv, PairOf, Logout, WebTypeOK
  <2>2. store'[b] = None
    BY <1>1, <2>1 DEF Logout, WebTypeOK
  <2> DEFINE r == [CallOf(t, "logout", store[b]) EXCEPT !.body = store[b]]
  <2>3. r \in CallRows
    BY <2>1, NewCall
  <2>4. r.step = "sent" /\ r.what = "logout" /\ r.body = store[b] /\ r.tab = t
    BY DEF CallOf
  <2>5. Send(q, r)
    BY <1>1 DEF Logout
  <2> HIDE DEF r
  <2>6. ~Join(r)
    <3>1. Renewal(store[Browser(t)]).step = "sent" /\ NoCall.step = "idle"
      BY DEF Renewal, NoCall
    <3>2. Renewal(store[Browser(t)]) # NoCall
      BY <3>1
    <3> QED  BY <1>1, <2>3, <2>4, <3>2, Joined
  <2>7. call'[q] = r
    BY <2>3, <2>5, <2>6, Sent
  <2>8. r # NoCall
    BY <2>4 DEF NoCall
  <2> QED  BY <1>1, <2>1, <2>2, <2>4, <2>7, <2>8 DEF Owes
<1>2. ASSUME b \in out, \A q \in Handles : SignedIn(q) \/ (CallLost(q) /\ call[q].what = "logout") => Browser(call[q].tab) # b
      PROVE  /\ store'[b] = None
             /\ \A t \in Tabs : Browser(t) = b => refreshing'[t] = NoCall
             /\ Nothing(b)' \/ \E q \in Handles : Owes(q, b)'
  <2>1. b \in Browsers /\ store[b] = None
    BY <1>2 DEF WebTypeOK, OutInv
  <2>2. \A t \in Tabs : Browser(t) = b => refreshing[t] = NoCall
    BY <1>2 DEF OutInv
  <2>3. \A t \in Tabs : Renewing(t) => Browser(t) # b
    <3>1. ASSUME NEW t \in Tabs, Renewing(t) PROVE refreshing[t].step # "idle"
      BY <3>1 DEF Renewing, RefreshRead, Rotate, Settle, Forget, RefreshLost
    <3> QED  BY <2>2, <3>1 DEF NoCall
  <2>4. store'[b] = None
    BY <1>2, <2>1, <2>3, OwnStore DEF Renewing
  <2>5. \A t \in Tabs : Browser(t) = b => refreshing'[t] = NoCall
    BY <2>1, <2>2, <2>3, OwnRefresh DEF Begun
  <2>6. CASE Nothing(b)
    BY <1>2, <2>1, <2>2, <2>4, <2>5, <2>6, NothingStays
  <2>7. ASSUME NEW q \in Handles, Owes(q, b) PROVE Nothing(b)' \/ \E p \in Handles : Owes(p, b)'
    <3>1. call[q] # NoCall /\ Browser(call[q].tab) = b
      BY <2>7 DEF Owes
    <3>2. CASE call'[q] = call[q] /\ call[q].step \in {"ends", "claimed"}
      BY <3>1, <3>2 DEF Owes
    <3>3. CASE call'[q] = call[q] /\ call[q].what = "logout" /\ call[q].step = "sent" /\ pair[call[q].body].live
      <4>1. call[q].body \in Pairs /\ Given(call[q].body) = b
        BY <3>1, <3>3 DEF RefersInv, Refers, PairOf
      <4>2. CASE pair'[call[q].body].live
        BY <3>1, <3>3, <4>2 DEF Owes
      <4>3. CASE ~pair'[call[q].body].live
        <5>1. \A t \in Tabs : ~(refreshing[t] # NoCall /\ refreshing[t].pair = call[q].body)
          BY <2>2, <4>1 DEF RefersInv, Renews, PairOf
        <5>2. ASSUME NEW p \in Handles, Purge(p) PROVE Nothing(b)'
          <6>1. pair' = [i \in Pairs |-> [pair[i] EXCEPT !.live = FALSE]]
            BY <5>2 DEF Purge
          <6>2. \A i \in DOMAIN pair' : ~pair'[i].live
            BY <6>1, PairsCounted DEF PairRows
          <6> QED  BY <6>2 DEF Nothing, Pairs
        <5>3. ASSUME NEW p \in Handles, SignOut(p), call[p].body = call[q].body PROVE Owes(p, b)'
          <6>1. call[p] \in CallRows /\ call \in [Handles -> CallOrNone] /\ call[p].what = "logout"
            BY <5>3, OfCall DEF SignOut, WebTypeOK, CallOrNone, NoCall
          <6>2. Browser(call[p].tab) = b
            BY <4>1, <5>3, <6>1, OfCall DEF RefersInv, Refers, PairOf
          <6>3. Become(p, [call[p] EXCEPT !.step = "ends", !.sid = account.sid])
            BY <3>3, <5>3 DEF SignOut
          <6>4. call'[p].step = "ends" /\ call'[p].tab = call[p].tab
            BY <6>1, <6>3 DEF Become, CallRows
          <6> QED  BY <6>2, <6>4 DEF Owes, NoCall
        <5> QED  BY <3>3, <4>1, <4>3, <5>1, <5>2, <5>3, Recalled
      <4> QED  BY <4>2, <4>3
    <3>4. CASE call'[q] # call[q]
      <4>1. ~(CallLost(q) /\ call[q].what = "logout") /\ ~SignedIn(q)
        BY <1>2, <3>1
      <4>2. CASE EndSession(q)
        <5>1. account'.sid = None /\ pair' = pair
          BY <4>2 DEF EndSession, WebTypeOK
        <5>2. \A k \in Pairs : pair[k].sid # None
          BY PairsCounted DEF PairRows
        <5> QED  BY <5>1, <5>2 DEF Nothing, Pairs
      <4>3. CASE SignOut(q) /\ pair[call[q].body].live
        <5>1. call[q] \in CallRows /\ call \in [Handles -> CallOrNone]
          BY <3>1, OfCall DEF WebTypeOK, CallOrNone
        <5>2. Become(q, [call[q] EXCEPT !.step = "ends", !.sid = account.sid])
          BY <4>3 DEF SignOut
        <5>3. call'[q].step = "ends" /\ call'[q].tab = call[q].tab
          BY <5>1, <5>2 DEF Become, CallRows
        <5> QED  BY <3>1, <5>3 DEF Owes, NoCall
      <4> QED  BY <2>7, <3>4, <4>1, <4>2, <4>3, OwedMoves
    <3> QED  BY <2>7, <3>2, <3>3, <3>4 DEF Owes
  <2> QED  BY <1>2, <2>4, <2>5, <2>6, <2>7 DEF OutInv
<1> QED  BY <1>1, <1>2, OutMoves

-----------------------------------------------------------------------------
(* WebSession: the theorems. *)

\* The inductive invariant holds at the start, ...
LEMMA WebBegins == WebInit => WebInv
<1> SUFFICES ASSUME WebInit PROVE WebInv
  OBVIOUS
<1>1. WebTypeOK
  BY WebInitType
<1>2. PICK first \in Tabs :
        /\ account = [sid |-> 1, device |-> Browser(first)]
        /\ pair = [k \in {1} |-> [sid |-> 1, tab |-> first, renewed |-> FALSE,
                                  live |-> TRUE, old |-> FALSE, crossed |-> FALSE]]
        /\ store = [b \in Browsers |-> IF b = Browser(first) THEN 1 ELSE None]
        /\ lastSid = 1 /\ out = {} /\ thrown = {}
  BY DEF WebInit
<1>3. Pairs = {1} /\ pair[1].sid = 1 /\ pair[1].tab = first /\ Given(1) = Browser(first) /\ Given(1) \in Browsers
  BY <1>2 DEF Pairs, Given, Browsers
<1>4. (\A t \in Tabs : refreshing[t] = NoCall) /\ (\A q \in Handles : call[q] = NoCall) /\ NoCall.step = "idle"
  BY DEF WebInit, NoCall
<1>5. RefersInv
  BY <1>2, <1>3, <1>4 DEF RefersInv, PairOf, Renews, Refers
<1>6. OwnInv /\ LetInv
  BY <1>4 DEF OwnInv, LetInv
<1>7. \A s \in Nat \ {None}, b \in Browsers : HasOf(b, s) => s = 1 /\ b = Browser(first)
  BY <1>2, <1>3, <1>4 DEF HasOf, Signing
<1>8. SidInv
  BY <1>2, <1>7 DEF SidInv
<1>9. LiveInv
  BY <1>2, <1>3, <1>4 DEF LiveInv, Purged
<1>10. OutInv /\ thrown = {}
  BY <1>2 DEF OutInv
<1> QED  BY <1>1, <1>5, <1>6, <1>8, <1>9, <1>10 DEF WebInv

\* ... at a step,
LEMMA WebStays == WebInv /\ WebNext /\ WebAssumption => WebInv'
  BY WebTypeStep, RefersStep, OwnStep, NothingThrown, SidStep, LiveStep, OutStep, LetStep DEF WebInv

\* ... at a stutter.
LEMMA WebRests == WebInv /\ UNCHANGED webVars => WebInv'
<1> SUFFICES ASSUME WebInv, UNCHANGED webVars PROVE WebInv'
  OBVIOUS
<1>1. WebTypeOK' /\ RefersInv'
  BY DEF webVars, WebInv, WebTypeOK, RefersInv, PairOf, Given, Renews, Refers, Pairs, Signing
<1>2. OwnInv' /\ thrown' = {} /\ LetInv'
  BY DEF webVars, WebInv, OwnInv, LetInv, Old
<1>3. SidInv'
  BY DEF webVars, WebInv, SidInv, HasOf, Pairs, Given, Signing
<1>4. LiveInv' /\ OutInv'
  BY DEF webVars, WebInv, LiveInv, OutInv, Nothing, Owes, Purged, Pairs, Given
<1> QED  BY <1>1, <1>2, <1>3, <1>4 DEF WebInv

\* What holds of the browsers' tokens and the account's session, step after step.
THEOREM WebInductive == WebSpec => []WebInv
<1>1. WebInv /\ [WebNext]_webVars => WebInv'
  BY WebStays, WebRests, WebAssumption
<1> QED  BY WebBegins, <1>1, PTL DEF WebSpec

\* A tab never ends the session that its own refresh has renewed (client.ts:
\* refreshSession, send).
THEOREM OwnRefreshStays == WebSpec => []OwnRefreshKept
<1>1. WebInv => OwnRefreshKept
  BY DEF WebInv, OwnRefreshKept
<1> QED  BY <1>1, WebInductive, PTL

\* A sign-out leaves nothing of its browser that renews the account's session, and
\* ends no other browser's (session.ts: startSession, clearSession; auth-api:
\* /auth/logout).
THEOREM SignOutIsWhole == WebSpec => SignOutEndsItsOwn
<1>1. WebInv => SignOutLeavesNothing
  BY DEF WebInv, OutInv, SignOutLeavesNothing, Nothing, Owes, Given, NoCall
<1>2. WebInv /\ [WebNext]_webVars =>
        \A q \in Handles :
          call[q].step = "ends" /\ account'.sid # account.sid /\ account'.sid = None =>
            \/ account.sid = pair[call[q].body].sid
            \/ pair[call[q].body].crossed
            \/ account.sid # call[q].sid
  BY DEF WebInv, LiveInv
<1> QED  BY <1>1, <1>2, WebInductive, PTL DEF WebSpec, SignOutEndsItsOwn, SignOutSparesOthers

\* A register that refuses the service's own token costs no tab its session
\* (gst-api, udyam-api, pan-api: PROVIDER_UNAUTHORIZED).
THEOREM ProvidersSpare == WebSpec => ProviderSparesSession
<1>1. ASSUME WebInv, WebNext, NEW q \in Handles, call[q] # NoCall, call[q].let, call'[q] # call[q]
      PROVE  call'[q] = NoCall /\ UNCHANGED <<store, refreshing>>
  <2>1. call[q].step = "ok" /\ call[q].what = "panel" /\ WebTypeOK
    BY <1>1 DEF WebInv, LetInv
  <2>2. CallStep(q)
    BY <1>1, <2>1, OwnMove
  <2>3. \A t \in Tabs : ~Ask(q, t) /\ ~Login(q, t) /\ ~Logout(q, t) /\ ~Reload(q, t)
    BY <1>1 DEF Ask, Login, Logout, Reload, Start
  <2>4. Receive(q) \/ CallLost(q)
    BY <2>1, <2>2, <2>3 DEF CallStep, Answer, Refused, Resume, LoginRead, Purge, ClaimSession, SignedIn, SignOut, EndSession
  <2>5. call'[q] = NoCall
    BY <2>1, <2>4, BecomeType DEF Receive, CallLost, CallOrNone
  <2>6. UNCHANGED <<store, refreshing>>
    BY <2>1, <2>4 DEF Receive, CallLost
  <2> QED  BY <2>5, <2>6
<1>2. WebInv /\ [WebNext]_webVars =>
        \A q \in Handles :
          call[q] # NoCall /\ call[q].let /\ call'[q] # call[q] => call'[q] = NoCall /\ UNCHANGED <<store, refreshing>>
  BY <1>1 DEF webVars
<1> QED  BY <1>2, WebInductive, PTL DEF WebSpec, ProviderSparesSession
=============================================================================
