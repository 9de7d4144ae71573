------------------------- MODULE Obligations_proofs -------------------------
(***************************************************************************)
(* Proofs about Obligations, for any calendar, catalog, number of requests *)
(* and bounds: what holds however many requests overlap; then what holds   *)
(* when they are served one after the other: the invariants of the serial  *)
(* run, the completion gate, what a sync spares, and the lifecycle the     *)
(* rows implement.                                                         *)
(***************************************************************************)
EXTENDS ObligationsInvariants, TLAPS

USE DEF NoDue

-----------------------------------------------------------------------------
(* The operators the actions are built from. *)

\* A derived status is an open one.
LEMMA DeriveOpen == \A due, day : Derive(due, day) \in OpenStatuses
  BY DEF Derive, OpenStatuses

\* Putting an item back, filing it or rewriting it from a plan yields a row.
LEMMA UnfiledType ==
  ASSUME NEW row \in Items, NEW status \in OpenStatuses \cup Settled
  PROVE  Unfiled(row, status) \in Items
  BY DEF Unfiled, Items

\* An item that is put back or waived carries no claim (markItemStatus).
LEMMA UnfiledRow ==
  ASSUME NEW row \in Items, row.exists, NEW status \in OpenStatuses \cup {"WAIVED"}
  PROVE  Unfiled(row, status) \in {i \in Items : /\ i.exists /\ i.status # "COMPLETED"
                                                /\ ~i.completed /\ ~i.attested /\ ~i.signed}
  <1>1. status \in OpenStatuses \cup Settled /\ status # "COMPLETED"
    BY DEF OpenStatuses, Settled
  <1> QED BY <1>1 DEF Unfiled, Items

\* What a sync rewrites of an item is an item.
LEMMA UpdatedType ==
  ASSUME NEW row \in Items, NEW p \in Plans
  PROVE  Updated(row, p) \in Items
  BY DEF Updated, Items, Plans

\* A task kept in step with its item is a task.
LEMMA InStepType ==
  ASSUME NEW row \in Tasks, NEW status \in OpenStatuses \cup Settled
  PROVE  InStep(row, status) \in Tasks
  BY DEF InStep, Tasks, TaskStatuses

\* A task that was moved is a task (updateTask).
LEMMA MovedType ==
  ASSUME NEW row \in Tasks, NEW was, NEW to \in TaskStatuses
  PROVE  Moved(row, was, to) \in Tasks
  BY DEF Moved, Tasks, BecomingDone, LeavingDone

\* A task with another checklist is a task.
LEMMA RelistedType ==
  ASSUME NEW row \in Tasks, NEW listed \in SUBSET Entries, NEW ticked \in SUBSET Entries
  PROVE  Relisted(row, listed, ticked) \in Tasks
  BY DEF Relisted, Tasks

\* A task whose deadline moved is a task.
LEMMA RetimedType ==
  ASSUME NEW row \in Tasks, NEW p \in Plans
  PROVE  Retimed(row, p) \in Tasks
  BY DEF Retimed, Tasks, Plans

\* A plan entry is one whatever the state the sync read.
LEMMA PlanType ==
  ASSUME TypeOK, NEW s \in Slots, NEW reworded \in Rewordings
  PROVE  PlanFor(s, reworded) \in Plans
  <1>1. rule[s] \in DueDates \cup {NoDue} /\ item[s] \in Items BY DEF TypeOK
  <1>2. Derive(rule[s], today) \in OpenStatuses BY DeriveOpen
  <1> QED BY <1>1, <1>2 DEF PlanFor, Plans, Skip, OpenStatuses

\* What a deletion leaves of a request's state is a request's state.
LEMMA AfterType ==
  ASSUME NEW q \in RequestStates, NEW gone \in SUBSET Slots
  PROVE  After(q, gone) \in RequestStates
  <1>1. Idle \in RequestStates BY DEF RequestStates
  <1>2. CASE q \in Syncs
    <2> DEFINE pruned == [s \in Slots |-> IF s \in gone /\ q.plan[s].op = "withdraw"
                                          THEN Skip ELSE q.plan[s]]
    <2>1. Skip \in Plans BY DEF Skip, Plans
    <2>2. q.plan \in [Slots -> Plans] BY <1>2 DEF Syncs
    <2>3. pruned \in [Slots -> Plans] BY <2>1, <2>2
    <2>4. [kind |-> "sync", plan |-> pruned] \in RequestStates
      BY <2>3 DEF RequestStates, Syncs
    <2>5. q.kind = "sync" BY <1>2 DEF Syncs
    <2> QED BY <1>1, <2>4, <2>5 DEF After
  <1>3. CASE q \notin Syncs
    <2>1. q.kind # "sync" BY <1>3 DEF RequestStates, Idle, Synced, Filings, Moves, Tickings, Backfills
    <2> QED BY <1>1, <2>1 DEF After
  <1> QED BY <1>2, <1>3

\* What a sync makes of a row it has planned for.
LEMMA SyncedType ==
  ASSUME NEW row \in Items, NEW work \in Tasks, NEW p \in Plans
  PROVE  SyncedItem(row, p) \in Items /\ SyncedTask(work, p) \in Tasks
  <1>1. SyncedItem(row, p) \in Items
    BY UpdatedType DEF SyncedItem, NewItem, NoItem, Items, Plans, OpenStatuses
  <1>2. SyncedTask(work, p) \in Tasks
    BY RetimedType DEF SyncedTask, NoTask, Tasks, TaskStatuses
  <1> QED BY <1>1, <1>2

-----------------------------------------------------------------------------
(* Type correctness, however many requests overlap. *)

\* Replacing one request's state by another keeps the type of req.
LEMMA HoldType ==
  ASSUME TypeOK, NEW r \in Requests, NEW state \in RequestStates, Hold(r, state)
  PROVE  req' \in [Requests -> RequestStates]
  BY DEF TypeOK, Hold

\* The inductive step of TypeOK: one step of the proof per action.
LEMMA TypeStep ==
  ASSUME ObligationsAssumption, TypeOK, [Next]_vars
  PROVE  TypeOK'
  <1> USE ObligationsAssumption
  <1>a. Idle \in RequestStates BY DEF RequestStates
  <1>b. OpenStatuses \subseteq OpenStatuses \cup Settled OBVIOUS
  <1>1. ASSUME NEW r \in Requests, NEW s \in Slots, FileRead(r, s)
        PROVE  TypeOK'
    <2>1. PICK attestation \in Texts, sent \in Texts \cup {"absent"} :
            Hold(r, [kind |-> "file", slot |-> s, attested |-> attestation # "blank",
                     signed |-> Signatory(s, sent) = "ok"])
      BY <1>1 DEF FileRead
    <2>2. [kind |-> "file", slot |-> s, attested |-> attestation # "blank",
           signed |-> Signatory(s, sent) = "ok"] \in RequestStates
      BY DEF RequestStates, Filings
    <2>3. req' \in [Requests -> RequestStates] BY <2>1, <2>2, HoldType
    <2> QED BY <1>1, <2>3 DEF FileRead, TypeOK
  <1>2. ASSUME NEW r \in Requests, FileWrite(r)
        PROVE  TypeOK'
    <2>1. req[r] \in Filings
      BY <1>2 DEF FileWrite, TypeOK, RequestStates, Idle, Synced, Moves, Tickings, Syncs, Backfills
    <2>2. PICK s \in Slots : s = req[r].slot BY <2>1 DEF Filings
    <2>3. item[s] \in Items /\ task[s] \in Tasks BY DEF TypeOK
    <2>4. InStep(task[s], "COMPLETED") \in Tasks BY <2>3, InStepType DEF Settled
    <2>5. task' \in [Slots -> Tasks] BY <1>2, <2>2, <2>4 DEF FileWrite, TypeOK
    <2>6. item' \in [Slots -> Items]
      BY <1>2, <2>1, <2>2, <2>3 DEF FileWrite, TypeOK, Items, Filings, Settled
    <2>7. req' \in [Requests -> RequestStates] BY <1>2, <1>a, HoldType DEF FileWrite
    <2> QED BY <1>2, <2>5, <2>6, <2>7 DEF FileWrite, TypeOK
  <1>3. ASSUME NEW r \in Requests, NEW s \in Slots, SetStatus(r, s)
        PROVE  TypeOK'
    <2>1. PICK status \in OpenStatuses \cup {"WAIVED"} :
            /\ item' = [item EXCEPT ![s] = Unfiled(@, status)]
            /\ task' = [task EXCEPT ![s] = InStep(@, status)]
      BY <1>3 DEF SetStatus
    <2>2. status \in OpenStatuses \cup Settled BY DEF Settled
    <2>3. item[s] \in Items /\ task[s] \in Tasks BY DEF TypeOK
    <2>4. Unfiled(item[s], status) \in Items BY <2>2, <2>3, UnfiledType
    <2>5. InStep(task[s], status) \in Tasks BY <2>2, <2>3, InStepType
    <2>6. item' \in [Slots -> Items] /\ task' \in [Slots -> Tasks]
      BY <2>1, <2>4, <2>5 DEF TypeOK
    <2> QED BY <1>3, <2>6 DEF SetStatus, TypeOK
  <1>4. ASSUME NEW r \in Requests, NEW s \in Slots, MoveRead(r, s)
        PROVE  TypeOK'
    <2>1. PICK to \in TaskMoves :
            Hold(r, [kind |-> "move", slot |-> s, was |-> task[s].status, to |-> to])
      BY <1>4 DEF MoveRead
    <2>2. task[s].status \in TaskStatuses BY DEF TypeOK, Tasks
    <2>3. [kind |-> "move", slot |-> s, was |-> task[s].status, to |-> to] \in RequestStates
      BY <2>2 DEF RequestStates, Moves
    <2>4. req' \in [Requests -> RequestStates] BY <2>1, <2>3, HoldType
    <2> QED BY <1>4, <2>4 DEF MoveRead, TypeOK
  <1>5. ASSUME NEW r \in Requests, MoveWrite(r)
        PROVE  TypeOK'
    <2>1. req[r] \in Moves
      BY <1>5 DEF MoveWrite, TypeOK, RequestStates, Idle, Synced, Filings, Tickings, Syncs, Backfills
    <2>2. PICK s \in Slots : s = req[r].slot BY <2>1 DEF Moves
    <2>3. item[s] \in Items /\ task[s] \in Tasks BY DEF TypeOK
    <2>4. req[r].to \in TaskStatuses BY <2>1 DEF Moves, ObligationsAssumption
    <2>5. Moved(task[s], req[r].was, req[r].to) \in Tasks BY <2>3, <2>4, MovedType
    <2>6. task' \in [Slots -> Tasks] BY <1>5, <2>2, <2>5 DEF MoveWrite, TypeOK
    <2>7. Unfiled(item[s], Derive(item[s].due, today)) \in Items
      BY <2>3, DeriveOpen, UnfiledType
    <2>8. item' \in [Slots -> Items] BY <1>5, <2>2, <2>7 DEF MoveWrite, TypeOK
    <2>9. req' \in [Requests -> RequestStates] BY <1>5, <1>a, HoldType DEF MoveWrite
    <2> QED BY <1>5, <2>6, <2>8, <2>9 DEF MoveWrite, TypeOK
  <1>6. ASSUME NEW r \in Requests, NEW s \in Slots, Assign(r, s) \/ ReplaceChecklist(r, s)
        PROVE  TypeOK'
    <2>1. task[s] \in Tasks BY DEF TypeOK
    <2>2. CASE Assign(r, s)
      <3>1. PICK who \in BOOLEAN : task' = [task EXCEPT ![s].assigned = who]
        BY <2>2 DEF Assign
      <3>2. [task[s] EXCEPT !.assigned = who] \in Tasks BY <2>1 DEF Tasks
      <3>3. task' \in [Slots -> Tasks] BY <3>1, <3>2 DEF TypeOK
      <3> QED BY <2>2, <3>3 DEF Assign, TypeOK
    <2>3. CASE ReplaceChecklist(r, s)
      <3>1. PICK listed \in SUBSET Entries : \E ticked \in SUBSET listed :
              task' = [task EXCEPT ![s] = Relisted(@, listed, ticked)]
        BY <2>3 DEF ReplaceChecklist
      <3>2. PICK ticked \in SUBSET listed :
              task' = [task EXCEPT ![s] = Relisted(@, listed, ticked)]
        BY <3>1
      <3>3. Relisted(task[s], listed, ticked) \in Tasks
        BY <2>1, <3>1, <3>2, RelistedType
      <3>4. task' \in [Slots -> Tasks] BY <3>2, <3>3 DEF TypeOK
      <3> QED BY <2>3, <3>4 DEF ReplaceChecklist, TypeOK
    <2> QED BY <1>6, <2>2, <2>3
  <1>7. ASSUME NEW r \in Requests, NEW s \in Slots, TickRead(r, s)
        PROVE  TypeOK'
    <2>1. PICK e \in task[s].listed, done \in BOOLEAN :
            Hold(r, [kind |-> "tick", slot |-> s, listed |-> task[s].listed,
                     ticked |-> IF done THEN task[s].ticked \cup {e} ELSE task[s].ticked \ {e}])
      BY <1>7 DEF TickRead
    <2>2. task[s].listed \in SUBSET Entries /\ task[s].ticked \in SUBSET Entries
      BY DEF TypeOK, Tasks
    <2>3. [kind |-> "tick", slot |-> s, listed |-> task[s].listed,
           ticked |-> IF done THEN task[s].ticked \cup {e} ELSE task[s].ticked \ {e}]
            \in RequestStates
      BY <2>2 DEF RequestStates, Tickings
    <2>4. req' \in [Requests -> RequestStates] BY <2>1, <2>3, HoldType
    <2> QED BY <1>7, <2>4 DEF TickRead, TypeOK
  <1>8. ASSUME NEW r \in Requests, TickWrite(r)
        PROVE  TypeOK'
    <2>1. req[r] \in Tickings
      BY <1>8 DEF TickWrite, TypeOK, RequestStates, Idle, Synced, Filings, Moves, Syncs, Backfills
    <2>a. PICK s \in Slots : s = req[r].slot BY <2>1 DEF Tickings
    <2>b. Relisted(task[s], req[r].listed, req[r].ticked) \in Tasks
      BY <2>1, RelistedType DEF Tickings, TypeOK
    <2>2. task' \in [Slots -> Tasks] BY <1>8, <2>a, <2>b DEF TickWrite, TypeOK
    <2>3. req' \in [Requests -> RequestStates] BY <1>8, <1>a, HoldType DEF TickWrite
    <2> QED BY <1>8, <2>2, <2>3 DEF TickWrite, TypeOK
  <1>9. ASSUME NEW r \in Requests, NEW s \in Slots, AttachDocument(r, s) \/ RemoveDocument(r, s)
        PROVE  TypeOK'
    BY <1>9 DEF AttachDocument, RemoveDocument, TypeOK, ObligationsAssumption
  <1>10. ASSUME NEW r \in Requests, SyncRead(r)
         PROVE  TypeOK'
    <2>1. PICK reworded \in [Slots -> Rewordings] :
            Hold(r, [kind |-> "sync", plan |-> [s \in Slots |-> PlanFor(s, reworded[s])]])
      BY <1>10 DEF SyncRead
    <2>a. \A s \in Slots : reworded[s] \in Rewordings OBVIOUS
    <2>b. \A s \in Slots : PlanFor(s, reworded[s]) \in Plans BY <2>a, PlanType
    <2>2. [s \in Slots |-> PlanFor(s, reworded[s])] \in [Slots -> Plans]
      BY <2>b
    <2>3. [kind |-> "sync", plan |-> [s \in Slots |-> PlanFor(s, reworded[s])]]
            \in RequestStates
      BY <2>2 DEF RequestStates, Syncs
    <2>4. req' \in [Requests -> RequestStates] BY <2>1, <2>3, HoldType
    <2> QED BY <1>10, <2>4 DEF SyncRead, TypeOK
  <1>11. ASSUME NEW r \in Requests, SyncWrite(r)
         PROVE  TypeOK'
    <2>1. req[r] \in Syncs
      BY <1>11 DEF SyncWrite, TypeOK, RequestStates, Idle, Synced, Filings, Moves, Tickings, Backfills
    <2> DEFINE plan == req[r].plan
               gone == {s \in Slots : plan[s].op = "withdraw"}
    <2>2. plan \in [Slots -> Plans] BY <2>1 DEF Syncs
    <2>3. \A s \in Slots : SyncedItem(item[s], plan[s]) \in Items /\ SyncedTask(task[s], plan[s]) \in Tasks
      BY <2>2, SyncedType DEF TypeOK
    <2>4. item' \in [Slots -> Items] /\ task' \in [Slots -> Tasks]
      BY <1>11, <2>3 DEF SyncWrite
    <2>5. \A x \in Requests : After(req[x], gone) \in RequestStates
      BY AfterType DEF TypeOK
    <2>6. Synced \in RequestStates BY DEF RequestStates
    <2>7. req' \in [Requests -> RequestStates] BY <1>11, <2>5, <2>6 DEF SyncWrite
    <2>8. docs' \in [Slots -> 0..MaxDocs] BY <1>11 DEF SyncWrite, TypeOK, ObligationsAssumption
    <2> QED BY <1>11, <2>4, <2>7, <2>8 DEF SyncWrite, TypeOK
  <1>12. ASSUME NEW r \in Requests, BackfillRead(r)
         PROVE  TypeOK'
    <2> DEFINE missing == {s \in Slots : item[s].exists /\ ~task[s].exists}
               due == [s \in Slots |-> IF s \in missing THEN item[s].due ELSE NoDue]
    <2>1. \A s \in Slots : item[s].due \in DueDates \cup {NoDue} BY DEF TypeOK, Items
    <2>2. due \in [Slots -> DueDates \cup {NoDue}] BY <2>1
    <2>3. [kind |-> "backfill", missing |-> missing, due |-> due] \in RequestStates
      BY <2>2 DEF RequestStates, Backfills
    <2>4. \E state \in RequestStates : Hold(r, state)
      BY <1>12, <1>a, <2>3 DEF BackfillRead
    <2>5. req' \in [Requests -> RequestStates] BY <2>4, HoldType
    <2> QED BY <1>12, <2>5 DEF BackfillRead, TypeOK
  <1>13. ASSUME NEW r \in Requests, BackfillWrite(r)
         PROVE  TypeOK'
    <2>1. req[r] \in Backfills
      BY <1>13 DEF BackfillWrite, TypeOK, RequestStates, Idle, Synced, Filings, Moves, Tickings, Syncs
    <2>2. \A s \in Slots : NewTask(req[r].due[s]) \in Tasks
      BY <2>1 DEF Backfills, NewTask, Tasks, TaskStatuses
    <2>3. task' \in [Slots -> Tasks] BY <1>13, <2>2 DEF BackfillWrite, TypeOK
    <2>4. req' \in [Requests -> RequestStates] BY <1>13, <1>a, HoldType DEF BackfillWrite
    <2> QED BY <1>13, <2>3, <2>4 DEF BackfillWrite, TypeOK
  <1>14. ASSUME NEW r \in Requests, Abandon(r)
         PROVE  TypeOK'
    <2>1. req' \in [Requests -> RequestStates] BY <1>14, <1>a, HoldType DEF Abandon
    <2> QED BY <1>14, <2>1 DEF Abandon, TypeOK
  <1>15. CASE RefreshStatuses
    <2>1. \A s \in Slots : [item[s] EXCEPT !.status = Derive(item[s].due, today)] \in Items
      BY DeriveOpen DEF TypeOK, Items
    <2>2. item' \in [Slots -> Items] BY <1>15, <2>1 DEF RefreshStatuses, TypeOK
    <2> QED BY <1>15, <2>2 DEF RefreshStatuses, TypeOK
  <1>16. ASSUME NEW s \in Slots, RuleChange(s)
         PROVE  TypeOK'
    BY <1>16 DEF RuleChange, TypeOK
  <1>17. CASE NextDay
    BY <1>17 DEF NextDay, TypeOK, ObligationsAssumption
  <1>18. CASE UNCHANGED vars
    BY <1>18 DEF vars, TypeOK
  <1> QED
    BY <1>1, <1>2, <1>3, <1>4, <1>5, <1>6, <1>7, <1>8, <1>9, <1>10, <1>11, <1>12, <1>13,
       <1>14, <1>15, <1>16, <1>17, <1>18 DEF Next, Request

\* The empty tables are well formed.
LEMMA InitType == ASSUME ObligationsAssumption, Init PROVE TypeOK
  BY DEF Init, TypeOK, ObligationsAssumption, Items, NoItem, Tasks, NoTask, TaskStatuses,
         OpenStatuses, RequestStates

\* Every row, task and request keeps its form, for any calendar, any catalog and
\* any number of overlapping requests.
THEOREM TypeCorrect == Spec => []TypeOK
  <1> USE ObligationsAssumption
  <1>1. Init => TypeOK BY InitType
  <1>2. TypeOK /\ [Next]_vars => TypeOK' BY TypeStep
  <1> QED BY <1>1, <1>2, PTL DEF Spec

-----------------------------------------------------------------------------
(* What holds however many requests overlap. *)

\* A step that deletes no row leaves every request on target that it does not
\* itself put on a new one.
LEMMA TargetedKept ==
  ASSUME TypeOK, RequestsTargeted,
         \A s \in Slots : /\ item[s].exists => item'[s].exists
                          /\ task[s].exists => task'[s].exists,
         \A x \in Requests : req'[x] = req[x] \/ Targeted(req[x])'
  PROVE  RequestsTargeted'
  <1> SUFFICES ASSUME NEW x \in Requests, req'[x] = req[x] PROVE Targeted(req[x])'
    BY DEF RequestsTargeted
  <1>1. Targeted(req[x]) BY DEF RequestsTargeted
  <1>2. req[x].kind \in {"file", "move", "tick"} => req[x].slot \in Slots
    BY DEF TypeOK, RequestStates, Idle, Synced, Filings, Moves, Tickings, Syncs, Backfills
  <1>3. req[x].kind = "backfill" => req[x].missing \subseteq Slots
    BY DEF TypeOK, RequestStates, Idle, Synced, Filings, Moves, Tickings, Syncs, Backfills
  <1> QED BY <1>1, <1>2, <1>3 DEF Targeted

\* A request that is idle or done with its sync aims at no row.
LEMMA IdleTargeted == Targeted(Idle) /\ Targeted(Synced)
  BY DEF Targeted, Idle, Synced

\* The rows of one state say nothing wrong in the next if they are the same.
LEMMA RowsKept ==
  ASSUME RowsWhole, ClaimWellFormed, FiledHasTask, UNCHANGED <<item, task, docs>>
  PROVE  RowsWhole' /\ ClaimWellFormed' /\ FiledHasTask'
  BY DEF RowsWhole, ClaimWellFormed, FiledHasTask

\* The gate lets nothing through whose task is not there.
LEMMA GateSawTask ==
  ASSUME RowsWhole, NEW s \in Slots, NEW attestation, NEW sent,
         Allowed(GateInput(s, attestation, sent)), Level[s] # "NONE"
  PROVE  task[s].exists
  BY DEF Allowed, GateInput, TaskNotDone, Gated, RowsWhole, NoTask

\* A step that changes one task and does not delete it.
LEMMA OneTaskKept ==
  ASSUME TypeOK, RowsWhole, RequestsTargeted, ClaimWellFormed, FiledHasTask,
         NEW s \in Slots, task[s].exists, task'[s].exists,
         \A x \in Slots \ {s} : task'[x] = task[x], UNCHANGED <<item, docs>>,
         \A x \in Requests : req'[x] = req[x] \/ Targeted(req[x])'
  PROVE  RowsWhole' /\ RequestsTargeted' /\ ClaimWellFormed' /\ FiledHasTask'
  <1>1. RowsWhole' BY DEF RowsWhole
  <1>2. ClaimWellFormed' /\ FiledHasTask' BY DEF ClaimWellFormed, FiledHasTask
  <1>3. RequestsTargeted' BY TargetedKept
  <1> QED BY <1>1, <1>2, <1>3

\* What the overlapping invariant needs of one slot after a sync has written it.
SyncedWhole(s, p) ==
  /\ ~item'[s].exists => item'[s] = NoItem /\ ~task'[s].exists /\ docs'[s] = 0
  /\ ~task'[s].exists => task'[s] = NoTask
  /\ item'[s].status = "COMPLETED" => item'[s].completed
  /\ item'[s].status = "WAIVED" => ~item'[s].completed
  /\ item'[s].attested \/ item'[s].signed => item'[s].completed
  /\ item'[s].status = "COMPLETED" /\ Level[s] # "NONE" => task'[s].exists
  /\ p.op # "withdraw" => /\ item[s].exists => item'[s].exists
                          /\ task[s].exists => task'[s].exists

\* What a sync's transaction makes of a slot, by what it planned for it.
LEMMA SyncedRows ==
  ASSUME TypeOK, RowsWhole, ClaimWellFormed, FiledHasTask, NEW s \in Slots, NEW p \in Plans,
         item'[s] = SyncedItem(item[s], p), task'[s] = SyncedTask(task[s], p),
         docs'[s] = IF p.op = "withdraw" THEN 0 ELSE docs[s],
         p.op = "update" => item[s].exists
  PROVE  SyncedWhole(s, p)
  <1>1. item[s] \in Items /\ task[s] \in Tasks BY DEF TypeOK
  <1>2. CASE p.op = "withdraw"
    BY <1>2 DEF SyncedWhole, SyncedItem, SyncedTask, NoItem, NoTask
  <1>3. CASE p.op = "update"
    <2>1. item'[s] = Updated(item[s], p) /\ task'[s] = Retimed(task[s], p) /\ docs'[s] = docs[s]
      BY <1>3 DEF SyncedItem, SyncedTask
    <2>2. /\ item'[s].exists /\ item'[s].completed = item[s].completed
          /\ item'[s].attested = item[s].attested /\ item'[s].signed = item[s].signed
          /\ item'[s].status = item[s].status \/ item'[s].status \in OpenStatuses
      BY <1>1, <1>3, <2>1 DEF Updated, Items, Plans
    <2>3. task'[s].exists = task[s].exists /\ (~task[s].exists => task'[s] = task[s])
      BY <1>1, <2>1 DEF Retimed, Tasks
    <2> QED BY <1>3, <2>1, <2>2, <2>3
      DEF SyncedWhole, RowsWhole, ClaimWellFormed, FiledHasTask, OpenStatuses
  <1>4. CASE p.op = "create"
    <2>1. /\ item'[s] = IF item[s].exists THEN item[s] ELSE NewItem(p.due, p.status)
          /\ task'[s] = task[s] /\ docs'[s] = docs[s]
      BY <1>4 DEF SyncedItem, SyncedTask
    <2>2. p.status \in OpenStatuses BY <1>4 DEF Plans
    <2> QED BY <1>4, <2>1, <2>2
      DEF SyncedWhole, NewItem, RowsWhole, ClaimWellFormed, FiledHasTask, OpenStatuses
  <1>5. CASE p.op = "skip"
    <2>1. item'[s] = item[s] /\ task'[s] = task[s] /\ docs'[s] = docs[s]
      BY <1>5 DEF SyncedItem, SyncedTask
    <2> QED BY <1>5, <2>1 DEF SyncedWhole, RowsWhole, ClaimWellFormed, FiledHasTask
  <1> QED BY <1>2, <1>3, <1>4, <1>5 DEF Plans

\* A sync that deletes the items in gone takes every request about one of them
\* off its target.
LEMMA SyncedTargets ==
  ASSUME TypeOK, RequestsTargeted, NEW gone \in SUBSET Slots,
         \A s \in Slots \ gone : /\ item[s].exists => item'[s].exists
                                 /\ task[s].exists => task'[s].exists,
         \A x \in Requests : req'[x] = Synced \/ req'[x] = After(req[x], gone)
  PROVE  RequestsTargeted'
  <1> SUFFICES ASSUME NEW x \in Requests PROVE Targeted(req[x])' BY DEF RequestsTargeted
  <1>1. Targeted(req[x]) /\ req[x] \in RequestStates BY DEF RequestsTargeted, TypeOK
  <1>2. CASE req'[x] = Synced \/ req'[x] = Idle BY <1>2 DEF Targeted, Synced, Idle
  <1>3. CASE req'[x] = After(req[x], gone) /\ req'[x] # Idle
    <2>1. CASE req[x] \in Filings
      <3>1. req'[x] = req[x] /\ req[x].slot \notin gone BY <1>3, <2>1 DEF After, Filings
      <3> QED BY <1>1, <2>1, <3>1 DEF Targeted, Filings
    <2>2. CASE req[x] \in Moves \cup Tickings
      <3>1. req'[x] = req[x] /\ req[x].slot \in Slots \ gone
        BY <1>3, <2>2 DEF After, Moves, Tickings
      <3> QED BY <1>1, <2>2, <3>1 DEF Targeted, Moves, Tickings
    <2>3. CASE req[x] \in Syncs
      <3>1. \A s \in gone : req[x].plan[s].op # "update"
        BY <1>3, <2>3 DEF After, Syncs
      <3>2. req'[x] = [kind |-> "sync",
                       plan |-> [s \in Slots |-> IF s \in gone /\ req[x].plan[s].op = "withdraw"
                                                 THEN Skip ELSE req[x].plan[s]]]
        BY <1>3, <2>3 DEF After, Syncs
      <3>3. req'[x].kind = "sync" /\ \A s \in Slots : req'[x].plan[s].op = "update" =>
                req[x].plan[s].op = "update" /\ s \notin gone
        BY <3>1, <3>2 DEF Skip
      <3> QED BY <1>1, <2>3, <3>3 DEF Targeted, Syncs
    <2>4. CASE req[x] \in Backfills
      <3>1. req'[x] = req[x] /\ req[x].missing \cap gone = {}
        BY <1>3, <2>4 DEF After, Backfills
      <3> QED BY <1>1, <2>4, <3>1 DEF Targeted, Backfills
    <2>5. CASE req[x] \in {Idle, Synced}
      <3>1. req'[x] = req[x] BY <1>3, <2>5 DEF After, Idle, Synced
      <3> QED BY <2>5, <3>1 DEF Targeted, Idle, Synced
    <2> QED BY <1>1, <2>1, <2>2, <2>3, <2>4, <2>5 DEF RequestStates
  <1> QED BY <1>2, <1>3

\* The inductive step of OverlapInv: one step of the proof per action.
LEMMA OverlapStep ==
  ASSUME ObligationsAssumption, OverlapInv, [Next]_vars
  PROVE  OverlapInv'
  <1> USE ObligationsAssumption
  <1>0. TypeOK /\ RowsWhole /\ RequestsTargeted /\ ClaimWellFormed /\ FiledHasTask
    BY DEF OverlapInv
  <1>a. TypeOK' BY <1>0, TypeStep
  <1>b. SUFFICES RowsWhole' /\ RequestsTargeted' /\ ClaimWellFormed' /\ FiledHasTask'
    BY <1>a DEF OverlapInv
  <1>1. ASSUME NEW r \in Requests, NEW s \in Slots, FileRead(r, s)
        PROVE  RowsWhole' /\ RequestsTargeted' /\ ClaimWellFormed' /\ FiledHasTask'
    <2>1. PICK attestation \in Texts, sent \in Texts \cup {"absent"} :
            /\ Allowed(GateInput(s, attestation, sent))
            /\ Hold(r, [kind |-> "file", slot |-> s, attested |-> attestation # "blank",
                        signed |-> Signatory(s, sent) = "ok"])
      BY <1>1 DEF FileRead
    <2>2. Level[s] # "NONE" => task[s].exists BY <1>0, <2>1, GateSawTask
    <2>3. Targeted([kind |-> "file", slot |-> s, attested |-> attestation # "blank",
                    signed |-> Signatory(s, sent) = "ok"])'
      BY <1>1, <2>2 DEF FileRead, Targeted
    <2> QED BY <1>0, <1>1, <2>1, <2>2, RowsKept, TargetedKept DEF FileRead, Hold, TypeOK, Targeted
  <1>2. ASSUME NEW r \in Requests, FileWrite(r)
         PROVE  RowsWhole' /\ RequestsTargeted' /\ ClaimWellFormed' /\ FiledHasTask'
    <2>1. req[r] \in Filings BY <1>0, <1>2 DEF FileWrite, TypeOK, RequestStates, Idle, Synced, Filings, Moves, Tickings, Syncs, Backfills
    <2>2. PICK s \in Slots : s = req[r].slot BY <2>1 DEF Filings
    <2>3. item[s] \in Items /\ task[s] \in Tasks BY <1>0 DEF TypeOK
    <2>4. item[s].exists /\ (Level[s] # "NONE" => task[s].exists)
      BY <1>0, <1>2, <2>2 DEF FileWrite, RequestsTargeted, Targeted
    <2>5. /\ item'[s].exists /\ item'[s].status = "COMPLETED" /\ item'[s].completed
          /\ \A x \in Slots \ {s} : item'[x] = item[x] /\ task'[x] = task[x]
          /\ task'[s] = InStep(task[s], "COMPLETED") /\ UNCHANGED docs
      BY <1>0, <1>2, <2>2, <2>3, <2>4 DEF FileWrite, TypeOK, Items
    <2>6. task'[s].exists = task[s].exists /\ (~task[s].exists => task'[s] = task[s])
      BY <2>3, <2>5 DEF InStep, Tasks
    <2>7. RowsWhole' BY <1>0, <2>4, <2>5, <2>6 DEF RowsWhole
    <2>8. ClaimWellFormed' BY <1>0, <2>5 DEF ClaimWellFormed
    <2>9. FiledHasTask' BY <1>0, <2>4, <2>5, <2>6 DEF FiledHasTask
    <2>10. \A x \in Requests : req'[x] = req[x] \/ req'[x] = Idle
      BY <1>0, <1>2 DEF FileWrite, Hold, TypeOK
    <2>11. \A x \in Requests : req'[x] = req[x] \/ Targeted(req[x])'
      BY <2>10 DEF Targeted, Idle
    <2>12. RequestsTargeted' BY <1>0, <2>4, <2>5, <2>6, <2>11, TargetedKept
    <2> QED BY <2>7, <2>8, <2>9, <2>12
  <1>3. ASSUME NEW r \in Requests, NEW s \in Slots, SetStatus(r, s)
         PROVE  RowsWhole' /\ RequestsTargeted' /\ ClaimWellFormed' /\ FiledHasTask'
    <2>1. PICK status \in OpenStatuses \cup {"WAIVED"} :
            /\ item' = [item EXCEPT ![s] = Unfiled(@, status)]
            /\ task' = [task EXCEPT ![s] = InStep(@, status)]
      BY <1>3 DEF SetStatus
    <2>3. item[s] \in Items /\ task[s] \in Tasks /\ item[s].exists
      BY <1>0, <1>3 DEF TypeOK, SetStatus
    <2>5. /\ item'[s] = Unfiled(item[s], status) /\ task'[s] = InStep(task[s], status)
          /\ \A x \in Slots \ {s} : item'[x] = item[x] /\ task'[x] = task[x]
          /\ UNCHANGED <<docs, req>>
      BY <1>0, <1>3, <2>1 DEF SetStatus, TypeOK
    <2>6. task'[s].exists = task[s].exists /\ (~task[s].exists => task'[s] = task[s])
      BY <2>3, <2>5 DEF InStep, Tasks
    <2>7. item'[s] \in {i \in Items : /\ i.exists /\ i.status # "COMPLETED"
                                     /\ ~i.completed /\ ~i.attested /\ ~i.signed}
      BY <2>1, <2>3, <2>5, UnfiledRow
    <2>8. RowsWhole' BY <1>0, <2>5, <2>6, <2>7 DEF RowsWhole
    <2>9. ClaimWellFormed' BY <1>0, <2>5, <2>7 DEF ClaimWellFormed
    <2>10. FiledHasTask' BY <1>0, <2>5, <2>7 DEF FiledHasTask
    <2>11. RequestsTargeted' BY <1>0, <2>5, <2>6, <2>7, TargetedKept
    <2> QED BY <2>8, <2>9, <2>10, <2>11
  <1>4. ASSUME NEW r \in Requests, NEW s \in Slots, MoveRead(r, s)
         PROVE  RowsWhole' /\ RequestsTargeted' /\ ClaimWellFormed' /\ FiledHasTask'
    <2>1. RowsWhole' /\ ClaimWellFormed' /\ FiledHasTask'
      BY <1>0, <1>4, RowsKept DEF MoveRead
    <2>2. PICK to \in TaskMoves :
            req' = [req EXCEPT ![r] = [kind |-> "move", slot |-> s,
                                       was |-> task[s].status, to |-> to]]
      BY <1>4 DEF MoveRead, Hold
    <2>3. \A x \in Requests : req'[x] = req[x] \/ Targeted(req[x])'
      BY <1>0, <1>4, <2>2 DEF MoveRead, Targeted, TypeOK
    <2>4. RequestsTargeted' BY <1>0, <1>4, <2>3, TargetedKept DEF MoveRead
    <2> QED BY <2>1, <2>4
  <1>5. ASSUME NEW r \in Requests, MoveWrite(r)
         PROVE  RowsWhole' /\ RequestsTargeted' /\ ClaimWellFormed' /\ FiledHasTask'
    <2>1. req[r] \in Moves BY <1>0, <1>5 DEF MoveWrite, TypeOK, RequestStates, Idle, Synced, Filings, Moves, Tickings, Syncs, Backfills
    <2>2. PICK s \in Slots : s = req[r].slot BY <2>1 DEF Moves
    <2>3. item[s] \in Items /\ task[s] \in Tasks /\ task[s].exists /\ item[s].exists
      BY <1>0, <1>5, <2>2 DEF MoveWrite, RequestsTargeted, Targeted, TypeOK, RowsWhole
    <2>4. /\ task'[s] = Moved(task[s], req[r].was, req[r].to)
          /\ item'[s] = item[s] \/ item'[s] = Unfiled(item[s], Derive(item[s].due, today))
          /\ \A x \in Slots \ {s} : item'[x] = item[x] /\ task'[x] = task[x]
          /\ UNCHANGED docs
      BY <1>0, <1>5, <2>2 DEF MoveWrite, TypeOK
    <2>5. task'[s].exists BY <2>3, <2>4 DEF Moved, Tasks
    <2>6. Unfiled(item[s], Derive(item[s].due, today)) \in
            {i \in Items : /\ i.exists /\ i.status # "COMPLETED"
                           /\ ~i.completed /\ ~i.attested /\ ~i.signed}
      BY <2>3, DeriveOpen, UnfiledRow
    <2>7. RowsWhole' BY <1>0, <2>3, <2>4, <2>5, <2>6 DEF RowsWhole
    <2>8. ClaimWellFormed' BY <1>0, <2>4, <2>6 DEF ClaimWellFormed, Settled
    <2>9. FiledHasTask' BY <1>0, <2>4, <2>5 DEF FiledHasTask
    <2>10. \A x \in Requests : req'[x] = req[x] \/ Targeted(req[x])'
      BY <1>0, <1>5 DEF MoveWrite, Hold, TypeOK, Targeted, Idle
    <2>11. RequestsTargeted' BY <1>0, <2>3, <2>4, <2>5, <2>6, <2>10, TargetedKept
    <2> QED BY <2>7, <2>8, <2>9, <2>11
  <1>6. ASSUME NEW r \in Requests, NEW s \in Slots, Assign(r, s)
         PROVE  RowsWhole' /\ RequestsTargeted' /\ ClaimWellFormed' /\ FiledHasTask'
    <2>1. PICK who \in BOOLEAN : task' = [task EXCEPT ![s].assigned = who]
      BY <1>6 DEF Assign
    <2>2. task[s] \in Tasks BY <1>0 DEF TypeOK
    <2>3. task'[s].exists BY <1>0, <1>6, <2>1, <2>2 DEF Assign, TypeOK, Tasks
    <2> QED BY <1>0, <1>6, <2>1, <2>3, OneTaskKept DEF Assign, TypeOK
  <1>7. ASSUME NEW r \in Requests, NEW s \in Slots, ReplaceChecklist(r, s)
         PROVE  RowsWhole' /\ RequestsTargeted' /\ ClaimWellFormed' /\ FiledHasTask'
    <2>1. PICK listed \in SUBSET Entries : \E ticked \in SUBSET listed :
            task' = [task EXCEPT ![s] = Relisted(@, listed, ticked)]
      BY <1>7 DEF ReplaceChecklist
    <2>2. task[s] \in Tasks BY <1>0 DEF TypeOK
    <2>3. task'[s].exists BY <1>0, <1>7, <2>1, <2>2 DEF ReplaceChecklist, Relisted, TypeOK, Tasks
    <2> QED BY <1>0, <1>7, <2>1, <2>3, OneTaskKept DEF ReplaceChecklist, TypeOK
  <1>8. ASSUME NEW r \in Requests, NEW s \in Slots, TickRead(r, s)
         PROVE  RowsWhole' /\ RequestsTargeted' /\ ClaimWellFormed' /\ FiledHasTask'
    <2>1. RowsWhole' /\ ClaimWellFormed' /\ FiledHasTask'
      BY <1>0, <1>8, RowsKept DEF TickRead
    <2>2. PICK e \in task[s].listed, done \in BOOLEAN :
            req' = [req EXCEPT ![r] =
              [kind |-> "tick", slot |-> s, listed |-> task[s].listed,
               ticked |-> IF done THEN task[s].ticked \cup {e} ELSE task[s].ticked \ {e}]]
      BY <1>8 DEF TickRead, Hold
    <2>3. \A x \in Requests : req'[x] = req[x] \/ Targeted(req[x])'
      BY <1>0, <1>8, <2>2 DEF TickRead, Targeted, TypeOK
    <2>4. RequestsTargeted' BY <1>0, <1>8, <2>3, TargetedKept DEF TickRead
    <2> QED BY <2>1, <2>4
  <1>9. ASSUME NEW r \in Requests, TickWrite(r)
         PROVE  RowsWhole' /\ RequestsTargeted' /\ ClaimWellFormed' /\ FiledHasTask'
    <2>1. req[r] \in Tickings BY <1>0, <1>9 DEF TickWrite, TypeOK, RequestStates, Idle, Synced, Filings, Moves, Tickings, Syncs, Backfills
    <2>2. PICK s \in Slots : s = req[r].slot BY <2>1 DEF Tickings
    <2>3. task[s] \in Tasks /\ task[s].exists
      BY <1>0, <1>9, <2>2 DEF TickWrite, RequestsTargeted, Targeted, TypeOK
    <2>4. task'[s].exists
      BY <1>0, <1>9, <2>2, <2>3 DEF TickWrite, Relisted, TypeOK, Tasks
    <2>5. \A x \in Requests : req'[x] = req[x] \/ Targeted(req[x])'
      BY <1>0, <1>9 DEF TickWrite, Hold, TypeOK, Targeted, Idle
    <2>6. (\A x \in Slots \ {s} : task'[x] = task[x]) /\ UNCHANGED <<item, docs>>
      BY <1>0, <1>9, <2>2 DEF TickWrite, TypeOK
    <2> QED BY <1>0, <2>3, <2>4, <2>5, <2>6, OneTaskKept
  <1>10. ASSUME NEW r \in Requests, NEW s \in Slots, AttachDocument(r, s) \/ RemoveDocument(r, s)
         PROVE  RowsWhole' /\ RequestsTargeted' /\ ClaimWellFormed' /\ FiledHasTask'
    <2>1. item[s].exists BY <1>0, <1>10 DEF AttachDocument, RemoveDocument, RowsWhole
    <2>2. (\A x \in Slots \ {s} : docs'[x] = docs[x]) /\ UNCHANGED <<item, task, req>>
      BY <1>0, <1>10 DEF AttachDocument, RemoveDocument, TypeOK
    <2>3. RowsWhole' BY <1>0, <2>1, <2>2 DEF RowsWhole
    <2>4. ClaimWellFormed' /\ FiledHasTask' BY <1>0, <2>2 DEF ClaimWellFormed, FiledHasTask
    <2>5. RequestsTargeted' BY <1>0, <2>2, TargetedKept
    <2> QED BY <2>3, <2>4, <2>5
  <1>11. ASSUME NEW r \in Requests, SyncRead(r)
         PROVE  RowsWhole' /\ RequestsTargeted' /\ ClaimWellFormed' /\ FiledHasTask'
    <2>1. RowsWhole' /\ ClaimWellFormed' /\ FiledHasTask'
      BY <1>0, <1>11, RowsKept DEF SyncRead
    <2>2. PICK reworded \in [Slots -> Rewordings] :
            req' = [req EXCEPT ![r] =
              [kind |-> "sync", plan |-> [s \in Slots |-> PlanFor(s, reworded[s])]]]
      BY <1>11 DEF SyncRead, Hold
    <2>3. \A s \in Slots : PlanFor(s, reworded[s]).op = "update" => item[s].exists
      BY DEF PlanFor, Found, Skip
    <2>4. \A x \in Requests : req'[x] = req[x] \/ Targeted(req[x])'
      BY <1>0, <1>11, <2>2, <2>3 DEF SyncRead, Targeted, TypeOK
    <2>5. RequestsTargeted' BY <1>0, <1>11, <2>4, TargetedKept DEF SyncRead
    <2> QED BY <2>1, <2>5
  <1>12. ASSUME NEW r \in Requests, SyncWrite(r)
         PROVE  RowsWhole' /\ RequestsTargeted' /\ ClaimWellFormed' /\ FiledHasTask'
    <2> DEFINE plan == req[r].plan
               gone == {s \in Slots : plan[s].op = "withdraw"}
    <2>1. req[r] \in Syncs BY <1>0, <1>12 DEF SyncWrite, TypeOK, RequestStates, Idle, Synced, Filings, Moves, Tickings, Syncs, Backfills
    <2>2. plan \in [Slots -> Plans] BY <2>1 DEF Syncs
    <2>3. \A s \in Slots : /\ item'[s] = SyncedItem(item[s], plan[s])
                           /\ task'[s] = SyncedTask(task[s], plan[s])
                           /\ docs'[s] = IF s \in gone THEN 0 ELSE docs[s]
      BY <1>12 DEF SyncWrite
    <2>4. \A s \in Slots : plan[s].op = "update" => item[s].exists
      BY <1>0, <1>12 DEF SyncWrite, RequestsTargeted, Targeted
    <2>5. \A s \in Slots : SyncedWhole(s, plan[s])
      BY <1>0, <2>2, <2>3, <2>4, SyncedRows
    <2>6. RowsWhole' BY <2>5 DEF SyncedWhole, RowsWhole
    <2>7. ClaimWellFormed' BY <2>5 DEF SyncedWhole, ClaimWellFormed
    <2>8. FiledHasTask' BY <2>5 DEF SyncedWhole, FiledHasTask
    <2>9. \A s \in Slots \ gone : /\ item[s].exists => item'[s].exists
                                  /\ task[s].exists => task'[s].exists
      BY <2>5 DEF SyncedWhole
    <2>10. \A x \in Requests : req'[x] = Synced \/ req'[x] = After(req[x], gone)
      BY <1>12 DEF SyncWrite
    <2>11. RequestsTargeted' BY <1>0, <2>9, <2>10, SyncedTargets
    <2> QED BY <2>6, <2>7, <2>8, <2>11
  <1>13. ASSUME NEW r \in Requests, BackfillRead(r)
         PROVE  RowsWhole' /\ RequestsTargeted' /\ ClaimWellFormed' /\ FiledHasTask'
    <2>1. RowsWhole' /\ ClaimWellFormed' /\ FiledHasTask'
      BY <1>0, <1>13, RowsKept DEF BackfillRead
    <2> DEFINE missing == {s \in Slots : item[s].exists /\ ~task[s].exists}
               found == [kind |-> "backfill", missing |-> missing,
                         due |-> [s \in Slots |-> IF s \in missing THEN item[s].due ELSE NoDue]]
    <2>a. Hold(r, Idle) \/ Hold(r, found) BY <1>13 DEF BackfillRead
    <2>b. \A x \in Requests : req'[x] = req[x] \/ req'[x] \in {Idle, found}
      BY <1>0, <2>a DEF Hold, TypeOK
    <2>c. UNCHANGED <<item, task>> BY <1>13 DEF BackfillRead
    <2>d. \A x \in Requests : req'[x] = found => Targeted(req[x])'
      BY <2>c DEF Targeted
    <2>3. \A x \in Requests : req'[x] = req[x] \/ Targeted(req[x])'
      BY <2>b, <2>d DEF Targeted, Idle
    <2>4. RequestsTargeted' BY <1>0, <1>13, <2>3, TargetedKept DEF BackfillRead
    <2> QED BY <2>1, <2>4
  <1>14. ASSUME NEW r \in Requests, BackfillWrite(r)
         PROVE  RowsWhole' /\ RequestsTargeted' /\ ClaimWellFormed' /\ FiledHasTask'
    <2>1. \A s \in Slots : task'[s] = task[s]
                           \/ (item[s].exists /\ ~task[s].exists /\ task'[s].exists)
      BY <1>0, <1>14 DEF BackfillWrite, RequestsTargeted, Targeted, NewTask
    <2>2. UNCHANGED <<item, docs>> BY <1>14 DEF BackfillWrite
    <2>3. RowsWhole' BY <1>0, <2>1, <2>2 DEF RowsWhole
    <2>4. ClaimWellFormed' /\ FiledHasTask'
      BY <1>0, <2>1, <2>2 DEF ClaimWellFormed, FiledHasTask
    <2>5. \A x \in Requests : req'[x] = req[x] \/ Targeted(req[x])'
      BY <1>0, <1>14 DEF BackfillWrite, Hold, TypeOK, Targeted, Idle
    <2>6. RequestsTargeted' BY <1>0, <2>1, <2>2, <2>5, TargetedKept
    <2> QED BY <2>3, <2>4, <2>6
  <1>15. ASSUME NEW r \in Requests, Abandon(r)
         PROVE  RowsWhole' /\ RequestsTargeted' /\ ClaimWellFormed' /\ FiledHasTask'
    <2>1. \A x \in Requests : req'[x] = req[x] \/ Targeted(req[x])'
      BY <1>0, <1>15 DEF Abandon, Hold, TypeOK, Targeted, Idle
    <2> QED BY <1>0, <1>15, <2>1, RowsKept, TargetedKept DEF Abandon
  <1>16. ASSUME RefreshStatuses
         PROVE  RowsWhole' /\ RequestsTargeted' /\ ClaimWellFormed' /\ FiledHasTask'
    <2>1. \A s \in Slots :
            \/ item'[s] = item[s]
            \/ Open(s) /\ item'[s] = [item[s] EXCEPT !.status = Derive(item[s].due, today)]
      BY <1>16 DEF RefreshStatuses
    <2>2. UNCHANGED <<task, docs, req>> BY <1>16 DEF RefreshStatuses
    <2>3. \A s \in Slots : item[s] \in Items BY <1>0 DEF TypeOK
    <2>a. \A i \in Items, status \in OpenStatuses : \A j :
            j = [i EXCEPT !.status = status] =>
              /\ j.status = status
              /\ j.exists <=> i.exists
              /\ j.completed <=> i.completed
              /\ j.attested <=> i.attested
              /\ j.signed <=> i.signed
      BY DEF Items
    <2>b. \A s \in Slots : Derive(item[s].due, today) \in OpenStatuses BY DeriveOpen
    <2>4. \A s \in Slots :
            \/ item'[s] = item[s]
            \/ /\ item[s].exists /\ item'[s].exists
               /\ item'[s].status \in OpenStatuses
               /\ item'[s].completed <=> item[s].completed
               /\ item'[s].attested <=> item[s].attested
               /\ item'[s].signed <=> item[s].signed
      <3>1. ASSUME NEW s \in Slots, Open(s),
                   item'[s] = [item[s] EXCEPT !.status = Derive(item[s].due, today)]
            PROVE  /\ item'[s].status = Derive(item[s].due, today)
                   /\ item'[s].exists <=> item[s].exists
                   /\ item'[s].completed <=> item[s].completed
                   /\ item'[s].attested <=> item[s].attested
                   /\ item'[s].signed <=> item[s].signed
        BY <3>1, <2>3, <2>a, <2>b
      <3> QED BY <2>1, <2>b, <3>1 DEF Open
    <2>5. RowsWhole' BY <1>0, <2>2, <2>4 DEF RowsWhole
    <2>6. ClaimWellFormed' /\ FiledHasTask'
      BY <1>0, <2>2, <2>4 DEF ClaimWellFormed, FiledHasTask, OpenStatuses
    <2>7. RequestsTargeted' BY <1>0, <2>2, <2>4, TargetedKept
    <2> QED BY <2>5, <2>6, <2>7
  <1>17. ASSUME UNCHANGED <<item, task, docs, req>>
         PROVE  RowsWhole' /\ RequestsTargeted' /\ ClaimWellFormed' /\ FiledHasTask'
    BY <1>0, <1>17, RowsKept, TargetedKept
  <1>18. (\E s \in Slots : RuleChange(s)) \/ NextDay \/ UNCHANGED vars
           => UNCHANGED <<item, task, docs, req>>
    BY DEF RuleChange, NextDay, vars
  <1> QED
    BY <1>1, <1>2, <1>3, <1>4, <1>5, <1>6, <1>7, <1>8, <1>9, <1>10, <1>11, <1>12, <1>13,
       <1>14, <1>15, <1>16, <1>17, <1>18 DEF Next, Request

\* The empty tables satisfy OverlapInv.
LEMMA InitOverlap == ASSUME ObligationsAssumption, Init PROVE OverlapInv
  <1>1. TypeOK BY InitType
  <1>2. RowsWhole /\ ClaimWellFormed /\ FiledHasTask
    BY DEF Init, RowsWhole, ClaimWellFormed, FiledHasTask, NoItem, NoTask
  <1>3. RequestsTargeted BY DEF Init, RequestsTargeted, Targeted, Idle
  <1> QED BY <1>1, <1>2, <1>3 DEF OverlapInv

\* However many requests overlap: the columns of a claim agree, and what was
\* filed through the gate has its task.
THEOREM OverlapSafe == Spec => [](ClaimWellFormed /\ FiledHasTask)
  <1> USE ObligationsAssumption
  <1>1. Init => OverlapInv BY InitOverlap
  <1>2. OverlapInv /\ [Next]_vars => OverlapInv' BY OverlapStep
  <1>3. OverlapInv => ClaimWellFormed /\ FiledHasTask BY DEF OverlapInv
  <1> QED BY <1>1, <1>2, <1>3, PTL DEF Spec

\* However many requests overlap, no sync brings back the status of a claim
\* whose columns are gone, and no claim is left half cleared.
THEOREM ClaimsWhole == Spec => []ClaimWellFormed
  <1> QED BY OverlapSafe, PTL

-----------------------------------------------------------------------------
(* Requests served one after the other. *)

\* What SerialInv says of the rows of one slot.
SlotAgrees(s) ==
  /\ task[s].ticked \subseteq task[s].listed
  /\ item[s].completed => item[s].status = "COMPLETED"
  /\ item[s].status = "COMPLETED" /\ Level[s] # "NONE" =>
       task[s].exists /\ task[s].status = "DONE"
  /\ task[s].completed <=> task[s].status = "DONE"
  /\ task[s].exists => task[s].due = item[s].due

\* SerialInv, slot by slot.
LEMMA SerialParts ==
  SerialInv <=> OverlapInv /\ ReadsCurrent /\ \A s \in Slots : SlotAgrees(s)
  BY DEF SerialInv, SlotAgrees, TicksListed, ClaimOnlyWhileFiled, FiledWorkDone, WorkStamped,
         DeadlinesAgree

\* A request that has read nothing has read nothing stale.
LEMMA RestingCurrent ==
  ASSUME \A x \in Requests : req'[x].kind \in {"idle", "synced"}
  PROVE  ReadsCurrent'
  BY DEF ReadsCurrent, Current

\* With one request at a time nobody else is in flight when one is free or done.
LEMMA AloneFree ==
  ASSUME OneAtATime, NEW r \in Requests, Free(r), UNCHANGED req
  PROVE  ReadsCurrent'
  <1>1. \A x \in Requests : x = r BY DEF OneAtATime
  <1> QED BY <1>1, RestingCurrent DEF Free

\* With one request at a time, one that is done leaves no stale reads behind.
LEMMA AloneDone ==
  ASSUME OneAtATime, TypeOK, NEW r \in Requests, Hold(r, Idle)
  PROVE  ReadsCurrent'
  <1>1. \A x \in Requests : x = r BY DEF OneAtATime
  <1>2. \A x \in Requests : req'[x] = Idle BY <1>1 DEF Hold, TypeOK
  <1> QED BY <1>2, RestingCurrent DEF Idle

\* What a request holds on to is current if the step that reads it says so.
LEMMA AloneHolds ==
  ASSUME OneAtATime, TypeOK, NEW r \in Requests, NEW q, Hold(r, q), Current(req[r])'
  PROVE  ReadsCurrent'
  <1>1. \A x \in Requests : x = r BY DEF OneAtATime
  <1> QED BY <1>1 DEF ReadsCurrent

\* Slots agree as long as items and tasks stay as they are.
LEMMA SameSlots ==
  ASSUME \A s \in Slots : SlotAgrees(s), UNCHANGED <<item, task>>
  PROVE  \A s \in Slots : SlotAgrees(s)'
  BY DEF SlotAgrees

\* What the gate lets through, it has reason to.
LEMMA GateReady ==
  ASSUME ObligationsAssumption, TypeOK, NEW s \in Slots,
         NEW attestation \in Texts, NEW sent \in Texts \cup {"absent"},
         Allowed(GateInput(s, attestation, sent)), Level[s] # "NONE"
  PROVE  /\ task[s].assigned
         /\ task[s].listed \subseteq task[s].ticked
         /\ task[s].status = "DONE"
         /\ docs[s] > 0 \/ (Level[s] = "ATTEST" /\ attestation # "blank")
         /\ NeedsSigner[s] /\ docs[s] > 0 => Signatory(s, sent) = "ok"
  <1> DEFINE in == GateInput(s, attestation, sent)
  <1>1. /\ in.level = Level[s] /\ in.assigned = task[s].assigned
        /\ in.taskStatus = task[s].status /\ in.signatoryRequired = NeedsSigner[s]
        /\ in.attestation = attestation /\ in.signatory = Signatory(s, sent)
    BY DEF GateInput
  <1>2. in.outstanding <=> task[s].listed \ task[s].ticked # {} BY DEF GateInput
  <1>3. in.documents <=> docs[s] > 0 BY DEF GateInput
  <1>4. Level[s] \in EvidenceLevels BY DEF ObligationsAssumption
  <1>5. Signatory(s, sent) \in Texts BY DEF Signatory, Texts
  <1> HIDE DEF in
  <1>6. /\ ~Unassigned(in) /\ ~ChecklistIncomplete(in) /\ ~EvidenceRequired(in)
        /\ ~AttestationMissing(in) /\ ~TaskNotDone(in) /\ ~SignatoryMissing(in)
    BY DEF Allowed, in
  <1>7. task[s].assigned /\ task[s].status = "DONE"
    BY <1>1, <1>6 DEF Unassigned, TaskNotDone, Gated
  <1>8. task[s].listed \subseteq task[s].ticked
    BY <1>1, <1>2, <1>6 DEF ChecklistIncomplete, Gated
  <1>9. docs[s] > 0 \/ (Level[s] = "ATTEST" /\ attestation # "blank")
    BY <1>1, <1>3, <1>4, <1>6 DEF EvidenceRequired, AttestationMissing, EvidenceLevels
  <1>10. NeedsSigner[s] /\ docs[s] > 0 => Signatory(s, sent) = "ok"
    BY <1>1, <1>3, <1>5, <1>6 DEF SignatoryMissing, Texts
  <1> QED BY <1>7, <1>8, <1>9, <1>10

\* A checklist is rewritten whole, ticks within its entries.
LEMMA RelistedAgrees ==
  ASSUME TypeOK, \A x \in Slots : SlotAgrees(x), NEW s \in Slots,
         NEW listed \in SUBSET Entries, NEW ticked \in SUBSET listed,
         task' = [task EXCEPT ![s] = Relisted(@, listed, ticked)],
         \A x \in Slots : item'[x] = item[x]
  PROVE  \A x \in Slots : SlotAgrees(x)'
  <1>1. task[s] \in Tasks BY DEF TypeOK
  <1>2. task'[s] = Relisted(task[s], listed, ticked) /\ \A x \in Slots \ {s} : task'[x] = task[x]
    BY DEF TypeOK
  <1>3. /\ task'[s].exists <=> task[s].exists
        /\ task'[s].status = task[s].status
        /\ task'[s].completed <=> task[s].completed
        /\ task'[s].due = task[s].due
        /\ task'[s].listed = listed
        /\ task'[s].ticked = ticked
    <2>1. [task[s] EXCEPT !.listed = listed, !.ticked = ticked] \in
            {w \in Tasks : /\ w.exists = task[s].exists /\ w.status = task[s].status
                          /\ w.completed = task[s].completed /\ w.due = task[s].due
                          /\ w.listed = listed /\ w.ticked = ticked}
      BY <1>1 DEF Tasks
    <2> QED BY <1>2, <2>1 DEF Relisted
  <1> QED BY <1>2, <1>3 DEF SlotAgrees

\* The plan a sync makes fits the rows it was made from.
LEMMA PlanRight ==
  ASSUME TypeOK, NEW s \in Slots, NEW reworded \in Rewordings
  PROVE  PlanStands(s, PlanFor(s, reworded))
  <1>1. \A due, day : Derive(due, day) # "KEEP" BY DeriveOpen DEF OpenStatuses
  <1>2. CASE Produced(s) /\ ~Found(s) BY <1>2 DEF PlanFor, PlanStands
  <1>3. CASE Produced(s) /\ Found(s) /\ (item[s].due # rule[s] \/ reworded # "none")
    BY <1>1, <1>3 DEF PlanFor, PlanStands
  <1>4. CASE Withdrawable(s) BY <1>4 DEF PlanFor, PlanStands, Withdrawable
  <1>5. CASE /\ ~(Produced(s) /\ ~Found(s))
             /\ ~(Produced(s) /\ (item[s].due # rule[s] \/ reworded # "none"))
             /\ ~Withdrawable(s)
    BY <1>5 DEF PlanFor, PlanStands, Skip
  <1> QED BY <1>2, <1>3, <1>4, <1>5

\* A plan that fits the rows leaves rows that agree.
LEMMA SyncedAgrees ==
  ASSUME TypeOK, RowsWhole, NEW s \in Slots, SlotAgrees(s), NEW p \in Plans, PlanStands(s, p),
         item'[s] = SyncedItem(item[s], p), task'[s] = SyncedTask(task[s], p),
         p.op = "update" => item[s].exists
  PROVE  SlotAgrees(s)'
  <1>1. item[s] \in Items /\ task[s] \in Tasks BY DEF TypeOK
  <1>2. CASE p.op = "withdraw"
    BY <1>2 DEF SlotAgrees, SyncedItem, SyncedTask, NoItem, NoTask
  <1>3. CASE p.op = "update"
    <2>1. item'[s] = Updated(item[s], p) /\ task'[s] = Retimed(task[s], p)
      BY <1>3 DEF SyncedItem, SyncedTask
    <2>2. /\ item'[s].completed <=> item[s].completed
          /\ item'[s].due = p.due
          /\ item'[s].status = IF p.status = "KEEP" THEN item[s].status ELSE p.status
      BY <1>1, <2>1 DEF Updated, Items
    <2>3. /\ task'[s].exists <=> task[s].exists
          /\ task'[s].status = task[s].status
          /\ task'[s].completed <=> task[s].completed
          /\ task'[s].listed = task[s].listed
          /\ task'[s].ticked = task[s].ticked
          /\ task[s].exists => task'[s].due = IF p.moved THEN p.due ELSE task[s].due
      BY <1>1, <2>1 DEF Retimed, Tasks
    <2>4. p.status # "KEEP" => p.status \in OpenStatuses /\ item[s].status \notin Settled
      BY <1>3 DEF PlanStands, Plans
    <2>5. task[s].exists => task'[s].due = item'[s].due
      BY <1>3, <2>2, <2>3 DEF PlanStands, SlotAgrees
    <2> QED BY <2>2, <2>3, <2>4, <2>5 DEF SlotAgrees, OpenStatuses, Settled
  <1>4. CASE p.op = "create"
    <2>1. /\ item'[s] = IF item[s].exists THEN item[s] ELSE NewItem(p.due, p.status)
          /\ task'[s] = task[s]
      BY <1>4 DEF SyncedItem, SyncedTask
    <2>2. p.status \in OpenStatuses BY <1>4 DEF Plans
    <2> QED BY <2>1, <2>2 DEF SlotAgrees, NewItem, RowsWhole, OpenStatuses
  <1>5. CASE p.op = "skip"
    BY <1>5 DEF SyncedItem, SyncedTask, SlotAgrees
  <1> QED BY <1>2, <1>3, <1>4, <1>5 DEF Plans

\* Showing an open obligation in another open status disturbs nothing anybody
\* has read, a plan to update or withdraw it included.
LEMMA RefreshAgrees ==
  ASSUME TypeOK, RequestsTargeted, ReadsCurrent, \A x \in Slots : SlotAgrees(x), RefreshStatuses
  PROVE  (\A x \in Slots : SlotAgrees(x)') /\ ReadsCurrent'
  <1>1. \A s \in Slots :
          \/ item'[s] = item[s]
          \/ Open(s) /\ item'[s] = [item[s] EXCEPT !.status = Derive(item[s].due, today)]
    BY DEF RefreshStatuses
  <1>2. UNCHANGED <<task, docs, req>> BY DEF RefreshStatuses
  <1>3. ASSUME NEW s \in Slots
        PROVE  /\ item'[s].exists <=> item[s].exists
               /\ item'[s].completed <=> item[s].completed
               /\ item'[s].due = item[s].due
               /\ item'[s].status = item[s].status
                    \/ (item[s].status \in OpenStatuses /\ item'[s].status \in OpenStatuses)
    <2>1. item[s] \in Items /\ Derive(item[s].due, today) \in OpenStatuses
      BY DeriveOpen DEF TypeOK
    <2>2. CASE item'[s] = item[s] BY <2>2
    <2>3. CASE Open(s) /\ item'[s] = [item[s] EXCEPT !.status = Derive(item[s].due, today)]
      BY <2>1, <2>3 DEF Open, Items
    <2> QED BY <1>1, <2>2, <2>3
  <1>4. \A s \in Slots : SlotAgrees(s)' BY <1>2, <1>3 DEF SlotAgrees, OpenStatuses
  <1>5. ASSUME NEW s \in Slots, NEW p \in Plans, PlanStands(s, p)
        PROVE  /\ p.op = "withdraw" => /\ item'[s].exists /\ item'[s].status \in OpenStatuses
                                       /\ ~item'[s].completed /\ docs'[s] = 0
               /\ p.op = "update" => /\ p.status = "KEEP" <=> item'[s].status \in Settled
                                     /\ item'[s].due # p.due => p.moved
    BY <1>2, <1>3, <1>5 DEF PlanStands, Open, OpenStatuses, Settled
  <1>6. ASSUME NEW x \in Requests PROVE Current(req[x])'
    <2>1. Current(req[x]) /\ req[x] \in RequestStates /\ req'[x] = req[x]
      BY <1>2 DEF ReadsCurrent, TypeOK
    <2>2. CASE req[x] \in Syncs
      <3>1. \A s \in Slots : req[x].plan[s] \in Plans /\ PlanStands(s, req[x].plan[s])
        BY <2>1, <2>2 DEF Syncs, Current
      <3>2. \A s \in Slots : PlanStands(s, req[x].plan[s])'
        BY <1>5, <2>1, <3>1 DEF PlanStands, Open
      <3> QED BY <2>1, <2>2, <3>2 DEF Current, Syncs
    <2>3. CASE req[x] \in Backfills
      BY <1>3, <2>1, <2>3 DEF Current, Backfills
    <2>4. CASE req[x] \in Filings
      BY <1>2, <2>1, <2>4 DEF Current, ReadyWhenRead, Filings
    <2>5. CASE req[x] \in Moves \cup Tickings \cup {Idle, Synced}
      BY <1>2, <2>1, <2>5 DEF Current, Moves, Tickings, Idle, Synced
    <2> QED BY <2>1, <2>2, <2>3, <2>4, <2>5 DEF RequestStates
  <1> QED BY <1>4, <1>6 DEF ReadsCurrent

\* The inductive step of SerialInv: one step of the proof per action.
LEMMA SerialStep ==
  ASSUME ObligationsAssumption, OneAtATime, SerialInv, [Next]_vars
  PROVE  SerialInv'
  <1> USE ObligationsAssumption, OneAtATime
  <1>0. /\ TypeOK /\ RowsWhole /\ RequestsTargeted /\ ClaimWellFormed /\ FiledHasTask
        /\ ReadsCurrent /\ \A x \in Slots : SlotAgrees(x)
    BY SerialParts DEF OverlapInv
  <1>a. OverlapInv' BY OverlapStep DEF SerialInv
  <1>b. SUFFICES (\A x \in Slots : SlotAgrees(x)') /\ ReadsCurrent'
    <2>1. SerialInv' <=> OverlapInv' /\ ReadsCurrent' /\ \A s \in Slots : SlotAgrees(s)'
      BY DEF SerialInv, SlotAgrees, TicksListed, ClaimOnlyWhileFiled, FiledWorkDone, WorkStamped,
             DeadlinesAgree
    <2> QED BY <1>a, <2>1
  <1>1. ASSUME NEW r \in Requests, NEW s \in Slots, FileRead(r, s)
         PROVE  (\A x \in Slots : SlotAgrees(x)') /\ ReadsCurrent'
    <2>1. \A x \in Slots : SlotAgrees(x)' BY <1>0, <1>1, SameSlots DEF FileRead
    <2>2. PICK attestation \in Texts, sent \in Texts \cup {"absent"} :
            /\ Allowed(GateInput(s, attestation, sent))
            /\ Hold(r, [kind |-> "file", slot |-> s, attested |-> attestation # "blank",
                        signed |-> Signatory(s, sent) = "ok"])
      BY <1>1 DEF FileRead
    <2>3. req'[r] = [kind |-> "file", slot |-> s, attested |-> attestation # "blank",
                     signed |-> Signatory(s, sent) = "ok"]
      BY <1>0, <2>2 DEF Hold, TypeOK
    <2>4. /\ req'[r].kind = "file" /\ req'[r].slot = s
          /\ req'[r].attested <=> attestation # "blank"
          /\ req'[r].signed <=> Signatory(s, sent) = "ok"
      <3> DEFINE attested == attestation # "blank"
                 signed == Signatory(s, sent) = "ok"
      <3>1. req'[r] = [kind |-> "file", slot |-> s, attested |-> attested, signed |-> signed]
        BY <2>3
      <3> HIDE DEF attested, signed
      <3>2. /\ req'[r].kind = "file" /\ req'[r].slot = s
            /\ req'[r].attested = attested /\ req'[r].signed = signed
        BY <3>1
      <3> QED BY <3>2 DEF attested, signed
    <2>5. ReadyWhenRead(req[r])'
      BY <1>0, <1>1, <2>2, <2>4, GateReady DEF FileRead, ReadyWhenRead
    <2>6. Current(req[r])' BY <2>4, <2>5 DEF Current
    <2> QED BY <1>0, <2>1, <2>2, <2>6, AloneHolds
  <1>2. ASSUME NEW r \in Requests, FileWrite(r)
         PROVE  (\A x \in Slots : SlotAgrees(x)') /\ ReadsCurrent'
    <2>1. req[r] \in Filings BY <1>0, <1>2 DEF FileWrite, TypeOK, RequestStates, Idle, Synced, Filings, Moves, Tickings, Syncs, Backfills
    <2>2. PICK s \in Slots : s = req[r].slot BY <2>1 DEF Filings
    <2>3. item[s] \in Items /\ task[s] \in Tasks /\ (Level[s] # "NONE" => task[s].exists)
      BY <1>0, <1>2, <2>2 DEF FileWrite, TypeOK, RequestsTargeted, Targeted
    <2>4. /\ item'[s].status = "COMPLETED" /\ item'[s].due = item[s].due
          /\ \A x \in Slots \ {s} : item'[x] = item[x] /\ task'[x] = task[x]
          /\ task'[s] = InStep(task[s], "COMPLETED")
      BY <1>0, <1>2, <2>2, <2>3 DEF FileWrite, TypeOK, Items
    <2>5. CASE task[s].exists
      <3>1. /\ task'[s].status = "DONE" /\ task'[s].completed /\ task'[s].exists
            /\ task'[s].due = task[s].due /\ task'[s].listed = task[s].listed
            /\ task'[s].ticked = task[s].ticked
        BY <2>3, <2>4, <2>5 DEF InStep, Tasks
      <3>a. task[s].ticked \subseteq task[s].listed /\ task[s].due = item[s].due
        BY <1>0, <2>5 DEF SlotAgrees
      <3>2. SlotAgrees(s)' BY <2>4, <3>1, <3>a DEF SlotAgrees
      <3>3. \A x \in Slots \ {s} : SlotAgrees(x)' BY <1>0, <2>4 DEF SlotAgrees
      <3> QED BY <1>0, <1>2, <3>2, <3>3, AloneDone DEF FileWrite
    <2>6. CASE ~task[s].exists
      <3>1. task'[s] = task[s] BY <2>4, <2>6 DEF InStep
      <3>2. SlotAgrees(s)' BY <1>0, <2>3, <2>4, <2>6, <3>1 DEF SlotAgrees
      <3>3. \A x \in Slots \ {s} : SlotAgrees(x)' BY <1>0, <2>4 DEF SlotAgrees
      <3> QED BY <1>0, <1>2, <3>2, <3>3, AloneDone DEF FileWrite
    <2> QED BY <2>5, <2>6
  <1>3. ASSUME NEW r \in Requests, NEW s \in Slots, SetStatus(r, s)
         PROVE  (\A x \in Slots : SlotAgrees(x)') /\ ReadsCurrent'
    <2>1. PICK status \in OpenStatuses \cup {"WAIVED"} :
            /\ item' = [item EXCEPT ![s] = Unfiled(@, status)]
            /\ task' = [task EXCEPT ![s] = InStep(@, status)]
      BY <1>3 DEF SetStatus
    <2>2. item[s] \in Items /\ task[s] \in Tasks /\ item[s].exists
      BY <1>0, <1>3 DEF TypeOK, SetStatus
    <2>3. /\ item'[s] = Unfiled(item[s], status) /\ task'[s] = InStep(task[s], status)
          /\ \A x \in Slots \ {s} : item'[x] = item[x] /\ task'[x] = task[x]
      BY <1>0, <2>1 DEF TypeOK
    <2>4. ~item'[s].completed /\ item'[s].status # "COMPLETED" BY <2>2, <2>3, UnfiledRow
    <2>5. item'[s].due = item[s].due BY <2>2, <2>3 DEF Unfiled, Items
    <2>6. status # "COMPLETED" BY <2>1 DEF OpenStatuses
    <2>7. \/ task'[s] = task[s] /\ ~task[s].exists
          \/ /\ task'[s].status # "DONE" /\ ~task'[s].completed
             /\ task'[s].due = task[s].due /\ task'[s].listed = task[s].listed
             /\ task'[s].ticked = task[s].ticked /\ task[s].exists
      BY <2>2, <2>3, <2>6 DEF InStep, Tasks
    <2>8. SlotAgrees(s)' BY <1>0, <2>3, <2>4, <2>5, <2>7 DEF SlotAgrees
    <2>9. \A x \in Slots \ {s} : SlotAgrees(x)' BY <1>0, <2>3 DEF SlotAgrees
    <2> QED BY <1>3, <2>8, <2>9, AloneFree DEF SetStatus
  <1>4. ASSUME NEW r \in Requests, NEW s \in Slots, MoveRead(r, s)
         PROVE  (\A x \in Slots : SlotAgrees(x)') /\ ReadsCurrent'
    <2>1. \A x \in Slots : SlotAgrees(x)' BY <1>0, <1>4, SameSlots DEF MoveRead
    <2>2. PICK to \in TaskMoves :
            Hold(r, [kind |-> "move", slot |-> s, was |-> task[s].status, to |-> to])
      BY <1>4 DEF MoveRead
    <2>3. req'[r] = [kind |-> "move", slot |-> s, was |-> task[s].status, to |-> to]
      BY <1>0, <2>2 DEF Hold, TypeOK
    <2>4. Current(req[r])' BY <1>4, <2>3 DEF MoveRead, Current
    <2> QED BY <1>0, <2>1, <2>2, <2>4, AloneHolds
  <1>5. ASSUME NEW r \in Requests, MoveWrite(r)
         PROVE  (\A x \in Slots : SlotAgrees(x)') /\ ReadsCurrent'
    <2>1. req[r] \in Moves BY <1>0, <1>5 DEF MoveWrite, TypeOK, RequestStates, Idle, Synced, Filings, Moves, Tickings, Syncs, Backfills
    <2>2. PICK s \in Slots : s = req[r].slot BY <2>1 DEF Moves
    <2>3. /\ item[s] \in Items /\ task[s] \in Tasks /\ task[s].exists /\ item[s].exists
          /\ req[r].was = task[s].status
      BY <1>0, <1>5, <2>2
      DEF MoveWrite, RequestsTargeted, Targeted, TypeOK, RowsWhole, ReadsCurrent, Current
    <2> DEFINE leaving == LeavingDone(req[r].was, req[r].to) /\ item[s].status = "COMPLETED"
    <2>4. /\ task'[s] = Moved(task[s], req[r].was, req[r].to)
          /\ item'[s] = IF leaving THEN Unfiled(item[s], Derive(item[s].due, today)) ELSE item[s]
          /\ \A x \in Slots \ {s} : item'[x] = item[x] /\ task'[x] = task[x]
      BY <1>0, <1>5, <2>2 DEF MoveWrite, TypeOK
    <2>5. /\ task'[s].exists /\ task'[s].status = req[r].to /\ task'[s].due = task[s].due
          /\ task'[s].listed = task[s].listed /\ task'[s].ticked = task[s].ticked
      BY <2>3, <2>4 DEF Moved, Tasks
    <2>6. task'[s].completed <=> BecomingDone(req[r].was, req[r].to)
                                 \/ (task[s].completed /\ ~LeavingDone(req[r].was, req[r].to))
      BY <2>3, <2>4 DEF Moved, Tasks
    <2>7. task'[s].completed <=> task'[s].status = "DONE"
      BY <1>0, <2>3, <2>5, <2>6 DEF SlotAgrees, BecomingDone, LeavingDone
    <2>8. CASE leaving
      <3>1. ~item'[s].completed /\ item'[s].status # "COMPLETED"
        BY <2>3, <2>4, <2>8, DeriveOpen, UnfiledRow
      <3>2. item'[s].due = item[s].due BY <2>3, <2>4, <2>8 DEF Unfiled, Items
      <3>3. SlotAgrees(s)' BY <1>0, <2>5, <2>7, <3>1, <3>2, <2>3 DEF SlotAgrees
      <3>4. \A x \in Slots \ {s} : SlotAgrees(x)' BY <1>0, <2>4 DEF SlotAgrees
      <3> QED BY <1>0, <1>5, <3>3, <3>4, AloneDone DEF MoveWrite
    <2>9. CASE ~leaving
      <3>1. item'[s] = item[s] BY <2>4, <2>9
      <3>2. item[s].status = "COMPLETED" /\ Level[s] # "NONE" => req[r].to = "DONE"
        BY <1>0, <2>3, <2>9 DEF SlotAgrees, LeavingDone
      <3>3. SlotAgrees(s)' BY <1>0, <2>3, <2>5, <2>7, <3>1, <3>2 DEF SlotAgrees
      <3>4. \A x \in Slots \ {s} : SlotAgrees(x)' BY <1>0, <2>4 DEF SlotAgrees
      <3> QED BY <1>0, <1>5, <3>3, <3>4, AloneDone DEF MoveWrite
    <2> QED BY <2>8, <2>9
  <1>6. ASSUME NEW r \in Requests, NEW s \in Slots, Assign(r, s)
         PROVE  (\A x \in Slots : SlotAgrees(x)') /\ ReadsCurrent'
    <2>1. PICK who \in BOOLEAN : task' = [task EXCEPT ![s].assigned = who]
      BY <1>6 DEF Assign
    <2>2. task[s] \in Tasks BY <1>0 DEF TypeOK
    <2>3. /\ \A x \in Slots : item'[x] = item[x]
          /\ \A x \in Slots \ {s} : task'[x] = task[x]
          /\ task'[s] = [task[s] EXCEPT !.assigned = who]
      BY <1>0, <1>6, <2>1 DEF Assign, TypeOK
    <2>4. /\ task'[s].exists <=> task[s].exists
          /\ task'[s].status = task[s].status
          /\ task'[s].completed <=> task[s].completed
          /\ task'[s].due = task[s].due
          /\ task'[s].listed = task[s].listed
          /\ task'[s].ticked = task[s].ticked
      BY <2>2, <2>3 DEF Tasks
    <2> QED BY <1>0, <1>6, <2>3, <2>4, AloneFree DEF SlotAgrees, Assign
  <1>7. ASSUME NEW r \in Requests, NEW s \in Slots, ReplaceChecklist(r, s)
         PROVE  (\A x \in Slots : SlotAgrees(x)') /\ ReadsCurrent'
    <2>1. PICK listed \in SUBSET Entries : \E ticked \in SUBSET listed :
            task' = [task EXCEPT ![s] = Relisted(@, listed, ticked)]
      BY <1>7 DEF ReplaceChecklist
    <2>2. PICK ticked \in SUBSET listed : task' = [task EXCEPT ![s] = Relisted(@, listed, ticked)]
      BY <2>1
    <2>3. (\A x \in Slots : item'[x] = item[x]) /\ UNCHANGED req
      BY <1>7 DEF ReplaceChecklist
    <2>4. \A x \in Slots : SlotAgrees(x)' BY <1>0, <2>2, <2>3, RelistedAgrees
    <2> QED BY <1>7, <2>4, AloneFree DEF ReplaceChecklist
  <1>8. ASSUME NEW r \in Requests, NEW s \in Slots, TickRead(r, s)
         PROVE  (\A x \in Slots : SlotAgrees(x)') /\ ReadsCurrent'
    <2>1. \A x \in Slots : SlotAgrees(x)' BY <1>0, <1>8, SameSlots DEF TickRead
    <2>2. PICK e \in task[s].listed, done \in BOOLEAN :
            Hold(r, [kind |-> "tick", slot |-> s, listed |-> task[s].listed,
                     ticked |-> IF done THEN task[s].ticked \cup {e} ELSE task[s].ticked \ {e}])
      BY <1>8 DEF TickRead
    <2>3. req'[r] = [kind |-> "tick", slot |-> s, listed |-> task[s].listed,
                     ticked |-> IF done THEN task[s].ticked \cup {e} ELSE task[s].ticked \ {e}]
      BY <1>0, <2>2 DEF Hold, TypeOK
    <2>4. req'[r].kind = "tick" /\ req'[r].ticked \subseteq req'[r].listed
      BY <1>0, <2>2, <2>3 DEF SlotAgrees
    <2>5. Current(req[r])' BY <2>4 DEF Current
    <2> QED BY <1>0, <2>1, <2>2, <2>5, AloneHolds
  <1>9. ASSUME NEW r \in Requests, TickWrite(r)
         PROVE  (\A x \in Slots : SlotAgrees(x)') /\ ReadsCurrent'
    <2>1. req[r] \in Tickings BY <1>0, <1>9 DEF TickWrite, TypeOK, RequestStates, Idle, Synced, Filings, Moves, Tickings, Syncs, Backfills
    <2>2. PICK s \in Slots : s = req[r].slot BY <2>1 DEF Tickings
    <2>3. req[r].ticked \in SUBSET req[r].listed /\ req[r].listed \in SUBSET Entries
      BY <1>0, <1>9, <2>1 DEF TickWrite, ReadsCurrent, Current, Tickings
    <2>4. task' = [task EXCEPT ![s] = Relisted(@, req[r].listed, req[r].ticked)]
      BY <1>9, <2>2 DEF TickWrite
    <2>5. \A x \in Slots : item'[x] = item[x] BY <1>9 DEF TickWrite
    <2>a. PICK listed \in SUBSET Entries : listed = req[r].listed BY <2>3
    <2>b. PICK ticked \in SUBSET listed : ticked = req[r].ticked BY <2>3, <2>a
    <2>c. task' = [task EXCEPT ![s] = Relisted(@, listed, ticked)] BY <2>4, <2>a, <2>b
    <2>6. \A x \in Slots : SlotAgrees(x)' BY <1>0, <2>5, <2>c, RelistedAgrees
    <2> QED BY <1>0, <1>9, <2>6, AloneDone DEF TickWrite
  <1>10. ASSUME NEW r \in Requests, NEW s \in Slots, AttachDocument(r, s) \/ RemoveDocument(r, s)
         PROVE  (\A x \in Slots : SlotAgrees(x)') /\ ReadsCurrent'
    <2>1. UNCHANGED <<item, task, req>> /\ Free(r)
      BY <1>10 DEF AttachDocument, RemoveDocument
    <2> QED BY <1>0, <2>1, SameSlots, AloneFree
  <1>11. ASSUME NEW r \in Requests, SyncRead(r)
         PROVE  (\A x \in Slots : SlotAgrees(x)') /\ ReadsCurrent'
    <2>1. \A x \in Slots : SlotAgrees(x)' BY <1>0, <1>11, SameSlots DEF SyncRead
    <2>2. PICK reworded \in [Slots -> Rewordings] :
            Hold(r, [kind |-> "sync", plan |-> [s \in Slots |-> PlanFor(s, reworded[s])]])
      BY <1>11 DEF SyncRead
    <2>3. req'[r] = [kind |-> "sync", plan |-> [s \in Slots |-> PlanFor(s, reworded[s])]]
      BY <1>0, <2>2 DEF Hold, TypeOK
    <2>a. \A s \in Slots : reworded[s] \in Rewordings OBVIOUS
    <2>4. \A s \in Slots : PlanStands(s, PlanFor(s, reworded[s])) BY <1>0, <2>a, PlanRight
    <2>5. req'[r].kind = "sync" /\ \A s \in Slots : PlanStands(s, req'[r].plan[s])
      BY <2>3, <2>4
    <2>6. \A s \in Slots : PlanStands(s, req[r].plan[s])'
      BY <1>11, <2>5 DEF SyncRead, PlanStands, Open
    <2>7. Current(req[r])' BY <2>5, <2>6 DEF Current
    <2> QED BY <1>0, <2>1, <2>2, <2>7, AloneHolds
  <1>12. ASSUME NEW r \in Requests, SyncWrite(r)
         PROVE  (\A x \in Slots : SlotAgrees(x)') /\ ReadsCurrent'
    <2> DEFINE plan == req[r].plan
    <2>1. req[r] \in Syncs BY <1>0, <1>12 DEF SyncWrite, TypeOK, RequestStates, Idle, Synced, Filings, Moves, Tickings, Syncs, Backfills
    <2>2. plan \in [Slots -> Plans] BY <2>1 DEF Syncs
    <2>3. \A s \in Slots : /\ item'[s] = SyncedItem(item[s], plan[s])
                           /\ task'[s] = SyncedTask(task[s], plan[s])
      BY <1>12 DEF SyncWrite
    <2>4. \A s \in Slots : plan[s].op = "update" => item[s].exists
      BY <1>0, <1>12 DEF SyncWrite, RequestsTargeted, Targeted
    <2>5. \A s \in Slots : PlanStands(s, plan[s])
      BY <1>0, <1>12 DEF SyncWrite, ReadsCurrent, Current
    <2>6. \A s \in Slots : SlotAgrees(s)' BY <1>0, <2>2, <2>3, <2>4, <2>5, SyncedAgrees
    <2>7. \A x \in Requests : req'[x] = Synced BY <1>12 DEF SyncWrite, OneAtATime
    <2> QED BY <2>6, <2>7, RestingCurrent DEF Synced
  <1>13. ASSUME NEW r \in Requests, BackfillRead(r)
         PROVE  (\A x \in Slots : SlotAgrees(x)') /\ ReadsCurrent'
    <2>1. \A x \in Slots : SlotAgrees(x)' BY <1>0, <1>13, SameSlots DEF BackfillRead
    <2> DEFINE missing == {s \in Slots : item[s].exists /\ ~task[s].exists}
               found == [kind |-> "backfill", missing |-> missing,
                         due |-> [s \in Slots |-> IF s \in missing THEN item[s].due ELSE NoDue]]
    <2>2. Hold(r, Idle) \/ Hold(r, found) BY <1>13 DEF BackfillRead
    <2>3. CASE Hold(r, Idle) BY <1>0, <2>1, <2>3, AloneDone
    <2>4. CASE Hold(r, found)
      <3>1. req'[r] = found BY <1>0, <2>4 DEF Hold, TypeOK
      <3>2. /\ req'[r].kind = "backfill" /\ req'[r].missing \subseteq Slots
            /\ \A s \in req'[r].missing : req'[r].due[s] = item[s].due
        BY <3>1
      <3>3. Current(req[r])' BY <1>13, <3>2 DEF BackfillRead, Current
      <3> QED BY <1>0, <2>1, <2>4, <3>3, AloneHolds
    <2> QED BY <2>2, <2>3, <2>4
  <1>14. ASSUME NEW r \in Requests, BackfillWrite(r)
         PROVE  (\A x \in Slots : SlotAgrees(x)') /\ ReadsCurrent'
    <2>1. \A s \in Slots : task'[s] = task[s]
                           \/ (~task[s].exists /\ task'[s] = NewTask(item[s].due))
      BY <1>0, <1>14 DEF BackfillWrite, ReadsCurrent, Current
    <2>2. UNCHANGED item BY <1>14 DEF BackfillWrite
    <2>a. ASSUME NEW s \in Slots, ~task[s].exists, task'[s] = NewTask(item[s].due)
          PROVE  SlotAgrees(s)'
      <3>1. /\ task'[s].status = "TODO" /\ ~task'[s].completed /\ task'[s].due = item[s].due
            /\ task'[s].ticked = {}
        BY <2>a DEF NewTask
      <3> QED BY <1>0, <2>2, <2>a, <3>1 DEF SlotAgrees
    <2>b. ASSUME NEW s \in Slots, task'[s] = task[s] PROVE SlotAgrees(s)'
      BY <1>0, <2>2, <2>b DEF SlotAgrees
    <2>3. \A s \in Slots : SlotAgrees(s)' BY <2>1, <2>a, <2>b
    <2> QED BY <1>0, <1>14, <2>3, AloneDone DEF BackfillWrite
  <1>15. ASSUME NEW r \in Requests, Abandon(r)
         PROVE  (\A x \in Slots : SlotAgrees(x)') /\ ReadsCurrent'
    BY <1>0, <1>15, SameSlots, AloneDone DEF Abandon
  <1>16. ASSUME RefreshStatuses
         PROVE  (\A x \in Slots : SlotAgrees(x)') /\ ReadsCurrent'
    BY <1>0, <1>16, RefreshAgrees
  <1>17. ASSUME UNCHANGED <<item, task, docs, req>>
         PROVE  (\A x \in Slots : SlotAgrees(x)') /\ ReadsCurrent'
    <2>1. ReadsCurrent'
      BY <1>0, <1>17 DEF ReadsCurrent, Current, ReadyWhenRead, PlanStands, Open
    <2> QED BY <1>0, <1>17, <2>1, SameSlots
  <1>18. (\E s \in Slots : RuleChange(s)) \/ NextDay \/ UNCHANGED vars
           => UNCHANGED <<item, task, docs, req>>
    BY DEF RuleChange, NextDay, vars
  <1> QED
    BY <1>1, <1>2, <1>3, <1>4, <1>5, <1>6, <1>7, <1>8, <1>9, <1>10, <1>11, <1>12, <1>13,
       <1>14, <1>15, <1>16, <1>17, <1>18 DEF Next, Request

-----------------------------------------------------------------------------
\* The empty tables satisfy SerialInv.
LEMMA InitSerial == ASSUME ObligationsAssumption, Init PROVE SerialInv
  <1>1. OverlapInv BY InitOverlap
  <1>2. \A s \in Slots : SlotAgrees(s) BY DEF Init, SlotAgrees, NoItem, NoTask
  <1>3. ReadsCurrent BY DEF Init, ReadsCurrent, Current, Idle
  <1> QED BY <1>1, <1>2, <1>3, SerialParts

\* With requests served one after the other: an obligation that carries a claim
\* is filed, filed work is done, completion dates match, deadlines agree.
THEOREM SerialSafe ==
  ASSUME OneAtATime
  PROVE  Spec => [](ClaimOnlyWhileFiled /\ FiledWorkDone /\ WorkStamped /\ DeadlinesAgree)
  <1> USE ObligationsAssumption
  <1>1. Init => SerialInv BY InitSerial
  <1>2. SerialInv /\ [Next]_vars => SerialInv' BY SerialStep
  <1>3. SerialInv => ClaimOnlyWhileFiled /\ FiledWorkDone /\ WorkStamped /\ DeadlinesAgree
    BY DEF SerialInv
  <1> QED BY <1>1, <1>2, <1>3, PTL DEF Spec

\* An item and its task keep one deadline between them, whichever of sync, backfill,
\* filing and reopening moves either.
THEOREM DeadlinesStayTogether ==
  ASSUME OneAtATime
  PROVE  Spec => []DeadlinesAgree
  <1> QED BY SerialSafe, PTL

-----------------------------------------------------------------------------
(* What steps may never do. *)

\* With one request at a time, the request that ends its sync has written it.
LEMMA OnlySyncEnds ==
  ASSUME OneAtATime, TypeOK, [Next]_vars, NEW r \in Requests,
         req[r].kind = "sync", req'[r].kind = "synced"
  PROVE  SyncWrite(r)
  <1>1. \A x \in Requests : x = r BY DEF OneAtATime
  <1>2. ~Free(r) BY DEF Free
  <1>3. req' # req OBVIOUS
  <1>4. ~Hold(r, Idle) BY DEF Hold, Idle, TypeOK
  <1> QED
    BY <1>1, <1>2, <1>3, <1>4
    DEF Next, Request, vars, FileRead, FileWrite, SetStatus, MoveRead, MoveWrite, Assign,
        ReplaceChecklist, TickRead, TickWrite, AttachDocument, RemoveDocument, SyncRead,
        BackfillRead, BackfillWrite, Abandon, RefreshStatuses, RuleChange, NextDay

\* With requests served one after the other, a sync leaves completed and waived
\* obligations as they were but for their deadline, and takes away only open
\* ones without evidence.
THEOREM SyncSpared ==
  ASSUME OneAtATime PROVE Spec => SyncSparesHistory
  <1> USE ObligationsAssumption
  <1>1. SerialInv /\ [Next]_vars =>
          [(\E r \in Requests : req[r].kind = "sync" /\ req'[r].kind = "synced")
             => \A s \in Slots : SyncSpares(s)]_vars
    <2> SUFFICES ASSUME SerialInv, [Next]_vars, NEW r \in Requests,
                        req[r].kind = "sync", req'[r].kind = "synced", NEW s \in Slots
                 PROVE  SyncSpares(s)
      OBVIOUS
    <2>1. TypeOK /\ RequestsTargeted /\ ReadsCurrent /\ RowsWhole
      BY DEF SerialInv, OverlapInv
    <2>2. SyncWrite(r) BY <2>1, OnlySyncEnds
    <2>3. req[r] \in Syncs
      BY <2>1, <2>2
      DEF SyncWrite, TypeOK, RequestStates, Idle, Synced, Filings, Moves, Tickings, Backfills
    <2>4. PICK p \in Plans :
            /\ p = req[r].plan[s]
            /\ item'[s] = SyncedItem(item[s], p)
            /\ docs'[s] = IF p.op = "withdraw" THEN 0 ELSE docs[s]
      BY <2>2, <2>3 DEF SyncWrite, Syncs
    <2>5. PlanStands(s, p) /\ (p.op = "update" => item[s].exists)
      BY <2>1, <2>2, <2>4 DEF SyncWrite, ReadsCurrent, Current, RequestsTargeted, Targeted
    <2>6. item[s] \in Items BY <2>1 DEF TypeOK
    <2>7. CASE p.op = "withdraw"
      BY <2>4, <2>5, <2>7 DEF PlanStands, Open, OpenStatuses, Settled, SyncSpares
    <2>8. CASE p.op = "update"
      <3>1. item'[s] = Updated(item[s], p) /\ docs'[s] = docs[s]
        BY <2>4, <2>8 DEF SyncedItem
      <3>2. item'[s].due = p.due /\ item'[s].exists
        BY <2>5, <2>6, <2>8, <3>1 DEF Updated, Items
      <3>3. item[s].status \in Settled => p.status = "KEEP"
        BY <2>5, <2>8 DEF PlanStands
      <3>4. item[s].status \in Settled => item'[s] = [item[s] EXCEPT !.due = p.due]
        <4>1. item[s].status \in Settled =>
                item'[s] = [item[s] EXCEPT !.due = p.due, !.status = item[s].status]
          BY <3>1, <3>3 DEF Updated
        <4>2. [item[s] EXCEPT !.due = p.due, !.status = item[s].status]
                = [item[s] EXCEPT !.due = p.due]
          BY <2>6 DEF Items
        <4> QED BY <4>1, <4>2
      <3> QED BY <3>1, <3>2, <3>4 DEF SyncSpares
    <2>9. CASE p.op \in {"create", "skip"}
      <3>1. item[s].exists => item'[s] = item[s] BY <2>4, <2>9 DEF SyncedItem
      <3>2. docs'[s] = docs[s] BY <2>4, <2>9
      <3>3. item[s].status \in Settled => item[s].exists
        BY <2>1 DEF RowsWhole, NoItem, Settled
      <3>4. item[s] = [item[s] EXCEPT !.due = item[s].due] BY <2>6 DEF Items
      <3> QED BY <3>1, <3>2, <3>3, <3>4 DEF SyncSpares
    <2> QED BY <2>7, <2>8, <2>9 DEF Plans
  <1>2. Init => SerialInv BY InitSerial
  <1>3. SerialInv /\ [Next]_vars => SerialInv' BY SerialStep
  <1> QED BY <1>1, <1>2, <1>3, PTL DEF Spec, SyncSparesHistory

-----------------------------------------------------------------------------
(* The refinement: the rows implement the lifecycle the README promises.   *)
(* Every step of Obligations is, for each obligation, one step of          *)
(* ObligationLifecycle or none.                                            *)

\* The refinement mapping, slot by slot.
Stage(s) ==
  IF ~item[s].exists THEN "none"
  ELSE IF item[s].status = "COMPLETED" THEN "filed"
  ELSE IF item[s].status = "WAIVED" THEN "waived" ELSE "open"

WorkDone(s) == task[s].status = "DONE"
Evidence(s) == docs[s] > 0

\* What the abstract steps say of one slot, in terms of the rows.
Kept(s) ==
  /\ Stage(s)' = Stage(s)              /\ (WorkDone(s)' <=> WorkDone(s))
  /\ (Evidence(s)' <=> Evidence(s))    /\ item'[s].attested = item[s].attested

Blank(s) == ~WorkDone(s)' /\ ~Evidence(s)' /\ ~item'[s].attested

Stepped(s) ==
  \/ Stage(s) = "none" /\ Stage(s)' = "open" /\ Blank(s)
  \/ Stage(s) = "open" /\ Stage(s)' = "none" /\ ~Evidence(s) /\ Blank(s)
  \/ /\ Stage(s) # "none" /\ Stage(s)' = "filed" /\ (Evidence(s)' <=> Evidence(s))
     /\ Level[s] # "NONE"     => WorkDone(s) /\ WorkDone(s)'
     /\ Level[s] = "REQUIRED" => Evidence(s)
     /\ Level[s] = "ATTEST"   => Evidence(s) \/ item'[s].attested
  \/ /\ Stage(s) # "none" /\ Stage(s)' \in {"open", "waived"}
     /\ (Evidence(s)' <=> Evidence(s)) /\ ~item'[s].attested /\ ~WorkDone(s)'
  \/ /\ Stage(s) # "none" /\ (Evidence(s)' <=> Evidence(s))
     /\ \/ WorkDone(s)' /\ Stage(s)' = Stage(s) /\ item'[s].attested = item[s].attested
        \/ /\ ~WorkDone(s)' /\ Stage(s) # "filed"
           /\ Stage(s)' = Stage(s) /\ item'[s].attested = item[s].attested
        \/ ~WorkDone(s)' /\ Stage(s) = "filed" /\ Stage(s)' = "open" /\ ~item'[s].attested
  \/ /\ Stage(s) # "none" /\ Stage(s)' = Stage(s)
     /\ (WorkDone(s)' <=> WorkDone(s)) /\ item'[s].attested = item[s].attested

\* A slot that is kept is the abstract obligation unchanged.
LEMMA KeptMaps == ASSUME NEW s \in Slots, Kept(s) PROVE Lifecycle!Same(s)
  BY DEF Kept, Lifecycle!Same, Stage, WorkDone, Evidence

\* A slot that has stepped has taken a step of the abstract lifecycle.
LEMMA SteppedMaps == ASSUME NEW s \in Slots, Stepped(s) PROVE Lifecycle!Step(s)
  <1> USE DEF Stage, WorkDone, Evidence
  <1>1. CASE Stage(s) = "none" /\ Stage(s)' = "open" /\ Blank(s)
    BY <1>1 DEF Blank, Lifecycle!Appear, Lifecycle!Step
  <1>2. CASE Stage(s) = "open" /\ Stage(s)' = "none" /\ ~Evidence(s) /\ Blank(s)
    BY <1>2 DEF Blank, Lifecycle!Withdraw, Lifecycle!Step
  <1>3. CASE /\ Stage(s) # "none" /\ Stage(s)' = "filed" /\ (Evidence(s)' <=> Evidence(s))
             /\ Level[s] # "NONE"     => WorkDone(s) /\ WorkDone(s)'
             /\ Level[s] = "REQUIRED" => Evidence(s)
             /\ Level[s] = "ATTEST"   => Evidence(s) \/ item'[s].attested
    BY <1>3 DEF Lifecycle!File, Lifecycle!Step
  <1>4. CASE /\ Stage(s) # "none" /\ Stage(s)' \in {"open", "waived"}
             /\ (Evidence(s)' <=> Evidence(s)) /\ ~item'[s].attested /\ ~WorkDone(s)'
    BY <1>4 DEF Lifecycle!SetAside, Lifecycle!Step
  <1>5. CASE /\ Stage(s) # "none" /\ (Evidence(s)' <=> Evidence(s))
             /\ \/ WorkDone(s)' /\ Stage(s)' = Stage(s) /\ item'[s].attested = item[s].attested
                \/ /\ ~WorkDone(s)' /\ Stage(s) # "filed"
                   /\ Stage(s)' = Stage(s) /\ item'[s].attested = item[s].attested
                \/ ~WorkDone(s)' /\ Stage(s) = "filed" /\ Stage(s)' = "open" /\ ~item'[s].attested
    BY <1>5 DEF Lifecycle!MoveWork, Lifecycle!Step
  <1>6. CASE /\ Stage(s) # "none" /\ Stage(s)' = Stage(s)
             /\ (WorkDone(s)' <=> WorkDone(s)) /\ item'[s].attested = item[s].attested
    BY <1>6 DEF Lifecycle!ChangeEvidence, Lifecycle!Step
  <1> QED BY <1>1, <1>2, <1>3, <1>4, <1>5, <1>6 DEF Stepped

\* A slot whose rows are the same, or differ in nothing that is mapped, stutters.
LEMMA SameRowsKept ==
  ASSUME NEW s \in Slots, item'[s] = item[s], docs'[s] = docs[s], task'[s].status = task[s].status
  PROVE  Kept(s)
  BY DEF Kept, Stage, WorkDone, Evidence

\* Filing is the abstract filing: evaluateGate's conditions are those the
\* lifecycle asks for.
LEMMA FileWriteMaps ==
  ASSUME ObligationsAssumption, SerialInv, NEW r \in Requests, FileWrite(r), NEW s \in Slots
  PROVE  Kept(s) \/ Stepped(s)
  <1>1. /\ TypeOK /\ RowsWhole /\ RequestsTargeted /\ ReadsCurrent
        /\ item[s] \in Items /\ task[s] \in Tasks
    BY DEF SerialInv, OverlapInv, TypeOK
  <1>2. CASE req[r].slot # s
    <2>1. item'[s] = item[s] /\ task'[s] = task[s] /\ docs'[s] = docs[s]
      BY <1>1, <1>2 DEF FileWrite, TypeOK
    <2> QED BY <2>1, SameRowsKept
  <1>3. CASE req[r].slot = s
    <2>1. /\ item'[s].exists = item[s].exists /\ item'[s].status = "COMPLETED"
          /\ item'[s].attested = req[r].attested
          /\ task'[s] = InStep(task[s], "COMPLETED") /\ docs'[s] = docs[s]
      BY <1>1, <1>3 DEF FileWrite, TypeOK, Items
    <2>2. /\ item[s].exists /\ (Level[s] # "NONE" => task[s].exists) /\ ReadyWhenRead(req[r])
      BY <1>1, <1>3 DEF FileWrite, RequestsTargeted, Targeted, ReadsCurrent, Current
    <2>3. Stage(s) # "none" /\ Stage(s)' = "filed" /\ (Evidence(s)' <=> Evidence(s))
      BY <2>1, <2>2 DEF Stage, Evidence
    <2>4. Level[s] # "NONE" => WorkDone(s) /\ WorkDone(s)'
      BY <1>1, <1>3, <2>1, <2>2 DEF ReadyWhenRead, WorkDone, InStep, Tasks
    <2>5. /\ Level[s] = "REQUIRED" => Evidence(s)
          /\ Level[s] = "ATTEST" => Evidence(s) \/ item'[s].attested
      BY <1>3, <2>1, <2>2 DEF ReadyWhenRead, Evidence
    <2> QED BY <2>3, <2>4, <2>5 DEF Stepped
  <1> QED BY <1>2, <1>3

\* Waiving and reopening (markItemStatus without the gate) map.
LEMMA SetStatusMaps ==
  ASSUME SerialInv, NEW r \in Requests, NEW x \in Slots, SetStatus(r, x), NEW s \in Slots
  PROVE  Kept(s) \/ Stepped(s)
  <1>1. TypeOK /\ RowsWhole /\ item[s] \in Items /\ task[s] \in Tasks
    BY DEF SerialInv, OverlapInv, TypeOK
  <1>2. PICK status \in OpenStatuses \cup {"WAIVED"} :
          /\ item' = [item EXCEPT ![x] = Unfiled(@, status)]
          /\ task' = [task EXCEPT ![x] = InStep(@, status)]
    BY DEF SetStatus
  <1>3. docs'[s] = docs[s] BY DEF SetStatus
  <1>4. CASE x # s
    <2>1. item'[s] = item[s] /\ task'[s] = task[s] BY <1>1, <1>2, <1>4 DEF TypeOK
    <2> QED BY <1>3, <2>1, SameRowsKept
  <1>5. CASE x = s
    <2>1. item'[s] = Unfiled(item[s], status) /\ task'[s] = InStep(task[s], status)
      BY <1>1, <1>2, <1>5 DEF TypeOK
    <2>2. item[s].exists BY <1>5 DEF SetStatus
    <2>3. item'[s].exists /\ item'[s].status # "COMPLETED" /\ ~item'[s].attested
      BY <1>1, <2>1, <2>2, UnfiledRow
    <2>4. status # "COMPLETED" BY <1>2 DEF OpenStatuses
    <2>5. task'[s].status # "DONE"
      BY <1>1, <2>1, <2>4 DEF InStep, Tasks, RowsWhole, NoTask
    <2>6. Stage(s) # "none" /\ Stage(s)' \in {"open", "waived"} /\ (Evidence(s)' <=> Evidence(s))
      BY <1>3, <2>2, <2>3 DEF Stage, Evidence
    <2> QED BY <2>3, <2>5, <2>6 DEF Stepped, WorkDone
  <1> QED BY <1>4, <1>5

\* Moving the task maps: finishing work, taking it up again, or reopening what
\* was filed over it (updateTask).
LEMMA MoveWriteMaps ==
  ASSUME ObligationsAssumption, SerialInv, NEW r \in Requests, MoveWrite(r), NEW s \in Slots
  PROVE  Kept(s) \/ Stepped(s)
  <1>1. /\ TypeOK /\ RowsWhole /\ RequestsTargeted /\ ReadsCurrent
        /\ item[s] \in Items /\ task[s] \in Tasks
        /\ item[s].status = "COMPLETED" => item[s].completed
    BY DEF SerialInv, OverlapInv, TypeOK, ClaimWellFormed
  <1>2. CASE req[r].slot # s
    <2>1. item'[s] = item[s] /\ task'[s] = task[s] /\ docs'[s] = docs[s]
      BY <1>1, <1>2 DEF MoveWrite, TypeOK
    <2> QED BY <2>1, SameRowsKept
  <1>3. CASE req[r].slot = s
    <2> DEFINE to == req[r].to
               leaving == LeavingDone(req[r].was, to) /\ item[s].status = "COMPLETED"
    <2>1. /\ task'[s] = Moved(task[s], req[r].was, to) /\ docs'[s] = docs[s]
          /\ item'[s] = IF leaving THEN Unfiled(item[s], Derive(item[s].due, today)) ELSE item[s]
      BY <1>1, <1>3 DEF MoveWrite, TypeOK
    <2>2. item[s].exists /\ req[r].was = task[s].status
      BY <1>1, <1>3 DEF MoveWrite, RequestsTargeted, Targeted, ReadsCurrent, Current, RowsWhole
    <2>3. task'[s].status = to BY <1>1, <2>1 DEF Moved, Tasks
    <2>4. Stage(s) # "none" /\ (Evidence(s)' <=> Evidence(s)) BY <2>1, <2>2 DEF Stage, Evidence
    <2>5. CASE leaving
      <3>1. LET u == Unfiled(item[s], Derive(item[s].due, today)) IN
              u.exists /\ u.status \in OpenStatuses /\ ~u.attested
        BY <1>1, <2>2, DeriveOpen DEF Unfiled, Items
      <3>2. Stage(s) = "filed" /\ Stage(s)' = "open" /\ ~item'[s].attested
        BY <2>1, <2>2, <2>5, <3>1 DEF Stage, OpenStatuses
      <3>3. ~WorkDone(s)' BY <2>3, <2>5 DEF WorkDone, LeavingDone
      <3> QED BY <2>4, <3>2, <3>3 DEF Stepped
    <2>6. CASE ~leaving /\ to = "DONE"
      <3>1. item'[s] = item[s] /\ Stage(s)' = Stage(s) BY <2>1, <2>6 DEF Stage
      <3>2. WorkDone(s)' BY <2>3, <2>6 DEF WorkDone
      <3> QED BY <2>4, <3>1, <3>2 DEF Stepped
    <2>7. CASE ~leaving /\ to # "DONE"
      <3>1. item'[s] = item[s] /\ Stage(s)' = Stage(s) BY <2>1, <2>7 DEF Stage
      <3>2. ~WorkDone(s)' BY <2>3, <2>7 DEF WorkDone
      <3>3. CASE Stage(s) # "filed" BY <2>4, <3>1, <3>2, <3>3 DEF Stepped
      <3>4. CASE Stage(s) = "filed"
        <4>1. task[s].status # "DONE" BY <2>2, <2>7, <3>4 DEF Stage, LeavingDone
        <4> QED BY <2>4, <3>1, <3>2, <4>1 DEF Kept, WorkDone
      <3> QED BY <3>3, <3>4
    <2> QED BY <2>5, <2>6, <2>7
  <1> QED BY <1>2, <1>3

\* A sync makes obligations appear, withdraws them, or moves their deadlines,
\* which the lifecycle does not see (regenerate).
LEMMA SyncWriteMaps ==
  ASSUME SerialInv, NEW r \in Requests, SyncWrite(r), NEW s \in Slots
  PROVE  Kept(s) \/ Stepped(s)
  <1>1. /\ TypeOK /\ RowsWhole /\ RequestsTargeted /\ ReadsCurrent
        /\ item[s] \in Items /\ task[s] \in Tasks
    BY DEF SerialInv, OverlapInv, TypeOK
  <1>2. req[r] \in Syncs
    BY <1>1 DEF SyncWrite, TypeOK, RequestStates, Idle, Synced, Filings, Moves, Tickings, Backfills
  <1>3. PICK p \in Plans :
          /\ p = req[r].plan[s]
          /\ item'[s] = SyncedItem(item[s], p) /\ task'[s] = SyncedTask(task[s], p)
          /\ docs'[s] = IF p.op = "withdraw" THEN 0 ELSE docs[s]
    BY <1>2 DEF SyncWrite, Syncs
  <1>4. PlanStands(s, p) /\ (p.op = "update" => item[s].exists)
    BY <1>1, <1>3 DEF SyncWrite, ReadsCurrent, Current, RequestsTargeted, Targeted
  <1>5. CASE p.op = "withdraw"
    <2>1. item'[s] = NoItem /\ task'[s] = NoTask /\ docs'[s] = 0
      BY <1>3, <1>5 DEF SyncedItem, SyncedTask
    <2>2. item[s].exists /\ item[s].status \in OpenStatuses /\ docs[s] = 0
      BY <1>4, <1>5 DEF PlanStands, Open
    <2>3. Stage(s) = "open" /\ Stage(s)' = "none"
      BY <2>1, <2>2 DEF Stage, NoItem, OpenStatuses
    <2>4. ~Evidence(s) /\ Blank(s) BY <2>1, <2>2 DEF Evidence, Blank, WorkDone, NoItem, NoTask
    <2> QED BY <2>3, <2>4 DEF Stepped
  <1>6. CASE p.op = "update"
    <2>1. item'[s] = Updated(item[s], p) /\ task'[s] = Retimed(task[s], p) /\ docs'[s] = docs[s]
      BY <1>3, <1>6 DEF SyncedItem, SyncedTask
    <2>2. /\ item'[s].exists = item[s].exists /\ item'[s].attested = item[s].attested
          /\ item'[s].status = IF p.status = "KEEP" THEN item[s].status ELSE p.status
      BY <1>1, <2>1 DEF Updated, Items
    <2>3. p.status # "KEEP" => p.status \in OpenStatuses /\ item[s].status \in OpenStatuses
      BY <1>1, <1>4, <1>6 DEF PlanStands, Plans, Items
    <2>4. Stage(s)' = Stage(s) BY <2>2, <2>3 DEF Stage, OpenStatuses
    <2>5. task'[s].status = task[s].status BY <1>1, <2>1 DEF Retimed, Tasks
    <2> QED BY <2>1, <2>2, <2>4, <2>5 DEF Kept, WorkDone, Evidence
  <1>7. CASE p.op = "create" /\ ~item[s].exists
    <2>1. item'[s] = NewItem(p.due, p.status) /\ task'[s] = task[s] /\ docs'[s] = docs[s]
      BY <1>3, <1>7 DEF SyncedItem, SyncedTask
    <2>2. task[s] = NoTask /\ docs[s] = 0 BY <1>1, <1>7 DEF RowsWhole
    <2>3. p.status \in OpenStatuses BY <1>7 DEF Plans
    <2>4. Stage(s) = "none" /\ Stage(s)' = "open"
      BY <1>7, <2>1, <2>3 DEF Stage, NewItem, OpenStatuses
    <2>5. Blank(s) BY <2>1, <2>2 DEF Blank, WorkDone, Evidence, NewItem, NoTask
    <2> QED BY <2>4, <2>5 DEF Stepped
  <1>8. CASE p.op = "skip" \/ (p.op = "create" /\ item[s].exists)
    <2>1. item'[s] = item[s] /\ task'[s] = task[s] /\ docs'[s] = docs[s]
      BY <1>3, <1>8 DEF SyncedItem, SyncedTask
    <2> QED BY <2>1, SameRowsKept
  <1> QED BY <1>5, <1>6, <1>7, <1>8 DEF Plans

\* The steps that move only a checklist, an assignee, a new task or a document.
LEMMA SmallStepsMap ==
  ASSUME SerialInv, NEW r \in Requests, NEW x \in Slots, NEW s \in Slots,
         \/ Assign(r, x) \/ ReplaceChecklist(r, x) \/ TickWrite(r)
         \/ AttachDocument(r, x) \/ RemoveDocument(r, x) \/ BackfillWrite(r)
  PROVE  Kept(s) \/ Stepped(s)
  <1>1. TypeOK /\ RowsWhole /\ item[s] \in Items /\ task[s] \in Tasks
    BY DEF SerialInv, OverlapInv, TypeOK
  <1>2. CASE Assign(r, x)
    <2>1. PICK who \in BOOLEAN : task' = [task EXCEPT ![x].assigned = who] BY <1>2 DEF Assign
    <2>2. task'[s].status = task[s].status BY <1>1, <2>1 DEF TypeOK, Tasks
    <2> QED BY <1>2, <2>2, SameRowsKept DEF Assign
  <1>3. CASE ReplaceChecklist(r, x)
    <2>1. PICK listed \in SUBSET Entries : \E ticked \in SUBSET listed :
            task' = [task EXCEPT ![x] = Relisted(@, listed, ticked)]
      BY <1>3 DEF ReplaceChecklist
    <2>2. task'[s].status = task[s].status BY <1>1, <2>1 DEF TypeOK, Tasks, Relisted
    <2> QED BY <1>3, <2>2, SameRowsKept DEF ReplaceChecklist
  <1>4. CASE TickWrite(r)
    <2>1. task'[s] \in {task[s], Relisted(task[s], req[r].listed, req[r].ticked)}
      BY <1>1, <1>4 DEF TickWrite, TypeOK
    <2>2. task'[s].status = task[s].status BY <1>1, <2>1 DEF Relisted, Tasks
    <2> QED BY <1>4, <2>2, SameRowsKept DEF TickWrite
  <1>5. CASE AttachDocument(r, x) \/ RemoveDocument(r, x)
    <2>1. UNCHANGED <<item, task>> /\ item[x].exists
      BY <1>1, <1>5 DEF AttachDocument, RemoveDocument, RowsWhole
    <2>2. CASE x # s
      <3>1. docs'[s] = docs[s] BY <1>1, <1>5, <2>2 DEF AttachDocument, RemoveDocument, TypeOK
      <3> QED BY <2>1, <3>1, SameRowsKept
    <2>3. CASE x = s BY <2>1, <2>3 DEF Stepped, Stage, WorkDone
    <2> QED BY <2>2, <2>3
  <1>6. CASE BackfillWrite(r)
    <2>1. item'[s] = item[s] /\ docs'[s] = docs[s] BY <1>6 DEF BackfillWrite
    <2>2. task'[s].status = task[s].status
      BY <1>1, <1>6 DEF BackfillWrite, RowsWhole, NoTask, NewTask
    <2> QED BY <2>1, <2>2, SameRowsKept
  <1> QED BY <1>2, <1>3, <1>4, <1>5, <1>6

\* refreshStatuses moves obligations among the open statuses only.
LEMMA RefreshMaps ==
  ASSUME SerialInv, RefreshStatuses, NEW s \in Slots
  PROVE  Kept(s)
  <1>1. item[s] \in Items /\ Derive(item[s].due, today) \in OpenStatuses
    BY DeriveOpen DEF SerialInv, OverlapInv, TypeOK
  <1>2. UNCHANGED <<task, docs>> BY DEF RefreshStatuses
  <1>3. CASE item'[s] = item[s] BY <1>2, <1>3, SameRowsKept
  <1>4. CASE Open(s) /\ item'[s] = [item[s] EXCEPT !.status = Derive(item[s].due, today)]
    <2>1. /\ item'[s].exists = item[s].exists /\ item'[s].attested = item[s].attested
          /\ item'[s].status \in OpenStatuses /\ item[s].status \in OpenStatuses
      BY <1>1, <1>4 DEF Items, Open
    <2> QED BY <1>2, <2>1 DEF Kept, Stage, WorkDone, Evidence, OpenStatuses
  <1> QED BY <1>3, <1>4 DEF RefreshStatuses

\* Every step keeps each slot or takes it through one step of the lifecycle.
LEMMA StepMaps ==
  ASSUME ObligationsAssumption, SerialInv, [Next]_vars, NEW s \in Slots
  PROVE  Kept(s) \/ Stepped(s)
  <1>1. ASSUME UNCHANGED <<item, task, docs>> PROVE Kept(s) BY <1>1, SameRowsKept
  <1>2. ASSUME NEW r \in Requests, NEW x \in Slots,
               \/ FileRead(r, x) \/ MoveRead(r, x) \/ TickRead(r, x) \/ SyncRead(r)
               \/ BackfillRead(r) \/ Abandon(r)
        PROVE  UNCHANGED <<item, task, docs>>
    BY <1>2 DEF FileRead, MoveRead, TickRead, SyncRead, BackfillRead, Abandon
  <1>3. (\E x \in Slots : RuleChange(x)) \/ NextDay \/ UNCHANGED vars
          => UNCHANGED <<item, task, docs>>
    BY DEF RuleChange, NextDay, vars
  <1>4. ASSUME NEW r \in Requests, Request(r) PROVE Kept(s) \/ Stepped(s)
    BY <1>1, <1>2, <1>4, FileWriteMaps, SetStatusMaps, MoveWriteMaps, SyncWriteMaps, SmallStepsMap
    DEF Request
  <1> QED BY <1>1, <1>3, <1>4, RefreshMaps DEF Next

\* One request at a time: the tables implement the lifecycle of an obligation.
THEOREM RefinesLifecycle ==
  ASSUME OneAtATime PROVE Spec => ImplementsLifecycle
  <1> USE ObligationsAssumption
  <1>1. Init => Lifecycle!Init
    <2> SUFFICES ASSUME Init PROVE Lifecycle!Init OBVIOUS
    <2>1. \A s \in Slots :
            /\ Stage(s) = "none" /\ (WorkDone(s) <=> FALSE) /\ (Evidence(s) <=> FALSE)
            /\ item[s].attested = FALSE
      BY DEF Init, NoItem, NoTask, Stage, WorkDone, Evidence
    <2>2. [s \in Slots |-> Stage(s)] = [s \in Slots |-> "none"] BY <2>1
    <2>3. [s \in Slots |-> WorkDone(s)] = [s \in Slots |-> FALSE] BY <2>1, Zenon DEF WorkDone
    <2>4. [s \in Slots |-> Evidence(s)] = [s \in Slots |-> FALSE]
      <3>1. \A s \in Slots : (0 > 0) = Evidence(s) BY DEF Init, Evidence
      <3>2. (0 > 0) = FALSE OBVIOUS
      <3> QED BY <3>1, <3>2, Zenon
    <2>5. [s \in Slots |-> item[s].attested] = [s \in Slots |-> FALSE] BY <2>1
    <2> QED BY <2>2, <2>3, <2>4, <2>5 DEF Lifecycle!Init, Stage, WorkDone, Evidence
  <1>2. SerialInv /\ [Next]_vars => [Lifecycle!Next]_(Lifecycle!lifecycle)
    <2> SUFFICES ASSUME SerialInv, [Next]_vars, NEW s \in Slots
                 PROVE  Lifecycle!Step(s) \/ Lifecycle!Same(s)
      BY DEF Lifecycle!Next
    <2> QED BY StepMaps, KeptMaps, SteppedMaps
  <1>3. Init => SerialInv BY InitSerial
  <1>4. SerialInv /\ [Next]_vars => SerialInv' BY SerialStep
  <1> QED BY <1>1, <1>2, <1>3, <1>4, PTL DEF Spec, ImplementsLifecycle, Lifecycle!Spec
=============================================================================
