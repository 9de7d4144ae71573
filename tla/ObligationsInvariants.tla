----------------------- MODULE ObligationsInvariants -----------------------
(***************************************************************************)
(* The inductive invariants behind the safety of Obligations: one that     *)
(* holds however many requests overlap, and one for requests served one    *)
(* after the other.                                                        *)
(***************************************************************************)
EXTENDS Obligations

OneAtATime == \A a, b \in Requests : a = b

\* An absent row is blank, and a task or a document is never behind no item.
RowsWhole ==
  \A s \in Slots :
    /\ ~item[s].exists => item[s] = NoItem /\ ~task[s].exists /\ docs[s] = 0
    /\ ~task[s].exists => task[s] = NoTask

\* A request that will write a row knows the row is there: deleting it ends the
\* request.  A filing through the gate has seen the task.
Targeted(q) ==
  /\ q.kind = "file" => item[q.slot].exists /\ (Level[q.slot] # "NONE" => task[q.slot].exists)
  /\ q.kind \in {"move", "tick"} => task[q.slot].exists
  /\ q.kind = "sync" =>
       \A s \in Slots : q.plan[s].op = "update" => item[s].exists
  /\ q.kind = "backfill" => \A s \in q.missing : item[s].exists

RequestsTargeted == \A r \in Requests : Targeted(req[r])

\* Holds for any number of overlapping requests.
OverlapInv ==
  TypeOK /\ RowsWhole /\ RequestsTargeted /\ ClaimWellFormed /\ FiledHasTask

\* What a request has read still stands.
ReadyWhenRead(q) ==
  Level[q.slot] # "NONE" =>
    /\ task[q.slot].assigned
    /\ task[q.slot].listed \subseteq task[q.slot].ticked
    /\ task[q.slot].status = "DONE"
    /\ docs[q.slot] > 0 \/ (Level[q.slot] = "ATTEST" /\ q.attested)
    /\ NeedsSigner[q.slot] /\ docs[q.slot] > 0 => q.signed

PlanStands(s, p) ==
  /\ p.op = "withdraw" => Open(s) /\ ~item[s].completed /\ docs[s] = 0
  /\ p.op = "update" => /\ p.status = "KEEP" <=> item[s].status \in Settled
                        /\ item[s].due # p.due => p.moved

Current(q) ==
  /\ q.kind = "file" => ReadyWhenRead(q)
  /\ q.kind = "move" => q.was = task[q.slot].status
  /\ q.kind = "tick" => q.ticked \subseteq q.listed
  /\ q.kind = "sync" => \A s \in Slots : PlanStands(s, q.plan[s])
  /\ q.kind = "backfill" => \A s \in q.missing : q.due[s] = item[s].due

ReadsCurrent == \A r \in Requests : Current(req[r])

\* A tick is a tick of an entry that is listed.
TicksListed == \A s \in Slots : task[s].ticked \subseteq task[s].listed

\* Holds when requests are served one after the other.
SerialInv ==
  /\ OverlapInv /\ ReadsCurrent /\ TicksListed
  /\ ClaimOnlyWhileFiled /\ FiledWorkDone /\ WorkStamped /\ DeadlinesAgree
=============================================================================
