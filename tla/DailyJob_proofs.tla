--------------------------- MODULE DailyJob_proofs ---------------------------
(***************************************************************************)
(* Proofs about DailyJob, for any number of processes, obligations, people *)
(* and claims of the slot.                                                 *)
(***************************************************************************)
EXTENDS DailyJob, TLAPS

-----------------------------------------------------------------------------
(* The inductive invariants. *)

\* Some run that started no later than run has been taken over.
Doubtful(run) == \E p \in presumed : p <= run

\* What a worker that is about to take the row over has read of it.
SawOfRow(saw) ==
  /\ saw.status = "FAILED" \/ (saw.status = "RUNNING" /\ saw.stale)
  /\ saw.run <= slot.run /\ saw.run < MaxRuns
  /\ Unmoved(saw) /\ slot.status = "RUNNING" => slot.stale

\* The row and the runs that are inside the slot: the row counts its claims, a run
\* that does not hold it running is doubtful, and no two are the same.
SlotInv ==
  /\ slot.status = "none" => slot.run = 0
  /\ slot.status # "none" => slot.run > 0
  /\ slot.stale => slot.status = "RUNNING"
  /\ \A w \in Workers : proc[w].step = "reclaim" => SawOfRow(proc[w].saw)
  /\ \A w \in Workers : Executing(w) =>
       /\ proc[w].run <= slot.run
       /\ proc[w].run < slot.run \/ slot.status # "RUNNING" => Doubtful(proc[w].run)
  /\ \A w, v \in Workers : w # v /\ Executing(w) /\ Executing(v) => proc[w].run # proc[v].run

\* The notifications a sweep still has to deal with, and those of them that are
\* mailed and not yet marked.
Carried(p) == IF p.step \in {"send", "mark"} THEN p.todo ELSE {}
InFlight(p) == IF p.step = "mark" THEN p.digest ELSE {}

\* A sweep owns what it carries: it alone inserted it.
MailInv ==
  /\ OneMailEach
  /\ \A w \in Workers :
       /\ InFlight(proc[w]) \subseteq Carried(proc[w])
       /\ \A n \in Carried(proc[w]) :
            /\ note[n] = "PENDING"
            /\ n \in InFlight(proc[w]) => mailed[n] = 1
            /\ n \notin InFlight(proc[w]) => mailed[n] = 0
  /\ \A w, v \in Workers : w # v => Carried(proc[w]) \cap Carried(proc[v]) = {}

\* There is always a super admin who can receive mail.
AdminInv == active \cap SuperAdmins # {}

-----------------------------------------------------------------------------
(* Types. *)

\* What a worker is put in the middle of by claiming or triggering.
LEMMA AtType ==
  ASSUME DailyJobAssumption,
         NEW step \in {"idle", "reclaim", "scan", "create", "send", "mark", "finish"},
         NEW run \in 0..MaxRuns
  PROVE  At(step, run) \in Procs
  BY DEF At, Procs, Unclaimed, Slots, DailyJobAssumption

\* A freshly claimed row is a row.
LEMMA RunningType ==
  ASSUME DailyJobAssumption, NEW run \in 1..MaxRuns
  PROVE  Running(run) \in Slots /\ run \in 0..MaxRuns
  BY DEF Running, Slots, DailyJobAssumption

\* Putting one worker in another state keeps the type of proc.
LEMMA BecomeType ==
  ASSUME TypeOK, NEW w \in Workers, NEW p \in Procs, Become(w, p)
  PROVE  proc' \in [Workers -> Procs]
  BY DEF TypeOK, Become

\* The end of a run is written into a row.
LEMMA EndedType ==
  ASSUME TypeOK, NEW w \in Workers, NEW status \in {"FAILED", "SUCCEEDED"}
  PROVE  Ended(w, status) \in Slots
  BY DEF TypeOK, Ended, Slots

\* What is left after a digest is a worker's state.
LEMMA PastType ==
  ASSUME NEW p \in Procs, NEW digest \in SUBSET Keys
  PROVE  Past(p, digest) \in Procs
  BY DEF Past, Procs

\* Marked notifications are notifications.
LEMMA MarkedType ==
  ASSUME TypeOK, NEW digest \in SUBSET Keys, NEW status \in {"PENDING", "SENT", "FAILED"}
  PROVE  Marked(digest, status) \in [Keys -> {"none", "PENDING", "SENT", "FAILED"}]
  BY DEF TypeOK, Marked

\* The inductive step of TypeOK.  That no claim exceeds MaxRuns needs SlotInv: the
\* worker that takes the row over checked the bound when it read it.
LEMMA TypeStep ==
  ASSUME DailyJobAssumption, TypeOK, SlotInv, [Next]_vars
  PROVE  TypeOK'
  <1> USE DailyJobAssumption DEF World
  <1>a. MaxRuns \in Nat /\ 0 \in 0..MaxRuns /\ 1 \in 1..MaxRuns BY DEF DailyJobAssumption
  <1>b. Idle \in Procs BY <1>a, AtType DEF Idle
  <1>c. slot.run \in 0..MaxRuns /\ slot.run \in Nat BY <1>a DEF TypeOK, Slots
  <1>d. \A w \in Workers : proc[w] \in Procs BY DEF TypeOK
  <1>1. ASSUME NEW w \in Workers, Claim(w) PROVE TypeOK'
    <2>1. CASE slot' = Running(1) /\ Become(w, At("scan", 1))
      <3>1. At("scan", 1) \in Procs BY <1>a, AtType
      <3>2. proc' \in [Workers -> Procs] BY <2>1, <3>1, BecomeType
      <3> QED BY <1>1, <2>1, <3>2, <1>a, RunningType DEF Claim, TypeOK
    <2>2. CASE Become(w, [At("reclaim", 0) EXCEPT !.saw = slot]) /\ UNCHANGED slot
      <3>1. At("reclaim", 0) \in Procs BY <1>a, AtType
      <3>2. [At("reclaim", 0) EXCEPT !.saw = slot] \in Procs BY <3>1 DEF Procs, TypeOK
      <3>3. proc' \in [Workers -> Procs] BY <2>2, <3>2, BecomeType
      <3> QED BY <1>1, <2>2, <3>3 DEF Claim, TypeOK
    <2> QED BY <1>1, <2>1, <2>2 DEF Claim
  <1>2. ASSUME NEW w \in Workers, Reclaim(w) PROVE TypeOK'
    <2>1. CASE Unmoved(proc[w].saw)
      <3>1. SawOfRow(proc[w].saw) BY <1>2 DEF Reclaim, SlotInv
      <3>2. slot.run + 1 \in 1..MaxRuns /\ slot.run \in 1..MaxRuns
        BY <1>a, <1>c, <2>1, <3>1 DEF SawOfRow, Unmoved, SlotInv
      <3>3. proc' \in [Workers -> Procs]
        BY <1>2, <2>1, <3>2, RunningType, AtType, BecomeType DEF Reclaim
      <3>4. presumed' \subseteq 1..MaxRuns
        BY <1>2, <2>1, <3>2 DEF Reclaim, TakenOver, TypeOK
      <3>5. slot' \in Slots BY <1>2, <2>1, <3>2, RunningType DEF Reclaim
      <3> QED BY <1>2, <3>3, <3>4, <3>5 DEF Reclaim, TypeOK
    <2>2. CASE ~Unmoved(proc[w].saw)
      <3>1. proc' \in [Workers -> Procs] BY <1>2, <2>2, <1>b, BecomeType DEF Reclaim
      <3> QED BY <1>2, <2>2, <3>1 DEF Reclaim, TypeOK
    <2> QED BY <2>1, <2>2
  <1>3. ASSUME NEW w \in Workers, ForceRun(w) PROVE TypeOK'
    <2>1. slot.run + 1 \in 1..MaxRuns BY <1>3, <1>a, <1>c DEF ForceRun
    <2>2. proc' \in [Workers -> Procs]
      BY <1>3, <2>1, RunningType, AtType, BecomeType DEF ForceRun
    <2>a. slot.status = "RUNNING" => slot.run \in 1..MaxRuns BY <1>a, <1>c DEF SlotInv
    <2>3. presumed' \subseteq 1..MaxRuns BY <1>3, <2>a DEF ForceRun, TakenOver, TypeOK
    <2>4. slot' \in Slots BY <1>3, <2>1, RunningType DEF ForceRun
    <2> QED BY <1>3, <2>2, <2>3, <2>4 DEF ForceRun, TypeOK
  <1>4. ASSUME NEW w \in Workers, EdgeRun(w) PROVE TypeOK'
    <2>1. At("finish", 1) \in Procs /\ At("finish", 0) \in Procs
      BY <1>a, RunningType, AtType
    <2>2. proc' \in [Workers -> Procs] BY <1>4, <2>1, BecomeType DEF EdgeRun
    <2>3. slot' \in Slots BY <1>4, <1>a, RunningType DEF EdgeRun, TypeOK
    <2> QED BY <1>4, <2>2, <2>3 DEF EdgeRun, TypeOK
  <1>5. ASSUME NEW w \in Workers, SweepByHand(w) PROVE TypeOK'
    <2>1. proc' \in [Workers -> Procs] BY <1>5, <1>a, AtType, BecomeType DEF SweepByHand
    <2> QED BY <1>5, <2>1 DEF SweepByHand, TypeOK
  <1>6. ASSUME NEW w \in Workers, Scan(w) PROVE TypeOK'
    <2> DEFINE todo == {n \in Keys : Chased(n[1]) /\ n[2] \in Recipients(n[1])
                                      /\ n[3] = Due[n[1]] - today}
    <2>1. todo \in SUBSET Keys OBVIOUS
    <2>2. [proc[w] EXCEPT !.step = "create", !.todo = todo] \in Procs
      BY <1>d, <2>1 DEF Procs
    <2>3. proc' \in [Workers -> Procs] BY <1>6, <2>2, BecomeType DEF Scan
    <2> QED BY <1>6, <2>3 DEF Scan, TypeOK
  <1>7. ASSUME NEW w \in Workers, Create(w) PROVE TypeOK'
    <2> DEFINE made == Fresh(proc[w].todo)
    <2>1. made \in SUBSET Keys BY <1>d DEF Fresh, Procs
    <2>2. [proc[w] EXCEPT !.step = IF made = {} THEN "finish" ELSE "send", !.todo = made] \in Procs
      BY <1>d, <2>1 DEF Procs
    <2>3. proc' \in [Workers -> Procs] BY <1>7, <2>2, BecomeType DEF Create
    <2>4. note' \in [Keys -> {"none", "PENDING", "SENT", "FAILED"}] BY <1>7 DEF Create, TypeOK
    <2> QED BY <1>7, <2>3, <2>4 DEF Create, TypeOK
  <1>8. ASSUME NEW w \in Workers, Send(w) PROVE TypeOK'
    <2>1. PICK n \in proc[w].todo :
            LET digest == {m \in proc[w].todo : m[2] = n[2]} IN
              \/ /\ mailed' = [m \in Keys |-> IF m \in digest THEN mailed[m] + 1 ELSE mailed[m]]
                 /\ Become(w, [proc[w] EXCEPT !.step = "mark", !.digest = digest])
                 /\ UNCHANGED note
              \/ /\ note' = Undelivered(digest)
                 /\ Become(w, Past(proc[w], digest))
                 /\ UNCHANGED mailed
      BY <1>8 DEF Send
    <2> DEFINE digest == {m \in proc[w].todo : m[2] = n[2]}
    <2>2. digest \in SUBSET Keys BY <1>d DEF Procs
    <2>3. [proc[w] EXCEPT !.step = "mark", !.digest = digest] \in Procs BY <1>d, <2>2 DEF Procs
    <2>4. Past(proc[w], digest) \in Procs BY <1>d, <2>2, PastType
    <2>5. proc' \in [Workers -> Procs] BY <2>1, <2>3, <2>4, BecomeType
    <2>6. note' \in [Keys -> {"none", "PENDING", "SENT", "FAILED"}]
      BY <2>1, <2>2, MarkedType DEF Undelivered, TypeOK
    <2>7. mailed' \in [Keys -> Nat] BY <2>1 DEF TypeOK
    <2> QED BY <1>8, <2>5, <2>6, <2>7 DEF Send, TypeOK
  <1>9. ASSUME NEW w \in Workers, Mark(w) PROVE TypeOK'
    <2>1. proc[w].digest \in SUBSET Keys BY <1>d DEF Procs
    <2>2. proc' \in [Workers -> Procs] BY <1>9, <1>d, <2>1, PastType, BecomeType DEF Mark
    <2>3. note' \in [Keys -> {"none", "PENDING", "SENT", "FAILED"}]
      BY <1>9, <2>1, MarkedType DEF Mark, Undelivered
    <2> QED BY <1>9, <2>2, <2>3 DEF Mark, TypeOK
  <1>10. ASSUME NEW w \in Workers, Finish(w) \/ Fail(w) PROVE TypeOK'
    <2>1. proc' \in [Workers -> Procs] BY <1>10, <1>b, BecomeType DEF Finish, Fail
    <2>2. slot' \in Slots BY <1>10, EndedType DEF Finish, Fail
    <2> QED BY <1>10, <2>1, <2>2 DEF Finish, Fail, TypeOK
  <1>11. ASSUME NEW w \in Workers, Crash(w) PROVE TypeOK'
    <2>1. proc' \in [Workers -> Procs] BY <1>11, <1>b, BecomeType DEF Crash
    <2> QED BY <1>11, <2>1 DEF Crash, TypeOK
  <1>12. CASE GrowStale
    BY <1>12 DEF GrowStale, TypeOK, Slots
  <1>13. CASE NextDay
    BY <1>13 DEF NextDay, TypeOK, Days, DailyJobAssumption
  <1>14. ASSUME Work PROVE TypeOK'
    <2>1. open' \subseteq Items BY <1>14 DEF Work, TypeOK
    <2>2. assignee' \in [Items -> Users \cup {Nobody}] BY <1>14 DEF Work, TypeOK
    <2> QED BY <1>14, <2>1, <2>2 DEF Work, TypeOK
  <1>15. ASSUME NEW u \in Users, Activate(u) PROVE TypeOK'
    BY <1>15 DEF Activate, TypeOK
  <1>16. CASE UNCHANGED vars
    BY <1>16 DEF vars, TypeOK
  <1> QED BY <1>1, <1>2, <1>3, <1>4, <1>5, <1>6, <1>7, <1>8, <1>9, <1>10, <1>11, <1>12, <1>13,
             <1>14, <1>15, <1>16 DEF Next

-----------------------------------------------------------------------------
(* The slot: OneOwner. *)

\* Claims are counted in numbers.
LEMMA RunType ==
  ASSUME DailyJobAssumption, TypeOK
  PROVE  slot.run \in Nat /\ \A w \in Workers : proc[w].run \in Nat
  BY DEF TypeOK, Procs, Slots, DailyJobAssumption

\* A worker that goes on to its next step stays in the run it is in.
LEMMA OnwardRun ==
  ASSUME TypeOK, NEW w \in Workers, NEW p \in Procs, NEW step, NEW x,
         \/ Become(w, [p EXCEPT !.step = step, !.todo = x])
         \/ Become(w, [p EXCEPT !.step = step, !.digest = x])
  PROVE  proc'[w].step = step /\ proc'[w].run = p.run
  <1>1. \/ proc'[w] = [p EXCEPT !.step = step, !.todo = x]
        \/ proc'[w] = [p EXCEPT !.step = step, !.digest = x]
    BY DEF Become, TypeOK
  <1>2. /\ [p EXCEPT !.step = step, !.todo = x].step = step
        /\ [p EXCEPT !.step = step, !.todo = x].run = p.run
        /\ [p EXCEPT !.step = step, !.digest = x].step = step
        /\ [p EXCEPT !.step = step, !.digest = x].run = p.run
    BY DEF Procs
  <1> QED BY <1>1, <1>2

\* A step that leaves the row alone, and lets no worker into the slot or on its way
\* to take it over, keeps SlotInv.
LEMMA SlotKept ==
  ASSUME SlotInv, UNCHANGED <<slot, presumed>>,
         \A w \in Workers :
           /\ Executing(w)' => Executing(w) /\ proc'[w].run = proc[w].run
           /\ proc'[w].step = "reclaim" => proc[w].step = "reclaim" /\ proc'[w].saw = proc[w].saw
  PROVE  SlotInv'
  BY DEF SlotInv, SawOfRow, Unmoved, Doubtful

\* A worker that has the row claimed anew is the only one that holds it: whoever is
\* inside the slot was already doubtful or is presumed dead now.
LEMMA SlotClaimed ==
  ASSUME DailyJobAssumption, TypeOK, SlotInv, NEW w \in Workers, NEW step \in {"scan", "finish"},
         slot.run + 1 <= MaxRuns,
         slot' = Running(slot.run + 1), Become(w, At(step, slot.run + 1)),
         presumed \subseteq presumed', slot.status = "RUNNING" => slot.run \in presumed'
  PROVE  SlotInv'
  <1>1. slot.run \in Nat /\ slot' = [status |-> "RUNNING", run |-> slot.run + 1, stale |-> FALSE]
    BY DEF TypeOK, Slots, Running, DailyJobAssumption
  <1>2. \A v \in Workers : IF v = w THEN proc'[v] = At(step, slot.run + 1) ELSE proc'[v] = proc[v]
    BY DEF Become, TypeOK
  <1>3. proc'[w].step = step /\ proc'[w].run = slot.run + 1 BY <1>2 DEF At
  <1>4. \A v \in Workers : proc[v].run \in Nat /\ proc[v].saw.run \in Nat
    BY DEF TypeOK, Procs, Slots, DailyJobAssumption
  <1>5. ASSUME NEW v \in Workers, proc'[v].step = "reclaim" PROVE SawOfRow(proc[v].saw)'
    <2>1. v # w /\ proc'[v] = proc[v] BY <1>2, <1>3, <1>5
    <2>2. SawOfRow(proc[v].saw) BY <1>5, <2>1 DEF SlotInv
    <2> QED BY <1>1, <1>4, <2>1, <2>2 DEF SawOfRow, Unmoved
  <1>6. ASSUME NEW v \in Workers, Executing(v)'
        PROVE  /\ proc'[v].run <= slot'.run
               /\ proc'[v].run < slot'.run => Doubtful(proc[v].run)'
               /\ v # w => proc'[v].run < slot'.run
    <2>1. CASE v = w BY <1>1, <1>3, <2>1
    <2>2. CASE v # w
      <3>1. proc'[v] = proc[v] /\ Executing(v) BY <1>2, <1>6, <2>2 DEF Executing
      <3>2. proc[v].run <= slot.run /\ proc[v].run \in Nat BY <1>4, <3>1 DEF SlotInv
      <3>3. CASE proc[v].run < slot.run \/ slot.status # "RUNNING"
        <4>1. PICK p \in presumed : p <= proc[v].run BY <3>1, <3>3 DEF SlotInv, Doubtful
        <4>2. Doubtful(proc[v].run)' BY <3>1, <4>1 DEF Doubtful
        <4> QED BY <1>1, <3>1, <3>2, <4>2
      <3>4. CASE proc[v].run = slot.run /\ slot.status = "RUNNING"
        <4>1. Doubtful(proc[v].run)' BY <3>1, <3>2, <3>4 DEF Doubtful
        <4> QED BY <1>1, <3>1, <3>2, <4>1
      <3> QED BY <1>1, <3>2, <3>3, <3>4
    <2> QED BY <2>1, <2>2
  <1>7. ASSUME NEW u \in Workers, NEW v \in Workers, u # v, Executing(u)', Executing(v)'
        PROVE  proc'[u].run # proc'[v].run
    <2>1. CASE u = w BY <1>1, <1>3, <1>4, <1>6, <1>7, <2>1
    <2>2. CASE v = w BY <1>1, <1>3, <1>4, <1>6, <1>7, <2>2
    <2>3. CASE u # w /\ v # w
      BY <1>2, <1>7, <2>3 DEF Executing, SlotInv
    <2> QED BY <2>1, <2>2, <2>3
  <1> QED BY <1>1, <1>5, <1>6, <1>7 DEF SlotInv

\* A run that ends writes the row it was claimed on; another run that holds the row
\* is then doubtful, for the one that ended was.
LEMMA SlotEnded ==
  ASSUME DailyJobAssumption, TypeOK, SlotInv, NEW w \in Workers, NEW status \in {"FAILED", "SUCCEEDED"},
         proc[w].step \notin {"idle", "reclaim"},
         slot' = Ended(w, status), Become(w, Idle), UNCHANGED presumed
  PROVE  SlotInv'
  <1>1. \A v \in Workers : IF v = w THEN proc'[v] = Idle ELSE proc'[v] = proc[v]
    BY DEF Become, TypeOK
  <1>2. \A v \in Workers :
          /\ Executing(v)' => v # w /\ Executing(v) /\ proc'[v] = proc[v]
          /\ proc'[v].step = "reclaim" => proc[v].step = "reclaim" /\ proc'[v].saw = proc[v].saw
    BY <1>1 DEF Executing, Idle, At
  <1>3. CASE proc[w].run = 0
    BY <1>2, <1>3, SlotKept DEF Ended
  <1>4. CASE proc[w].run # 0
    <2>1. Executing(w) BY <1>4 DEF Executing
    <2>2. slot' = [slot EXCEPT !.status = status, !.stale = FALSE] BY <1>4 DEF Ended
    <2>a. slot \in Slots BY DEF TypeOK
    <2>3. slot'.status = status /\ slot'.run = slot.run /\ ~slot'.stale
      BY <2>2, <2>a DEF Slots
    <2>4. slot.run \in Nat /\ \A v \in Workers : proc[v].run \in Nat
      BY DEF TypeOK, Procs, Slots, DailyJobAssumption
    <2>5. proc[w].run <= slot.run BY <2>1 DEF SlotInv
    <2>6. slot.status # "none" BY <1>4, <2>4, <2>5 DEF SlotInv
    <2>7. ASSUME NEW v \in Workers, Executing(v)'
          PROVE  proc'[v].run <= slot'.run /\ Doubtful(proc[v].run)'
      <3>1. v # w /\ Executing(v) /\ proc'[v] = proc[v] BY <1>2, <2>7
      <3>2. proc[v].run <= slot.run /\ proc[v].run # proc[w].run BY <2>1, <3>1 DEF SlotInv
      <3>3. CASE proc[v].run < slot.run
        BY <2>3, <3>1, <3>3 DEF SlotInv, Doubtful
      <3>4. CASE proc[v].run = slot.run
        <4>1. proc[w].run < slot.run BY <2>4, <2>5, <3>2, <3>4
        <4>2. PICK p \in presumed : p <= proc[w].run BY <2>1, <4>1 DEF SlotInv, Doubtful
        <4>3. presumed \subseteq Int BY DEF TypeOK
        <4>4. p <= proc[v].run BY <2>4, <3>4, <4>1, <4>2, <4>3
        <4> QED BY <2>3, <3>1, <3>2, <4>2, <4>4 DEF Doubtful
      <3> QED BY <2>4, <3>2, <3>3, <3>4
    <2>8. ASSUME NEW v \in Workers, proc'[v].step = "reclaim" PROVE SawOfRow(proc[v].saw)'
      BY <1>2, <2>3, <2>8 DEF SlotInv, SawOfRow, Unmoved
    <2> QED BY <1>2, <2>3, <2>6, <2>7, <2>8 DEF SlotInv
  <1> QED BY <1>3, <1>4

\* The inductive step of SlotInv.
LEMMA SlotStep ==
  ASSUME DailyJobAssumption, TypeOK, SlotInv, [Next]_vars
  PROVE  SlotInv'
  <1> USE DailyJobAssumption DEF World
  <1>a. \A w \in Workers : proc[w] \in Procs BY DEF TypeOK
  <1>b. slot \in Slots /\ slot.run \in Nat /\ MaxRuns \in Nat \ {0}
    BY DEF TypeOK, Slots, DailyJobAssumption
  <1>1. ASSUME NEW w \in Workers, Claim(w) PROVE SlotInv'
    <2>1. CASE slot.status = "none" /\ slot' = Running(1) /\ Become(w, At("scan", 1))
      BY <1>1, <1>b, <2>1, SlotClaimed DEF Claim, SlotInv
    <2>2. CASE /\ slot.status = "FAILED" \/ slot.stale
               /\ Become(w, [At("reclaim", 0) EXCEPT !.saw = slot])
               /\ UNCHANGED slot
      <3>1. SawOfRow(slot) BY <1>1, <1>b, <2>2 DEF Claim, SawOfRow, Unmoved, SlotInv, Slots
      <3>2. SawOfRow(slot)' BY <1>1, <2>2, <3>1 DEF Claim, SawOfRow, Unmoved
      <3>3. \A v \in Workers : IF v = w THEN /\ proc'[v].step = "reclaim" /\ proc'[v].saw = slot
                                             /\ proc'[v].run = 0
                                        ELSE proc'[v] = proc[v]
        BY <2>2 DEF Become, TypeOK, At
      <3>4. \A v \in Workers : Executing(v)' => v # w /\ Executing(v) /\ proc'[v] = proc[v]
        BY <3>3 DEF Executing
      <3>5. ASSUME NEW v \in Workers, proc'[v].step = "reclaim" PROVE SawOfRow(proc[v].saw)'
        BY <1>1, <2>2, <3>2, <3>3, <3>5 DEF Claim, SlotInv, SawOfRow, Unmoved
      <3> QED BY <1>1, <2>2, <3>4, <3>5 DEF Claim, SlotInv, Doubtful
    <2> QED BY <1>1, <2>1, <2>2 DEF Claim
  <1>2. ASSUME NEW w \in Workers, Reclaim(w) PROVE SlotInv'
    <2>1. CASE Unmoved(proc[w].saw)
      <3>1. SawOfRow(proc[w].saw) BY <1>2 DEF Reclaim, SlotInv
      <3>2. slot.run + 1 <= MaxRuns BY <1>b, <2>1, <3>1 DEF SawOfRow, Unmoved
      <3>3. slot.status = "RUNNING" => slot.run \in presumed'
        BY <1>2, <2>1, <3>1 DEF Reclaim, SawOfRow, TakenOver
      <3>4. presumed \subseteq presumed' BY <1>2, <2>1 DEF Reclaim, TakenOver
      <3> QED BY <1>2, <2>1, <3>2, <3>3, <3>4, SlotClaimed DEF Reclaim
    <2>2. CASE ~Unmoved(proc[w].saw)
      BY <1>2, <2>2, SlotKept DEF Reclaim, Become, TypeOK, Executing, Idle, At
    <2> QED BY <2>1, <2>2
  <1>3. ASSUME NEW w \in Workers, ForceRun(w) PROVE SlotInv'
    <2>1. slot.run + 1 <= MaxRuns BY <1>3, <1>b DEF ForceRun
    <2>2. presumed \subseteq presumed' /\ (slot.status = "RUNNING" => slot.run \in presumed')
      BY <1>3 DEF ForceRun, TakenOver
    <2> QED BY <1>3, <2>1, <2>2, SlotClaimed DEF ForceRun
  <1>4. ASSUME NEW w \in Workers, EdgeRun(w) PROVE SlotInv'
    <2>1. CASE slot.status = "none"
      <3>1. slot.run = 0 BY <2>1 DEF SlotInv
      <3> QED BY <1>4, <1>b, <2>1, <3>1, SlotClaimed DEF EdgeRun
    <2>2. CASE slot.status # "none"
      BY <1>4, <2>2, SlotKept DEF EdgeRun, Become, TypeOK, Executing, At
    <2> QED BY <2>1, <2>2
  <1>5. ASSUME NEW w \in Workers, SweepByHand(w) PROVE SlotInv'
    BY <1>5, SlotKept DEF SweepByHand, Become, TypeOK, Executing, At
  <1>6. ASSUME NEW w \in Workers, Scan(w) \/ Create(w) PROVE SlotInv'
    <2>1. /\ proc[w].step \in {"scan", "create"}
          /\ proc'[w].step \in {"create", "finish", "send"} /\ proc'[w].run = proc[w].run
      BY <1>6, <1>a, OnwardRun DEF Scan, Create
    <2>2. \A v \in Workers : v # w => proc'[v] = proc[v]
      BY <1>6 DEF Scan, Create, Become, TypeOK
    <2> QED BY <1>6, <2>1, <2>2, SlotKept DEF Scan, Create, Executing
  <1>7. ASSUME NEW w \in Workers, Send(w) \/ Mark(w) PROVE SlotInv'
    <2>1. \A digest \in SUBSET Keys :
            /\ Past(proc[w], digest).step \in {"finish", "send"}
            /\ Past(proc[w], digest).run = proc[w].run
      BY <1>a DEF Past, Procs
    <2>2. proc[w].todo \in SUBSET Keys /\ proc[w].digest \in SUBSET Keys BY <1>a DEF Procs
    <2>3. \A v \in Workers : v # w => proc'[v] = proc[v]
      BY <1>7 DEF Send, Mark, Become, TypeOK
    <2>4. proc'[w].step \in {"finish", "send", "mark"} /\ proc'[w].run = proc[w].run
      <3>1. CASE Send(w)
        <4>1. PICK n \in proc[w].todo :
                LET digest == {m \in proc[w].todo : m[2] = n[2]} IN
                  \/ Become(w, [proc[w] EXCEPT !.step = "mark", !.digest = digest])
                  \/ Become(w, Past(proc[w], digest))
          BY <3>1 DEF Send
        <4>2. {m \in proc[w].todo : m[2] = n[2]} \in SUBSET Keys BY <2>2
        <4>3. CASE Become(w, [proc[w] EXCEPT !.step = "mark",
                                             !.digest = {m \in proc[w].todo : m[2] = n[2]}])
          BY <1>a, <4>3, OnwardRun
        <4>4. CASE Become(w, Past(proc[w], {m \in proc[w].todo : m[2] = n[2]}))
          BY <2>1, <4>2, <4>4 DEF Become, TypeOK
        <4> QED BY <4>1, <4>3, <4>4
      <3>2. CASE Mark(w) BY <2>1, <2>2, <3>2 DEF Mark, Become, TypeOK
      <3> QED BY <1>7, <3>1, <3>2
    <2>5. proc[w].step \in {"send", "mark"} /\ UNCHANGED <<slot, presumed>>
      BY <1>7 DEF Send, Mark
    <2> QED BY <2>3, <2>4, <2>5, SlotKept DEF Executing
  <1>8. ASSUME NEW w \in Workers, Finish(w) \/ Fail(w) PROVE SlotInv'
    BY <1>8, SlotEnded DEF Finish, Fail
  <1>9. ASSUME NEW w \in Workers, Crash(w) PROVE SlotInv'
    BY <1>9, SlotKept DEF Crash, Become, TypeOK, Executing, Idle, At
  <1>10. CASE GrowStale
    BY <1>10, <1>b DEF GrowStale, SlotInv, SawOfRow, Unmoved, Executing, Doubtful, Slots
  <1>11. CASE NextDay
    BY <1>11, SlotKept DEF NextDay, Executing
  <1>12. ASSUME Work PROVE SlotInv'
    BY <1>12, SlotKept DEF Work, Executing
  <1>13. ASSUME NEW u \in Users, Activate(u) PROVE SlotInv'
    BY <1>13, SlotKept DEF Activate, Executing
  <1>14. CASE UNCHANGED vars
    BY <1>14, SlotKept DEF vars, Executing
  <1> QED BY <1>1, <1>2, <1>3, <1>4, <1>5, <1>6, <1>7, <1>8, <1>9, <1>10, <1>11, <1>12, <1>13,
             <1>14 DEF Next

\* Nobody has touched the slot yet.
LEMMA InitSlot == ASSUME DailyJobAssumption, Init PROVE TypeOK /\ SlotInv
  <1>1. Unclaimed \in Slots BY DEF DailyJobAssumption, Unclaimed, Slots
  <1>2. Idle \in Procs BY <1>1, AtType DEF Idle, DailyJobAssumption
  <1>3. TypeOK BY <1>1, <1>2 DEF Init, TypeOK, Days, DailyJobAssumption
  <1>4. SlotInv BY DEF Init, SlotInv, Unclaimed, Executing, Idle, At
  <1> QED BY <1>3, <1>4

\* Any number of processes, triggers and claims: the rows and what the workers carry
\* keep their form.
THEOREM JobTypeCorrect == Spec => []TypeOK
  <1> USE DailyJobAssumption
  <1>1. Init => TypeOK /\ SlotInv BY InitSlot
  <1>2. TypeOK /\ SlotInv /\ [Next]_vars => TypeOK' /\ SlotInv' BY TypeStep, SlotStep
  <1> QED BY <1>1, <1>2, PTL DEF Spec

\* "Running a job exactly once per slot" (runner.ts), as far as it goes: two processes
\* are inside one slot only after the first of them, or a run before it, was
\* taken over.
THEOREM OneOwnerHolds == Spec => []OneOwner
  <1> USE DailyJobAssumption
  <1>1. Init => TypeOK /\ SlotInv BY InitSlot
  <1>2. TypeOK /\ SlotInv /\ [Next]_vars => TypeOK' /\ SlotInv' BY TypeStep, SlotStep
  <1>3. ASSUME TypeOK, SlotInv PROVE OneOwner
    <2> USE <1>3
    <2> SUFFICES ASSUME NEW w \in Workers, NEW v \in Workers,
                        w # v, Executing(w), Executing(v), proc[w].run <= proc[v].run
                 PROVE  /\ proc[w].run # proc[v].run
                        /\ \E p \in presumed : p <= proc[w].run /\ p <= proc[v].run
      <3>1. \A x \in Workers : proc[x].run \in Nat BY RunType
      <3> QED BY <3>1 DEF OneOwner
    <2>1. slot.run \in Nat /\ proc[w].run \in Nat /\ proc[v].run \in Nat /\ presumed \subseteq Int
      BY RunType DEF TypeOK
    <2>2. proc[w].run # proc[v].run BY DEF SlotInv
    <2>3. proc[w].run < slot.run BY <2>1, <2>2 DEF SlotInv
    <2>4. PICK p \in presumed : p <= proc[w].run BY <2>3 DEF SlotInv, Doubtful
    <2>5. p <= proc[v].run BY <2>1, <2>4
    <2> QED BY <2>2, <2>4, <2>5
  <1> QED BY <1>1, <1>2, <1>3, PTL DEF Spec

-----------------------------------------------------------------------------
(* The reminders: OneMailEach. *)

\* A step that touches no notification, and gives no worker another load, keeps
\* MailInv.
LEMMA MailKept ==
  ASSUME MailInv, UNCHANGED <<note, mailed>>,
         \A w \in Workers :
           \/ Carried(proc[w])' = Carried(proc[w]) /\ InFlight(proc[w])' = InFlight(proc[w])
           \/ Carried(proc[w])' = {} /\ InFlight(proc[w])' = {}
  PROVE  MailInv'
  BY DEF MailInv, OneMailEach

\* A worker that has not inserted its notifications, or is done with them, carries
\* none.
LEMMA EmptyHanded ==
  \A p : p.step \notin {"send", "mark"} => Carried(p) = {} /\ InFlight(p) = {}
  BY DEF Carried, InFlight

\* What a worker carries are keys, and what is in flight is part of its load.
LEMMA CarriedType ==
  ASSUME TypeOK, NEW w \in Workers
  PROVE  /\ proc[w] \in Procs
         /\ proc[w].todo \subseteq Keys /\ proc[w].digest \subseteq Keys
         /\ Carried(proc[w]) \subseteq Keys
  <1>1. proc[w] \in Procs BY DEF TypeOK
  <1>2. proc[w].todo \subseteq Keys /\ proc[w].digest \subseteq Keys BY <1>1 DEF Procs
  <1> QED BY <1>1, <1>2 DEF Carried

\* A worker that deals with part of its load leaves the rest as it was.
LEMMA Unloaded ==
  ASSUME NEW p \in Procs, NEW digest \in SUBSET Keys
  PROVE  Carried(Past(p, digest)) = p.todo \ digest /\ InFlight(Past(p, digest)) = {}
  <1>1. /\ Past(p, digest).todo = p.todo \ digest
        /\ Past(p, digest).step = IF p.todo \ digest = {} THEN "finish" ELSE "send"
    BY DEF Past, Procs
  <1> QED BY <1>1 DEF Carried, InFlight

\* The workers other than w are not affected by what w does to its own load.
LEMMA MailStepOf ==
  ASSUME TypeOK, MailInv, NEW w \in Workers, NEW mine \in SUBSET Keys,
         \A v \in Workers : v # w => proc'[v] = proc[v],
         \A v \in Workers : v # w => Carried(proc[v]) \cap mine = {},
         \A n \in Keys \ mine : note'[n] = note[n] /\ mailed'[n] = mailed[n],
         \A n \in mine :
           /\ mailed'[n] <= 1
           /\ note'[n] = "SENT" => mailed'[n] = 1
           /\ note'[n] # "none",
         Carried(proc[w])' \subseteq mine,
         InFlight(proc[w])' \subseteq Carried(proc[w])',
         \A n \in Carried(proc[w])' :
            /\ note'[n] = "PENDING"
            /\ n \in InFlight(proc[w])' => mailed'[n] = 1
            /\ n \notin InFlight(proc[w])' => mailed'[n] = 0
  PROVE  MailInv'
  <1>1. OneMailEach'
    <2>1. ASSUME NEW n \in Keys
          PROVE  /\ mailed'[n] <= 1
                 /\ note'[n] = "SENT" => mailed'[n] = 1
                 /\ note'[n] = "none" => mailed'[n] = 0
      <3>1. CASE n \in mine BY <3>1
      <3>2. CASE n \notin mine BY <3>2 DEF MailInv, OneMailEach
      <3> QED BY <3>1, <3>2
    <2> QED BY <2>1 DEF OneMailEach
  <1>2. ASSUME NEW v \in Workers, v # w
        PROVE  Carried(proc[v])' = Carried(proc[v]) /\ InFlight(proc[v])' = InFlight(proc[v])
    BY <1>2 DEF Carried, InFlight
  <1>3. ASSUME NEW v \in Workers
        PROVE  /\ InFlight(proc[v])' \subseteq Carried(proc[v])'
               /\ \A n \in Carried(proc[v])' :
                    /\ note'[n] = "PENDING"
                    /\ n \in InFlight(proc[v])' => mailed'[n] = 1
                    /\ n \notin InFlight(proc[v])' => mailed'[n] = 0
    <2>1. CASE v = w BY <2>1
    <2>2. CASE v # w
      <3>1. Carried(proc[v]) \subseteq Keys \ mine BY <2>2, CarriedType
      <3> QED BY <1>2, <2>2, <3>1 DEF MailInv
    <2> QED BY <2>1, <2>2
  <1>4. ASSUME NEW u \in Workers, NEW v \in Workers, u # v
        PROVE  Carried(proc[u])' \cap Carried(proc[v])' = {}
    <2>1. CASE u = w BY <1>2, <1>4, <2>1
    <2>2. CASE v = w BY <1>2, <1>4, <2>2
    <2>3. CASE u # w /\ v # w BY <1>2, <1>4, <2>3 DEF MailInv
    <2> QED BY <2>1, <2>2, <2>3
  <1> QED BY <1>1, <1>3, <1>4 DEF MailInv

\* The inductive step of MailInv.
LEMMA MailStep ==
  ASSUME DailyJobAssumption, TypeOK, MailInv, [Next]_vars
  PROVE  MailInv'
  <1> USE DEF World
  <1>a. \A w \in Workers : proc[w] \in Procs BY DEF TypeOK
  <1>b. ASSUME NEW w \in Workers, NEW p, Become(w, p), p.step \notin {"send", "mark"},
               UNCHANGED <<note, mailed>>
        PROVE  MailInv'
    <2>1. \A v \in Workers : proc'[v] = IF v = w THEN p ELSE proc[v] BY <1>b DEF Become, TypeOK
    <2>2. Carried(proc[w])' = {} /\ InFlight(proc[w])' = {} BY <1>b, <2>1, EmptyHanded
    <2>3. \A v \in Workers : v # w => /\ Carried(proc[v])' = Carried(proc[v])
                                      /\ InFlight(proc[v])' = InFlight(proc[v])
      BY <2>1
    <2> QED BY <1>b, <2>2, <2>3, MailKept
  <1>c. \A step, run : At(step, run).step = step BY DEF At
  <1>1. ASSUME NEW w \in Workers, Claim(w) PROVE MailInv'
    <2>1. [At("reclaim", 0) EXCEPT !.saw = slot].step = "reclaim" BY DEF At
    <2>2. CASE Become(w, At("scan", 1)) BY <1>1, <1>b, <1>c, <2>2 DEF Claim
    <2>3. CASE Become(w, [At("reclaim", 0) EXCEPT !.saw = slot]) BY <1>1, <1>b, <2>1, <2>3 DEF Claim
    <2> QED BY <1>1, <2>2, <2>3 DEF Claim
  <1>2. ASSUME NEW w \in Workers, Reclaim(w) PROVE MailInv'
    <2>1. \/ Become(w, At("scan", slot.run + 1)) \/ Become(w, Idle) BY <1>2 DEF Reclaim
    <2> QED BY <1>2, <1>b, <1>c, <2>1 DEF Reclaim, Idle
  <1>3. ASSUME NEW w \in Workers, ForceRun(w) PROVE MailInv'
    BY <1>3, <1>b, <1>c DEF ForceRun
  <1>4. ASSUME NEW w \in Workers, EdgeRun(w) PROVE MailInv'
    BY <1>4, <1>b, <1>c DEF EdgeRun
  <1>5. ASSUME NEW w \in Workers, SweepByHand(w) PROVE MailInv'
    BY <1>5, <1>b, <1>c DEF SweepByHand
  <1>6. ASSUME NEW w \in Workers, Scan(w) PROVE MailInv'
    <2> DEFINE p == [proc[w] EXCEPT !.step = "create",
                       !.todo = {n \in Keys : Chased(n[1]) /\ n[2] \in Recipients(n[1])
                                               /\ n[3] = Due[n[1]] - today}]
    <2>1. p.step = "create" BY <1>a DEF Procs
    <2>2. Become(w, p) /\ UNCHANGED <<note, mailed>> BY <1>6 DEF Scan
    <2> HIDE DEF p
    <2> QED BY <1>b, <2>1, <2>2
  <1>7. ASSUME NEW w \in Workers, Create(w) PROVE MailInv'
    <2> DEFINE made == Fresh(proc[w].todo)
               p == [proc[w] EXCEPT !.step = IF made = {} THEN "finish" ELSE "send", !.todo = made]
    <2>1. made \in SUBSET Keys /\ \A n \in made : note[n] = "none"
      BY CarriedType DEF Fresh
    <2>2. \A n \in Keys : note'[n] = IF n \in made THEN "PENDING" ELSE note[n]
      BY <1>7 DEF Create
    <2>3. mailed' = mailed BY <1>7 DEF Create
    <2>4. Become(w, p) BY <1>7 DEF Create
    <2>5. \A v \in Workers : proc'[v] = IF v = w THEN p ELSE proc[v]
      BY <2>4 DEF Become, TypeOK
    <2>6. p.todo = made /\ p.step = (IF made = {} THEN "finish" ELSE "send") BY <1>a DEF Procs
    <2>7. Carried(proc[w])' = made /\ InFlight(proc[w])' = {}
      <3>1. proc'[w] = p BY <2>5
      <3>2. CASE made = {} BY <2>6, <3>1, <3>2 DEF Carried, InFlight
      <3>3. CASE made # {} BY <2>6, <3>1, <3>3 DEF Carried, InFlight
      <3> QED BY <3>2, <3>3
    <2>8. \A n \in made : mailed'[n] = 0 BY <2>1, <2>3 DEF MailInv, OneMailEach
    <2>9. \A v \in Workers : v # w => Carried(proc[v]) \cap made = {}
      BY <2>1 DEF MailInv
    <2> HIDE DEF made, p
    <2> QED BY <2>1, <2>2, <2>3, <2>5, <2>7, <2>8, <2>9, MailStepOf
  <1>8. ASSUME NEW w \in Workers, Send(w) PROVE MailInv'
    <2>1. PICK n \in proc[w].todo :
            LET digest == {m \in proc[w].todo : m[2] = n[2]} IN
              \/ /\ mailed' = [m \in Keys |-> IF m \in digest THEN mailed[m] + 1 ELSE mailed[m]]
                 /\ Become(w, [proc[w] EXCEPT !.step = "mark", !.digest = digest])
                 /\ UNCHANGED note
              \/ /\ note' = Undelivered(digest)
                 /\ Become(w, Past(proc[w], digest))
                 /\ UNCHANGED mailed
      BY <1>8 DEF Send
    <2> DEFINE digest == {m \in proc[w].todo : m[2] = n[2]}
               load == proc[w].todo
    <2>2. digest \in SUBSET load /\ digest \in SUBSET Keys /\ load \in SUBSET Keys
      BY CarriedType
    <2>3. Carried(proc[w]) = load /\ InFlight(proc[w]) = {} BY <1>8 DEF Send, Carried, InFlight
    <2>4. \A m \in load : note[m] = "PENDING" /\ mailed[m] = 0 BY <2>3 DEF MailInv
    <2>5. \A v \in Workers : v # w => Carried(proc[v]) \cap load = {} BY <2>3 DEF MailInv
    <2>6. \A v \in Workers : v # w => proc'[v] = proc[v] BY <1>8 DEF Send, Become, TypeOK
    <2>7. CASE /\ mailed' = [m \in Keys |-> IF m \in digest THEN mailed[m] + 1 ELSE mailed[m]]
               /\ Become(w, [proc[w] EXCEPT !.step = "mark", !.digest = digest])
               /\ UNCHANGED note
      <3> DEFINE p == [proc[w] EXCEPT !.step = "mark", !.digest = digest]
      <3>1. p.step = "mark" /\ p.todo = load /\ p.digest = digest BY <1>a DEF Procs
      <3>2. proc'[w] = p BY <2>7 DEF Become, TypeOK
      <3>3. Carried(proc[w])' = load /\ InFlight(proc[w])' = digest
        BY <3>1, <3>2 DEF Carried, InFlight
      <3>4. \A m \in Keys : mailed'[m] = IF m \in digest THEN mailed[m] + 1 ELSE mailed[m]
        BY <2>7
      <3> HIDE DEF p, digest, load
      <3>5. \A m \in load : mailed'[m] = IF m \in digest THEN 1 ELSE 0 BY <2>2, <2>4, <3>4
      <3>6. \A m \in Keys \ load : mailed'[m] = mailed[m] BY <2>2, <3>4
      <3> QED BY <2>2, <2>4, <2>5, <2>6, <2>7, <3>3, <3>5, <3>6, MailStepOf
    <2>8. CASE /\ note' = Undelivered(digest)
               /\ Become(w, Past(proc[w], digest))
               /\ UNCHANGED mailed
      <3>1. proc'[w] = Past(proc[w], digest) BY <2>8 DEF Become, TypeOK
      <3>2. Carried(proc[w])' = load \ digest /\ InFlight(proc[w])' = {}
        BY <1>a, <2>2, <3>1, Unloaded
      <3>3. \A m \in Keys : note'[m] = IF m \in digest THEN "FAILED" ELSE note[m]
        BY <2>8 DEF Undelivered, Marked
      <3> HIDE DEF digest, load
      <3> QED BY <2>2, <2>4, <2>5, <2>6, <2>8, <3>2, <3>3, MailStepOf
    <2> QED BY <2>1, <2>7, <2>8
  <1>9. ASSUME NEW w \in Workers, Mark(w) PROVE MailInv'
    <2> DEFINE digest == proc[w].digest
               load == proc[w].todo
    <2>1. Carried(proc[w]) = load /\ InFlight(proc[w]) = digest BY <1>9 DEF Mark, Carried, InFlight
    <2>2. digest \in SUBSET load /\ digest \in SUBSET Keys /\ load \in SUBSET Keys
      BY <2>1, CarriedType DEF MailInv
    <2>3. \A m \in load : note[m] = "PENDING" /\ mailed[m] = IF m \in digest THEN 1 ELSE 0
      BY <2>1 DEF MailInv
    <2>4. \A v \in Workers : v # w => Carried(proc[v]) \cap load = {} BY <2>1 DEF MailInv
    <2>5. \A v \in Workers : v # w => proc'[v] = proc[v] BY <1>9 DEF Mark, Become, TypeOK
    <2>6. proc'[w] = Past(proc[w], digest) BY <1>9 DEF Mark, Become, TypeOK
    <2>7. Carried(proc[w])' = load \ digest /\ InFlight(proc[w])' = {}
      BY <1>a, <2>2, <2>6, Unloaded
    <2>8. PICK status \in {"SENT", "FAILED"} : \A m \in Keys :
            note'[m] = IF m \in digest THEN status ELSE note[m]
      BY <1>9 DEF Mark, Undelivered, Marked
    <2>9. mailed' = mailed BY <1>9 DEF Mark
    <2> HIDE DEF digest, load
    <2> QED BY <2>2, <2>3, <2>4, <2>5, <2>7, <2>8, <2>9, MailStepOf
  <1>10. ASSUME NEW w \in Workers, Finish(w) \/ Fail(w) \/ Crash(w) PROVE MailInv'
    BY <1>10, <1>b, <1>c DEF Finish, Fail, Crash, Idle
  <1>11. CASE GrowStale \/ NextDay
    BY <1>11, MailKept DEF GrowStale, NextDay
  <1>12. ASSUME Work PROVE MailInv'
    BY <1>12, MailKept DEF Work
  <1>13. ASSUME NEW u \in Users, Activate(u) PROVE MailInv'
    BY <1>13, MailKept DEF Activate
  <1>14. CASE UNCHANGED vars
    BY <1>14, MailKept DEF vars
  <1> QED BY <1>1, <1>2, <1>3, <1>4, <1>5, <1>6, <1>7, <1>8, <1>9, <1>10, <1>11, <1>12, <1>13,
             <1>14 DEF Next

\* "Idempotent" (notifications.service.ts): however many runs, take-overs and sweeps
\* by hand overlap, fail or die, no reminder is mailed twice, none reads SENT
\* unmailed, and whatever went out is on record.
THEOREM MailedOnce == Spec => []OneMailEach
  <1> USE DailyJobAssumption
  <1>1. Init => TypeOK /\ SlotInv BY InitSlot
  <1>2. ASSUME Init PROVE MailInv
    <2>1. \A w \in Workers : proc[w].step = "idle" BY <1>2 DEF Init, Idle, At
    <2> QED BY <1>2, <2>1 DEF Init, MailInv, OneMailEach, Carried, InFlight
  <1>3. TypeOK /\ SlotInv /\ [Next]_vars => TypeOK' /\ SlotInv' BY TypeStep, SlotStep
  <1>4. TypeOK /\ MailInv /\ [Next]_vars => MailInv' BY MailStep
  <1>5. MailInv => OneMailEach BY DEF MailInv
  <1> QED BY <1>1, <1>2, <1>3, <1>4, <1>5, PTL DEF Spec

-----------------------------------------------------------------------------
(* The recipients: SomebodyHears. *)

\* The last active super admin stays (updateUser).
LEMMA AdminStep ==
  ASSUME AdminInv, [Next]_vars
  PROVE  AdminInv'
  <1>1. UNCHANGED active \/ AdminInv'
    BY DEF Next, vars, World, Claim, Reclaim, ForceRun, EdgeRun, SweepByHand, Scan, Create, Send, Mark,
           Finish, Fail, Crash, GrowStale, NextDay, Work, Activate, AdminInv
  <1> QED BY <1>1 DEF AdminInv

\* An obligation the sweep speaks of is spoken of to somebody.
LEMMA HasRecipient ==
  ASSUME DailyJobAssumption, TypeOK, AdminInv, NEW i \in Items, Chased(i)
  PROVE  \E u \in Users : u \in Recipients(i) /\ <<i, u, Due[i] - today>> \in Keys
  <1>1. \E u \in Users : u \in Recipients(i)
    BY DEF TypeOK, AdminInv, Recipients
  <1>2. Due[i] - today \in Int /\ today \in Int
    BY DEF TypeOK, Days, DailyJobAssumption
  <1>3. Due[i] - today \in {0} \cup Offsets \cup {-n : n \in Nudges}
    <2>1. CASE Due[i] - today = 0 \/ Due[i] - today > 0 BY <2>1 DEF Chased, HasKind
    <2>2. CASE ~(Due[i] - today = 0 \/ Due[i] - today > 0)
      <3>1. -(Due[i] - today) \in Nudges BY <2>2 DEF Chased, HasKind
      <3>2. Due[i] - today = -(-(Due[i] - today)) BY <1>2
      <3> QED BY <3>1, <3>2
    <2> QED BY <2>1, <2>2
  <1> QED BY <1>1, <1>3 DEF Keys

\* Only the sweep's scan takes a worker from "scan" to "create", and it lists
\* somebody for every obligation it speaks of.
LEMMA HeardStep ==
  ASSUME DailyJobAssumption, TypeOK, AdminInv, [Next]_vars,
         NEW w \in Workers, proc[w].step = "scan", proc'[w].step = "create",
         NEW i \in Items, Chased(i)
  PROVE  \E n \in proc'[w].todo : n[1] = i
  <1> USE DEF World
  <1>1. Scan(w)
    <2>a. \A step, run : At(step, run).step = step BY DEF At
    <2>1. ASSUME NEW v \in Workers, NEW p, Become(v, p), v # w \/ p.step # "create" PROVE FALSE
      BY <2>1 DEF Become, TypeOK
    <2>2. ASSUME NEW v \in Workers, Claim(v) \/ ForceRun(v) \/ EdgeRun(v) \/ SweepByHand(v)
          PROVE  FALSE
      <3>1. v # w BY <2>2 DEF Claim, ForceRun, EdgeRun, SweepByHand
      <3>2. \E p : Become(v, p) BY <2>2 DEF Claim, ForceRun, EdgeRun, SweepByHand
      <3> QED BY <2>1, <3>1, <3>2
    <2>3. ASSUME NEW v \in Workers, Reclaim(v) \/ Create(v) \/ Send(v) \/ Mark(v) PROVE FALSE
      <3>1. v # w BY <2>3 DEF Reclaim, Create, Send, Mark
      <3>2. \E p : Become(v, p) BY <2>3 DEF Reclaim, Create, Send, Mark
      <3> QED BY <2>1, <3>1, <3>2
    <2>4. ASSUME NEW v \in Workers, Finish(v) \/ Fail(v) \/ Crash(v) PROVE FALSE
      BY <2>1, <2>4, <2>a DEF Finish, Fail, Crash, Idle
    <2>5. ASSUME NEW v \in Workers, Scan(v), v # w PROVE FALSE
      <3>1. \E p : Become(v, p) BY <2>5 DEF Scan
      <3> QED BY <2>1, <2>5, <3>1
    <2>6. UNCHANGED proc => FALSE OBVIOUS
    <2> QED BY <2>2, <2>3, <2>4, <2>5, <2>6 DEF Next, vars, GrowStale, NextDay, Work, Activate
  <1> DEFINE todo == {n \in Keys : Chased(n[1]) /\ n[2] \in Recipients(n[1])
                                   /\ n[3] = Due[n[1]] - today}
  <1>2. proc'[w].todo = todo
    <2>1. proc'[w] = [proc[w] EXCEPT !.step = "create", !.todo = todo]
      BY <1>1 DEF Scan, Become, TypeOK
    <2>2. proc[w] \in Procs BY DEF TypeOK
    <2> HIDE DEF todo
    <2> QED BY <2>1, <2>2 DEF Procs
  <1>3. PICK u \in Users : u \in Recipients(i) /\ <<i, u, Due[i] - today>> \in Keys
    BY HasRecipient
  <1>4. <<i, u, Due[i] - today>> \in todo BY <1>3
  <1> QED BY <1>2, <1>4

\* A reminder that falls due has a recipient, whoever is deactivated: the assignee,
\* or those who hold the company and the super admins (resolveRecipients).
THEOREM SomebodyAlwaysHears == Spec => SomebodyHears
  <1> USE DailyJobAssumption
  <1>1. Init => TypeOK /\ SlotInv BY InitSlot
  <1>2. Init => AdminInv BY DEF Init, AdminInv, DailyJobAssumption
  <1>3. TypeOK /\ SlotInv /\ [Next]_vars => TypeOK' /\ SlotInv' BY TypeStep, SlotStep
  <1>4. AdminInv /\ [Next]_vars => AdminInv' BY AdminStep
  <1>5. TypeOK /\ AdminInv /\ [Next]_vars
          => [\A w \in Workers : proc[w].step = "scan" /\ proc'[w].step = "create" =>
                \A i \in Items : Chased(i) => \E n \in proc'[w].todo : n[1] = i]_vars
    BY HeardStep
  <1> QED BY <1>1, <1>2, <1>3, <1>4, <1>5, PTL DEF Spec, SomebodyHears
=============================================================================
