-------------------------- MODULE Regulatory_proofs --------------------------
(***************************************************************************)
(* Proofs about Regulatory, for any rules, circulars, proposals, companies *)
(* and overlays: what a process serves, with any number of requests on any *)
(* number of processes; the review queue, the overlays behind it and the   *)
(* calendars, with requests served one after the other.                    *)
(***************************************************************************)
EXTENDS Regulatory, FiniteSetTheorems, TLAPS

OneAtATime == \A v, w \in Workers : v = w

-----------------------------------------------------------------------------
(* The inductive invariants. *)

Exists(o) == overlay[o].status # "none"
Existing  == {o \in Overlays : Exists(o)}

\* Overlays are created in order, for a rule of the catalog, and stay; nothing that
\* is held in memory or by a request names one that has not been created.
OverlayInv ==
  /\ \E n \in 0..MaxOverlays : \A o \in Overlays : Exists(o) <=> o <= n
  /\ \A o \in Overlays : IF Exists(o) THEN overlay[o].rule \in Rules ELSE overlay[o].source = {}
  /\ \A r \in Replicas : engine[r].registered \subseteq Existing /\ engine[r].memo.ids \subseteq Existing
  /\ \A w \in Workers :
       /\ proc[w].step = "revoke" => proc[w].overlay \in Existing
       /\ proc[w].step = "set" => proc[w].rows \subseteq Existing
       /\ proc[w].step = "approve" => RuleOf[proc[w].proposal] # NoRule

\* What is in a process's cache is the view of the day, and of the overlays, it
\* was made for.
MemoInv ==
  \A r \in Replicas : engine[r].memo.day # -1 =>
    \A rule \in Rules :
      engine[r].memo.view[rule].by = Amending(rule, engine[r].memo.ids, engine[r].memo.day)

\* No two proposals of the rule await review.
Settled(rule) == \A p, q \in PendingFor(rule) : p = q

\* Proposals, and what requests hold of them, are of circulars that are stored.
StoredInv ==
  /\ \A p \in Proposals : proposal[p].status # "none" => CircularOf[p] \in stored
  /\ \A w \in Workers :
       /\ proc[w].step \in {"approve", "reject"} => CircularOf[proc[w].proposal] \in stored
       /\ proc[w].step = "supersede" => \A p \in proc[w].older : CircularOf[p] \in stored

\* The queue and the overlays: a request that is about to write a proposal knows
\* how it stands, and a sweep leaves one pending proposal to a rule.
ReviewInv ==
  /\ OneOverlayEach
  /\ \A w \in Workers :
       /\ proc[w].step \in {"approve", "reject"} =>
            proposal[proc[w].proposal].status \notin {"none", "APPROVED"}
       /\ proc[w].step = "supersede" =>
            /\ \A p \in proc[w].older : proposal[p].status = "PENDING"
            /\ \A rule \in proc[w].rules : \A p, q \in PendingFor(rule) \ proc[w].older : p = q
  /\ \A rule \in Rules :
       \/ Settled(rule) \/ rule \in cutOff
       \/ \E w \in Workers : proc[w].step \in {"queue", "supersede"} /\ rule \in proc[w].rules

\* c's calendar says what the ACTIVE overlays said on the day it was made.
Current(c) ==
  calendar[c].day # -1 =>
    \A rule \in Rules : calendar[c].by[rule] = Amending(rule, Active, calendar[c].day)

\* w carries an amendment that the memory of its process may not have yet.
Announcing(w) == proc[w].step \in {"refresh", "set"} /\ proc[w].rule # NoRule

\* w regenerates calendars because of an amendment, and has c still to do.
Amends(w) == \/ proc[w].step = "propagate"
             \/ proc[w].step \in {"evaluate", "write"} /\ proc[w].amending
Reaches(w, c) ==
  \/ Announcing(w)
  \/ proc[w].step = "propagate"
  \/ proc[w].step \in {"evaluate", "write"} /\ proc[w].amending /\ c \in proc[w].todo
  \/ proc[w].step = "write" /\ proc[w].amending /\ c = proc[w].company

\* A calendar is current, or somebody is on the way to it; and the process that
\* makes it has the ACTIVE overlays in memory, unless all are given up.
CalendarInv ==
  /\ \A c \in Companies : calendar[c].day # -1 => c \in evaluated
  /\ \A c \in Companies \ stranded : Current(c) \/ \E w \in Workers : Reaches(w, c)
  /\ \A w \in Workers :
       /\ proc[w].step = "propagate" => proc[w].rule # NoRule
       /\ proc[w].step = "set" => proc[w].rows = Active
       /\ Amends(w) => engine[Home[w]].registered = Active
       /\ engine[Home[w]].registered = Active \/ stranded = Companies \/ Announcing(w)
       /\ proc[w].step = "write" =>
            /\ proc[w].company \in evaluated
            /\ \A rule \in Rules :
                 proc[w].by[rule] = Amending(rule, engine[Home[w]].registered, proc[w].day)

-----------------------------------------------------------------------------
(* Types. *)

\* What a worker is in the middle of, by its step.
LEMMA OfProc ==
  ASSUME NEW p \in Procs
  PROVE  /\ p.step \in {"idle", "approve", "reject", "revoke", "refresh", "propagate", "set", "evaluate",
                        "write", "store", "queue", "supersede"}
         /\ p = Idle <=> p.step = "idle"
         /\ p.step \in {"approve", "reject"} => p.proposal \in Proposals
         /\ p.step = "revoke" => p.overlay \in Overlays
         /\ p.step \in {"refresh", "propagate", "set"} => p.rule \in Targets
         /\ p.step = "set" => p.rows \subseteq Overlays
         /\ p.step = "evaluate" => p.todo # {}
         /\ p.step \in {"evaluate", "write"} => p.todo \subseteq Companies /\ p.amending \in BOOLEAN
         /\ p.step = "write" => p.company \in Companies /\ p.day \in Days /\ p.by \in [Rules -> SUBSET Overlays]
         /\ p.step = "store" => p.circular \in Circulars
         /\ p.step \in {"queue", "supersede"} => p.rules \subseteq Rules
         /\ p.step = "supersede" => p.older \subseteq Proposals
<1>1. CASE p = Idle
  BY <1>1 DEF Idle
<1>2. CASE p \in [step : {"approve", "reject"}, proposal : Proposals]
  BY <1>2 DEF Idle
<1>3. CASE p \in [step : {"revoke"}, overlay : Overlays]
  BY <1>3 DEF Idle
<1>4. CASE p \in [step : {"refresh", "propagate"}, rule : Targets]
  BY <1>4 DEF Idle
<1>5. CASE p \in [step : {"set"}, rule : Targets, rows : SUBSET Overlays]
  BY <1>5 DEF Idle
<1>6. CASE p \in [step : {"evaluate"}, todo : (SUBSET Companies) \ {{}}, amending : BOOLEAN]
  <2>1. p.step = "evaluate" /\ p.todo \subseteq Companies /\ p.todo # {} /\ p.amending \in BOOLEAN
    BY <1>6
  <2>2. p # Idle
    BY <2>1 DEF Idle
  <2> QED  BY <2>1, <2>2 DEF Idle
<1>7. CASE p \in [step : {"write"}, todo : SUBSET Companies, amending : BOOLEAN, company : Companies,
                  day : Days, by : [Rules -> SUBSET Overlays]]
  BY <1>7 DEF Idle
<1>8. CASE p \in [step : {"store"}, circular : Circulars]
  BY <1>8 DEF Idle
<1>9. CASE p \in [step : {"queue"}, rules : SUBSET Rules]
  BY <1>9 DEF Idle
<1>10. CASE p \in [step : {"supersede"}, rules : SUBSET Rules, older : SUBSET Proposals]
  BY <1>10 DEF Idle
<1> QED  BY <1>1, <1>2, <1>3, <1>4, <1>5, <1>6, <1>7, <1>8, <1>9, <1>10 DEF Procs

\* The worker is where it is put, and the others where they were.
LEMMA Becomes ==
  ASSUME proc \in [Workers -> Procs], NEW w \in Workers, NEW p, Become(w, p)
  PROVE  /\ proc'[w] = p
         /\ \A v \in Workers : v # w => proc'[v] = proc[v]
         /\ p \in Procs => proc' \in [Workers -> Procs]
  BY DEF Become

\* The next overlay has a number.
LEMMA NextIsNumber == NextOverlay \in Nat \ {0}
<1>1. IsFiniteSet({o \in Overlays : overlay[o].status # "none"})
  <2>1. IsFiniteSet(Overlays)
    BY FS_Interval, RegulatoryAssumption DEF Overlays
  <2> QED  BY <2>1, FS_Subset
<1> QED  BY <1>1, FS_CardinalityType DEF NextOverlay

\* A proposal that is not among some is one more.
LEMMA OneMore ==
  ASSUME NEW S \in SUBSET Proposals, NEW p \in Proposals, p \notin S
  PROVE  Cardinality(S) + 1 \in 0..Cardinality(Proposals)
<1>1. IsFiniteSet(Proposals) /\ IsFiniteSet(S)
  BY RegulatoryAssumption, FS_Subset
<1>2. Cardinality(S \cup {p}) = Cardinality(S) + 1 /\ IsFiniteSet(S \cup {p})
  BY <1>1, FS_AddElement
<1>3. S \cup {p} \subseteq Proposals
  OBVIOUS
<1>4. Cardinality(S \cup {p}) <= Cardinality(Proposals)
  BY <1>1, <1>3, FS_Subset
<1> QED  BY <1>1, <1>2, <1>4, FS_CardinalityType

\* What the engine serves and what asking it leaves are of their kinds.
LEMMA ServedType ==
  ASSUME NEW e \in Engines, today \in Days
  PROVE  /\ Served(e) \in Views /\ Asked(e) \in Engines /\ Asked(e).registered = e.registered
         /\ \A rows \in SUBSET Overlays : Registered(e, rows) \in Engines /\ Booted(rows) \in Engines
<1>1. NoMemo \in Memos
  BY DEF NoMemo, Memos, Views
<1>2. Applied(e, today) \in Views
  BY DEF Applied, Views, Engines, Amending
<1>3. Served(e) \in Views
  BY <1>2 DEF Served, Engines, Memos
<1>4. [day |-> today, ids |-> e.registered, view |-> Applied(e, today)] \in Memos
  BY <1>2 DEF Memos, Engines
<1>5. Asked(e) \in Engines /\ Asked(e).registered = e.registered
  BY <1>4, RegulatoryAssumption DEF Asked, Engines
<1>6. \A rows \in SUBSET Overlays : Registered(e, rows) \in Engines /\ Booted(rows) \in Engines
  BY <1>1 DEF Registered, Booted, Engines
<1> QED  BY <1>3, <1>5, <1>6

LEMMA ApprovedRow ==
  ASSUME NEW row \in ProposalRows, NEW n \in 1..MaxOverlays
  PROVE  [row EXCEPT !.status = "APPROVED", !.overlay = n] \in ProposalRows
<1>1. n \in 0..MaxOverlays
  BY RegulatoryAssumption
<1> QED  BY <1>1 DEF ProposalRows

LEMMA InitType == Init => TypeOK /\ StoredInv
<1> SUFFICES ASSUME Init PROVE TypeOK /\ StoredInv
  OBVIOUS
<1>1. proposal \in [Proposals -> ProposalRows]
  <2>1. Cardinality(Proposals) \in Nat
    BY RegulatoryAssumption, FS_CardinalityType
  <2> QED  BY <2>1, RegulatoryAssumption DEF Init, ProposalRows
<1>2. overlay \in [Overlays -> OverlayRows]
  BY RegulatoryAssumption DEF Init, OverlayRows, Days
<1>3. engine \in [Replicas -> Engines]
  BY DEF Init, Engines, Booted, NoMemo, Memos, Views
<1>4. today \in Days
  BY RegulatoryAssumption DEF Init, Days
<1>5. proc \in [Workers -> Procs] /\ \A w \in Workers : proc[w].step = "idle"
  BY DEF Init, Procs, Idle
<1>6. calendar \in [Companies -> [day : Days \cup {-1}, by : [Rules -> SUBSET Overlays]]]
  BY DEF Init
<1> QED  BY <1>1, <1>2, <1>3, <1>4, <1>5, <1>6 DEF Init, TypeOK, StoredInv

\* Types and what is known of stored circulars hold together: a circular's proposals
\* are born with it.
TypeInv == TypeOK /\ StoredInv

LEMMA TypeStep == TypeInv /\ [Next]_vars => TypeInv'
<1> SUFFICES ASSUME TypeInv, [Next]_vars PROVE TypeInv'
  OBVIOUS
<1>i. TypeOK /\ StoredInv
  BY DEF TypeInv
<1>s. StoredInv /\ UNCHANGED <<stored, proposal, proc>> => StoredInv'
  BY DEF StoredInv
<1>p. proc \in [Workers -> Procs]
  BY <1>i DEF TypeOK
<1>d. Idle \in Procs /\ Idle.step = "idle"
  BY DEF Procs, Idle
\* A request that goes on to p, which is about proposals of stored circulars.
<1>m. ASSUME NEW w \in Workers, NEW p \in Procs, Become(w, p), UNCHANGED <<stored, proposal>>,
             p.step \in {"approve", "reject"} => CircularOf[p.proposal] \in stored,
             p.step = "supersede" => \A o \in p.older : CircularOf[o] \in stored
      PROVE  proc' \in [Workers -> Procs] /\ StoredInv'
  <2>1. proc' \in [Workers -> Procs] /\ proc'[w] = p /\ \A v \in Workers : v # w => proc'[v] = proc[v]
    BY <1>m, <1>p, Becomes
  <2> QED  BY <1>i, <1>m, <2>1 DEF StoredInv
<1>1. ASSUME NEW w \in Workers, NEW circular \in Circulars, StoreRead(w, circular) PROVE TypeInv'
  <2>1. [step |-> "store", circular |-> circular] \in Procs
    BY DEF Procs
  <2>2. proc' \in [Workers -> Procs] /\ StoredInv'
    BY <1>1, <1>m, <2>1 DEF StoreRead, Queue
  <2> QED  BY <1>i, <1>1, <2>2 DEF StoreRead, Queue, Calendars, TypeOK, TypeInv
<1>2. ASSUME NEW w \in Workers, StoreWrite(w) PROVE TypeInv'
  <2> DEFINE circular == proc[w].circular
             rules == {RuleOf[p] : p \in Drafted(circular)} \ {NoRule}
             born == Cardinality({p \in Proposals : proposal[p].status # "none"}) + 1
  <2>1. circular \in Circulars
    BY <1>2, <1>p, OfProc DEF StoreWrite
  <2>2. CASE circular \in stored
    <3>1. Become(w, Idle) /\ UNCHANGED <<stored, proposal>>
      BY <1>2, <2>2 DEF StoreWrite
    <3>2. proc' \in [Workers -> Procs] /\ StoredInv'
      BY <1>d, <1>m, <3>1
    <3> QED  BY <1>i, <1>2, <3>1, <3>2 DEF StoreWrite, Calendars, TypeOK, TypeInv
  <2>3. CASE circular \notin stored
    <3>1. /\ stored' = stored \cup {circular}
          /\ proposal' = [p \in Proposals |->
               IF p \in Drafted(circular)
               THEN [status |-> Prepared(p), born |-> born, overlay |-> 0] ELSE proposal[p]]
          /\ Become(w, IF rules = {} THEN Idle ELSE [step |-> "queue", rules |-> rules])
          /\ UNCHANGED <<today, overlay, engine, Calendars, cutOff>>
      BY <1>2, <2>3 DEF StoreWrite
    <3>2. rules \subseteq Rules
      BY RegulatoryAssumption DEF Drafted
    <3>3. (IF rules = {} THEN Idle ELSE [step |-> "queue", rules |-> rules]) \in Procs
      <4>1. [step |-> "queue", rules |-> rules] \in [step : {"queue"}, rules : SUBSET Rules]
        BY <3>2
      <4> QED  BY <4>1, <1>d DEF Procs
    <3>4. proc' \in [Workers -> Procs] /\ proc'[w].step \in {"idle", "queue"}
          /\ \A v \in Workers : v # w => proc'[v] = proc[v]
      BY <1>d, <1>p, <3>1, <3>3, Becomes
    <3>5. \A p \in Drafted(circular) : p \in Proposals /\ CircularOf[p] = circular /\ proposal[p].status = "none"
      BY <1>i, <2>3 DEF Drafted, StoredInv
    <3>6. ASSUME NEW p \in Drafted(circular)
          PROVE  [status |-> Prepared(p), born |-> born, overlay |-> 0] \in ProposalRows
      <4>1. {o \in Proposals : proposal[o].status # "none"} \in SUBSET Proposals
        OBVIOUS
      <4>2. p \in Proposals /\ p \notin {o \in Proposals : proposal[o].status # "none"}
        BY <3>5
      <4>3. born \in 0..Cardinality(Proposals)
        BY <4>1, <4>2, OneMore
      <4>4. 0 \in 0..MaxOverlays
        BY RegulatoryAssumption
      <4> QED  BY <4>3, <4>4 DEF ProposalRows, Prepared
    <3> HIDE DEF circular, rules, born
    <3>7. proposal' \in [Proposals -> ProposalRows]
      BY <1>i, <3>1, <3>6 DEF TypeOK
    <3>8. StoredInv'
      <4>1. \A p \in Proposals : proposal'[p].status # "none" => CircularOf[p] \in stored'
        BY <1>i, <3>1, <3>5 DEF StoredInv
      <4> QED  BY <1>i, <3>1, <3>4, <4>1 DEF StoredInv
    <3> QED  BY <1>i, <2>1, <3>1, <3>4, <3>7, <3>8 DEF TypeOK, TypeInv, Calendars
  <2> QED  BY <2>2, <2>3
<1>3. ASSUME NEW w \in Workers, SupersedeRead(w) PROVE TypeInv'
  <2>1. PICK kept \in SUBSET {p \in Proposals : RuleOf[p] \in proc[w].rules /\ proposal[p].status = "PENDING"} :
          Become(w, [step |-> "supersede", rules |-> proc[w].rules, older |-> Superseded(kept)])
    BY <1>3 DEF SupersedeRead
  <2>2. \A p \in Superseded(kept) : p \in Proposals /\ proposal[p].status = "PENDING"
    BY DEF Superseded, PendingFor
  <2>3. proc[w].rules \subseteq Rules
    BY <1>3, <1>p, OfProc DEF SupersedeRead
  <2>4. [step |-> "supersede", rules |-> proc[w].rules, older |-> Superseded(kept)] \in Procs
    BY <2>2, <2>3 DEF Procs
  <2>5. \A p \in Superseded(kept) : CircularOf[p] \in stored
    BY <1>i, <2>2 DEF StoredInv
  <2>6. proc' \in [Workers -> Procs] /\ StoredInv'
    BY <1>3, <1>m, <2>1, <2>4, <2>5 DEF SupersedeRead, Queue
  <2> QED  BY <1>i, <1>3, <2>6 DEF SupersedeRead, Queue, Calendars, TypeOK, TypeInv
<1>4. ASSUME NEW w \in Workers, SupersedeWrite(w) PROVE TypeInv'
  <2>1. proc[w].older \subseteq Proposals /\ \A p \in proc[w].older : CircularOf[p] \in stored
    BY <1>i, <1>4, <1>p, OfProc DEF SupersedeWrite, StoredInv
  <2>2. proc' \in [Workers -> Procs] /\ proc'[w] = Idle /\ \A v \in Workers : v # w => proc'[v] = proc[v]
    BY <1>4, <1>d, <1>p, Becomes DEF SupersedeWrite
  <2>3. \A p \in Proposals : [proposal[p] EXCEPT !.status = "SUPERSEDED"] \in ProposalRows
    BY <1>i DEF TypeOK, ProposalRows
  <2>4. proposal' \in [Proposals -> ProposalRows]
    BY <1>i, <1>4, <2>3 DEF SupersedeWrite, TypeOK
  <2>5. StoredInv'
    <3>1. \A p \in Proposals : proposal'[p].status # "none" => CircularOf[p] \in stored'
      BY <1>i, <1>4, <2>1 DEF SupersedeWrite, StoredInv
    <3> QED  BY <1>i, <1>4, <1>d, <2>2, <3>1 DEF SupersedeWrite, StoredInv
  <2> QED  BY <1>i, <1>4, <2>2, <2>4, <2>5 DEF SupersedeWrite, Calendars, TypeOK, TypeInv
<1>5. ASSUME NEW w \in Workers, NEW p \in Proposals, ApproveRead(w, p) \/ RejectRead(w, p) PROVE TypeInv'
  <2>1. PICK q \in {[step |-> "approve", proposal |-> p], [step |-> "reject", proposal |-> p]} :
          Become(w, q) /\ UNCHANGED <<today, Queue, overlay, engine, Calendars>>
    BY <1>5 DEF ApproveRead, RejectRead
  <2>2. q \in Procs /\ q.step \in {"approve", "reject"} /\ q.proposal = p
    BY <2>1 DEF Procs
  <2>3. CircularOf[p] \in stored
    BY <1>i, <1>5 DEF ApproveRead, RejectRead, Approvable, StoredInv
  <2>4. proc' \in [Workers -> Procs] /\ StoredInv'
    BY <1>m, <2>1, <2>2, <2>3 DEF Queue
  <2> QED  BY <1>i, <2>1, <2>4 DEF Queue, Calendars, TypeOK, TypeInv
\* A new overlay.
<1>o. ASSUME NEW rule \in Targets, NEW source \in SUBSET Proposals, Overlaid(rule, source)
      PROVE  overlay' \in [Overlays -> OverlayRows] /\ NextOverlay \in 1..MaxOverlays
  <2>1. PICK patch \in Patches :
          overlay' = [overlay EXCEPT ![NextOverlay] =
            [status |-> "ACTIVE", rule |-> rule, patch |-> patch, source |-> source]]
    BY <1>o DEF Overlaid
  <2>2. [status |-> "ACTIVE", rule |-> rule, patch |-> patch, source |-> source] \in OverlayRows
    BY RegulatoryAssumption DEF OverlayRows, Targets, Days
  <2>3. overlay' \in [Overlays -> OverlayRows]
    BY <1>i, <2>1, <2>2 DEF TypeOK
  <2>4. NextOverlay \in 1..MaxOverlays
    BY <1>o, NextIsNumber, RegulatoryAssumption DEF Overlaid
  <2> QED  BY <2>3, <2>4
<1>6. ASSUME NEW w \in Workers, ApproveWrite(w) PROVE TypeInv'
  <2> DEFINE p == proc[w].proposal
  <2>1. p \in Proposals /\ CircularOf[p] \in stored /\ RuleOf[p] \in Targets
    BY <1>i, <1>6, <1>p, OfProc, RegulatoryAssumption DEF ApproveWrite, StoredInv, Targets
  <2>2. overlay' \in [Overlays -> OverlayRows] /\ NextOverlay \in 1..MaxOverlays
    BY <1>6, <1>o, <2>1 DEF ApproveWrite
  <2>3. [step |-> "refresh", rule |-> RuleOf[p]] \in Procs
    BY <2>1 DEF Procs
  <2>4. /\ proc' \in [Workers -> Procs] /\ proc'[w].step = "refresh"
        /\ \A v \in Workers : v # w => proc'[v] = proc[v]
    BY <1>6, <1>p, <2>3, Becomes DEF ApproveWrite
  <2>5. /\ proposal' = [proposal EXCEPT ![p] = [proposal[p] EXCEPT !.status = "APPROVED", !.overlay = NextOverlay]]
        /\ UNCHANGED <<today, stored, engine, Calendars, cutOff>>
    BY <1>6 DEF ApproveWrite
  <2>6. [proposal[p] EXCEPT !.status = "APPROVED", !.overlay = NextOverlay] \in ProposalRows
    <3>1. proposal[p] \in ProposalRows
      BY <1>i, <2>1 DEF TypeOK
    <3> QED  BY <2>2, <3>1, ApprovedRow
  <2> HIDE DEF p
  <2>7. proposal' \in [Proposals -> ProposalRows]
    BY <1>i, <2>5, <2>6 DEF TypeOK
  <2>8. StoredInv'
    BY <1>i, <2>1, <2>4, <2>5 DEF StoredInv, TypeOK
  <2> QED  BY <1>i, <2>2, <2>4, <2>5, <2>7, <2>8 DEF TypeOK, TypeInv, Calendars
<1>7. ASSUME NEW w \in Workers, RejectWrite(w) PROVE TypeInv'
  <2> DEFINE p == proc[w].proposal
  <2>1. p \in Proposals /\ CircularOf[p] \in stored
    BY <1>i, <1>7, <1>p, OfProc DEF RejectWrite, StoredInv
  <2>2. PICK status \in {"REJECTED", "CODE_CHANGE_REQUIRED"} :
          proposal' = [proposal EXCEPT ![p] = [proposal[p] EXCEPT !.status = status]]
    BY <1>7 DEF RejectWrite
  <2>3. /\ proc' \in [Workers -> Procs] /\ proc'[w].step = "idle"
        /\ \A v \in Workers : v # w => proc'[v] = proc[v]
    BY <1>7, <1>d, <1>p, Becomes DEF RejectWrite
  <2>4. UNCHANGED <<today, stored, overlay, engine, Calendars, cutOff>>
    BY <1>7 DEF RejectWrite
  <2>5. [proposal[p] EXCEPT !.status = status] \in ProposalRows
    <3>1. proposal[p] \in ProposalRows
      BY <1>i, <2>1 DEF TypeOK
    <3> HIDE DEF p
    <3> QED  BY <3>1 DEF ProposalRows
  <2> HIDE DEF p
  <2>6. proposal' \in [Proposals -> ProposalRows]
    BY <1>i, <2>2, <2>5 DEF TypeOK
  <2>7. StoredInv'
    BY <1>i, <2>1, <2>2, <2>3, <2>4 DEF StoredInv, TypeOK
  <2> QED  BY <1>i, <2>3, <2>4, <2>6, <2>7 DEF TypeOK, TypeInv, Calendars
<1>8. ASSUME NEW w \in Workers, NEW rule \in Rules, CreateOverlay(w, rule) PROVE TypeInv'
  <2>1. overlay' \in [Overlays -> OverlayRows]
    BY <1>8, <1>o DEF CreateOverlay, Targets
  <2>2. [step |-> "refresh", rule |-> rule] \in Procs
    BY DEF Procs, Targets
  <2>3. proc' \in [Workers -> Procs] /\ StoredInv'
    BY <1>8, <1>m, <2>2 DEF CreateOverlay, Queue
  <2> QED  BY <1>i, <1>8, <2>1, <2>3 DEF CreateOverlay, Queue, Calendars, TypeOK, TypeInv
<1>9. ASSUME NEW w \in Workers, NEW o \in Overlays, RevokeRead(w, o) PROVE TypeInv'
  <2>1. [step |-> "revoke", overlay |-> o] \in Procs
    BY DEF Procs
  <2>2. proc' \in [Workers -> Procs] /\ StoredInv'
    BY <1>9, <1>m, <2>1 DEF RevokeRead, Queue
  <2> QED  BY <1>i, <1>9, <2>2 DEF RevokeRead, Queue, Calendars, TypeOK, TypeInv
<1>10. ASSUME NEW w \in Workers, RevokeWrite(w) PROVE TypeInv'
  <2> DEFINE o == proc[w].overlay
  <2>1. o \in Overlays /\ overlay[o] \in OverlayRows
    BY <1>i, <1>10, <1>p, OfProc DEF RevokeWrite, TypeOK
  <2>2. [overlay[o] EXCEPT !.status = "REVOKED"] \in OverlayRows /\ overlay[o].rule \in Targets
    BY <2>1 DEF OverlayRows, Targets
  <2>3. overlay' = [overlay EXCEPT ![o] = [overlay[o] EXCEPT !.status = "REVOKED"]]
    BY <1>10 DEF RevokeWrite
  <2>4. overlay' \in [Overlays -> OverlayRows]
    BY <1>i, <2>2, <2>3 DEF TypeOK
  <2>5. [step |-> "refresh", rule |-> overlay[o].rule] \in Procs
    BY <2>2 DEF Procs
  <2>6. proc' \in [Workers -> Procs] /\ StoredInv'
    BY <1>10, <1>m, <2>5 DEF RevokeWrite, Queue
  <2> QED  BY <1>i, <1>10, <2>4, <2>6 DEF RevokeWrite, Queue, Calendars, TypeOK, TypeInv
<1>11. ASSUME NEW w \in Workers, Refresh(w) PROVE TypeInv'
  <2>1. [step |-> "refresh", rule |-> NoRule] \in Procs
    BY DEF Procs, Targets
  <2>2. proc' \in [Workers -> Procs] /\ StoredInv'
    BY <1>11, <1>m, <2>1 DEF Refresh, Queue
  <2> QED  BY <1>i, <1>11, <2>2 DEF Refresh, Queue, Calendars, TypeOK, TypeInv
<1>12. ASSUME NEW w \in Workers, RefreshRead(w) PROVE TypeInv'
  <2>1. proc[w].rule \in Targets
    BY <1>12, <1>p, OfProc DEF RefreshRead
  <2>2. [step |-> "set", rule |-> proc[w].rule, rows |-> Loaded] \in Procs
    BY <2>1 DEF Procs, Loaded, Active
  <2>3. proc' \in [Workers -> Procs] /\ StoredInv'
    BY <1>12, <1>m, <2>2 DEF RefreshRead, Queue
  <2> QED  BY <1>i, <1>12, <2>3 DEF RefreshRead, Queue, Calendars, TypeOK, TypeInv
<1>13. ASSUME NEW w \in Workers, RefreshSet(w) PROVE TypeInv'
  <2>1. proc[w].rule \in Targets /\ proc[w].rows \subseteq Overlays
    BY <1>13, <1>p, OfProc DEF RefreshSet
  <2>2. (IF proc[w].rule = NoRule THEN Idle ELSE [step |-> "propagate", rule |-> proc[w].rule]) \in Procs
    BY <1>d, <2>1 DEF Procs
  <2>3. (IF proc[w].rule = NoRule THEN Idle ELSE [step |-> "propagate", rule |-> proc[w].rule]).step
          \in {"idle", "propagate"}
    BY <1>d
  <2>4. proc' \in [Workers -> Procs] /\ StoredInv'
    BY <1>13, <1>m, <2>2, <2>3 DEF RefreshSet, Queue
  <2>5. Registered(engine[Home[w]], proc[w].rows) \in Engines
    BY <1>i, <2>1, ServedType, RegulatoryAssumption DEF TypeOK
  <2>6. engine' \in [Replicas -> Engines]
    BY <1>i, <1>13, <2>5 DEF RefreshSet, TypeOK
  <2> QED  BY <1>i, <1>13, <2>4, <2>6 DEF RefreshSet, Queue, Calendars, TypeOK, TypeInv
<1>14. ASSUME NEW w \in Workers, Propagate(w) PROVE TypeInv'
  <2>1. (IF evaluated = {} THEN Idle ELSE [step |-> "evaluate", todo |-> evaluated, amending |-> TRUE]) \in Procs
    <3>1. CASE evaluated = {}  BY <1>d, <3>1
    <3>2. CASE evaluated # {}
      BY <1>i, <3>2 DEF Procs, TypeOK
    <3> QED  BY <3>1, <3>2
  <2>2. (IF evaluated = {} THEN Idle ELSE [step |-> "evaluate", todo |-> evaluated, amending |-> TRUE]).step
          \in {"idle", "evaluate"}
    BY <1>d
  <2>3. proc' \in [Workers -> Procs] /\ StoredInv'
    BY <1>14, <1>m, <2>1, <2>2 DEF Propagate, Queue
  <2> QED  BY <1>i, <1>14, <2>3 DEF Propagate, Queue, Calendars, TypeOK, TypeInv
<1>15. ASSUME NEW w \in Workers, NEW c \in Companies, SyncCompany(w, c) PROVE TypeInv'
  <2>1. [step |-> "evaluate", todo |-> {c}, amending |-> FALSE] \in Procs
    BY DEF Procs
  <2>2. proc' \in [Workers -> Procs] /\ StoredInv'
    BY <1>15, <1>m, <2>1 DEF SyncCompany, Queue
  <2> QED  BY <1>i, <1>15, <2>2 DEF SyncCompany, Queue, Calendars, TypeOK, TypeInv
<1>16. ASSUME NEW w \in Workers, Evaluate(w) PROVE TypeInv'
  <2> DEFINE e == engine[Home[w]]
  <2>1. /\ proc[w].todo \subseteq Companies /\ proc[w].amending \in BOOLEAN
        /\ e \in Engines /\ today \in Days
    BY <1>i, <1>16, <1>p, OfProc, RegulatoryAssumption DEF Evaluate, TypeOK
  <2>2. PICK c \in proc[w].todo :
          /\ evaluated' = evaluated \cup {c}
          /\ Become(w, [step |-> "write", todo |-> proc[w].todo \ {c}, amending |-> proc[w].amending,
                        company |-> c, day |-> today, by |-> [rule \in Rules |-> Served(e)[rule].by]])
          /\ engine' = [engine EXCEPT ![Home[w]] = Asked(e)]
    BY <1>16 DEF Evaluate
  <2>3. Served(e) \in Views /\ Asked(e) \in Engines
    BY <2>1, ServedType
  <2>4. [rule \in Rules |-> Served(e)[rule].by] \in [Rules -> SUBSET Overlays]
    BY <2>3 DEF Views
  <2>5. [step |-> "write", todo |-> proc[w].todo \ {c}, amending |-> proc[w].amending,
         company |-> c, day |-> today, by |-> [rule \in Rules |-> Served(e)[rule].by]] \in Procs
    BY <2>1, <2>4 DEF Procs
  <2>6. UNCHANGED <<today, Queue, overlay, calendar, stranded>>
    BY <1>16 DEF Evaluate
  <2>7. proc' \in [Workers -> Procs] /\ StoredInv'
    BY <1>m, <2>2, <2>5, <2>6 DEF Queue
  <2>8. engine' \in [Replicas -> Engines] /\ evaluated' \subseteq Companies
    BY <1>i, <2>1, <2>2, <2>3 DEF TypeOK
  <2> QED  BY <1>i, <2>6, <2>7, <2>8 DEF Queue, TypeOK, TypeInv
\* A regeneration's next company.
<1>n. ASSUME NEW w \in Workers, proc[w].step = "write", Onward(w, proc[w].todo), UNCHANGED <<stored, proposal>>
      PROVE  proc' \in [Workers -> Procs] /\ StoredInv'
  <2> DEFINE q == IF proc[w].todo = {} THEN Idle
                  ELSE [step |-> "evaluate", todo |-> proc[w].todo, amending |-> proc[w].amending]
  <2>1. proc[w].todo \subseteq Companies /\ proc[w].amending \in BOOLEAN
    BY <1>n, <1>p, OfProc
  <2>2. q \in Procs
    <3>1. CASE proc[w].todo = {}  BY <1>d, <3>1
    <3>2. CASE proc[w].todo # {}  BY <2>1, <3>2 DEF Procs
    <3> QED  BY <3>1, <3>2
  <2>3. q.step \in {"idle", "evaluate"} /\ Become(w, q)
    BY <1>d, <1>n DEF Onward
  <2> HIDE DEF q
  <2> QED  BY <1>m, <1>n, <2>2, <2>3
<1>17. ASSUME NEW w \in Workers, Write(w) PROVE TypeInv'
  <2> DEFINE c == proc[w].company
  <2>1. c \in Companies /\ proc[w].day \in Days /\ proc[w].by \in [Rules -> SUBSET Overlays]
    BY <1>17, <1>p, OfProc DEF Write
  <2>2. proc' \in [Workers -> Procs] /\ StoredInv'
    BY <1>17, <1>n DEF Write, Queue
  <2>3. calendar' \in [Companies -> [day : Days \cup {-1}, by : [Rules -> SUBSET Overlays]]]
    BY <1>i, <1>17, <2>1 DEF Write, TypeOK
  <2>4. stranded' \subseteq Companies
    BY <1>i, <1>17 DEF Write, TypeOK
  <2> QED  BY <1>i, <1>17, <2>2, <2>3, <2>4 DEF Write, Queue, TypeOK, TypeInv
<1>18. ASSUME NEW w \in Workers, Skip(w) PROVE TypeInv'
  <2>1. proc[w].company \in Companies
    BY <1>18, <1>p, OfProc DEF Skip
  <2>2. proc' \in [Workers -> Procs] /\ StoredInv'
    BY <1>18, <1>n DEF Skip, Queue
  <2> QED  BY <1>i, <1>18, <2>1, <2>2 DEF Skip, Queue, TypeOK, TypeInv
<1>l. ASSUME NEW w \in Workers, LeftUndone(w) PROVE stranded' \subseteq Companies /\ cutOff' \subseteq Rules
  <2>1. /\ proc[w].step = "evaluate" => proc[w].todo \subseteq Companies
        /\ proc[w].step = "write" => proc[w].todo \subseteq Companies /\ proc[w].company \in Companies
        /\ proc[w].step \in {"queue", "supersede"} => proc[w].rules \subseteq Rules
    BY <1>p, OfProc
  <2> QED  BY <1>i, <1>l, <2>1 DEF LeftUndone, TypeOK
<1>19. ASSUME NEW w \in Workers, Fail(w) PROVE TypeInv'
  <2>1. proc' \in [Workers -> Procs] /\ StoredInv'
    BY <1>19, <1>d, <1>m DEF Fail
  <2>2. stranded' \subseteq Companies /\ cutOff' \subseteq Rules
    BY <1>19, <1>l DEF Fail
  <2> QED  BY <1>i, <1>19, <2>1, <2>2 DEF Fail, TypeOK, TypeInv
<1>20. ASSUME NEW w \in Workers, Restart(w) PROVE TypeInv'
  <2>1. proc' \in [Workers -> Procs] /\ StoredInv'
    BY <1>20, <1>d, <1>m DEF Restart
  <2>2. stranded' \subseteq Companies /\ cutOff' \subseteq Rules
    BY <1>20, <1>l DEF Restart
  <2>3. Booted(Active) \in Engines
    BY <1>i, ServedType, RegulatoryAssumption DEF TypeOK, Active
  <2>4. engine' \in [Replicas -> Engines]
    BY <1>i, <1>20, <2>3 DEF Restart, TypeOK
  <2> QED  BY <1>i, <1>20, <2>1, <2>2, <2>4 DEF Restart, TypeOK, TypeInv
<1>21. CASE NextDay
  <2>1. today' \in Days
    BY <1>i, <1>21, RegulatoryAssumption DEF NextDay, TypeOK, Days
  <2> QED  BY <1>i, <1>s, <1>21, <2>1 DEF NextDay, Queue, Calendars, TypeOK, TypeInv
<1>22. CASE UNCHANGED vars
  BY <1>i, <1>s, <1>22 DEF vars, TypeOK, TypeInv
<1> QED
  BY <1>1, <1>2, <1>3, <1>4, <1>5, <1>6, <1>7, <1>8, <1>9, <1>10, <1>11, <1>12, <1>13, <1>14, <1>15,
     <1>16, <1>17, <1>18, <1>19, <1>20, <1>21, <1>22 DEF Next

\* Rows, memory and requests are well formed in every reachable state, for any
\* number of requests on any number of processes.
THEOREM RegulatoryTypeCorrect == Spec => []TypeOK
<1>1. TypeInv => TypeOK
  BY DEF TypeInv
<1>2. Init => TypeInv
  BY InitType DEF TypeInv
<1> QED  BY <1>1, <1>2, TypeStep, PTL DEF Spec

-----------------------------------------------------------------------------
(* What a process serves. *)

\* An overlay that is created is the next one.
LEMMA NextIsNew ==
  ASSUME OverlayInv, NextOverlay <= MaxOverlays
  PROVE  /\ NextOverlay \in Overlays
         /\ \A o \in Overlays : Exists(o) <=> o < NextOverlay
<1>1. PICK n \in 0..MaxOverlays : \A o \in Overlays : Exists(o) <=> o <= n
  BY DEF OverlayInv
<1>2. {o \in Overlays : overlay[o].status # "none"} = 1..n
  BY <1>1, RegulatoryAssumption DEF Exists, Overlays
<1>3. Cardinality(1..n) = n
  BY FS_Interval, RegulatoryAssumption
<1>4. NextOverlay = n + 1
  BY <1>2, <1>3 DEF NextOverlay
<1> QED  BY <1>1, <1>4, RegulatoryAssumption DEF Overlays

\* The overlays that exist go on existing, and amend what they amended.
RowsKept ==
  \A o \in Existing :
    /\ Exists(o)'
    /\ overlay'[o].rule = overlay[o].rule
    /\ overlay'[o].patch = overlay[o].patch
    /\ overlay'[o].source = overlay[o].source

\* Overlays in order, for rules of the catalog.
OrderInv ==
  /\ \E n \in 0..MaxOverlays : \A o \in Overlays : Exists(o) <=> o <= n
  /\ \A o \in Overlays : IF Exists(o) THEN overlay[o].rule \in Rules ELSE overlay[o].source = {}

LEMMA CreateStep ==
  ASSUME TypeOK, OverlayInv, NEW rule \in Rules, NEW source, Overlaid(rule, source)
  PROVE  OrderInv' /\ RowsKept
<1>1. PICK patch \in Patches :
        overlay' = [overlay EXCEPT ![NextOverlay] =
          [status |-> "ACTIVE", rule |-> rule, patch |-> patch, source |-> source]]
  BY DEF Overlaid
<1>2. /\ NextOverlay \in Overlays /\ NextOverlay \in 0..MaxOverlays
      /\ \A o \in Overlays : Exists(o) <=> o < NextOverlay
  BY NextIsNew, RegulatoryAssumption DEF Overlaid, Overlays
<1>3. /\ overlay'[NextOverlay] = [status |-> "ACTIVE", rule |-> rule, patch |-> patch, source |-> source]
      /\ \A o \in Overlays : o # NextOverlay => overlay'[o] = overlay[o]
  BY <1>1, <1>2 DEF TypeOK
<1>4. \A o \in Overlays : Exists(o)' <=> o <= NextOverlay
  BY <1>2, <1>3, RegulatoryAssumption DEF Exists, Overlays
<1>5. \E n \in 0..MaxOverlays : \A o \in Overlays : Exists(o)' <=> o <= n
  BY <1>2, <1>4
<1>6. \A o \in Overlays : IF Exists(o)' THEN overlay'[o].rule \in Rules ELSE overlay'[o].source = {}
  BY <1>2, <1>3 DEF OverlayInv, Exists
<1>7. RowsKept
  BY <1>2, <1>3 DEF RowsKept, Existing, Exists, Overlays
<1> QED  BY <1>5, <1>6, <1>7 DEF OrderInv

LEMMA RevokeStep ==
  ASSUME TypeOK, OverlayInv, NEW w \in Workers, RevokeWrite(w)
  PROVE  OrderInv' /\ RowsKept
<1> DEFINE o == proc[w].overlay
<1>1. o \in Overlays /\ Exists(o)
  BY DEF OverlayInv, RevokeWrite, Existing
<1>2. overlay' = [overlay EXCEPT ![o] = [overlay[o] EXCEPT !.status = "REVOKED"]]
  BY DEF RevokeWrite
<1>3. overlay[o] \in OverlayRows
  BY <1>1 DEF TypeOK
<1> HIDE DEF o
<1>4. /\ overlay'[o].status = "REVOKED" /\ overlay'[o].rule = overlay[o].rule
      /\ overlay'[o].patch = overlay[o].patch /\ overlay'[o].source = overlay[o].source
      /\ \A x \in Overlays : x # o => overlay'[x] = overlay[x]
  BY <1>1, <1>2, <1>3 DEF TypeOK, OverlayRows
<1>5. \A x \in Overlays : Exists(x)' <=> Exists(x)
  BY <1>1, <1>4 DEF Exists
<1>6. RowsKept
  BY <1>4, <1>5 DEF RowsKept, Existing
<1>7. OrderInv'
  BY <1>1, <1>4, <1>5 DEF OverlayInv, OrderInv
<1> QED  BY <1>6, <1>7

\* What every step does to the overlays.
LEMMA RowsStep == TypeOK /\ OverlayInv /\ [Next]_vars => OrderInv' /\ RowsKept
<1> SUFFICES ASSUME TypeOK, OverlayInv, [Next]_vars PROVE OrderInv' /\ RowsKept
  OBVIOUS
<1>1. CASE UNCHANGED overlay
  BY <1>1 DEF OverlayInv, OrderInv, RowsKept, Existing, Exists
<1>2. ASSUME NEW w \in Workers, ApproveWrite(w) PROVE OrderInv' /\ RowsKept
  <2>1. RuleOf[proc[w].proposal] \in Rules
    BY <1>2, OfProc, RegulatoryAssumption DEF TypeOK, OverlayInv, ApproveWrite
  <2> QED  BY <1>2, <2>1, CreateStep DEF ApproveWrite
<1>3. ASSUME NEW w \in Workers, NEW rule \in Rules, CreateOverlay(w, rule) PROVE OrderInv' /\ RowsKept
  BY <1>3, CreateStep DEF CreateOverlay
<1>4. ASSUME NEW w \in Workers, RevokeWrite(w) PROVE OrderInv' /\ RowsKept
  BY <1>4, RevokeStep
<1>5. \/ UNCHANGED overlay
      \/ \E w \in Workers : ApproveWrite(w) \/ (\E rule \in Rules : CreateOverlay(w, rule)) \/ RevokeWrite(w)
  BY DEF Next, vars, StoreRead, StoreWrite, SupersedeRead, SupersedeWrite, ApproveRead, RejectRead, RejectWrite,
     RevokeRead, Refresh, RefreshRead, RefreshSet, Propagate, Evaluate, Write, Skip, SyncCompany, Fail, Restart,
     NextDay
<1> QED  BY <1>1, <1>2, <1>3, <1>4, <1>5

\* What every step does to the memory of a process: nothing, what asking the engine
\* does to it, or a registration of overlays that exist.
EngineMoves(r) ==
  \/ engine'[r] = engine[r]
  \/ engine'[r] = Asked(engine[r]) /\ UNCHANGED overlay
  \/ \E rows \in SUBSET Existing : engine'[r] \in {Registered(engine[r], rows), Booted(rows)}

LEMMA EngineStep == TypeOK /\ OverlayInv /\ [Next]_vars => \A r \in Replicas : EngineMoves(r)
<1> SUFFICES ASSUME TypeOK, OverlayInv, [Next]_vars, NEW r \in Replicas PROVE EngineMoves(r)
  OBVIOUS
<1>1. CASE UNCHANGED engine
  BY <1>1 DEF EngineMoves
<1>2. ASSUME NEW w \in Workers, RefreshSet(w) PROVE EngineMoves(r)
  <2>1. engine' = [engine EXCEPT ![Home[w]] = Registered(engine[Home[w]], proc[w].rows)]
    BY <1>2 DEF RefreshSet
  <2>2. proc[w].rows \in SUBSET Existing
    BY <1>2 DEF RefreshSet, OverlayInv
  <2>3. engine'[r] = engine[r] \/ engine'[r] = Registered(engine[r], proc[w].rows)
    BY <2>1 DEF TypeOK
  <2> QED  BY <2>2, <2>3 DEF EngineMoves
<1>3. ASSUME NEW w \in Workers, Evaluate(w) PROVE EngineMoves(r)
  <2>1. engine' = [engine EXCEPT ![Home[w]] = Asked(engine[Home[w]])] /\ UNCHANGED overlay
    BY <1>3 DEF Evaluate
  <2>2. engine'[r] = engine[r] \/ engine'[r] = Asked(engine[r])
    BY <2>1 DEF TypeOK
  <2> QED  BY <2>1, <2>2 DEF EngineMoves
<1>4. ASSUME NEW w \in Workers, Restart(w) PROVE EngineMoves(r)
  <2>1. engine' = [engine EXCEPT ![Home[w]] = Booted(Active)]
    BY <1>4 DEF Restart
  <2>2. Active \in SUBSET Existing
    BY DEF Active, Existing, Exists
  <2>3. engine'[r] = engine[r] \/ engine'[r] = Booted(Active)
    BY <2>1 DEF TypeOK
  <2> QED  BY <2>2, <2>3 DEF EngineMoves
<1>5. UNCHANGED engine \/ \E w \in Workers : RefreshSet(w) \/ Evaluate(w) \/ Restart(w)
  BY DEF Next, vars, StoreRead, StoreWrite, SupersedeRead, SupersedeWrite, ApproveRead, ApproveWrite, RejectRead,
     RejectWrite, CreateOverlay, RevokeRead, RevokeWrite, Refresh, RefreshRead, Propagate, Write, Skip,
     SyncCompany, Fail, NextDay
<1> QED  BY <1>1, <1>2, <1>3, <1>4, <1>5

\* What a request holds of the overlays.
HoldsInv ==
  \A w \in Workers :
    /\ proc[w].step = "revoke" => proc[w].overlay \in Existing
    /\ proc[w].step = "set" => proc[w].rows \subseteq Existing
    /\ proc[w].step = "approve" => RuleOf[proc[w].proposal] # NoRule

LEMMA HoldsStep == TypeOK /\ OverlayInv /\ RowsKept /\ [Next]_vars => HoldsInv'
<1> SUFFICES ASSUME TypeOK, OverlayInv, RowsKept, [Next]_vars PROVE HoldsInv'
  OBVIOUS
<1>h. HoldsInv
  BY DEF OverlayInv, HoldsInv
<1>k. \A o \in Existing : o \in Existing'
  BY DEF RowsKept, Existing
<1>s. UNCHANGED proc => HoldsInv'
  BY <1>h, <1>k DEF HoldsInv
<1>m. ASSUME NEW w \in Workers, NEW p, Become(w, p),
             p.step = "revoke" => p.overlay \in Existing,
             p.step = "set" => p.rows \subseteq Existing,
             p.step = "approve" => RuleOf[p.proposal] # NoRule
      PROVE  HoldsInv'
  <2>1. proc'[w] = p /\ \A v \in Workers : v # w => proc'[v] = proc[v]
    BY <1>m, Becomes DEF TypeOK
  <2> QED  BY <1>h, <1>k, <1>m, <2>1 DEF HoldsInv
<1>f. ASSUME NEW w \in Workers, NEW p, Become(w, p), p.step \notin {"revoke", "set", "approve"} PROVE HoldsInv'
  BY <1>f, <1>m
<1>d. Idle.step = "idle"
  BY DEF Idle
<1>1. ASSUME NEW w \in Workers, NEW circular \in Circulars, StoreRead(w, circular) PROVE HoldsInv'
  BY <1>1, <1>f DEF StoreRead
<1>2. ASSUME NEW w \in Workers, StoreWrite(w) PROVE HoldsInv'
  <2> DEFINE rules == {RuleOf[p] : p \in Drafted(proc[w].circular)} \ {NoRule}
  <2>1. \E p \in {Idle, [step |-> "queue", rules |-> rules]} : Become(w, p)
    BY <1>2 DEF StoreWrite
  <2> HIDE DEF rules
  <2> QED  BY <1>d, <1>f, <2>1
<1>3. ASSUME NEW w \in Workers, SupersedeRead(w) PROVE HoldsInv'
  BY <1>3, <1>f DEF SupersedeRead
<1>4. ASSUME NEW w \in Workers, SupersedeWrite(w) PROVE HoldsInv'
  BY <1>4, <1>d, <1>f DEF SupersedeWrite
<1>5. ASSUME NEW w \in Workers, NEW p \in Proposals, ApproveRead(w, p) PROVE HoldsInv'
  BY <1>5, <1>m DEF ApproveRead, Approvable
<1>6. ASSUME NEW w \in Workers, NEW p \in Proposals, RejectRead(w, p) PROVE HoldsInv'
  BY <1>6, <1>f DEF RejectRead
<1>7. ASSUME NEW w \in Workers, ApproveWrite(w) PROVE HoldsInv'
  BY <1>7, <1>f DEF ApproveWrite
<1>8. ASSUME NEW w \in Workers, RejectWrite(w) PROVE HoldsInv'
  BY <1>8, <1>d, <1>f DEF RejectWrite
<1>9. ASSUME NEW w \in Workers, NEW rule \in Rules, CreateOverlay(w, rule) PROVE HoldsInv'
  BY <1>9, <1>f DEF CreateOverlay
<1>10. ASSUME NEW w \in Workers, NEW o \in Overlays, RevokeRead(w, o) PROVE HoldsInv'
  <2>1. o \in Existing
    BY <1>10 DEF RevokeRead, Existing, Exists
  <2> QED  BY <1>10, <1>m, <2>1 DEF RevokeRead
<1>11. ASSUME NEW w \in Workers, RevokeWrite(w) PROVE HoldsInv'
  BY <1>11, <1>f DEF RevokeWrite
<1>12. ASSUME NEW w \in Workers, Refresh(w) PROVE HoldsInv'
  BY <1>12, <1>f DEF Refresh
<1>13. ASSUME NEW w \in Workers, RefreshRead(w) PROVE HoldsInv'
  <2>1. Loaded \subseteq Existing
    BY DEF Loaded, Active, Existing, Exists
  <2> QED  BY <1>13, <1>m, <2>1 DEF RefreshRead
<1>14. ASSUME NEW w \in Workers, RefreshSet(w) PROVE HoldsInv'
  BY <1>14, <1>d, <1>f DEF RefreshSet
<1>15. ASSUME NEW w \in Workers, Propagate(w) PROVE HoldsInv'
  BY <1>15, <1>d, <1>f DEF Propagate
<1>16. ASSUME NEW w \in Workers, NEW c \in Companies, SyncCompany(w, c) PROVE HoldsInv'
  BY <1>16, <1>f DEF SyncCompany
<1>17. ASSUME NEW w \in Workers, Evaluate(w) PROVE HoldsInv'
  BY <1>17, <1>f DEF Evaluate
<1>18. ASSUME NEW w \in Workers, Write(w) \/ Skip(w) PROVE HoldsInv'
  BY <1>18, <1>d, <1>f DEF Write, Skip, Onward
<1>19. ASSUME NEW w \in Workers, Fail(w) \/ Restart(w) PROVE HoldsInv'
  BY <1>19, <1>d, <1>f DEF Fail, Restart
<1>20. CASE NextDay \/ UNCHANGED vars
  BY <1>20, <1>s DEF NextDay, vars
<1> QED
  BY <1>1, <1>2, <1>3, <1>4, <1>5, <1>6, <1>7, <1>8, <1>9, <1>10, <1>11, <1>12, <1>13, <1>14, <1>15,
     <1>16, <1>17, <1>18, <1>19, <1>20 DEF Next

\* Overlays and caches hold together.
ServingInv == TypeInv /\ OverlayInv /\ MemoInv

LEMMA InitServing == Init => ServingInv
<1> SUFFICES ASSUME Init PROVE ServingInv
  OBVIOUS
<1>1. OverlayInv
  <2>1. \A o \in Overlays : ~Exists(o) /\ overlay[o].source = {}
    BY DEF Init, Exists
  <2>2. 0 \in 0..MaxOverlays /\ \A o \in Overlays : ~(o <= 0)
    BY RegulatoryAssumption DEF Overlays
  <2>3. \A r \in Replicas : engine[r].registered = {} /\ engine[r].memo.ids = {}
    BY DEF Init, Booted, NoMemo
  <2>4. \A w \in Workers : proc[w].step = "idle"
    BY DEF Init, Idle
  <2> QED  BY <2>1, <2>2, <2>3, <2>4 DEF OverlayInv
<1>2. MemoInv
  BY DEF Init, Booted, NoMemo, MemoInv
<1> QED  BY <1>1, <1>2, InitType DEF ServingInv, TypeInv

LEMMA ServingStep == ServingInv /\ [Next]_vars => ServingInv'
<1> SUFFICES ASSUME ServingInv, [Next]_vars PROVE ServingInv'
  OBVIOUS
<1>1. TypeInv /\ TypeOK /\ OverlayInv /\ MemoInv
  BY DEF ServingInv, TypeInv
<1>2. TypeInv'
  BY <1>1, TypeStep
<1>3. OrderInv' /\ RowsKept
  BY <1>1, RowsStep
<1>4. HoldsInv'
  BY <1>1, <1>3, HoldsStep
<1>5. \A r \in Replicas : EngineMoves(r)
  BY <1>1, EngineStep
<1>6. \A o \in Existing : o \in Existing'
  BY <1>3 DEF RowsKept, Existing
<1>7. ASSUME NEW r \in Replicas
      PROVE  /\ engine'[r].registered \subseteq Existing'
             /\ engine'[r].memo.ids \subseteq Existing'
             /\ engine'[r].memo.day # -1 =>
                  \A rule \in Rules : engine'[r].memo.view[rule].by
                                        = Amending(rule, engine[r].memo.ids, engine[r].memo.day)'
  <2>1. engine[r].registered \subseteq Existing /\ engine[r].memo.ids \subseteq Existing
    BY <1>1 DEF OverlayInv
  <2>2. \A rule, day : \A ids \in SUBSET Existing :
          {o \in ids : overlay'[o].rule = rule /\ overlay'[o].patch.from <= day /\ day <= overlay'[o].patch.to}
            = {o \in ids : overlay[o].rule = rule /\ overlay[o].patch.from <= day /\ day <= overlay[o].patch.to}
    BY <1>3 DEF RowsKept
  <2>3. CASE engine'[r] = engine[r]
    <3>1. \A rule \in Rules : Amending(rule, engine[r].memo.ids, engine[r].memo.day)'
                              = Amending(rule, engine'[r].memo.ids, engine'[r].memo.day)
      BY <2>1, <2>2, <2>3 DEF Amending, InForce
    <3> QED  BY <1>1, <1>6, <2>1, <2>3, <3>1 DEF MemoInv
  <2>4. CASE engine'[r] = Asked(engine[r]) /\ UNCHANGED overlay
    <3>1. engine[r] \in Engines /\ Existing' = Existing
      BY <1>1, <2>4 DEF TypeOK, Existing, Exists
    <3>2. CASE Asked(engine[r]) = engine[r]
      BY <2>3, <2>4, <3>2
    <3>3. CASE Asked(engine[r]) # engine[r]
      <4>1. /\ engine'[r].memo = [day |-> today, ids |-> engine[r].registered, view |-> Applied(engine[r], today)]
            /\ engine'[r].registered = engine[r].registered
        BY <2>4, <3>1, <3>3 DEF Asked, Engines
      <4>2. \A rule \in Rules : Applied(engine[r], today)[rule].by = Amending(rule, engine[r].registered, today)
        BY DEF Applied
      <4> QED  BY <2>1, <2>4, <3>1, <4>1, <4>2 DEF Amending, InForce
    <3> QED  BY <3>2, <3>3
  <2>5. ASSUME NEW rows \in SUBSET Existing, engine'[r] \in {Registered(engine[r], rows), Booted(rows)}
        PROVE  /\ engine'[r].registered = rows
               /\ engine'[r].memo.ids = {} /\ engine'[r].memo.day = -1
    <3>1. NoMemo.ids = {} /\ NoMemo.day = -1
      BY DEF NoMemo
    <3>2. Booted(rows).registered = rows /\ Booted(rows).memo = NoMemo
      BY DEF Booted
    <3>3. Registered(engine[r], rows).registered = rows /\ Registered(engine[r], rows).memo = NoMemo
      <4>1. engine[r] \in Engines
        BY <1>1 DEF TypeOK
      <4> QED  BY <4>1 DEF Registered, Engines
    <3> QED  BY <2>5, <3>1, <3>2, <3>3
  <2> QED  BY <1>5, <1>6, <2>3, <2>4, <2>5 DEF EngineMoves
<1>8. OverlayInv'
  BY <1>3, <1>4, <1>7 DEF OverlayInv, OrderInv, HoldsInv
<1>9. MemoInv'
  BY <1>7 DEF MemoInv
<1> QED  BY <1>2, <1>8, <1>9 DEF ServingInv

LEMMA ServesToday == ServingInv => ViewIsCurrent
<1> SUFFICES ASSUME ServingInv, NEW r \in Replicas, NEW rule \in Rules
             PROVE  Served(engine[r])[rule].by = Amending(rule, engine[r].registered, today)
  BY DEF ViewIsCurrent
<1>1. today # -1
  BY RegulatoryAssumption DEF ServingInv, TypeInv, TypeOK, Days
<1>2. CASE engine[r].registered # {} /\ Hit(engine[r])
  BY <1>1, <1>2 DEF ServingInv, MemoInv, Served, Hit
<1>3. CASE ~(engine[r].registered # {} /\ Hit(engine[r]))
  BY <1>3 DEF Served, Applied
<1> QED  BY <1>2, <1>3

\* A process never serves yesterday's view, nor that of overlays it no longer
\* holds, with any number of requests, restarts and refreshes.
THEOREM ViewStaysCurrent == Spec => []ViewIsCurrent
<1> QED  BY InitServing, ServingStep, ServesToday, PTL DEF Spec

-----------------------------------------------------------------------------
(* The review queue, with requests served one after the other. *)

\* ReviewInv, as the one worker there is sees it.
ReviewOf(w) ==
  /\ proc[w].step \in {"approve", "reject"} => proposal[proc[w].proposal].status \notin {"none", "APPROVED"}
  /\ proc[w].step = "supersede" =>
       /\ \A p \in proc[w].older : proposal[p].status = "PENDING"
       /\ \A rule \in proc[w].rules : \A p, q \in PendingFor(rule) \ proc[w].older : p = q
  /\ \A rule \in Rules :
       \/ Settled(rule) \/ rule \in cutOff
       \/ proc[w].step \in {"queue", "supersede"} /\ rule \in proc[w].rules

LEMMA ReviewByOne ==
  ASSUME OneAtATime, NEW w \in Workers
  PROVE  /\ ReviewInv => OneOverlayEach /\ ReviewOf(w)
         /\ OneOverlayEach' /\ ReviewOf(w)' => ReviewInv'
<1>1. \A v \in Workers : v = w
  BY DEF OneAtATime
<1>2. ReviewInv => OneOverlayEach /\ ReviewOf(w)
  BY <1>1 DEF ReviewInv, ReviewOf
<1>3. OneOverlayEach' /\ ReviewOf(w)' => ReviewInv'
  BY <1>1 DEF ReviewInv, ReviewOf
<1> QED  BY <1>2, <1>3

\* No overlay gets or loses its proposal, no proposal its mark.
LEMMA BackingKept ==
  ASSUME OneOverlayEach,
         \A o \in Overlays : overlay'[o].source = overlay[o].source,
         \A p \in Proposals :
           /\ proposal'[p].status = "APPROVED" <=> proposal[p].status = "APPROVED"
           /\ proposal[p].status = "APPROVED" => proposal'[p].overlay = proposal[p].overlay
  PROVE  OneOverlayEach'
<1> SUFFICES ASSUME NEW p \in Proposals
             PROVE  {o \in Overlays : p \in overlay'[o].source} =
                      IF proposal'[p].status = "APPROVED" THEN {proposal'[p].overlay} ELSE {}
  BY DEF OneOverlayEach
<1>1. {o \in Overlays : p \in overlay'[o].source} = {o \in Overlays : p \in overlay[o].source}
  OBVIOUS
<1> QED  BY <1>1 DEF OneOverlayEach

\* A rule stays settled while its pending proposals only get fewer.
LEMMA SettledStays ==
  ASSUME NEW rule,
         \A p \in Proposals : RuleOf[p] = rule /\ proposal'[p].status = "PENDING" => proposal[p].status = "PENDING"
  PROVE  Settled(rule) => Settled(rule)'
  BY DEF Settled, PendingFor

\* Creating or revoking an overlay that no proposal is behind leaves every other
\* overlay its proposal.
LEMMA SourcesKept ==
  ASSUME TypeOK, OverlayInv,
         NEW w \in Workers, NEW rule \in Rules, CreateOverlay(w, rule) \/ RevokeWrite(w)
  PROVE  \A o \in Overlays : overlay'[o].source = overlay[o].source
<1>1. CASE CreateOverlay(w, rule)
  <2>1. PICK patch \in Patches :
          overlay' = [overlay EXCEPT ![NextOverlay] =
            [status |-> "ACTIVE", rule |-> rule, patch |-> patch, source |-> {}]]
    BY <1>1 DEF CreateOverlay, Overlaid
  <2>2. NextOverlay \in Overlays /\ overlay[NextOverlay].source = {}
    BY <1>1, NextIsNew, NextIsNumber DEF CreateOverlay, Overlaid, OverlayInv
  <2> QED  BY <2>1, <2>2 DEF TypeOK
<1>2. CASE RevokeWrite(w)
  <2>1. overlay' = [overlay EXCEPT ![proc[w].overlay] = [overlay[proc[w].overlay] EXCEPT !.status = "REVOKED"]]
    BY <1>2 DEF RevokeWrite
  <2>2. \A o \in Overlays : overlay[o] \in OverlayRows
    BY DEF TypeOK
  <2>3. \A o \in Overlays : [overlay[o] EXCEPT !.status = "REVOKED"].source = overlay[o].source
    BY <2>2 DEF OverlayRows
  <2> QED  BY <2>1, <2>3 DEF TypeOK
<1> QED  BY <1>1, <1>2

LEMMA ReviewStep == OneAtATime /\ ServingInv /\ ReviewInv /\ [Next]_vars => ReviewInv'
<1> SUFFICES ASSUME OneAtATime, ServingInv, ReviewInv, [Next]_vars PROVE ReviewInv'
  OBVIOUS
<1>i. TypeOK /\ StoredInv /\ OverlayInv
  BY DEF ServingInv, TypeInv
<1>p. proc \in [Workers -> Procs]
  BY <1>i DEF TypeOK
<1>d. Idle.step = "idle"
  BY DEF Idle
<1>b. OneOverlayEach
  BY DEF ReviewInv
\* A step that is not about proposals, after which what a sweep of w's had still to
\* do is done or known to be cut off.
<1>q. ASSUME NEW w \in Workers, NEW q, Become(w, q), UNCHANGED proposal,
             \A o \in Overlays : overlay'[o].source = overlay[o].source,
             q.step \notin {"approve", "reject", "queue", "supersede"}, cutOff \subseteq cutOff',
             proc[w].step \in {"queue", "supersede"} => proc[w].rules \subseteq cutOff'
      PROVE  ReviewInv'
  <2>1. proc'[w] = q
    BY <1>p, <1>q, Becomes
  <2>2. OneOverlayEach'
    BY <1>b, <1>q, BackingKept
  <2>3. \A rule \in Rules : Settled(rule) => Settled(rule)'
    BY <1>q, SettledStays
  <2>4. ReviewOf(w)
    BY ReviewByOne
  <2>5. ReviewOf(w)'
    BY <1>q, <2>1, <2>3, <2>4 DEF ReviewOf
  <2> QED  BY <2>2, <2>5, ReviewByOne
<1>1. ASSUME NEW w \in Workers, NEW circular \in Circulars, StoreRead(w, circular) PROVE ReviewInv'
  BY <1>1, <1>d, <1>q DEF StoreRead, Queue
<1>2. ASSUME NEW w \in Workers, StoreWrite(w) PROVE ReviewInv'
  <2> DEFINE circular == proc[w].circular
             rules == {RuleOf[p] : p \in Drafted(circular)} \ {NoRule}
             born == Cardinality({p \in Proposals : proposal[p].status # "none"}) + 1
  <2>1. CASE circular \in stored
    <3>1. Become(w, Idle) /\ UNCHANGED <<proposal, overlay, cutOff>>
      BY <1>2, <2>1 DEF StoreWrite
    <3> QED  BY <1>2, <1>d, <1>q, <3>1 DEF StoreWrite
  <2>2. CASE circular \notin stored
    <3>1. /\ proposal' = [p \in Proposals |->
               IF p \in Drafted(circular)
               THEN [status |-> Prepared(p), born |-> born, overlay |-> 0] ELSE proposal[p]]
          /\ Become(w, IF rules = {} THEN Idle ELSE [step |-> "queue", rules |-> rules])
          /\ UNCHANGED <<overlay, cutOff>> /\ proc[w].step = "store"
      BY <1>2, <2>2 DEF StoreWrite
    <3>2. \A p \in Drafted(circular) : p \in Proposals /\ proposal[p].status = "none"
      BY <1>i, <2>2 DEF Drafted, StoredInv
    <3>3. \A p \in Drafted(circular) : RuleOf[p] \in rules \/ RuleOf[p] = NoRule
      OBVIOUS
    <3>4. rules = {} \/ proc'[w] = [step |-> "queue", rules |-> rules]
      BY <1>p, <3>1, Becomes
    <3>5. proc'[w].step \in {"idle", "queue"}
      BY <1>p, <1>d, <3>1, Becomes
    <3> HIDE DEF circular, rules, born
    <3>6. \A p \in Proposals : IF p \in Drafted(circular) THEN proposal'[p].status = Prepared(p)
                               ELSE proposal'[p] = proposal[p]
      BY <3>1
    <3>7. OneOverlayEach'
      BY <1>b, <3>1, <3>2, <3>6, BackingKept DEF Prepared
    <3>8. ASSUME NEW rule \in Rules, rule \notin rules PROVE Settled(rule) => Settled(rule)'
      <4>1. \A p \in Proposals : RuleOf[p] = rule => proposal'[p] = proposal[p]
        BY <3>3, <3>6, <3>8, RegulatoryAssumption
      <4> QED  BY <4>1, SettledStays
    <3>9. ReviewOf(w)
      BY ReviewByOne
    <3>10. ReviewOf(w)'
      BY <3>1, <3>4, <3>5, <3>8, <3>9 DEF ReviewOf
    <3> QED  BY <3>7, <3>10, ReviewByOne
  <2> QED  BY <2>1, <2>2
<1>3. ASSUME NEW w \in Workers, SupersedeRead(w) PROVE ReviewInv'
  <2>1. PICK kept \in SUBSET {p \in Proposals : RuleOf[p] \in proc[w].rules /\ proposal[p].status = "PENDING"} :
          /\ \A rule \in proc[w].rules :
               LET mine == {p \in kept : RuleOf[p] = rule} IN
                 Cardinality(mine) = IF PendingFor(rule) = {} THEN 0 ELSE 1
          /\ Become(w, [step |-> "supersede", rules |-> proc[w].rules, older |-> Superseded(kept)])
    BY <1>3 DEF SupersedeRead
  <2>2. proc'[w] = [step |-> "supersede", rules |-> proc[w].rules, older |-> Superseded(kept)]
    BY <1>p, <2>1, Becomes
  <2>3. UNCHANGED <<proposal, overlay, cutOff>> /\ proc[w].step = "queue"
    BY <1>3 DEF SupersedeRead, Queue
  <2>4. \A p \in Superseded(kept) : proposal[p].status = "PENDING"
    BY DEF Superseded, PendingFor
  <2>5. ASSUME NEW rule \in proc[w].rules, NEW p \in PendingFor(rule) \ Superseded(kept),
               NEW q \in PendingFor(rule) \ Superseded(kept)
        PROVE  p = q
    <3> DEFINE mine == {x \in kept : RuleOf[x] = rule}
    <3>1. Cardinality(mine) = 1
      BY <2>1, <2>5
    <3>2. IsFiniteSet(mine)
      BY FS_Subset, RegulatoryAssumption
    <3>3. PICK x : mine = {x}
      BY <3>1, <3>2, FS_Singleton
    <3>4. x \in kept /\ RuleOf[x] = rule
      BY <3>3
    <3>5. \A y \in PendingFor(rule) \ Superseded(kept) : y \in kept
      <4>1. \A y \in PendingFor(rule) : y \in UNION {PendingFor(RuleOf[z]) : z \in kept}
        BY <3>4
      <4> QED  BY <4>1 DEF Superseded
    <3>6. RuleOf[p] = rule /\ RuleOf[q] = rule
      BY DEF PendingFor
    <3> QED  BY <2>5, <3>3, <3>5, <3>6
  <2>6. OneOverlayEach'
    BY <1>b, <2>3, BackingKept
  <2>7. \A rule : PendingFor(rule)' = PendingFor(rule)
    BY <2>3 DEF PendingFor
  <2>8. ReviewOf(w)
    BY ReviewByOne
  <2>9. ReviewOf(w)'
    BY <2>2, <2>3, <2>4, <2>5, <2>7, <2>8 DEF ReviewOf, Settled
  <2> QED  BY <2>6, <2>9, ReviewByOne
<1>4. ASSUME NEW w \in Workers, SupersedeWrite(w) PROVE ReviewInv'
  <2>1. proc'[w] = Idle /\ UNCHANGED overlay /\ cutOff' = cutOff \ proc[w].rules /\ proc[w].step = "supersede"
    BY <1>4, <1>p, Becomes DEF SupersedeWrite
  <2>2. ReviewOf(w)
    BY ReviewByOne
  <2>3. \A p \in Proposals : proposal[p] \in ProposalRows
    BY <1>i DEF TypeOK
  <2>4. \A p \in Proposals : IF p \in proc[w].older THEN proposal'[p].status = "SUPERSEDED"
                             ELSE proposal'[p] = proposal[p]
    BY <1>4, <2>3 DEF SupersedeWrite, ProposalRows
  <2>5. \A p \in Proposals : p \in proc[w].older => proposal[p].status = "PENDING"
    BY <2>1, <2>2 DEF ReviewOf
  <2>6. OneOverlayEach'
    BY <1>b, <2>1, <2>4, <2>5, BackingKept
  <2>7. ASSUME NEW rule \in proc[w].rules PROVE Settled(rule)'
    <3>1. \A p, q \in PendingFor(rule) \ proc[w].older : p = q
      BY <2>1, <2>2 DEF ReviewOf
    <3>2. PendingFor(rule)' \subseteq PendingFor(rule) \ proc[w].older
      BY <2>4 DEF PendingFor
    <3> QED  BY <3>1, <3>2 DEF Settled
  <2>8. \A rule \in Rules : Settled(rule) => Settled(rule)'
    BY <2>4, SettledStays
  <2>9. ReviewOf(w)'
    BY <1>d, <2>1, <2>2, <2>7, <2>8 DEF ReviewOf
  <2> QED  BY <2>6, <2>9, ReviewByOne
<1>5. ASSUME NEW w \in Workers, NEW p \in Proposals, ApproveRead(w, p) \/ RejectRead(w, p) PROVE ReviewInv'
  <2>1. /\ proc'[w] \in {[step |-> "approve", proposal |-> p], [step |-> "reject", proposal |-> p]}
        /\ UNCHANGED <<proposal, overlay, cutOff>> /\ proc[w].step = "idle"
        /\ proposal[p].status \notin {"none", "APPROVED"}
    BY <1>5, <1>p, <1>d, Becomes DEF ApproveRead, RejectRead, Approvable, Queue
  <2>2. OneOverlayEach'
    BY <1>b, <2>1, BackingKept
  <2>3. \A rule \in Rules : Settled(rule) => Settled(rule)'
    BY <2>1, SettledStays
  <2>4. ReviewOf(w)
    BY ReviewByOne
  <2>5. ReviewOf(w)'
    BY <2>1, <2>3, <2>4 DEF ReviewOf
  <2> QED  BY <2>2, <2>5, ReviewByOne
<1>6. ASSUME NEW w \in Workers, ApproveWrite(w) PROVE ReviewInv'
  <2> DEFINE p == proc[w].proposal
  <2>1. p \in Proposals /\ proc[w].step = "approve"
    BY <1>6, <1>p, OfProc DEF ApproveWrite
  <2>2. ReviewOf(w)
    BY ReviewByOne
  <2>3. proposal[p].status # "APPROVED" /\ {o \in Overlays : p \in overlay[o].source} = {}
    BY <1>b, <2>1, <2>2 DEF ReviewOf, OneOverlayEach
  <2>4. PICK patch \in Patches :
          overlay' = [overlay EXCEPT ![NextOverlay] =
            [status |-> "ACTIVE", rule |-> RuleOf[p], patch |-> patch, source |-> {p}]]
    BY <1>6 DEF ApproveWrite, Overlaid
  <2>5. NextOverlay \in Overlays /\ overlay[NextOverlay].source = {}
    BY <1>i, <1>6, NextIsNew, NextIsNumber DEF ApproveWrite, Overlaid, OverlayInv
  <2>6. /\ proc'[w] = [step |-> "refresh", rule |-> RuleOf[p]] /\ UNCHANGED cutOff
        /\ proposal' = [proposal EXCEPT ![p] = [proposal[p] EXCEPT !.status = "APPROVED", !.overlay = NextOverlay]]
    BY <1>6, <1>p, Becomes DEF ApproveWrite
  <2> HIDE DEF p
  <2>7. /\ \A o \in Overlays : overlay'[o].source = IF o = NextOverlay THEN {p} ELSE overlay[o].source
        /\ \A q \in Proposals : q # p => proposal'[q] = proposal[q]
    BY <1>i, <2>4, <2>5, <2>6 DEF TypeOK
  <2>8. proposal'[p].status = "APPROVED" /\ proposal'[p].overlay = NextOverlay
    <3>1. proposal[p] \in ProposalRows
      BY <1>i, <2>1 DEF TypeOK
    <3>2. proposal'[p] = [proposal[p] EXCEPT !.status = "APPROVED", !.overlay = NextOverlay]
      BY <1>i, <2>1, <2>6 DEF TypeOK
    <3> QED  BY <3>1, <3>2 DEF ProposalRows
  <2>9. OneOverlayEach'
    <3> SUFFICES ASSUME NEW q \in Proposals
                 PROVE  {o \in Overlays : q \in overlay'[o].source} =
                          IF proposal'[q].status = "APPROVED" THEN {proposal'[q].overlay} ELSE {}
      BY DEF OneOverlayEach
    <3>1. CASE q = p
      <4>1. {o \in Overlays : p \in overlay'[o].source} = {NextOverlay}
        BY <2>3, <2>5, <2>7
      <4> QED  BY <2>8, <3>1, <4>1
    <3>2. CASE q # p
      <4>1. {o \in Overlays : q \in overlay'[o].source} = {o \in Overlays : q \in overlay[o].source}
        BY <2>5, <2>7, <3>2
      <4> QED  BY <1>b, <2>7, <3>2, <4>1 DEF OneOverlayEach
    <3> QED  BY <3>1, <3>2
  <2>10. \A rule \in Rules : Settled(rule) => Settled(rule)'
    <3>1. \A q \in Proposals : proposal'[q].status = "PENDING" => proposal[q].status = "PENDING"
      BY <2>7, <2>8
    <3> QED  BY <3>1, SettledStays
  <2>11. ReviewOf(w)'
    BY <2>1, <2>2, <2>6, <2>10 DEF ReviewOf
  <2> QED  BY <2>9, <2>11, ReviewByOne
<1>7. ASSUME NEW w \in Workers, RejectWrite(w) PROVE ReviewInv'
  <2> DEFINE p == proc[w].proposal
  <2>1. p \in Proposals /\ proc[w].step = "reject"
    BY <1>7, <1>p, OfProc DEF RejectWrite
  <2>2. ReviewOf(w)
    BY ReviewByOne
  <2>3. proposal[p].status # "APPROVED"
    BY <2>1, <2>2 DEF ReviewOf
  <2>4. PICK status \in {"REJECTED", "CODE_CHANGE_REQUIRED"} :
          proposal' = [proposal EXCEPT ![p] = [proposal[p] EXCEPT !.status = status]]
    BY <1>7 DEF RejectWrite
  <2>5. proc'[w] = Idle /\ UNCHANGED <<overlay, cutOff>>
    BY <1>7, <1>p, Becomes DEF RejectWrite
  <2> HIDE DEF p
  <2>6. proposal'[p].status = status /\ \A q \in Proposals : q # p => proposal'[q] = proposal[q]
    <3>1. proposal[p] \in ProposalRows
      BY <1>i, <2>1 DEF TypeOK
    <3>2. proposal'[p] = [proposal[p] EXCEPT !.status = status]
      BY <1>i, <2>1, <2>4 DEF TypeOK
    <3>3. \A q \in Proposals : q # p => proposal'[q] = proposal[q]
      BY <1>i, <2>4 DEF TypeOK
    <3> QED  BY <3>1, <3>2, <3>3 DEF ProposalRows
  <2>7. OneOverlayEach'
    BY <1>b, <2>3, <2>5, <2>6, BackingKept
  <2>8. \A rule \in Rules : Settled(rule) => Settled(rule)'
    <3>1. \A q \in Proposals : proposal'[q].status = "PENDING" => proposal[q].status = "PENDING"
      BY <2>6
    <3> QED  BY <3>1, SettledStays
  <2>9. ReviewOf(w)'
    BY <1>d, <2>1, <2>2, <2>5, <2>8 DEF ReviewOf
  <2> QED  BY <2>7, <2>9, ReviewByOne
<1>8. ASSUME NEW w \in Workers, NEW rule \in Rules, CreateOverlay(w, rule) PROVE ReviewInv'
  BY <1>8, <1>i, <1>d, <1>q, SourcesKept DEF CreateOverlay, Queue
<1>9. ASSUME NEW w \in Workers, RevokeWrite(w) PROVE ReviewInv'
  <2>1. \A o \in Overlays : overlay'[o].source = overlay[o].source
    <3>1. overlay[proc[w].overlay].rule \in Rules
      BY <1>i, <1>9 DEF OverlayInv, RevokeWrite, Existing
    <3> QED  BY <1>i, <1>9, <3>1, SourcesKept
  <2> QED  BY <1>9, <1>q, <2>1 DEF RevokeWrite, Queue
<1>10. ASSUME NEW w \in Workers, NEW o \in Overlays, RevokeRead(w, o) PROVE ReviewInv'
  BY <1>10, <1>d, <1>q DEF RevokeRead, Queue
<1>11. ASSUME NEW w \in Workers, Refresh(w) PROVE ReviewInv'
  BY <1>11, <1>d, <1>q DEF Refresh, Queue
<1>12. ASSUME NEW w \in Workers, RefreshRead(w) PROVE ReviewInv'
  BY <1>12, <1>q DEF RefreshRead, Queue
<1>13. ASSUME NEW w \in Workers, RefreshSet(w) PROVE ReviewInv'
  BY <1>13, <1>d, <1>q DEF RefreshSet, Queue
<1>14. ASSUME NEW w \in Workers, Propagate(w) PROVE ReviewInv'
  BY <1>14, <1>d, <1>q DEF Propagate, Queue
<1>15. ASSUME NEW w \in Workers, NEW c \in Companies, SyncCompany(w, c) PROVE ReviewInv'
  BY <1>15, <1>d, <1>q DEF SyncCompany, Queue
<1>16. ASSUME NEW w \in Workers, Evaluate(w) PROVE ReviewInv'
  BY <1>16, <1>q DEF Evaluate, Queue
<1>17. ASSUME NEW w \in Workers, Write(w) \/ Skip(w) PROVE ReviewInv'
  BY <1>17, <1>d, <1>q DEF Write, Skip, Onward, Queue
<1>18. ASSUME NEW w \in Workers, Fail(w) \/ Restart(w) PROVE ReviewInv'
  <2>1. /\ Become(w, Idle) /\ UNCHANGED <<proposal, overlay>>
        /\ cutOff' = IF proc[w].step \in {"queue", "supersede"} THEN cutOff \cup proc[w].rules ELSE cutOff
    BY <1>18 DEF Fail, Restart, LeftUndone
  <2> QED  BY <1>d, <1>q, <2>1
<1>19. CASE NextDay \/ UNCHANGED vars
  <2>1. UNCHANGED <<proposal, overlay, cutOff, proc>>
    BY <1>19 DEF NextDay, vars, Queue
  <2>2. OneOverlayEach'
    BY <1>b, <2>1, BackingKept
  <2>3. \A rule : PendingFor(rule)' = PendingFor(rule)
    BY <2>1 DEF PendingFor
  <2> QED  BY <2>1, <2>2, <2>3 DEF ReviewInv, Settled
<1> QED
  BY <1>1, <1>2, <1>3, <1>4, <1>5, <1>6, <1>7, <1>8, <1>9, <1>10, <1>11, <1>12, <1>13, <1>14, <1>15,
     <1>16, <1>17, <1>18, <1>19 DEF Next

LEMMA InitReview == Init => ReviewInv
<1> SUFFICES ASSUME Init PROVE ReviewInv
  OBVIOUS
<1>1. OneOverlayEach
  BY DEF Init, OneOverlayEach
<1>2. \A rule \in Rules : PendingFor(rule) = {}
  BY DEF Init, PendingFor
<1>3. \A w \in Workers : proc[w].step = "idle"
  BY DEF Init, Idle
<1> QED  BY <1>1, <1>2, <1>3 DEF ReviewInv, Settled

LEMMA HonestReviews == ReviewInv => ReviewsHonest
<1> SUFFICES ASSUME ReviewInv PROVE ReviewsHonest
  OBVIOUS
<1>1. ASSUME NEW rule \in Rules, Settled(rule) PROVE ~(Cardinality(PendingFor(rule)) > 1)
  <2>1. CASE PendingFor(rule) = {}
    BY <2>1, FS_EmptySet
  <2>2. CASE PendingFor(rule) # {}
    <3>1. PICK p : p \in PendingFor(rule)
      BY <2>2
    <3>2. PendingFor(rule) = {p}
      BY <1>1, <3>1 DEF Settled
    <3>3. Cardinality({p}) = 1
      BY FS_Singleton
    <3>4. Cardinality(PendingFor(rule)) = 1
      BY <3>2, <3>3
    <3> QED  BY <3>4
  <2> QED  BY <2>1, <2>2
<1>2. QueueHonest
  BY <1>1 DEF ReviewInv, QueueHonest
<1> QED  BY <1>2 DEF ReviewInv, ReviewsHonest

\* With requests and sweeps served one after the other, failing or losing the
\* process at any step: an approved proposal is backed by its one overlay and no
\* other is behind any, and a rule has at most one proposal awaiting review unless
\* a sweep is at it or was cut off.
THEOREM ReviewsStayHonest ==
  ASSUME OneAtATime
  PROVE  Spec => []ReviewsHonest
<1>1. Init => ServingInv /\ ReviewInv
  BY InitServing, InitReview
<1>2. ServingInv /\ ReviewInv /\ [Next]_vars => (ServingInv /\ ReviewInv)'
  BY ServingStep, ReviewStep
<1> QED  BY <1>1, <1>2, HonestReviews, PTL DEF Spec

-----------------------------------------------------------------------------
(* The calendars, with requests served one after the other. *)

\* CalendarInv, as the one worker there is sees it.
CalendarOf(w) ==
  /\ \A c \in Companies : calendar[c].day # -1 => c \in evaluated
  /\ \A c \in Companies \ stranded : Current(c) \/ Reaches(w, c)
  /\ proc[w].step = "propagate" => proc[w].rule # NoRule
  /\ proc[w].step = "set" => proc[w].rows = Active
  /\ Amends(w) => engine[Home[w]].registered = Active
  /\ engine[Home[w]].registered = Active \/ stranded = Companies \/ Announcing(w)
  /\ proc[w].step = "write" =>
       /\ proc[w].company \in evaluated
       /\ \A rule \in Rules :
            proc[w].by[rule] = Amending(rule, engine[Home[w]].registered, proc[w].day)

LEMMA CalendarByOne ==
  ASSUME OneAtATime, NEW w \in Workers
  PROVE  /\ CalendarInv => CalendarOf(w)
         /\ CalendarOf(w)' => CalendarInv'
<1>1. \A v \in Workers : v = w
  BY DEF OneAtATime
<1>2. CalendarInv => CalendarOf(w)
  BY <1>1 DEF CalendarInv, CalendarOf
<1>3. CalendarOf(w)' => CalendarInv'
  BY <1>1 DEF CalendarInv, CalendarOf
<1> QED  BY <1>2, <1>3

LEMMA CalendarStep == OneAtATime /\ ServingInv /\ CalendarInv /\ [Next]_vars => CalendarInv'
<1> SUFFICES ASSUME OneAtATime, ServingInv, CalendarInv, [Next]_vars PROVE CalendarInv'
  OBVIOUS
<1>i. TypeOK /\ OverlayInv
  BY DEF ServingInv, TypeInv
<1>p. proc \in [Workers -> Procs]
  BY <1>i DEF TypeOK
<1>d. Idle.step = "idle"
  BY DEF Idle
<1>r. \A w \in Workers : Home[w] \in Replicas /\ engine[Home[w]] \in Engines
  BY <1>i, RegulatoryAssumption DEF TypeOK
\* While the rows stay, the ACTIVE overlays and what they amend do.
<1>a. UNCHANGED overlay =>
        /\ Active' = Active
        /\ \A rule, ids, day : {o \in ids : overlay'[o].rule = rule /\ overlay'[o].patch.from <= day
                                           /\ day <= overlay'[o].patch.to} = Amending(rule, ids, day)
  BY DEF Active, Amending, InForce
<1>c. ASSUME UNCHANGED overlay, NEW c \in Companies, calendar'[c] = calendar[c] PROVE Current(c) => Current(c)'
  BY <1>a, <1>c DEF Current, Amending, InForce
\* An amendment: whatever the calendars say, the refresh that follows announces it.
<1>o. ASSUME NEW w \in Workers, NEW rule \in Rules, Become(w, [step |-> "refresh", rule |-> rule]),
             UNCHANGED Calendars
      PROVE  CalendarInv'
  <2>1. proc'[w] = [step |-> "refresh", rule |-> rule]
    BY <1>o, <1>p, Becomes
  <2>2. Announcing(w)'
    BY <2>1, RegulatoryAssumption DEF Announcing
  <2>3. CalendarOf(w)
    BY CalendarByOne
  <2>4. CalendarOf(w)'
    BY <1>o, <2>1, <2>2, <2>3 DEF CalendarOf, Reaches, Amends, Calendars
  <2> QED  BY <2>4, CalendarByOne
\* A step of a request that has to do neither with overlays nor with calendars.
<1>q. ASSUME NEW w \in Workers, NEW q, Become(w, q), UNCHANGED <<overlay, engine, Calendars>>,
             ~Announcing(w), ~Amends(w), q.step \notin {"propagate", "set", "write"},
             q.step = "evaluate" => ~q.amending
      PROVE  CalendarInv'
  <2>1. proc'[w] = q
    BY <1>p, <1>q, Becomes
  <2>2. CalendarOf(w)
    BY CalendarByOne
  <2>3. \A c \in Companies : ~Reaches(w, c)
    BY <1>q DEF Reaches, Amends
  <2>4. \A c \in Companies : Current(c) => Current(c)'
    BY <1>c, <1>q DEF Calendars
  <2>5. ~Amends(w)' /\ Active' = Active
    BY <1>a, <1>q, <2>1 DEF Amends
  <2>6. CalendarOf(w)'
    BY <1>q, <2>1, <2>2, <2>3, <2>4, <2>5 DEF CalendarOf, Calendars
  <2> QED  BY <2>6, CalendarByOne
<1>1. ASSUME NEW w \in Workers, NEW circular \in Circulars, StoreRead(w, circular) PROVE CalendarInv'
  BY <1>1, <1>d, <1>q DEF StoreRead, Announcing, Amends
<1>2. ASSUME NEW w \in Workers, StoreWrite(w) PROVE CalendarInv'
  <2> DEFINE rules == {RuleOf[p] : p \in Drafted(proc[w].circular)} \ {NoRule}
  <2>1. \E p \in {Idle, [step |-> "queue", rules |-> rules]} : Become(w, p)
    BY <1>2 DEF StoreWrite
  <2> HIDE DEF rules
  <2> QED  BY <1>2, <1>d, <1>q, <2>1 DEF StoreWrite, Announcing, Amends
<1>3. ASSUME NEW w \in Workers, SupersedeRead(w) PROVE CalendarInv'
  BY <1>3, <1>q DEF SupersedeRead, Announcing, Amends
<1>4. ASSUME NEW w \in Workers, SupersedeWrite(w) PROVE CalendarInv'
  BY <1>4, <1>d, <1>q DEF SupersedeWrite, Announcing, Amends
<1>5. ASSUME NEW w \in Workers, NEW p \in Proposals, ApproveRead(w, p) \/ RejectRead(w, p) PROVE CalendarInv'
  BY <1>5, <1>d, <1>q DEF ApproveRead, RejectRead, Announcing, Amends
<1>6. ASSUME NEW w \in Workers, ApproveWrite(w) PROVE CalendarInv'
  <2>1. RuleOf[proc[w].proposal] \in Rules
    BY <1>6, <1>i, <1>p, OfProc, RegulatoryAssumption DEF OverlayInv, ApproveWrite
  <2> QED  BY <1>6, <1>o, <2>1 DEF ApproveWrite
<1>7. ASSUME NEW w \in Workers, RejectWrite(w) PROVE CalendarInv'
  BY <1>7, <1>d, <1>q DEF RejectWrite, Announcing, Amends
<1>8. ASSUME NEW w \in Workers, NEW rule \in Rules, CreateOverlay(w, rule) PROVE CalendarInv'
  BY <1>8, <1>o DEF CreateOverlay
<1>9. ASSUME NEW w \in Workers, NEW o \in Overlays, RevokeRead(w, o) PROVE CalendarInv'
  BY <1>9, <1>d, <1>q DEF RevokeRead, Announcing, Amends
<1>10. ASSUME NEW w \in Workers, RevokeWrite(w) PROVE CalendarInv'
  <2>1. overlay[proc[w].overlay].rule \in Rules
    BY <1>10, <1>i DEF OverlayInv, RevokeWrite, Existing
  <2> QED  BY <1>10, <1>o, <2>1 DEF RevokeWrite
<1>11. ASSUME NEW w \in Workers, Refresh(w) PROVE CalendarInv'
  BY <1>11, <1>d, <1>q DEF Refresh, Announcing, Amends
<1>12. ASSUME NEW w \in Workers, RefreshRead(w) PROVE CalendarInv'
  <2>1. proc'[w] = [step |-> "set", rule |-> proc[w].rule, rows |-> Active] /\ proc[w].step = "refresh"
    BY <1>12, <1>p, Becomes DEF RefreshRead, Loaded
  <2>2. UNCHANGED <<overlay, engine, Calendars>>
    BY <1>12 DEF RefreshRead
  <2>3. CalendarOf(w)
    BY CalendarByOne
  <2>4. \A c \in Companies : Current(c) => Current(c)'
    BY <1>c, <2>2 DEF Calendars
  <2>5. (Announcing(w) <=> Announcing(w)') /\ ~Amends(w)' /\ Active' = Active
    BY <1>a, <2>1, <2>2 DEF Announcing, Amends
  <2>6. \A c \in Companies : Reaches(w, c) => Reaches(w, c)'
    BY <2>1, <2>5 DEF Reaches
  <2>7. CalendarOf(w)'
    BY <2>1, <2>2, <2>3, <2>4, <2>5, <2>6 DEF CalendarOf, Calendars
  <2> QED  BY <2>7, CalendarByOne
<1>13. ASSUME NEW w \in Workers, RefreshSet(w) PROVE CalendarInv'
  <2> DEFINE rule == proc[w].rule
  <2>1. /\ proc'[w] = IF rule = NoRule THEN Idle ELSE [step |-> "propagate", rule |-> rule]
        /\ proc[w].step = "set" /\ UNCHANGED <<overlay, Calendars>>
    BY <1>13, <1>p, Becomes DEF RefreshSet
  <2>2. CalendarOf(w)
    BY CalendarByOne
  <2>3. engine'[Home[w]].registered = Active
    <3>1. engine'[Home[w]] = Registered(engine[Home[w]], proc[w].rows)
      BY <1>13, <1>i, <1>r DEF RefreshSet, TypeOK
    <3>2. Registered(engine[Home[w]], proc[w].rows).registered = proc[w].rows
      BY <1>r DEF Registered, Engines
    <3> QED  BY <2>1, <2>2, <3>1, <3>2 DEF CalendarOf
  <2>4. \A c \in Companies : Current(c) => Current(c)'
    BY <1>c, <2>1 DEF Calendars
  <2>5. Active' = Active
    BY <1>a, <2>1
  <2>6. CASE rule = NoRule
    <3>1. \A c \in Companies : ~Reaches(w, c)
      BY <2>1, <2>6 DEF Reaches, Announcing
    <3> QED  BY <1>d, <2>1, <2>2, <2>3, <2>4, <2>5, <2>6, <3>1, CalendarByOne DEF CalendarOf, Amends, Calendars
  <2>7. CASE rule # NoRule
    <3>1. proc'[w] = [step |-> "propagate", rule |-> rule]
      BY <2>1, <2>7
    <3> HIDE DEF rule
    <3>2. \A c \in Companies : Reaches(w, c)'
      BY <3>1 DEF Reaches
    <3> QED  BY <2>1, <2>2, <2>3, <2>5, <2>7, <3>1, <3>2, CalendarByOne DEF CalendarOf, Calendars
  <2> QED  BY <2>6, <2>7
<1>14. ASSUME NEW w \in Workers, Propagate(w) PROVE CalendarInv'
  <2>1. /\ proc'[w] = IF evaluated = {} THEN Idle
                      ELSE [step |-> "evaluate", todo |-> evaluated, amending |-> TRUE]
        /\ proc[w].step = "propagate" /\ UNCHANGED <<overlay, engine, Calendars>>
    BY <1>14, <1>p, Becomes DEF Propagate
  <2>2. CalendarOf(w)
    BY CalendarByOne
  <2>3. \A c \in Companies : Current(c) => Current(c)'
    BY <1>c, <2>1 DEF Calendars
  <2>4. engine'[Home[w]].registered = Active' /\ Active' = Active
    BY <1>a, <2>1, <2>2 DEF CalendarOf, Amends
  <2>5. \A c \in Companies : c \notin evaluated => Current(c)
    BY <2>2 DEF CalendarOf, Current
  <2>6. \A c \in evaluated : Reaches(w, c)'
    BY <2>1 DEF Reaches
  <2>7. proc'[w].step \in {"idle", "evaluate"}
    BY <1>d, <2>1
  <2>8. CalendarOf(w)'
    BY <2>1, <2>2, <2>3, <2>4, <2>5, <2>6, <2>7 DEF CalendarOf, Calendars
  <2> QED  BY <2>8, CalendarByOne
<1>15. ASSUME NEW w \in Workers, NEW c \in Companies, SyncCompany(w, c) PROVE CalendarInv'
  BY <1>15, <1>d, <1>q DEF SyncCompany, Announcing, Amends
<1>16. ASSUME NEW w \in Workers, Evaluate(w) PROVE CalendarInv'
  <2> DEFINE e == engine[Home[w]]
  <2>1. PICK c \in proc[w].todo :
          /\ evaluated' = evaluated \cup {c}
          /\ proc'[w] = [step |-> "write", todo |-> proc[w].todo \ {c}, amending |-> proc[w].amending,
                         company |-> c, day |-> today, by |-> [rule \in Rules |-> Served(e)[rule].by]]
          /\ engine'[Home[w]] = Asked(e)
    BY <1>16, <1>i, <1>p, <1>r, Becomes DEF Evaluate, TypeOK
  <2>2. proc[w].step = "evaluate" /\ UNCHANGED <<today, overlay, calendar, stranded>>
    BY <1>16 DEF Evaluate
  <2>3. CalendarOf(w)
    BY CalendarByOne
  <2>4. engine'[Home[w]].registered = engine[Home[w]].registered
    BY <1>i, <1>r, <2>1, ServedType DEF TypeOK
  <2>5. \A x \in Companies : Current(x) => Current(x)'
    BY <1>c, <2>2
  <2>6. Active' = Active
    BY <1>a, <2>2
  <2>7. \A x \in Companies : Reaches(w, x) => Reaches(w, x)'
    BY <2>1, <2>2 DEF Reaches, Announcing
  <2>8. ~Announcing(w) /\ (Amends(w)' => Amends(w))
    BY <2>1, <2>2 DEF Announcing, Amends
  <2>9. \A rule \in Rules : Served(e)[rule].by = Amending(rule, e.registered, today)
    BY <1>r, ServesToday DEF ViewIsCurrent
  <2>10. ASSUME NEW rule \in Rules
         PROVE  (proc[w].by[rule] = Amending(rule, engine[Home[w]].registered, proc[w].day))'
    <3>1. proc'[w].by[rule] = Amending(rule, e.registered, today) /\ proc'[w].day = today
      BY <2>1, <2>9
    <3> QED  BY <2>2, <2>4, <3>1 DEF Amending, InForce
  <2>11. proc'[w].step = "write" /\ proc'[w].company \in evaluated'
    BY <2>1
  <2>12. CalendarOf(w)'
    BY <2>1, <2>2, <2>3, <2>4, <2>5, <2>6, <2>7, <2>8, <2>10, <2>11 DEF CalendarOf
  <2> QED  BY <2>12, CalendarByOne
\* After a company, written or skipped, the request goes on to those it has left.
<1>n. ASSUME NEW w \in Workers, proc[w].step = "write", Onward(w, proc[w].todo)
      PROVE  /\ proc'[w].step \in {"idle", "evaluate"}
             /\ Amends(w)' => Amends(w)
             /\ \A c \in Companies : Reaches(w, c) => Reaches(w, c)' \/ c = proc[w].company
             /\ \A c \in Companies : Reaches(w, c) => proc[w].amending
             /\ ~Announcing(w) /\ (proc[w].amending => Amends(w))
  <2>1. proc'[w] = IF proc[w].todo = {} THEN Idle
                   ELSE [step |-> "evaluate", todo |-> proc[w].todo, amending |-> proc[w].amending]
    BY <1>n, <1>p, Becomes DEF Onward
  <2>2. CASE proc[w].todo = {}
    BY <1>d, <1>n, <2>1, <2>2 DEF Amends, Reaches, Announcing
  <2>3. CASE proc[w].todo # {}
    <3>1. proc'[w] = [step |-> "evaluate", todo |-> proc[w].todo, amending |-> proc[w].amending]
      BY <2>1, <2>3
    <3> QED  BY <1>n, <3>1 DEF Amends, Reaches, Announcing
  <2> QED  BY <2>2, <2>3
<1>17. ASSUME NEW w \in Workers, Write(w) PROVE CalendarInv'
  <2>c. PICK c \in Companies : c = proc[w].company
    BY <1>17, <1>p, OfProc DEF Write
  <2>1. /\ proc[w].step = "write" /\ Onward(w, proc[w].todo)
        /\ calendar' = [calendar EXCEPT ![c] = [day |-> proc[w].day, by |-> proc[w].by]]
        /\ stranded' = IF proc[w].amending THEN stranded \ {c} ELSE stranded
        /\ UNCHANGED <<overlay, engine, evaluated>>
    BY <1>17, <2>c DEF Write
  <2>2. CalendarOf(w)
    BY CalendarByOne
  <2>3. /\ calendar'[c] = [day |-> proc[w].day, by |-> proc[w].by]
        /\ \A x \in Companies : x # c => calendar'[x] = calendar[x]
    BY <1>i, <2>1 DEF TypeOK
  <2>4. \A x \in Companies : x # c => (Current(x) => Current(x)')
    BY <1>c, <2>1, <2>3
  <2>5. engine[Home[w]].registered = Active => Current(c)'
    <3> SUFFICES ASSUME engine[Home[w]].registered = Active PROVE Current(c)'
      OBVIOUS
    <3>1. \A rule \in Rules : calendar'[c].by[rule] = Amending(rule, Active, calendar'[c].day)
      BY <2>c, <2>1, <2>2, <2>3 DEF CalendarOf
    <3> QED  BY <1>a, <2>1, <3>1 DEF Current, Amending, InForce
  <2>6. Active' = Active
    BY <1>a, <2>1
  <2>7. c \notin stranded' => engine[Home[w]].registered = Active
    <3>1. proc[w].amending => engine[Home[w]].registered = Active
      BY <1>n, <2>1, <2>2 DEF CalendarOf
    <3>2. ~proc[w].amending /\ c \notin stranded => engine[Home[w]].registered = Active
      BY <1>n, <2>1, <2>2 DEF CalendarOf
    <3> QED  BY <2>1, <3>1, <3>2
  <2>8. \A x \in Companies \ stranded' : Current(x)' \/ Reaches(w, x)'
    <3> TAKE x \in Companies \ stranded'
    <3>1. CASE x = c
      BY <2>5, <2>7, <3>1
    <3>2. CASE x # c
      BY <1>n, <2>c, <2>1, <2>2, <2>4, <3>2 DEF CalendarOf
    <3> QED  BY <3>1, <3>2
  <2>9. \A x \in Companies : calendar'[x].day # -1 => x \in evaluated'
    BY <2>c, <2>1, <2>2, <2>3 DEF CalendarOf
  <2>10. engine'[Home[w]].registered = Active' \/ stranded' = Companies
    BY <1>n, <2>1, <2>2, <2>6 DEF CalendarOf
  <2>11. CalendarOf(w)'
    BY <1>n, <2>1, <2>2, <2>6, <2>8, <2>9, <2>10 DEF CalendarOf
  <2> QED  BY <2>11, CalendarByOne
<1>18. ASSUME NEW w \in Workers, Skip(w) PROVE CalendarInv'
  <2>1. /\ proc[w].step = "write" /\ Onward(w, proc[w].todo)
        /\ stranded' = IF proc[w].amending THEN stranded \cup {proc[w].company} ELSE stranded
        /\ UNCHANGED <<overlay, engine, evaluated, calendar>>
    BY <1>18 DEF Skip
  <2>2. CalendarOf(w)
    BY CalendarByOne
  <2>3. \A x \in Companies : Current(x) => Current(x)'
    BY <1>c, <2>1
  <2>4. Active' = Active
    BY <1>a, <2>1
  <2>5. \A x \in Companies \ stranded' : Current(x)' \/ Reaches(w, x)'
    BY <1>n, <2>1, <2>2, <2>3 DEF CalendarOf
  <2>6. engine'[Home[w]].registered = Active' \/ stranded' = Companies
    <3>1. proc[w].company \in Companies
      BY <1>p, <2>1, OfProc
    <3> QED  BY <1>n, <2>1, <2>2, <2>4, <3>1 DEF CalendarOf
  <2>7. CalendarOf(w)'
    BY <1>n, <2>1, <2>2, <2>4, <2>5, <2>6 DEF CalendarOf
  <2> QED  BY <2>7, CalendarByOne
\* A request that ends gives up the companies it had to reach.
<1>l. ASSUME NEW w \in Workers, LeftUndone(w)
      PROVE  /\ stranded \subseteq stranded'
             /\ \A c \in Companies : Reaches(w, c) => c \in stranded'
             /\ Announcing(w) => stranded' = Companies
             /\ stranded = Companies => stranded' = Companies
  <2>1. CalendarOf(w) /\ stranded \subseteq Companies /\ proc[w] \in Procs
    BY <1>i, <1>p, CalendarByOne DEF TypeOK
  <2>2. /\ proc[w].step \in {"evaluate", "write"} => proc[w].todo \subseteq Companies
        /\ proc[w].step = "write" => proc[w].company \in Companies
    BY <2>1, OfProc
  <2>3. proc[w].step = "propagate" => proc[w].rule # NoRule
    BY <2>1 DEF CalendarOf
  <2> QED  BY <1>l, <2>1, <2>2, <2>3 DEF LeftUndone, Reaches, Announcing
<1>19. ASSUME NEW w \in Workers, Fail(w) \/ Restart(w) PROVE CalendarInv'
  <2>1. /\ LeftUndone(w) /\ proc'[w].step = "idle"
        /\ UNCHANGED <<overlay, evaluated, calendar>>
    BY <1>19, <1>d, <1>p, Becomes DEF Fail, Restart
  <2>2. CalendarOf(w)
    BY CalendarByOne
  <2>3. \A x \in Companies : Current(x) => Current(x)'
    BY <1>c, <2>1
  <2>4. Active' = Active
    BY <1>a, <2>1
  <2>5. engine'[Home[w]].registered = Active \/ engine' = engine
    <3>1. CASE Restart(w)
      <4>1. engine'[Home[w]] = Booted(Active)
        BY <1>i, <1>r, <3>1 DEF Restart, TypeOK
      <4> QED  BY <4>1 DEF Booted
    <3> QED  BY <1>19, <3>1 DEF Fail
  <2>6. \A x \in Companies \ stranded' : Current(x)'
    BY <1>l, <2>1, <2>2, <2>3 DEF CalendarOf
  <2>7. engine'[Home[w]].registered = Active' \/ stranded' = Companies
    BY <1>l, <2>1, <2>2, <2>4, <2>5 DEF CalendarOf
  <2>8. CalendarOf(w)'
    BY <2>1, <2>2, <2>6, <2>7 DEF CalendarOf, Amends
  <2> QED  BY <2>8, CalendarByOne
<1>20. CASE NextDay \/ UNCHANGED vars
  <2>1. UNCHANGED <<overlay, engine, evaluated, calendar, stranded, proc>>
    BY <1>20 DEF NextDay, vars, Calendars
  <2>2. Active' = Active
    BY <1>a, <2>1
  <2>3. \A c \in Companies : Current(c) => Current(c)'
    BY <1>c, <2>1
  <2>4. \A w \in Workers : (Announcing(w)' <=> Announcing(w)) /\ (Amends(w)' <=> Amends(w))
                           /\ \A c \in Companies : Reaches(w, c)' <=> Reaches(w, c)
    BY <2>1 DEF Announcing, Amends, Reaches
  <2>5. \A rule \in Rules, w \in Workers :
          Amending(rule, engine[Home[w]].registered, proc[w].day)'
            = Amending(rule, engine[Home[w]].registered, proc[w].day)
    BY <2>1 DEF Amending, InForce
  <2> QED  BY <2>1, <2>2, <2>3, <2>4, <2>5 DEF CalendarInv
<1> QED
  BY <1>1, <1>2, <1>3, <1>4, <1>5, <1>6, <1>7, <1>8, <1>9, <1>10, <1>11, <1>12, <1>13, <1>14, <1>15,
     <1>16, <1>17, <1>18, <1>19, <1>20 DEF Next

LEMMA InitCalendar == Init => CalendarInv
<1> SUFFICES ASSUME Init PROVE CalendarInv
  OBVIOUS
<1>1. Active = {}
  BY DEF Init, Active
<1>2. \A c \in Companies : calendar[c].day = -1
  BY DEF Init
<1>3. \A w \in Workers : proc[w].step = "idle"
  BY DEF Init, Idle
<1>4. \A r \in Replicas : engine[r].registered = {}
  BY DEF Init, Booted
<1> QED  BY <1>1, <1>2, <1>3, <1>4, RegulatoryAssumption DEF CalendarInv, Current, Amends

\* With requests served one after the other, failing or losing the process at any
\* step: a calendar says what the ACTIVE overlays said on the day it was made,
\* unless an amendment was given up before it got there.
THEOREM CalendarsFollow ==
  ASSUME OneAtATime
  PROVE  Spec => []CalendarFollows
<1>1. Init => ServingInv /\ CalendarInv
  BY InitServing, InitCalendar
<1>2. ServingInv /\ CalendarInv /\ [Next]_vars => (ServingInv /\ CalendarInv)'
  BY ServingStep, CalendarStep
<1>3. CalendarInv => CalendarFollows
  <2> SUFFICES ASSUME CalendarInv, \A w \in Workers : proc[w] = Idle,
                      NEW c \in Companies \ stranded
               PROVE  Current(c)
    BY DEF CalendarFollows, Current
  <2> QED  BY DEF CalendarInv, Reaches, Announcing, Idle
<1> QED  BY <1>1, <1>2, <1>3, PTL DEF Spec
=============================================================================
