----------------------------- MODULE Regulatory -----------------------------
(***************************************************************************)
(* The regulatory watch: circulars become proposals, a reviewer turns a    *)
(* proposal into an overlay, every process of the API keeps the overlays   *)
(* in memory (engine/overlay.ts) and companies' calendars are regenerated  *)
(* through them (regulatory.service.ts).                                   *)
(*                                                                         *)
(* A rule is seen by the overlays that amend it and by whether it is       *)
(* switched off; what a patch says beyond that is left out.  What a        *)
(* regeneration does to the rows of a calendar is module Obligations.      *)
(***************************************************************************)
EXTENDS Integers, FiniteSets

CONSTANTS
  Replicas, Workers,
  Home,         \* Home[w]: the process worker w is a request of
  Rules,
  Carved,       \* the rules whose catalog entry has an excludeWhen
  Companies,
  Circulars,    \* what the authorities publish
  Proposals, CircularOf, RuleOf,
  Unsound,      \* the proposals no overlay can express
  Patches,      \* bound: what reviewers approve, and for which days
  MaxOverlays,  \* bound: overlays ever created
  MaxDay        \* bound: the last day of the model

NoRule == "no rule"   \* ruleCode is null, or not in the catalog

ASSUME RegulatoryAssumption ==
  /\ Home \in [Workers -> Replicas]
  /\ Carved \subseteq Rules /\ NoRule \notin Rules
  /\ CircularOf \in [Proposals -> Circulars] /\ RuleOf \in [Proposals -> Rules \cup {NoRule}]
  /\ Unsound \subseteq Proposals /\ \A p \in Proposals : RuleOf[p] = NoRule => p \in Unsound
  /\ IsFiniteSet(Proposals) /\ MaxOverlays \in Nat /\ MaxDay \in Nat
  /\ Patches \subseteq [withdraws : BOOLEAN, from : 0..MaxDay, to : 0..MaxDay]

VARIABLES
  today,
  stored,    \* the circulars with a regulatory_updates row
  proposal,  \* the rule_change_proposals rows
  overlay,   \* the rule_overlays rows, in the order of their creation
  engine,    \* engine[r]: what process r keeps in memory
  evaluated, \* companies with compliance_applicability rows
  calendar,  \* calendar[c]: the day c's calendar was made, and by what overlays
  stranded,  \* history: companies an amendment may not have reached
  cutOff,    \* history: rules whose older proposals a sweep did not get to
  proc       \* proc[w]: what worker w is in the middle of

vars == <<today, stored, proposal, overlay, engine, evaluated, calendar, stranded, cutOff, proc>>

Days     == 0..MaxDay
Overlays == 1..MaxOverlays

\* born orders the proposals by createdAt; overlay is overlayId.
ProposalRows ==
  [status : {"none", "PENDING", "APPROVED", "REJECTED", "CODE_CHANGE_REQUIRED", "SUPERSEDED"},
   born : 0..Cardinality(Proposals), overlay : 0..MaxOverlays]

\* source: the proposal it was approved from, if any.  from and to stand for
\* effectiveFrom and effectiveTo, MaxDay for no end.
OverlayRows ==
  [status : {"none", "ACTIVE", "REVOKED"}, rule : Rules \cup {NoRule}, source : SUBSET Proposals,
   patch : [withdraws : BOOLEAN, from : Days, to : Days]]

\* A rule as the engine serves it.
Views == [Rules -> [by : SUBSET Overlays, off : BOOLEAN]]

\* registered and cache of overlay.ts; pushed: the rules whose committed
\* excludeWhen array applyOverlay has pushed a carve-out onto.
Memos   == [day : Days \cup {-1}, ids : SUBSET Overlays, view : Views]
Engines == [registered : SUBSET Overlays, memo : Memos, pushed : SUBSET Rules]

Idle == [step |-> "idle"]
Targets == Rules \cup {NoRule}
Procs ==
  {Idle}
  \cup [step : {"approve", "reject"}, proposal : Proposals]
  \cup [step : {"revoke"}, overlay : Overlays]
  \cup [step : {"refresh", "propagate"}, rule : Targets]
  \cup [step : {"set"}, rule : Targets, rows : SUBSET Overlays]
  \cup [step : {"evaluate"}, todo : (SUBSET Companies) \ {{}}, amending : BOOLEAN]
  \cup [step : {"write"}, todo : SUBSET Companies, amending : BOOLEAN, company : Companies,
        day : Days, by : [Rules -> SUBSET Overlays]]
  \cup [step : {"store"}, circular : Circulars]
  \cup [step : {"queue"}, rules : SUBSET Rules]
  \cup [step : {"supersede"}, rules : SUBSET Rules, older : SUBSET Proposals]

-----------------------------------------------------------------------------
(* engine/overlay.ts *)

Active == {o \in Overlays : overlay[o].status = "ACTIVE"}

InForce(o, day) == overlay[o].patch.from <= day /\ day <= overlay[o].patch.to

Amending(rule, ids, day) == {o \in ids : overlay[o].rule = rule /\ InForce(o, day)}

Withdrawn(rule, ids, day) == \E o \in Amending(rule, ids, day) : overlay[o].patch.withdraws

\* applyOverlays, over the catalog as the process has it by now.
Applied(e, day) ==
  [rule \in Rules |-> [by  |-> Amending(rule, e.registered, day),
                       off |-> rule \in e.pushed \/ Withdrawn(rule, e.registered, day)]]

NoMemo == [day |-> -1, ids |-> {}, view |-> [rule \in Rules |-> [by |-> {}, off |-> FALSE]]]

Hit_AnyDay(e) == e.memo.day # -1 /\ e.memo.ids = e.registered

Hit(e) == e.memo.day = today /\ e.memo.ids = e.registered

\* withRegisteredOverlays: what a caller is given.
Served(e) == IF e.registered # {} /\ Hit(e) THEN e.memo.view ELSE Applied(e, today)

\* What giving it does to the process.  applyOverlay pushes the carve-out of a
\* withdrawal onto the array patchConditions hands back, which is the catalog's
\* own when the rule has one.
Asked(e) ==
  IF e.registered = {} \/ Hit(e) THEN e
  ELSE [e EXCEPT !.memo = [day |-> today, ids |-> e.registered, view |-> Applied(e, today)],
                 !.pushed = @ \cup {rule \in Carved : Withdrawn(rule, e.registered, today)}]

\* setRuleOverlays.
Registered(e, rows) == [e EXCEPT !.registered = rows, !.memo = NoMemo]

Booted(rows) == [registered |-> rows, memo |-> NoMemo, pushed |-> {}]

-----------------------------------------------------------------------------
Init ==
  /\ today = 0
  /\ stored = {}
  /\ proposal = [p \in Proposals |-> [status |-> "none", born |-> 0, overlay |-> 0]]
  /\ overlay = [o \in Overlays |-> [status |-> "none", rule |-> NoRule, source |-> {},
                                    patch |-> [withdraws |-> FALSE, from |-> 0, to |-> 0]]]
  /\ engine = [r \in Replicas |-> Booted({})]
  /\ evaluated = {}
  /\ calendar = [c \in Companies |-> [day |-> -1, by |-> [rule \in Rules |-> {}]]]
  /\ stranded = {} /\ cutOff = {}
  /\ proc = [w \in Workers |-> Idle]

Become(w, p) == proc' = [proc EXCEPT ![w] = p]

Queue     == <<stored, proposal, cutOff>>
Calendars == <<evaluated, calendar, stranded>>

-----------------------------------------------------------------------------
(* runRegulatorySweep and storeUpdate: a sweep stores, one after the other, what *)
(* its research found; which circulars that is, within the look-back and the cap, *)
(* may be any. *)

Drafted(circular) == {p \in Proposals : CircularOf[p] = circular}

\* An update that is already known ends it, which is no step.
StoreRead(w, circular) ==
  /\ proc[w] = Idle /\ circular \notin stored
  /\ Become(w, [step |-> "store", circular |-> circular])
  /\ UNCHANGED <<today, Queue, overlay, engine, Calendars>>

Prepared(p) == IF p \in Unsound THEN "CODE_CHANGE_REQUIRED" ELSE "PENDING"

\* The update and its proposals, in one create; the unique fingerprint turns the
\* loser of a race away.
StoreWrite(w) ==
  /\ proc[w].step = "store"
  /\ LET circular == proc[w].circular
         rules == {RuleOf[p] : p \in Drafted(circular)} \ {NoRule}
         born == Cardinality({p \in Proposals : proposal[p].status # "none"}) + 1
     IN  IF circular \in stored
         THEN Become(w, Idle) /\ UNCHANGED <<stored, proposal>>
         ELSE /\ stored' = stored \cup {circular}
              /\ proposal' = [p \in Proposals |->
                   IF p \in Drafted(circular)
                   THEN [status |-> Prepared(p), born |-> born, overlay |-> 0] ELSE proposal[p]]
              /\ Become(w, IF rules = {} THEN Idle ELSE [step |-> "queue", rules |-> rules])
  /\ UNCHANGED <<today, overlay, engine, Calendars, cutOff>>

PendingFor(rule) == {p \in Proposals : RuleOf[p] = rule /\ proposal[p].status = "PENDING"}

Superseded_Same(kept) ==
  (UNION {{q \in PendingFor(RuleOf[p]) : proposal[q].born = proposal[p].born} : p \in kept}) \ kept

\* All but the newest of each rule.
Superseded(kept) == (UNION {PendingFor(RuleOf[p]) : p \in kept}) \ kept

\* supersedeOlderProposals reads the pending proposals of the rules, newest first.
SupersedeRead(w) ==
  /\ proc[w].step = "queue"
  /\ \E kept \in SUBSET {p \in Proposals : RuleOf[p] \in proc[w].rules /\ proposal[p].status = "PENDING"} :
       /\ \A rule \in proc[w].rules :
            LET mine == {p \in kept : RuleOf[p] = rule} IN
              /\ Cardinality(mine) = IF PendingFor(rule) = {} THEN 0 ELSE 1
              /\ \A p \in mine, q \in PendingFor(rule) : proposal[q].born <= proposal[p].born
       /\ Become(w, [step |-> "supersede", rules |-> proc[w].rules, older |-> Superseded(kept)])
  /\ UNCHANGED <<today, Queue, overlay, engine, Calendars>>

\* By id, whatever has become of them since.
SupersedeWrite(w) ==
  /\ proc[w].step = "supersede"
  /\ proposal' = [p \in Proposals |->
       IF p \in proc[w].older THEN [proposal[p] EXCEPT !.status = "SUPERSEDED"] ELSE proposal[p]]
  /\ cutOff' = cutOff \ proc[w].rules
  /\ Become(w, Idle)
  /\ UNCHANGED <<today, stored, overlay, engine, Calendars>>

-----------------------------------------------------------------------------
(* approveProposal, rejectProposal, createOverlay, revokeOverlay *)

\* A proposal that was rejected or superseded may be approved all the same.
Approvable(p) ==
  /\ proposal[p].status \notin {"none", "APPROVED", "CODE_CHANGE_REQUIRED"}
  /\ RuleOf[p] # NoRule

ApproveRead(w, p) ==
  /\ proc[w] = Idle /\ Approvable(p)
  /\ Become(w, [step |-> "approve", proposal |-> p])
  /\ UNCHANGED <<today, Queue, overlay, engine, Calendars>>

NextOverlay == Cardinality({o \in Overlays : overlay[o].status # "none"}) + 1

\* The reviewer's patch and window, or the drafted patch.
Overlaid(rule, source) ==
  /\ NextOverlay <= MaxOverlays
  /\ \E patch \in Patches :
       overlay' = [overlay EXCEPT ![NextOverlay] =
         [status |-> "ACTIVE", rule |-> rule, patch |-> patch, source |-> source]]

\* The transaction: the overlay, and the proposal that is now backed by it.
ApproveWrite(w) ==
  /\ proc[w].step = "approve"
  /\ LET p == proc[w].proposal IN
       /\ Overlaid(RuleOf[p], {p})
       /\ proposal' = [proposal EXCEPT ![p].status = "APPROVED", ![p].overlay = NextOverlay]
       /\ Become(w, [step |-> "refresh", rule |-> RuleOf[p]])
  /\ UNCHANGED <<today, stored, engine, Calendars, cutOff>>

RejectRead(w, p) ==
  /\ proc[w] = Idle /\ proposal[p].status \notin {"none", "APPROVED"}
  /\ Become(w, [step |-> "reject", proposal |-> p])
  /\ UNCHANGED <<today, Queue, overlay, engine, Calendars>>

RejectWrite(w) ==
  /\ proc[w].step = "reject"
  /\ \E status \in {"REJECTED", "CODE_CHANGE_REQUIRED"} :
       proposal' = [proposal EXCEPT ![proc[w].proposal].status = status]
  /\ Become(w, Idle)
  /\ UNCHANGED <<today, stored, overlay, engine, Calendars, cutOff>>

CreateOverlay(w, rule) ==
  /\ proc[w] = Idle
  /\ Overlaid(rule, {})
  /\ Become(w, [step |-> "refresh", rule |-> rule])
  /\ UNCHANGED <<today, Queue, engine, Calendars>>

RevokeRead(w, o) ==
  /\ proc[w] = Idle /\ overlay[o].status = "ACTIVE"
  /\ Become(w, [step |-> "revoke", overlay |-> o])
  /\ UNCHANGED <<today, Queue, overlay, engine, Calendars>>

RevokeWrite(w) ==
  /\ proc[w].step = "revoke"
  /\ LET o == proc[w].overlay IN
       /\ overlay' = [overlay EXCEPT ![o].status = "REVOKED"]
       /\ Become(w, [step |-> "refresh", rule |-> overlay[o].rule])
  /\ UNCHANGED <<today, Queue, engine, Calendars>>

-----------------------------------------------------------------------------
(* refreshOverlays, propagateRuleChange, syncCompany *)

\* The daily job's refresh, or POST /overlays/refresh: nothing is propagated.
Refresh(w) ==
  /\ proc[w] = Idle
  /\ Become(w, [step |-> "refresh", rule |-> NoRule])
  /\ UNCHANGED <<today, Queue, overlay, engine, Calendars>>

Loaded_EvenRevoked == {o \in Overlays : overlay[o].status # "none"}

\* The rows refreshOverlays finds.
Loaded == Active

RefreshRead(w) ==
  /\ proc[w].step = "refresh"
  /\ Become(w, [step |-> "set", rule |-> proc[w].rule, rows |-> Loaded])
  /\ UNCHANGED <<today, Queue, overlay, engine, Calendars>>

RefreshSet(w) ==
  /\ proc[w].step = "set"
  /\ engine' = [engine EXCEPT ![Home[w]] = Registered(@, proc[w].rows)]
  /\ Become(w, IF proc[w].rule = NoRule THEN Idle ELSE [step |-> "propagate", rule |-> proc[w].rule])
  /\ UNCHANGED <<today, Queue, overlay, Calendars>>

\* Every catalog rule is evaluated for a company at once, so the companies that
\* were evaluated against this one are those evaluated at all.
Propagate(w) ==
  /\ proc[w].step = "propagate"
  /\ Become(w, IF evaluated = {} THEN Idle
               ELSE [step |-> "evaluate", todo |-> evaluated, amending |-> TRUE])
  /\ UNCHANGED <<today, Queue, overlay, engine, Calendars>>

SyncCompany(w, c) ==
  /\ proc[w] = Idle
  /\ Become(w, [step |-> "evaluate", todo |-> {c}, amending |-> FALSE])
  /\ UNCHANGED <<today, Queue, overlay, engine, Calendars>>

\* regenerate asks the engine and records the evaluations...
Evaluate(w) ==
  /\ proc[w].step = "evaluate"
  /\ LET e == engine[Home[w]] IN
       \E c \in proc[w].todo :
         /\ evaluated' = evaluated \cup {c}
         /\ Become(w, [step |-> "write", todo |-> proc[w].todo \ {c}, amending |-> proc[w].amending,
                       company |-> c, day |-> today, by |-> [rule \in Rules |-> Served(e)[rule].by]])
         /\ engine' = [engine EXCEPT ![Home[w]] = Asked(e)]
  /\ UNCHANGED <<today, Queue, overlay, calendar, stranded>>

Onward(w, todo) ==
  Become(w, IF todo = {} THEN Idle
            ELSE [step |-> "evaluate", todo |-> todo, amending |-> proc[w].amending])

\* ...then brings the calendar in line.
Write(w) ==
  /\ proc[w].step = "write"
  /\ LET c == proc[w].company IN
       /\ calendar' = [calendar EXCEPT ![c] = [day |-> proc[w].day, by |-> proc[w].by]]
       /\ stranded' = IF proc[w].amending THEN stranded \ {c} ELSE stranded
  /\ Onward(w, proc[w].todo)
  /\ UNCHANGED <<today, Queue, overlay, engine, evaluated>>

\* One company that cannot be regenerated does not stop the others.
Skip(w) ==
  /\ proc[w].step = "write"
  /\ stranded' = IF proc[w].amending THEN stranded \cup {proc[w].company} ELSE stranded
  /\ Onward(w, proc[w].todo)
  /\ UNCHANGED <<today, Queue, overlay, engine, evaluated, calendar>>

-----------------------------------------------------------------------------
(* Failures, restarts and the calendar of the world *)

\* What a request that ends at this step leaves undone.
LeftUndone(w) ==
  /\ stranded' = IF proc[w].step \in {"refresh", "set", "propagate"} /\ proc[w].rule # NoRule
                 THEN Companies
                 ELSE IF proc[w].step = "evaluate" /\ proc[w].amending THEN stranded \cup proc[w].todo
                 ELSE IF proc[w].step = "write" /\ proc[w].amending
                 THEN stranded \cup proc[w].todo \cup {proc[w].company} ELSE stranded
  /\ cutOff' = IF proc[w].step \in {"queue", "supersede"} THEN cutOff \cup proc[w].rules ELSE cutOff

\* A database call throws.
Fail(w) ==
  /\ proc[w] # Idle
  /\ LeftUndone(w)
  /\ Become(w, Idle)
  /\ UNCHANGED <<today, stored, proposal, overlay, engine, evaluated, calendar>>

\* A process with one request under way dies; its successor loads the overlays
\* before it listens.
Restart(w) ==
  /\ \A v \in Workers : Home[v] = Home[w] /\ v # w => proc[v] = Idle
  /\ LeftUndone(w)
  /\ engine' = [engine EXCEPT ![Home[w]] = Booted(Active)]
  /\ Become(w, Idle)
  /\ UNCHANGED <<today, stored, proposal, overlay, evaluated, calendar>>

NextDay ==
  /\ today < MaxDay
  /\ today' = today + 1
  /\ UNCHANGED <<Queue, overlay, engine, Calendars, proc>>

Next ==
  \/ \E w \in Workers :
       \/ \E circular \in Circulars : StoreRead(w, circular)
       \/ StoreWrite(w) \/ SupersedeRead(w) \/ SupersedeWrite(w)
       \/ \E p \in Proposals : ApproveRead(w, p) \/ RejectRead(w, p)
       \/ ApproveWrite(w) \/ RejectWrite(w)
       \/ \E rule \in Rules : CreateOverlay(w, rule)
       \/ \E o \in Overlays : RevokeRead(w, o)
       \/ RevokeWrite(w)
       \/ Refresh(w) \/ RefreshRead(w) \/ RefreshSet(w)
       \/ Propagate(w) \/ Evaluate(w) \/ Write(w) \/ Skip(w)
       \/ \E c \in Companies : SyncCompany(w, c)
       \/ Fail(w) \/ Restart(w)
  \/ NextDay

Spec == Init /\ [][Next]_vars

-----------------------------------------------------------------------------
(***************************************************************************)
(* Properties.                                                             *)
(***************************************************************************)

\* Rows, memory and requests are well formed.
TypeOK ==
  /\ today \in Days
  /\ stored \subseteq Circulars
  /\ proposal \in [Proposals -> ProposalRows]
  /\ overlay \in [Overlays -> OverlayRows]
  /\ engine \in [Replicas -> Engines]
  /\ evaluated \subseteq Companies
  /\ calendar \in [Companies -> [day : Days \cup {-1}, by : [Rules -> SUBSET Overlays]]]
  /\ stranded \subseteq Companies /\ cutOff \subseteq Rules
  /\ proc \in [Workers -> Procs]

\* "A proposal can never be marked approved without the overlay that is supposed
\* to back it" (approveProposal), nor be behind two, nor lose its mark: with
\* reviews and sweeps served one after the other.
OneOverlayEach ==
  \A p \in Proposals :
    {o \in Overlays : p \in overlay[o].source} =
      IF proposal[p].status = "APPROVED" THEN {proposal[p].overlay} ELSE {}

\* "Marking it superseded keeps the queue honest" (supersedeOlderProposals): once
\* a sweep is past a rule, one proposal for it at most awaits review, unless a
\* sweep was cut off before it got there.
QueueHonest ==
  \A rule \in Rules :
    Cardinality(PendingFor(rule)) > 1 =>
      rule \in cutOff \/ \E w \in Workers : proc[w].step \in {"queue", "supersede"} /\ rule \in proc[w].rules

\* What the review queue and the overlays say of a proposal, together.
ReviewsHonest == OneOverlayEach /\ QueueHonest

\* "A long-lived process must not keep serving yesterday's view" (overlay.ts):
\* what a process serves is amended by the overlays it holds that are in force
\* today, whatever it has in its cache.
ViewIsCurrent ==
  \A r \in Replicas, rule \in Rules :
    Served(engine[r])[rule].by = Amending(rule, engine[r].registered, today)

\* propagateRuleChange: without it "an approved extension is invisible".  When no
\* amendment is under way, the calendar of every company that the last one
\* reached says what the ACTIVE overlays said on the day it was made.
CalendarFollows ==
  (\A w \in Workers : proc[w] = Idle) =>
    \A c \in Companies \ stranded :
      calendar[c].day # -1 =>
        \A rule \in Rules : calendar[c].by[rule] = Amending(rule, Active, calendar[c].day)
=============================================================================
