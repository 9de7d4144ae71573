------------------------ MODULE ObligationLifecycle ------------------------
(***************************************************************************)
(* What the product promises about one statutory obligation, whatever      *)
(* tables and requests implement it (README.md, "The completion gate" and  *)
(* "Sync and reconciliation"): the calendar may take back only an open     *)
(* obligation without evidence; filing needs finished work and something   *)
(* to show for it; pulling the work back open reopens the filing; and the  *)
(* filing's claim is gone as soon as the obligation is not filed.          *)
(*                                                                         *)
(* The obligations are independent of each other, so one step may move     *)
(* several of them (a calendar sync does), each by a step of its own.      *)
(***************************************************************************)

CONSTANTS
  Slots,   \* the obligations a calendar may hold: rule and period
  Level    \* the evidence level of each: "REQUIRED", "ATTEST" or "NONE"

VARIABLES
  stage,      \* "none" (not on the calendar), "open", "filed" or "waived"
  workDone,   \* the work behind the obligation is finished
  evidence,   \* at least one document is attached
  declared    \* the filing carries a declaration

lifecycle == <<stage, workDone, evidence, declared>>

Init ==
  /\ stage    = [s \in Slots |-> "none"]
  /\ workDone = [s \in Slots |-> FALSE]
  /\ evidence = [s \in Slots |-> FALSE]
  /\ declared = [s \in Slots |-> FALSE]

Same(s) ==
  /\ stage'[s] = stage[s]
  /\ workDone'[s] <=> workDone[s]
  /\ evidence'[s] <=> evidence[s]
  /\ declared'[s] <=> declared[s]

\* The calendar gains the obligation, untouched.
Appear(s) ==
  /\ stage[s] = "none"          /\ stage'[s] = "open"
  /\ ~workDone'[s] /\ ~evidence'[s] /\ ~declared'[s]

\* The calendar drops it: only while open, and never with evidence attached.
Withdraw(s) ==
  /\ stage[s] = "open"          /\ stage'[s] = "none"
  /\ ~evidence[s]
  /\ ~workDone'[s] /\ ~evidence'[s] /\ ~declared'[s]

\* Filing: the work is done, and there is evidence or, where the level lets a
\* declaration stand for it, a declaration.  An ungated obligation just closes.
File(s) ==
  /\ stage[s] # "none"          /\ stage'[s] = "filed"
  /\ evidence'[s] <=> evidence[s]
  /\ Level[s] # "NONE"    => workDone[s] /\ workDone'[s]
  /\ Level[s] = "REQUIRED" => evidence[s]
  /\ Level[s] = "ATTEST"   => evidence[s] \/ declared'[s]

\* Waiving or reopening: the claim goes, and the work is no longer done.
SetAside(s) ==
  /\ stage[s] # "none"          /\ stage'[s] \in {"open", "waived"}
  /\ evidence'[s] <=> evidence[s]
  /\ ~declared'[s] /\ ~workDone'[s]

\* The work moves.  Work that stops being done takes the filing with it.
MoveWork(s) ==
  /\ stage[s] # "none"
  /\ evidence'[s] <=> evidence[s]
  /\ \/ /\ workDone'[s] \/ stage[s] # "filed"
        /\ stage'[s] = stage[s]
        /\ declared'[s] <=> declared[s]
     \/ /\ ~workDone'[s]        /\ stage[s] = "filed"
        /\ stage'[s] = "open"   /\ ~declared'[s]

\* Documents come and go while the obligation is on the calendar.
ChangeEvidence(s) ==
  /\ stage[s] # "none"
  /\ stage'[s] = stage[s]
  /\ workDone'[s] <=> workDone[s]
  /\ declared'[s] <=> declared[s]

Step(s) ==
  \/ Appear(s) \/ Withdraw(s) \/ File(s) \/ SetAside(s) \/ MoveWork(s) \/ ChangeEvidence(s)

Next == \A s \in Slots : Step(s) \/ Same(s)

Spec == Init /\ [][Next]_lifecycle
=============================================================================
