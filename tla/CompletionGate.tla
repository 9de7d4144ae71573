--------------------------- MODULE CompletionGate ---------------------------
(***************************************************************************)
(* The completion gate, src/engine/gate.ts: what must be true of an        *)
(* obligation, its task and its evidence before the obligation may be      *)
(* marked COMPLETED.  The code collects every blocker for the error body;  *)
(* only whether there is one matters to the state, so the gate is here the *)
(* conjunction of its blockers' negations.                                 *)
(*                                                                         *)
(* A declaration and a signatory's name are typed text.  The gate tells    *)
(* apart text that is blank after trim(), too short and long enough, so    *)
(* a text is its class.                                                    *)
(***************************************************************************)

EvidenceLevels == {"REQUIRED", "ATTEST", "NONE"}
TaskStatuses   == {"TODO", "IN_PROGRESS", "BLOCKED", "DONE", "CANCELLED"}

\* A text after trim(): null, under the minimum length, acceptable.  Over-long
\* text is refused by the route's schema before the gate sees it.
Texts == {"blank", "short", "ok"}

\* in is a GateInput, with the document count as "any" and outstanding for a
\* checklist entry that is not ticked.
Gated(in) == in.level # "NONE"

Unassigned(in)          == Gated(in) /\ ~in.assigned
ChecklistIncomplete(in) == Gated(in) /\ in.outstanding
EvidenceRequired(in)    == in.level = "REQUIRED" /\ ~in.documents
AttestationMissing(in)  == in.level = "ATTEST" /\ ~in.documents /\ in.attestation # "ok"
TaskNotDone(in)         == Gated(in) /\ in.taskStatus # "DONE"
SignatoryMissing(in)    ==
  \/ in.signatoryRequired /\ in.documents /\ in.signatory = "blank"
  \/ in.signatory = "short"

Allowed_ProofOnly(in) ==
  ~EvidenceRequired(in) /\ ~AttestationMissing(in) /\ ~SignatoryMissing(in)

\* evaluateGate(in).allowed
Allowed(in) ==
  /\ ~Unassigned(in)
  /\ ~ChecklistIncomplete(in)
  /\ ~EvidenceRequired(in)
  /\ ~AttestationMissing(in)
  /\ ~TaskNotDone(in)
  /\ ~SignatoryMissing(in)
=============================================================================
