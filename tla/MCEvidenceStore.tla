-------------------------- MODULE MCEvidenceStore --------------------------
(* A small instance of EvidenceStore for TLC. *)
EXTENDS EvidenceStore, TLC

CONSTANTS r1, r2, f1, f2, i1

TwoDocuments == [k \in Kinds |-> IF k = "doc" THEN 2 ELSE 1]

Handles == Permutations({r1, r2})
=============================================================================
