--------------------------- MODULE MCObligations ---------------------------
(* Small instances of Obligations for TLC. *)
EXTENDS ObligationsInvariants

CONSTANTS s1, r1, r2, e1, e2

LevelAttest == [s \in Slots |-> "ATTEST"]
EverySigner == [s \in Slots |-> TRUE]
=============================================================================
