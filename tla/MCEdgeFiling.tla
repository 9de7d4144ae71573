---------------------------- MODULE MCEdgeFiling ----------------------------
(* A small instance of EdgeFiling for TLC. *)
EXTENDS EdgeFiling

CONSTANT r1
=============================================================================
