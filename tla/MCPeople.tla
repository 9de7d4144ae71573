------------------------------ MODULE MCPeople ------------------------------
(* A small instance of People for TLC. *)
EXTENDS People, TLC

CONSTANTS u1, u2, c1, c2, t1, r1, r2

OfFirst == [t \in Tasks |-> c1]

\* Each change alone, and those that the guard and the releases tell apart together.
Each ==
  ({Keep} \X {"yes", "no"}) \cup (Given \X {Keep})
  \cup {<<"SUPER_ADMIN", "no">>, <<"CA", "no">>, <<"VIEWER", "yes">>}

Handles == Permutations({r1, r2}) \cup Permutations({u1, u2})
=============================================================================
