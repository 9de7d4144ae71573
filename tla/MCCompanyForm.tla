--------------------------- MODULE MCCompanyForm ---------------------------
(* A small instance of Onboarding, and of CompanyForm in it, for TLC. *)
EXTENDS Onboarding, TLC

CONSTANTS c1, c2, x1, x2, n1, n2, r1, r2, e1, e2

\* A behaviour concerns the CINs or the numbers, so the two are exchanged as one.
Handles == Permutations({r1, r2}) \cup Permutations({c1, c2}) \cup Permutations({e1, e2})
             \cup {(x1 :> x2) @@ (x2 :> x1) @@ (n1 :> n2) @@ (n2 :> n1)}

\* What the browser holds matters to the rest of a behaviour while it may send.
View == <<server, people, IF Alive THEN <<browser, door>> ELSE <<>>>>
=============================================================================
