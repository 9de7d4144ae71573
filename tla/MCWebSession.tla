---------------------------- MODULE MCWebSession ----------------------------
(* A small instance of WebSession for TLC: a browser with two tabs, and another. *)
EXTENDS WebSession, TLC

CONSTANTS home, away, q1, q2

TwoAndOne == {<<home, 1>>, <<home, 2>>, <<away, 1>>}
SameCalls == Permutations({q1, q2})
=============================================================================
