----------------------------- MODULE MCSessions -----------------------------
\* Small instances of Sessions.  Tokens and requests are interchangeable;
\* browsers are not, as Init names one.
EXTENDS Sessions, TLC

Interchangeable == Permutations(Tokens) \cup Permutations(Requests)
=============================================================================
