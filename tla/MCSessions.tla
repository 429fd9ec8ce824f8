------------------------------ MODULE MCSessions ------------------------------
(* Values for the model checker: two uids, one route, for companies. *)
EXTENDS Sessions, TLC

CONSTANTS company, admin, u1, u2, s1, s2

TwoUids == {u1, u2}
TwoRequests == {s1, s2}
MCRoutes == {{company}}

\* Uids and slots are interchangeable.
Symmetry == Permutations(TwoUids) \cup Permutations(TwoRequests)
=============================================================================
