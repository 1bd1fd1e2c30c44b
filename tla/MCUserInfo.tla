----------------------------- MODULE MCUserInfo -----------------------------
(* A small instance of UserInfo for TLC. *)
EXTENDS UserInfo, TLC

CONSTANTS u1, u2, p1, p2

TwoUsers == {u1, u2}
TwoCallers == {p1, p2}

\* The users and the callers are interchangeable.
Symmetry == Permutations(Users) \cup Permutations(Callers)
=============================================================================
