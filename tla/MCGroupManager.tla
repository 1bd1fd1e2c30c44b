-------------------------- MODULE MCGroupManager --------------------------
(* Small instances of GroupManager for TLC: the owner, a founding member and *)
(* somebody who may be added later.                                          *)
EXTENDS GroupManager, TLC

CONSTANTS o, m, x, p1, p2

ThreeUsers == {o, m, x}
TwoFounders == {o, m}
TwoWorkers == {p1, p2}
OneOrTwo == {{o}, {m}, {x}, {m, x}}

\* The workers are interchangeable.
Symmetry == Permutations(Workers)
===========================================================================
