--------------------------- MODULE MCConnManager ---------------------------
(* Small instances of ConnManager for TLC. *)
EXTENDS ConnManager, TLC

CONSTANTS c1, c2, u1, u2, p1, p2, phone, web

OneConn == {c1}
TwoConns == {c1, c2}
OneUser == {u1}
TwoUsers == {u1, u2}
OneWorker == {p1}
TwoWorkers == {p1, p2}
BothTypes == {phone, web}
Phones == {phone}
Webs == {web}
None == {}

\* Connections, users and workers are interchangeable.
Symmetry == Permutations(Conns) \cup Permutations(Users) \cup Permutations(Workers)

\* What no step can read any more is left out of the fingerprint: queued checks
\* and ping times of unregistered connections, level lists of dead wraps.
WrapIsLive(w) == \/ \E u \in Users : uid2conn[u] = w
                 \/ \E c \in Conns : clean[c].pc \in {"level", "lock"} /\ clean[c].w = w
LiveView ==
  <<sock, connId2conn, state, uid, clevel, uid2conn, conns, segLock, taker, done,
    job, clean,
    {t \in dq : t.c \in connId2conn},
    [c \in Conns |-> IF c \in connId2conn THEN lastPing[c] ELSE "unset"],
    [w \in Conns |-> IF WrapIsLive(w) THEN level2conn[w] ELSE <<>>]>>
=============================================================================
