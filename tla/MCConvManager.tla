--------------------------- MODULE MCConvManager ---------------------------
(* Small instances of ConvManager for TLC. *)
EXTENDS ConvManager, TLC

CONSTANTS u1, u2, p1, p2, c1, c2

TwoMembers == {u1, u2}
TwoWorkers == {p1, p2}
TwoClearers == {c1, c2}

\* The members, the workers and the clearers are interchangeable.
Symmetry ==
  Permutations(Users) \cup Permutations(Workers) \cup Permutations(Clearers)

\* For the liveness properties: what neither they nor the steps of the workers
\* and of the receiver depend on is left out of the fingerprint.
LiveView ==
  <<dbConv, tree.ok, tree.seq, conv.ok, conv.seq, convLock, nextId, crashes,
    [p \in Workers |-> <<job[p].pc, job[p].s, job[p].seq, job[p].left,
                         job[p].snap.seq>>],
    [i \in 1 .. Len(acks) |-> <<acks[i].seq, acks[i].s, acks[i].ok>>],
    rx = RxIdle, rx.seq, rx.s, rx.left>>
=============================================================================
