---------------------------- MODULE MCGroupConv ----------------------------
(* Small instances of GroupConv for TLC. *)
EXTENDS GroupConv, TLC

CONSTANTS g1, g2, u1, u2, p1, c1

TwoGroups == {g1, g2}
TwoMembers == {u1, u2}
OneUnknown == {u1}
OneWorker == {p1}
OneClearer == {c1}

\* Everybody is invited into the first group; into the second only one of them, beside
\* users that are left out.  That one may get no row.
OneInBoth == (g1 :> <<u1, u2>>) @@ (g2 :> <<u1>>)

\* Of the wraps those are told apart that are in use or held by a thread: nothing
\* reads the others any more.  Nor does anything depend on their names, only on
\* which of them is in use and who holds which.
WrapsInSight(u) ==
  {<<wraps[u][w], w = uid2conv[u],
     {g \in Groups : start[g].u = u /\ start[g].w = w},
     {p \in Workers : job[p].u = u /\ job[p].w = w}>> :
   w \in ({uid2conv[u]} \cup {start[g].w : g \in {h \in Groups : start[h].u = u}}
         \cup {job[p].w : p \in {q \in Workers : job[q].u = u}}) \ {NoWrap}}
HeldView ==
  <<stores, conv, item, acks, rx, clear, msgs,
    [g \in Groups |-> [start[g] EXCEPT !.w = NoWrap]],
    [p \in Workers |-> [job[p] EXCEPT !.w = NoWrap]],
    [u \in Users |-> WrapsInSight(u)]>>
=============================================================================
