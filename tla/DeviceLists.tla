----------------------------- MODULE DeviceLists -----------------------------
(***************************************************************************)
(* The connections each user's messages are pushed to, in the order of     *)
(* their logins.  A login appends its connection and pushes out the        *)
(* earliest slave device if there are as many as allowed, or at most one   *)
(* other master; only the cleanup of a user's own connection takes         *)
(* anything from the list besides, once.                                   *)
(***************************************************************************)
EXTENDS Integers, FiniteSets, SequencesExt

CONSTANTS Conns, Users,
          NoUser,    \* the owner of a connection that has not said who it is
          MaxSlaves  \* how many slave devices a user may have

VARIABLES owner,   \* per connection its user
          level,   \* per connection unset, then master or slave
          devices, \* per user the list
          cleaned  \* the connections whose close was dealt with

vars == <<owner, level, devices, cleaned>>

Init ==
  /\ owner = [c \in Conns |-> NoUser]
  /\ level = [c \in Conns |-> "unset"]
  /\ devices = [u \in Users |-> <<>>]
  /\ cleaned = {}

\* Where in the list of u the devices of a level are.
At(u, l) == {i \in DOMAIN devices[u] : level[devices[u][i]] = l}

\* The connection says whose it is, once.
Claim(c, u) ==
  /\ owner[c] = NoUser
  /\ owner' = [owner EXCEPT ![c] = u]
  /\ UNCHANGED <<level, devices, cleaned>>

\* Who has to leave the list of u for a device of level l: the earliest slave if there
\* are as many as allowed, and of several masters one at most.
Leaves(u, l, i) ==
  /\ i \in At(u, l)
  /\ l = "slave" => /\ Cardinality(At(u, l)) = MaxSlaves
                    /\ \A j \in At(u, l) : i <= j
NobodyLeaves(u, l) == l = "slave" => Cardinality(At(u, l)) < MaxSlaves

\* The connection joins the list of its user.
Login(c, l) ==
  LET u == owner[c]
  IN /\ u # NoUser
     /\ level[c] = "unset"
     /\ level' = [level EXCEPT ![c] = l]
     /\ \/ /\ NobodyLeaves(u, l)
           /\ devices' = [devices EXCEPT ![u] = Append(@, c)]
        \/ \E i \in DOMAIN devices[u] :
             /\ Leaves(u, l, i)
             /\ devices' = [devices EXCEPT ![u] = Append(RemoveAt(@, i), c)]
     /\ UNCHANGED <<owner, cleaned>>

\* A close is cleaned up: the connection leaves the list if it is there, unless the
\* cleanup still looks at an older list, from which it may conclude that the user has no
\* device left.
Clean(c) ==
  LET u == owner[c]
  IN /\ c \notin cleaned
     /\ cleaned' = cleaned \cup {c}
     /\ \/ UNCHANGED devices
        \/ /\ u # NoUser
           /\ \/ \E i \in DOMAIN devices[u] :
                   /\ devices[u][i] = c
                   /\ devices' = [devices EXCEPT ![u] = RemoveAt(@, i)]
              \/ devices' = [devices EXCEPT ![u] = <<>>]
     /\ UNCHANGED <<owner, level>>

Next == \E c \in Conns : \/ \E u \in Users : Claim(c, u)
                         \/ \E l \in {"master", "slave"} : Login(c, l)
                         \/ Clean(c)

Spec == Init /\ [][Next]_vars
=============================================================================
