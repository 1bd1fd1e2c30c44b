------------------------------ MODULE ConvLog ------------------------------
(***************************************************************************)
(* What a conversation promises its members: every accepted message gets   *)
(* the next number of the conversation, for ever, and every member has a   *)
(* read position that only a message of its own or a "clear unread" moves, *)
(* to the end of what was numbered so far.  The hash a conversation has in *)
(* Redis (convrepo.ConvRepository) is to be an implementation of this.     *)
(***************************************************************************)
EXTENDS Integers

CONSTANTS Users,  \* the members
          MaxMsgs \* bound: message ids are 1 .. MaxMsgs

VARIABLES last,   \* the number of the last message, 0 before the first
          issued, \* the numbered messages: [id, seq]
          read    \* per member: the read position

Init ==
  /\ last = 0
  /\ issued = {}
  /\ read = [u \in Users |-> 0]

\* Member u sends the message id, which u has read.
Accept(u, id) ==
  /\ \A m \in issued : m.id # id
  /\ last' = last + 1
  /\ issued' = issued \cup {[id |-> id, seq |-> last + 1]}
  /\ read' = [read EXCEPT ![u] = last + 1]

\* Member u marks everything as read.
ReadAll(u) ==
  /\ read' = [read EXCEPT ![u] = last]
  /\ UNCHANGED <<last, issued>>

Next == \E u \in Users : ReadAll(u) \/ \E id \in 1 .. MaxMsgs : Accept(u, id)

Spec == Init /\ [][Next]_<<last, issued, read>>
=============================================================================
