---------------------------- MODULE FrameChannel ----------------------------
(***************************************************************************)
(* What a client may rely on when it writes frames to a connection of the  *)
(* engine: the server receives them in the order they were written, each   *)
(* once, none that is malformed, nothing behind a malformed one, and       *)
(* nothing more once the connection is closed.                             *)
(***************************************************************************)
EXTENDS Naturals, Sequences

CONSTANTS Writes,        \* what a client may write
          Receivable(_), \* those of them the server can receive
          Content(_)     \* what the server gets from one of them

VARIABLES sent, received, up

vars == <<sent, received, up>>

Init == sent = <<>> /\ received = <<>> /\ up = TRUE

\* The client writes a frame.
Write == /\ up
         /\ \E w \in Writes : sent' = Append(sent, w)
         /\ UNCHANGED <<received, up>>

\* The server receives the next frame.
Receive == LET n == Len(received) + 1
           IN /\ up
              /\ n <= Len(sent)
              /\ Receivable(sent[n])
              /\ received' = Append(received, Content(sent[n]))
              /\ UNCHANGED <<sent, up>>

Close == up' = FALSE /\ UNCHANGED <<sent, received>>

Next == Write \/ Receive \/ Close

Spec == Init /\ [][Next]_vars
=============================================================================
