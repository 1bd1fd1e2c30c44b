------------------------------ MODULE Delivery ------------------------------
(***************************************************************************)
(* What becomes of the messages of a conversation, whatever fails, times   *)
(* out, restarts or is delivered twice on their way: an accepted message   *)
(* has the next number, and it is forwarded once, after it was stored, or  *)
(* it is lost for good; only what was forwarded is shown, to a device only *)
(* with all the devices before it.                                         *)
(***************************************************************************)
EXTENDS Integers, Sequences

CONSTANTS Messages,
          Devices    \* the receiver's devices, in the order they are written to

VARIABLES last,      \* the number given last
          number,    \* per message its number, 0 before it is accepted
          acked,     \* the messages the sender knows to be accepted
          stored,    \* the messages of the history
          forwarded, \* per message how often it was forwarded
          lost,      \* accepted messages that will not be forwarded
          shown,     \* per device the messages written to it
          told       \* the messages the lists of conversations were told of

vars == <<last, number, acked, stored, forwarded, lost, shown, told>>

Init ==
  /\ last = 0
  /\ number = [m \in Messages |-> 0]
  /\ acked = {}
  /\ stored = {}
  /\ forwarded = [m \in Messages |-> 0]
  /\ lost = {}
  /\ shown = [i \in 1 .. Len(Devices) |-> {}]
  /\ told = {}

Accepted(m) == number[m] > 0

\* Accepted, on its way, and still to be forwarded.
OnItsWay(m) == Accepted(m) /\ forwarded[m] = 0 /\ m \notin lost

\* The message gets its number; it may be lost at once.
Accept(m) ==
  /\ ~Accepted(m)
  /\ last' = last + 1
  /\ number' = [number EXCEPT ![m] = last + 1]
  /\ lost' \in {lost, lost \cup {m}}
  /\ UNCHANGED <<acked, stored, forwarded, shown, told>>

\* The sender learns of it, also of a message that is lost meanwhile.
Acknowledge(m) ==
  /\ Accepted(m)
  /\ acked' = acked \cup {m}
  /\ UNCHANGED <<last, number, stored, forwarded, lost, shown, told>>

\* The message is stored; what comes after that may fail already.
Store(m) ==
  /\ OnItsWay(m)
  /\ stored' = stored \cup {m}
  /\ lost' \in {lost, lost \cup {m}}
  /\ UNCHANGED <<last, number, acked, forwarded, shown, told>>

Forward(m) ==
  /\ OnItsWay(m)
  /\ m \in stored
  /\ forwarded' = [forwarded EXCEPT ![m] = 1]
  /\ UNCHANGED <<last, number, acked, stored, lost, shown, told>>

\* Messages are lost, several when a server restarts.
Lose ==
  /\ \E gone \in SUBSET {m \in Messages : OnItsWay(m)} : lost' = lost \cup gone
  /\ UNCHANGED <<last, number, acked, stored, forwarded, shown, told>>

\* The first k devices get the message, maybe again.
Show(m) ==
  /\ forwarded[m] = 1
  /\ \E k \in 0 .. Len(Devices) :
       shown' = [i \in 1 .. Len(Devices) |->
                   IF i <= k THEN shown[i] \cup {m} ELSE shown[i]]
  /\ UNCHANGED <<last, number, acked, stored, forwarded, lost, told>>

Tell(m) ==
  /\ forwarded[m] = 1
  /\ told' = told \cup {m}
  /\ UNCHANGED <<last, number, acked, stored, forwarded, lost, shown>>

Next ==
  \/ \E m \in Messages : Accept(m) \/ Acknowledge(m) \/ Store(m) \/ Forward(m)
                           \/ Show(m) \/ Tell(m)
  \/ Lose

Spec == Init /\ [][Next]_vars
=============================================================================
