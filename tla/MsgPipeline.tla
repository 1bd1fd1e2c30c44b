----------------------------- MODULE MsgPipeline -----------------------------
(***************************************************************************)
(* The way of a client's messages to the devices of the receiver: batches  *)
(* of Send frames in the engine server (frhandler), the numbering in the   *)
(* topic server (one step here, ConvManager has the whole of it),          *)
(* topic.msg_receive and the handler of the msg server that stores a       *)
(* message (msgreceive, msgrepo), topic.msg_forward with the consumers of  *)
(* the topic server and of the engine server (both msgforward), and        *)
(* topic.conv_msg.update (convupdate).                                     *)
(*                                                                         *)
(* NSQ is external: it keeps a message until it is finished, delivers it   *)
(* again when it is requeued, when its handler does not answer in time and *)
(* when its consumer is gone, counts the attempts, and keeps no order.     *)
(* The first response to a delivery counts, go-nsq ignores a second one.   *)
(***************************************************************************)
EXTENDS Integers, Sequences, SequencesExt

CONSTANTS MaxFrames, \* bound on the Send frames of the client
          Devices    \* the receiver's connections, in the order of its wrap

ASSUME PipelineAssumption ==
  /\ MaxFrames \in Nat \ {0}
  /\ Devices \in Seq(ToSet(Devices))
  /\ IsInjective(Devices)

VARIABLES
  sent,   \* how many frames the client has sent; frames are named 1, 2, ...
  todo,   \* batches that goroutines of the pool are at work on: what is left of them
  batch,  \* history: the first frame of the batch of each frame, 0 before it is sent
  call,   \* per frame the MsgComing call: none, out, ok, err, abandoned, over
  ack,    \* per frame the SendAck frame written: none, ok, err
  seq,    \* msg_seq of the conversation
  num,    \* per frame its number, 0 without one
  recv,   \* per frame the message in topic.msg_receive: none, queued, inflight, done
  att,    \* per frame its Attempts
  hnd,    \* per frame the step of HandleMessage's goroutine
  tMsg,   \* rows of t_msg
  pubs,   \* per frame how often it got into topic.msg_forward
  fwd,    \* the messages in the engine server's channel of topic.msg_forward
  dead,   \* connections in the wrap whose socket is closed
  pushed, \* per connection the messages written to it
  told,   \* the messages that events told the lists of conversations of
  failed  \* history: a publish or a handler's first attempt went wrong

clientVars == <<sent, batch>>
callVars == <<todo, call, ack>>
topicVars == <<seq, num>>
recvVars == <<recv, att, hnd>>
pushVars == <<dead, pushed, told>>
vars == <<clientVars, callVars, topicVars, recvVars, tMsg, pubs, fwd, pushVars,
          failed>>

Frames == 1 .. MaxFrames
Conns == ToSet(Devices)
maxRetryTimes == 1

\* One type invariant; Attempts counts to two, beyond which nothing differs.
TypeOK ==
  /\ sent \in 0 .. MaxFrames
  /\ \A b \in todo : b # <<>> /\ ToSet(b) \subseteq 1 .. sent
  /\ batch \in [Frames -> 0 .. MaxFrames]
  /\ call \in [Frames -> {"none", "out", "ok", "err", "abandoned", "over"}]
  /\ ack \in [Frames -> {"none", "ok", "err"}]
  /\ seq \in 0 .. MaxFrames
  /\ num \in [Frames -> 0 .. MaxFrames]
  /\ recv \in [Frames -> {"none", "queued", "inflight", "done"}]
  /\ att \in [Frames -> 0 .. maxRetryTimes + 1]
  /\ hnd \in [Frames -> {"idle", "user", "upsert", "publish"}]
  /\ tMsg \subseteq Frames
  /\ pubs \in [Frames -> Nat]
  /\ fwd \subseteq Frames
  /\ dead \subseteq Conns
  /\ pushed \in [Conns -> SUBSET Frames]
  /\ told \subseteq Frames
  /\ failed \subseteq Frames

Init ==
  /\ sent = 0
  /\ todo = {}
  /\ batch = [f \in Frames |-> 0]
  /\ call = [f \in Frames |-> "none"]
  /\ ack = [f \in Frames |-> "none"]
  /\ seq = 0
  /\ num = [f \in Frames |-> 0]
  /\ recv = [f \in Frames |-> "none"]
  /\ att = [f \in Frames |-> 0]
  /\ hnd = [f \in Frames |-> "idle"]
  /\ tMsg = {}
  /\ pubs = [f \in Frames |-> 0]
  /\ fwd = {}
  /\ dead = {}
  /\ pushed = [c \in Conns |-> {}]
  /\ told = {}
  /\ failed = {}

-----------------------------------------------------------------------------
(* The engine server: handleFrames and the goroutine it submits *)

\* The decoded frames of one OnTraffic are one batch, a goroutine of its own.  (A
\* client whose connection was closed sends over another one, while the goroutines
\* of the old one go on.)
HandleFrames(k) ==
  /\ sent + k <= MaxFrames
  /\ sent' = sent + k
  /\ batch' = [f \in Frames |-> IF f \in sent + 1 .. sent + k THEN sent + 1
                                                              ELSE batch[f]]
  /\ todo' = todo \cup {[i \in 1 .. k |-> sent + i]}
  /\ UNCHANGED <<call, ack, topicVars, recvVars, tMsg, pubs,
                 fwd, pushVars, failed>>

Without(b, rest) == (todo \ {b}) \cup (IF rest = <<>> THEN {} ELSE {rest})

\* The body of a Send frame does not decode: the connection is closed and the
\* batch left.
Undecodable(b) ==
  /\ b \in todo
  /\ call[Head(b)] = "none"
  /\ todo' = todo \ {b}
  /\ UNCHANGED <<clientVars, call, ack, topicVars, recvVars, tMsg, pubs,
                 fwd, pushVars, failed>>

CallMsgComing(b) ==
  /\ b \in todo
  /\ call[Head(b)] = "none"
  /\ call' = [call EXCEPT ![Head(b)] = "out"]
  /\ UNCHANGED <<clientVars, todo, ack, topicVars, recvVars, tMsg, pubs,
                 fwd, pushVars, failed>>

\* The goroutine acknowledges the frame and goes on with the next one.
AnswerOk(b) ==
  /\ b \in todo
  /\ call[Head(b)] = "ok"
  /\ ack' = [ack EXCEPT ![Head(b)] = "ok"]
  /\ call' = [call EXCEPT ![Head(b)] = "over"]
  /\ todo' = Without(b, Tail(b))
  /\ UNCHANGED <<clientVars, topicVars, recvVars, tMsg, pubs, fwd, pushVars,
                 failed>>

\* Mutant of AnswerFails: the goroutine goes on with the next frame.
AnswerFailsGoesOn(b) ==
  /\ b \in todo
  /\ call[Head(b)] \in {"out", "ok", "err"}
  /\ ack' = [ack EXCEPT ![Head(b)] = "err"]
  /\ call' = [call EXCEPT ![Head(b)] = IF @ = "out" THEN "abandoned" ELSE "over"]
  /\ todo' = Without(b, Tail(b))
  /\ UNCHANGED <<clientVars, topicVars, recvVars, tMsg, pubs, fwd, pushVars,
                 failed>>

\* An error, or no answer in time, also to a call that is or will be served: an
\* error is acknowledged and the rest of the batch left without an answer.
AnswerFails(b) ==
  /\ b \in todo
  /\ call[Head(b)] \in {"out", "ok", "err"}
  /\ ack' = [ack EXCEPT ![Head(b)] = "err"]
  /\ call' = [call EXCEPT ![Head(b)] = IF @ = "out" THEN "abandoned" ELSE "over"]
  /\ todo' = todo \ {b}
  /\ UNCHANGED <<clientVars, topicVars, recvVars, tMsg, pubs, fwd, pushVars,
                 failed>>

-----------------------------------------------------------------------------
(* The topic server: OnMsgComing *)

\* The answer to MsgComing, which reaches nobody when the caller has given up.
Answers(f, what) ==
  call' = [call EXCEPT ![f] = IF @ = "out" THEN what ELSE "over"]

\* Refused, or something fails before the number is taken.
MsgComingFails(f) ==
  /\ call[f] \in {"out", "abandoned"}
  /\ Answers(f, "err")
  /\ UNCHANGED <<clientVars, todo, ack, topicVars, recvVars, tMsg, pubs,
                 fwd, pushVars, failed>>

\* Mutant of MsgComing: the number is taken twice.
MsgComingTwice(f) ==
  /\ call[f] \in {"out", "abandoned"}
  /\ seq' = seq + 2
  /\ num' = [num EXCEPT ![f] = seq + 2]
  /\ recv' = [recv EXCEPT ![f] = "queued"]
  /\ Answers(f, "ok")
  /\ UNCHANGED <<clientVars, todo, ack, att, hnd, tMsg, pubs, fwd, pushVars,
                 failed>>

\* ModifyConvTree and SendMsg, which publishes asynchronously: the caller is told
\* OK before it is known whether nsqd took the message, unless the producer
\* refuses it at once.
MsgComing(f) ==
  /\ call[f] \in {"out", "abandoned"}
  /\ seq' = seq + 1
  /\ num' = [num EXCEPT ![f] = seq + 1]
  /\ \/ /\ recv' = [recv EXCEPT ![f] = "queued"]
        /\ Answers(f, "ok")
        /\ UNCHANGED failed
     \/ /\ \E what \in {"ok", "err"} : Answers(f, what)
        /\ failed' = failed \cup {f}
        /\ UNCHANGED recv
  /\ UNCHANGED <<clientVars, todo, ack, att, hnd, tMsg, pubs, fwd,
                 pushVars>>

-----------------------------------------------------------------------------
(* The msg server: HandleMessage *)

\* Responses to nsqd, which count for a message that is in flight.
Requeue(f) == recv' = [recv EXCEPT ![f] = IF @ = "inflight" THEN "queued" ELSE @]
Finish(f) == recv' = [recv EXCEPT ![f] = IF @ = "inflight" THEN "done" ELSE @]

Attempts(f) == IF att[f] <= maxRetryTimes THEN att[f] + 1 ELSE att[f]

Starts(f) ==
  \/ /\ hnd' = [hnd EXCEPT ![f] = "user"]
     /\ recv' = [recv EXCEPT ![f] = "inflight"]
     /\ UNCHANGED failed
  \/ /\ recv' = [recv EXCEPT ![f] = "queued"] \* the executor refuses: Requeue
     /\ failed' = failed \cup {f}
     /\ UNCHANGED hnd

Throws(f) ==
  /\ recv' = [recv EXCEPT ![f] = "done"]
  /\ UNCHANGED <<hnd, failed>>

\* Mutant of HandleMessage: one attempt more.
HandleMessageOnceMore(f) ==
  /\ recv[f] = "queued"
  /\ att' = [att EXCEPT ![f] = Attempts(f)]
  /\ IF att[f] > maxRetryTimes THEN Throws(f) ELSE Starts(f)
  /\ UNCHANGED <<clientVars, callVars, topicVars, tMsg, pubs, fwd, pushVars>>

\* Mutant of HandleMessage: one attempt less.
HandleMessageOnceLess(f) ==
  /\ recv[f] = "queued"
  /\ att' = [att EXCEPT ![f] = Attempts(f)]
  /\ IF Attempts(f) >= maxRetryTimes THEN Throws(f) ELSE Starts(f)
  /\ UNCHANGED <<clientVars, callVars, topicVars, tMsg, pubs, fwd, pushVars>>

\* Mutant of HandleMessage: what is thrown away is not finished.
HandleMessageUnfinished(f) ==
  /\ recv[f] = "queued"
  /\ att' = [att EXCEPT ![f] = Attempts(f)]
  /\ IF Attempts(f) >= maxRetryTimes + 1
     THEN recv' = [recv EXCEPT ![f] = "inflight"] /\ UNCHANGED <<hnd, failed>>
     ELSE Starts(f)
  /\ UNCHANGED <<clientVars, callVars, topicVars, tMsg, pubs, fwd, pushVars>>

\* A delivery: nsqd has counted it, the second one is thrown away, the first one
\* submitted to the executor.
HandleMessage(f) ==
  /\ recv[f] = "queued"
  /\ att' = [att EXCEPT ![f] = Attempts(f)]
  /\ IF Attempts(f) >= maxRetryTimes + 1 THEN Throws(f) ELSE Starts(f)
  /\ UNCHANGED <<clientVars, callVars, topicVars, tMsg, pubs, fwd, pushVars>>

\* UserUnitInfo answers: the sender exists, or the goroutine returns without a
\* response to nsqd.
UserUnitInfo(f) ==
  /\ hnd[f] = "user"
  /\ \/ hnd' = [hnd EXCEPT ![f] = "upsert"] /\ UNCHANGED failed
     \/ hnd' = [hnd EXCEPT ![f] = "idle"] /\ failed' = failed \cup {f}
  /\ UNCHANGED <<clientVars, callVars, topicVars, recv, att, tMsg, pubs, fwd,
                 pushVars>>

UpsertMsg(f) ==
  /\ hnd[f] = "upsert"
  /\ tMsg' = tMsg \cup {f}
  /\ hnd' = [hnd EXCEPT ![f] = "publish"]
  /\ UNCHANGED <<clientVars, callVars, topicVars, recv, att, pubs, fwd,
                 pushVars, failed>>

\* Each channel gets a copy.
Published(f) ==
  /\ pubs' = [pubs EXCEPT ![f] = @ + 1]
  /\ fwd' = fwd \cup {f}

Publish(f) ==
  /\ hnd[f] = "publish"
  /\ Published(f)
  /\ Finish(f)
  /\ hnd' = [hnd EXCEPT ![f] = "idle"]
  /\ UNCHANGED <<clientVars, callVars, topicVars, att, tMsg, pushVars, failed>>

\* Mutant of CallFails: a failed insert is published all the same.
CallFailsGoesOn(f) ==
  /\ hnd[f] # "idle"
  /\ hnd' = [hnd EXCEPT ![f] = IF @ = "upsert" THEN "publish" ELSE "idle"]
  /\ Requeue(f)
  /\ failed' = failed \cup {f}
  /\ UNCHANGED <<clientVars, callVars, topicVars, att, tMsg, pubs, fwd,
                 pushVars>>

\* The call to the user server, the insert or the publish is reported as failed,
\* which it may not have: Requeue.  (After a failed publish Finish follows, the
\* second response.)
CallFails(f) ==
  /\ hnd[f] # "idle"
  /\ tMsg' \in {tMsg} \cup (IF hnd[f] = "upsert" THEN {tMsg \cup {f}} ELSE {})
  /\ \/ UNCHANGED <<pubs, fwd>>
     \/ hnd[f] = "publish" /\ Published(f)
  /\ hnd' = [hnd EXCEPT ![f] = "idle"]
  /\ Requeue(f)
  /\ failed' = failed \cup {f}
  /\ UNCHANGED <<clientVars, callVars, topicVars, att, pushVars>>

\* nsqd hears nothing in time; a goroutine that is slow goes on.
MsgTimesOut(f) ==
  /\ recv[f] = "inflight"
  /\ recv' = [recv EXCEPT ![f] = "queued"]
  /\ UNCHANGED <<clientVars, callVars, topicVars, att, hnd, tMsg, pubs, fwd,
                 pushVars, failed>>

\* The msg server restarts.
Restarts ==
  /\ \E f \in Frames : recv[f] = "inflight" \/ hnd[f] # "idle"
  /\ recv' = [f \in Frames |-> IF recv[f] = "inflight" THEN "queued" ELSE recv[f]]
  /\ hnd' = [f \in Frames |-> "idle"]
  /\ failed' = failed \cup {f \in Frames : hnd[f] # "idle"}
  /\ UNCHANGED <<clientVars, callVars, topicVars, att, tMsg, pubs, fwd,
                 pushVars>>

-----------------------------------------------------------------------------
(* The consumers of topic.msg_forward and topic.conv_msg.update *)

\* OnMsgStored in the topic server; the event it publishes, which the engine
\* pushes to the sender and the receiver, names the message if it is the last one
\* (ConvManager has when).  Both may come again at any time.
OnMsgStored(f) ==
  /\ pubs[f] > 0
  /\ told' = told \cup {f}
  /\ UNCHANGED <<clientVars, callVars, topicVars, recvVars, tMsg, pubs, fwd, dead,
                 pushed, failed>>

\* The loop over the receiver's connections stops at the first write that fails.
Reachable == {c \in Conns : \A i \in 1 .. Len(Devices) :
                Devices[i] = c => \A j \in 1 .. i : Devices[j] \notin dead}

\* Mutant of Forward: the loop starts at the second connection.
ForwardSkipsFirst(f) ==
  /\ f \in fwd
  /\ fwd' \in {fwd, fwd \ {f}}
  /\ pushed' = [c \in Conns |-> IF c \in Reachable /\ c # Devices[1]
                                THEN pushed[c] \cup {f} ELSE pushed[c]]
  /\ UNCHANGED <<clientVars, callVars, topicVars, recvVars, tMsg, pubs, dead, told,
                 failed>>

\* What was delivered may be delivered again.
Forward(f) ==
  /\ f \in fwd
  /\ fwd' \in {fwd, fwd \ {f}}
  /\ pushed' = [c \in Conns |-> IF c \in Reachable THEN pushed[c] \cup {f}
                                                   ELSE pushed[c]]
  /\ UNCHANGED <<clientVars, callVars, topicVars, recvVars, tMsg, pubs, dead, told,
                 failed>>

\* The socket of a connection closes before the wrap forgets it.
DeviceDies(c) ==
  /\ c \notin dead
  /\ dead' = dead \cup {c}
  /\ UNCHANGED <<clientVars, callVars, topicVars, recvVars, tMsg, pubs, fwd,
                 pushed, told, failed>>

-----------------------------------------------------------------------------
BatchStep(b) == Undecodable(b) \/ CallMsgComing(b) \/ AnswerOk(b) \/ AnswerFails(b)
HandlerStep(f) == UserUnitInfo(f) \/ UpsertMsg(f) \/ Publish(f) \/ CallFails(f)
Delivery(f) == HandleMessage(f) \/ MsgTimesOut(f)
ConsumerStep(f) == OnMsgStored(f) \/ Forward(f)

Next ==
  \/ \E k \in Frames : HandleFrames(k)
  \/ \E b \in todo : BatchStep(b)
  \/ \E f \in Frames : \/ MsgComingFails(f) \/ MsgComing(f)
                       \/ HandlerStep(f) \/ Delivery(f) \/ ConsumerStep(f)
  \/ Restarts
  \/ \E c \in Conns : DeviceDies(c)

Spec == Init /\ [][Next]_vars

\* nsqd delivers what is queued and takes back what is not answered in time.
\* Nothing is assumed of handlers: they may hang, fail and be restarted.
FairSpec == Spec /\ \A f \in Frames : WF_vars(Delivery(f))

-----------------------------------------------------------------------------
(* Properties *)

\* The numbered messages that nobody is left to forward: not queued, or thrown away,
\* and no handler at work on them.
Lost == {f \in Frames : /\ num[f] > 0
                        /\ recv[f] \in {"none", "done"}
                        /\ hnd[f] = "idle"
                        /\ pubs[f] = 0}
Acked == {f \in Frames : ack[f] = "ok"}
Shown == [i \in 1 .. Len(Devices) |-> pushed[Devices[i]]]

Promise == INSTANCE Delivery WITH
  Messages <- Frames, last <- seq, number <- num, acked <- Acked, stored <- tMsg,
  forwarded <- pubs, lost <- Lost, shown <- Shown

\* Each accepted message is forwarded once, after it was stored, or it is lost, which
\* nothing that comes late can change: no handler that was slow, no second delivery,
\* no restart.
ImplementsDelivery == Promise!Spec

\* No device and no list of conversations is shown a message that the history
\* does not hold, whatever fails, times out, restarts or is delivered twice.
PushedIsStored ==
  told \cup UNION {pushed[c] : c \in Conns} \subseteq tMsg

\* A message gets into topic.msg_forward once at most, although its handler may be
\* slower than nsqd waits, publishes without knowing, and is requeued.
ForwardedOnce == \A f \in Frames : pubs[f] <= 1

\* Of a batch a prefix is acknowledged with OK, in the order of the numbers, also
\* when other batches of the connection are under way and calls are abandoned.
AckedInOrder ==
  \A f, g \in Frames :
    f < g /\ batch[f] = batch[g] /\ ack[g] = "ok" =>
      ack[f] = "ok" /\ num[f] < num[g]

\* A message that was acknowledged with OK and has left topic.msg_receive was
\* forwarded, unless a publish or its first attempt went wrong: redelivery alone
\* loses none.
NoSilentLoss ==
  \A f \in Frames :
    ack[f] = "ok" /\ recv[f] \in {"none", "done"} /\ hnd[f] = "idle" /\ pubs[f] = 0
      => f \in failed

\* When the engine is done with a forwarded message, the connections that can be
\* reached have got it.
ReachableGotIt ==
  \A f \in Frames : pubs[f] > 0 /\ f \notin fwd =>
    \A c \in Reachable : f \in pushed[c]

\* Nothing stays in topic.msg_receive for ever, even if every handler fails.
Drains == \A f \in Frames : recv[f] = "queued" ~> recv[f] = "done"
=============================================================================
