------------------------- MODULE MsgPipelineProofs -------------------------
(***************************************************************************)
(* Proofs about MsgPipeline for any number of frames and any devices.      *)
(*                                                                         *)
(* The invariant IInv tells what the asynchronous parts may still do: who  *)
(* called MsgComing has a message in topic.msg_receive only when the call  *)
(* was served (RecvInv), a second delivery finds nothing left to do        *)
(* (RecvInv, StoreInv, LossInv), and the goroutine of a batch has had an   *)
(* OK for all frames before the one it is at (BatchInv).                   *)
(*                                                                         *)
(* The last part shows that it all implements Delivery.                    *)
(***************************************************************************)
EXTENDS MsgPipeline, SequenceLemmas, TLAPS

\* The kinds of the variables, as far as they need no counting.
KindInv ==
  /\ sent \in 0 .. MaxFrames
  /\ \A b \in todo : b \in Seq(Frames) /\ b # <<>>
  /\ batch \in [Frames -> 0 .. MaxFrames]
  /\ call \in [Frames -> {"none", "out", "ok", "err", "abandoned", "over"}]
  /\ ack \in [Frames -> {"none", "ok", "err"}]
  /\ seq \in Nat
  /\ num \in [Frames -> Nat]
  /\ recv \in [Frames -> {"none", "queued", "inflight", "done"}]
  /\ att \in [Frames -> 0 .. maxRetryTimes + 1]
  /\ hnd \in [Frames -> {"idle", "user", "upsert", "publish"}]
  /\ tMsg \subseteq Frames
  /\ pubs \in [Frames -> Nat]
  /\ fwd \subseteq Frames
  /\ dead \subseteq Conns
  /\ pushed \in [Conns -> SUBSET Frames]
  /\ told \subseteq Frames
  /\ failed \subseteq Frames

\* Before its call is served a frame has no number and no message; a message
\* that was never delivered was not handled; a handler is before its publish.
RecvInv ==
  \A f \in Frames :
    /\ call[f] \in {"none", "out", "abandoned"} => recv[f] = "none" /\ num[f] = 0
    /\ recv[f] = "none" => att[f] = 0
    /\ att[f] = 0 => hnd[f] = "idle" /\ pubs[f] = 0 /\ recv[f] \notin {"inflight", "done"}
    /\ hnd[f] # "idle" => pubs[f] = 0

\* What is or was in topic.msg_forward is stored, and so is what a handler is
\* about to publish.
StoreInv ==
  \A f \in Frames :
    /\ pubs[f] > 0 => f \in tMsg
    /\ f \in fwd => pubs[f] > 0
    /\ hnd[f] = "publish" => f \in tMsg

\* Nothing goes missing between the ack and topic.msg_forward unless something
\* failed.
LossInv ==
  \A f \in Frames : f \notin failed =>
    /\ call[f] = "ok" \/ ack[f] = "ok" => recv[f] # "none"
    /\ att[f] > 0 => hnd[f] # "idle" \/ pubs[f] > 0

\* Every number is the number of one frame.
CountInv == seq = Cardinality({f \in Frames : num[f] # 0})

\* A batch under way is a run of consecutive frames that were sent.
RunInv ==
  \A b \in todo : \A i \in 1 .. Len(b) :
    b[i] = b[1] + (i - 1) /\ batch[b[i]] = batch[b[1]] /\ b[i] <= sent

\* What the engine server and the numbering know of a frame.
FrameInv ==
  \A f \in Frames :
    /\ batch[f] <= f
    /\ f <= sent <=> batch[f] # 0
    /\ f > sent => call[f] = "none"
    /\ num[f] <= seq
    /\ call[f] = "ok" => num[f] > 0
    /\ ack[f] = "ok" => call[f] = "over" /\ num[f] > 0

\* The frames of a batch before the one its goroutine is at are acknowledged with
\* OK, and so are those before each frame that was called for; their numbers are
\* smaller.
BatchInv ==
  /\ \A b \in todo : \A f \in Frames :
       f < b[1] /\ batch[f] = batch[b[1]] => ack[f] = "ok"
  /\ \A f, g \in Frames :
       f < g /\ batch[f] = batch[g] /\ call[g] # "none" =>
         ack[f] = "ok" /\ (num[g] = 0 \/ num[f] < num[g])

IInv ==
  /\ KindInv
  /\ RecvInv
  /\ ForwardedOnce
  /\ StoreInv
  /\ PushedIsStored
  /\ LossInv
  /\ ReachableGotIt
  /\ CountInv
  /\ RunInv
  /\ FrameInv
  /\ BatchInv

-----------------------------------------------------------------------------
(* The steps of a batch *)

\* The first frame of a batch under way, and what Without leaves of the batch.
LEMMA BatchFacts ==
  ASSUME KindInv, NEW b \in todo
  PROVE  /\ Len(b) \in Nat \ {0}
         /\ Head(b) = b[1]
         /\ \A i \in 1 .. Len(b) : b[i] \in Frames
         /\ Tail(b) \in Seq(Frames)
         /\ Len(Tail(b)) = Len(b) - 1
         /\ \A i \in 1 .. Len(b) - 1 : Tail(b)[i] = b[i + 1]
<1>1. b \in Seq(Frames) /\ b # <<>>
  BY DEF KindInv
<1> QED  BY <1>1, HeadTailProperties, EmptySeq, LenProperties, ElementOfSeq

\* Without leaves the other batches, and the rest unless it is empty.
LEMMA WithoutFacts ==
  ASSUME NEW b, NEW rest
  PROVE  \A x \in Without(b, rest) : x \in todo \/ (x = rest /\ rest # <<>>)
BY DEF Without

\* What HandleFrames hands to a goroutine is a run of new frames.
LEMMA NewBatch ==
  ASSUME KindInv, NEW k \in Frames, sent + k <= MaxFrames
  PROVE  LET b == [i \in 1 .. k |-> sent + i] IN
           /\ b \in Seq(Frames) /\ b # <<>> /\ Len(b) = k
           /\ \A i \in 1 .. k : b[i] = sent + i
<1> DEFINE b == [i \in 1 .. k |-> sent + i]
<1>0. sent \in Nat /\ k \in Nat \ {0} /\ MaxFrames \in Nat
  BY PipelineAssumption DEF KindInv, Frames
<1>1. \A i \in 1 .. k : sent + i \in Frames
  BY <1>0 DEF Frames
<1>2. b \in Seq(Frames) /\ Len(b) = k
  BY <1>0, <1>1, SeqDef, LenProperties
<1> QED  BY <1>0, <1>2, EmptySeq

-----------------------------------------------------------------------------
(* What the steps with several outcomes do to each frame *)

CallKinds == {"none", "out", "ok", "err", "abandoned", "over"}
RecvKinds == {"none", "queued", "inflight", "done"}
HandlerKinds == {"idle", "user", "upsert", "publish"}

AnswerEffect(h) ==
  /\ UNCHANGED <<sent, batch, seq, num, recv, att, hnd, tMsg, pubs, fwd, dead,
                 pushed, told, failed>>
  /\ call' \in [Frames -> CallKinds] /\ ack' \in [Frames -> {"none", "ok", "err"}]
  /\ \A g \in Frames \ {h} : call'[g] = call[g] /\ ack'[g] = ack[g]
  /\ \/ call[h] = "ok" /\ call'[h] = "over" /\ ack'[h] = "ok"
     \/ /\ call[h] \in {"out", "ok", "err"}
        /\ call'[h] = IF call[h] = "out" THEN "abandoned" ELSE "over"
        /\ ack'[h] = "err"

\* An answer ends the call of the first frame and acknowledges it.
LEMMA AnswerHasEffect ==
  ASSUME KindInv, NEW b \in todo, NEW h \in Frames, h = Head(b),
         AnswerOk(b) \/ AnswerFails(b)
  PROVE  AnswerEffect(h)
<1> USE DEF AnswerEffect, clientVars, topicVars, recvVars, pushVars, KindInv, CallKinds
<1>1. CASE AnswerOk(b)
  BY <1>1 DEF AnswerOk
<1>2. CASE AnswerFails(b)
  BY <1>2 DEF AnswerFails
<1> QED  BY <1>1, <1>2

MsgComingEffect(f) ==
  /\ UNCHANGED <<sent, batch, todo, ack, att, hnd, tMsg, pubs, fwd, dead, pushed,
                 told>>
  /\ call[f] \in {"out", "abandoned"}
  /\ call' \in [Frames -> CallKinds] /\ call'[f] \in {"ok", "err", "over"}
  /\ \A g \in Frames \ {f} : call'[g] = call[g]
  /\ seq' = seq + 1
  /\ num' = [num EXCEPT ![f] = seq + 1]
  /\ \/ recv' = [recv EXCEPT ![f] = "queued"] /\ failed' = failed
     \/ recv' = recv /\ failed' = failed \cup {f}

\* MsgComing numbers the frame, and queues its message or records a failure.
LEMMA MsgComingHasEffect ==
  ASSUME KindInv, NEW f \in Frames, MsgComing(f)
  PROVE  MsgComingEffect(f)
<1> USE DEF MsgComingEffect, clientVars, pushVars, KindInv, CallKinds
<1>1. call' = [call EXCEPT ![f] = "ok"] \/ call' = [call EXCEPT ![f] = "err"]
        \/ call' = [call EXCEPT ![f] = "over"]
  <2>1. CASE call[f] = "out"  BY <2>1 DEF MsgComing, Answers
  <2>2. CASE call[f] # "out"  BY <2>2 DEF MsgComing, Answers
  <2> QED  BY <2>1, <2>2
<1>2. /\ call' \in [Frames -> CallKinds] /\ call'[f] \in {"ok", "err", "over"}
      /\ \A g \in Frames \ {f} : call'[g] = call[g]
  BY <1>1, ZenonT(40)
<1> QED  BY <1>2 DEF MsgComing

HandleMessageEffect(f) ==
  /\ UNCHANGED <<sent, batch, todo, call, ack, seq, num, tMsg, pubs, fwd, dead,
                 pushed, told>>
  /\ recv[f] = "queued"
  /\ att' \in [Frames -> 0 .. 2] /\ recv' \in [Frames -> RecvKinds]
  /\ hnd' \in [Frames -> HandlerKinds]
  /\ \A g \in Frames \ {f} :
       att'[g] = att[g] /\ recv'[g] = recv[g] /\ hnd'[g] = hnd[g]
  /\ att'[f] > 0
  /\ \/ /\ att[f] > 0 /\ recv'[f] = "done" /\ hnd' = hnd /\ failed' = failed
     \/ /\ att[f] = 0 /\ recv'[f] = "inflight" /\ hnd'[f] = "user"
        /\ failed' = failed
     \/ /\ att[f] = 0 /\ recv'[f] = "queued" /\ hnd' = hnd
        /\ failed' = failed \cup {f}

\* The first delivery starts the handler or fails; a later one finishes the message.
LEMMA HandleMessageHasEffect ==
  ASSUME KindInv, NEW f \in Frames, HandleMessage(f)
  PROVE  HandleMessageEffect(f)
<1> USE DEF HandleMessageEffect, clientVars, callVars, topicVars, pushVars, maxRetryTimes,
            KindInv,
            RecvKinds, HandlerKinds
<1>1. /\ att[f] \in 0 .. 2 /\ Attempts(f) \in 1 .. 2
      /\ Attempts(f) >= 2 <=> att[f] > 0
      /\ att' = [att EXCEPT ![f] = Attempts(f)]
  BY DEF HandleMessage, Attempts
<1>0. /\ UNCHANGED <<sent, batch, todo, call, ack, seq, num, tMsg, pubs, fwd, dead,
                     pushed, told>>
      /\ recv[f] = "queued"
      /\ att' \in [Frames -> 0 .. 2] /\ att'[f] > 0
      /\ \A g \in Frames \ {f} : att'[g] = att[g]
  BY <1>1 DEF HandleMessage
<1>2. CASE att[f] > 0
  <2>1. Throws(f)
    BY <1>1, <1>2 DEF HandleMessage
  <2>2. hnd' = hnd /\ failed' = failed /\ recv' = [recv EXCEPT ![f] = "done"]
    BY <2>1 DEF Throws
  <2> QED  BY <1>1, <1>2, <2>2 DEF HandleMessage
<1>3. CASE att[f] = 0
  <2>1. Starts(f)
    BY <1>1, <1>3 DEF HandleMessage
  <2>2. \/ /\ hnd' = [hnd EXCEPT ![f] = "user"]
           /\ recv' = [recv EXCEPT ![f] = "inflight"] /\ failed' = failed
        \/ /\ recv' = [recv EXCEPT ![f] = "queued"]
           /\ failed' = failed \cup {f} /\ hnd' = hnd
    BY <2>1 DEF Starts
  <2>3. hnd' \in [Frames -> HandlerKinds] /\ recv' \in [Frames -> RecvKinds]
    BY <2>2
  <2>4. \A g \in Frames \ {f} : att'[g] = att[g] /\ recv'[g] = recv[g] /\ hnd'[g] = hnd[g]
    BY <1>1, <2>2
  <2>5. \/ recv'[f] = "inflight" /\ hnd'[f] = "user" /\ failed' = failed
        \/ recv'[f] = "queued" /\ hnd' = hnd /\ failed' = failed \cup {f}
    BY <2>2
  <2> QED  BY <1>0, <1>3, <2>3, <2>4, <2>5
<1> QED  BY <1>1, <1>2, <1>3

\* Frames other than f are left alone by a step of the handler of f.
Elsewhere(f) ==
  \A g \in Frames \ {f} : recv'[g] = recv[g] /\ hnd'[g] = hnd[g] /\ pubs'[g] = pubs[g]

PublishEffect(f) ==
  /\ UNCHANGED <<sent, batch, todo, call, ack, seq, num, att, tMsg, dead, pushed,
                 told, failed>>
  /\ recv' \in [Frames -> RecvKinds] /\ hnd' \in [Frames -> HandlerKinds]
  /\ pubs' \in [Frames -> Nat]
  /\ Elsewhere(f)
  /\ hnd[f] = "publish" /\ hnd'[f] = "idle"
  /\ pubs'[f] = pubs[f] + 1 /\ fwd' = fwd \cup {f}
  /\ recv'[f] = recv[f] \/ (recv[f] = "inflight" /\ recv'[f] = "done")

\* A handler that comes to its end has published once more.
LEMMA PublishHasEffect ==
  ASSUME KindInv, NEW f \in Frames, Publish(f)
  PROVE  PublishEffect(f)
<1> USE DEF PublishEffect, Elsewhere, RecvKinds, HandlerKinds,
            clientVars, callVars, topicVars, pushVars, KindInv
<1>1. CASE recv[f] = "inflight"
  BY <1>1 DEF Publish, Published, Finish
<1>2. CASE recv[f] # "inflight"
  <2>1. recv' = recv
    BY <1>2 DEF Publish, Finish
  <2> QED  BY <2>1 DEF Publish, Published
<1> QED  BY <1>1, <1>2

CallFailsEffect(f) ==
  /\ UNCHANGED <<sent, batch, todo, call, ack, seq, num, att, dead, pushed, told>>
  /\ recv' \in [Frames -> RecvKinds] /\ hnd' \in [Frames -> HandlerKinds]
  /\ pubs' \in [Frames -> Nat]
  /\ Elsewhere(f)
  /\ hnd[f] # "idle" /\ hnd'[f] = "idle"
  /\ tMsg' = tMsg \/ tMsg' = tMsg \cup {f}
  /\ \/ pubs' = pubs /\ fwd' = fwd
     \/ hnd[f] = "publish" /\ pubs'[f] = pubs[f] + 1 /\ fwd' = fwd \cup {f}
  /\ failed' = failed \cup {f}
  /\ recv'[f] = recv[f] \/ (recv[f] = "inflight" /\ recv'[f] = "queued")

\* A handler whose call fails goes idle; the call may have had its effect.
LEMMA CallFailsHasEffect ==
  ASSUME KindInv, NEW f \in Frames, CallFails(f)
  PROVE  CallFailsEffect(f)
<1> USE DEF CallFailsEffect, Elsewhere, RecvKinds, HandlerKinds,
            clientVars, callVars, topicVars, pushVars, KindInv
<1>1. tMsg' = tMsg \/ tMsg' = tMsg \cup {f}
  BY DEF CallFails
<1>2. \/ pubs' = pubs /\ fwd' = fwd
      \/ /\ hnd[f] = "publish"
         /\ pubs' = [pubs EXCEPT ![f] = pubs[f] + 1] /\ fwd' = fwd \cup {f}
  BY DEF CallFails, Published
<1>3. \/ recv' = recv
      \/ recv[f] = "inflight" /\ recv' = [recv EXCEPT ![f] = "queued"]
  <2>1. CASE recv[f] = "inflight"  BY <2>1 DEF CallFails, Requeue
  <2>2. CASE recv[f] # "inflight"  BY <2>2 DEF CallFails, Requeue
  <2> QED  BY <2>1, <2>2
<1>4. /\ recv' \in [Frames -> RecvKinds]
      /\ recv'[f] = recv[f] \/ (recv[f] = "inflight" /\ recv'[f] = "queued")
      /\ \A g \in Frames \ {f} : recv'[g] = recv[g]
  <2>1. CASE recv' = recv  BY <2>1
  <2>2. CASE recv[f] = "inflight" /\ recv' = [recv EXCEPT ![f] = "queued"]  BY <2>2
  <2> QED  BY <1>3, <2>1, <2>2
<1>5. /\ pubs' \in [Frames -> Nat]
      /\ \A g \in Frames \ {f} : pubs'[g] = pubs[g]
      /\ \/ pubs' = pubs /\ fwd' = fwd
         \/ hnd[f] = "publish" /\ pubs'[f] = pubs[f] + 1 /\ fwd' = fwd \cup {f}
  <2>1. CASE pubs' = pubs /\ fwd' = fwd  BY <2>1
  <2>2. CASE /\ hnd[f] = "publish"
             /\ pubs' = [pubs EXCEPT ![f] = pubs[f] + 1] /\ fwd' = fwd \cup {f}
    BY <2>2
  <2> QED  BY <1>2, <2>1, <2>2
<1>6. /\ hnd[f] # "idle" /\ hnd' = [hnd EXCEPT ![f] = "idle"]
      /\ failed' = failed \cup {f}
      /\ UNCHANGED <<sent, batch, todo, call, ack, seq, num, att, dead, pushed, told>>
  BY DEF CallFails
<1> QED  BY <1>1, <1>4, <1>5, <1>6

-----------------------------------------------------------------------------
(* Kinds *)

\* KindInv is inductive: it holds initially, ...
LEMMA KindInit == Init => KindInv
BY PipelineAssumption DEF Init, KindInv, maxRetryTimes, Frames, Conns

\* ... and is kept by every step.
LEMMA KindStep ==
  ASSUME KindInv, [Next]_vars
  PROVE  KindInv'
<1> USE DEF clientVars, callVars, topicVars, recvVars, pushVars, maxRetryTimes
<1>0. MaxFrames \in Nat \ {0} /\ Frames = 1 .. MaxFrames
  BY PipelineAssumption DEF Frames
<1>1. ASSUME NEW k \in Frames, HandleFrames(k)
      PROVE  KindInv'
  <2>1. [i \in 1 .. k |-> sent + i] \in Seq(Frames) \ {<<>>}
    BY <1>1, NewBatch DEF HandleFrames
  <2>2. sent' \in 0 .. MaxFrames /\ sent + 1 \in 0 .. MaxFrames
    BY <1>0, <1>1 DEF HandleFrames, KindInv
  <2>3. batch' \in [Frames -> 0 .. MaxFrames]
    BY <1>1, <2>2 DEF HandleFrames, KindInv
  <2>4. \A b \in todo' : b \in Seq(Frames) /\ b # <<>>
    BY <1>1, <2>1 DEF HandleFrames, KindInv
  <2> QED  BY <1>1, <2>2, <2>3, <2>4 DEF HandleFrames, KindInv
<1>2. ASSUME NEW b \in todo, BatchStep(b)
      PROVE  KindInv'
  <2>1. Head(b) \in Frames /\ Tail(b) \in Seq(Frames)
    BY BatchFacts
  <2>2. \A x \in todo' : x \in todo \/ (x = Tail(b) /\ x # <<>>)
    <3>1. CASE Undecodable(b)  BY <3>1 DEF Undecodable
    <3>2. CASE CallMsgComing(b)  BY <3>2 DEF CallMsgComing
    <3>3. CASE AnswerOk(b)
      <4> DEFINE rest == Tail(b)
      <4>1. todo' = Without(b, rest)
        BY <3>3 DEF AnswerOk
      <4> HIDE DEF rest
      <4>2. \A x \in todo' : x \in todo \/ (x = rest /\ rest # <<>>)
        BY <4>1, WithoutFacts
      <4> QED  BY <4>2, Zenon DEF rest
    <3>4. CASE AnswerFails(b)  BY <3>4 DEF AnswerFails
    <3> QED  BY <1>2, <3>1, <3>2, <3>3, <3>4 DEF BatchStep
  <2>3. /\ call' \in [Frames -> {"none", "out", "ok", "err", "abandoned", "over"}]
        /\ ack' \in [Frames -> {"none", "ok", "err"}]
    BY <1>2, <2>1
       DEF BatchStep, Undecodable, CallMsgComing, AnswerOk, AnswerFails, KindInv
  <2>4. \A x \in todo' : x \in Seq(Frames) /\ x # <<>>
    BY <2>1, <2>2 DEF KindInv
  <2>5. UNCHANGED <<sent, batch, seq, num, recv, att, hnd, tMsg, pubs, fwd, dead,
                    pushed, told, failed>>
    BY <1>2 DEF BatchStep, Undecodable, CallMsgComing, AnswerOk, AnswerFails
  <2> QED  BY <2>3, <2>4, <2>5 DEF KindInv
<1>3. ASSUME NEW f \in Frames, MsgComingFails(f) \/ MsgComing(f)
      PROVE  KindInv'
  <2>1. CASE MsgComingFails(f)
    BY <2>1 DEF MsgComingFails, Answers, KindInv
  <2>2. CASE MsgComing(f)
    <3>1. MsgComingEffect(f)
      BY <2>2, MsgComingHasEffect
    <3> QED  BY <3>1 DEF MsgComingEffect, KindInv, CallKinds
  <2> QED  BY <1>3, <2>1, <2>2
<1>4. ASSUME NEW f \in Frames, HandlerStep(f)
      PROVE  KindInv'
  <2>1. CASE UserUnitInfo(f)  BY <2>1 DEF UserUnitInfo, KindInv
  <2>2. CASE UpsertMsg(f)  BY <2>2 DEF UpsertMsg, KindInv
  <2>3. CASE Publish(f)
    <3>1. PublishEffect(f)
      BY <2>3, PublishHasEffect
    <3> QED  BY <3>1 DEF PublishEffect, Elsewhere, RecvKinds, HandlerKinds, KindInv
  <2>4. CASE CallFails(f)
    <3>1. CallFailsEffect(f)
      BY <2>4, CallFailsHasEffect
    <3> QED  BY <3>1 DEF CallFailsEffect, Elsewhere, RecvKinds, HandlerKinds, KindInv
  <2> QED  BY <1>4, <2>1, <2>2, <2>3, <2>4 DEF HandlerStep
<1>5. ASSUME NEW f \in Frames, Delivery(f)
      PROVE  KindInv'
  <2>1. CASE HandleMessage(f)
    <3>1. HandleMessageEffect(f)
      BY <2>1, HandleMessageHasEffect
    <3> QED  BY <3>1 DEF HandleMessageEffect, KindInv, RecvKinds, HandlerKinds
  <2>2. CASE MsgTimesOut(f)
    BY <2>2 DEF MsgTimesOut, KindInv
  <2> QED  BY <1>5, <2>1, <2>2 DEF Delivery
<1>6. ASSUME NEW f \in Frames, ConsumerStep(f)
      PROVE  KindInv'
  <2>1. CASE OnMsgStored(f)
    BY <2>1 DEF OnMsgStored, KindInv
  <2>2. CASE Forward(f)
    BY <2>2 DEF Forward, KindInv
  <2> QED  BY <1>6, <2>1, <2>2 DEF ConsumerStep
<1>7. CASE Restarts
  BY <1>7 DEF Restarts, KindInv
<1>8. ASSUME NEW c \in Conns, DeviceDies(c)
      PROVE  KindInv'
  BY <1>8 DEF DeviceDies, KindInv
<1>9. CASE UNCHANGED vars
  BY <1>9 DEF vars, KindInv
<1> QED  BY <1>1, <1>2, <1>3, <1>4, <1>5, <1>6, <1>7, <1>8, <1>9 DEF Next

-----------------------------------------------------------------------------
(* One publish per message *)

\* A handler publishes only during the first attempt, and then is over.
LEMMA RecvStep ==
  ASSUME KindInv, RecvInv, ForwardedOnce, [Next]_vars
  PROVE  RecvInv' /\ ForwardedOnce'
<1> USE DEF clientVars, callVars, topicVars, recvVars, pushVars, maxRetryTimes
<1> DEFINE Goal == RecvInv' /\ ForwardedOnce'
<1>1. ASSUME UNCHANGED <<call, num, recv, att, hnd, pubs>>
      PROVE  Goal
  BY <1>1 DEF RecvInv, ForwardedOnce
<1>2. ASSUME NEW b \in todo, BatchStep(b)
      PROVE  Goal
  <2>1. Head(b) \in Frames
    BY BatchFacts
  <2>2. CASE CallMsgComing(b)
    BY <2>1, <2>2 DEF CallMsgComing, KindInv, RecvInv, ForwardedOnce
  <2>3. CASE AnswerOk(b) \/ AnswerFails(b)
    <3>1. AnswerEffect(Head(b))
      BY <2>1, <2>3, AnswerHasEffect
    <3> QED  BY <2>1, <3>1 DEF AnswerEffect, KindInv, RecvInv, ForwardedOnce
  <2> QED
    BY <1>1, <1>2, <2>2, <2>3 DEF BatchStep, Undecodable
<1>3. ASSUME NEW f \in Frames, MsgComingFails(f) \/ MsgComing(f)
      PROVE  Goal
  <2>1. CASE MsgComingFails(f)
    BY <2>1 DEF MsgComingFails, Answers, KindInv, RecvInv, ForwardedOnce
  <2>2. CASE MsgComing(f)
    <3>1. MsgComingEffect(f)
      BY <2>2, MsgComingHasEffect
    <3> QED  BY <3>1 DEF MsgComingEffect, KindInv, RecvInv, ForwardedOnce
  <2> QED  BY <1>3, <2>1, <2>2
<1>4. ASSUME NEW f \in Frames, HandlerStep(f)
      PROVE  Goal
  <2>1. CASE UserUnitInfo(f)
    BY <2>1 DEF UserUnitInfo, KindInv, RecvInv, ForwardedOnce
  <2>2. CASE UpsertMsg(f)
    BY <2>2 DEF UpsertMsg, KindInv, RecvInv, ForwardedOnce
  <2>3. CASE Publish(f)
    <3>1. PublishEffect(f)
      BY <2>3, PublishHasEffect
    <3> QED  BY <3>1 DEF PublishEffect, Elsewhere, RecvKinds, HandlerKinds, KindInv,
                         RecvInv, ForwardedOnce
  <2>4. CASE CallFails(f)
    <3>1. CallFailsEffect(f)
      BY <2>4, CallFailsHasEffect
    <3>2. /\ UNCHANGED <<call, num, att>>
          /\ \A g \in Frames \ {f} :
               recv'[g] = recv[g] /\ hnd'[g] = hnd[g] /\ pubs'[g] = pubs[g]
      BY <3>1 DEF CallFailsEffect, Elsewhere
    <3>3. att[f] # 0 /\ pubs[f] = 0
      BY <3>1 DEF CallFailsEffect, RecvInv
    <3>4. pubs'[f] <= 1
      BY <3>1, <3>3 DEF CallFailsEffect
    <3>5. /\ hnd'[f] = "idle"
          /\ recv'[f] = recv[f] \/ (recv[f] = "inflight" /\ recv'[f] = "queued")
      BY <3>1 DEF CallFailsEffect
    <3>6. ForwardedOnce'
      BY <3>2, <3>4 DEF ForwardedOnce
    <3>7. RecvInv'
      BY <3>2, <3>3, <3>5 DEF RecvInv
    <3> QED  BY <3>6, <3>7
  <2> QED  BY <1>4, <2>1, <2>2, <2>3, <2>4 DEF HandlerStep
<1>5. ASSUME NEW f \in Frames, Delivery(f)
      PROVE  Goal
  <2>1. CASE HandleMessage(f)
    <3>1. HandleMessageEffect(f)
      BY <2>1, HandleMessageHasEffect
    <3> QED  BY <3>1 DEF HandleMessageEffect, KindInv, RecvInv, ForwardedOnce
  <2>2. CASE MsgTimesOut(f)
    BY <2>2 DEF MsgTimesOut, KindInv, RecvInv, ForwardedOnce
  <2> QED  BY <1>5, <2>1, <2>2 DEF Delivery
<1>6. CASE Restarts
  BY <1>6 DEF Restarts, KindInv, RecvInv, ForwardedOnce
<1>7. ASSUME NEW k \in Frames, HandleFrames(k)
      PROVE  Goal
  BY <1>1, <1>7 DEF HandleFrames
<1>8. ASSUME NEW f \in Frames, ConsumerStep(f)
      PROVE  Goal
  BY <1>1, <1>8 DEF ConsumerStep, OnMsgStored, Forward
<1>9. ASSUME NEW c \in Conns, DeviceDies(c)
      PROVE  Goal
  BY <1>1, <1>9 DEF DeviceDies
<1>10. CASE UNCHANGED vars
  BY <1>1, <1>10 DEF vars
<1> QED
  BY <1>2, <1>3, <1>4, <1>5, <1>6, <1>7, <1>8, <1>9, <1>10 DEF Next

-----------------------------------------------------------------------------
(* Stored before pushed *)

\* The insert comes before the publish, and the publish before every consumer.
LEMMA StoreStep ==
  ASSUME KindInv, KindInv', StoreInv, PushedIsStored, [Next]_vars
  PROVE  StoreInv' /\ PushedIsStored'
<1> USE DEF clientVars, callVars, topicVars, recvVars, pushVars
<1> DEFINE Goal == StoreInv' /\ PushedIsStored'
<1>1. ASSUME UNCHANGED <<hnd, tMsg, pubs, fwd, pushed, told>>
      PROVE  Goal
  BY <1>1 DEF StoreInv, PushedIsStored
<1>2. ASSUME NEW f \in Frames, HandlerStep(f)
      PROVE  Goal
  <2>1. CASE UserUnitInfo(f)
    BY <2>1 DEF UserUnitInfo, KindInv, StoreInv, PushedIsStored
  <2>2. CASE UpsertMsg(f)
    BY <2>2 DEF UpsertMsg, KindInv, StoreInv, PushedIsStored
  <2>3. CASE Publish(f)
    <3>1. PublishEffect(f)
      BY <2>3, PublishHasEffect
    <3>2. StoreInv'
      BY <3>1 DEF PublishEffect, Elsewhere, KindInv, StoreInv
    <3>3. PushedIsStored'
      BY <3>1 DEF PublishEffect, PushedIsStored
    <3> QED  BY <3>2, <3>3
  <2>4. CASE CallFails(f)
    <3>1. CallFailsEffect(f)
      BY <2>4, CallFailsHasEffect
    <3>2. tMsg \subseteq tMsg'
      BY <3>1 DEF CallFailsEffect
    <3>3. StoreInv'
      BY <3>1, <3>2 DEF CallFailsEffect, Elsewhere, KindInv, StoreInv
    <3>4. PushedIsStored'
      BY <3>1, <3>2 DEF CallFailsEffect, PushedIsStored
    <3> QED  BY <3>3, <3>4
  <2> QED  BY <1>2, <2>1, <2>2, <2>3, <2>4 DEF HandlerStep
<1>3. ASSUME NEW f \in Frames, Delivery(f)
      PROVE  Goal
  <2>1. CASE HandleMessage(f)
    <3>1. HandleMessageEffect(f)
      BY <2>1, HandleMessageHasEffect
    <3> QED  BY <3>1 DEF HandleMessageEffect, StoreInv, PushedIsStored
  <2>2. CASE MsgTimesOut(f)
    BY <1>1, <2>2 DEF MsgTimesOut
  <2> QED  BY <1>3, <2>1, <2>2 DEF Delivery
<1>4. ASSUME NEW f \in Frames, ConsumerStep(f)
      PROVE  Goal
  <2>1. CASE OnMsgStored(f)
    BY <2>1 DEF OnMsgStored, StoreInv, PushedIsStored
  <2>2. CASE Forward(f)
    <3>1. f \in tMsg
      BY <2>2 DEF Forward, StoreInv
    <3>2. \A c \in Conns : pushed'[c] \subseteq pushed[c] \cup {f}
      BY <2>2 DEF Forward
    <3>3. StoreInv'
      BY <2>2 DEF Forward, StoreInv
    <3>4. told' = told /\ tMsg' = tMsg
      BY <2>2 DEF Forward
    <3>5. PushedIsStored'
      BY <3>1, <3>2, <3>4 DEF PushedIsStored
    <3> QED  BY <3>3, <3>5
  <2> QED  BY <1>4, <2>1, <2>2 DEF ConsumerStep
<1>5. CASE Restarts
  BY <1>5 DEF Restarts, StoreInv, PushedIsStored
<1>6. ASSUME NEW f \in Frames, MsgComingFails(f) \/ MsgComing(f)
      PROVE  Goal
  BY <1>1, <1>6 DEF MsgComingFails, MsgComing
<1>7. ASSUME NEW b \in todo, BatchStep(b)
      PROVE  Goal
  BY <1>1, <1>7 DEF BatchStep, Undecodable, CallMsgComing, AnswerOk, AnswerFails
<1>8. ASSUME NEW k \in Frames, HandleFrames(k)
      PROVE  Goal
  BY <1>1, <1>8 DEF HandleFrames
<1>9. ASSUME NEW c \in Conns, DeviceDies(c)
      PROVE  Goal
  BY <1>1, <1>9 DEF DeviceDies
<1>10. CASE UNCHANGED vars
  BY <1>1, <1>10 DEF vars
<1> QED
  BY <1>2, <1>3, <1>4, <1>5, <1>6, <1>7, <1>8, <1>9, <1>10 DEF Next

-----------------------------------------------------------------------------
(* No loss without a failure *)

\* Each step that drops a message records a failure.
LEMMA LossStep ==
  ASSUME KindInv, RecvInv, LossInv, [Next]_vars
  PROVE  LossInv'
<1> USE DEF clientVars, callVars, topicVars, recvVars, pushVars
<1>1. ASSUME UNCHANGED <<call, ack, recv, att, hnd, pubs, failed>>
      PROVE  LossInv'
  BY <1>1 DEF LossInv
<1>2. ASSUME NEW b \in todo, BatchStep(b)
      PROVE  LossInv'
  <2>1. Head(b) \in Frames
    BY BatchFacts
  <2>2. CASE CallMsgComing(b)
    BY <2>1, <2>2 DEF CallMsgComing, KindInv, LossInv
  <2>3. CASE AnswerOk(b) \/ AnswerFails(b)
    <3>1. AnswerEffect(Head(b))
      BY <2>1, <2>3, AnswerHasEffect
    <3> QED  BY <2>1, <3>1 DEF AnswerEffect, KindInv, LossInv
  <2> QED  BY <1>1, <1>2, <2>2, <2>3 DEF BatchStep, Undecodable
<1>3. ASSUME NEW f \in Frames, MsgComingFails(f) \/ MsgComing(f)
      PROVE  LossInv'
  <2>1. CASE MsgComingFails(f)
    BY <2>1 DEF MsgComingFails, Answers, KindInv, LossInv
  <2>2. CASE MsgComing(f)
    <3>1. MsgComingEffect(f)
      BY <2>2, MsgComingHasEffect
    <3>2. CASE failed' = failed \cup {f} /\ recv' = recv
      BY <3>1, <3>2 DEF MsgComingEffect, KindInv, LossInv
    <3>3. CASE failed' = failed /\ recv' = [recv EXCEPT ![f] = "queued"]
      BY <3>1, <3>3 DEF MsgComingEffect, KindInv, LossInv
    <3> QED  BY <3>1, <3>2, <3>3 DEF MsgComingEffect
  <2> QED  BY <1>3, <2>1, <2>2
<1>4. ASSUME NEW f \in Frames, HandlerStep(f)
      PROVE  LossInv'
  <2>1. CASE UserUnitInfo(f)
    BY <2>1 DEF UserUnitInfo, KindInv, LossInv
  <2>2. CASE UpsertMsg(f)
    BY <2>2 DEF UpsertMsg, KindInv, LossInv
  <2>3. CASE Publish(f)
    <3>1. PublishEffect(f)
      BY <2>3, PublishHasEffect
    <3> QED  BY <3>1 DEF PublishEffect, Elsewhere, KindInv, LossInv
  <2>4. CASE CallFails(f)
    <3>1. CallFailsEffect(f)
      BY <2>4, CallFailsHasEffect
    <3> QED  BY <3>1 DEF CallFailsEffect, Elsewhere, LossInv
  <2> QED  BY <1>4, <2>1, <2>2, <2>3, <2>4 DEF HandlerStep
<1>5. ASSUME NEW f \in Frames, Delivery(f)
      PROVE  LossInv'
  <2>1. CASE HandleMessage(f)
    <3>1. HandleMessageEffect(f)
      BY <2>1, HandleMessageHasEffect
    <3> QED  BY <3>1 DEF HandleMessageEffect, KindInv, LossInv
  <2>2. CASE MsgTimesOut(f)
    BY <2>2 DEF MsgTimesOut, KindInv, LossInv
  <2> QED  BY <1>5, <2>1, <2>2 DEF Delivery
<1>6. CASE Restarts
  BY <1>6 DEF Restarts, KindInv, LossInv
<1>7. ASSUME NEW k \in Frames, HandleFrames(k)
      PROVE  LossInv'
  BY <1>1, <1>7 DEF HandleFrames
<1>8. ASSUME NEW f \in Frames, ConsumerStep(f)
      PROVE  LossInv'
  BY <1>1, <1>8 DEF ConsumerStep, OnMsgStored, Forward
<1>9. ASSUME NEW c \in Conns, DeviceDies(c)
      PROVE  LossInv'
  BY <1>1, <1>9 DEF DeviceDies
<1>10. CASE UNCHANGED vars
  BY <1>1, <1>10 DEF vars
<1> QED
  BY <1>2, <1>3, <1>4, <1>5, <1>6, <1>7, <1>8, <1>9, <1>10 DEF Next

-----------------------------------------------------------------------------
(* Devices *)

\* Forward writes to all that can be reached; the others only become more.
LEMMA ReachStep ==
  ASSUME KindInv, ReachableGotIt, [Next]_vars
  PROVE  ReachableGotIt'
<1> USE DEF clientVars, callVars, topicVars, recvVars, pushVars
<1>1. ASSUME UNCHANGED <<pubs, fwd, dead, pushed>>
      PROVE  ReachableGotIt'
  BY <1>1 DEF ReachableGotIt, Reachable
<1>2. Reachable \subseteq Conns
  BY DEF Reachable
<1>3. ASSUME NEW f \in Frames, Forward(f)
      PROVE  ReachableGotIt'
  <2>1. Reachable' = Reachable
    BY <1>3 DEF Forward, Reachable
  <2> QED  BY <1>2, <1>3, <2>1 DEF Forward, ReachableGotIt, KindInv
<1>4. ASSUME NEW c \in Conns, DeviceDies(c)
      PROVE  ReachableGotIt'
  <2>1. Reachable' \subseteq Reachable
    BY <1>4 DEF DeviceDies, Reachable
  <2> QED  BY <1>4, <2>1 DEF DeviceDies, ReachableGotIt
<1>5. ASSUME NEW f \in Frames, HandlerStep(f)
      PROVE  ReachableGotIt'
  <2>1. CASE Publish(f)
    <3>1. PublishEffect(f)
      BY <2>1, PublishHasEffect
    <3>2. Reachable' = Reachable
      BY <3>1 DEF PublishEffect, Reachable
    <3> QED  BY <3>1, <3>2 DEF PublishEffect, Elsewhere, ReachableGotIt
  <2>2. CASE CallFails(f)
    <3>1. CallFailsEffect(f)
      BY <2>2, CallFailsHasEffect
    <3>2. Reachable' = Reachable
      BY <3>1 DEF CallFailsEffect, Reachable
    <3> QED  BY <3>1, <3>2 DEF CallFailsEffect, Elsewhere, ReachableGotIt
  <2> QED  BY <1>1, <1>5, <2>1, <2>2 DEF HandlerStep, UserUnitInfo, UpsertMsg
<1>6. ASSUME NEW f \in Frames, OnMsgStored(f) \/ Delivery(f)
      PROVE  ReachableGotIt'
  BY <1>1, <1>6 DEF OnMsgStored, Delivery, HandleMessage, MsgTimesOut
<1>7. ASSUME NEW f \in Frames, MsgComingFails(f) \/ MsgComing(f)
      PROVE  ReachableGotIt'
  BY <1>1, <1>7 DEF MsgComingFails, MsgComing
<1>8. ASSUME NEW b \in todo, BatchStep(b)
      PROVE  ReachableGotIt'
  BY <1>1, <1>8 DEF BatchStep, Undecodable, CallMsgComing, AnswerOk, AnswerFails
<1>9. ASSUME NEW k \in Frames, HandleFrames(k)
      PROVE  ReachableGotIt'
  BY <1>1, <1>9 DEF HandleFrames
<1>10. CASE Restarts \/ UNCHANGED vars
  BY <1>1, <1>10 DEF Restarts, vars
<1> QED
  BY <1>3, <1>4, <1>5, <1>6, <1>7, <1>8, <1>9, <1>10 DEF Next, ConsumerStep

-----------------------------------------------------------------------------
(* Numbers *)

\* A call is served once, so its frame had no number before.
LEMMA CountStep ==
  ASSUME KindInv, RecvInv, CountInv, [Next]_vars
  PROVE  CountInv'
<1> USE DEF clientVars, callVars, topicVars, recvVars, pushVars
<1> DEFINE S == {g \in Frames : num[g] # 0}
<1>1. ASSUME UNCHANGED <<seq, num>>
      PROVE  CountInv'
  BY <1>1 DEF CountInv
<1>2. ASSUME NEW f \in Frames, MsgComing(f)
      PROVE  CountInv'
  <2>1. MsgComingEffect(f)
    BY <1>2, MsgComingHasEffect
  <2>2. f \notin S
    BY <2>1 DEF MsgComingEffect, RecvInv
  <2>3. S' = S \cup {f}
    BY <2>1 DEF MsgComingEffect, KindInv
  <2>4. IsFiniteSet(S)
    <3>1. IsFiniteSet(Frames)
      BY PipelineAssumption, FS_Interval DEF Frames
    <3> QED  BY <3>1, FS_Subset
  <2>5. Cardinality(S \cup {f}) = Cardinality(S) + 1
    BY <2>2, <2>4, FS_AddElement
  <2> QED  BY <2>1, <2>3, <2>5 DEF MsgComingEffect, CountInv
<1>3. ASSUME NEW f \in Frames, MsgComingFails(f)
      PROVE  CountInv'
  BY <1>1, <1>3 DEF MsgComingFails
<1>4. ASSUME NEW f \in Frames, HandlerStep(f)
      PROVE  CountInv'
  BY <1>1, <1>4 DEF HandlerStep, UserUnitInfo, UpsertMsg, Publish, CallFails
<1>5. ASSUME NEW f \in Frames, Delivery(f) \/ ConsumerStep(f)
      PROVE  CountInv'
  BY <1>1, <1>5 DEF Delivery, HandleMessage, MsgTimesOut, ConsumerStep, OnMsgStored,
                    Forward
<1>6. ASSUME NEW b \in todo, BatchStep(b)
      PROVE  CountInv'
  BY <1>1, <1>6 DEF BatchStep, Undecodable, CallMsgComing, AnswerOk, AnswerFails
<1>7. ASSUME NEW k \in Frames, HandleFrames(k)
      PROVE  CountInv'
  BY <1>1, <1>7 DEF HandleFrames
<1>8. ASSUME NEW c \in Conns, DeviceDies(c)
      PROVE  CountInv'
  BY <1>1, <1>8 DEF DeviceDies
<1>9. CASE Restarts \/ UNCHANGED vars
  BY <1>1, <1>9 DEF Restarts, vars
<1> QED
  BY <1>2, <1>3, <1>4, <1>5, <1>6, <1>7, <1>8, <1>9 DEF Next

\* No number exceeds the number of frames.
LEMMA CountBound ==
  ASSUME KindInv, CountInv
  PROVE  seq <= MaxFrames
<1> DEFINE S == {g \in Frames : num[g] # 0}
<1>1. IsFiniteSet(Frames) /\ Cardinality(Frames) = MaxFrames
  BY PipelineAssumption, FS_Interval DEF Frames
<1>2. Cardinality(S) <= Cardinality(Frames)
  BY <1>1, FS_Subset
<1> QED  BY <1>1, <1>2 DEF CountInv

-----------------------------------------------------------------------------
(* Batches *)

\* The steps outside the engine server and OnMsgComing.
LEMMA OtherSteps ==
  ASSUME Next
  PROVE  \/ \E k \in Frames : HandleFrames(k)
         \/ \E b \in todo : BatchStep(b)
         \/ \E f \in Frames : MsgComingFails(f) \/ MsgComing(f)
         \/ UNCHANGED <<sent, batch, todo, call, ack, seq, num>>
<1> USE DEF clientVars, callVars, topicVars
<1>1. ASSUME NEW f \in Frames, HandlerStep(f)
      PROVE  UNCHANGED <<sent, batch, todo, call, ack, seq, num>>
  BY <1>1 DEF HandlerStep, UserUnitInfo, UpsertMsg, Publish, CallFails
<1>2. ASSUME NEW f \in Frames, Delivery(f) \/ ConsumerStep(f)
      PROVE  UNCHANGED <<sent, batch, todo, call, ack, seq, num>>
  BY <1>2 DEF Delivery, HandleMessage, MsgTimesOut, ConsumerStep, OnMsgStored, Forward
<1>3. ASSUME NEW c \in Conns, DeviceDies(c)
      PROVE  UNCHANGED <<sent, batch, todo, call, ack, seq, num>>
  BY <1>3 DEF DeviceDies
<1>4. CASE Restarts
  BY <1>4 DEF Restarts
<1> QED  BY <1>1, <1>2, <1>3, <1>4 DEF Next

\* A step of a batch leaves the batch, or what follows its first frame, or nothing.
LEMMA BatchRest ==
  ASSUME NEW b \in todo, BatchStep(b)
  PROVE  \A x \in todo' : \/ x \in todo
                          \/ x = Tail(b) /\ x # <<>> /\ AnswerOk(b)
<1> USE DEF callVars
<1>1. CASE AnswerOk(b)
  <2> DEFINE rest == Tail(b)
  <2>1. todo' = Without(b, rest)
    BY <1>1 DEF AnswerOk
  <2> HIDE DEF rest
  <2>2. \A x \in todo' : x \in todo \/ (x = rest /\ rest # <<>>)
    BY <2>1, WithoutFacts
  <2> QED  BY <1>1, <2>2, Zenon DEF rest
<1>2. CASE Undecodable(b) \/ CallMsgComing(b) \/ AnswerFails(b)
  BY <1>2 DEF Undecodable, CallMsgComing, AnswerFails
<1> QED  BY <1>1, <1>2 DEF BatchStep

\* A goroutine only cuts its batch from the front.
LEMMA RunStep ==
  ASSUME KindInv, RunInv, [Next]_vars
  PROVE  RunInv'
<1>1. ASSUME NEW k \in Frames, HandleFrames(k)
      PROVE  RunInv'
  <2> DEFINE n == [i \in 1 .. k |-> sent + i]
  <2>0. sent \in Nat /\ k \in Nat \ {0} /\ MaxFrames \in Nat /\ sent + k <= MaxFrames
    BY <1>1, PipelineAssumption DEF HandleFrames, KindInv, Frames
  <2>1. Len(n) = k /\ \A i \in 1 .. k : n[i] = sent + i
    BY <1>1, NewBatch DEF HandleFrames
  <2>2. todo' = todo \cup {n} /\ sent' = sent + k
    BY <1>1 DEF HandleFrames
  <2>3. \A f \in Frames :
          batch'[f] = IF f \in sent + 1 .. sent + k THEN sent + 1 ELSE batch[f]
    BY <1>1 DEF HandleFrames
  <2> HIDE DEF n
  <2>4. \A i \in 1 .. Len(n) :
          n[i] = n[1] + (i - 1) /\ batch'[n[i]] = batch'[n[1]] /\ n[i] <= sent'
    BY <2>0, <2>1, <2>2, <2>3 DEF Frames
  <2>5. ASSUME NEW b \in todo, NEW i \in 1 .. Len(b)
        PROVE  b[i] = b[1] + (i - 1) /\ batch'[b[i]] = batch'[b[1]] /\ b[i] <= sent'
    <3>1. b[i] \in Frames /\ b[1] \in Frames /\ Len(b) \in Nat \ {0} /\ 1 \in 1 .. Len(b)
      BY BatchFacts
    <3>2. b[i] <= sent /\ b[1] <= sent /\ b[i] = b[1] + (i - 1) /\ batch[b[i]] = batch[b[1]]
      BY <3>1 DEF RunInv
    <3>3. batch'[b[i]] = batch[b[i]] /\ batch'[b[1]] = batch[b[1]]
      BY <2>0, <2>3, <3>1, <3>2 DEF Frames
    <3> QED  BY <2>0, <2>2, <3>1, <3>2, <3>3 DEF Frames
  <2> QED  BY <2>2, <2>4, <2>5 DEF RunInv
<1>2. ASSUME NEW b \in todo, BatchStep(b)
      PROVE  RunInv'
  <2>1. sent' = sent /\ batch' = batch
    BY <1>2 DEF BatchStep, Undecodable, CallMsgComing, AnswerOk, AnswerFails, clientVars
  <2> DEFINE rest == Tail(b)
  <2>2. \A x \in todo' : x \in todo \/ (x = rest /\ x # <<>>)
    BY <1>2, BatchRest, Zenon
  <2>3. /\ Len(b) \in Nat \ {0} /\ Len(rest) = Len(b) - 1
        /\ \A i \in 1 .. Len(b) : b[i] \in Frames
        /\ \A i \in 1 .. Len(b) - 1 : rest[i] = b[i + 1]
    BY BatchFacts
  <2> HIDE DEF rest
  <2>4. ASSUME NEW i \in 1 .. Len(rest)
        PROVE  /\ rest[i] = rest[1] + (i - 1)
               /\ batch[rest[i]] = batch[rest[1]] /\ rest[i] <= sent
    <3>1. /\ i + 1 \in 1 .. Len(b) /\ 2 \in 1 .. Len(b)
          /\ i \in 1 .. Len(b) - 1 /\ 1 \in 1 .. Len(b) - 1
      BY <2>3
    <3>2. rest[i] = b[i + 1] /\ rest[1] = b[2]
      BY <2>3, <3>1
    <3>3. /\ b[i + 1] = b[1] + ((i + 1) - 1) /\ batch[b[i + 1]] = batch[b[1]]
          /\ b[i + 1] <= sent
          /\ b[2] = b[1] + (2 - 1) /\ batch[b[2]] = batch[b[1]]
      BY <3>1 DEF RunInv
    <3>4. b[1] \in Int /\ i \in Int
      BY <2>3 DEF Frames
    <3> QED  BY <3>2, <3>3, <3>4
  <2> QED  BY <2>1, <2>2, <2>4 DEF RunInv
<1>3. ASSUME NEW f \in Frames, MsgComingFails(f) \/ MsgComing(f)
      PROVE  RunInv'
  BY <1>3 DEF MsgComingFails, MsgComing, clientVars, RunInv
<1>4. CASE UNCHANGED <<sent, batch, todo, call, ack, seq, num>>
  BY <1>4 DEF RunInv
<1>5. CASE UNCHANGED vars
  BY <1>4, <1>5 DEF vars, clientVars, callVars, topicVars
<1> QED  BY <1>1, <1>2, <1>3, <1>4, <1>5, OtherSteps

\* FrameInv is kept: calls are made for sent frames, and numbers are never taken back.
LEMMA FrameStep ==
  ASSUME KindInv, RecvInv, RunInv, FrameInv, [Next]_vars
  PROVE  FrameInv'
<1>1. ASSUME NEW k \in Frames, HandleFrames(k)
      PROVE  FrameInv'
  <2>0. sent \in Nat /\ k \in Nat \ {0} /\ sent' = sent + k
    BY <1>1 DEF HandleFrames, KindInv, Frames
  <2>1. \A f \in Frames :
          batch'[f] = IF f \in sent + 1 .. sent + k THEN sent + 1 ELSE batch[f]
    BY <1>1 DEF HandleFrames
  <2>2. UNCHANGED <<call, ack, seq, num>>
    BY <1>1 DEF HandleFrames, topicVars
  <2> QED  BY <2>0, <2>1, <2>2 DEF FrameInv, KindInv, Frames
<1>2. ASSUME NEW b \in todo, BatchStep(b)
      PROVE  FrameInv'
  <2>1. Head(b) \in Frames /\ Head(b) <= sent
    BY BatchFacts, 1 \in 1 .. Len(b) DEF RunInv
  <2>2. CASE CallMsgComing(b)
    <3> DEFINE h == Head(b)
    <3>1. /\ UNCHANGED <<sent, batch, ack, seq, num>>
          /\ call[h] = "none" /\ call' = [call EXCEPT ![h] = "out"]
      BY <2>2 DEF CallMsgComing, clientVars, topicVars
    <3> HIDE DEF h
    <3>2. \A g \in Frames : call'[g] = IF g = h THEN "out" ELSE call[g]
      BY <3>1 DEF KindInv
    <3>3. h \in Frames /\ h <= sent /\ sent \in Nat
      BY <2>1 DEF h, KindInv
    <3> QED  BY <3>1, <3>2, <3>3 DEF FrameInv, Frames
  <2>3. CASE AnswerOk(b) \/ AnswerFails(b)
    <3>1. AnswerEffect(Head(b))
      BY <2>1, <2>3, AnswerHasEffect
    <3> QED  BY <2>1, <3>1 DEF AnswerEffect, KindInv, FrameInv
  <2>4. CASE Undecodable(b)
    BY <2>4 DEF Undecodable, clientVars, topicVars, FrameInv
  <2> QED  BY <1>2, <2>2, <2>3, <2>4 DEF BatchStep
<1>3. ASSUME NEW f \in Frames, MsgComingFails(f)
      PROVE  FrameInv'
  BY <1>3 DEF MsgComingFails, Answers, clientVars, topicVars, KindInv, FrameInv
<1>4. ASSUME NEW f \in Frames, MsgComing(f)
      PROVE  FrameInv'
  <2>1. MsgComingEffect(f)
    BY <1>4, MsgComingHasEffect
  <2> QED  BY <2>1 DEF MsgComingEffect, KindInv, FrameInv
<1>5. CASE UNCHANGED <<sent, batch, todo, call, ack, seq, num>>
  BY <1>5 DEF FrameInv
<1>6. CASE UNCHANGED vars
  BY <1>5, <1>6 DEF vars, clientVars, callVars, topicVars
<1> QED  BY <1>1, <1>2, <1>3, <1>4, <1>5, <1>6, OtherSteps

\* BatchInv is kept by the goroutine of a batch.
LEMMA BatchStepKeeps ==
  ASSUME KindInv, RecvInv, RunInv, FrameInv, BatchInv, NEW b \in todo, BatchStep(b)
  PROVE  BatchInv'
<1> DEFINE h == Head(b)
<1>1. h \in Frames /\ h = b[1] /\ Len(b) \in Nat \ {0}
  BY BatchFacts, 1 \in 1 .. Len(b)
<1>2. UNCHANGED <<batch, num>>
  BY DEF BatchStep, Undecodable, CallMsgComing, AnswerOk, AnswerFails, clientVars, topicVars
<1>3. \A f \in Frames : f < h /\ batch[f] = batch[h] => ack[f] = "ok"
  BY <1>1 DEF BatchInv
<1>4. CASE Undecodable(b)
  BY <1>2, <1>4 DEF Undecodable, BatchInv
<1>5. CASE CallMsgComing(b)
  <2>1. todo' = todo /\ ack' = ack /\ call' = [call EXCEPT ![h] = "out"] /\ call[h] = "none"
    BY <1>5 DEF CallMsgComing
  <2>2. num[h] = 0
    BY <1>1, <2>1 DEF RecvInv
  <2> HIDE DEF h
  <2>3. \A g \in Frames \ {h} : call'[g] = call[g]
    BY <2>1 DEF KindInv
  <2>4. \A f, g \in Frames : f < g /\ batch[f] = batch[g] /\ call'[g] # "none" =>
          ack[f] = "ok" /\ (num[g] = 0 \/ num[f] < num[g])
    BY <1>3, <2>2, <2>3 DEF BatchInv
  <2>5. \A x \in todo : \A f \in Frames :
          f < x[1] /\ batch[f] = batch[x[1]] => ack[f] = "ok"
    BY DEF BatchInv
  <2> QED  BY <1>2, <2>1, <2>4, <2>5 DEF BatchInv
<1>6. CASE AnswerFails(b)
  <2>1. AnswerEffect(h) /\ call[h] # "over"
    BY <1>1, <1>6, AnswerHasEffect DEF AnswerFails
  <2>2. ack[h] # "ok"
    BY <1>1, <2>1 DEF FrameInv
  <2>3. todo' \subseteq todo
    BY <1>6 DEF AnswerFails
  <2> HIDE DEF h
  <2>4. \A f \in Frames : ack[f] = "ok" => ack'[f] = "ok"
    BY <2>1, <2>2 DEF AnswerEffect
  <2>5. \A f \in Frames : call'[f] # "none" => call[f] # "none"
    BY <2>1 DEF AnswerEffect
  <2>6. \A x \in todo : x[1] \in Frames
    BY BatchFacts, \A x \in todo : 1 \in 1 .. Len(x)
  <2> QED  BY <1>2, <2>3, <2>4, <2>5, <2>6 DEF BatchInv
<1>7. CASE AnswerOk(b)
  <2>1. AnswerEffect(h) /\ ack'[h] = "ok"
    BY <1>1, <1>7, AnswerHasEffect DEF AnswerOk, KindInv
  <2>2. \A x \in todo' : x \in todo \/ (x = Tail(b) /\ x # <<>>)
    BY BatchRest, Zenon
  <2>3. \A f \in Frames : ack[f] = "ok" => ack'[f] = "ok"
    BY <1>1, <2>1 DEF AnswerEffect
  <2>4. \A f \in Frames : call'[f] # "none" => call[f] # "none"
    BY <1>1, <2>1 DEF AnswerEffect
  <2>5. ASSUME NEW x \in todo', x = Tail(b), x # <<>>, NEW f \in Frames,
               f < x[1], batch[f] = batch[x[1]]
        PROVE  ack'[f] = "ok"
    <3>1. /\ x \in Seq(Frames) /\ Len(x) = Len(b) - 1
          /\ \A i \in 1 .. Len(b) - 1 : x[i] = b[i + 1]
      BY <2>5, BatchFacts
    <3>2. Len(x) \in Nat \ {0}
      BY <3>1, <2>5, EmptySeq
    <3>3. 1 \in 1 .. Len(b) - 1 /\ 2 \in 1 .. Len(b)
      BY <1>1, <3>1, <3>2
    <3>4. x[1] = b[1] + 1 /\ batch[x[1]] = batch[b[1]]
      <4>1. x[1] = b[2]
        BY <3>1, <3>3
      <4>2. b[2] = b[1] + (2 - 1) /\ batch[b[2]] = batch[b[1]]
        BY <3>3 DEF RunInv
      <4>3. b[1] \in Int
        BY <1>1 DEF Frames
      <4> QED  BY <4>1, <4>2, <4>3
    <3>5. f = h \/ f < h
      BY <1>1, <2>5, <3>4 DEF Frames
    <3> QED  BY <1>1, <1>3, <2>1, <2>3, <2>5, <3>4, <3>5
  <2>6. \A x \in todo' : \A f \in Frames :
          f < x[1] /\ batch[f] = batch[x[1]] => ack'[f] = "ok"
    BY <2>2, <2>3, <2>5 DEF BatchInv
  <2>7. \A f, g \in Frames : f < g /\ batch[f] = batch[g] /\ call'[g] # "none" =>
          ack'[f] = "ok" /\ (num[g] = 0 \/ num[f] < num[g])
    BY <2>3, <2>4 DEF BatchInv
  <2> QED  BY <1>2, <2>6, <2>7 DEF BatchInv
<1> QED  BY <1>4, <1>5, <1>6, <1>7 DEF BatchStep

\* BatchInv is kept by every step.
LEMMA BatchInvStep ==
  ASSUME KindInv, RecvInv, RunInv, FrameInv, BatchInv, [Next]_vars
  PROVE  BatchInv'
<1>1. ASSUME NEW k \in Frames, HandleFrames(k)
      PROVE  BatchInv'
  <2> DEFINE n == [i \in 1 .. k |-> sent + i]
  <2>0. sent \in Nat /\ k \in Nat \ {0} /\ sent' = sent + k /\ sent + k <= MaxFrames
        /\ MaxFrames \in Nat
    BY <1>1, PipelineAssumption DEF HandleFrames, KindInv, Frames
  <2>1. n[1] = sent + 1 /\ sent + 1 \in Frames
    BY <2>0, NewBatch DEF Frames
  <2>2. todo' = todo \cup {n} /\ UNCHANGED <<call, ack, num>>
    BY <1>1 DEF HandleFrames, topicVars
  <2>3. \A f \in Frames :
          batch'[f] = IF f \in sent + 1 .. sent + k THEN sent + 1 ELSE batch[f]
    BY <1>1 DEF HandleFrames
  <2> HIDE DEF n
  <2>4. ASSUME NEW f \in Frames
        PROVE  /\ f <= sent => batch'[f] = batch[f] /\ batch[f] <= sent
               /\ f > sent /\ batch'[f] # 0 => batch'[f] = sent + 1
    <3>1. f \in Nat /\ batch[f] \in Nat /\ batch[f] <= f /\ (f <= sent <=> batch[f] # 0)
      BY DEF FrameInv, KindInv, Frames
    <3>2. batch'[f] = IF f \in sent + 1 .. sent + k THEN sent + 1 ELSE batch[f]
      BY <2>3
    <3> QED  BY <2>0, <3>1, <3>2
  <2>5. ASSUME NEW f \in Frames, f < n[1], batch'[f] = batch'[n[1]]
        PROVE  FALSE
    BY <2>0, <2>1, <2>3, <2>4, <2>5 DEF Frames
  <2>6. ASSUME NEW b \in todo, NEW f \in Frames, f < b[1], batch'[f] = batch'[b[1]]
        PROVE  ack[f] = "ok"
    <3>1. b[1] \in Frames /\ b[1] <= sent
      BY BatchFacts, 1 \in 1 .. Len(b) DEF RunInv
    <3>2. batch[f] = batch[b[1]]
      BY <2>0, <2>4, <2>6, <3>1 DEF Frames
    <3> QED  BY <2>6, <3>2 DEF BatchInv
  <2>7. ASSUME NEW f \in Frames, NEW g \in Frames, f < g, batch'[f] = batch'[g],
               call[g] # "none"
        PROVE  ack[f] = "ok" /\ (num[g] = 0 \/ num[f] < num[g])
    <3>1. g <= sent
      BY <2>0, <2>7 DEF FrameInv, Frames
    <3>2. batch[f] = batch[g]
      BY <2>0, <2>4, <2>7, <3>1 DEF Frames
    <3> QED  BY <2>7, <3>2 DEF BatchInv
  <2> QED  BY <2>2, <2>5, <2>6, <2>7 DEF BatchInv
<1>2. ASSUME NEW b \in todo, BatchStep(b)
      PROVE  BatchInv'
  BY <1>2, BatchStepKeeps
<1>3. ASSUME NEW f \in Frames, MsgComingFails(f)
      PROVE  BatchInv'
  <2>1. UNCHANGED <<batch, todo, ack, num>> /\ call[f] # "none"
    BY <1>3 DEF MsgComingFails, clientVars, topicVars
  <2>2. \A g \in Frames : call'[g] # "none" => call[g] # "none"
    BY <1>3, <2>1 DEF MsgComingFails, Answers, KindInv
  <2> QED  BY <2>1, <2>2 DEF BatchInv
<1>4. ASSUME NEW f \in Frames, MsgComing(f)
      PROVE  BatchInv'
  <2>1. MsgComingEffect(f)
    BY <1>4, MsgComingHasEffect
  <2>2. UNCHANGED <<batch, todo, ack>> /\ ack[f] # "ok"
    BY <2>1 DEF MsgComingEffect, FrameInv
  <2>3. \A g \in Frames : call'[g] # "none" => call[g] # "none"
    BY <2>1 DEF MsgComingEffect
  <2>4. num'[f] = seq + 1 /\ \A g \in Frames \ {f} : num'[g] = num[g]
    BY <2>1 DEF MsgComingEffect, KindInv
  <2>5. \A e, g \in Frames : e < g /\ batch[e] = batch[g] /\ call'[g] # "none" =>
          ack[e] = "ok" /\ (num'[g] = 0 \/ num'[e] < num'[g])
    <3>1. ASSUME NEW e \in Frames, NEW g \in Frames, e < g, batch[e] = batch[g],
                 call'[g] # "none"
          PROVE  ack[e] = "ok" /\ (num'[g] = 0 \/ num'[e] < num'[g])
      <4>1. ack[e] = "ok" /\ (num[g] = 0 \/ num[e] < num[g])
        BY <2>3, <3>1 DEF BatchInv
      <4>2. num'[e] = num[e] /\ num[e] <= seq /\ num[e] \in Nat /\ seq \in Nat
        BY <2>2, <2>4, <4>1 DEF FrameInv, KindInv
      <4> QED  BY <2>4, <4>1, <4>2
    <3> QED  BY <3>1
  <2> QED  BY <2>2, <2>5 DEF BatchInv
<1>5. CASE UNCHANGED <<sent, batch, todo, call, ack, seq, num>>
  BY <1>5 DEF BatchInv
<1>6. CASE UNCHANGED vars
  BY <1>5, <1>6 DEF vars, clientVars, callVars, topicVars
<1> QED  BY <1>1, <1>2, <1>3, <1>4, <1>5, <1>6, OtherSteps

-----------------------------------------------------------------------------
(* The theorems *)

\* IInv holds initially, ...
LEMMA InitKeeps == Init => IInv
<1> SUFFICES ASSUME Init PROVE IInv
  OBVIOUS
<1>1. KindInv
  BY KindInit
<1>2. RecvInv /\ ForwardedOnce /\ StoreInv /\ PushedIsStored /\ LossInv /\ ReachableGotIt
  BY DEF Init, RecvInv, ForwardedOnce, StoreInv, PushedIsStored, LossInv, ReachableGotIt
<1>3. CountInv
  <2>1. {f \in Frames : num[f] # 0} = {} /\ seq = 0
    BY DEF Init
  <2> QED  BY <2>1, FS_EmptySet DEF CountInv
<1>4. RunInv /\ FrameInv /\ BatchInv
  BY PipelineAssumption DEF Init, RunInv, FrameInv, BatchInv, Frames
<1> QED  BY <1>1, <1>2, <1>3, <1>4 DEF IInv

\* ... and is kept by every step.
LEMMA StepKeeps == IInv /\ [Next]_vars => IInv'
BY KindStep, RecvStep, StoreStep, LossStep, ReachStep, CountStep, RunStep, FrameStep,
   BatchInvStep DEF IInv

\* The kinds, the counting and the runs give the type invariant.
LEMMA KindsAreTypes ==
  ASSUME IInv
  PROVE  TypeOK
<1> USE DEF IInv
<1>1. ASSUME NEW b \in todo PROVE b # <<>> /\ ToSet(b) \subseteq 1 .. sent
  <2>1. b \in Seq(Frames) /\ b # <<>> /\ DOMAIN b = 1 .. Len(b)
    BY LenProperties DEF KindInv
  <2>2. \A i \in 1 .. Len(b) : b[i] \in Frames /\ b[i] <= sent
    BY BatchFacts DEF RunInv
  <2>3. \A i \in DOMAIN b : b[i] \in 1 .. sent
    BY <2>1, <2>2 DEF Frames, KindInv
  <2> QED  BY <2>1, <2>3 DEF ToSet
<1>2. seq \in 0 .. MaxFrames /\ num \in [Frames -> 0 .. MaxFrames]
  <2>1. seq <= MaxFrames /\ MaxFrames \in Nat
    BY CountBound, PipelineAssumption
  <2>2. \A f \in Frames : num[f] \in 0 .. MaxFrames
    BY <2>1 DEF KindInv, FrameInv
  <2> QED  BY <2>1, <2>2 DEF KindInv
<1> QED  BY <1>1, <1>2 DEF TypeOK, KindInv

\* A frame acknowledged with OK was called for after those before it.
LEMMA AcksInOrder ==
  ASSUME IInv
  PROVE  AckedInOrder
<1> USE DEF IInv
<1>1. ASSUME NEW f \in Frames, NEW g \in Frames, f < g, batch[f] = batch[g],
             ack[g] = "ok"
      PROVE  ack[f] = "ok" /\ num[f] < num[g]
  <2>1. call[g] # "none" /\ num[g] > 0
    BY <1>1 DEF FrameInv
  <2> QED  BY <1>1, <2>1 DEF BatchInv, KindInv
<1> QED  BY <1>1 DEF AckedInOrder

\* IInv holds in every reachable state.
THEOREM Inductive == Spec => []IInv
BY InitKeeps, StepKeeps, PTL DEF Spec

\* The state has its type in every reachable state; in particular no number
\* exceeds the number of frames, for each is taken for one message.
THEOREM TypeCorrect == Spec => []TypeOK
<1>1. IInv => TypeOK
  BY KindsAreTypes
<1> QED  BY <1>1, Inductive, PTL

\* What devices and lists of conversations are shown is in the history, whatever
\* fails, is restarted or delivered twice.
THEOREM StoredFirst == Spec => []PushedIsStored
<1>1. IInv => PushedIsStored
  BY DEF IInv
<1> QED  BY <1>1, Inductive, PTL

\* No message gets into topic.msg_forward twice, although a slow handler may be at
\* work while its message is delivered again, and publishes that are reported as
\* failed may have succeeded.
THEOREM PublishedOnce == Spec => []ForwardedOnce
<1>1. IInv => ForwardedOnce
  BY DEF IInv
<1> QED  BY <1>1, Inductive, PTL

\* A prefix of each batch is acknowledged with OK, in the order of the numbers,
\* however many batches are under way and calls abandoned.
THEOREM AcksFollowNumbers == Spec => []AckedInOrder
<1>1. IInv => AckedInOrder
  BY AcksInOrder
<1> QED  BY <1>1, Inductive, PTL

\* An acknowledged message is lost only if something failed: redelivery and
\* timeouts alone lose none.
THEOREM LostOnlyByFailure == Spec => []NoSilentLoss
<1>1. ASSUME IInv, NEW f \in Frames, f \notin failed, ack[f] = "ok",
             recv[f] \in {"none", "done"}
      PROVE  hnd[f] # "idle" \/ pubs[f] # 0
  <2>1. KindInv /\ RecvInv /\ LossInv
    BY <1>1 DEF IInv
  <2>2. att[f] \in 0 .. 2 /\ pubs[f] \in Nat
    BY <2>1 DEF KindInv, maxRetryTimes
  <2>3. recv[f] = "done" /\ att[f] # 0
    BY <1>1, <2>1 DEF RecvInv, LossInv
  <2> QED  BY <1>1, <2>1, <2>2, <2>3 DEF LossInv
<1>2. IInv => NoSilentLoss
  BY <1>1 DEF NoSilentLoss
<1> QED  BY <1>2, Inductive, PTL

\* A message the engine server is done with was written to every connection that
\* can still be reached.
THEOREM ReachedAll == Spec => []ReachableGotIt
<1>1. IInv => ReachableGotIt
  BY DEF IInv
<1> QED  BY <1>1, Inductive, PTL

-----------------------------------------------------------------------------
(* The refinement *)

\* Only what has its number gets into topic.msg_receive.
QueuedInv == \A f \in Frames : recv[f] # "none" => num[f] > 0

\* MsgComing takes the number before it publishes, and no other step publishes there.
LEMMA QueuedStep == IInv /\ QueuedInv /\ [Next]_vars => QueuedInv'
<1> SUFFICES ASSUME KindInv, FrameInv, QueuedInv, [Next]_vars PROVE QueuedInv'
  BY DEF IInv
<1> USE DEF clientVars, callVars, topicVars, recvVars, pushVars
<1>1. ASSUME num' = num, \A f \in Frames : recv'[f] # "none" => recv[f] # "none"
      PROVE  QueuedInv'
  BY <1>1 DEF QueuedInv
<1>2. ASSUME NEW f \in Frames, MsgComing(f)
      PROVE  QueuedInv'
  <2>1. MsgComingEffect(f)
    BY <1>2, MsgComingHasEffect
  <2>2. seq + 1 > 0 /\ num'[f] = seq + 1
    BY <2>1 DEF MsgComingEffect, KindInv
  <2>3. \A g \in Frames \ {f} : num'[g] = num[g] /\ recv'[g] = recv[g]
    BY <2>1 DEF MsgComingEffect, KindInv
  <2> QED  BY <2>2, <2>3 DEF QueuedInv
<1>3. ASSUME NEW f \in Frames, HandlerStep(f)
      PROVE  QueuedInv'
  <2>1. CASE Publish(f)
    BY <1>1, <2>1, PublishHasEffect DEF PublishEffect, Elsewhere
  <2>2. CASE CallFails(f)
    BY <1>1, <2>2, CallFailsHasEffect DEF CallFailsEffect, Elsewhere
  <2> QED  BY <1>1, <1>3, <2>1, <2>2 DEF HandlerStep, UserUnitInfo, UpsertMsg
<1>4. ASSUME NEW f \in Frames, Delivery(f)
      PROVE  QueuedInv'
  <2>1. CASE HandleMessage(f)
    BY <1>1, <2>1, HandleMessageHasEffect DEF HandleMessageEffect
  <2>2. CASE MsgTimesOut(f)
    BY <1>1, <2>2 DEF MsgTimesOut, KindInv
  <2> QED  BY <1>4, <2>1, <2>2 DEF Delivery
<1>5. ASSUME NEW f \in Frames, MsgComingFails(f) \/ ConsumerStep(f)
      PROVE  QueuedInv'
  BY <1>1, <1>5 DEF MsgComingFails, ConsumerStep, OnMsgStored, Forward
<1>6. ASSUME NEW b \in todo, BatchStep(b)
      PROVE  QueuedInv'
  BY <1>1, <1>6 DEF BatchStep, Undecodable, CallMsgComing, AnswerOk, AnswerFails
<1>7. CASE Restarts
  BY <1>1, <1>7 DEF Restarts
<1>8. CASE (\E k \in Frames : HandleFrames(k)) \/ (\E c \in Conns : DeviceDies(c))
           \/ UNCHANGED vars
  BY <1>1, <1>8 DEF HandleFrames, DeviceDies, vars
<1> QED  BY <1>2, <1>3, <1>4, <1>5, <1>6, <1>7, <1>8 DEF Next

LEMMA QueuedHasNumber == Spec => []QueuedInv
<1>1. Init => QueuedInv
  BY DEF Init, QueuedInv
<1> QED  BY <1>1, QueuedStep, Inductive, PTL DEF Spec

\* What a step has to be in Delivery.
PromiseKept == [Promise!Next]_(Promise!vars)

\* A step that numbers, acknowledges, stores, forwards and shows nothing may at most
\* lose messages.
LEMMA LoseOrStay ==
  ASSUME KindInv, UNCHANGED <<seq, num, ack, tMsg, pubs, pushed, told>>,
         Lost \subseteq Lost'
  PROVE  PromiseKept
<1>1. Acked' = Acked /\ Shown' = Shown
  BY DEF Acked, Shown
<1>2. Lost' \ Lost \in SUBSET {m \in Frames : Promise!OnItsWay(m)}
  BY DEF Lost, Promise!OnItsWay, Promise!Accepted
<1>3. Lost' = Lost \cup (Lost' \ Lost)
  OBVIOUS
<1>4. Promise!Lose
  BY <1>1, <1>2, <1>3 DEF Promise!Lose
<1> QED  BY <1>4 DEF PromiseKept, Promise!Next

\* What the client, the engine and OnMsgComing do.
LEMMA AcceptStep ==
  ASSUME IInv, NEW f \in Frames, MsgComing(f)
  PROVE  PromiseKept
<1> USE DEF IInv
<1>1. MsgComingEffect(f)
  BY MsgComingHasEffect
<1>2. recv[f] = "none" /\ num[f] = 0 /\ hnd[f] = "idle" /\ pubs[f] = 0
  BY <1>1 DEF MsgComingEffect, RecvInv
<1>3. Lost' \in {Lost, Lost \cup {f}}
  <2>1. \A g \in Frames \ {f} : g \in Lost' <=> g \in Lost
    BY <1>1 DEF MsgComingEffect, Lost, KindInv
  <2>2. f \notin Lost
    BY <1>2 DEF Lost
  <2> QED  BY <2>1, <2>2 DEF Lost
<1>4. Acked' = Acked /\ Shown' = Shown
  BY <1>1 DEF MsgComingEffect, Acked, Shown
<1>5. ~Promise!Accepted(f)
  BY <1>2 DEF Promise!Accepted
<1>6. Promise!Accept(f)
  BY <1>1, <1>3, <1>4, <1>5 DEF MsgComingEffect, Promise!Accept
<1> QED  BY <1>6 DEF PromiseKept, Promise!Next

\* An OK that reaches its batch is an acknowledgment, whatever became of the message.
LEMMA AcknowledgeStep ==
  ASSUME IInv, NEW b \in todo, AnswerOk(b) \/ AnswerFails(b)
  PROVE  PromiseKept
<1> USE DEF IInv
<1>1. PICK h \in Frames : h = Head(b)
  BY BatchFacts
<1>2. AnswerEffect(h)
  BY <1>1, AnswerHasEffect
<1>3. UNCHANGED <<seq, num, tMsg, pubs, told, Lost, Shown>>
  BY <1>2 DEF AnswerEffect, Lost, Shown
<1>4. CASE call[h] = "ok" /\ ack'[h] = "ok"
  <2>1. Promise!Accepted(h)
    BY <1>4 DEF FrameInv, Promise!Accepted
  <2>2. Acked' = Acked \cup {h}
    BY <1>2, <1>4 DEF AnswerEffect, Acked
  <2>3. Promise!Acknowledge(h)
    BY <1>3, <2>1, <2>2 DEF Promise!Acknowledge
  <2> QED  BY <2>3 DEF PromiseKept, Promise!Next
<1>5. CASE call[h] \in {"out", "ok", "err"} /\ ack'[h] = "err"
  <2>1. Acked' = Acked
    BY <1>2, <1>5 DEF AnswerEffect, Acked, FrameInv
  <2> QED  BY <1>3, <2>1 DEF PromiseKept, Promise!vars
<1> QED  BY <1>2, <1>4, <1>5 DEF AnswerEffect

\* What the msg server does with a message.
LEMMA HandlerPromise ==
  ASSUME IInv, QueuedInv, NEW f \in Frames, HandlerStep(f)
  PROVE  PromiseKept
<1> USE DEF IInv
<1>1. Promise!OnItsWay(f) /\ f \notin Lost
  <2>1. hnd[f] # "idle"
    BY DEF HandlerStep, UserUnitInfo, UpsertMsg, Publish, CallFails
  <2>2. att[f] # 0 /\ pubs[f] = 0
    BY <2>1 DEF RecvInv
  <2>3. num[f] > 0
    BY <2>2 DEF RecvInv, QueuedInv
  <2> QED  BY <2>1, <2>2, <2>3 DEF Lost, Promise!OnItsWay, Promise!Accepted
<1>2. CASE UserUnitInfo(f)
  <2>1. UNCHANGED <<seq, num, ack, tMsg, pubs, pushed, told, recv>>
    BY <1>2 DEF UserUnitInfo, callVars, topicVars, pushVars
  <2>2. \A g \in Frames \ {f} : hnd'[g] = hnd[g]
    BY <1>2 DEF UserUnitInfo, KindInv
  <2>3. Lost \subseteq Lost'
    BY <1>1, <2>1, <2>2 DEF Lost
  <2> QED  BY <2>1, <2>3, LoseOrStay
<1>3. CASE UpsertMsg(f)
  <2>1. /\ UNCHANGED <<seq, num, ack, pubs, pushed, told, recv>>
        /\ tMsg' = tMsg \cup {f} /\ hnd' = [hnd EXCEPT ![f] = "publish"]
    BY <1>3 DEF UpsertMsg, callVars, topicVars, pushVars
  <2>2. Lost' = Lost /\ Acked' = Acked /\ Shown' = Shown
    BY <1>1, <2>1 DEF Lost, Acked, Shown, KindInv
  <2>3. Promise!Store(f)
    BY <1>1, <2>1, <2>2 DEF Promise!Store
  <2> QED  BY <2>3 DEF PromiseKept, Promise!Next
<1>4. ASSUME UNCHANGED <<seq, num, ack, tMsg, pushed, told>>, hnd[f] = "publish",
             pubs' \in [Frames -> Nat], pubs'[f] = pubs[f] + 1, Elsewhere(f)
      PROVE  PromiseKept
  <2>1. f \in tMsg /\ pubs[f] = 0
    BY <1>4 DEF StoreInv, RecvInv
  <2>2. pubs' = [pubs EXCEPT ![f] = 1]
    BY <1>4, <2>1 DEF KindInv, Elsewhere
  <2>3. Lost' = Lost
    BY <1>1, <1>4, <2>1 DEF Lost, Elsewhere
  <2>4. Acked' = Acked /\ Shown' = Shown
    BY <1>4 DEF Acked, Shown
  <2>5. Promise!Forward(f)
    BY <1>1, <1>4, <2>1, <2>2, <2>3, <2>4 DEF Promise!Forward
  <2> QED  BY <2>5 DEF PromiseKept, Promise!Next
<1>5. CASE Publish(f)
  <2>1. PublishEffect(f)
    BY <1>5, PublishHasEffect
  <2> QED  BY <1>4, <2>1 DEF PublishEffect
<1>6. CASE CallFails(f)
  <2>1. CallFailsEffect(f)
    BY <1>6, CallFailsHasEffect
  <2>2. CASE hnd[f] = "publish" /\ pubs'[f] = pubs[f] + 1
    <3>1. tMsg' = tMsg
      BY <2>1, <2>2 DEF CallFailsEffect, StoreInv
    <3> QED  BY <1>4, <2>1, <2>2, <3>1 DEF CallFailsEffect
  <2>3. CASE pubs' = pubs
    <3>1. \A g \in Frames \ {f} : g \in Lost' <=> g \in Lost
      BY <2>1 DEF CallFailsEffect, Elsewhere, Lost
    <3>2. CASE tMsg' = tMsg
      <4>1. Lost \subseteq Lost'
        BY <1>1, <3>1 DEF Lost
      <4> QED  BY <2>1, <2>3, <3>2, <4>1, LoseOrStay DEF CallFailsEffect
    <3>3. CASE tMsg' = tMsg \cup {f}
      <4>1. Lost' \in {Lost, Lost \cup {f}}
        BY <1>1, <3>1 DEF Lost
      <4>2. Acked' = Acked /\ Shown' = Shown
        BY <2>1 DEF CallFailsEffect, Acked, Shown
      <4>3. Promise!Store(f)
        BY <1>1, <2>1, <2>3, <3>3, <4>1, <4>2 DEF CallFailsEffect, Promise!Store
      <4> QED  BY <4>3 DEF PromiseKept, Promise!Next
    <3> QED  BY <2>1, <3>2, <3>3 DEF CallFailsEffect
  <2> QED  BY <2>1, <2>2, <2>3 DEF CallFailsEffect
<1> QED  BY <1>2, <1>3, <1>5, <1>6 DEF HandlerStep

\* nsqd delivers, takes back and starts again; only a message that is thrown away is
\* lost.
LEMMA DeliveryPromise ==
  ASSUME IInv, NEW f \in Frames, Delivery(f)
  PROVE  PromiseKept
<1> USE DEF IInv
<1>1. CASE HandleMessage(f)
  <2>1. HandleMessageEffect(f)
    BY <1>1, HandleMessageHasEffect
  <2>2. Lost \subseteq Lost'
    BY <2>1 DEF HandleMessageEffect, Lost
  <2> QED  BY <2>1, <2>2, LoseOrStay DEF HandleMessageEffect
<1>2. CASE MsgTimesOut(f)
  <2>1. UNCHANGED <<seq, num, ack, tMsg, pubs, pushed, told, hnd>>
    BY <1>2 DEF MsgTimesOut, callVars, topicVars, pushVars
  <2>2. Lost \subseteq Lost'
    BY <1>2, <2>1 DEF Lost, MsgTimesOut, KindInv
  <2> QED  BY <2>1, <2>2, LoseOrStay
<1> QED  BY <1>1, <1>2 DEF Delivery

\* What the assumption on Devices says of their list.
LEMMA DeviceFacts ==
  /\ Len(Devices) \in Nat
  /\ \A i \in 1 .. Len(Devices) : Devices[i] \in Conns
  /\ \A i, j \in 1 .. Len(Devices) : Devices[i] = Devices[j] => i = j
<1>1. Devices \in Seq(Conns)
  BY PipelineAssumption DEF Conns
<1>2. Len(Devices) \in Nat /\ DOMAIN Devices = 1 .. Len(Devices)
  BY <1>1, LenProperties
<1> QED  BY <1>1, <1>2, ElementOfSeq, PipelineAssumption DEF IsInjective

\* The devices that can be reached are those in front of the first dead one.
LEMMA ReachableFirst ==
  \E k \in 0 .. Len(Devices) : \A i \in 1 .. Len(Devices) :
    Devices[i] \in Reachable <=> i <= k
<1>1. PICK n \in Nat : n = Len(Devices)
  BY DeviceFacts
<1>2. ASSUME NEW i \in 1 .. n
      PROVE  Devices[i] \in Reachable <=> \A j \in 1 .. i : Devices[j] \notin dead
  BY <1>1, DeviceFacts DEF Reachable
<1>3. CASE \A j \in 1 .. n : Devices[j] \notin dead
  <2>1. n \in 0 .. n /\ \A i \in 1 .. n : Devices[i] \in Reachable /\ i <= n
    BY <1>2, <1>3
  <2> QED  BY <1>1, <2>1
<1>4. CASE \E j \in 1 .. n : Devices[j] \in dead
  <2> DEFINE D == {j \in 1 .. n : Devices[j] \in dead}
  <2>1. D \in SUBSET Nat /\ D # {}
    BY <1>4
  <2>2. PICK m \in D : \A j \in D : m <= j
    <3> HIDE DEF D
    <3> QED  BY <2>1, MinOfNats
  <2>3. m \in 1 .. n /\ m - 1 \in 0 .. n
    OBVIOUS
  <2>4. ASSUME NEW i \in 1 .. n
        PROVE  Devices[i] \in Reachable <=> i <= m - 1
    <3>1. CASE i <= m - 1
      <4>1. \A j \in 1 .. i : j \in 1 .. n /\ j < m
        BY <2>3, <3>1
      <4>2. \A j \in 1 .. i : Devices[j] \notin dead
        BY <2>2, <2>3, <4>1
      <4> QED  BY <1>2, <3>1, <4>2
    <3>2. CASE ~(i <= m - 1)
      <4>1. m \in 1 .. i /\ Devices[m] \in dead
        BY <2>3, <3>2
      <4> QED  BY <1>2, <3>2, <4>1
    <3> QED  BY <3>1, <3>2
  <2> QED  BY <1>1, <2>3, <2>4
<1> QED  BY <1>3, <1>4

\* A push writes to the devices that can be reached, which are the first ones.
LEMMA ShowStep ==
  ASSUME IInv, NEW f \in Frames, ConsumerStep(f)
  PROVE  PromiseKept
<1> USE DEF IInv
<1>1. CASE OnMsgStored(f)
  <2>1. /\ UNCHANGED <<seq, num, ack, tMsg, pubs, recv, hnd, pushed>>
        /\ pubs[f] > 0 /\ told' = told \cup {f}
    BY <1>1 DEF OnMsgStored, callVars, topicVars, recvVars
  <2>2. pubs[f] = 1
    BY <2>1 DEF ForwardedOnce, KindInv
  <2>3. Lost' = Lost /\ Acked' = Acked /\ Shown' = Shown
    BY <2>1 DEF Lost, Acked, Shown
  <2>4. Promise!Tell(f)
    BY <2>1, <2>2, <2>3 DEF Promise!Tell
  <2> QED  BY <2>4 DEF PromiseKept, Promise!Next
<1>2. CASE Forward(f)
  <2>1. /\ UNCHANGED <<seq, num, ack, tMsg, pubs, recv, hnd, told>>
        /\ f \in fwd
        /\ pushed' = [c \in Conns |-> IF c \in Reachable THEN pushed[c] \cup {f}
                                                         ELSE pushed[c]]
    BY <1>2 DEF Forward, callVars, topicVars, recvVars
  <2>2. pubs[f] = 1
    BY <2>1 DEF StoreInv, ForwardedOnce, KindInv
  <2>3. Lost' = Lost /\ Acked' = Acked
    BY <2>1 DEF Lost, Acked
  <2>4. PICK k \in 0 .. Len(Devices) : \A i \in 1 .. Len(Devices) :
          Devices[i] \in Reachable <=> i <= k
    BY ReachableFirst
  <2>5. Shown' = [i \in 1 .. Len(Devices) |->
                    IF i <= k THEN Shown[i] \cup {f} ELSE Shown[i]]
    <3>1. \A i \in 1 .. Len(Devices) : Devices[i] \in Conns
      BY DeviceFacts
    <3> QED  BY <2>1, <2>4, <3>1 DEF Shown
  <2>6. Promise!Show(f)
    BY <2>1, <2>2, <2>3, <2>5 DEF Promise!Show
  <2> QED  BY <2>6 DEF PromiseKept, Promise!Next
<1> QED  BY <1>1, <1>2 DEF ConsumerStep

\* Every step is one of Delivery or leaves everything there as it is.
LEMMA PromiseStep == IInv /\ QueuedInv /\ [Next]_vars => PromiseKept
<1> SUFFICES ASSUME IInv, QueuedInv, [Next]_vars PROVE PromiseKept
  OBVIOUS
<1> USE DEF clientVars, callVars, topicVars, recvVars, pushVars
<1>1. ASSUME UNCHANGED <<seq, num, ack, tMsg, pubs, pushed, told, recv, hnd>>
      PROVE  PromiseKept
  BY <1>1, LoseOrStay DEF Lost, IInv
<1>2. CASE (\E k \in Frames : HandleFrames(k)) \/ (\E c \in Conns : DeviceDies(c))
           \/ UNCHANGED vars
  BY <1>1, <1>2 DEF HandleFrames, DeviceDies, vars
<1>3. ASSUME NEW b \in todo, BatchStep(b)
      PROVE  PromiseKept
  BY <1>1, <1>3, AcknowledgeStep DEF BatchStep, Undecodable, CallMsgComing
<1>4. ASSUME NEW f \in Frames, MsgComingFails(f) \/ MsgComing(f)
      PROVE  PromiseKept
  BY <1>1, <1>4, AcceptStep DEF MsgComingFails
<1>5. CASE Restarts
  <2>1. UNCHANGED <<seq, num, ack, tMsg, pubs, pushed, told>>
    BY <1>5 DEF Restarts
  <2>2. Lost \subseteq Lost'
    BY <1>5, <2>1 DEF Restarts, Lost
  <2> QED  BY <2>1, <2>2, LoseOrStay DEF IInv
<1> QED  BY <1>2, <1>3, <1>4, <1>5, HandlerPromise, DeliveryPromise, ShowStep DEF Next

\* The pipeline implements Delivery: an accepted message is forwarded once, after it was
\* stored, or lost for good; devices and lists are shown nothing else.
THEOREM Refinement == Spec => ImplementsDelivery
<1>1. Init => Promise!Init
  <2> SUFFICES ASSUME Init PROVE Promise!Init
    OBVIOUS
  <2>1. Acked = {} /\ Lost = {}
    BY DEF Init, Acked, Lost
  <2>2. Shown = [i \in 1 .. Len(Devices) |-> {}]
    <3>1. \A i \in 1 .. Len(Devices) : Devices[i] \in Conns
      BY DeviceFacts
    <3> QED  BY <3>1 DEF Init, Shown
  <2> QED  BY <2>1, <2>2 DEF Init, Promise!Init
<1>2. IInv /\ QueuedInv /\ [Next]_vars => [Promise!Next]_(Promise!vars)
  BY PromiseStep DEF PromiseKept
<1> QED  BY <1>1, <1>2, Inductive, QueuedHasNumber, PTL DEF Spec, ImplementsDelivery, Promise!Spec
=============================================================================
