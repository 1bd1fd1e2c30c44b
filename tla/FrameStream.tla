----------------------------- MODULE FrameStream -----------------------------
(***************************************************************************)
(* The way of a client's frames into the engine server: the frame codec    *)
(* (codec/fcodec), OnTraffic of the gnet event handler (drive/engine.go)   *)
(* and Handle of the frame handler (core/frhandler), for one connection.   *)
(*                                                                         *)
(* The connection is a stream.  It is modelled in units, one for each      *)
(* field of a frame: magic, version, type, payload length and checksum are *)
(* the header; payload protocol, request id and the units of the body are  *)
(* the payload.  Decode looks at a whole header or a whole frame only, so  *)
(* where in a field the bytes that arrived end makes no difference.        *)
(*                                                                         *)
(* gnet (external) reads what has arrived into the inbound buffer and      *)
(* calls OnTraffic, on the event loop of the connection; what OnTraffic    *)
(* leaves in the buffer it sees again only when more arrives or Wake was   *)
(* called.                                                                 *)
(***************************************************************************)
EXTENDS Integers, SequencesExt

CONSTANTS Magic, Version,  \* MagicNumber and Version, as units
          MaxPayload,      \* MaxPayloadSize, in units
          BatchRead,       \* cde.batchRead
          Crc(_),          \* crc32.ChecksumIEEE of the units of a payload
          Writes,          \* what the client may write: frames, well-formed or not
          MaxWrites,       \* bound: how many of them it writes
          Window           \* bound: units written that have not arrived yet

HeaderSize == 5            \* HeaderFrameSize, in units
MetaSize == 2              \* payload protocol and request id
PongBody == 1              \* pongBytes

\* FrameType, the types a client may send and one it may not.
Ping == 1
Pong == 2
Conn == 3
Send == 5
ForwardAck == 8

\* A frame on the wire.  len and crc are what the header says.
WireFrame == [magic : Nat, version : Nat, ftype : Nat, len : Nat, crc : Nat,
              payload : Seq(Nat)]

\* The checks of Decode on the header alone.
HeaderOk(magic, version, len, crc) ==
  /\ magic = Magic
  /\ version = Version
  /\ len <= MaxPayload
  /\ len = 0 => crc = 0

\* The client may get everything wrong, but the length of a payload it says is
\* the one it writes whenever the header passes for a header.
ASSUME StreamAssumption ==
  /\ Magic \in Nat /\ Version \in Nat /\ MaxPayload \in Nat
  /\ BatchRead \in Nat \ {0}
  /\ MaxWrites \in Nat /\ Window \in Nat
  /\ \A w \in Writes :
       /\ w \in WireFrame
       /\ HeaderOk(w.magic, w.version, w.len, w.crc) => w.len = Len(w.payload)

VARIABLES
  sent,     \* history: what the client has written
  ends,     \* history: where in the stream each of them ends
  stream,   \* the units of all of them
  got,      \* how many units have arrived in the inbound buffer
  pos,      \* how many of them Decode has discarded
  up,       \* the connection is open
  reg,      \* the connection in the manager: opened, authed, timed out before
            \* (late) or after it authenticated (lost), no longer registered (gone)
  pc, frs,  \* OnTraffic: where it is, and the frames it has decoded
  woken,    \* a Wake is pending
  decoded,  \* history: all frames Decode has returned
  handed,   \* history: the frames submitted to the pool, batch after batch
  pongs     \* the pongs written

wireVars == <<sent, ends, stream>>
loopVars == <<got, pos, pc, frs, woken, decoded>>
workVars == <<handed, pongs>>
vars == <<wireVars, loopVars, workVars, up, reg>>

Frame == [ftype : Nat, payload : Seq(Nat)]

TypeOK ==
  /\ sent \in Seq(Writes)
  /\ ends \in Seq(Nat)
  /\ stream \in Seq(Nat)
  /\ got \in 0..Len(stream)
  /\ pos \in 0..got
  /\ up \in BOOLEAN
  /\ reg \in {"opened", "authed", "late", "lost", "gone"}
  /\ pc \in {"idle", "decode", "unauthed", "pings", "others", "wake"}
  /\ frs \in Seq(Frame)
  /\ woken \in BOOLEAN
  /\ decoded \in Seq(Frame)
  /\ handed \in Seq(Frame)
  /\ pongs \in Seq(WireFrame)

Init ==
  /\ sent = <<>> /\ ends = <<>> /\ stream = <<>>
  /\ got = 0 /\ pos = 0
  /\ up = TRUE
  /\ reg = "opened"
  /\ pc = "idle" /\ frs = <<>>
  /\ woken = FALSE
  /\ decoded = <<>>
  /\ handed = <<>>
  /\ pongs = <<>>

-----------------------------------------------------------------------------
(* The codec *)

\* Encode: a payload over the limit is refused, what is written otherwise.
Encodable(protocol, reqId, body) == MetaSize + Len(body) <= MaxPayload
Encode(ftype, protocol, reqId, body) ==
  LET payload == <<protocol, reqId>> \o body
  IN [magic |-> Magic, version |-> Version, ftype |-> ftype,
      len |-> Len(payload), crc |-> Crc(payload), payload |-> payload]

\* The units of a frame in the stream.
Units(w) == <<w.magic, w.version, w.ftype, w.len, w.crc>> \o w.payload

\* Decode on the inbound buffer b.  The header, once it is there, is checked
\* before the payload is waited for.
HasHeader(b) == Len(b) >= HeaderSize
GoodHeader(b) == HasHeader(b) /\ HeaderOk(b[1], b[2], b[4], b[5])
HasFrame(b) == GoodHeader(b) /\ Len(b) >= HeaderSize + b[4]
PayloadIn(b) == SubSeq(b, HeaderSize + 1, HeaderSize + b[4])
FrameIn(b) == [ftype |-> b[3], payload |-> PayloadIn(b)]

\* A frame without payload is complete; one with a payload has the checksum of
\* the payload and at least the payload's protocol and request id.
GoodFrame(b) ==
  /\ HasFrame(b)
  /\ b[4] > 0 => b[5] = Crc(PayloadIn(b)) /\ b[4] >= MetaSize

\* ErrIncompleteFrame, and the other errors.
Incomplete(b) == ~HasHeader(b) \/ (GoodHeader(b) /\ ~HasFrame(b))
Invalid(b) == ~Incomplete(b) /\ ~GoodFrame(b)

Inbound == SubSeq(stream, pos + 1, got)

-----------------------------------------------------------------------------
(* The client and the event loop of gnet *)

\* The client writes a frame, of which none, some or all may have arrived when it
\* writes the next one.
Write(w) ==
  /\ up
  /\ Len(sent) < MaxWrites
  /\ Len(stream) + Len(Units(w)) - got <= Window
  /\ sent' = Append(sent, w)
  /\ stream' = stream \o Units(w)
  /\ ends' = Append(ends, Len(stream'))
  /\ UNCHANGED <<loopVars, workVars, up, reg>>

\* The loop reads n more units and calls OnTraffic.
OnTraffic(n) ==
  /\ up /\ pc = "idle"
  /\ got + n <= Len(stream)
  /\ got' = got + n
  /\ pc' = "decode"
  /\ UNCHANGED <<wireVars, workVars, up, reg, pos, frs, woken, decoded>>

\* The loop runs the Wake: OnTraffic on what is in the buffer.
WakeRuns ==
  /\ up /\ pc = "idle"
  /\ woken
  /\ woken' = FALSE
  /\ pc' = "decode"
  /\ UNCHANGED <<wireVars, workVars, up, reg, got, pos, frs, decoded>>

\* The peer closes, the server does (a check of the connection manager, a worker
\* that cannot decode a body): the loop closes the connection between callbacks,
\* and OnClose unregisters it.
Closes ==
  /\ up /\ pc = "idle"
  /\ up' = FALSE
  /\ reg' = "gone"
  /\ UNCHANGED <<wireVars, loopVars, workVars>>

\* The callback returns: gnet.None, or gnet.Close.
Return == pc' = "idle" /\ frs' = <<>>
ReturnNone == Return /\ UNCHANGED <<up, reg>>
ReturnClose == Return /\ up' = FALSE /\ reg' = "gone"

-----------------------------------------------------------------------------
(* OnTraffic *)

\* Mutant of DecodeFrame: the frame is peeked and not discarded.
DecodeFramePeeks ==
  /\ pc = "decode"
  /\ Len(frs) < BatchRead
  /\ GoodFrame(Inbound)
  /\ frs' = Append(frs, FrameIn(Inbound))
  /\ decoded' = Append(decoded, FrameIn(Inbound))
  /\ UNCHANGED <<wireVars, workVars, up, reg, got, pos, pc, woken>>

\* Decode returns a frame and discards it.
DecodeFrame ==
  /\ pc = "decode"
  /\ Len(frs) < BatchRead
  /\ GoodFrame(Inbound)
  /\ frs' = Append(frs, FrameIn(Inbound))
  /\ decoded' = Append(decoded, FrameIn(Inbound))
  /\ pos' = pos + HeaderSize + Inbound[4]
  /\ UNCHANGED <<wireVars, workVars, up, reg, got, pc, woken>>

\* Mutant of DecodeFails: every error ends the callback as an incomplete frame does.
DecodeFailsQuietly ==
  /\ pc = "decode"
  /\ Len(frs) < BatchRead
  /\ Invalid(Inbound)
  /\ ReturnNone
  /\ UNCHANGED <<wireVars, workVars, got, pos, woken, decoded>>

\* Decode returns an error: the connection is closed, the frames decoded before
\* in this callback go unhandled.
DecodeFails ==
  /\ pc = "decode"
  /\ Len(frs) < BatchRead
  /\ Invalid(Inbound)
  /\ ReturnClose
  /\ UNCHANGED <<wireVars, workVars, got, pos, woken, decoded>>

\* The frame is incomplete or the batch is full: without a frame the callback
\* ends; a connection that is no longer registered is closed; otherwise Handle
\* is called with what ConnHadAuthed said: of a connection that timed out and is
\* still registered, that it is not authenticated.
DecodeEnds ==
  /\ pc = "decode"
  /\ Len(frs) = BatchRead \/ Incomplete(Inbound)
  /\ \/ frs = <<>> /\ ReturnNone
     \/ frs # <<>> /\ reg = "gone" /\ ReturnClose
     \/ /\ frs # <<>> /\ reg # "gone"
        /\ pc' = IF reg = "authed" THEN "pings" ELSE "unauthed"
        /\ UNCHANGED <<frs, up, reg>>
  /\ UNCHANGED <<wireVars, workVars, got, pos, woken, decoded>>

\* Mutant of WakeIfFull: the callback ends without a Wake.
NoWake ==
  /\ pc = "wake"
  /\ ReturnNone
  /\ UNCHANGED <<wireVars, workVars, got, pos, woken, decoded>>

\* The end of OnTraffic: a full batch with something left in the buffer wakes
\* the loop, so that a whole frame in the buffer is not left there.
WakeIfFull ==
  /\ pc = "wake"
  /\ \/ /\ Len(frs) = BatchRead /\ got > pos
        /\ \/ woken' = TRUE /\ ReturnNone
           \/ UNCHANGED woken /\ ReturnClose
     \/ /\ ~(Len(frs) = BatchRead /\ got > pos)
        /\ ReturnNone
        /\ UNCHANGED woken
  /\ UNCHANGED <<wireVars, workVars, got, pos, decoded>>

-----------------------------------------------------------------------------
(* Handle *)

\* The two groups Handle makes of a batch.
PingGroup == 0
OtherGroup == 1
GroupOf(f) == IF f.ftype = Ping THEN PingGroup ELSE OtherGroup

\* GroupByIt: the frames of group k among the frames fs, in their order.
GroupByIt(fs, k) ==
  LET group[n \in 0..Len(fs)] ==
        IF n = 0 THEN <<>>
        ELSE IF GroupOf(fs[n]) = k THEN Append(group[n - 1], fs[n]) ELSE group[n - 1]
  IN group[Len(fs)]

PingFrames(fs) == GroupByIt(fs, PingGroup)
OtherFrames(fs) == GroupByIt(fs, OtherGroup)

\* A single Conn frame goes to handleConnFrame, several frames are a batch only if
\* all are Send or ForwardAck.
Acceptable(fs) ==
  \/ Len(fs) = 1 /\ fs[1].ftype = Conn
  \/ \A i \in DOMAIN fs : fs[i].ftype \in {Send, ForwardAck}

\* The pool takes the batch fs, or Submit fails and the connection is closed.
Submit(fs) ==
  \/ /\ handed' = handed \o fs
     /\ pc' = "wake"
     /\ UNCHANGED <<frs, up, reg>>
  \/ /\ ReturnClose
     /\ UNCHANGED handed

\* Before authentication and after a timeout: a single Conn frame, or the
\* connection is closed.
HandleUnauthed ==
  /\ pc = "unauthed"
  /\ IF Len(frs) = 1 /\ frs[1].ftype = Conn
     THEN Submit(frs)
     ELSE ReturnClose /\ UNCHANGED handed
  /\ UNCHANGED <<wireVars, got, pos, woken, decoded, pongs>>

\* NewPongFrame: the pong repeats protocol and request id of the ping; a ping
\* without payload is answered with zeros.
PongFor(f) ==
  LET from == IF f.payload = <<>> THEN <<0, 0>> ELSE f.payload
  IN Encode(Pong, from[1], from[2], <<PongBody>>)

\* The answers to the pings among the frames fs.
PongsFor(fs) == [i \in DOMAIN PingFrames(fs) |-> PongFor(PingFrames(fs)[i])]

\* The pings of the batch are answered on the event loop; a Write that fails
\* closes the connection, n pongs having been written.
HandlePings ==
  LET answers == PongsFor(frs)
  IN /\ pc = "pings"
     /\ \/ /\ pongs' = pongs \o answers
           /\ pc' = "others"
           /\ UNCHANGED <<frs, up, reg>>
        \/ /\ \E n \in 0..(Len(answers) - 1) : pongs' = pongs \o SubSeq(answers, 1, n)
           /\ ReturnClose
     /\ UNCHANGED <<wireVars, got, pos, woken, decoded, handed>>

\* The other frames of the batch are submitted together.
HandleOthers ==
  LET others == OtherFrames(frs)
  IN /\ pc = "others"
     /\ IF others = <<>>
        THEN pc' = "wake" /\ UNCHANGED <<frs, up, reg, handed>>
        ELSE IF Acceptable(others)
             THEN Submit(others)
             ELSE ReturnClose /\ UNCHANGED handed
     /\ UNCHANGED <<wireVars, got, pos, woken, decoded, pongs>>

-----------------------------------------------------------------------------
(* The connection manager and the pool, as far as OnTraffic sees them *)

\* handleConnFrame authenticates the connection.
Authed ==
  /\ reg = "opened"
  /\ \E i \in DOMAIN handed : handed[i].ftype = Conn
  /\ reg' = "authed"
  /\ UNCHANGED <<wireVars, loopVars, workVars, up>>

\* The checks of the taker.  A connection that has not authenticated in time, or
\* whose pings stay away after that, is in state closing, and still registered
\* while it is closed.
AuthExpires ==
  /\ reg = "opened"
  /\ reg' = "late"
  /\ UNCHANGED <<wireVars, loopVars, workVars, up>>

PingExpires ==
  /\ reg = "authed"
  /\ reg' = "lost"
  /\ UNCHANGED <<wireVars, loopVars, workVars, up>>

\* The first check unregisters the connection itself, perhaps before the loop
\* closes it; after the second OnClose does.
AuthExpiredDel ==
  /\ reg = "late"
  /\ reg' = "gone"
  /\ UNCHANGED <<wireVars, loopVars, workVars, up>>

TimesOut == AuthExpires \/ PingExpires \/ AuthExpiredDel

LoopStep == WakeRuns \/ DecodeFrame \/ DecodeFails \/ DecodeEnds
              \/ HandleUnauthed \/ HandlePings \/ HandleOthers \/ WakeIfFull

Next ==
  \/ \E w \in Writes : Write(w)
  \/ \E n \in 1..Len(stream) : OnTraffic(n)
  \/ Closes
  \/ LoopStep
  \/ Authed \/ TimesOut

Spec == Init /\ [][Next]_vars

\* The event loop runs its callbacks to the end, and the Wakes it was asked for.
FairSpec == Spec /\ WF_vars(LoopStep)

-----------------------------------------------------------------------------
(* Properties *)

\* A write the server is able to decode.
WellFormed(w) ==
  /\ HeaderOk(w.magic, w.version, w.len, w.crc)
  /\ w.len > 0 => w.crc = Crc(w.payload) /\ w.len >= MetaSize
FrameOf(w) == [ftype |-> w.ftype, payload |-> w.payload]

Channel == INSTANCE FrameChannel WITH Receivable <- WellFormed, Content <- FrameOf,
                                      received <- decoded

\* However the stream is cut into pieces, Decode returns the frames the client
\* wrote, in order, each once, and none behind a malformed one.
ImplementsChannel == Channel!Spec

\* What has been handed to the pool, batch after batch, and the pings that were
\* answered, are each the first of what the client wrote, in its order; and a
\* connection that is still open between two callbacks has skipped nothing that
\* was decoded.
Written == [i \in DOMAIN sent |-> FrameOf(sent[i])]
HandledInOrder ==
  /\ IsPrefix(handed, OtherFrames(Written))
  /\ IsPrefix(pongs, PongsFor(Written))
  /\ up /\ pc = "idle" =>
       /\ handed = OtherFrames(decoded)
       /\ pongs = PongsFor(decoded)

\* A frame that has arrived whole is decoded, or the connection is closed: none
\* waits in the buffer for the client to write more.  What has arrived and what is
\* decoded only grow, and the writes come to an end: the frames are all decoded
\* again and again exactly if each is decoded eventually.
ArrivedIsDecoded ==
  []<>(~up \/ \A i \in 1..Len(ends) : ends[i] <= got => Len(decoded) >= i)
=============================================================================
