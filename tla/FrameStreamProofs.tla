-------------------------- MODULE FrameStreamProofs --------------------------
(***************************************************************************)
(* Proofs about FrameStream for any set of frames a client may write,      *)
(* well-formed or not, any checksum, any sizes of a payload and of a       *)
(* batch: what Encode writes Decode reads back; however the stream is cut  *)
(* into pieces OnTraffic implements FrameChannel, and what it decoded is   *)
(* handed on and answered in order, nothing before a Conn frame.           *)
(***************************************************************************)
EXTENDS FrameStream, SequenceLemmas, TLAPS

\* With the ends e: where the n-th write ends, and the next one starts.
End(e, n) == IF n = 0 THEN 0 ELSE e[n]

\* The stream u holds the frame w from s on.
Holds(u, s, w) ==
  /\ s + HeaderSize + Len(w.payload) <= Len(u)
  /\ u[s + 1] = w.magic
  /\ u[s + 2] = w.version
  /\ u[s + 3] = w.ftype
  /\ u[s + 4] = w.len
  /\ u[s + 5] = w.crc
  /\ \A j \in 1..Len(w.payload) : u[s + HeaderSize + j] = w.payload[j]

StreamInv ==
  /\ sent \in Seq(Writes)
  /\ ends \in Seq(Nat) /\ Len(ends) = Len(sent)
  /\ stream \in Seq(Nat) /\ End(ends, Len(sent)) = Len(stream)
  /\ \A i \in 1..Len(sent) :
       /\ ends[i] = End(ends, i - 1) + HeaderSize + Len(sent[i].payload)
       /\ Holds(stream, End(ends, i - 1), sent[i])

\* Decode has discarded exactly the writes it has returned.
LoopInv ==
  /\ got \in Nat /\ pos \in Nat /\ pos <= got /\ got <= Len(stream)
  /\ decoded \in Seq(Frame)
  /\ Len(decoded) <= Len(sent)
  /\ pos = End(ends, Len(decoded))
  /\ up \in BOOLEAN
  /\ (pc # "idle" => up)

IndInv == StreamInv /\ LoopInv

-----------------------------------------------------------------------------
(* The codec *)

LEMMA WriteType ==
  ASSUME NEW w \in Writes
  PROVE  /\ w \in WireFrame
         /\ HeaderOk(w.magic, w.version, w.len, w.crc) => w.len = Len(w.payload)
BY StreamAssumption

\* The units of a frame: the five fields of the header, then the payload.
LEMMA UnitsOf ==
  ASSUME NEW w \in WireFrame
  PROVE  /\ Units(w) \in Seq(Nat)
         /\ Len(Units(w)) = HeaderSize + Len(w.payload)
         /\ Units(w)[1] = w.magic /\ Units(w)[2] = w.version
         /\ Units(w)[3] = w.ftype /\ Units(w)[4] = w.len /\ Units(w)[5] = w.crc
         /\ \A j \in 1..Len(w.payload) : Units(w)[HeaderSize + j] = w.payload[j]
<1> DEFINE h == <<w.magic, w.version, w.ftype, w.len, w.crc>>
           p == w.payload
<1>1. h \in Seq(Nat) /\ Len(h) = 5 /\ p \in Seq(Nat) /\ Len(p) \in Nat
  BY LenProperties DEF WireFrame
<1>2. /\ h[1] = w.magic /\ h[2] = w.version /\ h[3] = w.ftype
      /\ h[4] = w.len /\ h[5] = w.crc
  OBVIOUS
<1> HIDE DEF h, p
<1>3. /\ h \o p \in Seq(Nat) /\ Len(h \o p) = 5 + Len(p)
      /\ \A i \in 1..(5 + Len(p)) : (h \o p)[i] = IF i <= 5 THEN h[i] ELSE p[i - 5]
  <2>1. /\ h \o p \in Seq(Nat) /\ Len(h \o p) = Len(h) + Len(p)
        /\ \A i \in 1..(Len(h) + Len(p)) :
             (h \o p)[i] = IF i <= Len(h) THEN h[i] ELSE p[i - Len(h)]
    BY <1>1, ConcatProperties
  <2> QED  BY <1>1, <2>1
<1>4. \A j \in 1..Len(p) : (h \o p)[5 + j] = p[j]
  BY <1>1, <1>3
<1>5. Units(w) = h \o p
  BY DEF Units, h, p
<1>6. /\ (h \o p)[1] = h[1] /\ (h \o p)[2] = h[2] /\ (h \o p)[3] = h[3]
      /\ (h \o p)[4] = h[4] /\ (h \o p)[5] = h[5]
  BY <1>1, <1>3
<1> QED  BY <1>1, <1>2, <1>3, <1>4, <1>5, <1>6 DEF HeaderSize, p

\* The buffer of a frame's units, followed by whatever was written next: each
\* unit is found at its place.
LEMMA BufferUnits ==
  ASSUME NEW w \in WireFrame, NEW rest \in Seq(Nat), NEW b, b = Units(w) \o rest
  PROVE  /\ b \in Seq(Nat) /\ Len(b) >= HeaderSize + Len(w.payload)
         /\ b[1] = w.magic /\ b[2] = w.version /\ b[3] = w.ftype
         /\ b[4] = w.len /\ b[5] = w.crc
         /\ \A j \in 1..Len(w.payload) : b[HeaderSize + j] = w.payload[j]
<1>1. PICK u : /\ u = Units(w)
               /\ u \in Seq(Nat) /\ Len(u) = HeaderSize + Len(w.payload)
               /\ u[1] = w.magic /\ u[2] = w.version /\ u[3] = w.ftype
               /\ u[4] = w.len /\ u[5] = w.crc
               /\ \A j \in 1..Len(w.payload) : u[HeaderSize + j] = w.payload[j]
  BY UnitsOf, SMTT(30)
<1>2. Len(w.payload) \in Nat /\ Len(rest) \in Nat
  BY LenProperties DEF WireFrame
<1>3. /\ u \o rest \in Seq(Nat) /\ Len(u \o rest) = Len(u) + Len(rest)
      /\ \A i \in 1..(Len(u) + Len(rest)) :
           (u \o rest)[i] = IF i <= Len(u) THEN u[i] ELSE rest[i - Len(u)]
  <2>1. u \in Seq(Nat)
    BY <1>1
  <2> QED  BY <2>1, ConcatProperties
<1>4. b \in Seq(Nat) /\ Len(b) = Len(u) + Len(rest)
      /\ \A i \in 1..(HeaderSize + Len(w.payload)) : b[i] = u[i]
  BY <1>1, <1>2, <1>3 DEF HeaderSize
<1>5. \A i \in 1..5 : b[i] = u[i]
  <2>1. \A i \in 1..5 : i \in 1..(HeaderSize + Len(w.payload))
    BY <1>2 DEF HeaderSize
  <2> QED  BY <1>4, <2>1
<1>6. ASSUME NEW j \in 1..Len(w.payload)
      PROVE  b[HeaderSize + j] = w.payload[j]
  <2>1. HeaderSize + j \in 1..(HeaderSize + Len(w.payload))
    BY <1>2 DEF HeaderSize
  <2> QED  BY <1>1, <1>4, <2>1
<1>7. b[1] = u[1] /\ b[2] = u[2] /\ b[3] = u[3] /\ b[4] = u[4] /\ b[5] = u[5]
  <2>1. 1 \in 1..5 /\ 2 \in 1..5 /\ 3 \in 1..5 /\ 4 \in 1..5 /\ 5 \in 1..5
    OBVIOUS
  <2> QED  BY <1>5, <2>1, Zenon
<1>8. Len(b) >= HeaderSize + Len(w.payload)
  BY <1>1, <1>2, <1>4 DEF HeaderSize
<1> QED  BY <1>1, <1>4, <1>6, <1>7, <1>8

\* A slice that holds the same elements is the same sequence.
LEMMA SliceEqual ==
  ASSUME NEW b \in Seq(Nat), NEW q \in Seq(Nat), NEW k \in Nat,
         k + Len(q) <= Len(b), \A j \in 1..Len(q) : b[k + j] = q[j]
  PROVE  SubSeq(b, k + 1, k + Len(q)) = q
<1> DEFINE r == SubSeq(b, k + 1, k + Len(q))
<1>0. Len(q) \in Nat /\ Len(b) \in Nat
  BY LenProperties
<1>1. \A i \in (k + 1)..(k + Len(q)) : b[i] \in Nat
  BY <1>0, ElementOfSeq
<1>2. /\ r \in Seq(Nat)
      /\ Len(r) = IF k + 1 <= k + Len(q) THEN k + Len(q) - (k + 1) + 1 ELSE 0
      /\ \A j \in 1..(k + Len(q) - (k + 1) + 1) : r[j] = b[(k + 1) + j - 1]
  <2>1. k + 1 \in Int /\ k + Len(q) \in Int
    BY <1>0
  <2> QED  BY <1>1, <2>1, SubSeqProperties
<1> HIDE DEF r
<1>3. Len(r) = Len(q)
  BY <1>0, <1>2
<1>4. ASSUME NEW j \in 1..Len(q) PROVE r[j] = q[j]
  <2>1. j \in 1..(k + Len(q) - (k + 1) + 1) /\ (k + 1) + j - 1 = k + j
    BY <1>0
  <2>2. r[j] = b[(k + 1) + j - 1]
    BY <1>2, <2>1
  <2> QED  BY <2>1, <2>2
<1>5. r = q
  BY <1>2, <1>3, <1>4, SeqEqual
<1> QED  BY <1>5 DEF r

\* What Encode returns, Decode returns: from a buffer that begins with an encoded
\* frame, whatever follows it, Decode gets that frame.
THEOREM DecodeEncode ==
  ASSUME NEW ftype \in Nat, NEW protocol \in Nat, NEW reqId \in Nat,
         NEW body \in Seq(Nat), NEW rest \in Seq(Nat),
         Encodable(protocol, reqId, body), Crc(<<protocol, reqId>> \o body) \in Nat
  PROVE  LET w == Encode(ftype, protocol, reqId, body)
             b == Units(w) \o rest
         IN GoodFrame(b) /\ FrameIn(b) = FrameOf(w)
<1> DEFINE w == Encode(ftype, protocol, reqId, body)
           b == Units(w) \o rest
           p == <<protocol, reqId>> \o body
<1>1. p \in Seq(Nat) /\ Len(p) = 2 + Len(body) /\ Len(body) \in Nat
  <2>1. <<protocol, reqId>> \in Seq(Nat) /\ Len(<<protocol, reqId>>) = 2
    OBVIOUS
  <2>2. p \in Seq(Nat) /\ Len(p) = Len(<<protocol, reqId>>) + Len(body)
    BY <2>1, ConcatProperties
  <2> QED  BY <2>1, <2>2, LenProperties
<1>2. /\ w = [magic |-> Magic, version |-> Version, ftype |-> ftype,
              len |-> Len(p), crc |-> Crc(p), payload |-> p]
      /\ Crc(p) \in Nat
  BY DEF Encode
<1> HIDE DEF p, w
<1>3. w \in WireFrame
  BY <1>1, <1>2, StreamAssumption DEF WireFrame
<1>4. PICK v \in WireFrame :
        /\ v = w /\ v.len = Len(p) /\ v.crc = Crc(p) /\ v.payload = p
        /\ v.magic = Magic /\ v.version = Version /\ v.ftype = ftype
  BY <1>2, <1>3
<1>5. PICK c : c = b /\ c = Units(v) \o rest
  BY <1>4
<1> HIDE DEF b
<1>6. /\ c \in Seq(Nat) /\ Len(c) >= HeaderSize + Len(v.payload)
      /\ c[1] = v.magic /\ c[2] = v.version /\ c[3] = v.ftype
      /\ c[4] = v.len /\ c[5] = v.crc
      /\ \A j \in 1..Len(v.payload) : c[HeaderSize + j] = v.payload[j]
  BY <1>5, BufferUnits, Zenon
<1>7. Len(c) \in Nat /\ Len(p) <= MaxPayload
  BY <1>1, <1>6, LenProperties DEF Encodable, MetaSize
<1>8. SubSeq(c, 5 + 1, 5 + Len(p)) = p
  BY <1>1, <1>4, <1>6, <1>7, SliceEqual DEF HeaderSize
<1>9. PayloadIn(c) = p
  BY <1>4, <1>6, <1>8 DEF PayloadIn, HeaderSize
<1>10. GoodFrame(c)
  <2>1. HasHeader(c) /\ HeaderOk(c[1], c[2], c[4], c[5])
    <3>1. Len(c) >= 5
      BY <1>1, <1>4, <1>6, <1>7 DEF HeaderSize
    <3>2. c[1] = Magic /\ c[2] = Version /\ c[4] = Len(p) /\ Len(p) > 0
      BY <1>1, <1>4, <1>6
    <3> QED  BY <3>1, <3>2, <1>7 DEF HasHeader, HeaderOk, HeaderSize
  <2>2. HasFrame(c)
    BY <1>4, <1>6, <2>1 DEF HasFrame, GoodHeader
  <2>3. c[5] = Crc(PayloadIn(c)) /\ c[4] >= MetaSize
    BY <1>1, <1>4, <1>6, <1>9 DEF MetaSize
  <2> QED  BY <2>2, <2>3 DEF GoodFrame
<1>11. FrameIn(c) = FrameOf(v)
  BY <1>4, <1>6, <1>9 DEF FrameIn, FrameOf
<1> QED  BY <1>4, <1>5, <1>10, <1>11 DEF w, b

-----------------------------------------------------------------------------
(* What Decode finds *)

\* The buffer is the part of the stream that arrived and was not discarded.
LEMMA InboundUnits ==
  ASSUME StreamInv, LoopInv
  PROVE  /\ Inbound \in Seq(Nat)
         /\ Len(Inbound) = got - pos
         /\ \A j \in 1..(got - pos) : Inbound[j] = stream[pos + j]
<1> USE DEF LoopInv
<1>0. stream \in Seq(Nat) /\ Len(stream) \in Nat
  BY LenProperties DEF StreamInv
<1>1. \A i \in (pos + 1)..got : stream[i] \in Nat
  BY <1>0, ElementOfSeq
<1>2. pos + 1 \in Int /\ got \in Int
  OBVIOUS
<1>3. /\ Inbound \in Seq(Nat)
      /\ Len(Inbound) = IF pos + 1 <= got THEN got - (pos + 1) + 1 ELSE 0
      /\ \A j \in 1..(got - (pos + 1) + 1) : Inbound[j] = stream[(pos + 1) + j - 1]
  BY ONLY <1>1, <1>2, SubSeqProperties DEF Inbound
<1>4. \A g, p \in Nat : p <= g =>
        /\ (IF p + 1 <= g THEN g - (p + 1) + 1 ELSE 0) = g - p
        /\ g - (p + 1) + 1 = g - p
        /\ \A j \in 1..(g - p) : (p + 1) + j - 1 = p + j
  OBVIOUS
<1>5. /\ Len(Inbound) = got - pos
      /\ 1..(got - (pos + 1) + 1) = 1..(got - pos)
      /\ \A j \in 1..(got - pos) : (pos + 1) + j - 1 = pos + j
  BY ONLY <1>3, <1>4, got \in Nat, pos \in Nat, pos <= got
<1> QED  BY ONLY <1>3, <1>5

\* A frame that Decode accepts is the client's next write, and well-formed.
LEMMA DecodeReads ==
  ASSUME StreamInv, LoopInv, GoodFrame(Inbound)
  PROVE  LET n == Len(decoded) + 1
         IN /\ n <= Len(sent)
            /\ WellFormed(sent[n])
            /\ FrameIn(Inbound) = FrameOf(sent[n])
            /\ FrameIn(Inbound) \in Frame
            /\ pos + HeaderSize + Inbound[4] = ends[n]
            /\ ends[n] <= got
<1> DEFINE n == Len(decoded) + 1
           w == sent[n]
           b == Inbound
<1>0. /\ b \in Seq(Nat) /\ Len(b) = got - pos
      /\ \A j \in 1..(got - pos) : b[j] = stream[pos + j]
  BY InboundUnits
<1>1. /\ Len(b) >= 5 /\ Len(b) >= 5 + b[4]
      /\ HeaderOk(b[1], b[2], b[4], b[5])
      /\ b[4] > 0 => b[5] = Crc(PayloadIn(b)) /\ b[4] >= MetaSize
  BY DEF GoodFrame, HasFrame, GoodHeader, HasHeader, HeaderSize
<1> HIDE DEF b
<1>2. /\ Len(decoded) \in Nat /\ Len(sent) \in Nat /\ Len(stream) \in Nat
      /\ got \in Nat /\ pos \in Nat /\ pos <= got /\ got <= Len(stream)
      /\ Len(decoded) <= Len(sent) /\ pos = End(ends, Len(decoded))
      /\ End(ends, Len(sent)) = Len(stream)
  BY LenProperties DEF StreamInv, LoopInv
<1>3. n \in 1..Len(sent)
  <2>1. Len(decoded) # Len(sent)
    BY <1>0, <1>1, <1>2
  <2> QED  BY <1>2, <2>1
<1>4. w \in Writes /\ w \in WireFrame /\ w.payload \in Seq(Nat) /\ Len(w.payload) \in Nat
  BY <1>3, ElementOfSeq, WriteType, LenProperties DEF StreamInv, WireFrame
<1>5. /\ ends[n] = pos + 5 + Len(w.payload)
      /\ stream[pos + 1] = w.magic /\ stream[pos + 2] = w.version
      /\ stream[pos + 3] = w.ftype /\ stream[pos + 4] = w.len
      /\ stream[pos + 5] = w.crc
      /\ \A j \in 1..Len(w.payload) : stream[pos + 5 + j] = w.payload[j]
  <2>1. /\ Holds(stream, pos, w) /\ ends[n] = pos + HeaderSize + Len(w.payload)
    <3>1. n - 1 = Len(decoded)
      BY <1>2
    <3> QED  BY <3>1, <1>2, <1>3 DEF StreamInv
  <2> QED  BY <2>1, <1>2 DEF Holds, HeaderSize
<1>6. /\ b[1] = w.magic /\ b[2] = w.version /\ b[3] = w.ftype
      /\ b[4] = w.len /\ b[5] = w.crc
  <2>1. \A j \in 1..5 : j \in 1..(got - pos)
    <3>1. \A g \in Int : g >= 5 => \A j \in 1..5 : j \in 1..g
      OBVIOUS
    <3>2. got - pos \in Int /\ got - pos >= 5
      BY <1>0, <1>1, <1>2
    <3> QED  BY ONLY <3>1, <3>2
  <2>2. /\ b[1] = stream[pos + 1] /\ b[2] = stream[pos + 2] /\ b[3] = stream[pos + 3]
        /\ b[4] = stream[pos + 4] /\ b[5] = stream[pos + 5]
    BY <1>0, <2>1
  <2> QED  BY <1>5, <2>2
<1>7. w.len = Len(w.payload)
  BY <1>1, <1>4, <1>6, WriteType
<1>l. PICK m : m \in Nat /\ m = Len(w.payload) /\ b[4] = m /\ 5 + m <= got - pos
              /\ ends[n] = pos + 5 + m
  BY <1>0, <1>1, <1>4, <1>5, <1>6, <1>7
<1>8. PayloadIn(b) = w.payload
  <2>0. 5 + Len(w.payload) <= Len(b)
    BY <1>1, <1>6, <1>7
  <2>1. ASSUME NEW j \in 1..Len(w.payload) PROVE b[5 + j] = w.payload[j]
    <3>1. 5 + j \in 1..(got - pos) /\ pos + (5 + j) = pos + 5 + j
      <4>1. j \in Nat /\ 1 <= j /\ j <= m
        BY <1>l
      <4>2. got - pos \in Int /\ 5 + m <= got - pos /\ pos \in Int /\ m \in Int
        BY <1>2, <1>l
      <4>3. \A x, y, g \in Int : 1 <= x /\ x <= y /\ 5 + y <= g => 5 + x \in 1..g
        OBVIOUS
      <4>4. 5 + j \in 1..(got - pos)
        BY <4>1, <4>2, <4>3
      <4>5. pos + (5 + j) = pos + 5 + j
        BY <4>1, <4>2
      <4> QED  BY <4>4, <4>5
    <3>2. b[5 + j] = stream[pos + (5 + j)]
      BY <1>0, <3>1
    <3>3. stream[pos + 5 + j] = w.payload[j]
      BY <1>5
    <3> QED  BY <3>1, <3>2, <3>3
  <2>2. SubSeq(b, 5 + 1, 5 + Len(w.payload)) = w.payload
    BY <2>0, <2>1, <1>0, <1>4, SliceEqual
  <2> QED  BY <2>2, <1>6, <1>7 DEF PayloadIn, HeaderSize
<1>9. WellFormed(w)
  BY <1>1, <1>6, <1>8 DEF WellFormed
<1>10. FrameIn(b) = FrameOf(w) /\ FrameIn(b) \in Frame
  BY <1>4, <1>6, <1>8 DEF FrameIn, FrameOf, Frame, WireFrame
<1>11. pos + 5 + b[4] = ends[n] /\ ends[n] <= got
  BY <1>2, <1>l, SMTT(30)
<1>12. n <= Len(sent)
  BY <1>2, <1>3
<1> QED  BY <1>9, <1>10, <1>11, <1>12 DEF b, HeaderSize

-----------------------------------------------------------------------------
(* The invariant *)

LEMMA InitInv == Init => StreamInv /\ LoopInv
<1> SUFFICES ASSUME Init PROVE StreamInv /\ LoopInv
  OBVIOUS
<1> USE DEF Init
<1>1. Len(sent) = 0 /\ Len(ends) = 0 /\ Len(stream) = 0 /\ Len(decoded) = 0
  OBVIOUS
<1>2. StreamInv
  BY <1>1 DEF StreamInv, End
<1>3. LoopInv
  BY <1>1 DEF LoopInv, End
<1> QED  BY <1>2, <1>3

\* A stream goes on holding a frame when units are added behind.
LEMMA StillHolds ==
  ASSUME NEW u \in Seq(Nat), NEW v \in Seq(Nat), NEW s \in Nat, NEW w \in WireFrame,
         Holds(u, s, w)
  PROVE  Holds(u \o v, s, w)
<1>0. Len(u) \in Nat /\ Len(v) \in Nat /\ Len(w.payload) \in Nat
  BY LenProperties DEF WireFrame
<1>1. PICK L \in Nat, m \in Nat :
        L = Len(u) /\ m = Len(w.payload) /\ s + 5 + m <= L
  BY <1>0 DEF Holds, HeaderSize
<1>2. PICK c : c = u \o v
  OBVIOUS
<1>3. Len(c) >= L /\ \A i \in 1..L : c[i] = u[i]
  <2>1. /\ Len(c) = Len(u) + Len(v)
        /\ \A i \in 1..(Len(u) + Len(v)) : c[i] = IF i <= Len(u) THEN u[i] ELSE v[i - Len(u)]
    BY <1>2, ConcatProperties
  <2>2. ASSUME NEW i \in 1..L PROVE i \in 1..(Len(u) + Len(v)) /\ i <= Len(u)
    BY <1>0, <1>1
  <2> QED  BY <1>0, <1>1, <2>1, <2>2
<1>f. s + 5 + m <= L
  BY <1>1
<1>4. \A j \in 1..5 : s + j \in 1..L
  BY <1>f
<1>5. \A j \in 1..5 : c[s + j] = u[s + j]
  BY <1>3, <1>4
<1>6. 1 \in 1..5 /\ 2 \in 1..5 /\ 3 \in 1..5 /\ 4 \in 1..5 /\ 5 \in 1..5
  OBVIOUS
<1>7. /\ c[s + 1] = u[s + 1] /\ c[s + 2] = u[s + 2] /\ c[s + 3] = u[s + 3]
      /\ c[s + 4] = u[s + 4] /\ c[s + 5] = u[s + 5]
  BY <1>5, <1>6, Zenon
<1>8. ASSUME NEW j \in 1..m PROVE c[s + 5 + j] = w.payload[j]
  <2>1. s + 5 + j \in 1..L
    <3>1. j \in 1..m
      OBVIOUS
    <3> QED  BY <1>f, <3>1
  <2>2. c[s + 5 + j] = u[s + 5 + j]
    BY <1>3, <2>1
  <2>3. u[s + 5 + j] = w.payload[j]
    BY <1>1 DEF Holds, HeaderSize
  <2> QED  BY <2>2, <2>3
<1>9. s + 5 + m <= Len(c)
  <2>1. PICK k \in Nat : k = Len(c)
    <3>1. c \in Seq(Nat)
      BY <1>2, ConcatProperties
    <3> QED  BY <3>1, LenProperties
  <2>2. k >= L
    BY <1>3, <2>1
  <2>3. s + 5 + m <= k
    BY <1>f, <2>2
  <2> QED  BY <2>1, <2>3
<1> QED  BY <1>1, <1>2, <1>7, <1>8, <1>9 DEF Holds, HeaderSize

\* The units of a frame, put behind a stream.
LEMMA NowHolds ==
  ASSUME NEW u \in Seq(Nat), NEW w \in WireFrame
  PROVE  /\ u \o Units(w) \in Seq(Nat)
         /\ Len(u \o Units(w)) = Len(u) + HeaderSize + Len(w.payload)
         /\ Holds(u \o Units(w), Len(u), w)
<1>0. Len(u) \in Nat /\ Len(w.payload) \in Nat
  BY LenProperties DEF WireFrame
<1>1. PICK v \in Seq(Nat) :
        /\ v = Units(w) /\ Len(v) = HeaderSize + Len(w.payload)
        /\ v[1] = w.magic /\ v[2] = w.version /\ v[3] = w.ftype
        /\ v[4] = w.len /\ v[5] = w.crc
        /\ \A j \in 1..Len(w.payload) : v[HeaderSize + j] = w.payload[j]
  BY UnitsOf
<1>2. PICK L \in Nat, m \in Nat, k \in Nat :
        L = Len(u) /\ m = Len(w.payload) /\ k = Len(v) /\ k = 5 + m
  BY <1>0, <1>1, SMTT(30) DEF HeaderSize
<1>3. PICK c : c = u \o v
  OBVIOUS
<1>4. /\ c \in Seq(Nat) /\ Len(c) = L + k
      /\ \A i \in 1..(L + k) : c[i] = IF i <= L THEN u[i] ELSE v[i - L]
  <2>1. /\ c \in Seq(Nat) /\ Len(c) = Len(u) + Len(v)
        /\ \A i \in 1..(Len(u) + Len(v)) : c[i] = IF i <= Len(u) THEN u[i] ELSE v[i - Len(u)]
    BY <1>3, ConcatProperties
  <2> QED  BY <1>2, <2>1
<1>5. ASSUME NEW i \in 1..k PROVE c[L + i] = v[i]
  <2>1. L + i \in 1..(L + k) /\ ~(L + i <= L) /\ (L + i) - L = i
    BY <1>2
  <2> QED  BY <1>4, <2>1
<1>6. /\ c[L + 1] = v[1] /\ c[L + 2] = v[2] /\ c[L + 3] = v[3]
      /\ c[L + 4] = v[4] /\ c[L + 5] = v[5]
  <2>1. 1 \in 1..k /\ 2 \in 1..k /\ 3 \in 1..k /\ 4 \in 1..k /\ 5 \in 1..k
    BY <1>2
  <2> QED  BY <1>5, <2>1
<1>7. ASSUME NEW j \in 1..m PROVE c[L + 5 + j] = w.payload[j]
  <2>1. 5 + j \in 1..k /\ L + 5 + j = L + (5 + j)
    BY <1>2
  <2>2. c[L + (5 + j)] = v[5 + j]
    BY <1>5, <2>1
  <2>3. v[5 + j] = w.payload[j]
    BY <1>1, <1>2 DEF HeaderSize
  <2> QED  BY <2>1, <2>2, <2>3
<1>8. Len(c) = L + 5 + m
  <2>1. k = 5 + m
    BY <1>2
  <2>2. L + k = L + 5 + m
    BY <2>1
  <2> QED  BY <1>4, <2>2
<1>9. Holds(c, L, w)
  BY <1>1, <1>2, <1>6, <1>7, <1>8 DEF Holds, HeaderSize
<1> QED  BY <1>1, <1>2, <1>3, <1>4, <1>8, <1>9 DEF HeaderSize

\* Writing a frame leaves what the stream holds and adds the units of the frame.
LEMMA WriteStep ==
  ASSUME StreamInv, NEW w \in Writes, Write(w)
  PROVE  /\ StreamInv'
         /\ Len(sent') = Len(sent) + 1
         /\ Len(stream') >= Len(stream)
         /\ \A i \in 0..Len(sent) : End(ends', i) = End(ends, i)
<1>1. /\ sent' = Append(sent, w) /\ stream' = stream \o Units(w)
      /\ ends' = Append(ends, Len(stream'))
  BY DEF Write
<1>2. w \in WireFrame /\ Len(w.payload) \in Nat
  BY WriteType, LenProperties DEF WireFrame
<1>3. /\ sent \in Seq(Writes) /\ ends \in Seq(Nat) /\ stream \in Seq(Nat)
      /\ Len(ends) = Len(sent) /\ Len(sent) \in Nat /\ Len(stream) \in Nat
      /\ End(ends, Len(sent)) = Len(stream)
  BY LenProperties DEF StreamInv
<1>4. PICK n \in Nat, L \in Nat, m \in Nat :
        n = Len(sent) /\ L = Len(stream) /\ m = Len(w.payload)
  BY <1>2, <1>3
<1>5. /\ stream' \in Seq(Nat) /\ Len(stream') = L + 5 + m /\ Holds(stream', L, w)
  BY <1>1, <1>2, <1>3, <1>4, NowHolds DEF HeaderSize
<1>6. /\ sent' \in Seq(Writes) /\ Len(sent') = n + 1
      /\ sent'[n + 1] = w /\ \A i \in 1..n : sent'[i] = sent[i]
  BY <1>1, <1>3, <1>4, AppendProperties
<1>7. /\ ends' \in Seq(Nat) /\ Len(ends') = n + 1
      /\ ends'[n + 1] = L + 5 + m /\ \A i \in 1..n : ends'[i] = ends[i]
  <2>1. L + 5 + m \in Nat
    OBVIOUS
  <2>2. ends' = Append(ends, L + 5 + m)
    BY <1>1, <1>5
  <2>3. ends \in Seq(Nat) /\ Len(ends) = n
    BY <1>3, <1>4
  <2> QED  BY <2>1, <2>2, <2>3, AppendProperties
<1>8. ASSUME NEW i \in 0..n PROVE End(ends', i) = End(ends, i)
  <2>1. i = 0 \/ i \in 1..n
    BY <1>4
  <2> QED  BY <2>1, <1>7 DEF End
<1>9. End(ends', n + 1) = Len(stream') /\ End(ends', n) = L
  <2>1. n \in 0..n /\ n + 1 # 0
    BY <1>4
  <2> QED  BY <2>1, <1>3, <1>4, <1>5, <1>7, <1>8 DEF End
<1>10. ASSUME NEW i \in 1..n
       PROVE  /\ ends'[i] = End(ends', i - 1) + HeaderSize + Len(sent'[i].payload)
              /\ Holds(stream', End(ends', i - 1), sent'[i])
  <2>1. /\ ends[i] = End(ends, i - 1) + HeaderSize + Len(sent[i].payload)
        /\ Holds(stream, End(ends, i - 1), sent[i])
    BY <1>4 DEF StreamInv
  <2>2. sent'[i] = sent[i] /\ ends'[i] = ends[i]
    BY <1>6, <1>7
  <2>3. i - 1 \in 0..n /\ End(ends, i - 1) \in Nat
    <3>1. i - 1 \in 0..n /\ (i - 1 = 0 \/ i - 1 \in 1..Len(ends))
      BY <1>3, <1>4
    <3> QED  BY <3>1, <1>3, ElementOfSeq DEF End
  <2>4. End(ends', i - 1) = End(ends, i - 1)
    BY <1>8, <2>3
  <2>5. sent[i] \in WireFrame
    <3>1. sent[i] \in Writes
      BY <1>3, <1>4, ElementOfSeq
    <3> QED  BY <3>1, WriteType
  <2>6. Holds(stream', End(ends, i - 1), sent[i])
    <3>1. Units(w) \in Seq(Nat)
      BY <1>2, UnitsOf
    <3> QED  BY <1>1, <1>3, <2>1, <2>3, <2>5, <3>1, StillHolds
  <2> QED  BY <2>1, <2>2, <2>4, <2>6
<1>11. \A i \in 1..Len(sent') :
         /\ ends'[i] = End(ends', i - 1) + HeaderSize + Len(sent'[i].payload)
         /\ Holds(stream', End(ends', i - 1), sent'[i])
  <2> SUFFICES ASSUME NEW i \in 1..(n + 1)
               PROVE  /\ ends'[i] = End(ends', i - 1) + HeaderSize + Len(sent'[i].payload)
                      /\ Holds(stream', End(ends', i - 1), sent'[i])
    BY <1>6
  <2>1. i \in 1..n \/ i = n + 1
    BY <1>4
  <2>2. CASE i = n + 1
    <3>1. i - 1 = n
      BY <2>2, <1>4
    <3>2. ends'[i] = End(ends', i - 1) + HeaderSize + Len(sent'[i].payload)
      BY <2>2, <3>1, <1>4, <1>6, <1>7, <1>9 DEF HeaderSize
    <3>3. Holds(stream', End(ends', i - 1), sent'[i])
      BY <2>2, <3>1, <1>5, <1>6, <1>9
    <3> QED  BY <3>2, <3>3
  <2> QED  BY <2>1, <2>2, <1>10
<1>12. StreamInv'
  BY <1>5, <1>6, <1>7, <1>9, <1>11 DEF StreamInv
<1>13. Len(stream') >= Len(stream)
  <2>1. L + 5 + m >= L
    OBVIOUS
  <2> QED  BY <1>4, <1>5, <2>1
<1> QED  BY <1>4, <1>6, <1>8, <1>12, <1>13

\* Whatever the event loop does but decoding leaves the frames and the stream.
OtherStep ==
  \/ \E n \in 1..Len(stream) : OnTraffic(n)
  \/ Closes \/ WakeRuns \/ DecodeFails \/ DecodeEnds
  \/ HandleUnauthed \/ HandlePings \/ HandleOthers \/ WakeIfFull
  \/ Authed \/ TimesOut

LEMMA OtherSteps ==
  ASSUME StreamInv, LoopInv, OtherStep
  PROVE  /\ UNCHANGED <<sent, ends, stream, pos, decoded>>
         /\ got' \in Nat /\ got' >= got /\ got' <= Len(stream)
         /\ up' = up \/ up' = FALSE
         /\ pc' # "idle" => up' = up /\ (pc = "idle" => up)
<1> USE DEF Return, ReturnNone, ReturnClose
<1>0. Len(stream) \in Nat /\ got \in Nat /\ got <= Len(stream)
  BY LenProperties DEF StreamInv, LoopInv
<1>1. UNCHANGED <<sent, ends, stream, pos, decoded>>
  <2> USE DEF wireVars, loopVars, workVars
  <2>1. CASE (\E n \in 1..Len(stream) : OnTraffic(n)) \/ Closes \/ WakeRuns
               \/ Authed \/ TimesOut
    BY <2>1 DEF OnTraffic, Closes, WakeRuns, Authed, TimesOut, AuthExpires,
                PingExpires, AuthExpiredDel
  <2>2. CASE DecodeFails \/ DecodeEnds \/ WakeIfFull
    BY <2>2 DEF DecodeFails, DecodeEnds, WakeIfFull
  <2>3. CASE HandleUnauthed \/ HandlePings \/ HandleOthers
    BY <2>3 DEF HandleUnauthed, HandlePings, HandleOthers
  <2> QED  BY <2>1, <2>2, <2>3 DEF OtherStep
<1>2. got' \in Nat /\ got' >= got /\ got' <= Len(stream)
  <2>1. ASSUME NEW n \in 1..Len(stream), OnTraffic(n)
        PROVE  got' \in Nat /\ got' >= got /\ got' <= Len(stream)
    BY <1>0, <2>1 DEF OnTraffic
  <2>2. CASE Closes \/ WakeRuns \/ DecodeFails \/ DecodeEnds \/ WakeIfFull
               \/ HandleUnauthed \/ HandlePings \/ HandleOthers \/ Authed \/ TimesOut
    <3>1. got' = got
      BY <2>2 DEF Closes, WakeRuns, DecodeFails, DecodeEnds, WakeIfFull,
           HandleUnauthed, HandlePings, HandleOthers, Authed, TimesOut,
           AuthExpires, PingExpires, AuthExpiredDel, loopVars
    <3> QED  BY <1>0, <3>1
  <2> QED  BY <2>1, <2>2 DEF OtherStep
<1>3. /\ up' = up \/ up' = FALSE
      /\ pc' # "idle" => up' = up /\ (pc = "idle" => up)
  <2>1. CASE (\E n \in 1..Len(stream) : OnTraffic(n)) \/ WakeRuns
    BY <2>1 DEF OnTraffic, WakeRuns
  <2>2. CASE Closes
    BY <2>2 DEF Closes, loopVars
  <2>3. CASE Authed \/ TimesOut
    <3>1. UNCHANGED <<up, pc>>
      BY <2>3 DEF Authed, TimesOut, AuthExpires, PingExpires, AuthExpiredDel,
                  loopVars
    <3> QED  BY <3>1 DEF LoopInv
  <2>4. CASE DecodeFails
    BY <2>4 DEF DecodeFails
  <2>5. CASE DecodeEnds
    BY <2>5 DEF DecodeEnds
  <2>6. CASE WakeIfFull
    BY <2>6 DEF WakeIfFull
  <2>7. CASE HandleUnauthed
    BY <2>7 DEF HandleUnauthed, Submit
  <2>8. CASE HandlePings
    BY <2>8 DEF HandlePings
  <2>9. CASE HandleOthers
    BY <2>9 DEF HandleOthers, Submit
  <2> QED  BY <2>1, <2>2, <2>3, <2>4, <2>5, <2>6, <2>7, <2>8, <2>9 DEF OtherStep
<1> QED  BY <1>1, <1>2, <1>3

LEMMA StepCases ==
  ASSUME Next
  PROVE  (\E w \in Writes : Write(w)) \/ DecodeFrame \/ OtherStep
BY DEF Next, LoopStep, OtherStep

LEMMA Decoding ==
  ASSUME StreamInv, LoopInv, DecodeFrame
  PROVE  /\ LoopInv' /\ up /\ UNCHANGED <<sent, up>>
         /\ Len(decoded) + 1 <= Len(sent)
         /\ WellFormed(sent[Len(decoded) + 1])
         /\ decoded' = Append(decoded, FrameOf(sent[Len(decoded) + 1]))
<1> DEFINE n == Len(decoded) + 1
<1>1. /\ GoodFrame(Inbound) /\ pc = "decode"
      /\ decoded' = Append(decoded, FrameIn(Inbound))
      /\ pos' = pos + HeaderSize + Inbound[4]
      /\ UNCHANGED <<sent, ends, stream, got, up, pc>>
  BY DEF DecodeFrame, wireVars
<1>2. /\ n <= Len(sent) /\ WellFormed(sent[n])
      /\ FrameIn(Inbound) = FrameOf(sent[n])
      /\ FrameIn(Inbound) \in Frame
      /\ pos' = ends[n] /\ ends[n] <= got
  BY <1>1, DecodeReads
<1>3. /\ decoded \in Seq(Frame) /\ Len(decoded) \in Nat /\ Len(sent) \in Nat
      /\ got \in Nat /\ got <= Len(stream) /\ up
      /\ ends \in Seq(Nat) /\ Len(ends) = Len(sent)
  BY <1>1, LenProperties DEF LoopInv, StreamInv
<1>4. decoded' \in Seq(Frame) /\ Len(decoded') = n
  BY <1>1, <1>2, <1>3, AppendProperties
<1>5. pos' \in Nat /\ pos' = End(ends, n)
  <2>1. n \in 1..Len(ends) /\ n # 0
    BY <1>2, <1>3
  <2>2. ends[n] \in Nat
    BY <1>3, <2>1, ElementOfSeq
  <2> QED  BY <1>2, <2>1, <2>2 DEF End
<1>6. LoopInv'
  BY <1>1, <1>2, <1>3, <1>4, <1>5 DEF LoopInv
<1> QED  BY <1>1, <1>2, <1>3, <1>6

LEMMA StepInv == IndInv /\ [Next]_vars => IndInv'
<1> SUFFICES ASSUME StreamInv, LoopInv, [Next]_vars PROVE StreamInv' /\ LoopInv'
  BY DEF IndInv
<1>0. Len(decoded) \in Nat /\ Len(sent) \in Nat /\ Len(stream) \in Nat
  BY LenProperties DEF StreamInv, LoopInv
<1>1. ASSUME NEW w \in Writes, Write(w) PROVE StreamInv' /\ LoopInv'
  <2>1. /\ StreamInv' /\ Len(sent') = Len(sent) + 1
        /\ Len(stream') >= Len(stream)
        /\ \A i \in 0..Len(sent) : End(ends', i) = End(ends, i)
    BY <1>1, WriteStep
  <2>2. UNCHANGED <<got, pos, decoded, pc, up>>
    BY <1>1 DEF Write, loopVars
  <2>3. Len(decoded) \in 0..Len(sent)
    BY <1>0 DEF LoopInv
  <2>4. End(ends', Len(decoded')) = End(ends, Len(decoded))
    BY <2>1, <2>2, <2>3
  <2>5. Len(stream') \in Nat
    BY <2>1, LenProperties DEF StreamInv
  <2> QED  BY <1>0, <2>1, <2>2, <2>4, <2>5 DEF LoopInv
<1>2. CASE DecodeFrame
  <2>1. UNCHANGED <<sent, ends, stream>>
    BY <1>2 DEF DecodeFrame, wireVars
  <2>2. StreamInv'
    BY <2>1 DEF StreamInv
  <2> QED  BY <1>2, <2>2, Decoding
<1>3. CASE OtherStep
  <2>1. /\ UNCHANGED <<sent, ends, stream, pos, decoded>>
        /\ got' \in Nat /\ got' >= got /\ got' <= Len(stream)
        /\ up' \in BOOLEAN /\ (pc' # "idle" => up')
    <3>1. /\ UNCHANGED <<sent, ends, stream, pos, decoded>>
          /\ got' \in Nat /\ got' >= got /\ got' <= Len(stream)
          /\ up' = up \/ up' = FALSE
          /\ pc' # "idle" => up' = up /\ (pc = "idle" => up)
      BY <1>3, OtherSteps
    <3>2. up \in BOOLEAN /\ (pc # "idle" => up)
      BY DEF LoopInv
    <3>3. up' \in BOOLEAN /\ (pc' # "idle" => up')
      BY <3>1, <3>2, Zenon
    <3> QED  BY <3>1, <3>3
  <2>2. StreamInv'
    BY <2>1 DEF StreamInv
  <2>3. LoopInv'
    BY <2>1 DEF LoopInv
  <2> QED  BY <2>2, <2>3
<1>4. CASE UNCHANGED vars
  BY <1>4 DEF vars, wireVars, loopVars, StreamInv, LoopInv
<1> QED  BY <1>1, <1>2, <1>3, <1>4, StepCases

\* The invariant holds throughout.
THEOREM Inductive == Spec => []IndInv
<1>1. Init => IndInv
  BY InitInv DEF IndInv
<1> QED  BY <1>1, StepInv, PTL DEF Spec

-----------------------------------------------------------------------------
(* Refinement *)

\* Every step of the server is a step of the channel or none: whatever the client
\* writes and however its bytes arrive, what Decode returns is what was written,
\* in order and without repetition, up to the first malformed frame.
THEOREM Refinement == Spec => ImplementsChannel
<1>1. Init => Channel!Init
  BY DEF Init, Channel!Init
<1>2. IndInv /\ [Next]_vars => [Channel!Next]_(Channel!vars)
  <2> SUFFICES ASSUME StreamInv, LoopInv, [Next]_vars
               PROVE  [Channel!Next]_(Channel!vars)
    BY DEF IndInv
  <2>1. ASSUME NEW w \in Writes, Write(w) PROVE Channel!Write
    BY <2>1 DEF Write, Channel!Write, loopVars
  <2>2. CASE DecodeFrame
    BY <2>2, Decoding DEF Channel!Receive, Channel!Next
  <2>3. CASE OtherStep
    <3>1. UNCHANGED <<sent, decoded>> /\ (up' = up \/ up' = FALSE)
      BY <2>3, OtherSteps
    <3> QED  BY <3>1 DEF Channel!Close, Channel!Next, Channel!vars
  <2>4. CASE UNCHANGED vars
    BY <2>4 DEF vars, wireVars, loopVars, Channel!vars
  <2> QED  BY <2>1, <2>2, <2>3, <2>4, StepCases DEF Channel!Next
<1> QED  BY Inductive, <1>1, <1>2, PTL DEF Spec, ImplementsChannel, Channel!Spec

-----------------------------------------------------------------------------
(* GroupByIt *)

\* The loop of GroupByIt after n of the frames fs, from what it has after one less.
Grouping(fs, k, g, n) ==
  IF n = 0 THEN <<>>
  ELSE IF GroupOf(fs[n]) = k THEN Append(g[n - 1], fs[n]) ELSE g[n - 1]

Groups(fs, k, g) == g = [n \in 0..Len(fs) |-> Grouping(fs, k, g, n)]

\* Two runs of the loop agree as long as the frames do.
Agree(s, t, m) ==
  /\ Len(s) \in Nat /\ m <= Len(s) /\ Len(t) \in Nat /\ m <= Len(t)
  /\ \A i \in 1..m : s[i] = t[i]

LEMMA SameGroups ==
  ASSUME NEW s, NEW t, NEW k, NEW g, NEW h, Groups(s, k, g), Groups(t, k, h),
         NEW m \in Nat, Agree(s, t, m), NEW d \in 0..m
  PROVE  g[d] = h[d]
<1> USE DEF Agree
<1> DEFINE I == {n \in 0..m : g[n] # h[n]}
<1> SUFFICES ASSUME I # {} PROVE FALSE
  OBVIOUS
<1>1. PICK n \in I : \A i \in I : n <= i
  <2>1. I \in SUBSET Nat
    OBVIOUS
  <2> QED  BY <2>1, MinOfNats
<1>2. /\ n \in 0..Len(s) /\ n \in 0..Len(t) /\ n \in Nat
  OBVIOUS
<1>3. g[n] = Grouping(s, k, g, n) /\ h[n] = Grouping(t, k, h, n)
  BY <1>2 DEF Groups
<1>4. n # 0
  BY <1>3 DEF Grouping
<1>5. n - 1 \in 0..m /\ n \in 1..m /\ n - 1 \notin I
  BY <1>1, <1>4
<1>6. g[n - 1] = h[n - 1] /\ s[n] = t[n]
  BY <1>5
<1> QED  BY <1>3, <1>6 DEF Grouping

\* The loop over fs has an outcome, in which each group is a sequence of frames.
LEMMA GroupsExist ==
  ASSUME NEW S, NEW fs \in Seq(S), NEW k
  PROVE  \E g \in [0..Len(fs) -> Seq(S)] : Groups(fs, k, g)
<1> DEFINE Upto(m, g) == /\ g \in [0..m -> Seq(S)]
                         /\ \A n \in 0..m : g[n] = Grouping(fs, k, g, n)
           I == {m \in 0..Len(fs) : ~ \E g : Upto(m, g)}
<1>0. Len(fs) \in Nat
  BY LenProperties
<1>1. I = {}
  <2> SUFFICES ASSUME I # {} PROVE FALSE
    OBVIOUS
  <2>1. PICK m \in I : \A i \in I : m <= i
    <3>1. I \in SUBSET Nat
      OBVIOUS
    <3> QED  BY <3>1, MinOfNats
  <2>2. m # 0
    <3>1. Upto(0, [n \in 0..0 |-> <<>>])
      BY DEF Grouping
    <3> QED  BY <3>1, <2>1
  <2>3. m - 1 \in 0..Len(fs) /\ m \in 1..Len(fs) /\ m \in Nat /\ ~ (m <= m - 1)
    <3>1. m \in 0..Len(fs)
      OBVIOUS
    <3> QED  BY <3>1, <2>2, <1>0
  <2>4. PICK g : Upto(m - 1, g)
    <3>1. m - 1 \notin I
      BY <2>1, <2>3, Zenon
    <3> QED  BY <3>1, <2>3, Zenon
  <2> DEFINE h == [n \in 0..m |-> IF n = m THEN Grouping(fs, k, g, m) ELSE g[n]]
  <2>5. ASSUME NEW n \in 0..m PROVE h[n] = Grouping(fs, k, h, n) /\ h[n] \in Seq(S)
    <3>1. fs[m] \in S
      BY <2>3, ElementOfSeq
    <3>2. g[m - 1] \in Seq(S) /\ h[m - 1] = g[m - 1]
      BY <2>3, <2>4
    <3>3. CASE n = m
      <4>1. Append(g[m - 1], fs[m]) \in Seq(S)
        BY <3>1, <3>2, AppendProperties
      <4> QED  BY <2>2, <3>2, <3>3, <4>1 DEF Grouping
    <3>4. CASE n # m
      <4>1. n \in 0..(m - 1) /\ h[n] = g[n] /\ (n # 0 => n - 1 \in 0..m /\ n - 1 # m)
        BY <2>3, <3>4
      <4>2. n # 0 => h[n - 1] = g[n - 1]
        BY <4>1
      <4> QED  BY <2>4, <4>1, <4>2 DEF Grouping
    <3> QED  BY <3>3, <3>4
  <2>6. Upto(m, h)
    BY <2>5
  <2> QED  BY <2>1, <2>6
<1>2. PICK g : Upto(Len(fs), g)
  <2>1. Len(fs) \in 0..Len(fs)
    BY <1>0
  <2> QED  BY <1>1, <2>1, Zenon
<1>3. g = [n \in 0..Len(fs) |-> Grouping(fs, k, g, n)]
  BY <1>2
<1> QED  BY <1>2, <1>3 DEF Groups

\* GroupByIt returns what the loop has at its end.
LEMMA GroupByItIs ==
  ASSUME NEW S, NEW fs \in Seq(S), NEW k
  PROVE  \E g \in [0..Len(fs) -> Seq(S)] :
           Groups(fs, k, g) /\ GroupByIt(fs, k) = g[Len(fs)]
<1> DEFINE c == CHOOSE g : Groups(fs, k, g)
<1>0. Len(fs) \in 0..Len(fs)
  BY LenProperties
<1>1. PICK g \in [0..Len(fs) -> Seq(S)] : Groups(fs, k, g)
  BY GroupsExist
<1>2. Groups(fs, k, c)
  BY <1>1
<1>3. GroupByIt(fs, k) = c[Len(fs)]
  BY DEF GroupByIt, Groups, Grouping
<1>4. \A n \in 0..Len(fs) : c[n] = g[n]
  BY <1>1, <1>2, SameGroups, LenProperties DEF Agree
<1> QED  BY <1>0, <1>1, <1>3, <1>4

LEMMA GroupType ==
  ASSUME NEW S, NEW s \in Seq(S), NEW k
  PROVE  GroupByIt(s, k) \in Seq(S)
<1>1. Len(s) \in 0..Len(s)
  BY LenProperties
<1> QED  BY <1>1, GroupByItIs

LEMMA GroupOfNone == ASSUME NEW k PROVE GroupByIt(<<>>, k) = <<>>
<1>1. PICK s : s = <<>>
  OBVIOUS
<1>2. s \in Seq({}) /\ Len(s) = 0
  BY <1>1
<1>3. PICK g \in [0..Len(s) -> Seq({})] : Groups(s, k, g) /\ GroupByIt(s, k) = g[Len(s)]
  BY <1>2, GroupByItIs
<1>4. g[0] = <<>>
  BY <1>2, <1>3 DEF Groups, Grouping
<1> QED  BY <1>1, <1>2, <1>3, <1>4

\* One frame more is the last of its group.
LEMMA GroupOfMore ==
  ASSUME NEW S, NEW s \in Seq(S), NEW e \in S, NEW k
  PROVE  GroupByIt(Append(s, e), k) =
           IF GroupOf(e) = k THEN Append(GroupByIt(s, k), e) ELSE GroupByIt(s, k)
<1>0. PICK n \in Nat : n = Len(s)
  BY LenProperties
<1>t. PICK t : t = Append(s, e)
  OBVIOUS
<1>1. /\ t \in Seq(S) /\ Len(t) = n + 1
      /\ t[n + 1] = e /\ \A i \in 1..n : t[i] = s[i]
  BY <1>0, <1>t, AppendProperties
<1>2. PICK g \in [0..Len(s) -> Seq(S)] : Groups(s, k, g) /\ GroupByIt(s, k) = g[n]
  BY <1>0, GroupByItIs
<1>3. PICK h \in [0..Len(t) -> Seq(S)] : Groups(t, k, h) /\ GroupByIt(t, k) = h[n + 1]
  <2>1. t \in Seq(S)
    BY <1>1
  <2>2. \E h \in [0..Len(t) -> Seq(S)] : Groups(t, k, h) /\ GroupByIt(t, k) = h[Len(t)]
    BY <2>1, GroupByItIs
  <2> QED  BY <2>2, <1>1
<1>4. g[n] = h[n]
  <2>1. Agree(s, t, n) /\ n \in 0..n
    BY <1>0, <1>1 DEF Agree
  <2> QED  BY <1>0, <1>2, <1>3, <2>1, SameGroups
<1>5. h[n + 1] = Grouping(t, k, h, n + 1)
  <2>1. n + 1 \in 0..Len(t)
    BY <1>1
  <2> QED  BY <1>3, <2>1 DEF Groups
<1>6. n + 1 # 0 /\ (n + 1) - 1 = n
  OBVIOUS
<1> QED  BY <1>t, <1>1, <1>2, <1>3, <1>4, <1>5, <1>6 DEF Grouping

\* The groups of the first frames are the first of the groups.
LEMMA GroupOfFirst ==
  ASSUME NEW S, NEW s \in Seq(S), NEW t \in Seq(S), NEW k, IsPrefix(s, t)
  PROVE  IsPrefix(GroupByIt(s, k), GroupByIt(t, k))
<1>0. PICK a \in Nat, b \in Nat : a = Len(s) /\ b = Len(t) /\ a <= b
  BY LenProperties DEF IsPrefix
<1>1. \A i \in 1..a : s[i] = t[i]
  BY <1>0, PrefixMeans
<1>2. PICK g \in [0..a -> Seq(S)] : Groups(s, k, g) /\ GroupByIt(s, k) = g[a]
  BY <1>0, GroupByItIs
<1>3. PICK h \in [0..b -> Seq(S)] : Groups(t, k, h) /\ GroupByIt(t, k) = h[b]
  BY <1>0, GroupByItIs
<1>4. g[a] = h[a]
  <2>1. Agree(s, t, a) /\ a \in 0..a
    BY <1>0, <1>1 DEF Agree
  <2> QED  BY <1>0, <1>2, <1>3, <2>1, SameGroups
<1> DEFINE I == {n \in a..b : ~ IsPrefix(h[a], h[n])}
<1>5. I = {}
  <2> SUFFICES ASSUME I # {} PROVE FALSE
    OBVIOUS
  <2>1. PICK n \in I : \A i \in I : n <= i
    <3>1. I \in SUBSET Nat
      BY <1>0
    <3> QED  BY <3>1, MinOfNats
  <2>2. n \in a..b /\ ~ IsPrefix(h[a], h[n])
    OBVIOUS
  <2>3. h[a] \in Seq(S) /\ h[n] \in Seq(S)
    <3>1. a \in 0..b /\ n \in 0..b
      BY <1>0, <2>2
    <3> QED  BY <1>3, <3>1
  <2>4. n # a
    <3>1. IsPrefix(h[a], h[a])
      BY <2>3, PrefixMeans, LenProperties
    <3> QED  BY <2>2, <3>1
  <2>5. /\ n - 1 \in a..b /\ n - 1 \in 0..b /\ n \in 1..b /\ n \in 0..b /\ n # 0
        /\ ~ (n <= n - 1)
    BY <1>0, <2>2, <2>4
  <2>6. IsPrefix(h[a], h[n - 1])
    BY <2>1, <2>5, Zenon
  <2>7. h[n - 1] \in Seq(S) /\ t[n] \in S
    BY <1>0, <1>3, <2>5, ElementOfSeq
  <2>8. h[n] = Grouping(t, k, h, n)
    BY <1>0, <1>3, <2>5 DEF Groups
  <2>9. h[n] = h[n - 1] \/ h[n] = Append(h[n - 1], t[n])
    BY <2>5, <2>8 DEF Grouping
  <2>10. IsPrefix(h[n - 1], h[n])
    BY <2>3, <2>7, <2>9, PrefixOfAppend
  <2> QED  BY <2>2, <2>3, <2>6, <2>7, <2>10, PrefixTransitive
<1>6. IsPrefix(h[a], h[b])
  <2>1. b \in a..b
    BY <1>0
  <2> QED  BY <1>5, <2>1, Zenon
<1> QED  BY <1>2, <1>3, <1>4, <1>6

-----------------------------------------------------------------------------
(* What is handled *)

\* A frame that Decode may return has a payload protocol and a request id, or no
\* payload at all.
Readable == {f \in Frame : f.payload = <<>> \/ Len(f.payload) >= MetaSize}
Answers(S) == {PongFor(f) : f \in S}

\* Each answer is the pong to one ping, in the order of the pings.
LEMMA PongsType ==
  ASSUME NEW S, NEW fs \in Seq(S)
  PROVE  /\ PongsFor(fs) \in Seq(Answers(S))
         /\ Len(PongsFor(fs)) = Len(PingFrames(fs))
         /\ \A i \in 1..Len(PingFrames(fs)) : PongsFor(fs)[i] = PongFor(PingFrames(fs)[i])
<1>1. PICK p \in Seq(S) : p = PingFrames(fs)
  BY GroupType DEF PingFrames
<1>2. PICK n \in Nat : n = Len(p) /\ DOMAIN p = 1..n
  BY LenProperties
<1>3. PongsFor(fs) = [i \in 1..n |-> PongFor(p[i])]
  BY <1>1, <1>2 DEF PongsFor
<1>4. \A i \in 1..n : PongFor(p[i]) \in Answers(S)
  BY <1>2, ElementOfSeq DEF Answers
<1>5. PICK a : a = [i \in 1..n |-> PongFor(p[i])]
  OBVIOUS
<1>6. a \in [1..n -> Answers(S)] /\ \A i \in 1..n : a[i] = PongFor(p[i])
  BY <1>4, <1>5
<1>7. a \in Seq(Answers(S)) /\ Len(a) = n
  BY <1>6, IsASeq, LenProperties
<1> QED  BY <1>1, <1>2, <1>3, <1>5, <1>6, <1>7

LEMMA PongsOfMore ==
  ASSUME NEW S, NEW fs \in Seq(S), NEW f \in S
  PROVE  PongsFor(Append(fs, f)) =
           IF GroupOf(f) = PingGroup THEN Append(PongsFor(fs), PongFor(f)) ELSE PongsFor(fs)
<1>1. PICK gs : gs = Append(fs, f) /\ gs \in Seq(S)
  BY AppendProperties
<1>2. PingFrames(gs) = IF GroupOf(f) = PingGroup THEN Append(PingFrames(fs), f)
                                                 ELSE PingFrames(fs)
  BY <1>1, GroupOfMore DEF PingFrames
<1>3. CASE GroupOf(f) # PingGroup
  BY <1>1, <1>2, <1>3 DEF PongsFor
<1>4. CASE GroupOf(f) = PingGroup
  <2>1. PICK p \in Seq(S), n \in Nat : p = PingFrames(fs) /\ n = Len(p)
    BY GroupType, LenProperties DEF PingFrames
  <2>2. PICK q : q = PingFrames(gs) /\ q = Append(p, f)
    BY <1>2, <1>4, <2>1
  <2>3. Len(q) = n + 1 /\ q[n + 1] = f /\ \A i \in 1..n : q[i] = p[i]
    BY <2>1, <2>2, AppendProperties
  <2>4. PICK a, b : a = PongsFor(fs) /\ b = PongsFor(gs)
    OBVIOUS
  <2>5. a \in Seq(Answers(S)) /\ Len(a) = n /\ \A i \in 1..n : a[i] = PongFor(p[i])
    BY <2>1, <2>4, PongsType
  <2>6. b \in Seq(Answers(S)) /\ Len(b) = n + 1 /\ \A i \in 1..(n + 1) : b[i] = PongFor(q[i])
    BY <1>1, <2>2, <2>3, <2>4, PongsType
  <2>7. PongFor(f) \in Answers(S)
    BY DEF Answers
  <2>8. PICK c : c = Append(a, PongFor(f))
    OBVIOUS
  <2>9. /\ c \in Seq(Answers(S)) /\ Len(c) = n + 1
        /\ c[n + 1] = PongFor(f) /\ \A i \in 1..n : c[i] = a[i]
    BY <2>5, <2>7, <2>8, AppendProperties
  <2>10. ASSUME NEW i \in 1..(n + 1) PROVE b[i] = c[i]
    <3>1. i \in 1..n \/ i = n + 1
      OBVIOUS
    <3> QED  BY <3>1, <2>3, <2>5, <2>6, <2>9
  <2>11. b = c
    BY <2>6, <2>9, <2>10, SeqEqual
  <2> QED  BY <1>1, <1>4, <2>4, <2>8, <2>11
<1> QED  BY <1>3, <1>4

LEMMA PongsOfFirst ==
  ASSUME NEW S, NEW fs \in Seq(S), NEW gs \in Seq(S), IsPrefix(fs, gs)
  PROVE  IsPrefix(PongsFor(fs), PongsFor(gs))
<1>1. PICK p \in Seq(S), q \in Seq(S) : p = PingFrames(fs) /\ q = PingFrames(gs)
  BY GroupType DEF PingFrames
<1>2. IsPrefix(p, q)
  BY <1>1, GroupOfFirst DEF PingFrames
<1>3. PICK n \in Nat, m \in Nat : n = Len(p) /\ m = Len(q)
  BY LenProperties
<1>4. n <= m /\ \A i \in 1..n : p[i] = q[i]
  BY <1>2, <1>3, PrefixMeans
<1>5. PICK a, b : a = PongsFor(fs) /\ b = PongsFor(gs)
  OBVIOUS
<1>6. a \in Seq(Answers(S)) /\ Len(a) = n /\ \A i \in 1..n : a[i] = PongFor(p[i])
  BY <1>1, <1>3, <1>5, PongsType
<1>7. b \in Seq(Answers(S)) /\ Len(b) = m /\ \A i \in 1..m : b[i] = PongFor(q[i])
  BY <1>1, <1>3, <1>5, PongsType
<1>8. \A i \in 1..n : a[i] = b[i]
  BY <1>4, <1>6, <1>7
<1> QED  BY <1>4, <1>5, <1>6, <1>7, <1>8, PrefixMeans

\* What of the batch under way is still to be handed to the pool, and answered.
ToHand == IF pc = "wake" THEN <<>> ELSE OtherFrames(frs)
ToAnswer == IF pc \in {"wake", "others"} THEN <<>> ELSE PongsFor(frs)

WorkType ==
  /\ decoded \in Seq(Readable) /\ frs \in Seq(Readable) /\ handed \in Seq(Readable)
  /\ pongs \in Seq(Answers(Readable))
  /\ pc = "idle" => frs = <<>>

\* Decode has returned the first of what was written; of that, what has been handed
\* over and answered is the first, and on an open connection all but what is still to be.
HandInv ==
  /\ IsPrefix(decoded, Written)
  /\ IsPrefix(handed, OtherFrames(decoded))
  /\ IsPrefix(pongs, PongsFor(decoded))
  /\ up => /\ OtherFrames(decoded) = handed \o ToHand
           /\ PongsFor(decoded) = pongs \o ToAnswer

WorkInv == WorkType /\ HandInv

LEMMA GroupsOfNone == OtherFrames(<<>>) = <<>> /\ PongsFor(<<>>) = <<>>
<1>1. OtherFrames(<<>>) = <<>> /\ PingFrames(<<>>) = <<>>
  BY GroupOfNone DEF OtherFrames, PingFrames
<1>2. <<>> \in Seq(Readable)
  OBVIOUS
<1>3. PICK none : none = <<>>
  OBVIOUS
<1>4. PongsFor(none) \in Seq(Answers(Readable)) /\ Len(PongsFor(none)) = Len(none)
  BY <1>1, <1>2, <1>3, PongsType
<1>5. PongsFor(none) = <<>>
  BY <1>3, <1>4, EmptySeq
<1> QED  BY <1>1, <1>3, <1>5

LEMMA ToDoType ==
  ASSUME WorkType
  PROVE  /\ ToHand \in Seq(Readable) /\ ToAnswer \in Seq(Answers(Readable))
         /\ OtherFrames(frs) \in Seq(Readable) /\ PongsFor(frs) \in Seq(Answers(Readable))
         /\ OtherFrames(decoded) \in Seq(Readable) /\ PongsFor(decoded) \in Seq(Answers(Readable))
<1>1. /\ OtherFrames(frs) \in Seq(Readable) /\ PongsFor(frs) \in Seq(Answers(Readable))
      /\ OtherFrames(decoded) \in Seq(Readable) /\ PongsFor(decoded) \in Seq(Answers(Readable))
  BY GroupType, PongsType DEF WorkType, OtherFrames
<1>2. <<>> \in Seq(Readable) /\ <<>> \in Seq(Answers(Readable))
  OBVIOUS
<1> QED  BY <1>1, <1>2 DEF ToHand, ToAnswer

\* The frames of the writes s.
FramesOf(s) == [i \in DOMAIN s |-> FrameOf(s[i])]

LEMMA FramesOfWrites ==
  ASSUME NEW s \in Seq(Writes)
  PROVE  /\ FramesOf(s) \in Seq(Frame) /\ Len(FramesOf(s)) = Len(s)
         /\ \A i \in 1..Len(s) : FramesOf(s)[i] = FrameOf(s[i])
<1>1. PICK n \in Nat : n = Len(s) /\ DOMAIN s = 1..n
  BY LenProperties
<1>2. ASSUME NEW i \in 1..n PROVE FrameOf(s[i]) \in Frame
  <2>1. s[i] \in WireFrame
    BY <1>1, ElementOfSeq, WriteType
  <2> QED  BY <2>1 DEF FrameOf, Frame, WireFrame
<1>3. PICK a : a = [i \in 1..n |-> FrameOf(s[i])]
  OBVIOUS
<1>4. a \in [1..n -> Frame] /\ \A i \in 1..n : a[i] = FrameOf(s[i])
  BY <1>2, <1>3
<1>5. a \in Seq(Frame) /\ Len(a) = n
  BY <1>4, IsASeq, LenProperties
<1>6. FramesOf(s) = a
  BY <1>1, <1>3 DEF FramesOf
<1> QED  BY <1>1, <1>4, <1>5, <1>6

LEMMA WrittenIs ==
  ASSUME StreamInv
  PROVE  /\ Written \in Seq(Frame) /\ Len(Written) = Len(sent)
         /\ \A i \in 1..Len(sent) : Written[i] = FrameOf(sent[i])
<1>1. Written = FramesOf(sent)
  BY DEF Written, FramesOf
<1> QED  BY <1>1, FramesOfWrites DEF StreamInv

LEMMA InitWork == Init => WorkInv
<1> SUFFICES ASSUME Init PROVE WorkInv
  OBVIOUS
<1>1. decoded = <<>> /\ frs = <<>> /\ handed = <<>> /\ pongs = <<>> /\ pc = "idle"
  BY DEF Init
<1>2. WorkType
  BY <1>1 DEF WorkType
<1>3. Written \in Seq(Frame) /\ <<>> \in Seq(Frame)
  BY InitInv, WrittenIs
<1>4. IsPrefix(<<>>, Written) /\ IsPrefix(<<>>, <<>>)
  BY <1>3, EmptyIsPrefix
<1>5. HandInv
  BY <1>1, <1>4, GroupsOfNone DEF HandInv, ToHand, ToAnswer
<1> QED  BY <1>2, <1>5 DEF WorkInv

\* What is handed over and answered on an open connection comes first.
LEMMA OpenIsPrefix ==
  ASSUME NEW h \in Seq(Readable), NEW hs \in Seq(Readable),
         NEW p \in Seq(Answers(Readable)), NEW ps \in Seq(Answers(Readable)),
         OtherFrames(decoded) = h \o hs, PongsFor(decoded) = p \o ps
  PROVE  IsPrefix(h, OtherFrames(decoded)) /\ IsPrefix(p, PongsFor(decoded))
BY PrefixOfConcat

\* Decode adds a frame to the batch and to what is still to be done.
LEMMA DecodeWork ==
  ASSUME StreamInv, LoopInv, WorkInv, DecodeFrame
  PROVE  WorkInv'
<1> DEFINE n == Len(decoded) + 1
           f == FrameOf(sent[n])
<1>1. /\ up /\ pc = "decode"
      /\ frs' = Append(frs, FrameIn(Inbound)) /\ decoded' = Append(decoded, FrameIn(Inbound))
      /\ UNCHANGED <<sent, handed, pongs, pc, up>>
  BY DEF DecodeFrame, wireVars, workVars, LoopInv
<1>2. /\ n \in 1..Len(sent) /\ Len(sent) \in Nat /\ Len(decoded) \in Nat
      /\ WellFormed(sent[n]) /\ FrameIn(Inbound) = f /\ f \in Frame
  <2>1. GoodFrame(Inbound) /\ pc = "decode"
    BY DEF DecodeFrame
  <2>2. sent \in Seq(Writes) /\ decoded \in Seq(Frame)
    BY DEF StreamInv, LoopInv
  <2>3. Len(sent) \in Nat /\ Len(decoded) \in Nat
    BY <2>2, LenProperties
  <2> QED  BY <2>1, <2>3, DecodeReads
<1>3. f \in Readable
  <2>1. sent[n] \in Writes
    BY <1>2, ElementOfSeq DEF StreamInv
  <2>2. PICK w \in WireFrame : /\ w = sent[n] /\ WellFormed(w) /\ w.len = Len(w.payload)
                               /\ w.len \in Nat /\ w.payload \in Seq(Nat)
    BY <1>2, <2>1, WriteType DEF WellFormed, WireFrame
  <2>3. w.payload = <<>> \/ Len(w.payload) >= MetaSize
    <3>1. CASE w.len = 0
      BY <2>2, <3>1, EmptySeq
    <3>2. CASE w.len > 0
      BY <2>2, <3>2 DEF WellFormed
    <3> QED  BY <2>2, <3>1, <3>2
  <2> QED  BY <1>2, <2>2, <2>3 DEF Readable, FrameOf
<1> HIDE DEF f
<1>4. /\ decoded \in Seq(Readable) /\ frs \in Seq(Readable) /\ handed \in Seq(Readable)
      /\ pongs \in Seq(Answers(Readable))
      /\ OtherFrames(frs) \in Seq(Readable) /\ PongsFor(frs) \in Seq(Answers(Readable))
      /\ OtherFrames(decoded) \in Seq(Readable) /\ PongsFor(decoded) \in Seq(Answers(Readable))
      /\ PongFor(f) \in Answers(Readable)
  BY <1>3, ToDoType DEF WorkInv, WorkType, Answers
<1>5. decoded' = Append(decoded, f) /\ frs' = Append(frs, f)
  BY <1>1, <1>2
<1>6. WorkType'
  BY <1>1, <1>3, <1>4, <1>5, AppendProperties DEF WorkType
<1>7. /\ OtherFrames(decoded) = handed \o OtherFrames(frs)
      /\ PongsFor(decoded) = pongs \o PongsFor(frs)
  BY <1>1 DEF WorkInv, HandInv, ToHand, ToAnswer
<1>8. OtherFrames(decoded') = handed \o OtherFrames(frs')
  <2>1. CASE GroupOf(f) = OtherGroup
    <3>1. /\ OtherFrames(decoded') = Append(OtherFrames(decoded), f)
          /\ OtherFrames(frs') = Append(OtherFrames(frs), f)
      BY <1>3, <1>4, <1>5, <2>1, GroupOfMore DEF OtherFrames
    <3>2. handed \o Append(OtherFrames(frs), f) = Append(handed \o OtherFrames(frs), f)
      <4>1. handed \in Seq(Readable) /\ OtherFrames(frs) \in Seq(Readable)
        BY ONLY <1>4
      <4> QED  BY ONLY <1>3, <4>1, ConcatAppend
    <3>3. OtherFrames(decoded') = Append(handed \o OtherFrames(frs), f)
      BY ONLY <1>7, <3>1, Zenon
    <3> QED  BY ONLY <3>1, <3>2, <3>3, Zenon
  <2>2. CASE GroupOf(f) # OtherGroup
    <3>1. OtherFrames(decoded') = OtherFrames(decoded) /\ OtherFrames(frs') = OtherFrames(frs)
      BY <1>3, <1>4, <1>5, <2>2, GroupOfMore DEF OtherFrames
    <3> QED  BY <1>7, <3>1
  <2> QED  BY <2>1, <2>2
<1>9. PongsFor(decoded') = pongs \o PongsFor(frs')
  <2>1. CASE GroupOf(f) = PingGroup
    <3>1. /\ PongsFor(decoded') = Append(PongsFor(decoded), PongFor(f))
          /\ PongsFor(frs') = Append(PongsFor(frs), PongFor(f))
      BY <1>3, <1>4, <1>5, <2>1, PongsOfMore
    <3>2. pongs \o Append(PongsFor(frs), PongFor(f)) = Append(pongs \o PongsFor(frs), PongFor(f))
      <4>1. /\ pongs \in Seq(Answers(Readable)) /\ PongsFor(frs) \in Seq(Answers(Readable))
            /\ PongFor(f) \in Answers(Readable)
        BY ONLY <1>4
      <4> QED  BY ONLY <4>1, ConcatAppend
    <3>3. PongsFor(decoded') = Append(pongs \o PongsFor(frs), PongFor(f))
      BY ONLY <1>7, <3>1, Zenon
    <3> QED  BY ONLY <3>1, <3>2, <3>3, Zenon
  <2>2. CASE GroupOf(f) # PingGroup
    <3>1. PongsFor(decoded') = PongsFor(decoded) /\ PongsFor(frs') = PongsFor(frs)
      BY <1>3, <1>4, <1>5, <2>2, PongsOfMore
    <3> QED  BY <1>7, <3>1
  <2> QED  BY <2>1, <2>2
<1>10. IsPrefix(decoded', Written')
  <2>1. Written' = Written
    BY <1>1 DEF Written
  <2>2. PICK m \in Nat : m = Len(decoded) /\ n = m + 1
    BY <1>2
  <2>3. \A i \in 1..m : decoded[i] = Written[i]
    <3>1. decoded \in Seq(Frame) /\ Written \in Seq(Frame) /\ IsPrefix(decoded, Written)
      BY WrittenIs DEF LoopInv, WorkInv, HandInv
    <3> QED  BY <2>2, <3>1, PrefixMeans
  <2>4. PICK d : d = decoded'
    OBVIOUS
  <2>5. d \in Seq(Frame) /\ Len(d) = n /\ d[n] = f /\ \A i \in 1..m : d[i] = decoded[i]
    BY <1>2, <1>5, <2>2, <2>4, AppendProperties DEF LoopInv
  <2>6. Written \in Seq(Frame) /\ Len(Written) = Len(sent) /\ Written[n] = f
    BY <1>2, WrittenIs DEF f
  <2>7. ASSUME NEW i \in 1..n PROVE d[i] = Written[i]
    <3>1. i \in 1..m \/ i = n
      BY <2>2
    <3> QED  BY <2>3, <2>5, <2>6, <3>1
  <2>8. Len(d) <= Len(Written)
    BY <1>2, <2>5, <2>6
  <2> QED  BY <2>1, <2>4, <2>5, <2>6, <2>7, <2>8, PrefixMeans
<1>11. OtherFrames(frs') \in Seq(Readable) /\ PongsFor(frs') \in Seq(Answers(Readable))
       /\ OtherFrames(decoded') \in Seq(Readable) /\ PongsFor(decoded') \in Seq(Answers(Readable))
  BY <1>6, GroupType, PongsType DEF WorkType, OtherFrames
<1>12. IsPrefix(handed, OtherFrames(decoded')) /\ IsPrefix(pongs, PongsFor(decoded'))
  BY <1>4, <1>8, <1>9, <1>11, PrefixOfConcat
<1>13. HandInv'
  <2>1. ToHand' = OtherFrames(frs') /\ ToAnswer' = PongsFor(frs')
    BY <1>1 DEF ToHand, ToAnswer
  <2> QED  BY <1>1, <1>8, <1>9, <1>10, <1>12, <2>1 DEF HandInv
<1> QED  BY <1>6, <1>13 DEF WorkInv

\* On a connection that is closed at the end of the step, what was handed over and
\* answered before is all there will be.
LEMMA ClosedWork ==
  ASSUME WorkInv, UNCHANGED <<sent, decoded, handed, pongs>>,
         up' = FALSE, frs' \in Seq(Readable), pc' = "idle" => frs' = <<>>
  PROVE  WorkInv'
<1>1. Written' = Written
  BY DEF Written
<1>2. WorkType' /\ HandInv'
  BY <1>1 DEF WorkInv, WorkType, HandInv
<1> QED  BY <1>2 DEF WorkInv

LEMMA ReturnCloseWork ==
  ASSUME WorkInv, UNCHANGED <<sent, decoded, handed, pongs>>, ReturnClose
  PROVE  WorkInv'
<1>1. up' = FALSE /\ frs' = <<>> /\ <<>> \in Seq(Readable)
  BY DEF ReturnClose, Return
<1> QED  BY <1>1, ClosedWork

\* A step within a callback, or one that begins or ends it, that moves neither frames nor
\* pongs leaves what is still to be done.
LEMMA SameWork ==
  ASSUME WorkInv, UNCHANGED <<sent, decoded, handed, pongs, up>>,
         frs' \in Seq(Readable), pc' = "idle" => frs' = <<>>,
         up => ToHand' = ToHand /\ ToAnswer' = ToAnswer
  PROVE  WorkInv'
<1>1. Written' = Written
  BY DEF Written
<1>2. WorkType' /\ HandInv'
  BY <1>1 DEF WorkInv, WorkType, HandInv
<1> QED  BY <1>2 DEF WorkInv

\* The frames of the batch that are not pings are submitted.
LEMMA SubmitWork ==
  ASSUME WorkInv, up, UNCHANGED <<sent, decoded, pongs>>, Submit(ToHand),
         pc # "wake", ToAnswer = <<>>
  PROVE  WorkInv'
<1> DEFINE fs == ToHand
<1>1. /\ fs \in Seq(Readable) /\ handed \in Seq(Readable) /\ pongs \in Seq(Answers(Readable))
      /\ frs \in Seq(Readable)
  BY ToDoType DEF WorkInv, WorkType
<1>2. CASE ReturnClose /\ UNCHANGED handed
  BY <1>2, ReturnCloseWork
<1>3. CASE handed' = handed \o fs /\ pc' = "wake" /\ UNCHANGED <<frs, up, reg>>
  <2>1. Written' = Written
    BY DEF Written
  <2>2. handed' \in Seq(Readable)
    BY <1>1, <1>3, ConcatProperties
  <2>3. ToHand' = <<>> /\ ToAnswer' = <<>>
    BY <1>3 DEF ToHand, ToAnswer
  <2>4. OtherFrames(decoded) = handed' /\ PongsFor(decoded) = pongs
    BY <1>1, <1>3, ConcatEmptySeq DEF WorkInv, HandInv
  <2>5. OtherFrames(decoded) = handed' \o <<>> /\ PongsFor(decoded) = pongs \o <<>>
    BY <1>1, <2>2, <2>4, ConcatEmptySeq
  <2>6. IsPrefix(handed', OtherFrames(decoded))
    <3>1. <<>> \in Seq(Readable)
      OBVIOUS
    <3> QED  BY <2>2, <2>5, <3>1, PrefixOfConcat
  <2>7. WorkType'
    BY <1>1, <1>3, <2>2 DEF WorkInv, WorkType
  <2>8. HandInv'
    BY <1>3, <2>1, <2>3, <2>5, <2>6 DEF WorkInv, HandInv
  <2> QED  BY <2>7, <2>8 DEF WorkInv
<1> QED  BY <1>2, <1>3 DEF Submit

\* Before authentication a single Conn frame is submitted, which is no ping.
LEMMA UnauthedWork ==
  ASSUME LoopInv, WorkInv, HandleUnauthed
  PROVE  WorkInv'
<1>1. /\ up /\ pc = "unauthed" /\ UNCHANGED <<sent, decoded, pongs>>
      /\ frs \in Seq(Readable)
  BY DEF HandleUnauthed, LoopInv, wireVars, WorkInv, WorkType
<1>2. CASE ~(Len(frs) = 1 /\ frs[1].ftype = Conn)
  <2>1. ReturnClose /\ UNCHANGED handed
    BY <1>2 DEF HandleUnauthed
  <2> QED  BY <1>1, <2>1, ReturnCloseWork
<1>3. CASE Len(frs) = 1 /\ frs[1].ftype = Conn
  <2>1. PICK f : f = frs[1]
    OBVIOUS
  <2>2. f \in Readable /\ GroupOf(f) = OtherGroup /\ OtherGroup # PingGroup
    <3>1. f \in Readable
      <4>1. 1 \in 1..Len(frs)
        BY <1>3
      <4> QED  BY <1>1, <2>1, <4>1, ElementOfSeq
    <3> QED  BY <1>3, <2>1, <3>1 DEF GroupOf, OtherGroup, PingGroup, Conn, Ping
  <2>3. frs = Append(<<>>, f)
    <3>1. PICK one : one = Append(<<>>, f)
      OBVIOUS
    <3>2. one \in Seq(Readable) /\ Len(one) = 1 /\ one[1] = f
      BY <2>2, <3>1
    <3> QED  BY <1>1, <1>3, <2>1, <3>1, <3>2, SeqEqual
  <2>4. OtherFrames(frs) = frs
    <3>1. <<>> \in Seq(Readable)
      OBVIOUS
    <3>2. OtherFrames(Append(<<>>, f)) = Append(OtherFrames(<<>>), f)
      BY <2>2, <3>1, GroupOfMore DEF OtherFrames
    <3> QED  BY <2>3, <3>2, GroupsOfNone
  <2>5. PongsFor(frs) = <<>>
    <3>1. <<>> \in Seq(Readable)
      OBVIOUS
    <3>2. PongsFor(Append(<<>>, f)) = PongsFor(<<>>)
      BY <2>2, <3>1, PongsOfMore
    <3> QED  BY <2>3, <3>2, GroupsOfNone
  <2>6. ToHand = frs /\ ToAnswer = <<>>
    BY <1>1, <2>4, <2>5 DEF ToHand, ToAnswer
  <2>7. Submit(ToHand)
    BY <1>3, <2>6 DEF HandleUnauthed
  <2> QED  BY <1>1, <2>6, <2>7, SubmitWork
<1> QED  BY <1>2, <1>3

\* All pings are answered, or the first of them.
LEMMA PingsWork ==
  ASSUME LoopInv, WorkInv, HandlePings
  PROVE  WorkInv'
<1> DEFINE answers == PongsFor(frs)
<1>1. /\ up /\ pc = "pings" /\ UNCHANGED <<sent, decoded, handed>>
      /\ ToAnswer = answers /\ ToHand = OtherFrames(frs)
  BY DEF HandlePings, LoopInv, wireVars, ToAnswer, ToHand
<1>2. /\ answers \in Seq(Answers(Readable)) /\ pongs \in Seq(Answers(Readable)) /\ frs \in Seq(Readable)
      /\ PongsFor(decoded) \in Seq(Answers(Readable))
      /\ PongsFor(decoded) = pongs \o answers
  BY <1>1, ToDoType DEF WorkInv, WorkType, HandInv
<1> HIDE DEF answers
<1>w. Written' = Written
  BY <1>1 DEF Written
<1>3. CASE pongs' = pongs \o answers /\ pc' = "others" /\ UNCHANGED <<frs, up, reg>>
  <2>1. pongs' \in Seq(Answers(Readable))
    BY <1>2, <1>3, ConcatProperties
  <2>2. WorkType'
    BY <1>1, <1>3, <2>1 DEF WorkInv, WorkType
  <2>3. ToHand' = ToHand /\ ToAnswer' = <<>>
    BY <1>1, <1>3 DEF ToHand, ToAnswer
  <2>4. PongsFor(decoded) = pongs' \o <<>>
    BY <1>2, <1>3, <2>1, ConcatEmptySeq
  <2>5. IsPrefix(pongs', PongsFor(decoded))
    <3>1. <<>> \in Seq(Answers(Readable))
      OBVIOUS
    <3> QED  BY <2>1, <2>4, <3>1, PrefixOfConcat
  <2>6. HandInv'
    BY <1>w, <1>1, <1>3, <2>3, <2>4, <2>5 DEF WorkInv, HandInv
  <2> QED  BY <2>2, <2>6 DEF WorkInv
<1>4. ASSUME NEW n \in 0..(Len(answers) - 1), pongs' = pongs \o SubSeq(answers, 1, n),
             ReturnClose
      PROVE  WorkInv'
  <2>1. n \in 0..Len(answers)
    BY <1>2, LenProperties
  <2>2. SubSeq(answers, 1, n) \in Seq(Answers(Readable)) /\ IsPrefix(SubSeq(answers, 1, n), answers)
    BY <1>2, <2>1, PrefixOfSubSeq
  <2>3. pongs' \in Seq(Answers(Readable)) /\ IsPrefix(pongs', PongsFor(decoded))
    BY <1>2, <1>4, <2>2, ConcatProperties, PrefixBehind
  <2>4. WorkType'
    BY <1>1, <1>4, <2>3 DEF WorkInv, WorkType, ReturnClose, Return
  <2>5. HandInv'
    BY <1>w, <1>1, <1>4, <2>3 DEF WorkInv, HandInv, ReturnClose
  <2> QED  BY <2>4, <2>5 DEF WorkInv
<1> QED  BY <1>3, <1>4 DEF HandlePings, answers

LEMMA OthersWork ==
  ASSUME LoopInv, WorkInv, HandleOthers
  PROVE  WorkInv'
<1>1. /\ up /\ pc = "others" /\ UNCHANGED <<sent, decoded, pongs>>
      /\ ToHand = OtherFrames(frs) /\ ToAnswer = <<>> /\ frs \in Seq(Readable)
  BY DEF HandleOthers, LoopInv, wireVars, ToHand, ToAnswer, WorkInv, WorkType
<1>2. CASE ToHand = <<>>
  <2>1. pc' = "wake" /\ UNCHANGED <<frs, up, reg, handed>>
    BY <1>1, <1>2 DEF HandleOthers
  <2>2. ToHand' = <<>> /\ ToAnswer' = <<>>
    BY <2>1 DEF ToHand, ToAnswer
  <2> QED  BY <1>1, <1>2, <2>1, <2>2, SameWork
<1>3. CASE ToHand # <<>> /\ Acceptable(ToHand)
  <2>1. Submit(ToHand)
    BY <1>1, <1>3 DEF HandleOthers
  <2> QED  BY <1>1, <2>1, SubmitWork
<1>4. CASE ToHand # <<>> /\ ~Acceptable(ToHand)
  <2>1. ReturnClose /\ UNCHANGED handed
    BY <1>1, <1>4 DEF HandleOthers
  <2> QED  BY <1>1, <2>1, ReturnCloseWork
<1> QED  BY <1>2, <1>3, <1>4

\* The other steps of the event loop hand nothing over: they begin the callback, go on
\* to the next part of it, or end it when nothing is left to do or the connection is closed.
LEMMA LoopWork ==
  ASSUME StreamInv, LoopInv, WorkInv,
         \/ \E n \in 1..Len(stream) : OnTraffic(n)
         \/ Closes \/ WakeRuns \/ DecodeFails \/ DecodeEnds \/ WakeIfFull
         \/ Authed \/ TimesOut
  PROVE  WorkInv'
<1>0. frs \in Seq(Readable) /\ <<>> \in Seq(Readable) /\ (pc = "idle" => frs = <<>>)
  BY DEF WorkInv, WorkType
<1>1. UNCHANGED <<sent, decoded, handed, pongs>>
  BY DEF OnTraffic, Closes, WakeRuns, DecodeFails, DecodeEnds, WakeIfFull, Authed,
         TimesOut, AuthExpires, PingExpires, AuthExpiredDel,
         wireVars, workVars, loopVars
<1>2. CASE (\E n \in 1..Len(stream) : OnTraffic(n)) \/ WakeRuns
  <2>1. up /\ UNCHANGED <<up, frs>> /\ pc = "idle" /\ pc' = "decode"
    BY <1>2 DEF OnTraffic, WakeRuns
  <2>2. ToHand' = ToHand /\ ToAnswer' = ToAnswer
    BY <2>1 DEF ToHand, ToAnswer
  <2> QED  BY <1>0, <1>1, <2>1, <2>2, SameWork
<1>3. CASE Closes
  <2>1. up' = FALSE /\ UNCHANGED <<frs, pc>>
    BY <1>3 DEF Closes, loopVars
  <2> QED  BY <1>0, <1>1, <2>1, ClosedWork
<1>4. CASE Authed \/ TimesOut
  <2>1. UNCHANGED <<up, frs, pc>>
    BY <1>4 DEF Authed, TimesOut, AuthExpires, PingExpires, AuthExpiredDel, loopVars
  <2>2. ToHand' = ToHand /\ ToAnswer' = ToAnswer
    BY <2>1 DEF ToHand, ToAnswer
  <2> QED  BY <1>0, <1>1, <2>1, <2>2, SameWork
<1>5. ReturnClose => WorkInv'
  BY <1>1, ReturnCloseWork
<1>6. CASE DecodeFails
  BY <1>5, <1>6 DEF DecodeFails
<1>7. CASE DecodeEnds
  <2>1. CASE ReturnClose
    BY <1>5, <2>1
  <2>2. CASE frs = <<>> /\ ReturnNone
    <3>1. UNCHANGED <<frs, up>> /\ pc = "decode" /\ pc' = "idle"
      BY <1>7, <2>2 DEF DecodeEnds, ReturnNone, Return
    <3>2. ToHand' = ToHand /\ ToAnswer' = ToAnswer
      BY <3>1 DEF ToHand, ToAnswer
    <3> QED  BY <1>0, <1>1, <2>2, <3>1, <3>2, SameWork
  <2>3. CASE pc' = (IF reg = "authed" THEN "pings" ELSE "unauthed") /\ UNCHANGED <<frs, up, reg>>
    <3>1. pc = "decode"
      BY <1>7 DEF DecodeEnds
    <3>2. ToHand' = ToHand /\ ToAnswer' = ToAnswer /\ pc' # "idle"
      BY <2>3, <3>1 DEF ToHand, ToAnswer
    <3> QED  BY <1>0, <1>1, <2>3, <3>2, SameWork
  <2> QED  BY <1>7, <2>1, <2>2, <2>3 DEF DecodeEnds
<1>8. CASE WakeIfFull
  <2>1. CASE ReturnClose
    BY <1>5, <2>1
  <2>2. CASE ReturnNone
    <3>1. UNCHANGED up /\ pc = "wake" /\ pc' = "idle" /\ frs' = <<>>
      BY <1>8, <2>2 DEF WakeIfFull, ReturnNone, Return
    <3>2. ToHand' = ToHand /\ ToAnswer' = ToAnswer
      BY <3>1, GroupsOfNone DEF ToHand, ToAnswer
    <3> QED  BY <1>0, <1>1, <3>1, <3>2, SameWork
  <2> QED  BY <1>8, <2>1, <2>2 DEF WakeIfFull
<1> QED  BY <1>2, <1>3, <1>4, <1>6, <1>7, <1>8

\* What the client writes next comes behind what was decoded.
LEMMA WriteWork ==
  ASSUME StreamInv, LoopInv, WorkInv, NEW w \in Writes, Write(w)
  PROVE  WorkInv'
<1>1. UNCHANGED <<decoded, handed, pongs, frs, pc, up>> /\ sent' = Append(sent, w)
  BY DEF Write, loopVars, workVars
<1>2. PICK n \in Nat : n = Len(sent) /\ sent \in Seq(Writes)
  BY LenProperties DEF StreamInv
<1>3. Len(sent') = n + 1 /\ \A i \in 1..n : sent'[i] = sent[i]
  BY <1>1, <1>2, AppendProperties
<1>4. StreamInv'
  BY WriteStep
<1>5. /\ Written \in Seq(Frame) /\ Len(Written) = n
      /\ \A i \in 1..n : Written[i] = FrameOf(sent[i])
  BY <1>2, WrittenIs
<1>6. /\ Written' \in Seq(Frame) /\ Len(Written') = n + 1
      /\ \A i \in 1..(n + 1) : Written'[i] = FrameOf(sent'[i])
  <2>1. Written' = FramesOf(sent') /\ sent' \in Seq(Writes)
    BY <1>4 DEF Written, FramesOf, StreamInv
  <2> QED  BY <1>3, <2>1, FramesOfWrites
<1>7. IsPrefix(Written, Written')
  <2>1. \A i \in 1..n : Written[i] = Written'[i]
    BY <1>3, <1>5, <1>6
  <2> QED  BY <1>5, <1>6, <2>1, PrefixMeans
<1>8. IsPrefix(decoded', Written')
  BY <1>1, <1>5, <1>6, <1>7, PrefixTransitive DEF WorkInv, HandInv, LoopInv
<1>9. ToHand' = ToHand /\ ToAnswer' = ToAnswer
  BY <1>1 DEF ToHand, ToAnswer
<1>10. WorkType' /\ HandInv'
  BY <1>1, <1>8, <1>9 DEF WorkInv, WorkType, HandInv
<1> QED  BY <1>10 DEF WorkInv

LEMMA WorkStep == IndInv /\ WorkInv /\ [Next]_vars => WorkInv'
<1> SUFFICES ASSUME StreamInv, LoopInv, WorkInv, [Next]_vars PROVE WorkInv'
  BY DEF IndInv
<1>1. CASE \E w \in Writes : Write(w)
  BY <1>1, WriteWork
<1>2. CASE DecodeFrame
  BY <1>2, DecodeWork
<1>3. CASE OtherStep
  <2>1. CASE HandleUnauthed \/ HandlePings \/ HandleOthers
    BY <2>1, UnauthedWork, PingsWork, OthersWork
  <2>2. CASE \/ \E n \in 1..Len(stream) : OnTraffic(n)
             \/ Closes \/ WakeRuns \/ DecodeFails \/ DecodeEnds \/ WakeIfFull
             \/ Authed \/ TimesOut
    BY <2>2, LoopWork
  <2> QED  BY <1>3, <2>1, <2>2 DEF OtherStep
<1>4. CASE UNCHANGED vars
  <2>1. UNCHANGED <<sent, decoded, handed, pongs, frs, pc, up>>
    BY <1>4 DEF vars, wireVars, loopVars, workVars
  <2>2. ToHand' = ToHand /\ ToAnswer' = ToAnswer
    BY <2>1 DEF ToHand, ToAnswer
  <2> QED  BY <2>1, <2>2, SameWork DEF WorkInv, WorkType
<1> QED  BY <1>1, <1>2, <1>3, <1>4, StepCases

\* Nothing of the batch under way is lost or done twice.
THEOREM WorkFollows == Spec => []WorkInv
<1> QED  BY InitWork, WorkStep, Inductive, PTL DEF Spec

\* However the stream is cut into pieces and batches, the pool gets the frames, and the
\* client its pongs, in the order of what the client wrote; while the connection is open
\* nothing that was decoded is skipped.
THEOREM HandedInOrder == Spec => []HandledInOrder
<1>1. IndInv /\ WorkInv => HandledInOrder
  <2> SUFFICES ASSUME StreamInv, LoopInv, WorkInv PROVE HandledInOrder
    BY DEF IndInv
  <2>1. /\ decoded \in Seq(Frame) /\ Written \in Seq(Frame) /\ IsPrefix(decoded, Written)
        /\ handed \in Seq(Frame) /\ pongs \in Seq(Answers(Frame))
    <3>1. Readable \subseteq Frame /\ Answers(Readable) \subseteq Answers(Frame)
      BY DEF Readable, Answers
    <3>2. handed \in Seq(Readable) /\ pongs \in Seq(Answers(Readable))
      BY DEF WorkInv, WorkType
    <3> QED  BY <3>1, <3>2, WrittenIs, SeqMonotonic DEF WorkInv, HandInv, LoopInv
  <2>2. IsPrefix(handed, OtherFrames(Written))
    <3>1. IsPrefix(OtherFrames(decoded), OtherFrames(Written))
      BY <2>1, GroupOfFirst DEF OtherFrames
    <3>2. OtherFrames(decoded) \in Seq(Frame) /\ OtherFrames(Written) \in Seq(Frame)
      BY <2>1, GroupType DEF OtherFrames
    <3> QED  BY <2>1, <3>1, <3>2, PrefixTransitive DEF WorkInv, HandInv
  <2>3. IsPrefix(pongs, PongsFor(Written))
    <3>1. IsPrefix(PongsFor(decoded), PongsFor(Written))
      BY <2>1, PongsOfFirst
    <3>2. PongsFor(decoded) \in Seq(Answers(Frame)) /\ PongsFor(Written) \in Seq(Answers(Frame))
      BY <2>1, PongsType
    <3> QED  BY <2>1, <3>1, <3>2, PrefixTransitive DEF WorkInv, HandInv
  <2>4. ASSUME up, pc = "idle"
        PROVE  handed = OtherFrames(decoded) /\ pongs = PongsFor(decoded)
    <3>1. ToHand = <<>> /\ ToAnswer = <<>>
      BY <2>4, GroupsOfNone DEF ToHand, ToAnswer, WorkInv, WorkType
    <3>2. handed \o <<>> = handed /\ pongs \o <<>> = pongs
      BY <2>1, ConcatEmptySeq
    <3> QED  BY <2>4, <3>1, <3>2 DEF WorkInv, HandInv
  <2> QED  BY <2>2, <2>3, <2>4 DEF HandledInOrder
<1> QED  BY <1>1, WorkFollows, Inductive, PTL

-----------------------------------------------------------------------------
(* Types, and who may send *)

CtlInv ==
  /\ reg \in {"opened", "authed", "late", "lost", "gone"}
  /\ pc \in {"idle", "decode", "unauthed", "pings", "others", "wake"}
  /\ woken \in BOOLEAN

LEMMA CtlStep == LoopInv /\ CtlInv /\ [Next]_vars => CtlInv'
<1> SUFFICES ASSUME LoopInv, CtlInv, [Next]_vars PROVE CtlInv'
  OBVIOUS
<1> USE DEF CtlInv, Return, ReturnNone, ReturnClose, wireVars, loopVars, workVars
<1>1. ASSUME NEW w \in Writes, Write(w) PROVE CtlInv'
  BY <1>1 DEF Write
<1>2. ASSUME NEW n \in 1..Len(stream), OnTraffic(n) PROVE CtlInv'
  BY <1>2 DEF OnTraffic
<1>3. CASE Closes \/ Authed \/ TimesOut
  BY <1>3 DEF Closes, Authed, TimesOut, AuthExpires, PingExpires, AuthExpiredDel
<1>4. CASE WakeRuns \/ DecodeFrame
  BY <1>4 DEF WakeRuns, DecodeFrame
<1>5. CASE DecodeFails
  BY <1>5 DEF DecodeFails
<1>6. CASE DecodeEnds
  BY <1>6 DEF DecodeEnds
<1>7. CASE HandleUnauthed
  BY <1>7 DEF HandleUnauthed, Submit
<1>8. CASE HandlePings
  BY <1>8 DEF HandlePings
<1>9. CASE HandleOthers
  BY <1>9 DEF HandleOthers, Submit
<1>10. CASE WakeIfFull
  BY <1>10 DEF WakeIfFull
<1>11. CASE UNCHANGED vars
  BY <1>11 DEF vars
<1> QED  BY <1>1, <1>2, <1>3, <1>4, <1>5, <1>6, <1>7, <1>8, <1>9, <1>10, <1>11
         DEF Next, LoopStep

\* A pong to a frame that Decode returned has the protocol and the request id of its
\* ping: NewPongFrame never reads beyond a payload.
LEMMA PongIsFrame ==
  ASSUME \A p \in Seq(Nat) : Crc(p) \in Nat, NEW f \in Readable
  PROVE  PongFor(f) \in WireFrame
<1>1. PICK from : from = IF f.payload = <<>> THEN <<0, 0>> ELSE f.payload
  OBVIOUS
<1>2. from[1] \in Nat /\ from[2] \in Nat
  <2>1. CASE f.payload = <<>>
    BY <1>1, <2>1
  <2>2. CASE f.payload # <<>>
    <3>1. from \in Seq(Nat) /\ Len(from) >= 2 /\ Len(from) \in Nat
      BY <1>1, <2>2, LenProperties DEF Readable, Frame, MetaSize
    <3>2. 1 \in 1..Len(from) /\ 2 \in 1..Len(from)
      BY <3>1
    <3> QED  BY <3>1, <3>2, ElementOfSeq
  <2> QED  BY <2>1, <2>2
<1>3. PICK p : p = <<from[1], from[2]>> \o <<PongBody>>
  OBVIOUS
<1>4. p \in Seq(Nat) /\ Len(p) \in Nat
  <2>1. <<from[1], from[2]>> \in Seq(Nat) /\ <<PongBody>> \in Seq(Nat)
    BY <1>2 DEF PongBody
  <2>2. p \in Seq(Nat)
    BY <1>3, <2>1, ConcatProperties
  <2> QED  BY <2>2, LenProperties
<1>5. PongFor(f) = [magic |-> Magic, version |-> Version, ftype |-> Pong,
                    len |-> Len(p), crc |-> Crc(p), payload |-> p]
  BY <1>1, <1>3 DEF PongFor, Encode
<1> QED  BY <1>4, <1>5, StreamAssumption DEF WireFrame, Pong

\* For any checksum that is a number every variable holds a value of its kind: positions
\* stay within the stream, and the pongs are frames.
THEOREM TypeCorrect ==
  ASSUME \A p \in Seq(Nat) : Crc(p) \in Nat
  PROVE  Spec => []TypeOK
<1>1. Init => CtlInv
  BY DEF Init, CtlInv
<1>2. StreamInv /\ LoopInv /\ WorkInv /\ CtlInv => TypeOK
  <2> SUFFICES ASSUME StreamInv, LoopInv, WorkInv, CtlInv PROVE TypeOK
    OBVIOUS
  <2>1. sent \in Seq(Writes) /\ ends \in Seq(Nat) /\ stream \in Seq(Nat) /\ Len(stream) \in Nat
    BY LenProperties DEF StreamInv
  <2>2. got \in 0..Len(stream) /\ pos \in 0..got /\ decoded \in Seq(Frame) /\ up \in BOOLEAN
    BY <2>1 DEF LoopInv
  <2>3. frs \in Seq(Frame) /\ handed \in Seq(Frame) /\ pongs \in Seq(WireFrame)
    <3>1. Readable \subseteq Frame /\ Answers(Readable) \subseteq WireFrame
      BY PongIsFrame DEF Readable, Answers
    <3> QED  BY <3>1, SeqMonotonic DEF WorkInv, WorkType
  <2> QED  BY <2>1, <2>2, <2>3 DEF TypeOK, CtlInv
<1> QED  BY <1>1, <1>2, CtlStep, WorkFollows, Inductive, PTL DEF Spec, IndInv

\* No frame is handed to the pool before a Conn frame was: what follows
\* authentication is never done for a client that has not asked for it.
ConnFirst == handed # <<>> => handed[1].ftype = Conn

\* Something was handed in before the connection is authenticated, and a batch is split
\* only afterwards.
AuthInv ==
  /\ ConnFirst
  /\ reg = "authed" \/ pc \in {"pings", "others"} => handed # <<>>

\* Frames are added behind what was handed in.
LEMMA MoreHanded ==
  ASSUME WorkType, ConnFirst, NEW fs \in Seq(Readable), handed' = handed \o fs,
         handed # <<>> \/ (Len(fs) = 1 /\ fs[1].ftype = Conn)
  PROVE  ConnFirst' /\ handed' # <<>>
<1> USE DEF ConnFirst
<1>1. handed \in Seq(Readable)
  BY DEF WorkType
<1>2. CASE handed = <<>>
  <2>1. handed' = fs
    BY <1>2, ConcatEmptySeq
  <2>2. fs # <<>>
    <3>1. fs = <<>> => Len(fs) = 0
      OBVIOUS
    <3>2. Len(fs) = 1
      BY <1>2
    <3> QED  BY <3>1, <3>2
  <2> QED  BY <1>2, <2>1, <2>2
<1>3. CASE handed # <<>>
  <2>1. PICK n \in Nat, m \in Nat : n = Len(handed) /\ m = Len(fs)
    BY <1>1, LenProperties
  <2>2. n # 0
    BY <1>1, <1>3, <2>1, EmptySeq
  <2>3. Len(handed \o fs) = n + m /\ (handed \o fs)[1] = handed[1]
    BY <1>1, <2>1, <2>2, ConcatProperties
  <2>4. handed \o fs # <<>>
    BY <2>1, <2>2, <2>3, EmptySeq
  <2> QED  BY <1>3, <2>3, <2>4
<1> QED  BY <1>2, <1>3

LEMMA AuthStep == IndInv /\ WorkInv /\ AuthInv /\ [Next]_vars => AuthInv'
<1> SUFFICES ASSUME LoopInv, WorkInv, AuthInv, [Next]_vars PROVE AuthInv'
  BY DEF IndInv
<1> USE DEF wireVars, loopVars, workVars
<1>1. ASSUME UNCHANGED handed,
             reg' = "authed" \/ pc' \in {"pings", "others"} =>
               reg = "authed" \/ pc \in {"pings", "others"} \/ handed # <<>>
      PROVE  AuthInv'
  BY <1>1 DEF AuthInv, ConnFirst
<1>2. ASSUME ReturnClose, UNCHANGED handed PROVE AuthInv'
  BY <1>1, <1>2 DEF ReturnClose, Return
<1>3. ASSUME NEW fs \in Seq(Readable), Submit(fs),
             handed # <<>> \/ (Len(fs) = 1 /\ fs[1].ftype = Conn)
      PROVE  AuthInv'
  <2>1. CASE handed' = handed \o fs
    <3>1. ConnFirst' /\ handed' # <<>>
      BY <1>3, <2>1, MoreHanded DEF WorkInv, AuthInv
    <3> QED  BY <3>1 DEF AuthInv
  <2> QED  BY <1>2, <1>3, <2>1 DEF Submit
<1>4. CASE (\E w \in Writes : Write(w)) \/ DecodeFrame
  BY <1>1, <1>4 DEF Write, DecodeFrame
<1>5. CASE \/ \E n \in 1..Len(stream) : OnTraffic(n)
           \/ WakeRuns \/ Closes \/ TimesOut
  BY <1>1, <1>5 DEF OnTraffic, WakeRuns, Closes, TimesOut, AuthExpires,
                    PingExpires, AuthExpiredDel
<1>13. CASE Authed
  BY <1>1, <1>13 DEF Authed
<1>6. CASE DecodeFails
  BY <1>2, <1>6 DEF DecodeFails
<1>7. CASE DecodeEnds
  BY <1>1, <1>2, <1>7 DEF DecodeEnds, ReturnNone, Return
<1>8. CASE WakeIfFull
  BY <1>1, <1>2, <1>8 DEF WakeIfFull, ReturnNone, Return
<1>9. CASE HandleUnauthed
  <2>1. frs \in Seq(Readable)
    BY DEF WorkInv, WorkType
  <2> QED  BY <1>2, <1>3, <1>9, <2>1 DEF HandleUnauthed
<1>10. CASE HandlePings
  BY <1>1, <1>2, <1>10 DEF HandlePings
<1>11. CASE HandleOthers
  <2>1. OtherFrames(frs) \in Seq(Readable)
    BY ToDoType DEF WorkInv
  <2>2. handed # <<>>
    BY <1>11 DEF HandleOthers, AuthInv
  <2> QED  BY <1>1, <1>2, <1>3, <1>11, <2>1, <2>2 DEF HandleOthers
<1>12. CASE UNCHANGED vars
  BY <1>1, <1>12 DEF vars
<1> QED  BY <1>4, <1>5, <1>6, <1>7, <1>8, <1>9, <1>10, <1>11, <1>12, <1>13 DEF Next, LoopStep

\* Whatever a client writes, and however its authentication and the callbacks of its
\* connection interleave, the first frame that reaches the pool is a Conn frame.
THEOREM ConnBeforeAll == Spec => []ConnFirst
<1>1. Init => AuthInv
  BY DEF Init, AuthInv, ConnFirst
<1>2. AuthInv => ConnFirst
  BY DEF AuthInv
<1> QED  BY <1>1, <1>2, AuthStep, WorkFollows, Inductive, PTL DEF Spec
=============================================================================
