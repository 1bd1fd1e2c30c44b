---------------------------- MODULE MCFrameStream ----------------------------
(* A small instance of FrameStream for TLC. *)
EXTENDS FrameStream

\* A checksum that sees every unit and its place.
SumCrc(payload) == FoldLeft(LAMBDA s, u : 3 * s + u + 1, 0, payload)

Zero(ftype) == [magic |-> Magic, version |-> Version, ftype |-> ftype,
                len |-> 0, crc |-> 0, payload |-> <<>>]

\* One frame of each type the handlers know, a ping without payload, and
\* one for each way Decode refuses a frame: by its header
\* alone, by the checksum, by a payload shorter than protocol and request id.
SendFrame == Encode(Send, 1, 3, <<7>>)
SomeWrites ==
  {Encode(Conn, 1, 1, <<>>), Encode(Ping, 1, 2, <<>>), SendFrame,
   Zero(Ping),
   [SendFrame EXCEPT !.len = MaxPayload + 1],
   [SendFrame EXCEPT !.crc = @ + 1],
   [Zero(Send) EXCEPT !.len = 1, !.crc = SumCrc(<<1>>), !.payload = <<1>>]}
=============================================================================
