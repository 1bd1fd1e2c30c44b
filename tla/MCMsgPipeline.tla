--------------------------- MODULE MCMsgPipeline ---------------------------
(* A small instance of MsgPipeline for TLC. *)
EXTENDS MsgPipeline

CONSTANTS d1, d2

TwoDevices == <<d1, d2>>
=============================================================================
