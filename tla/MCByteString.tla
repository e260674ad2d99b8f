---------------------------- MODULE MCByteString ----------------------------
(***************************************************************************)
(* ByteString for TLC: a datagram has two fields of one byte each.         *)
(***************************************************************************)
EXTENDS ByteString

MCWidths == <<1, 1>>
=============================================================================
