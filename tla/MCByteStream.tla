----------------------------- MODULE MCByteStream -----------------------------
(***************************************************************************)
(* TLC instances of ByteStream.                                            *)
(***************************************************************************)
EXTENDS ByteStream
===============================================================================
