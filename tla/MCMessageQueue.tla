---------------------------- MODULE MCMessageQueue ----------------------------
(***************************************************************************)
(* TLC instances of MessageQueue.                                          *)
(***************************************************************************)
EXTENDS MessageQueue
===============================================================================
