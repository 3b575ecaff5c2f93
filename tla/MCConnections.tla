---------------------------- MODULE MCConnections ----------------------------
(***************************************************************************)
(* TLC instance of Connections: two streams, so that one can push the      *)
(* other out of a queue of one, and an open can race an accept.            *)
(***************************************************************************)
EXTENDS Connections
===============================================================================
