------------------------------ MODULE MCGossipHook -----------------------------
(***************************************************************************)
(* The TLC instance of GossipHook over GossipSubscription: two broadcasts  *)
(* and two events, with the hook and without it.                           *)
(***************************************************************************)
EXTENDS GossipHook
===============================================================================
