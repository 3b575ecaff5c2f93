----------------------------- MODULE MCEndpointHook ----------------------------
(***************************************************************************)
(* The TLC instance of EndpointHook over AddrWatch: two subscribers, two   *)
(* watches one after the other, and two addresses.                         *)
(***************************************************************************)
EXTENDS EndpointHook
===============================================================================
