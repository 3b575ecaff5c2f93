---------------------------- MODULE MCCollections ----------------------------
(***************************************************************************)
(* TLC instance of Collections: two children and the gate between them,    *)
(* or one child and a download of the application's own.                   *)
(***************************************************************************)
EXTENDS Collections
===============================================================================
