------------------------------ MODULE MCProgress ------------------------------
(***************************************************************************)
(* TLC instances of Progress.                                              *)
(***************************************************************************)
EXTENDS Progress
===============================================================================
