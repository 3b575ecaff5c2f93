--------------------------- MODULE MCStreamListener ---------------------------
(***************************************************************************)
(* TLC instances of StreamListener.                                        *)
(***************************************************************************)
EXTENDS StreamListener
===============================================================================
