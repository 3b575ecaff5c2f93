----------------------------- MODULE MCStreamSend -----------------------------
(***************************************************************************)
(* TLC instance of StreamSend: two sends and the close queue for the lock, *)
(* with payloads below, at and above the frame limit.                      *)
(***************************************************************************)
EXTENDS StreamSend
===============================================================================
