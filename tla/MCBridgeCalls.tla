---------------------------- MODULE MCBridgeCalls ----------------------------
(***************************************************************************)
(* TLC instance of BridgeCalls: three calls, so that a subscription, the   *)
(* broadcast that uses it and the stop that removes it meet, and two       *)
(* promises share the runtime.                                             *)
(***************************************************************************)
EXTENDS BridgeCalls

\* One method of every shape.  Another method differs from one of these in its name and
\* the names of its callbacks, or cannot refuse where this one can.
OneOfEachShape ==
  {endpoint_id, remote_info, watch_addr, stop_watch_addr, download_blob, cancel_download,
   gossip_subscribe, gossip_broadcast, gossip_unsubscribe,
   stream_connection_subscribe, stream_open_stream, stream_close_connection}
===============================================================================
