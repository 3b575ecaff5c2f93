------------------------------ MODULE ByteStream ------------------------------
(***************************************************************************)
(* The receiving side of one QUIC stream: the task of stream_subscribe     *)
(* (streams.rs) that reads what the peer sends, the bridge, and the        *)
(* StreamController of src/src/streams.ts with its queue of chunks.        *)
(*                                                                         *)
(* StreamController.chunks is the queue of MessageQueue, with a fatal lag.  *)
(* Chunks are numbered in the order the peer sends them; every chunk read  *)
(* crosses the bridge and is pushed, so the queue's numbers are the same.  *)
(***************************************************************************)
EXTENDS MessageQueue

VARIABLES settlement,   \* StreamController.settlement: "open", "resolved" or "rejected"
          byPeer,       \* it was settled by an event from the native side
          broken,       \* a loop over Stream.data was left by break
          bridge,       \* JS tasks posted by the read task: "data", "end", "error"
          registered,   \* the stream is in the STREAMS registry
          reader,       \* the read task
          sent,         \* the peer has sent chunks 1..sent
          arrived,      \* the read task has delivered chunks 1..arrived
          peerEnd       \* what the peer or the network has done to the stream

nativeVars == <<registered, reader, sent, arrived, peerEnd>>
vars == <<queueVars, settlement, byPeer, broken, bridge, nativeVars>>
-------------------------------------------------------------------------------
(* StreamController.                                                         *)

\* stream_close: remove the handle, which drops the read task's AbortOnDropHandle.
CloseStream ==
  /\ registered' = FALSE
  /\ reader' = IF registered /\ reader = "running" THEN "aborting" ELSE reader

\* Mutant: the native handle is kept.
FinishKeepsHandle(end) ==
  /\ settlement = "open"
  /\ settlement' = IF end = "error" THEN "rejected" ELSE "resolved"
  /\ UNCHANGED <<registered, reader>>

\* finish, except for what it does to the queue; only the first call does anything.
Finish(end) ==
  /\ settlement = "open"
  /\ settlement' = IF end = "error" THEN "rejected" ELSE "resolved"
  /\ CloseStream

Finished ==
  /\ settlement # "open"
  /\ UNCHANGED <<settlement, registered, reader>>

\* Mutant: a failure ends the queue like an orderly finish.
ChunksEndGracefully(end) ==
  \/ close("done")
  \/ isClosed /\ UNCHANGED queueVars

\* chunks.close(error): idempotent.
ChunksClose(end) ==
  \/ close(end)
  \/ isClosed /\ UNCHANGED queueVars

TakeTask(type) ==
  /\ bridge # << >>
  /\ Head(bridge) = type
  /\ bridge' = Tail(bridge)

\* onData.  An overflow calls onLagged, which finishes the stream from inside push.
OnData ==
  /\ TakeTask("data")
  /\ \/ /\ PushIgnored \/ PushHandsOff \/ PushBuffers
        /\ UNCHANGED <<settlement, registered, reader>>
     \/ /\ PushEvicts
        /\ Finish("error")
  /\ UNCHANGED <<byPeer, broken, sent, arrived, peerEnd>>

\* onClose, with no error for an orderly end.
OnClose(end) ==
  /\ TakeTask(IF end = "error" THEN "error" ELSE "end")
  /\ \/ /\ Finish(end)
        /\ ChunksClose(end)
        /\ byPeer' = TRUE
     \/ /\ Finished
        /\ UNCHANGED <<queueVars, byPeer>>
  /\ UNCHANGED <<broken, sent, arrived, peerEnd>>

\* Stream.close() by the application, or by the connection or endpoint closing.
StreamCloses ==
  /\ Finish("done")
  /\ ChunksClose("done")
  /\ UNCHANGED <<byPeer, broken, bridge, sent, arrived, peerEnd>>

\* A consumer asks for a chunk.
ConsumerNext ==
  /\ next
  /\ UNCHANGED <<settlement, byPeer, broken, bridge, nativeVars>>

\* A consumer leaves its loop: MessageQueue.return, which closes the queue only.
ConsumerBreaks ==
  /\ ~broken
  /\ broken' = TRUE
  /\ ChunksClose("done")
  /\ UNCHANGED <<settlement, byPeer, bridge, nativeVars>>
-------------------------------------------------------------------------------
(* The peer and the network.                                                 *)

PeerSends ==
  /\ peerEnd = "no"
  /\ sent < MaxPush
  /\ sent' = sent + 1
  /\ UNCHANGED <<queueVars, settlement, byPeer, broken, bridge, registered, reader,
                 arrived, peerEnd>>

\* The peer finishes its side, or closes the connection, or something fails.
PeerEnds(how) ==
  /\ peerEnd = "no"
  /\ peerEnd' = how
  /\ UNCHANGED <<queueVars, settlement, byPeer, broken, bridge, registered, reader,
                 sent, arrived>>

(* The read task.  Being aborted, it may go on until it next awaits.         *)

Reading == reader \in {"running", "aborting"}

Reads ==
  /\ Reading
  /\ arrived < sent
  /\ arrived' = arrived + 1
  /\ bridge' = Append(bridge, "data")
  /\ UNCHANGED <<queueVars, settlement, byPeer, broken, registered, reader, sent,
                 peerEnd>>

\* Mutant: the task returns without calling on_close.
ReaderEndsSilently ==
  /\ Reading
  /\ peerEnd # "no"
  /\ peerEnd = "finished" => arrived = sent
  /\ reader' = "ended"
  /\ UNCHANGED <<queueVars, settlement, byPeer, broken, bridge, registered, sent,
                 arrived, peerEnd>>

\* A closed connection or a failure may overtake chunks still on their way; the
\* first counts as an orderly end.
ReaderEnds ==
  /\ Reading
  /\ peerEnd # "no"
  /\ peerEnd = "finished" => arrived = sent
  /\ bridge' = Append(bridge, IF peerEnd = "failed" THEN "error" ELSE "end")
  /\ reader' = "ended"
  /\ UNCHANGED <<queueVars, settlement, byPeer, broken, registered, sent, arrived,
                 peerEnd>>

AbortLands ==
  /\ reader = "aborting"
  /\ reader' = "stopped"
  /\ UNCHANGED <<queueVars, settlement, byPeer, broken, bridge, registered, sent,
                 arrived, peerEnd>>
-------------------------------------------------------------------------------
\* The queue is made with an onLagged that finishes the stream.
StreamInit ==
  /\ FatalLag
  /\ Init
  /\ settlement = "open"
  /\ byPeer = FALSE
  /\ broken = FALSE
  /\ bridge = << >>
  /\ registered = TRUE
  /\ reader = "running"
  /\ sent = 0
  /\ arrived = 0
  /\ peerEnd = "no"

StreamNext ==
  \/ OnData
  \/ \E end \in {"done", "error"} : OnClose(end)
  \/ StreamCloses
  \/ ConsumerNext
  \/ ConsumerBreaks
  \/ PeerSends
  \/ \E how \in {"finished", "closed", "failed"} : PeerEnds(how)
  \/ Reads
  \/ ReaderEnds
  \/ AbortLands

StreamSpec == StreamInit /\ [][StreamNext]_vars

(* The JS thread keeps taking tasks and the runtime keeps polling the read   *)
(* task; the peer, the network and the application owe nothing.              *)
Fairness ==
  /\ WF_vars(OnData \/ \E end \in {"done", "error"} : OnClose(end))
  /\ WF_vars(Reads \/ ReaderEnds)
  /\ WF_vars(AbortLands)

FairSpec == StreamSpec /\ Fairness
-------------------------------------------------------------------------------
\* Every variable keeps its shape; no more chunks arrive than are sent, and each
\* that arrived is on the bridge or was pushed.
StreamTypeOK ==
  /\ TypeOK
  /\ settlement \in {"open", "resolved", "rejected"}
  /\ <<byPeer, broken, registered>> \in BOOLEAN \X BOOLEAN \X BOOLEAN
  /\ bridge \in Seq({"data", "end", "error"})
  /\ reader \in {"running", "aborting", "ended", "stopped"}
  /\ sent \in 0..MaxPush /\ arrived \in 0..sent
  /\ peerEnd \in {"no", "finished", "closed", "failed"}
  /\ arrived = pushes + Cardinality({i \in DOMAIN bridge : bridge[i] = "data"})

\* Every variable keeps its type, and `closed` and the loop over `data` tell one
\* story, whichever of overflow, peer, network and application ends the stream: after
\* a failure no loop ends before one was thrown the error, and after an orderly end
\* none is thrown one.
OneStory ==
  /\ StreamTypeOK
  /\ settlement = "rejected" /\ ~broken =>
       \A d \in Calls : result[d] = Done =>
         \E c \in 1..(d - 1) : result[c] = Error
  /\ settlement # "rejected" => \A c \in Calls : result[c] # Error

\* A settled stream leaves nothing behind: no native handle, no task still meant
\* to read, and no consumer parked (streams.ts:326).
SettledReleases ==
  settlement # "open" =>
    /\ ~registered /\ reader # "running" /\ isClosed
    /\ \A c \in Calls : result[c] # Parked

\* What the application reads is a prefix of what the peer sent, whatever overflows,
\* overtakes or is pushed late (streams.ts:271).
PrefixRead ==
  \A w \in 1..sent : Delivered(w) => \A v \in 1..w : Delivered(v)

\* An end of the stream is always heard of: `closed` settles and no loop hangs.
EndIsHeard ==
  peerEnd # "no" ~>
    settlement # "open" /\ \A c \in Calls : result[c] # Parked

\* The contract of Stream.data, streams.ts:49-53: "the chunks received on this
\* stream, in order" and "Iteration ends when the peer finishes the stream": what
\* the peer sent before it finished is read or can still be read.
FinishedStreamIsReadable ==
  settlement = "resolved" /\ byPeer /\ peerEnd = "finished" /\ ~broken =>
    \A v \in 1..sent : Delivered(v) \/ Buffered(v)
===============================================================================
