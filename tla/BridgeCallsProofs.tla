--------------------------- MODULE BridgeCallsProofs ---------------------------
(***************************************************************************)
(* What crosses the native interface, from both sides.                     *)
(*                                                                         *)
(* First BridgeCalls: who owns what JavaScript hands to native code, for   *)
(* any number of calls of any of the native methods.  The argument: a      *)
(* completer is owned as long as its promise waits, LetGo keeps that in    *)
(* step with the settlements, and every place that drops out takes its     *)
(* ownership with it.  A stopped registration is not forgotten either: the *)
(* calls that were using it still run, and the last of them aborts it.     *)
(*                                                                         *)
(* Then EndpointHook over AddrWatch: what JavaScript makes of the ids and  *)
(* announcements it gets in return, for any number of subscribers.  The    *)
(* argument: an id is at one place only, in the call that returns it, on   *)
(* the bridge or on record, and names a running watch wherever it is; and  *)
(* an endpoint belongs to its announcement until that has arrived.         *)
(***************************************************************************)
EXTENDS BridgeCalls, EndpointHook, SequenceTheorems, FiniteSetTheorems, TLAPS

\* What is owned was brought in by the call.
OwnedWasBrought ==
  \A c \in Call : \A x \in Thing :
    owners[c][x] # {} => method[c] # None /\ x \in Brought(method[c])

\* A call that was not made has left no trace.
UnmadeIsBlank ==
  \A c \in Call : method[c] = None =>
    settlements[c] = 0 /\ returned[c] = "none" /\ task[c] = "none"

\* A worker, and an announced handle, come from a task.
TaskComesFirst ==
  \A c \in Call : task[c] = "none" => worker[c] = "none" /\ c \notin announced

\* The call in the frame has not returned.
FrameIsOpen ==
  \A c \in Call : frame = c => method[c] # None /\ returned[c] = "none"

\* The parts of EverythingIsOwned.
WaitingIsOwned ==
  \A c \in Call : Waiting(c) <=> owners[c]["promise"] # {}

OwnersAreAlive ==
  \A c \in Call : \A x \in Thing :
    /\ "frame" \in owners[c][x] => frame = c
    /\ "task" \in owners[c][x] => task[c] \in {"running", "aborting"}
    /\ "worker" \in owners[c][x] => worker[c] \in {"running", "aborting"}

FailedHoldsNothing ==
  \A c \in Call : returned[c] = "error" =>
    /\ Held(c) = {}
    /\ task[c] = "none" /\ c \notin announced

IInv ==
  /\ TypeOK
  /\ WaitingIsOwned
  /\ OwnersAreAlive
  /\ FailedHoldsNothing
  /\ OwnedWasBrought
  /\ UnmadeIsBlank
  /\ TaskComesFirst
  /\ FrameIsOpen
-------------------------------------------------------------------------------
(* What the table of methods says of promises and callbacks.                 *)
LEMMA MethodFacts ==
  \A m \in HybridIrohSpec :
    /\ m.shim.promise \in BOOLEAN
    /\ "promise" \notin m.shim.callbacks
    /\ m.kind = "join" => /\ ~m.shim.promise
                          /\ {"on_message", "on_neighbor"} \subseteq m.shim.callbacks
    /\ m.kind = "stop" => ~m.shim.promise /\ m.shim.callbacks = {}
<1>. DEFINE Good(m) ==
       /\ m.shim.promise \in BOOLEAN
       /\ "promise" \notin m.shim.callbacks
       /\ m.kind = "join" => /\ ~m.shim.promise
                             /\ {"on_message", "on_neighbor"} \subseteq m.shim.callbacks
       /\ m.kind = "stop" => ~m.shim.promise /\ m.shim.callbacks = {}
<1>1. \A m \in {endpoint_id, is_endpoint_open, endpoint_addr, parse_ticket} : Good(m)
  <2>1. /\ endpoint_id.kind = "query" /\ endpoint_id.shim = endpoint_id_shim
        /\ is_endpoint_open.kind = "query"
        /\ is_endpoint_open.shim = is_endpoint_open_shim
        /\ endpoint_addr.kind = "query" /\ endpoint_addr.shim = endpoint_addr_shim
        /\ parse_ticket.kind = "query" /\ parse_ticket.shim = parse_ticket_shim
    BY DEF endpoint_id, is_endpoint_open, endpoint_addr, parse_ticket, Query,
           Method
  <2>2. /\ endpoint_id_shim.promise = FALSE /\ endpoint_id_shim.callbacks = {}
        /\ is_endpoint_open_shim.promise = FALSE
        /\ is_endpoint_open_shim.callbacks = {}
        /\ endpoint_addr_shim.promise = FALSE /\ endpoint_addr_shim.callbacks = {}
        /\ parse_ticket_shim.promise = FALSE /\ parse_ticket_shim.callbacks = {}
    BY DEF endpoint_id_shim, is_endpoint_open_shim, endpoint_addr_shim,
           parse_ticket_shim, Shim
  <2>. QED  BY <2>1, <2>2
<1>2. \A m \in {create_endpoint, remote_info, endpoint_online, close_endpoint,
                share_blob, share_collection, collection_manifest,
                gossip_broadcast, stream_connect, stream_open_stream, stream_send} : Good(m)
  <2>1. /\ create_endpoint.kind = "work"
        /\ create_endpoint.shim = create_endpoint_shim
        /\ remote_info.kind = "work" /\ remote_info.shim = remote_info_shim
        /\ endpoint_online.kind = "work"
        /\ endpoint_online.shim = endpoint_online_shim
        /\ close_endpoint.kind = "work" /\ close_endpoint.shim = close_endpoint_shim
        /\ share_blob.kind = "work" /\ share_blob.shim = share_blob_shim
        /\ share_collection.kind = "work"
        /\ share_collection.shim = share_collection_shim
        /\ collection_manifest.kind = "work"
        /\ collection_manifest.shim = collection_manifest_shim
        /\ gossip_broadcast.kind = "work"
        /\ gossip_broadcast.shim = gossip_broadcast_shim
        /\ stream_connect.kind = "work" /\ stream_connect.shim = stream_connect_shim
        /\ stream_open_stream.kind = "work"
        /\ stream_open_stream.shim = stream_open_stream_shim
        /\ stream_send.kind = "work" /\ stream_send.shim = stream_send_shim
    BY DEF create_endpoint, remote_info, endpoint_online, close_endpoint,
           share_blob, share_collection, collection_manifest, gossip_broadcast,
           stream_connect, stream_open_stream, stream_send, Work, WorkOn, Method
  <2>2. /\ create_endpoint_shim.promise = TRUE
        /\ create_endpoint_shim.callbacks = {}
        /\ remote_info_shim.promise = TRUE /\ remote_info_shim.callbacks = {}
        /\ endpoint_online_shim.promise = TRUE
        /\ endpoint_online_shim.callbacks = {}
        /\ close_endpoint_shim.promise = TRUE /\ close_endpoint_shim.callbacks = {}
        /\ share_blob_shim.promise = TRUE /\ share_blob_shim.callbacks = {}
        /\ share_collection_shim.promise = TRUE
        /\ share_collection_shim.callbacks = {}
        /\ collection_manifest_shim.promise = TRUE
        /\ collection_manifest_shim.callbacks = {}
        /\ gossip_broadcast_shim.promise = TRUE
        /\ gossip_broadcast_shim.callbacks = {}
        /\ stream_connect_shim.promise = TRUE /\ stream_connect_shim.callbacks = {}
        /\ stream_open_stream_shim.promise = TRUE
        /\ stream_open_stream_shim.callbacks = {}
        /\ stream_send_shim.promise = TRUE /\ stream_send_shim.callbacks = {}
    BY DEF create_endpoint_shim, remote_info_shim, endpoint_online_shim,
           close_endpoint_shim, share_blob_shim, share_collection_shim,
           collection_manifest_shim, gossip_broadcast_shim, stream_connect_shim,
           stream_open_stream_shim, stream_send_shim, Shim
  <2>. QED  BY <2>1, <2>2
<1>3. \A m \in {watch_addr, stream_listen, stream_connection_subscribe,
                stream_subscribe} : Good(m)
  <2>1. /\ watch_addr.kind = "watch" /\ watch_addr.shim = watch_addr_shim
        /\ stream_listen.kind = "watch" /\ stream_listen.shim = stream_listen_shim
        /\ stream_connection_subscribe.kind = "watch"
        /\ stream_connection_subscribe.shim = stream_connection_subscribe_shim
        /\ stream_subscribe.kind = "watch"
        /\ stream_subscribe.shim = stream_subscribe_shim
    BY DEF watch_addr, stream_listen, stream_connection_subscribe,
           stream_subscribe, Watch, Method
  <2>2. /\ watch_addr_shim.promise = FALSE
        /\ "promise" \notin watch_addr_shim.callbacks
        /\ stream_listen_shim.promise = FALSE
        /\ "promise" \notin stream_listen_shim.callbacks
        /\ stream_connection_subscribe_shim.promise = FALSE
        /\ "promise" \notin stream_connection_subscribe_shim.callbacks
        /\ stream_subscribe_shim.promise = FALSE
        /\ "promise" \notin stream_subscribe_shim.callbacks
    BY DEF watch_addr_shim, stream_listen_shim, stream_connection_subscribe_shim,
           stream_subscribe_shim, Shim
  <2>. QED  BY <2>1, <2>2
<1>4. \A m \in {stop_watch_addr, cancel_download, gossip_unsubscribe,
                stop_stream_listen, stream_close_connection, stream_close} : Good(m)
  <2>1. /\ stop_watch_addr.kind = "stop"
        /\ stop_watch_addr.shim = stop_watch_addr_shim
        /\ cancel_download.kind = "stop"
        /\ cancel_download.shim = cancel_download_shim
        /\ gossip_unsubscribe.kind = "stop"
        /\ gossip_unsubscribe.shim = gossip_unsubscribe_shim
        /\ stop_stream_listen.kind = "stop"
        /\ stop_stream_listen.shim = stop_stream_listen_shim
        /\ stream_close_connection.kind = "stop"
        /\ stream_close_connection.shim = stream_close_connection_shim
        /\ stream_close.kind = "stop" /\ stream_close.shim = stream_close_shim
    BY DEF stop_watch_addr, cancel_download, gossip_unsubscribe,
           stop_stream_listen, stream_close_connection, stream_close, Stop, Method
  <2>2. /\ stop_watch_addr_shim.promise = FALSE
        /\ stop_watch_addr_shim.callbacks = {}
        /\ cancel_download_shim.promise = FALSE
        /\ cancel_download_shim.callbacks = {}
        /\ gossip_unsubscribe_shim.promise = FALSE
        /\ gossip_unsubscribe_shim.callbacks = {}
        /\ stop_stream_listen_shim.promise = FALSE
        /\ stop_stream_listen_shim.callbacks = {}
        /\ stream_close_connection_shim.promise = FALSE
        /\ stream_close_connection_shim.callbacks = {}
        /\ stream_close_shim.promise = FALSE /\ stream_close_shim.callbacks = {}
    BY DEF stop_watch_addr_shim, cancel_download_shim, gossip_unsubscribe_shim,
           stop_stream_listen_shim, stream_close_connection_shim,
           stream_close_shim, Shim
  <2>. QED  BY <2>1, <2>2
<1>5. Good(download_blob)
  <2>1. download_blob.kind = "download" /\ download_blob.shim = download_blob_shim
    BY DEF download_blob, Method
  <2>2. /\ download_blob_shim.promise = TRUE
        /\ "promise" \notin download_blob_shim.callbacks
    BY DEF download_blob_shim, Shim
  <2>. QED  BY <2>1, <2>2
<1>6. Good(gossip_subscribe)
  <2>1. /\ gossip_subscribe.kind = "join"
        /\ gossip_subscribe.shim = gossip_subscribe_shim
    BY DEF gossip_subscribe, Method
  <2>2. /\ gossip_subscribe_shim.promise = FALSE
        /\ "promise" \notin gossip_subscribe_shim.callbacks
        /\ {"on_message", "on_neighbor"} \subseteq gossip_subscribe_shim.callbacks
    BY DEF gossip_subscribe_shim, Shim
  <2>. QED  BY <2>1, <2>2
<1>7. \A m \in HybridIrohSpec : Good(m)
  <2>. HIDE DEF Good
  <2>. QED  BY <1>1, <1>2, <1>3, <1>4, <1>5, <1>6 DEF HybridIrohSpec
<1>. QED  BY <1>7

(* What a call brings in is a thing, and the promise only with a completer.  *)
LEMMA BroughtIsThing ==
  \A m \in HybridIrohSpec : /\ Brought(m) \subseteq Thing
                            /\ "promise" \in Brought(m) <=> m.shim.promise
<1>. TAKE m \in HybridIrohSpec
<1>1. m.shim.callbacks \subseteq Callback
  BY DEF Callback
<1>. QED  BY <1>1, MethodFacts DEF Brought, Thing

(* What dropping does: ownership only shrinks, the promise is settled exactly *)
(* when its completer is gone, and never twice.                               *)
LEMMA LetGoKeeps ==
  ASSUME TypeOK, WaitingIsOwned, NEW c \in Call, NEW places \in SUBSET Place,
         NEW answered \in BOOLEAN, LetGo(c, places, answered)
  PROVE  /\ owners' \in [Call -> [Thing -> SUBSET Place]]
         /\ settlements' \in [Call -> 0..1]
         /\ \A d \in Call \ {c} : owners'[d] = owners[d] /\ settlements'[d] = settlements[d]
         /\ \A x \in Thing : owners'[c][x] \subseteq owners[c][x] \ places
         /\ owners'[c]["promise"] # {} <=>
              method[c] # None /\ method[c].shim.promise /\ settlements'[c] = 0
         /\ settlements'[c] = settlements[c] \/ method[c] # None
<1>. DEFINE held == owners[c]["promise"]
            now == held # {} /\ (answered \/ held \subseteq places)
<1>0. "promise" \in Thing
  BY DEF Thing
<1>1. owners' = [owners EXCEPT ![c] =
                   [x \in Thing |-> IF now /\ x = "promise" THEN {}
                                    ELSE owners[c][x] \ places]]
  BY DEF LetGo
<1>2. settlements' = [settlements EXCEPT ![c] = IF now THEN settlements[c] + 1
                                                ELSE settlements[c]]
  BY DEF LetGo
<1>3. now => method[c] # None /\ method[c].shim.promise /\ settlements[c] = 0
  BY DEF WaitingIsOwned, Waiting
<1>4. \A x \in Thing : owners'[c][x] = IF now /\ x = "promise" THEN {}
                                       ELSE owners[c][x] \ places
  BY <1>1 DEF TypeOK
<1>5. settlements'[c] = IF now THEN 1 ELSE settlements[c]
  BY <1>2, <1>3 DEF TypeOK
<1>6. owners' \in [Call -> [Thing -> SUBSET Place]]
  <2>. HIDE DEF now, held
  <2>1. [x \in Thing |-> IF now /\ x = "promise" THEN {} ELSE owners[c][x] \ places]
          \in [Thing -> SUBSET Place]
    BY DEF TypeOK
  <2>. QED  BY <1>1, <2>1 DEF TypeOK
<1>7. settlements' \in [Call -> 0..1]
  BY <1>2, <1>3 DEF TypeOK
<1>8. \A d \in Call \ {c} : owners'[d] = owners[d] /\ settlements'[d] = settlements[d]
  BY <1>1, <1>2 DEF TypeOK
<1>9. owners'[c]["promise"] # {} <=>
        method[c] # None /\ method[c].shim.promise /\ settlements'[c] = 0
  <2>1. CASE now
    <3>1. owners'[c]["promise"] = {}
      BY <2>1, <1>0, <1>4
    <3>2. settlements'[c] # 0
      BY <2>1, <1>5
    <3>. QED  BY <3>1, <3>2
  <2>2. CASE ~now
    <3>1. owners'[c]["promise"] = held \ places /\ settlements'[c] = settlements[c]
      BY <2>2, <1>0, <1>4, <1>5
    <3>2. owners'[c]["promise"] # {} <=> held # {}
      BY <2>2, <3>1
    <3>. QED  BY <3>1, <3>2 DEF WaitingIsOwned, Waiting
  <2>. QED  BY <2>1, <2>2
<1>10. settlements'[c] = settlements[c] \/ method[c] # None
  BY <1>3, <1>5
<1>. QED  BY <1>4, <1>6, <1>7, <1>8, <1>9, <1>10

(* What a drop does to the invariant, whoever lets go.                       *)
LEMMA LetGoInv ==
  ASSUME IInv, NEW c \in Call, NEW places \in SUBSET Place, NEW answered \in BOOLEAN,
         LetGo(c, places, answered), method' = method
  PROVE  /\ owners' \in [Call -> [Thing -> SUBSET Place]]
         /\ settlements' \in [Call -> 0..1]
         /\ WaitingIsOwned'
         /\ OwnedWasBrought'
         /\ \A d \in Call : method[d] = None => settlements'[d] = 0
         /\ \A d \in Call : \A x \in Thing : owners'[d][x] \subseteq owners[d][x]
         /\ \A x \in Thing : owners'[c][x] \subseteq owners[c][x] \ places
<1>. USE DEF IInv
<1>1. /\ owners' \in [Call -> [Thing -> SUBSET Place]]
      /\ settlements' \in [Call -> 0..1]
      /\ \A d \in Call \ {c} : owners'[d] = owners[d] /\ settlements'[d] = settlements[d]
      /\ \A x \in Thing : owners'[c][x] \subseteq owners[c][x] \ places
      /\ owners'[c]["promise"] # {} <=>
           method[c] # None /\ method[c].shim.promise /\ settlements'[c] = 0
      /\ settlements'[c] = settlements[c] \/ method[c] # None
  BY LetGoKeeps
<1>2. \A d \in Call : \A x \in Thing : owners'[d][x] \subseteq owners[d][x]
  BY <1>1
<1>3. WaitingIsOwned'
  <2>. SUFFICES ASSUME NEW d \in Call
                PROVE  Waiting(d)' <=> owners'[d]["promise"] # {}
    BY DEF WaitingIsOwned
  <2>1. CASE d = c
    BY <2>1, <1>1 DEF Waiting
  <2>2. CASE d # c
    <3>1. owners'[d] = owners[d] /\ settlements'[d] = settlements[d]
      BY <2>2, <1>1
    <3>2. Waiting(d) <=> owners[d]["promise"] # {}
      BY DEF WaitingIsOwned
    <3>. QED  BY <3>1, <3>2 DEF Waiting
  <2>. QED  BY <2>1, <2>2
<1>4. OwnedWasBrought'
  <2>. SUFFICES ASSUME NEW d \in Call, NEW x \in Thing, owners'[d][x] # {}
                PROVE  method[d] # None /\ x \in Brought(method[d])
    BY DEF OwnedWasBrought
  <2>1. owners[d][x] # {}
    BY <1>2
  <2>. QED  BY <2>1 DEF OwnedWasBrought
<1>5. \A d \in Call : method[d] = None => settlements'[d] = 0
  BY <1>1 DEF UnmadeIsBlank
<1>. QED  BY <1>1, <1>2, <1>3, <1>4, <1>5

(* What the frame owns goes when the call returns.  Without a task nothing   *)
(* else can own anything, so a call that fails in place is left with nothing. *)
LEMMA FrameLeaves ==
  ASSUME IInv, NEW c \in Call, NEW answered \in BOOLEAN, NEW r \in {"ok", "error"},
         frame = c, LetGo(c, {"frame"}, answered), frame' = None,
         returned' = [returned EXCEPT ![c] = r],
         r = "error" => task[c] = "none",
         announced' \subseteq announced \cup {c},
         task[c] = "none" => announced' = announced,
         registered' \subseteq Call, runtime' \in {"unbuilt", "built", "poisoned"},
         UNCHANGED <<method, task, worker, using, stopped>>
  PROVE  IInv'
<1>. DEFINE places == {"frame"}
<1>0. places \in SUBSET Place /\ method' = method /\ LetGo(c, places, answered)
  BY DEF Place
<1>. HIDE DEF places
<1>1. owners' \in [Call -> [Thing -> SUBSET Place]] /\ settlements' \in [Call -> 0..1]
  BY <1>0, LetGoInv
<1>2. WaitingIsOwned'
  BY <1>0, LetGoInv
<1>3. OwnedWasBrought'
  BY <1>0, LetGoInv
<1>4. \A d \in Call : method[d] = None => settlements'[d] = 0
  BY <1>0, LetGoInv
<1>5. \A d \in Call : \A x \in Thing : owners'[d][x] \subseteq owners[d][x]
  BY <1>0, LetGoInv
<1>6. \A x \in Thing : owners'[c][x] \subseteq owners[c][x] \ places
  BY <1>0 DEF LetGo, IInv, TypeOK
<1>. USE DEF IInv, places
<1>7. /\ returned'[c] = r
      /\ \A d \in Call \ {c} : returned'[d] = returned[d]
      /\ returned' \in [Call -> {"none", "ok", "error"}]
  BY DEF TypeOK
<1>8. TypeOK'
  <2>1. (registered \cup announced \cup stopped)' \subseteq Call /\ frame' = None
    BY DEF TypeOK
  <2>2. using' \in [Call -> Call \cup {None}]
    BY DEF TypeOK
  <2>. QED  BY <1>1, <1>7, <2>1, <2>2 DEF TypeOK
<1>9. OwnersAreAlive'
  <2>. SUFFICES ASSUME NEW d \in Call, NEW x \in Thing
                PROVE  /\ "frame" \notin owners'[d][x]
                       /\ "task" \in owners'[d][x] => task[d] \in {"running", "aborting"}
                       /\ "worker" \in owners'[d][x] => worker[d] \in {"running", "aborting"}
    BY DEF OwnersAreAlive
  <2>1. owners'[d][x] \subseteq owners[d][x]
    BY <1>5
  <2>2. "frame" \notin owners'[d][x]
    BY <2>1, <1>6 DEF OwnersAreAlive
  <2>. QED  BY <2>1, <2>2 DEF OwnersAreAlive
<1>10. FailedHoldsNothing'
  <2>. SUFFICES ASSUME NEW d \in Call, returned'[d] = "error"
                PROVE  Held(d)' = {} /\ task[d] = "none" /\ d \notin announced'
    BY DEF FailedHoldsNothing
  <2>1. CASE d = c
    <3>1. task[c] = "none" /\ worker[c] = "none" /\ c \notin announced'
      BY <2>1, <1>7 DEF TaskComesFirst
    <3>2. ASSUME NEW x \in Thing
          PROVE  owners'[c][x] = {}
      <4>1. owners'[c][x] \subseteq Place /\ owners'[c][x] \subseteq owners[c][x]
        BY <1>1, <1>5
      <4>2. "frame" \notin owners'[c][x]
        BY <1>6
      <4>3. "task" \notin owners[c][x] /\ "worker" \notin owners[c][x]
        BY <3>1 DEF OwnersAreAlive
      <4>. QED  BY <4>1, <4>2, <4>3 DEF Place
    <3>. QED  BY <2>1, <3>1, <3>2 DEF Held
  <2>2. CASE d # c
    <3>1. returned[d] = "error"
      BY <2>2, <1>7
    <3>. QED  BY <3>1, <2>2, <1>5 DEF FailedHoldsNothing, Held
  <2>. QED  BY <2>1, <2>2
<1>11. UnmadeIsBlank'
  BY <1>4, <1>7 DEF UnmadeIsBlank, FrameIsOpen
<1>12. TaskComesFirst'
  BY DEF TaskComesFirst
<1>13. FrameIsOpen'
  BY NoneAssumption DEF FrameIsOpen
<1>. QED  BY <1>2, <1>3, <1>8, <1>9, <1>10, <1>11, <1>12, <1>13

\* A task or worker of this call is left alone, or sent an abort.
GoesOn(state, d) ==
  state'[d] = state[d] \/ (state[d] = "running" /\ state'[d] = "aborting")

(* What a task or a worker owns goes when it ends.                           *)
LEMMA RuntimeLetsGo ==
  ASSUME IInv, NEW c \in Call, NEW answered \in BOOLEAN,
         NEW place \in {"task", "worker"}, LetGo(c, {place}, answered),
         task[c] # "none",
         task' \in [Call -> {"none", "running", "aborting", "ended"}],
         worker' \in [Call -> {"none", "running", "aborting", "ended"}],
         \A d \in Call \ {c} : GoesOn(task, d) /\ GoesOn(worker, d),
         task'[c] # "none",
         task'[c] = task[c] \/ place = "task",
         \/ worker'[c] = worker[c]
         \/ worker[c] = "running" /\ worker'[c] = "aborting"
         \/ place = "worker",
         registered' \subseteq Call, using' \in [Call -> Call \cup {None}],
         UNCHANGED <<method, frame, returned, announced, stopped, runtime>>
  PROVE  IInv'
<1>. DEFINE places == {place}
<1>0. places \in SUBSET Place /\ method' = method /\ LetGo(c, places, answered)
  BY DEF Place
<1>. HIDE DEF places
<1>1. owners' \in [Call -> [Thing -> SUBSET Place]] /\ settlements' \in [Call -> 0..1]
  BY <1>0, LetGoInv
<1>2. WaitingIsOwned'
  BY <1>0, LetGoInv
<1>3. OwnedWasBrought'
  BY <1>0, LetGoInv
<1>4. \A d \in Call : method[d] = None => settlements'[d] = 0
  BY <1>0, LetGoInv
<1>5. \A d \in Call : \A x \in Thing : owners'[d][x] \subseteq owners[d][x]
  BY <1>0, LetGoInv
<1>6. \A x \in Thing : owners'[c][x] \subseteq owners[c][x] \ places
  BY <1>0 DEF LetGo, IInv, TypeOK
<1>. USE DEF IInv, places
<1>7. TypeOK'
  BY <1>1 DEF TypeOK
<1>8. OwnersAreAlive'
  <2>. SUFFICES ASSUME NEW d \in Call, NEW x \in Thing
                PROVE  /\ "frame" \in owners'[d][x] => frame = d
                       /\ "task" \in owners'[d][x] => task'[d] \in {"running", "aborting"}
                       /\ "worker" \in owners'[d][x] => worker'[d] \in {"running", "aborting"}
    BY DEF OwnersAreAlive
  <2>1. owners'[d][x] \subseteq owners[d][x]
    BY <1>5
  <2>2. /\ "frame" \in owners[d][x] => frame = d
        /\ "task" \in owners[d][x] => task[d] \in {"running", "aborting"}
        /\ "worker" \in owners[d][x] => worker[d] \in {"running", "aborting"}
    BY DEF OwnersAreAlive
  <2>3. CASE d # c
    <3>. GoesOn(task, d) /\ GoesOn(worker, d)
      BY <2>3
    <3>. QED  BY <2>1, <2>2 DEF GoesOn
  <2>4. CASE d = c
    <3>1. place \notin owners'[c][x]
      BY <1>6
    <3>. QED  BY <2>1, <2>2, <2>4, <3>1
  <2>. QED  BY <2>3, <2>4
<1>9. FailedHoldsNothing'
  <2>. SUFFICES ASSUME NEW d \in Call, returned[d] = "error"
                PROVE  Held(d)' = {} /\ task'[d] = "none" /\ d \notin announced
    BY DEF FailedHoldsNothing
  <2>1. Held(d) = {} /\ task[d] = "none" /\ d \notin announced
    BY DEF FailedHoldsNothing
  <2>2. d # c /\ GoesOn(task, d)
    BY <2>1
  <2>. QED  BY <2>1, <2>2, <1>5 DEF Held, GoesOn
<1>10. UnmadeIsBlank'
  <2>. SUFFICES ASSUME NEW d \in Call, method[d] = None
                PROVE  settlements'[d] = 0 /\ returned[d] = "none" /\ task'[d] = "none"
    BY DEF UnmadeIsBlank
  <2>1. returned[d] = "none" /\ task[d] = "none"
    BY DEF UnmadeIsBlank
  <2>2. d # c /\ GoesOn(task, d)
    BY <2>1
  <2>. QED  BY <1>4, <2>1, <2>2 DEF GoesOn
<1>11. TaskComesFirst'
  <2>. SUFFICES ASSUME NEW d \in Call, task'[d] = "none"
                PROVE  worker'[d] = "none" /\ d \notin announced
    BY DEF TaskComesFirst
  <2>1. d # c /\ GoesOn(task, d) /\ GoesOn(worker, d)
    OBVIOUS
  <2>. QED  BY <2>1 DEF TaskComesFirst, GoesOn
<1>12. FrameIsOpen'
  BY DEF FrameIsOpen
<1>. QED  BY <1>2, <1>3, <1>7, <1>8, <1>9, <1>10, <1>11, <1>12

(* Before any call, nothing is owned.                                       *)
LEMMA InitInv == Init => IInv
<1>. SUFFICES ASSUME Init PROVE IInv
  OBVIOUS
<1>. USE DEF Init
<1>1. \A c \in Call, x \in Thing : owners[c][x] = {}
  OBVIOUS
<1>2. TypeOK
  BY DEF TypeOK
<1>3. WaitingIsOwned
  <2>. "promise" \in Thing
    BY DEF Thing
  <2>. QED  BY <1>1 DEF WaitingIsOwned, Waiting
<1>4. OwnersAreAlive /\ OwnedWasBrought
  BY <1>1 DEF OwnersAreAlive, OwnedWasBrought
<1>5. FailedHoldsNothing /\ UnmadeIsBlank /\ TaskComesFirst
  BY DEF FailedHoldsNothing, UnmadeIsBlank, TaskComesFirst
<1>6. FrameIsOpen
  BY NoneAssumption DEF FrameIsOpen
<1>. QED  BY <1>2, <1>3, <1>4, <1>5, <1>6 DEF IInv

(* A fresh call owns exactly what its shim took over.                        *)
LEMMA EnterInv ==
  ASSUME IInv, NEW c \in Call, NEW m \in Methods, Enter(c, m)
  PROVE  IInv'
<1>. USE DEF IInv, Enter
<1>1. m \in HybridIrohSpec /\ m # None
  BY MethodsAssumption, NoneAssumption
<1>2. /\ settlements[c] = 0 /\ returned[c] = "none" /\ task[c] = "none"
      /\ worker[c] = "none" /\ c \notin announced
  BY DEF UnmadeIsBlank, TaskComesFirst
<1>3. /\ method'[c] = m
      /\ \A d \in Call \ {c} : method'[d] = method[d]
      /\ method' \in [Call -> Methods \cup {None}]
  BY DEF TypeOK
<1>4. /\ \A x \in Thing : owners'[c][x] = IF x \in Brought(m) THEN {"frame"} ELSE {}
      /\ \A d \in Call \ {c} : owners'[d] = owners[d]
  BY DEF TypeOK
<1>5. owners' \in [Call -> [Thing -> SUBSET Place]]
  <2>1. [x \in Thing |-> IF x \in Brought(m) THEN {"frame"} ELSE {}]
          \in [Thing -> SUBSET Place]
    BY DEF Place
  <2>. QED  BY <2>1 DEF TypeOK
<1>6. TypeOK'
  BY <1>3, <1>5 DEF TypeOK
<1>7. WaitingIsOwned'
  <2>. SUFFICES ASSUME NEW d \in Call
                PROVE  Waiting(d)' <=> owners'[d]["promise"] # {}
    BY DEF WaitingIsOwned
  <2>1. CASE d = c
    <3>1. "promise" \in Thing /\ ("promise" \in Brought(m) <=> m.shim.promise)
      BY <1>1, BroughtIsThing DEF Thing
    <3>2. owners'[c]["promise"] # {} <=> m.shim.promise
      BY <3>1, <1>4
    <3>. QED  BY <2>1, <3>2, <1>1, <1>2, <1>3 DEF Waiting
  <2>2. CASE d # c
    <3>1. Waiting(d) <=> owners[d]["promise"] # {}
      BY DEF WaitingIsOwned
    <3>2. method'[d] = method[d] /\ owners'[d] = owners[d]
      BY <2>2, <1>3, <1>4
    <3>. QED  BY <3>1, <3>2 DEF Waiting
  <2>. QED  BY <2>1, <2>2
<1>8. OwnersAreAlive'
  <2>. SUFFICES ASSUME NEW d \in Call, NEW x \in Thing
                PROVE  /\ "frame" \in owners'[d][x] => d = c
                       /\ "task" \in owners'[d][x] => task[d] \in {"running", "aborting"}
                       /\ "worker" \in owners'[d][x] => worker[d] \in {"running", "aborting"}
    BY DEF OwnersAreAlive
  <2>1. CASE d = c
    BY <2>1, <1>4
  <2>2. CASE d # c
    BY <2>2, <1>4, NoneAssumption DEF OwnersAreAlive
  <2>. QED  BY <2>1, <2>2
<1>9. FailedHoldsNothing'
  <2>. SUFFICES ASSUME NEW d \in Call, returned[d] = "error"
                PROVE  Held(d)' = {} /\ task[d] = "none" /\ d \notin announced
    BY DEF FailedHoldsNothing
  <2>1. d # c
    BY <1>2
  <2>. QED  BY <2>1, <1>4 DEF FailedHoldsNothing, Held
<1>10. OwnedWasBrought'
  <2>. SUFFICES ASSUME NEW d \in Call, NEW x \in Thing, owners'[d][x] # {}
                PROVE  method'[d] # None /\ x \in Brought(method'[d])
    BY DEF OwnedWasBrought, Brought
  <2>1. CASE d = c
    BY <2>1, <1>1, <1>3, <1>4
  <2>2. CASE d # c
    BY <2>2, <1>3, <1>4 DEF OwnedWasBrought
  <2>. QED  BY <2>1, <2>2
<1>11. UnmadeIsBlank' /\ TaskComesFirst' /\ FrameIsOpen'
  BY <1>1, <1>2, <1>3 DEF UnmadeIsBlank, TaskComesFirst, FrameIsOpen
<1>. QED  BY <1>6, <1>7, <1>8, <1>9, <1>10, <1>11

(* The four ways a call that is not a stop returns.                          *)
LEMMA FrameSteps ==
  ASSUME IInv, NEW c \in Call,
         Refused(c) \/ Answers(c) \/ SpawnPanics(c) \/ Returns(c)
  PROVE  IInv'
<1>1. /\ registered \subseteq Call /\ runtime \in {"unbuilt", "built", "poisoned"}
      /\ announced \subseteq announced \cup {c}
  BY DEF IInv, TypeOK
<1>2. CASE Refused(c)
  <2>1. method[c].shim.promise \in BOOLEAN
    BY <1>2, MethodFacts, MethodsAssumption DEF Refused, InFrame, IInv, TypeOK, FrameIsOpen
  <2>2. PICK r \in {"ok", "error"} : r = "error"
    OBVIOUS
  <2>. QED  BY <1>1, <1>2, <2>1, <2>2, FrameLeaves DEF Refused, InFrame
<1>3. CASE Answers(c)
  <2>1. PICK r \in {"ok", "error"} : r = "ok"
    OBVIOUS
  <2>. QED  BY <1>1, <1>3, <2>1, FrameLeaves DEF Answers, InFrame
<1>4. CASE SpawnPanics(c)
  <2>1. registered' \subseteq Call
    BY <1>1, <1>4 DEF SpawnPanics
  <2>2. PICK r \in {"ok", "error"} : r = "error"
    OBVIOUS
  <2>. QED  BY <1>1, <1>4, <2>1, <2>2, FrameLeaves DEF SpawnPanics, InFrame
<1>5. CASE Returns(c)
  <2>1. announced' \subseteq announced \cup {c}
    BY <1>5 DEF Returns
  <2>2. PICK r \in {"ok", "error"} : r = "ok"
    OBVIOUS
  <2>. QED  BY <1>1, <1>5, <2>1, <2>2, FrameLeaves DEF Returns
<1>. QED  BY <1>2, <1>3, <1>4, <1>5

(* The task takes the things over, and shares them with what it starts.      *)
LEMMA SpawnsInv ==
  ASSUME IInv, NEW c \in Call, Spawns(c)
  PROVE  IInv'
<1>. USE DEF IInv, Spawns, InFrame
<1>1. /\ task'[c] = "running"
      /\ \A d \in Call \ {c} : task'[d] = task[d] /\ worker'[d] = worker[d]
      /\ task' \in [Call -> {"none", "running", "aborting", "ended"}]
  BY DEF TypeOK
<1>2. /\ worker' \in [Call -> {"none", "running", "aborting", "ended"}]
      /\ method[c].kind = "download" => worker'[c] = "running"
  BY DEF TypeOK
<1>3. owners'[c] = AfterSpawn(c) /\ \A d \in Call \ {c} : owners'[d] = owners[d]
  BY DEF TypeOK
<1>4. \A x \in Thing : /\ AfterSpawn(c)[x] \subseteq {"frame", "task", "worker"}
                       /\ AfterSpawn(c)[x] = {} <=> owners[c][x] = {}
                       /\ "worker" \in AfterSpawn(c)[x] => method[c].kind = "download"
  BY DEF AfterSpawn
<1>5. owners' \in [Call -> [Thing -> SUBSET Place]]
  <2>1. AfterSpawn(c) \in [Thing -> SUBSET Place]
    BY DEF AfterSpawn, Place
  <2>. QED  BY <2>1 DEF TypeOK
<1>6. TypeOK'
  <2>1. using' \in [Call -> Call \cup {None}]
    <3>1. CASE method[c].on = None
      BY <3>1 DEF TypeOK
    <3>2. CASE method[c].on # None
      <4>1. PICK d \in Found(c) : using' = [using EXCEPT ![c] = d]
        BY <3>2
      <4>. QED  BY <4>1 DEF TypeOK, Found
    <3>. QED  BY <3>1, <3>2
  <2>2. (registered \cup announced \cup stopped)' \subseteq Call
    BY DEF TypeOK
  <2>. QED  BY <1>1, <1>2, <1>5, <2>1, <2>2 DEF TypeOK
<1>7. \A d \in Call, x \in Thing : owners'[d][x] = {} <=> owners[d][x] = {}
  BY <1>3, <1>4
<1>8. WaitingIsOwned'
  <2>. "promise" \in Thing
    BY DEF Thing
  <2>. QED  BY <1>7 DEF WaitingIsOwned, Waiting
<1>9. OwnersAreAlive'
  <2>. SUFFICES ASSUME NEW d \in Call, NEW x \in Thing
                PROVE  /\ "frame" \in owners'[d][x] => d = c
                       /\ "task" \in owners'[d][x] => task'[d] \in {"running", "aborting"}
                       /\ "worker" \in owners'[d][x] => worker'[d] \in {"running", "aborting"}
    BY DEF OwnersAreAlive
  <2>1. CASE d = c
    BY <2>1, <1>1, <1>2, <1>3, <1>4
  <2>2. CASE d # c
    BY <2>2, <1>1, <1>3 DEF OwnersAreAlive
  <2>. QED  BY <2>1, <2>2
<1>10. FailedHoldsNothing'
  <2>. SUFFICES ASSUME NEW d \in Call, returned[d] = "error"
                PROVE  Held(d)' = {} /\ task'[d] = "none" /\ d \notin announced
    BY DEF FailedHoldsNothing
  <2>1. d # c
    BY DEF FrameIsOpen
  <2>. QED  BY <2>1, <1>1, <1>3 DEF FailedHoldsNothing, Held
<1>11. OwnedWasBrought'
  BY <1>7 DEF OwnedWasBrought, Brought
<1>12. UnmadeIsBlank' /\ TaskComesFirst' /\ FrameIsOpen'
  BY <1>1 DEF UnmadeIsBlank, TaskComesFirst, FrameIsOpen
<1>. QED  BY <1>6, <1>8, <1>9, <1>10, <1>11, <1>12

(* A stop brings nothing in, and leaves what the stopped call owns to the    *)
(* task that owns it.                                                        *)
LEMMA StopSteps ==
  ASSUME IInv, NEW c \in Call,
         StopsNothing(c) \/ \E d \in Call : Stops(c, d)
  PROVE  IInv'
<1>0. /\ registered \subseteq Call /\ stopped \subseteq Call
      /\ task \in [Call -> {"none", "running", "aborting", "ended"}]
      /\ worker \in [Call -> {"none", "running", "aborting", "ended"}]
  BY DEF IInv, TypeOK
<1>1. /\ frame = c /\ method[c].kind = "stop" /\ frame' = None
      /\ returned' = [returned EXCEPT ![c] = "ok"]
      /\ UNCHANGED <<method, owners, settlements, using, announced, runtime>>
  BY DEF StopsNothing, Stops
<1>2. /\ task' \in [Call -> {"none", "running", "aborting", "ended"}]
      /\ worker' \in [Call -> {"none", "running", "aborting", "ended"}]
      /\ registered' \subseteq Call /\ stopped' \subseteq Call
      /\ \A e \in Call : task'[e] = task[e]
                         \/ (task[e] = "running" /\ task'[e] = "aborting")
      /\ \A e \in Call : worker'[e] = worker[e]
                         \/ (worker[e] = "running" /\ worker'[e] = "aborting")
  <2>1. CASE StopsNothing(c)
    BY <2>1, <1>0 DEF StopsNothing
  <2>2. CASE \E d \in Call : Stops(c, d)
    <3>1. PICK d \in Call : Stops(c, d)
      BY <2>2
    <3>2. PICK freed : task' = Aborted("watch", freed, task)
                       /\ worker' = Aborted("join", freed, worker)
      BY <3>1 DEF Stops
    <3>3. registered' \subseteq registered /\ stopped' = stopped \cup {d}
      BY <3>1 DEF Stops
    <3>. QED  BY <3>2, <3>3, <1>0 DEF Aborted
  <2>. QED  BY <2>1, <2>2
<1>. USE DEF IInv
<1>4. \A x \in Thing : owners[c][x] = {}
  <2>1. method[c] # None /\ method[c] \in HybridIrohSpec
    BY <1>1, MethodsAssumption DEF FrameIsOpen, TypeOK
  <2>2. Brought(method[c]) = {}
    BY <1>1, <2>1, MethodFacts DEF Brought
  <2>. QED  BY <2>2 DEF OwnedWasBrought
<1>5. TypeOK'
  BY <1>1, <1>2 DEF TypeOK
<1>6. WaitingIsOwned' /\ OwnedWasBrought'
  BY <1>1 DEF WaitingIsOwned, Waiting, OwnedWasBrought, Brought
<1>7. OwnersAreAlive'
  <2>. SUFFICES ASSUME NEW e \in Call, NEW x \in Thing
                PROVE  /\ "frame" \notin owners[e][x]
                       /\ "task" \in owners[e][x] => task'[e] \in {"running", "aborting"}
                       /\ "worker" \in owners[e][x] => worker'[e] \in {"running", "aborting"}
    BY <1>1 DEF OwnersAreAlive
  <2>1. "frame" \notin owners[e][x]
    BY <1>1, <1>4 DEF OwnersAreAlive
  <2>. QED  BY <2>1, <1>2 DEF OwnersAreAlive
<1>8. FailedHoldsNothing'
  <2>. SUFFICES ASSUME NEW e \in Call, returned'[e] = "error"
                PROVE  Held(e) = {} /\ task'[e] = "none" /\ e \notin announced
    BY <1>1 DEF FailedHoldsNothing, Held
  <2>1. returned[e] = "error"
    BY <1>1 DEF TypeOK
  <2>. QED  BY <2>1, <1>2 DEF FailedHoldsNothing
<1>9. UnmadeIsBlank' /\ TaskComesFirst'
  BY <1>1, <1>2 DEF UnmadeIsBlank, TaskComesFirst, FrameIsOpen, TypeOK
<1>10. FrameIsOpen'
  BY <1>1, NoneAssumption DEF FrameIsOpen
<1>. QED  BY <1>5, <1>6, <1>7, <1>8, <1>9, <1>10

(* The ways a task, or a worker inside it, ends.                             *)
LEMMA EndSteps ==
  ASSUME IInv, NEW c \in Call,
         \/ Completes(c) \/ Panics(c) \/ WorkerEnds(c) \/ DownloadEnds(c)
         \/ WatchEnds(c) \/ JoinFails(c) \/ AbortLands(c)
  PROVE  IInv'
<1>1. /\ registered \subseteq Call /\ registered \ {c} \subseteq Call
      /\ task \in [Call -> {"none", "running", "aborting", "ended"}]
      /\ worker \in [Call -> {"none", "running", "aborting", "ended"}]
      /\ using \in [Call -> Call \cup {None}]
  BY DEF IInv, TypeOK
<1>2. worker[c] # "none" => task[c] # "none"
  BY DEF IInv, TaskComesFirst
<1>3. ASSUME NEW answered \in BOOLEAN, task[c] \in {"running", "aborting"},
             task' = [task EXCEPT ![c] = "ended"], LetGo(c, {"task"}, answered),
             worker' = [worker EXCEPT ![c] = IF @ = "running" THEN "aborting" ELSE @]
             \/ worker' = worker,
             registered' \subseteq Call,
             UNCHANGED <<method, frame, returned, using, announced, stopped, runtime>>
      PROVE  IInv'
  <2>1. /\ task' \in [Call -> {"none", "running", "aborting", "ended"}]
        /\ \A d \in Call \ {c} : GoesOn(task, d)
        /\ task'[c] = "ended"
    BY <1>1, <1>3 DEF GoesOn
  <2>3. /\ worker' \in [Call -> {"none", "running", "aborting", "ended"}]
        /\ \A d \in Call : GoesOn(worker, d)
    <3>1. CASE worker' = worker
      BY <1>1, <3>1 DEF GoesOn
    <3>2. CASE worker' = [worker EXCEPT ![c] = IF @ = "running" THEN "aborting" ELSE @]
      BY <1>1, <3>2 DEF GoesOn
    <3>. QED  BY <1>3, <3>1, <3>2
  <2>2. PICK place \in {"task", "worker"} : place = "task"
    OBVIOUS
  <2>. QED  BY <1>1, <1>3, <2>1, <2>2, <2>3, RuntimeLetsGo DEF GoesOn
<1>4. ASSUME worker[c] \in {"running", "aborting"},
             worker' = [worker EXCEPT ![c] = "ended"], LetGo(c, {"worker"}, FALSE),
             registered' = registered,
             UNCHANGED <<method, frame, returned, task, using, announced, stopped, runtime>>
      PROVE  IInv'
  <2>1. /\ worker' \in [Call -> {"none", "running", "aborting", "ended"}]
        /\ \A d \in Call \ {c} : GoesOn(task, d) /\ GoesOn(worker, d)
        /\ task' = task
    BY <1>1, <1>4 DEF GoesOn
  <2>2. PICK place \in {"task", "worker"} : place = "worker"
    OBVIOUS
  <2>. QED  BY <1>1, <1>2, <1>4, <2>1, <2>2, RuntimeLetsGo
<1>5. ASSUME NEW answered \in BOOLEAN, task[c] = "running", TaskEnds(c),
              LetGo(c, {"task"}, answered),
              UNCHANGED <<method, frame, returned, registered, announced, stopped, runtime>>
       PROVE  IInv'
  <2>1. /\ task' \in [Call -> {"none", "running", "aborting", "ended"}]
        /\ \A d \in Call \ {c} : GoesOn(task, d)
        /\ task'[c] = "ended"
    BY <1>1, <1>5 DEF TaskEnds, Aborted, GoesOn
  <2>2. /\ worker' \in [Call -> {"none", "running", "aborting", "ended"}]
        /\ \A d \in Call : GoesOn(worker, d)
    BY <1>1, <1>5 DEF TaskEnds, Aborted, GoesOn
  <2>3. using' \in [Call -> Call \cup {None}]
    BY <1>1, <1>5 DEF TaskEnds
  <2>4. PICK place \in {"task", "worker"} : place = "task"
    OBVIOUS
  <2>. QED  BY <1>1, <1>5, <2>1, <2>2, <2>3, <2>4, RuntimeLetsGo DEF GoesOn
<1>6. CASE Completes(c)
  BY <1>5, <1>6 DEF Completes
<1>7. CASE Panics(c)
  BY <1>5, <1>7 DEF Panics
<1>8. CASE WorkerEnds(c)
  BY <1>4, <1>8 DEF WorkerEnds
<1>9. CASE DownloadEnds(c)
  BY <1>1, <1>3, <1>9 DEF DownloadEnds
<1>10. CASE WatchEnds(c)
  BY <1>1, <1>3, <1>10 DEF WatchEnds
<1>11. CASE JoinFails(c)
  BY <1>1, <1>3, <1>11 DEF JoinFails
<1>12. CASE AbortLands(c)
  BY <1>1, <1>3, <1>4, <1>12 DEF AbortLands
<1>. QED  BY <1>6, <1>7, <1>8, <1>9, <1>10, <1>11, <1>12

(* A join hands its callbacks on and has no promise to settle.               *)
LEMMA JoinsInv ==
  ASSUME IInv, NEW c \in Call, Joins(c)
  PROVE  IInv'
<1>. USE DEF IInv, Joins
<1>1. method[c] # None /\ method[c] \in HybridIrohSpec
  BY MethodsAssumption DEF UnmadeIsBlank, TypeOK
<1>2. /\ ~method[c].shim.promise
      /\ {"on_message", "on_neighbor"} \subseteq Brought(method[c])
  BY <1>1, MethodFacts DEF Brought
<1>3. /\ task' \in [Call -> {"none", "running", "aborting", "ended"}]
      /\ worker' \in [Call -> {"none", "running", "aborting", "ended"}]
      /\ task'[c] = "ended" /\ worker'[c] = "running"
      /\ \A d \in Call \ {c} : task'[d] = task[d] /\ worker'[d] = worker[d]
  BY DEF TypeOK
<1>4. /\ \A x \in Thing : owners'[c][x] = IF x \in {"on_message", "on_neighbor"}
                                          THEN {"worker"} ELSE owners[c][x] \ {"task"}
      /\ \A d \in Call \ {c} : owners'[d] = owners[d]
  BY DEF TypeOK
<1>5. owners' \in [Call -> [Thing -> SUBSET Place]]
  <2>1. [x \in Thing |-> IF x \in {"on_message", "on_neighbor"}
                         THEN {"worker"} ELSE owners[c][x] \ {"task"}]
          \in [Thing -> SUBSET Place]
    BY DEF Place, TypeOK
  <2>. QED  BY <2>1 DEF TypeOK
<1>6. TypeOK'
  BY <1>3, <1>5 DEF TypeOK
<1>7. WaitingIsOwned'
  <2>. SUFFICES ASSUME NEW d \in Call
                PROVE  Waiting(d)' <=> owners'[d]["promise"] # {}
    BY DEF WaitingIsOwned
  <2>1. Waiting(d)' <=> Waiting(d)
    BY DEF Waiting
  <2>2. CASE d = c
    <3>1. owners[c]["promise"] = {}
      BY <1>2 DEF WaitingIsOwned, Waiting
    <3>2. owners'[c]["promise"] = {}
      BY <3>1, <1>4 DEF Thing
    <3>. QED  BY <2>1, <2>2, <3>1, <3>2 DEF WaitingIsOwned
  <2>3. CASE d # c
    BY <2>1, <2>3, <1>4 DEF WaitingIsOwned
  <2>. QED  BY <2>2, <2>3
<1>8. OwnersAreAlive'
  <2>. SUFFICES ASSUME NEW d \in Call, NEW x \in Thing
                PROVE  /\ "frame" \in owners'[d][x] => frame = d
                       /\ "task" \in owners'[d][x] => task'[d] \in {"running", "aborting"}
                       /\ "worker" \in owners'[d][x] => worker'[d] \in {"running", "aborting"}
    BY DEF OwnersAreAlive
  <2>1. CASE d = c
    <3>1. owners'[c][x] = {"worker"} \/ owners'[c][x] = owners[c][x] \ {"task"}
      BY <1>4
    <3>2. "task" \notin owners'[c][x]
      BY <3>1
    <3>3. "frame" \in owners'[c][x] => frame = c
      BY <3>1 DEF OwnersAreAlive
    <3>. QED  BY <2>1, <1>3, <3>2, <3>3
  <2>2. CASE d # c
    BY <2>2, <1>3, <1>4 DEF OwnersAreAlive
  <2>. QED  BY <2>1, <2>2
<1>9. FailedHoldsNothing'
  <2>. SUFFICES ASSUME NEW d \in Call, returned[d] = "error"
                PROVE  Held(d)' = {} /\ task'[d] = "none" /\ d \notin announced'
    BY DEF FailedHoldsNothing
  <2>1. d # c
    BY DEF FailedHoldsNothing
  <2>. QED  BY <2>1, <1>3, <1>4 DEF FailedHoldsNothing, Held
<1>10. OwnedWasBrought'
  <2>. SUFFICES ASSUME NEW d \in Call, NEW x \in Thing, owners'[d][x] # {}
                PROVE  method[d] # None /\ x \in Brought(method[d])
    BY DEF OwnedWasBrought, Brought
  <2>1. CASE d = c
    BY <2>1, <1>1, <1>2, <1>4 DEF OwnedWasBrought
  <2>2. CASE d # c
    BY <2>2, <1>4 DEF OwnedWasBrought
  <2>. QED  BY <2>1, <2>2
<1>11. UnmadeIsBlank' /\ TaskComesFirst' /\ FrameIsOpen'
  BY <1>1, <1>3 DEF UnmadeIsBlank, TaskComesFirst, FrameIsOpen
<1>. QED  BY <1>6, <1>7, <1>8, <1>9, <1>10, <1>11

LEMMA NextInv == IInv /\ [Next]_vars => IInv'
<1>. SUFFICES ASSUME IInv, [Next]_vars PROVE IInv'
  OBVIOUS
<1>1. CASE \E c \in Call, m \in Methods : Enter(c, m)
  BY <1>1, EnterInv
<1>2. CASE JsThread
  BY <1>2, FrameSteps, SpawnsInv, StopSteps DEF JsThread
<1>3. ASSUME NEW c \in Call, Joins(c)
      PROVE  IInv'
  BY <1>3, JoinsInv
<1>4. ASSUME NEW c \in Call,
             \/ Completes(c) \/ Panics(c) \/ WorkerEnds(c) \/ DownloadEnds(c)
             \/ WatchEnds(c) \/ JoinFails(c) \/ AbortLands(c)
      PROVE  IInv'
  BY <1>4, EndSteps
<1>5. CASE UNCHANGED vars
  BY <1>5 DEF vars, IInv, TypeOK, WaitingIsOwned, Waiting, OwnersAreAlive,
              FailedHoldsNothing, Held, OwnedWasBrought, Brought, UnmadeIsBlank,
              TaskComesFirst, FrameIsOpen
<1>. QED  BY <1>1, <1>2, <1>3, <1>4, <1>5 DEF Next
-------------------------------------------------------------------------------
(* For any number of calls of any of the methods: a promise is unsettled     *)
(* exactly while somebody owns its completer, no promise is settled twice,   *)
(* nothing outlives the frame, task or worker that owns it, and a call that  *)
(* failed in place has nothing left (hybrid_iroh_spec.rs, lib.rs).           *)
THEOREM OwnershipCorrect == Spec => []EverythingIsOwned
<1>1. IInv => EverythingIsOwned
  BY DEF IInv, EverythingIsOwned, WaitingIsOwned, OwnersAreAlive, FailedHoldsNothing
<1>. QED  BY <1>1, InitInv, NextInv, PTL DEF Spec
-------------------------------------------------------------------------------
(* How what is stopped comes to an end, although others use it.              *)

\* Only the work of a promise uses what another call registered, while it runs.
UsersRun ==
  \A c \in Call : using[c] # None => task[c] = "running" /\ method[c].kind = "work"

\* What is stopped was started, and is gone from the registry; a join that registered its
\* subscription is over.
StoppedIsGone ==
  /\ \A d \in registered \cup stopped : method[d] # None
  /\ \A d \in stopped : returned[d] = "ok"
                        /\ (d \in registered => method[d].kind = "download")
  /\ \A d \in registered \cup stopped : method[d].kind = "join" => task[d] = "ended"

\* A subscription that was stopped runs on only as long as a task uses it.
StoppedIsOwed ==
  \A d \in stopped :
    \/ method[d].kind = "watch" /\ task[d] = "running"
    \/ method[d].kind = "join" /\ worker[d] = "running"
    => \E c \in Call : using[c] = d /\ task[c] = "running"

\* The strengthening of StoppedIsOwed.
SInv == UsersRun /\ StoppedIsGone /\ StoppedIsOwed

(* Only work and stops refer to the registration of another call.            *)
LEMMA OnFacts ==
  \A m \in HybridIrohSpec : m.on = None \/ m.kind \in {"work", "stop"}
<1>. DEFINE Good(m) == m.on = None \/ m.kind \in {"work", "stop"}
<1>1. \A m \in {endpoint_id, is_endpoint_open, endpoint_addr, parse_ticket} : Good(m)
  BY DEF endpoint_id, is_endpoint_open, endpoint_addr, parse_ticket, Query, Method
<1>2. \A m \in {create_endpoint, remote_info, endpoint_online, close_endpoint,
                share_blob, share_collection, collection_manifest,
                gossip_broadcast, stream_connect, stream_open_stream, stream_send} : Good(m)
  <2>1. /\ create_endpoint.kind = "work" /\ remote_info.kind = "work"
        /\ endpoint_online.kind = "work" /\ close_endpoint.kind = "work"
        /\ share_blob.kind = "work" /\ share_collection.kind = "work"
    BY DEF create_endpoint, remote_info, endpoint_online, close_endpoint, share_blob,
           share_collection, Work, Method
  <2>2. /\ collection_manifest.kind = "work" /\ gossip_broadcast.kind = "work"
        /\ stream_connect.kind = "work" /\ stream_open_stream.kind = "work"
        /\ stream_send.kind = "work"
    BY DEF collection_manifest, gossip_broadcast, stream_connect, stream_open_stream,
           stream_send, Work, WorkOn, Method
  <2>. QED  BY <2>1, <2>2
<1>3. \A m \in {watch_addr, stream_listen, stream_connection_subscribe,
                stream_subscribe} : Good(m)
  BY DEF watch_addr, stream_listen, stream_connection_subscribe, stream_subscribe, Watch,
         Method
<1>4. \A m \in {stop_watch_addr, cancel_download, gossip_unsubscribe,
                stop_stream_listen, stream_close_connection, stream_close} : Good(m)
  BY DEF stop_watch_addr, cancel_download, gossip_unsubscribe, stop_stream_listen,
         stream_close_connection, stream_close, Stop, Method
<1>5. Good(download_blob) /\ Good(gossip_subscribe)
  BY DEF download_blob, gossip_subscribe, Method
<1>6. \A m \in HybridIrohSpec : Good(m)
  <2>. HIDE DEF Good
  <2>. QED  BY <1>1, <1>2, <1>3, <1>4, <1>5 DEF HybridIrohSpec
<1>. QED  BY <1>6

(* What a step must leave alone: the work in flight, what is stopped, and    *)
(* what a join has registered.                                               *)
LEMMA SInvKept ==
  ASSUME IInv, SInv, UNCHANGED <<using, stopped>>,
         \A d \in Call : method[d] = None \/ method'[d] = method[d],
         \A d \in stopped : returned'[d] = returned[d],
         \A d \in stopped : /\ task'[d] = "running" => task[d] = "running"
                            /\ worker'[d] = "running" => worker[d] = "running",
         \A c \in Call : method[c].kind = "work" /\ task[c] = "running"
                         => task'[c] = "running",
         \A d \in Call : task[d] = "ended" => task'[d] = "ended",
         registered' \subseteq Call,
         \A d \in registered' \ registered :
           /\ d \notin stopped /\ method'[d] # None
           /\ method'[d].kind = "join" => task'[d] = "ended"
  PROVE  SInv'
<1>. USE DEF SInv
<1>1. stopped \subseteq Call /\ registered \subseteq Call
  BY DEF IInv, TypeOK
<1>2. \A c \in Call : using[c] # None =>
        method[c] # None /\ method'[c] = method[c] /\ task'[c] = "running"
  BY DEF UsersRun, IInv, UnmadeIsBlank
<1>3. \A d \in registered \cup stopped : method[d] # None /\ method'[d] = method[d]
  BY <1>1 DEF StoppedIsGone
<1>4. UsersRun'
  BY <1>2 DEF UsersRun
<1>5. StoppedIsGone'
  <2>1. \A d \in (registered \cup stopped)' : method'[d] # None
    BY <1>3
  <2>2. \A d \in stopped' : returned'[d] = "ok"
                            /\ (d \in registered' => method'[d].kind = "download")
    BY <1>3 DEF StoppedIsGone
  <2>3. \A d \in (registered \cup stopped)' : method'[d].kind = "join" => task'[d] = "ended"
    BY <1>1, <1>3 DEF StoppedIsGone
  <2>. QED  BY <2>1, <2>2, <2>3 DEF StoppedIsGone
<1>6. StoppedIsOwed'
  <2>. SUFFICES ASSUME NEW d \in stopped,
                       \/ method'[d].kind = "watch" /\ task'[d] = "running"
                       \/ method'[d].kind = "join" /\ worker'[d] = "running"
                PROVE  \E c \in Call : using[c] = d /\ task'[c] = "running"
    BY DEF StoppedIsOwed
  <2>1. PICK c \in Call : using[c] = d /\ task[c] = "running"
    BY <1>3 DEF StoppedIsOwed
  <2>2. d # None
    BY <1>1, NoneAssumption
  <2>. QED  BY <1>2, <2>1, <2>2
<1>. QED  BY <1>4, <1>5, <1>6

(* The work that ends is not the last to use what is stopped, or frees it.   *)
LEMMA TaskEndsSInv ==
  ASSUME IInv, SInv, NEW c \in Call, task[c] = "running", TaskEnds(c),
         UNCHANGED <<method, returned, registered, stopped>>
  PROVE  SInv'
<1>. USE DEF SInv
<1>1. /\ stopped \subseteq Call /\ registered \subseteq Call
      /\ using \in [Call -> Call \cup {None}]
      /\ task \in [Call -> {"none", "running", "aborting", "ended"}]
  BY DEF IInv, TypeOK
<1>2. /\ \A d \in Call \ {c} :
           task'[d] = IF d \in Freed(c) /\ method[d].kind = "watch" /\ task[d] = "running"
                      THEN "aborting" ELSE task[d]
      /\ task'[c] = "ended"
  BY <1>1 DEF TaskEnds, Aborted
<1>3. \A d \in Call :
        worker'[d] = IF d \in Freed(c) /\ method[d].kind = "join" /\ worker[d] = "running"
                     THEN "aborting" ELSE worker[d]
  BY DEF TaskEnds, Aborted
<1>4. using'[c] = None /\ \A d \in Call \ {c} : using'[d] = using[d]
  BY <1>1 DEF TaskEnds
<1>5. \A d \in Call \ {c} : using[d] # None => task'[d] = "running"
  BY <1>2 DEF UsersRun
<1>6. UsersRun'
  BY <1>4, <1>5 DEF UsersRun
<1>7. StoppedIsGone'
  BY <1>1, <1>2 DEF StoppedIsGone
<1>8. StoppedIsOwed'
  <2>. SUFFICES ASSUME NEW d \in stopped,
                       \/ method[d].kind = "watch" /\ task'[d] = "running"
                       \/ method[d].kind = "join" /\ worker'[d] = "running"
                PROVE  \E u \in Call : using'[u] = d /\ task'[u] = "running"
    BY DEF StoppedIsOwed
  <2>1. d \in Call /\ d # None
    BY <1>1, NoneAssumption
  <2>2. d \notin Freed(c)
    BY <1>2, <1>3, <2>1
  <2>3. \/ method[d].kind = "watch" /\ task[d] = "running"
        \/ method[d].kind = "join" /\ worker[d] = "running"
    BY <1>2, <1>3, <2>1, <2>2
  <2>4. PICK u \in Call : using[u] = d
    BY <2>3 DEF StoppedIsOwed
  <2>5. d \notin registered
    BY <2>3 DEF StoppedIsGone
  <2>6. \E v \in Call \ {c} : using[v] = d
    BY <2>1, <2>2, <2>4, <2>5 DEF Freed, Users
  <2>. QED  BY <1>4, <1>5, <2>1, <2>6
<1>. QED  BY <1>6, <1>7, <1>8

(* A stop frees what nobody uses; what somebody uses is left to that work.   *)
LEMMA StopsSInv ==
  ASSUME IInv, SInv, NEW c \in Call, NEW d \in Call, Stops(c, d)
  PROVE  SInv'
<1>. USE DEF SInv
<1>1. /\ stopped \subseteq Call /\ registered \subseteq Call
      /\ returned \in [Call -> {"none", "ok", "error"}]
  BY DEF IInv, TypeOK
<1>2. /\ frame = c /\ d \in registered /\ returned[d] = "ok" /\ d \notin stopped
      /\ stopped' = stopped \cup {d}
      /\ registered' = IF method[d].kind = "download" THEN registered ELSE registered \ {d}
      /\ returned' = [returned EXCEPT ![c] = "ok"]
      /\ UNCHANGED <<method, using>>
  BY DEF Stops, Found
<1>3. PICK freed : /\ task' = Aborted("watch", freed, task)
                   /\ worker' = Aborted("join", freed, worker)
                   /\ freed = IF Users(d) = {} THEN {d} ELSE {}
  BY DEF Stops
<1>4. /\ \A e \in Call : task'[e] = IF e \in freed /\ method[e].kind = "watch"
                                       /\ task[e] = "running"
                                    THEN "aborting" ELSE task[e]
      /\ \A e \in Call : worker'[e] = IF e \in freed /\ method[e].kind = "join"
                                         /\ worker[e] = "running"
                                      THEN "aborting" ELSE worker[e]
  BY <1>3 DEF Aborted
<1>5. \A e \in Call : using[e] # None => task'[e] = "running"
  BY <1>4 DEF UsersRun
<1>6. UsersRun'
  BY <1>2, <1>5 DEF UsersRun
<1>7. StoppedIsGone'
  <2>1. registered' \subseteq registered /\ (registered \cup stopped)' \subseteq registered \cup stopped
    BY <1>2
  <2>2. \A e \in stopped' : returned'[e] = "ok"
    BY <1>1, <1>2 DEF StoppedIsGone
  <2>3. \A e \in stopped' : e \in registered' => method[e].kind = "download"
    BY <1>2 DEF StoppedIsGone
  <2>4. \A e \in (registered \cup stopped)' : method[e].kind = "join" => task'[e] = "ended"
    BY <1>1, <1>4, <2>1 DEF StoppedIsGone
  <2>5. \A e \in (registered \cup stopped)' : method[e] # None
    BY <2>1 DEF StoppedIsGone
  <2>. QED  BY <1>2, <2>2, <2>3, <2>4, <2>5 DEF StoppedIsGone
<1>8. StoppedIsOwed'
  <2>. SUFFICES ASSUME NEW e \in stopped',
                       \/ method[e].kind = "watch" /\ task'[e] = "running"
                       \/ method[e].kind = "join" /\ worker'[e] = "running"
                PROVE  \E u \in Call : using[u] = e /\ task'[u] = "running"
    BY <1>2 DEF StoppedIsOwed
  <2>1. e \in Call /\ e # None
    BY <1>1, <1>2, NoneAssumption
  <2>2. \E u \in Call : using[u] = e
    <3>1. CASE e = d
      <4>1. e \notin freed
        BY <1>4, <2>1
      <4>. QED  BY <1>3, <3>1, <4>1 DEF Users
    <3>2. CASE e # d
      <4>1. \/ method[e].kind = "watch" /\ task[e] = "running"
            \/ method[e].kind = "join" /\ worker[e] = "running"
        BY <1>4, <2>1
      <4>. QED  BY <1>2, <3>2, <4>1 DEF StoppedIsOwed
    <3>. QED  BY <3>1, <3>2
  <2>. QED  BY <1>5, <2>1, <2>2
<1>. QED  BY <1>6, <1>7, <1>8

(* New work finds its registration in the registry, where what is stopped is *)
(* not.                                                                      *)
LEMMA SpawnsSInv ==
  ASSUME IInv, SInv, NEW c \in Call, Spawns(c)
  PROVE  SInv'
<1>. USE DEF SInv
<1>1. /\ stopped \subseteq Call /\ registered \subseteq Call
      /\ using \in [Call -> Call \cup {None}]
      /\ task \in [Call -> {"none", "running", "aborting", "ended"}]
      /\ worker \in [Call -> {"none", "running", "aborting", "ended"}]
  BY DEF IInv, TypeOK
<1>2. /\ frame = c /\ task[c] = "none" /\ UNCHANGED <<method, returned, stopped>>
      /\ method[c].kind \in {"work", "download", "watch", "join"}
      /\ task' = [task EXCEPT ![c] = "running"]
      /\ registered' = IF method[c].kind \in {"watch", "download"}
                       THEN registered \cup {c} ELSE registered
  BY DEF Spawns, InFrame
<1>3. method[c] # None /\ method[c] \in HybridIrohSpec /\ returned[c] = "none"
  BY <1>2, MethodsAssumption DEF IInv, FrameIsOpen, TypeOK
<1>4. c \notin stopped /\ using[c] = None
  BY <1>2, <1>3 DEF StoppedIsGone, UsersRun
<1>5. \A d \in Call \ {c} : task'[d] = task[d] /\ worker'[d] = worker[d] /\ using'[d] = using[d]
  <2>1. \A d \in Call \ {c} : task'[d] = task[d] /\ worker'[d] = worker[d]
    BY <1>1, <1>2 DEF Spawns
  <2>2. using' = using \/ \E d : using' = [using EXCEPT ![c] = d]
    BY DEF Spawns
  <2>. QED  BY <1>1, <2>1, <2>2
<1>6. task'[c] = "running" /\ (using'[c] # None => method[c].kind = "work")
  <2>1. CASE method[c].on = None
    BY <2>1, <1>1, <1>2, <1>4 DEF Spawns
  <2>2. CASE method[c].on # None
    BY <2>2, <1>1, <1>2, <1>3, OnFacts
  <2>. QED  BY <2>1, <2>2
<1>7. UsersRun'
  BY <1>2, <1>5, <1>6 DEF UsersRun
<1>8. StoppedIsGone'
  <2>1. \A d \in registered' : d \in registered
                               \/ (d = c /\ method[c].kind \in {"watch", "download"})
    BY <1>2
  <2>2. \A d \in registered \cup stopped : method[d].kind = "join" => d # c /\ d \in Call
    BY <1>1, <1>2 DEF StoppedIsGone
  <2>3. \A d \in (registered \cup stopped)' : method[d] # None
    BY <1>2, <1>3, <2>1 DEF StoppedIsGone
  <2>4. \A d \in (registered \cup stopped)' : method[d].kind = "join" => task'[d] = "ended"
    BY <1>2, <1>5, <2>1, <2>2 DEF StoppedIsGone
  <2>5. \A d \in stopped' : returned[d] = "ok"
                            /\ (d \in registered' => method[d].kind = "download")
    BY <1>2, <1>4, <2>1 DEF StoppedIsGone
  <2>. QED  BY <1>2, <2>3, <2>4, <2>5 DEF StoppedIsGone
<1>9. StoppedIsOwed'
  <2>. SUFFICES ASSUME NEW d \in stopped,
                       \/ method[d].kind = "watch" /\ task'[d] = "running"
                       \/ method[d].kind = "join" /\ worker'[d] = "running"
                PROVE  \E u \in Call : using'[u] = d /\ task'[u] = "running"
    BY <1>2 DEF StoppedIsOwed
  <2>1. d \in Call \ {c} /\ d # None
    BY <1>1, <1>4, NoneAssumption
  <2>2. PICK u \in Call : using[u] = d /\ task[u] = "running"
    BY <1>5, <2>1 DEF StoppedIsOwed
  <2>. QED  BY <1>2, <1>5, <2>2
<1>. QED  BY <1>7, <1>8, <1>9

LEMMA NextSInv == IInv /\ SInv /\ [Next]_vars => SInv'
<1>. SUFFICES ASSUME IInv, SInv, [Next]_vars PROVE SInv'
  OBVIOUS
<1>1. /\ stopped \subseteq Call /\ registered \subseteq Call
      /\ task \in [Call -> {"none", "running", "aborting", "ended"}]
      /\ worker \in [Call -> {"none", "running", "aborting", "ended"}]
      /\ method \in [Call -> Methods \cup {None}]
      /\ returned \in [Call -> {"none", "ok", "error"}]
  BY DEF IInv, TypeOK
<1>2. ASSUME NEW c \in Call, NEW m \in Methods, Enter(c, m)
      PROVE  SInv'
  BY <1>1, <1>2, SInvKept DEF Enter
<1>3. ASSUME NEW c \in Call,
             Refused(c) \/ Answers(c) \/ SpawnPanics(c) \/ Returns(c) \/ StopsNothing(c)
      PROVE  SInv'
  <2>1. frame = c /\ method[c] # None /\ c \notin stopped
    BY <1>3 DEF Refused, Answers, SpawnPanics, Returns, StopsNothing, InFrame, IInv,
                FrameIsOpen, SInv, StoppedIsGone
  <2>2. /\ UNCHANGED <<method, task, worker, using, stopped>>
        /\ returned' = [returned EXCEPT ![c] = "ok"]
           \/ returned' = [returned EXCEPT ![c] = "error"]
        /\ \/ registered' = registered
           \/ method[c].kind = "download" /\ registered' = registered \cup {c}
    BY <1>3 DEF Refused, Answers, SpawnPanics, Returns, StopsNothing
  <2>3. \A d \in stopped : returned'[d] = returned[d]
    BY <1>1, <2>1, <2>2
  <2>. QED  BY <1>1, <2>1, <2>2, <2>3, SInvKept
<1>4. ASSUME NEW c \in Call, Completes(c) \/ Panics(c)
      PROVE  SInv'
  BY <1>4, TaskEndsSInv DEF Completes, Panics
<1>5. ASSUME NEW c \in Call,
             DownloadEnds(c) \/ WatchEnds(c) \/ Joins(c) \/ JoinFails(c) \/ AbortLands(c)
             \/ WorkerEnds(c)
      PROVE  SInv'
  <2>1. UNCHANGED <<method, returned, using, stopped>>
    BY <1>5 DEF DownloadEnds, WatchEnds, Joins, JoinFails, AbortLands, WorkerEnds
  <2>2. \/ task' = task
        \/ /\ task' = [task EXCEPT ![c] = "ended"]
           /\ method[c].kind # "work" \/ task[c] = "aborting"
    BY <1>5 DEF DownloadEnds, WatchEnds, Joins, JoinFails, AbortLands, WorkerEnds
  <2>3. \A d \in Call : worker'[d] = "running" => worker[d] = "running" \/ (d = c /\ Joins(c))
    <3>1. CASE Joins(c)
      BY <3>1, <1>1 DEF Joins
    <3>2. CASE ~Joins(c)
      BY <3>2, <1>1, <1>5 DEF DownloadEnds, WatchEnds, JoinFails, AbortLands, WorkerEnds
    <3>. QED  BY <3>1, <3>2
  <2>4. \/ registered' \subseteq registered
        \/ registered' = registered \cup {c} /\ Joins(c)
    BY <1>5 DEF DownloadEnds, WatchEnds, Joins, JoinFails, AbortLands, WorkerEnds
  <2>5. Joins(c) => c \notin stopped /\ method[c] # None /\ task'[c] = "ended"
    BY <1>1 DEF Joins, SInv, StoppedIsGone, IInv, UnmadeIsBlank
  <2>6. \A d \in stopped : /\ task'[d] = "running" => task[d] = "running"
                           /\ worker'[d] = "running" => worker[d] = "running"
    BY <1>1, <2>2, <2>3, <2>5
  <2>7. /\ \A d \in Call : method[d].kind = "work" /\ task[d] = "running"
                           => task'[d] = "running"
        /\ \A d \in Call : task[d] = "ended" => task'[d] = "ended"
    BY <1>1, <2>2
  <2>8. /\ registered' \subseteq Call
        /\ \A d \in registered' \ registered :
             /\ d \notin stopped /\ method'[d] # None
             /\ method'[d].kind = "join" => task'[d] = "ended"
    BY <1>1, <2>1, <2>4, <2>5
  <2>. QED  BY <2>1, <2>6, <2>7, <2>8, SInvKept
<1>6. ASSUME NEW c \in Call, NEW d \in Call, Stops(c, d)
      PROVE  SInv'
  BY <1>6, StopsSInv
<1>7. ASSUME NEW c \in Call, Spawns(c)
      PROVE  SInv'
  BY <1>7, SpawnsSInv
<1>8. CASE UNCHANGED vars
  BY <1>8 DEF vars, SInv, UsersRun, StoppedIsGone, StoppedIsOwed
<1>. QED  BY <1>2, <1>3, <1>4, <1>5, <1>6, <1>7, <1>8 DEF Next, JsThread
-------------------------------------------------------------------------------
(* For any number of calls of any of the methods: what a stop has removed    *)
(* runs on only while the task of another call uses it, and that task is     *)
(* alive, so that its end frees it (registry.rs:57-63, gossip.rs:203-228,    *)
(* streams.rs:341-361).                                                      *)
THEOREM StoppedIsFreed == Spec => []StoppedIsOwed
<1>1. Init => SInv
  BY NoneAssumption DEF Init, SInv, UsersRun, StoppedIsGone, StoppedIsOwed
<1>2. SInv => StoppedIsOwed
  BY DEF SInv
<1>. QED  BY <1>1, <1>2, InitInv, NextInv, NextSInv, PTL DEF Spec
-------------------------------------------------------------------------------
(* What JavaScript makes of watch_addr and stop_watch_addr, in EndpointHook  *)
(* over AddrWatch.  The ids of the native watches travel: a watch runs       *)
(* before JavaScript knows its id, and only the id on record can be stopped. *)

HookTasks == WatchTasks \cup {CreatedTask, FailedTask, ClosedTask}

\* The watches whose ids are on their way, and the kinds of the tasks in a sequence.
Starts(e, w) == e.type = "start" /\ e.id = w
Pending(b) == {w \in Watches : \E i \in 1..Len(b) : Starts(b[i], w)}
PendingOnce(b) ==
  \A w \in Watches, i, j \in 1..Len(b) : Starts(b[i], w) /\ Starts(b[j], w) => i = j
On(type, b) == \E i \in 1..Len(b) : b[i].type = type
OneCreated(b) ==
  \A i, j \in 1..Len(b) : b[i].type = "created" /\ b[j].type = "created" => i = j

\* A watch whose id is on its way, or on record, runs, and its id is at one place only.
IdsRun ==
  /\ addressWatchId # 0 => watch[addressWatchId] = "running"
  /\ starting # 0 => /\ watch[starting] = "running"
                     /\ starting # addressWatchId /\ starting \notin Pending(bridge)
  /\ \A w \in Pending(bridge) : watch[w] = "running" /\ w # addressWatchId
  /\ PendingOnce(bridge)

Served == (\E c \in Subscribers : Attached(c)) => \E w \in Watches : watch[w] = "running"

WInv ==
  /\ WatchTypeOK /\ bridge \in Seq(HookTasks)
  /\ IdsRun
  /\ Served

\* An endpoint that is open after its effect was torn down is one JavaScript will be told
\* of, and closes then; one that is closed has ended its fan-out, or will be told to.
NothingForgotten ==
  /\ effect = "torn" /\ endpoint = "open" => On("created", bridge)
  /\ endpoint = "closed" => watchableClosed \/ On("closed", bridge)

\* Until JavaScript gets to know of a created endpoint, nobody else can close it.
Owed ==
  /\ creation = "done" <=> endpoint # "none"
  /\ On("created", bridge) => endpoint = "open" /\ ~created
  /\ OneCreated(bridge)
  /\ created => creation = "done"
  /\ effect = "before" => creation = "none"
  /\ endpoint = "open" => created \/ On("created", bridge)
  /\ NothingForgotten

HInv ==
  /\ WInv
  /\ HookTypeOK
  /\ Owed
-------------------------------------------------------------------------------
(* The bridge of the watches, as a sequence.                                 *)

LEMMA HookTaskFacts ==
  /\ \A w \in Watches : /\ OnStartTask(w) \in HookTasks
                        /\ OnStartTask(w).type = "start" /\ OnStartTask(w).id = w
  /\ \A a \in Addrs : OnChangeTask(a) \in HookTasks /\ OnChangeTask(a).type = "change"
  /\ CreatedTask \in HookTasks /\ CreatedTask.type = "created"
  /\ FailedTask \in HookTasks /\ FailedTask.type = "failed"
  /\ ClosedTask \in HookTasks /\ ClosedTask.type = "closed"
  /\ \A e \in HookTasks : e.type = "start" => e.id \in Watches
  /\ \A e \in HookTasks : e.type = "change" => e.addr \in Addrs
<1>1. /\ \A w \in Watches : OnStartTask(w).type = "start" /\ OnStartTask(w).id = w
      /\ \A a \in Addrs : OnChangeTask(a).type = "change" /\ OnChangeTask(a).addr = a
  BY DEF OnStartTask, OnChangeTask
<1>2. /\ CreatedTask.type = "created" /\ FailedTask.type = "failed"
      /\ ClosedTask.type = "closed"
  BY DEF CreatedTask, FailedTask, ClosedTask
<1>3. HookTasks = {OnStartTask(w) : w \in Watches} \cup {OnChangeTask(a) : a \in Addrs}
                    \cup {CreatedTask, FailedTask, ClosedTask}
  BY DEF HookTasks, WatchTasks
<1>. QED
  BY <1>1, <1>2, <1>3

LEMMA TaskAdded ==
  ASSUME NEW b \in Seq(HookTasks), NEW e \in HookTasks
  PROVE  /\ Append(b, e) \in Seq(HookTasks)
         /\ Pending(Append(b, e)) = Pending(b) \cup {w \in Watches : Starts(e, w)}
         /\ PendingOnce(b) /\ (\A w \in Pending(b) : ~Starts(e, w)) => PendingOnce(Append(b, e))
         /\ \A type : On(type, Append(b, e)) <=> On(type, b) \/ e.type = type
         /\ OneCreated(b) /\ (e.type = "created" => ~On("created", b))
              => OneCreated(Append(b, e))
<1>. DEFINE p == Append(b, e)
<1>1. /\ p \in Seq(HookTasks) /\ Len(p) = Len(b) + 1 /\ Len(b) \in Nat
      /\ \A i \in 1..Len(b) : p[i] = b[i]
      /\ p[Len(b) + 1] = e
  BY AppendProperties, LenProperties
<1>. HIDE DEF p
<1>2. /\ \A i : i \in 1..Len(p) <=> i \in 1..Len(b) \/ i = Len(b) + 1
      /\ Len(b) + 1 \notin 1..Len(b)
  BY <1>1
<1>3. Pending(p) = Pending(b) \cup {w \in Watches : Starts(e, w)}
  BY <1>1, <1>2 DEF Pending
<1>4. PendingOnce(b) /\ (\A w \in Pending(b) : ~Starts(e, w)) => PendingOnce(p)
  BY <1>1, <1>2 DEF PendingOnce, Pending
<1>5. \A type : On(type, p) <=> On(type, b) \/ e.type = type
  BY <1>1, <1>2 DEF On
<1>6. OneCreated(b) /\ (e.type = "created" => ~On("created", b)) => OneCreated(p)
  BY <1>1, <1>2 DEF OneCreated, On
<1>. QED
  BY <1>1, <1>3, <1>4, <1>5, <1>6 DEF p

LEMMA TaskTaken ==
  ASSUME NEW b \in Seq(HookTasks), b # << >>
  PROVE  /\ Tail(b) \in Seq(HookTasks) /\ Head(b) \in HookTasks
         /\ Pending(b) = Pending(Tail(b)) \cup {w \in Watches : Starts(Head(b), w)}
         /\ PendingOnce(b) => /\ PendingOnce(Tail(b))
                              /\ \A w \in Pending(Tail(b)) : ~Starts(Head(b), w)
         /\ \A type : On(type, b) <=> On(type, Tail(b)) \/ Head(b).type = type
         /\ OneCreated(b) => /\ OneCreated(Tail(b))
                             /\ Head(b).type = "created" => ~On("created", Tail(b))
<1>. DEFINE p == Tail(b)
<1>1. /\ p \in Seq(HookTasks) /\ Len(p) = Len(b) - 1 /\ Len(b) \in Nat
      /\ \A i \in 1..Len(p) : p[i] = b[i + 1]
      /\ Head(b) = b[1] /\ Head(b) \in HookTasks /\ 1 \in 1..Len(b)
  BY HeadTailProperties, LenProperties, EmptySeq
<1>. HIDE DEF p
<1>2. /\ \A i \in 1..Len(p) : i \in Nat /\ i + 1 \in 1..Len(b) /\ i + 1 # 1 /\ p[i] = b[i + 1]
      /\ \A i \in 1..Len(b) : i = 1 \/ (i - 1 \in 1..Len(p) /\ p[i - 1] = b[i])
  BY <1>1
<1>3. Pending(b) = Pending(p) \cup {w \in Watches : Starts(Head(b), w)}
  BY <1>1, <1>2 DEF Pending
<1>4. ASSUME PendingOnce(b)
      PROVE  PendingOnce(p) /\ \A w \in Pending(p) : ~Starts(Head(b), w)
  <2>1. \A w \in Watches, i, j \in 1..Len(p) :
          Starts(p[i], w) /\ Starts(p[j], w) => i + 1 = j + 1
    BY <1>2, <1>4 DEF PendingOnce
  <2>2. \A w \in Watches, i \in 1..Len(p) : Starts(p[i], w) /\ Starts(b[1], w) => i + 1 = 1
    BY <1>1, <1>2, <1>4 DEF PendingOnce
  <2>. QED
    BY <2>1, <2>2, <1>1, <1>2 DEF PendingOnce, Pending
<1>5. \A type : On(type, b) <=> On(type, p) \/ Head(b).type = type
  BY <1>1, <1>2 DEF On
<1>6. ASSUME OneCreated(b)
      PROVE  OneCreated(p) /\ (Head(b).type = "created" => ~On("created", p))
  <2>1. \A i, j \in 1..Len(p) :
          p[i].type = "created" /\ p[j].type = "created" => i + 1 = j + 1
    BY <1>2, <1>6 DEF OneCreated
  <2>2. \A i \in 1..Len(p) : p[i].type = "created" /\ b[1].type = "created" => i + 1 = 1
    BY <1>1, <1>2, <1>6 DEF OneCreated
  <2>. QED
    BY <2>1, <2>2, <1>1, <1>2 DEF OneCreated, On
<1>. QED
  BY <1>1, <1>3, <1>4, <1>5, <1>6 DEF p

LEMMA NoTasks ==
  << >> \in Seq(HookTasks) /\ Pending(<< >>) = {} /\ PendingOnce(<< >>)
    /\ (\A type : ~On(type, << >>)) /\ OneCreated(<< >>)
<1>1. << >> \in Seq(HookTasks) /\ Len(<< >>) = 0 /\ 1..0 = {}
  OBVIOUS
<1>. QED
  BY <1>1 DEF Pending, PendingOnce, On, OneCreated

\* The count of subscribers is exact.
LEMMA Counted ==
  ASSUME WatchTypeOK
  PROVE  /\ subscribers = 0 <=> retained = {}
         /\ \A c : c \notin retained => Cardinality(retained \cup {c}) = subscribers + 1
         /\ \A c \in retained : /\ Cardinality(retained \ {c}) = subscribers - 1
                                /\ subscribers = 1 => retained \ {c} = {}
<1>1. IsFiniteSet(retained) /\ subscribers = Cardinality(retained)
  BY SubscribersAssumption, FS_Subset DEF WatchTypeOK
<1>2. \A c : IsFiniteSet(retained \ {c})
  BY <1>1, FS_RemoveElement
<1>3. \A c \in retained : Cardinality(retained \ {c}) = subscribers - 1
  BY <1>1, FS_RemoveElement
<1>4. \A c \in retained : subscribers = 1 => retained \ {c} = {}
  <2>1. \A c \in retained : subscribers = 1 => Cardinality(retained \ {c}) = 0
    BY <1>3
  <2>. QED
    BY <2>1, <1>2, FS_EmptySet
<1>. QED
  BY <1>1, <1>3, <1>4, FS_EmptySet, FS_AddElement
-------------------------------------------------------------------------------
(* The steps of the watches.                                                 *)

LEMMA WatchTypeStep == WInv /\ [WatchNext]_watchVars => WatchTypeOK'
<1>. SUFFICES ASSUME WInv, [WatchNext]_watchVars PROVE WatchTypeOK'
  OBVIOUS
<1>T. /\ WatchTypeOK /\ bridge \in Seq(HookTasks)
      /\ MaxWatches \in Nat /\ MaxAddr \in Nat /\ 0 \in 0..MaxWatches /\ 0 \in 0..MaxAddr
      /\ \A w \in Watches : w \in 0..MaxWatches
      /\ \A a \in Addrs : a \in 0..MaxAddr
  BY BoundsAssumption DEF WInv, Watches, Addrs
<1>H. ASSUME NEW type, TakeTask(type)
      PROVE  Head(bridge) \in HookTasks /\ Head(bridge).type = type
  BY <1>H, <1>T, TaskTaken DEF TakeTask
<1>W. \A w \in Watches, s \in {"none", "running", "aborting", "stopped"} :
        [watch EXCEPT ![w] = s] \in [Watches -> {"none", "running", "aborting", "stopped"}]
  BY <1>T DEF WatchTypeOK
<1>N. ASSUME StopNativeWatch
      PROVE  /\ addressWatchId' \in 0..MaxWatches
             /\ watch' \in [Watches -> {"none", "running", "aborting", "stopped"}]
  <2>1. addressWatchId # 0 => addressWatchId \in Watches
    BY <1>T DEF WatchTypeOK, Watches
  <2>. QED
    BY <1>N, <1>T, <1>W, <2>1 DEF StopNativeWatch, WatchTypeOK
<1>1. ASSUME NEW c \in Subscribers, Subscribe(c)
      PROVE  WatchTypeOK'
  <2>1. /\ retained' = retained \cup {c} /\ c \notin retained
        /\ subscribers' = subscribers + 1
        /\ since' = [since EXCEPT ![c] = addr]
        /\ UNCHANGED <<endpoint, heard, newest, bridge, told, holding, addr>>
    BY <1>1 DEF Subscribe
  <2>2. /\ addressWatchId' \in 0..MaxWatches /\ starting' \in 0..MaxWatches
        /\ watchableClosed' \in BOOLEAN
        /\ watch' \in [Watches -> {"none", "running", "aborting", "stopped"}]
    <3>1. \/ UNCHANGED <<addressWatchId, starting, watch, watchableClosed>>
          \/ watchableClosed' = TRUE /\ UNCHANGED <<addressWatchId, starting, watch>>
          \/ \E w \in Watches : /\ watch' = [watch EXCEPT ![w] = "running"] /\ starting' = w
                                /\ UNCHANGED <<addressWatchId, watchableClosed>>
      BY <1>1 DEF Subscribe, StartNativeWatch
    <3>. QED
      BY <3>1, <1>T, <1>W DEF WatchTypeOK
  <2>3. retained' \subseteq Subscribers /\ subscribers' = Cardinality(retained')
    BY <2>1, <1>T, Counted DEF WatchTypeOK
  <2>4. since' \in [Subscribers -> 0..MaxAddr]
    BY <2>1, <1>T DEF WatchTypeOK
  <2>. QED
    BY <2>1, <2>2, <2>3, <2>4, <1>T DEF WatchTypeOK
<1>2. ASSUME NEW c \in Subscribers, Unsubscribe(c)
      PROVE  WatchTypeOK'
  <2>1. /\ retained' = retained \ {c} /\ c \in retained /\ subscribers' = subscribers - 1
        /\ heard' = [heard EXCEPT ![c] = 0] /\ newest' = [newest EXCEPT ![c] = 0]
        /\ since' = [since EXCEPT ![c] = 0]
        /\ UNCHANGED <<watchableClosed, starting, endpoint, bridge, told, holding, addr>>
        /\ StopNativeWatch \/ UNCHANGED <<addressWatchId, watch>>
    BY <1>2 DEF Unsubscribe
  <2>2. retained' \subseteq Subscribers /\ subscribers' = Cardinality(retained')
    BY <2>1, <1>T, Counted DEF WatchTypeOK
  <2>3. /\ addressWatchId' \in 0..MaxWatches
        /\ watch' \in [Watches -> {"none", "running", "aborting", "stopped"}]
    BY <2>1, <1>N, <1>T DEF WatchTypeOK
  <2>4. /\ heard' \in [Subscribers -> 0..MaxAddr] /\ newest' \in [Subscribers -> 0..MaxAddr]
        /\ since' \in [Subscribers -> 0..MaxAddr]
    BY <2>1, <1>T DEF WatchTypeOK
  <2>. QED
    BY <2>1, <2>2, <2>3, <2>4, <1>T DEF WatchTypeOK
<1>3. CASE Close
  BY <1>3, <1>T DEF Close, WatchTypeOK, nativeVars
<1>4. CASE CallReturns
  BY <1>4, <1>T DEF CallReturns, WatchTypeOK, nativeVars
<1>5. CASE OnStart
  <2>1. addressWatchId' \in 0..MaxWatches
    BY <1>5, <1>H, <1>T, HookTaskFacts DEF OnStart
  <2>2. UNCHANGED <<retained, subscribers, watchableClosed, starting, endpoint, heard, newest,
                    since, watch, told, holding, addr>>
    BY <1>5 DEF OnStart, nativeVars
  <2>. QED
    BY <2>1, <2>2, <1>T DEF WatchTypeOK
<1>6. CASE OnChange
  <2>1. Head(bridge).addr \in 0..MaxAddr
    BY <1>6, <1>H, <1>T, HookTaskFacts DEF OnChange
  <2>2. heard' \in [Subscribers -> 0..MaxAddr] /\ newest' \in [Subscribers -> 0..MaxAddr]
    BY <1>6, <2>1, <1>T DEF OnChange, WatchTypeOK
  <2>3. UNCHANGED <<retained, subscribers, watchableClosed, addressWatchId, starting,
                    endpoint, since, watch, told, holding, addr>>
    BY <1>6 DEF OnChange, nativeVars
  <2>. QED
    BY <2>2, <2>3, <1>T DEF WatchTypeOK
<1>7. CASE OnClosed
  <2>1. /\ watchableClosed' = TRUE /\ StopNativeWatch
        /\ UNCHANGED <<retained, subscribers, starting, endpoint, heard, newest, since, told,
                       holding, addr>>
    BY <1>7 DEF OnClosed
  <2>. QED
    BY <2>1, <1>N, <1>T DEF WatchTypeOK
<1>8. ASSUME NEW w \in Watches, Observes(w)
      PROVE  WatchTypeOK'
  <2>1. addr # 0 /\ addr \in 0..MaxAddr
    BY <1>T DEF WatchTypeOK, Addrs
  <2>2. /\ told' = [told EXCEPT ![w] = addr] /\ holding' = holding \cup {w}
        /\ UNCHANGED <<jsVars, watch, addr>>
    BY <1>8 DEF Observes
  <2>3. /\ told' \in [Watches -> 0..MaxAddr]
        /\ holding' \subseteq {v \in Watches : told'[v] # 0}
    BY <2>1, <2>2, <1>T DEF WatchTypeOK
  <2>. QED
    BY <2>2, <2>3, <1>T DEF WatchTypeOK, jsVars
<1>9. ASSUME NEW w \in Watches, Reports(w)
      PROVE  WatchTypeOK'
  <2>1. holding' \subseteq holding /\ UNCHANGED <<jsVars, watch, told, addr>>
    BY <1>9 DEF Reports
  <2>. QED
    BY <2>1, <1>T DEF WatchTypeOK, jsVars
<1>10. ASSUME NEW w \in Watches, WatchAbortLands(w)
      PROVE  WatchTypeOK'
  BY <1>10, <1>T, <1>W DEF WatchAbortLands, WatchTypeOK, jsVars
<1>11. CASE AddrChanges
  <2>1. addr' \in Addrs
    BY <1>11, <1>T DEF AddrChanges, WatchTypeOK, Addrs
  <2>. QED
    BY <1>11, <2>1, <1>T DEF AddrChanges, WatchTypeOK, jsVars
<1>12. CASE NativeClosed
  BY <1>12, <1>T DEF NativeClosed, WatchTypeOK, nativeVars
<1>13. CASE UNCHANGED watchVars
  BY <1>13, <1>T DEF watchVars, jsVars, nativeVars, WatchTypeOK
<1>. QED
  BY <1>1, <1>2, <1>3, <1>4, <1>5, <1>6, <1>7, <1>8, <1>9, <1>10, <1>11, <1>12, <1>13
  DEF WatchNext, WatchJs, Native

\* What a task holds is an address.
LEMMA HeldIsAddr == \A w \in holding : WatchTypeOK => told[w] \in Addrs
BY BoundsAssumption DEF WatchTypeOK, Addrs

\* Ids that arrive out of step disturb nobody as long as they are fewer, and the watches,
\* and who is attached, stay.
LEMMA WatchesStay ==
  ASSUME WInv, WatchTypeOK', bridge' \in Seq(HookTasks), PendingOnce(bridge'),
         Pending(bridge') \subseteq Pending(bridge),
         UNCHANGED <<watch, starting, addressWatchId, retained, watchableClosed>>
  PROVE  WInv'
<1>1. IdsRun'
  BY DEF WInv, IdsRun
<1>2. Served'
  BY DEF WInv, Served, Attached
<1>. QED
  BY <1>1, <1>2 DEF WInv

LEMMA NextWInv == WInv /\ [WatchNext]_watchVars => WInv'
<1>. SUFFICES ASSUME WInv, [WatchNext]_watchVars PROVE WInv'
  OBVIOUS
<1>T. /\ WatchTypeOK /\ bridge \in Seq(HookTasks) /\ IdsRun /\ Served /\ WatchTypeOK'
      /\ 0 \notin Watches /\ PendingOnce(bridge)
      /\ Pending(bridge) \subseteq Watches
      /\ watch \in [Watches -> {"none", "running", "aborting", "stopped"}]
      /\ addressWatchId # 0 => addressWatchId \in Watches
      /\ starting # 0 => starting \in Watches
  BY WatchTypeStep DEF WInv, IdsRun, WatchTypeOK, Watches, Pending
\* Taking a task, and adding one that is no id, leaves fewer ids or as many.
<1>H. ASSUME NEW type, TakeTask(type)
      PROVE  /\ bridge' \in Seq(HookTasks) /\ PendingOnce(bridge')
             /\ Head(bridge) \in HookTasks /\ Head(bridge).type = type
             /\ Pending(bridge') \subseteq Pending(bridge) /\ JsIdle
  BY <1>H, <1>T, TaskTaken DEF TakeTask
<1>A. ASSUME NEW e \in HookTasks, e.type # "start", bridge' = Append(bridge, e)
      PROVE  /\ bridge' \in Seq(HookTasks) /\ PendingOnce(bridge')
             /\ Pending(bridge') \subseteq Pending(bridge)
  <2>1. \A w : ~Starts(e, w)
    BY <1>A DEF Starts
  <2>. QED
    BY <2>1, <1>A, <1>T, TaskAdded
\* Only the watch on record is stopped.
<1>N. ASSUME StopNativeWatch
      PROVE  /\ addressWatchId' = 0
             /\ \A w \in Watches \ {addressWatchId} : watch'[w] = watch[w]
  BY <1>N, <1>T DEF StopNativeWatch
<1>S. ASSUME StopNativeWatch, UNCHANGED starting, PendingOnce(bridge'),
             Pending(bridge') \subseteq Pending(bridge)
      PROVE  IdsRun'
  BY <1>S, <1>N, <1>T DEF IdsRun
<1>1. ASSUME NEW c \in Subscribers, Subscribe(c)
      PROVE  WInv'
  <2>1. /\ starting = 0 /\ ~watchableClosed /\ retained' = retained \cup {c}
        /\ UNCHANGED bridge
        /\ IF subscribers = 0 THEN StartNativeWatch
           ELSE UNCHANGED <<addressWatchId, starting, watch, watchableClosed>>
    BY <1>1 DEF Subscribe, JsIdle
  <2>2. \/ /\ UNCHANGED <<addressWatchId, starting, watch>>
           /\ \/ watchableClosed'
              \/ addressWatchId # 0
              \/ subscribers # 0 /\ UNCHANGED watchableClosed
        \/ /\ UNCHANGED <<addressWatchId, watchableClosed>> /\ addressWatchId = 0
           /\ \E w \in Watches : /\ watch[w] = "none" /\ starting' = w
                                 /\ watch' = [watch EXCEPT ![w] = "running"]
    BY <2>1 DEF StartNativeWatch
  <2>3. CASE /\ UNCHANGED <<addressWatchId, starting, watch>>
             /\ \/ watchableClosed'
                \/ addressWatchId # 0
                \/ subscribers # 0 /\ UNCHANGED watchableClosed
    <3>1. IdsRun'
      BY <2>1, <2>3, <1>T DEF IdsRun
    <3>2. CASE watchableClosed'
      BY <3>1, <3>2, <2>1, <1>T DEF WInv, Served, Attached
    <3>3. CASE addressWatchId # 0
      <4>1. watch'[addressWatchId] = "running" /\ addressWatchId \in Watches
        BY <3>3, <2>3, <1>T DEF IdsRun
      <4>. QED
        BY <4>1, <3>1, <2>1, <1>T DEF WInv, Served
    <3>4. CASE subscribers # 0
      <4>1. PICK d \in Subscribers : Attached(d)
        BY <3>4, <2>1, <1>T, Counted DEF Attached, WatchTypeOK
      <4>2. PICK w \in Watches : watch[w] = "running"
        BY <4>1, <1>T DEF Served
      <4>. QED
        BY <4>2, <3>1, <2>1, <2>3, <1>T DEF WInv, Served
    <3>. QED
      BY <2>3, <3>2, <3>3, <3>4
  <2>4. ASSUME NEW w \in Watches, watch[w] = "none", starting' = w,
               watch' = [watch EXCEPT ![w] = "running"],
               UNCHANGED addressWatchId, addressWatchId = 0
        PROVE  WInv'
    <3>1. watch'[w] = "running" /\ w # addressWatchId
      BY <2>4, <1>T
    <3>2. w \notin Pending(bridge)
      BY <2>4, <1>T DEF IdsRun
    <3>3. \A v \in Watches : watch[v] = "running" => watch'[v] = "running"
      BY <2>4, <1>T
    <3>4. IdsRun'
      BY <3>1, <3>2, <3>3, <2>1, <2>4, <1>T DEF IdsRun
    <3>. QED
      BY <3>1, <3>4, <2>1, <1>T DEF WInv, Served
  <2>. QED
    BY <2>2, <2>3, <2>4
<1>2. ASSUME NEW c \in Subscribers, Unsubscribe(c)
      PROVE  WInv'
  <2>1. /\ c \in retained /\ retained' = retained \ {c}
        /\ IF subscribers = 1 THEN StopNativeWatch ELSE UNCHANGED <<addressWatchId, watch>>
        /\ UNCHANGED watchableClosed /\ UNCHANGED starting /\ UNCHANGED bridge
    BY <1>2 DEF Unsubscribe
  <2>2. CASE subscribers = 1
    <3>1. retained' = {}
      BY <2>1, <2>2, <1>T, Counted
    <3>2. IdsRun'
      BY <2>1, <2>2, <1>S, <1>T
    <3>. QED
      BY <3>1, <3>2, <2>1, <1>T DEF WInv, Served, Attached
  <2>3. CASE UNCHANGED <<addressWatchId, watch>>
    <3>1. IdsRun'
      BY <2>1, <2>3, <1>T DEF IdsRun
    <3>2. Served'
      BY <2>1, <2>3, <1>T DEF Served, Attached
    <3>. QED
      BY <3>1, <3>2, <2>1, <1>T DEF WInv
  <2>. QED
    BY <2>1, <2>2, <2>3
<1>3. CASE CallReturns
  <2>. DEFINE e == OnStartTask(starting)
  <2>1. /\ starting \in Watches /\ bridge' = Append(bridge, e) /\ starting' = 0
        /\ UNCHANGED <<watch, addressWatchId, retained, watchableClosed>>
    BY <1>3, <1>T DEF CallReturns, nativeVars
  <2>2. e \in HookTasks /\ \A w : Starts(e, w) <=> w = starting
    BY <2>1, HookTaskFacts DEF Starts
  <2>. HIDE DEF e
  <2>3. \A w \in Pending(bridge) : ~Starts(e, w)
    BY <2>1, <2>2, <1>T DEF IdsRun
  <2>4. /\ bridge' \in Seq(HookTasks) /\ PendingOnce(bridge')
        /\ Pending(bridge') \subseteq Pending(bridge) \cup {starting}
    BY <2>1, <2>2, <2>3, <1>T, TaskAdded
  <2>5. watch[starting] = "running" /\ starting # addressWatchId
    BY <2>1, <1>T DEF IdsRun
  <2>6. IdsRun'
    BY <2>1, <2>4, <2>5, <1>T DEF IdsRun
  <2>7. Served'
    BY <2>1, <1>T DEF Served, Attached
  <2>. QED
    BY <2>4, <2>6, <2>7, <1>T DEF WInv
<1>4. CASE OnStart
  <2>. DEFINE w == Head(bridge).id
  <2>1. /\ TakeTask("start") /\ addressWatchId' = w
        /\ UNCHANGED <<starting, watch, retained, watchableClosed>>
    BY <1>4 DEF OnStart, nativeVars
  <2>2. w \in Watches /\ Starts(Head(bridge), w) /\ starting = 0
    BY <2>1, <1>H, HookTaskFacts DEF Starts, JsIdle
  <2>3. w \in Pending(bridge) /\ w \notin Pending(bridge')
    BY <2>1, <2>2, <1>T, TaskTaken DEF TakeTask
  <2>. HIDE DEF w
  <2>4. IdsRun'
    BY <2>1, <2>2, <2>3, <1>H, <1>T DEF IdsRun
  <2>5. Served'
    BY <2>1, <1>T DEF Served, Attached
  <2>. QED
    BY <2>1, <2>4, <2>5, <1>H, <1>T DEF WInv
<1>5. CASE OnChange
  BY <1>5, <1>H, <1>T, WatchesStay DEF OnChange, nativeVars
<1>6. CASE OnClosed
  <2>1. TakeTask("closed") /\ StopNativeWatch /\ watchableClosed' /\ UNCHANGED starting
    BY <1>6 DEF OnClosed
  <2>2. IdsRun'
    BY <2>1, <1>H, <1>S
  <2>. QED
    BY <2>1, <2>2, <1>H, <1>T DEF WInv, Served, Attached
<1>7. ASSUME NEW w \in Watches, Reports(w)
      PROVE  WInv'
  <2>1. bridge' = Append(bridge, OnChangeTask(told[w])) /\ told[w] \in Addrs
    BY <1>7, <1>T, HeldIsAddr DEF Reports
  <2>2. OnChangeTask(told[w]) \in HookTasks /\ OnChangeTask(told[w]).type # "start"
    BY <2>1, HookTaskFacts
  <2>3. /\ bridge' \in Seq(HookTasks) /\ PendingOnce(bridge')
        /\ Pending(bridge') \subseteq Pending(bridge)
    BY <2>1, <2>2, <1>A
  <2>. QED
    BY <2>3, <1>7, <1>T, WatchesStay DEF Reports, jsVars
<1>8. ASSUME NEW w \in Watches, WatchAbortLands(w)
      PROVE  WInv'
  <2>1. /\ \A v \in Watches : watch[v] = "running" => watch'[v] = "running"
        /\ UNCHANGED <<starting, addressWatchId, retained, watchableClosed, bridge>>
    BY <1>8, <1>T DEF WatchAbortLands, jsVars
  <2>2. IdsRun'
    BY <2>1, <1>T DEF IdsRun
  <2>3. Served'
    BY <2>1, <1>T DEF Served, Attached
  <2>. QED
    BY <2>1, <2>2, <2>3, <1>T DEF WInv
<1>9. CASE NativeClosed
  <2>1. /\ bridge' \in Seq(HookTasks) /\ PendingOnce(bridge')
        /\ Pending(bridge') \subseteq Pending(bridge)
    BY <1>9, <1>A, HookTaskFacts DEF NativeClosed
  <2>. QED
    BY <2>1, <1>9, <1>T, WatchesStay DEF NativeClosed, nativeVars
<1>10. ASSUME Close \/ AddrChanges \/ \E w \in Watches : Observes(w)
      PROVE  WInv'
  BY <1>10, <1>T, WatchesStay DEF Close, AddrChanges, Observes, jsVars, nativeVars
<1>11. CASE UNCHANGED watchVars
  BY <1>11, <1>T, WatchesStay DEF watchVars, jsVars, nativeVars
<1>. QED
  BY <1>1, <1>2, <1>3, <1>4, <1>5, <1>6, <1>7, <1>8, <1>9, <1>10, <1>11
  DEF WatchNext, WatchJs, Native

LEMMA InitWInv == ASSUME NEW state \in {"none", "open"}, InitWith(state) PROVE WInv
<1>1. WatchTypeOK
  <2>1. /\ 0 \in 0..MaxWatches /\ 0 \in 0..MaxAddr /\ 1 \in Addrs
        /\ Cardinality({}) = 0
    BY BoundsAssumption, FS_EmptySet DEF Addrs
  <2>. QED
    BY <2>1 DEF InitWith, WatchTypeOK
<1>. QED
  BY <1>1, NoTasks DEF InitWith, WInv, IdsRun, Served, Attached

(* Whoever is attached to the address watch is served, for any number of     *)
(* subscribers and watches: ids, stops and restarts may come in any order,   *)
(* and the id on record is that of a running watch.                          *)
THEOREM WatchServes == WatchSpec => []ServedWhileAttached
<1>1. WatchInit => WInv
  BY InitWInv DEF WatchInit
<1>2. WInv => ServedWhileAttached
  BY DEF WInv, IdsRun, Served, ServedWhileAttached
<1>. QED
  BY <1>1, <1>2, NextWInv, PTL DEF WatchSpec
-------------------------------------------------------------------------------
(* The endpoint the watch belongs to, from its creation to its closing.      *)

\* The hook's own steps: the watches see tasks come and go that are not theirs.
HookTurn ==
  /\ UNCHANGED <<retained, subscribers, watchableClosed, addressWatchId, starting, heard,
                 newest, since, watch, told, holding, addr>>
  /\ endpoint' \in {endpoint, "open", "closing"}
  /\ \/ UNCHANGED bridge
     \/ \E e \in {CreatedTask, FailedTask} : bridge' = Append(bridge, e)
     \/ \E type \in {"created", "failed"} : TakeTask(type)

LEMMA HookKinds == [HookNext]_allVars => [WatchNext]_watchVars \/ HookTurn
<1>. SUFFICES ASSUME [HookNext]_allVars PROVE [WatchNext]_watchVars \/ HookTurn
  OBVIOUS
<1>1. CASE Mount
  BY <1>1 DEF Mount
<1>2. CASE TearDown
  BY <1>2 DEF TearDown, WatchNext
<1>3. CASE create_inner
  <2>1. UNCHANGED <<retained, subscribers, watchableClosed, addressWatchId, starting, heard,
                    newest, since, watch, told, holding, addr>>
    BY <1>3 DEF create_inner, nativeVars
  <2>2. \/ UNCHANGED bridge /\ UNCHANGED endpoint
        \/ /\ endpoint' \in {endpoint, "open"}
           /\ \E e \in {CreatedTask, FailedTask} : bridge' = Append(bridge, e)
    BY <1>3 DEF create_inner, Validate, BindAndLoad, BuildAndInsert, CreateFails
  <2>. QED
    BY <2>1, <2>2 DEF HookTurn
<1>4. CASE Use
  BY <1>4 DEF Use, WatchNext
<1>5. CASE OnCreated \/ OnCreateFailed
  BY <1>5 DEF OnCreated, OnCreateFailed, HookTurn, nativeVars
<1>. QED
  BY <1>1, <1>2, <1>3, <1>4, <1>5 DEF HookNext, HookJs, WatchNext, allVars

LEMMA HookWInv == WInv /\ [HookNext]_allVars => WInv'
<1>. SUFFICES ASSUME WInv, HookTurn PROVE WInv'
  BY HookKinds, NextWInv
<1>T. /\ WatchTypeOK /\ bridge \in Seq(HookTasks) /\ PendingOnce(bridge)
      /\ UNCHANGED <<watch, starting, addressWatchId, retained, watchableClosed>>
  BY DEF WInv, IdsRun, HookTurn
<1>1. WatchTypeOK'
  BY <1>T DEF HookTurn, WatchTypeOK
<1>2. CASE UNCHANGED bridge
  BY <1>1, <1>2, <1>T, WatchesStay
<1>3. ASSUME NEW e \in {CreatedTask, FailedTask}, bridge' = Append(bridge, e)
      PROVE  WInv'
  <2>1. e \in HookTasks /\ \A w : ~Starts(e, w)
    BY HookTaskFacts DEF Starts
  <2>2. /\ bridge' \in Seq(HookTasks) /\ PendingOnce(bridge')
        /\ Pending(bridge') \subseteq Pending(bridge)
    BY <2>1, <1>3, <1>T, TaskAdded
  <2>. QED
    BY <2>2, <1>1, <1>T, WatchesStay
<1>4. ASSUME NEW type, TakeTask(type)
      PROVE  WInv'
  <2>1. /\ bridge' \in Seq(HookTasks) /\ PendingOnce(bridge')
        /\ Pending(bridge') \subseteq Pending(bridge)
    BY <1>4, <1>T, TaskTaken DEF TakeTask
  <2>. QED
    BY <2>1, <1>1, <1>T, WatchesStay
<1>. QED
  BY <1>2, <1>3, <1>4 DEF HookTurn

LEMMA HookTypeStep == HInv /\ [HookNext]_allVars => HookTypeOK'
<1>. SUFFICES ASSUME HInv, [HookNext]_allVars PROVE HookTypeOK'
  OBVIOUS
<1>T. HookTypeOK /\ bridge' \in Seq(WatchTasks \cup {CreatedTask, FailedTask, ClosedTask})
  BY HookWInv DEF HInv, WInv, HookTasks
<1>1. CASE Mount \/ TearDown
  BY <1>1, <1>T DEF Mount, TearDown, HookTypeOK
<1>2. CASE create_inner
  <2>1. /\ creation' \in {"binding", "building", "done", "failed"}
        /\ UNCHANGED <<effect, created, result>>
    BY <1>2 DEF create_inner, Validate, BindAndLoad, BuildAndInsert, CreateFails
  <2>. QED
    BY <2>1, <1>T DEF HookTypeOK
<1>3. CASE OnCreated \/ OnCreateFailed
  <2>1. /\ created' \in {created, TRUE} /\ result' \in {result, "ready", "error"}
        /\ UNCHANGED <<effect, creation>>
    BY <1>3 DEF OnCreated, OnCreateFailed
  <2>. QED
    BY <2>1, <1>T DEF HookTypeOK
<1>4. CASE UNCHANGED hookVars
  BY <1>4, <1>T DEF hookVars, HookTypeOK
<1>. QED
  BY <1>1, <1>2, <1>3, <1>4 DEF HookNext, HookJs, allVars

LEMMA OwedStep == HInv /\ [HookNext]_allVars => Owed'
<1>. SUFFICES ASSUME HInv, [HookNext]_allVars PROVE Owed'
  OBVIOUS
<1>T. Owed /\ bridge \in Seq(HookTasks) /\ OneCreated(bridge)
  BY DEF HInv, WInv, Owed, NothingForgotten
<1>I. (\A w \in holding : told[w] \in Addrs) /\ (starting # 0 => starting \in Watches)
  <2>1. WatchTypeOK
    BY DEF HInv, WInv
  <2>2. starting # 0 => starting \in Watches
    BY <2>1 DEF WatchTypeOK, Watches
  <2>. QED
    BY <2>1, <2>2, HeldIsAddr
\* Whatever else happens on the bridge.
<1>K. ASSUME UNCHANGED endpoint, UNCHANGED hookVars, OneCreated(bridge'),
             On("created", bridge') <=> On("created", bridge),
             endpoint = "closed" => watchableClosed' \/ On("closed", bridge')
      PROVE  Owed'
  BY <1>K, <1>T DEF Owed, NothingForgotten, hookVars
<1>A. ASSUME NEW e \in HookTasks, bridge' = Append(bridge, e)
      PROVE  /\ \A type : On(type, bridge') <=> On(type, bridge) \/ e.type = type
             /\ OneCreated(bridge') \/ (e.type = "created" /\ On("created", bridge))
  BY <1>A, <1>T, TaskAdded
<1>H. ASSUME NEW type, TakeTask(type)
      PROVE  /\ OneCreated(bridge') /\ On(type, bridge)
             /\ type = "created" => ~On("created", bridge')
             /\ \A other : other # type => (On(other, bridge') <=> On(other, bridge))
  BY <1>H, <1>T, TaskTaken DEF TakeTask
<1>1. ASSUME NEW c \in Subscribers, Subscribe(c) \/ Unsubscribe(c), UNCHANGED hookVars
      PROVE  Owed'
  <2>1. UNCHANGED endpoint /\ UNCHANGED bridge /\ (watchableClosed => watchableClosed')
    BY <1>1 DEF Subscribe, Unsubscribe, StartNativeWatch
  <2>. QED
    BY <2>1, <1>1, <1>K, <1>T DEF Owed, NothingForgotten
<1>2. ASSUME Close, created, UNCHANGED <<created, creation>>, effect' # "before"
      PROVE  Owed'
  <2>1. endpoint = "open" /\ endpoint' = "closing" /\ UNCHANGED bridge
    BY <1>2 DEF Close
  <2>. QED
    BY <2>1, <1>2, <1>T DEF Owed, NothingForgotten
<1>3. CASE CallReturns /\ UNCHANGED hookVars
  <2>1. /\ starting \in Watches /\ bridge' = Append(bridge, OnStartTask(starting))
        /\ UNCHANGED endpoint /\ UNCHANGED watchableClosed
    BY <1>3, <1>I DEF CallReturns
  <2>2. OnStartTask(starting) \in HookTasks /\ OnStartTask(starting).type = "start"
    BY <2>1, HookTaskFacts
  <2>. QED
    BY <2>1, <2>2, <1>3, <1>A, <1>K, <1>T DEF Owed, NothingForgotten
<1>4. CASE (OnStart \/ OnChange) /\ UNCHANGED hookVars
  <2>1. PICK type \in {"start", "change"} : TakeTask(type)
    BY <1>4 DEF OnStart, OnChange
  <2>2. UNCHANGED endpoint /\ UNCHANGED watchableClosed
    BY <1>4 DEF OnStart, OnChange
  <2>. QED
    BY <2>1, <2>2, <1>4, <1>H, <1>K, <1>T DEF Owed, NothingForgotten
<1>5. CASE OnClosed /\ UNCHANGED hookVars
  <2>1. TakeTask("closed") /\ watchableClosed' /\ UNCHANGED endpoint
    BY <1>5 DEF OnClosed
  <2>. QED
    BY <2>1, <1>5, <1>H, <1>K
<1>6. ASSUME NEW w \in Watches, Reports(w), UNCHANGED hookVars
      PROVE  Owed'
  <2>1. /\ w \in holding /\ bridge' = Append(bridge, OnChangeTask(told[w]))
        /\ UNCHANGED endpoint /\ UNCHANGED watchableClosed
    BY <1>6 DEF Reports, jsVars
  <2>2. OnChangeTask(told[w]) \in HookTasks /\ OnChangeTask(told[w]).type = "change"
    BY <2>1, <1>I, HookTaskFacts
  <2>. QED
    BY <2>1, <2>2, <1>6, <1>A, <1>K, <1>T DEF Owed, NothingForgotten
<1>7. CASE NativeClosed /\ UNCHANGED hookVars
  <2>1. /\ endpoint = "closing" /\ endpoint' = "closed"
        /\ ClosedTask \in HookTasks /\ ClosedTask.type = "closed"
        /\ bridge' = Append(bridge, ClosedTask)
    BY <1>7, HookTaskFacts DEF NativeClosed
  <2>2. /\ On("closed", bridge') /\ OneCreated(bridge')
        /\ On("created", bridge') <=> On("created", bridge)
    BY <2>1, <1>A
  <2>. QED
    BY <2>1, <2>2, <1>7, <1>T DEF Owed, NothingForgotten, hookVars
<1>8. ASSUME UNCHANGED <<endpoint, bridge, watchableClosed, hookVars>>
      PROVE  Owed'
  BY <1>8, <1>K, <1>T DEF Owed, NothingForgotten
<1>9. CASE Mount
  <2>1. /\ effect = "before" /\ effect' = "active" /\ creation' = "validating"
        /\ UNCHANGED <<created, endpoint, bridge, watchableClosed>>
    BY <1>9 DEF Mount, watchVars, jsVars
  <2>. QED
    BY <2>1, <1>T DEF Owed, NothingForgotten
<1>10. CASE TearDown
  <2>1. effect = "active" /\ effect' = "torn" /\ UNCHANGED <<created, creation>>
    BY <1>10 DEF TearDown
  <2>2. CASE created /\ endpoint = "open"
    BY <2>1, <2>2, <1>2, <1>10 DEF TearDown
  <2>3. CASE ~(created /\ endpoint = "open")
    <3>1. UNCHANGED <<endpoint, bridge, watchableClosed>>
      BY <2>3, <1>10 DEF TearDown, watchVars, jsVars
    <3>. QED
      BY <2>1, <2>3, <3>1, <1>T DEF Owed, NothingForgotten
  <2>. QED
    BY <2>2, <2>3
<1>11. CASE create_inner
  <2>1. UNCHANGED <<effect, created, watchableClosed>> /\ creation # "none" /\ creation # "done"
    BY <1>11 DEF create_inner, Validate, BindAndLoad, BuildAndInsert
  <2>2. endpoint = "none" /\ ~On("created", bridge) /\ ~created /\ effect # "before"
    BY <2>1, <1>T DEF Owed, NothingForgotten
  <2>3. CASE UNCHANGED <<endpoint, bridge>> /\ creation' # "done"
    BY <2>1, <2>2, <2>3, <1>T DEF Owed, NothingForgotten
  <2>4. CASE CreateFails
    <3>1. /\ FailedTask \in HookTasks /\ FailedTask.type = "failed" /\ creation' = "failed"
          /\ bridge' = Append(bridge, FailedTask) /\ UNCHANGED endpoint
      BY <2>4, HookTaskFacts DEF CreateFails
    <3>2. ~On("created", bridge') /\ OneCreated(bridge')
      BY <2>2, <3>1, <1>A
    <3>. QED
      BY <2>1, <2>2, <3>1, <3>2 DEF Owed, NothingForgotten
  <2>5. CASE creation' = "done" /\ endpoint' = "open" /\ bridge' = Append(bridge, CreatedTask)
    <3>1. On("created", bridge') /\ OneCreated(bridge')
      BY <2>2, <2>5, <1>A, HookTaskFacts
    <3>. QED
      BY <2>1, <2>2, <2>5, <3>1 DEF Owed, NothingForgotten
  <2>. QED
    BY <1>11, <2>3, <2>4, <2>5 DEF create_inner, Validate, BindAndLoad, BuildAndInsert
<1>12. CASE OnCreated
  <2>1. TakeTask("created") /\ UNCHANGED <<effect, creation, watchableClosed>>
    BY <1>12 DEF OnCreated
  <2>2. /\ On("created", bridge) /\ ~On("created", bridge') /\ OneCreated(bridge')
        /\ endpoint = "open" /\ creation = "done"
    BY <2>1, <1>H, <1>T DEF Owed, NothingForgotten
  <2>3. \/ effect = "active" /\ created' /\ UNCHANGED endpoint
        \/ effect = "torn" /\ endpoint' = "closing" /\ UNCHANGED created
    BY <1>12 DEF OnCreated
  <2>. QED
    BY <2>1, <2>2, <2>3, <1>T DEF Owed, NothingForgotten
<1>13. CASE OnCreateFailed
  <2>1. TakeTask("failed") /\ UNCHANGED <<effect, created, creation, endpoint, watchableClosed>>
    BY <1>13 DEF OnCreateFailed
  <2>. QED
    BY <2>1, <1>H, <1>T DEF Owed, NothingForgotten
<1>. QED
  <2>1. ASSUME Use, UNCHANGED hookVars
        PROVE  Owed'
    BY <2>1, <1>1, <1>2, <1>T DEF Use, hookVars, Owed, NothingForgotten
  <2>2. ASSUME WatchJs, UNCHANGED hookVars
        PROVE  Owed'
    BY <2>2, <1>3, <1>4, <1>5 DEF WatchJs
  <2>3. ASSUME Native, UNCHANGED hookVars
        PROVE  Owed'
    BY <2>3, <1>6, <1>7, <1>8 DEF Native, Observes, WatchAbortLands, AddrChanges, jsVars
  <2>4. ASSUME UNCHANGED allVars
        PROVE  Owed'
    BY <2>4, <1>8 DEF allVars, watchVars, jsVars
  <2>. QED
    BY <2>1, <2>2, <2>3, <2>4, <1>9, <1>10, <1>11, <1>12, <1>13 DEF HookNext, HookJs

LEMMA InitHInv == HookInit => HInv
<1>. SUFFICES ASSUME HookInit PROVE HInv
  OBVIOUS
<1>1. WInv
  BY InitWInv DEF HookInit
<1>2. HookTypeOK
  BY <1>1 DEF HookInit, HookTypeOK, WInv, HookTasks
<1>3. Owed
  BY NoTasks DEF HookInit, InitWith, Owed, NothingForgotten
<1>. QED
  BY <1>1, <1>2, <1>3 DEF HInv

LEMMA NextHInv == HInv /\ [HookNext]_allVars => HInv'
BY HookWInv, HookTypeStep, OwedStep DEF HInv

(* So it is from the creation of the endpoint to its closing, in the hook.   *)
THEOREM HookServes == HookSpec => []ServedWhileAttached
<1>1. HInv => ServedWhileAttached
  BY DEF HInv, WInv, IdsRun, Served, ServedWhileAttached
<1>. QED
  BY <1>1, InitHInv, NextHInv, PTL DEF HookSpec

(* Tearing the effect down forgets no endpoint, wherever its creation is:    *)
(* an open one is announced yet, and closed on arrival.                      *)
THEOREM TornDownIsOwed == HookSpec => []NothingForgotten
<1>1. HInv => NothingForgotten
  BY DEF HInv, Owed, NothingForgotten
<1>. QED
  BY <1>1, InitHInv, NextHInv, PTL DEF HookSpec

(* The safety parts of TornDownIsClosed: types, and that no state is set     *)
(* once the effect is torn down.                                             *)
THEOREM QuietOnceTorn ==
  HookSpec => []HookTypeOK /\ [][effect = "torn" => result' = result]_allVars
<1>1. HInv => HookTypeOK
  BY DEF HInv
<1>2. HInv /\ [HookNext]_allVars => [effect = "torn" => result' = result]_allVars
  <2>. SUFFICES ASSUME HookNext, effect = "torn" PROVE result' = result
    OBVIOUS
  <2>. QED
    BY DEF HookNext, HookJs, Mount, TearDown, create_inner, OnCreated, OnCreateFailed, hookVars
<1>. QED
  BY <1>1, <1>2, InitHInv, NextHInv, PTL DEF HookSpec
===============================================================================
