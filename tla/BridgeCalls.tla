----------------------------- MODULE BridgeCalls -----------------------------
(***************************************************************************)
(* The native interface, call by call: the generated shims of              *)
(* hybrid_iroh_spec.rs, the HybridIroh methods of hybrid_iroh.rs behind    *)
(* them, and spawn_completing / guarded_callback of lib.rs.                *)
(*                                                                         *)
(* A call brings things into native code that belong to JavaScript: the    *)
(* completer of its promise and the boxed callbacks.  Each has owners: the *)
(* frame of the call, the task it spawned ("task"), and the worker inside  *)
(* it ("worker": the download task, the gossip forwarding task).  What     *)
(* loses its last owner is dropped, which releases a callback and makes an *)
(* armed completer reject its promise.  Panics are unwinds: they drop what *)
(* their place owns.  There is one JavaScript thread, so one call has a    *)
(* frame at a time; tasks run beside it.                                   *)
(*                                                                         *)
(* What a call leaves in a registry is counted too: the task of a          *)
(* broadcast, or of opening a stream, holds a reference to the             *)
(* subscription or connection of another call, whose own task is aborted   *)
(* when the last reference is dropped, not when the handle is removed.     *)
(***************************************************************************)
EXTENDS Naturals, FiniteSets

CONSTANTS MaxCalls, \* bound: the calls JavaScript makes
          Methods,  \* the methods it may call, of those below
          None      \* stands for JavaScript's null

\* The calls, in the order they are made.
Call == 1..MaxCalls

(* What a generated shim takes over: whether it makes a completer, and which *)
(* callbacks it boxes.                                                       *)
Shim(promise, callbacks) == [promise |-> promise, callbacks |-> callbacks]

create_endpoint_shim             == Shim(TRUE, {})
endpoint_id_shim                 == Shim(FALSE, {})
is_endpoint_open_shim            == Shim(FALSE, {})
endpoint_addr_shim               == Shim(FALSE, {})
watch_addr_shim                  == Shim(FALSE, {"on_start", "on_change"})
stop_watch_addr_shim             == Shim(FALSE, {})
remote_info_shim                 == Shim(TRUE, {})
endpoint_online_shim             == Shim(TRUE, {})
close_endpoint_shim              == Shim(TRUE, {})
share_blob_shim                  == Shim(TRUE, {})
download_blob_shim               == Shim(TRUE, {"on_start", "on_progress"})
cancel_download_shim             == Shim(FALSE, {})
share_collection_shim            == Shim(TRUE, {})
collection_manifest_shim         == Shim(TRUE, {})
parse_ticket_shim                == Shim(FALSE, {})
gossip_subscribe_shim            == Shim(FALSE, {"on_start", "on_message", "on_neighbor"})
gossip_broadcast_shim            == Shim(TRUE, {})
gossip_unsubscribe_shim          == Shim(FALSE, {})
stream_listen_shim               == Shim(FALSE, {"on_connection", "on_close"})
stop_stream_listen_shim          == Shim(FALSE, {})
stream_connect_shim              == Shim(TRUE, {})
stream_connection_subscribe_shim == Shim(FALSE, {"on_stream", "on_close"})
stream_open_stream_shim          == Shim(TRUE, {})
stream_close_connection_shim     == Shim(FALSE, {})
stream_subscribe_shim            == Shim(FALSE, {"on_data", "on_close"})
stream_send_shim                 == Shim(TRUE, {})
stream_close_shim                == Shim(FALSE, {})

(* What the HybridIroh method does with it.  kind: "query" answers in place,  *)
(* "work" spawns a task that settles the promise, "download" also runs a      *)
(* worker inside it, "watch" spawns a task that lives until it is stopped,    *)
(* "join" spawns a task that starts such a worker, "stop" ends what another   *)
(* call started.  refuses: it can fail in place, on a stale handle or a bad   *)
(* argument.  frame: the callbacks that stay in the frame of the call.  on:   *)
(* the method whose call it stops, or whose registration its task keeps a     *)
(* reference to.                                                              *)
Method(name, shim, kind, refuses, frame, on) ==
  [name |-> name, shim |-> shim, kind |-> kind, refuses |-> refuses,
   frame |-> frame, on |-> on]
Query(name, shim, refuses) == Method(name, shim, "query", refuses, {}, None)
Work(name, shim, refuses)  == Method(name, shim, "work", refuses, {}, None)
WorkOn(name, shim, on)     == Method(name, shim, "work", TRUE, {}, on)
Watch(name, shim, frame)   == Method(name, shim, "watch", TRUE, frame, None)
Stop(name, shim, on)       == Method(name, shim, "stop", FALSE, {}, on)

create_endpoint     == Work("create_endpoint", create_endpoint_shim, FALSE)
endpoint_id         == Query("endpoint_id", endpoint_id_shim, TRUE)
is_endpoint_open    == Query("is_endpoint_open", is_endpoint_open_shim, FALSE)
endpoint_addr       == Query("endpoint_addr", endpoint_addr_shim, TRUE)
watch_addr          == Watch("watch_addr", watch_addr_shim, {"on_start"})
stop_watch_addr     == Stop("stop_watch_addr", stop_watch_addr_shim, "watch_addr")
remote_info         == Work("remote_info", remote_info_shim, TRUE)
endpoint_online     == Work("endpoint_online", endpoint_online_shim, TRUE)
close_endpoint      == Work("close_endpoint", close_endpoint_shim, TRUE)
share_blob          == Work("share_blob", share_blob_shim, FALSE)
download_blob       == Method("download_blob", download_blob_shim, "download", TRUE,
                              {"on_start"}, None)
cancel_download     == Stop("cancel_download", cancel_download_shim, "download_blob")
share_collection    == Work("share_collection", share_collection_shim, FALSE)
collection_manifest == Work("collection_manifest", collection_manifest_shim, FALSE)
parse_ticket        == Query("parse_ticket", parse_ticket_shim, TRUE)
gossip_subscribe    == Method("gossip_subscribe", gossip_subscribe_shim, "join", TRUE,
                              {}, None)
gossip_broadcast    == WorkOn("gossip_broadcast", gossip_broadcast_shim,
                              "gossip_subscribe")
gossip_unsubscribe  == Stop("gossip_unsubscribe", gossip_unsubscribe_shim,
                            "gossip_subscribe")
stream_listen       == Watch("stream_listen", stream_listen_shim, {})
stop_stream_listen  == Stop("stop_stream_listen", stop_stream_listen_shim,
                            "stream_listen")
stream_connect      == Work("stream_connect", stream_connect_shim, TRUE)
stream_connection_subscribe ==
  Watch("stream_connection_subscribe", stream_connection_subscribe_shim, {})
stream_open_stream  == WorkOn("stream_open_stream", stream_open_stream_shim,
                              "stream_connection_subscribe")
stream_close_connection ==
  Stop("stream_close_connection", stream_close_connection_shim,
       "stream_connection_subscribe")
stream_subscribe    == Watch("stream_subscribe", stream_subscribe_shim, {})
stream_send         == Work("stream_send", stream_send_shim, TRUE)
stream_close        == Stop("stream_close", stream_close_shim, "stream_subscribe")

\* HybridIrohSpec: every method of the interface.
HybridIrohSpec ==
  {create_endpoint, endpoint_id, is_endpoint_open, endpoint_addr, watch_addr,
   stop_watch_addr, remote_info, endpoint_online, close_endpoint, share_blob,
   download_blob, cancel_download, share_collection, collection_manifest,
   parse_ticket, gossip_subscribe, gossip_broadcast, gossip_unsubscribe,
   stream_listen, stop_stream_listen, stream_connect, stream_connection_subscribe,
   stream_open_stream, stream_close_connection, stream_subscribe, stream_send,
   stream_close}

ASSUME MethodsAssumption == Methods \subseteq HybridIrohSpec
ASSUME CallsAssumption == MaxCalls \in Nat
ASSUME NoneAssumption == None \notin Call /\ None \notin HybridIrohSpec

VARIABLES
  method,       \* the method of each call, None before it is made
  frame,        \* the call whose frame is on the JavaScript thread
  owners,       \* for each call and thing, the places that own it
  settlements,  \* how often the promise of a call was resolved or rejected
  returned,     \* what the shim told the caller in place
  task,         \* the task of each call
  worker,       \* the worker inside the task
  registered,   \* calls whose handle a later call can find
  using,        \* the call whose registration a call's task keeps alive, or None
  announced,    \* calls whose handle was handed out through on_start
  stopped,      \* calls that another call has stopped
  runtime       \* the shared tokio runtime, built on first use

vars == <<method, frame, owners, settlements, returned, task, worker, registered,
          using, announced, stopped, runtime>>

Callback == UNION {m.shim.callbacks : m \in HybridIrohSpec}
Thing == {"promise"} \cup Callback
Place == {"frame", "task", "worker"}

Brought(m) == m.shim.callbacks \cup (IF m.shim.promise THEN {"promise"} ELSE {})
Held(c) == {x \in Thing : owners[c][x] # {}}
Waiting(c) == method[c] # None /\ method[c].shim.promise /\ settlements[c] = 0

\* Mutant: a completer without its Drop implementation.
LetGoSilently(c, places, answered) ==
  /\ owners' = [owners EXCEPT ![c] =
                  [x \in Thing |-> IF answered /\ x = "promise" THEN {} ELSE @[x] \ places]]
  /\ settlements' = [settlements EXCEPT ![c] = IF answered THEN @ + 1 ELSE @]

\* These places end, by returning or by unwinding, and drop what they own.  If
\* answered, the completer was taken and used first, which disarms it; otherwise
\* it rejects the promise when its last owner lets go.
LetGo(c, places, answered) ==
  LET held == owners[c]["promise"]
      now  == held # {} /\ (answered \/ held \subseteq places)
  IN /\ owners' = [owners EXCEPT ![c] =
                      [x \in Thing |-> IF now /\ x = "promise" THEN {}
                                       ELSE @[x] \ places]]
      /\ settlements' = [settlements EXCEPT ![c] = IF now THEN @ + 1 ELSE @]

\* What the handle a call was given may stand for.
Found(c) == {d \in registered : /\ returned[d] = "ok"
                                 /\ method[d].name = method[c].on}

Users(d) == {c \in Call : using[c] = d}

\* Mutant: a task that is not aborted on drop.
FreedNone(c) == {}

\* The registrations a task lets go of as the last one, when it ends.
Freed(c) == {d \in Call \ registered : Users(d) = {c}}

\* AbortOnDropHandle: what was registered aborts its task, or the one that forwards.
Aborted(kind, freed, state) ==
  [d \in Call |-> IF d \in freed /\ method[d].kind = kind /\ state[d] = "running"
                   THEN "aborting" ELSE state[d]]
-------------------------------------------------------------------------------
(* On the JavaScript thread.                                                 *)

\* The shim boxes the callbacks and arms the completer.
Enter(c, m) ==
  /\ frame = None
  /\ method[c] = None
  /\ \A d \in 1..(c - 1) : method[d] # None
  /\ method' = [method EXCEPT ![c] = m]
  /\ frame' = c
  /\ owners' = [owners EXCEPT ![c] =
                  [x \in Thing |-> IF x \in Brought(m) THEN {"frame"} ELSE {}]]
  /\ UNCHANGED <<settlements, returned, task, worker, registered, using, announced,
                 stopped, runtime>>

InFrame(c) == frame = c /\ task[c] = "none"

\* A stale handle or a rejected argument: the completer is used in place, or the
\* shim returns the error.
Refused(c) ==
  /\ InFrame(c)
  /\ method[c].refuses
  /\ LetGo(c, {"frame"}, method[c].shim.promise)
  /\ returned' = [returned EXCEPT ![c] = "error"]
  /\ frame' = None
  /\ UNCHANGED <<method, task, worker, registered, using, announced, stopped, runtime>>

\* A query answers in place.
Answers(c) ==
  /\ InFrame(c)
  /\ method[c].kind = "query"
  /\ LetGo(c, {"frame"}, FALSE)
  /\ returned' = [returned EXCEPT ![c] = "ok"]
  /\ frame' = None
  /\ UNCHANGED <<method, task, worker, registered, using, announced, stopped, runtime>>

\* The first use of the runtime fails, or a later one finds it poisoned: the
\* method panics, the shim catches it, and the unwound frame lets go.  A download
\* had entered TRANSFERS already, and stays there under an id nobody was told.  A
\* method that looks up a registration comes after a runtime that was built.
SpawnPanics(c) ==
  /\ InFrame(c)
  /\ method[c].kind \in {"work", "download", "watch", "join"}
  /\ method[c].on = None
  /\ runtime # "built"
  /\ runtime' = "poisoned"
  /\ registered' = IF method[c].kind = "download" THEN registered \cup {c} ELSE registered
  /\ LetGo(c, {"frame"}, FALSE)
  /\ returned' = [returned EXCEPT ![c] = "error"]
  /\ frame' = None
  /\ UNCHANGED <<method, task, worker, using, announced, stopped>>

\* Who owns what once the task is spawned: everything moves into it but the
\* callbacks the method keeps, the completer of download_blob is shared with the
\* frame, and its on_progress with the worker.
AfterSpawn(c) ==
  [x \in Thing |->
     IF owners[c][x] = {} THEN {}
     ELSE IF x \in method[c].frame THEN {"frame"}
     ELSE IF method[c].kind # "download" THEN {"task"}
     ELSE IF x = "promise" THEN {"frame", "task"}
     ELSE {"task", "worker"}]

Spawns(c) ==
  /\ InFrame(c)
  /\ method[c].kind \in {"work", "download", "watch", "join"}
  /\ IF method[c].on = None THEN UNCHANGED using
     ELSE \E d \in Found(c) : using' = [using EXCEPT ![c] = d]
  /\ runtime # "poisoned"
  /\ runtime' = "built"
  /\ task' = [task EXCEPT ![c] = "running"]
  /\ worker' = [worker EXCEPT ![c] = IF method[c].kind = "download" THEN "running" ELSE @]
  /\ owners' = [owners EXCEPT ![c] = AfterSpawn(c)]
  /\ registered' = IF method[c].kind \in {"watch", "download"}
                   THEN registered \cup {c} ELSE registered
  /\ UNCHANGED <<method, frame, settlements, returned, announced, stopped>>

\* The method calls on_start, if it kept it, and returns.
Returns(c) ==
  /\ frame = c
  /\ task[c] # "none"
  /\ announced' = IF "on_start" \in method[c].frame THEN announced \cup {c} ELSE announced
  /\ LetGo(c, {"frame"}, FALSE)
  /\ returned' = [returned EXCEPT ![c] = "ok"]
  /\ frame' = None
  /\ UNCHANGED <<method, task, worker, registered, using, stopped, runtime>>

\* A stop: the registration is removed, and dropped unless a task still uses it; a
\* download is sent its cancel and removes its own registration.
Stops(c, d) ==
  /\ frame = c
  /\ method[c].kind = "stop"
  /\ d \in Found(c) \ stopped
  /\ stopped' = stopped \cup {d}
  /\ registered' = IF method[d].kind = "download" THEN registered ELSE registered \ {d}
  /\ LET freed == IF Users(d) = {} THEN {d} ELSE {}
     IN /\ task' = Aborted("watch", freed, task)
        /\ worker' = Aborted("join", freed, worker)
  /\ returned' = [returned EXCEPT ![c] = "ok"]
  /\ frame' = None
  /\ UNCHANGED <<method, owners, settlements, using, announced, runtime>>

\* A stop of a handle that is gone, or used already, does nothing.
StopsNothing(c) ==
  /\ frame = c
  /\ method[c].kind = "stop"
  /\ returned' = [returned EXCEPT ![c] = "ok"]
  /\ frame' = None
  /\ UNCHANGED <<method, owners, settlements, task, worker, registered, using,
                 announced, stopped, runtime>>
-------------------------------------------------------------------------------
(* On the runtime.                                                           *)

\* A spawned future is done or dropped, and drops its reference to a registration.
TaskEnds(c) ==
  /\ task' = [Aborted("watch", Freed(c), task) EXCEPT ![c] = "ended"]
  /\ worker' = Aborted("join", Freed(c), worker)
  /\ using' = [using EXCEPT ![c] = None]

\* The work of a promise ends, in success or error, and on_complete settles it.
Completes(c) ==
  /\ task[c] = "running"
  /\ method[c].kind = "work"
  /\ TaskEnds(c)
  /\ LetGo(c, {"task"}, TRUE)
  /\ UNCHANGED <<method, frame, returned, registered, announced, stopped, runtime>>

\* The work panics, or on_complete does before it has used the completer: the
\* future is dropped with all it owns.
Panics(c) ==
  /\ task[c] = "running"
  /\ method[c].kind # "download"
  /\ TaskEnds(c)
  /\ LetGo(c, {"task"}, FALSE)
  /\ UNCHANGED <<method, frame, returned, registered, announced, stopped, runtime>>

\* The download worker ends: its result, an error, or its panic as a JoinError.
WorkerEnds(c) ==
  /\ worker[c] = "running"
  /\ worker' = [worker EXCEPT ![c] = "ended"]
  /\ LetGo(c, {"worker"}, FALSE)
  /\ UNCHANGED <<method, frame, returned, task, registered, using, announced, stopped,
                 runtime>>

\* Mutant: the completion does not take the completer out before it uses it.
DownloadEndsKeepsCompleter(c) ==
  /\ task[c] = "running" /\ method[c].kind = "download"
  /\ worker[c] = "ended" \/ c \in stopped
  /\ worker' = [worker EXCEPT ![c] = IF @ = "running" THEN "aborting" ELSE @]
  /\ task' = [task EXCEPT ![c] = "ended"]
  /\ registered' = registered \ {c}
  /\ owners' = [owners EXCEPT ![c] = [x \in Thing |-> @[x] \ {"task"}]]
  /\ settlements' = [settlements EXCEPT ![c] = @ + 1]
  /\ UNCHANGED <<method, frame, returned, using, announced, stopped, runtime>>

\* select! of blob_download: the cancel, which aborts the worker, or its end.
DownloadEnds(c) ==
  /\ task[c] = "running"
  /\ method[c].kind = "download"
  /\ worker[c] = "ended" \/ c \in stopped
  /\ worker' = [worker EXCEPT ![c] = IF @ = "running" THEN "aborting" ELSE @]
  /\ task' = [task EXCEPT ![c] = "ended"]
  /\ registered' = registered \ {c}
  /\ LetGo(c, {"task"}, TRUE)
  /\ UNCHANGED <<method, frame, returned, using, announced, stopped, runtime>>

\* A watching task ends by itself: the stream of events is over.
WatchEnds(c) ==
  /\ task[c] = "running"
  /\ method[c].kind = "watch"
  /\ task' = [task EXCEPT ![c] = "ended"]
  /\ LetGo(c, {"task"}, FALSE)
  /\ UNCHANGED <<method, frame, returned, worker, registered, using, announced, stopped,
                 runtime>>

\* The join succeeds: the forwarding task takes the callbacks over, the handle
\* is registered and announced, and the join task ends.
Joins(c) ==
  /\ task[c] = "running"
  /\ method[c].kind = "join"
  /\ task' = [task EXCEPT ![c] = "ended"]
  /\ worker' = [worker EXCEPT ![c] = "running"]
  /\ owners' = [owners EXCEPT ![c] =
                  [x \in Thing |-> IF x \in {"on_message", "on_neighbor"}
                                   THEN {"worker"} ELSE @[x] \ {"task"}]]
  /\ registered' = registered \cup {c}
  /\ announced' = announced \cup {c}
  /\ UNCHANGED <<method, frame, settlements, returned, using, stopped, runtime>>

\* The join fails: on_neighbor is told and everything is dropped.
JoinFails(c) ==
  /\ task[c] = "running"
  /\ method[c].kind = "join"
  /\ task' = [task EXCEPT ![c] = "ended"]
  /\ LetGo(c, {"task"}, FALSE)
  /\ UNCHANGED <<method, frame, returned, worker, registered, using, announced, stopped,
                 runtime>>

\* An aborted task is dropped where it next awaits.
AbortLands(c) ==
  \/ /\ task[c] = "aborting"
     /\ task' = [task EXCEPT ![c] = "ended"]
     /\ LetGo(c, {"task"}, FALSE)
     /\ UNCHANGED <<method, frame, returned, worker, registered, using, announced,
                    stopped, runtime>>
  \/ /\ worker[c] = "aborting"
     /\ worker' = [worker EXCEPT ![c] = "ended"]
     /\ LetGo(c, {"worker"}, FALSE)
     /\ UNCHANGED <<method, frame, returned, task, registered, using, announced,
                    stopped, runtime>>
-------------------------------------------------------------------------------
Init ==
  /\ method = [c \in Call |-> None]
  /\ frame = None
  /\ owners = [c \in Call |-> [x \in Thing |-> {}]]
  /\ settlements = [c \in Call |-> 0]
  /\ returned = [c \in Call |-> "none"]
  /\ task = [c \in Call |-> "none"]
  /\ worker = [c \in Call |-> "none"]
  /\ registered = {}
  /\ using = [c \in Call |-> None]
  /\ announced = {}
  /\ stopped = {}
  /\ runtime = "unbuilt"

WorkPanics(c) == task[c] = "running" /\ method[c].kind = "work" /\ Panics(c)

JsThread ==
  \E c \in Call :
    \/ Refused(c) \/ Answers(c) \/ SpawnPanics(c) \/ Spawns(c) \/ Returns(c)
    \/ \E d \in Call : Stops(c, d)
    \/ StopsNothing(c)

Next ==
  \/ \E c \in Call, m \in Methods : Enter(c, m)
  \/ JsThread
  \/ \E c \in Call : \/ Completes(c) \/ Panics(c) \/ WorkerEnds(c) \/ DownloadEnds(c)
                     \/ WatchEnds(c) \/ Joins(c) \/ JoinFails(c) \/ AbortLands(c)

(* The JavaScript thread leaves a native call, the runtime polls what is      *)
(* ready, and the work of a call ends in some way, be it by a panic.          *)
Spec ==
  /\ Init /\ [][Next]_vars
  /\ WF_vars(JsThread)
  /\ \A c \in Call : /\ WF_vars(Completes(c) \/ WorkPanics(c))
                     /\ WF_vars(DownloadEnds(c))
                     /\ WF_vars(AbortLands(c))
-------------------------------------------------------------------------------
\* Types, and that no promise is ever settled twice, whatever panics.
TypeOK ==
  /\ method \in [Call -> Methods \cup {None}]
  /\ frame \in Call \cup {None}
  /\ owners \in [Call -> [Thing -> SUBSET Place]]
  /\ settlements \in [Call -> 0..1]
  /\ returned \in [Call -> {"none", "ok", "error"}]
  /\ task \in [Call -> {"none", "running", "aborting", "ended"}]
  /\ worker \in [Call -> {"none", "running", "aborting", "ended"}]
  /\ using \in [Call -> Call \cup {None}]
  /\ registered \cup announced \cup stopped \subseteq Call
  /\ runtime \in {"unbuilt", "built", "poisoned"}

\* Every variable keeps its type, and no thing of JavaScript's is left behind, nor used
\* by what has ended, through every refusal, panic, race of the two paths of
\* download_blob, and abort.  "Fires exactly once ... rejects on drop so the Promise
\* never hangs" (hybrid_iroh_spec.rs:178): a promise is unsettled exactly while somebody
\* still owns its completer; whoever owns a completer or a callback is alive, or it
\* would leak for the life of the process; and a call that failed in place has nothing
\* running, so that no callback of a refused subscription can be called later.
EverythingIsOwned ==
  /\ TypeOK
  /\ \A c \in Call : Waiting(c) <=> owners[c]["promise"] # {}
  /\ \A c \in Call : \A x \in Thing :
       /\ "frame" \in owners[c][x] => frame = c
       /\ "task" \in owners[c][x] => task[c] \in {"running", "aborting"}
       /\ "worker" \in owners[c][x] => worker[c] \in {"running", "aborting"}
  /\ \A c \in Call : returned[c] = "error" =>
       /\ Held(c) = {}
       /\ task[c] = "none" /\ c \notin announced

\* Every promise settles, also when the work panics or its runtime cannot be
\* built.  A download may wait on its peer for ever, but not once it is cancelled.
EveryPromiseSettles ==
  \A c \in Call : Waiting(c) /\ (method[c].kind = "download" => c \in stopped)
                   ~> settlements[c] = 1

\* Whatever a stop, a cancel or an unsubscribe ends lets go of every callback, although
\* the task that calls them is aborted only by the last of those who use the registration:
\* the stop itself, or a broadcast or an opening stream still in flight.
StoppedLetsGo ==
  \A c \in Call : c \in stopped ~> Held(c) = {}
===============================================================================
