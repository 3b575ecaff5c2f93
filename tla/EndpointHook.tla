------------------------------ MODULE EndpointHook -----------------------------
(***************************************************************************)
(* The life of an endpoint from end to end: create_inner on a worker       *)
(* thread (endpoint.rs), Endpoint.create (src/src/endpoint.ts), one effect *)
(* of useEndpoint that owns the endpoint while its component is mounted    *)
(* (src/src/hooks/useEndpoint.ts), and what is done with the endpoint      *)
(* meanwhile: the address watch of AddrWatch, and close().                 *)
(*                                                                         *)
(* A change of the options, or StrictMode's second run, tears the effect   *)
(* down like an unmount does, and starts another with an endpoint of its   *)
(* own; `result` then belongs to that one.                                 *)
(***************************************************************************)
EXTENDS AddrWatch

VARIABLES
  effect,    \* "before", "active", "torn"
  created,   \* the effect's `created`, and the application, have the Endpoint
  result,    \* what this effect set the hook's status to, "none" before
  creation   \* create_inner: "none", "validating", "binding" (try_join! of bind and
             \* load_store), "building", "done", "failed"

hookVars == <<effect, created, result, creation>>
allVars == <<watchVars, hookVars>>

CreatedTask == [type |-> "created"]
FailedTask == [type |-> "failed"]
-------------------------------------------------------------------------------
(* create_inner.                                                             *)

CreateFails ==
  /\ creation' = "failed"
  /\ bridge' = Append(bridge, FailedTask)
  /\ UNCHANGED endpoint

\* The store directory, the relay mode and the ALPNs are checked before any work.
Validate ==
  /\ creation = "validating"
  /\ \/ creation' = "binding" /\ UNCHANGED <<bridge, endpoint>>
     \/ CreateFails

\* Binding and loading the store run side by side; the first error drops the other.
BindAndLoad ==
  /\ creation = "binding"
  /\ \/ creation' = "building" /\ UNCHANGED <<bridge, endpoint>>
     \/ CreateFails

\* Gossip, router and address lookup; the handle is inserted last.
BuildAndInsert ==
  /\ creation = "building"
  /\ \/ /\ creation' = "done"
        /\ endpoint' = "open"
        /\ bridge' = Append(bridge, CreatedTask)
     \/ CreateFails

create_inner ==
  /\ Validate \/ BindAndLoad \/ BuildAndInsert
  /\ UNCHANGED <<effect, created, result, retained, subscribers, watchableClosed,
                 addressWatchId, starting, heard, newest, since, nativeVars>>
-------------------------------------------------------------------------------
(* The hook.                                                                 *)

Mount ==
  /\ effect = "before"
  /\ effect' = "active"
  /\ result' = "creating"
  /\ creation' = "validating"
  /\ UNCHANGED <<created, watchVars>>

\* Mutant: the effect does not look whether it has been torn down.
OnCreatedRegardless ==
  /\ TakeTask("created")
  /\ created' = TRUE
  /\ result' = "ready"
  /\ UNCHANGED <<endpoint, effect, creation, retained, subscribers, watchableClosed,
                 addressWatchId, starting, heard, newest, since, nativeVars>>

\* create() resolves: to an orphan, if the effect was torn down meanwhile, which is
\* closed at once.
OnCreated ==
  /\ TakeTask("created")
  /\ \/ /\ effect = "active"
        /\ created' = TRUE
        /\ result' = "ready"
        /\ UNCHANGED endpoint
     \/ /\ effect = "torn"
        /\ endpoint' = "closing"
        /\ UNCHANGED <<created, result>>
  /\ UNCHANGED <<effect, creation, retained, subscribers, watchableClosed, addressWatchId,
                 starting, heard, newest, since, nativeVars>>

OnCreateFailed ==
  /\ TakeTask("failed")
  /\ result' = IF effect = "active" THEN "error" ELSE result
  /\ UNCHANGED <<effect, created, creation, endpoint, retained, subscribers,
                 watchableClosed, addressWatchId, starting, heard, newest, since, nativeVars>>

\* The effect's cleanup.  close() is one-shot: the application may have called it.
TearDown ==
  /\ JsIdle
  /\ effect = "active"
  /\ effect' = "torn"
  /\ IF created /\ endpoint = "open" THEN Close ELSE UNCHANGED watchVars
  /\ UNCHANGED <<created, result, creation>>
-------------------------------------------------------------------------------
HookInit ==
  /\ InitWith("none")
  /\ effect = "before"
  /\ created = FALSE
  /\ result = "none"
  /\ creation = "none"

\* What is done with an Endpoint once it is there.
Use == created /\ ((\E c \in Subscribers : Subscribe(c) \/ Unsubscribe(c)) \/ Close)

HookJs == (WatchJs /\ UNCHANGED hookVars) \/ OnCreated \/ OnCreateFailed

HookNext ==
  \/ Mount \/ TearDown
  \/ create_inner
  \/ Use /\ UNCHANGED hookVars
  \/ HookJs
  \/ Native /\ UNCHANGED hookVars

HookSpec == HookInit /\ [][HookNext]_allVars

(* As in AddrWatch; besides, creating an endpoint comes to an end.           *)
HookFairSpec ==
  /\ HookSpec
  /\ WF_allVars(HookJs) /\ WF_allVars(create_inner)
  /\ NativeFairness
-------------------------------------------------------------------------------
HookTypeOK ==
  /\ effect \in {"before", "active", "torn"} /\ created \in BOOLEAN
  /\ result \in {"none", "creating", "ready", "error"}
  /\ creation \in {"none", "validating", "binding", "building", "done", "failed"}
  /\ bridge \in Seq(WatchTasks \cup {CreatedTask, FailedTask, ClosedTask})

\* "an endpoint whose effect is torn down before creation resolves is closed
\* immediately rather than leaked, and no state is set after unmount"
\* (useEndpoint.ts:26-28): wherever in its creation or its life the effect is torn down,
\* and whoever closes or watches the endpoint meanwhile, it is closed in the end, with
\* its fan-out.  Every variable keeps its type.
TornDownIsClosed ==
  /\ []HookTypeOK
  /\ [][effect = "torn" => result' = result]_allVars
  /\ effect = "torn" ~> [](creation = "failed" \/ (endpoint = "closed" /\ watchableClosed))
===============================================================================
