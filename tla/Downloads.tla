------------------------------- MODULE Downloads -------------------------------
(***************************************************************************)
(* The download path of one endpoint, from Blobs.download to the terminal  *)
(* callback of the native transfer and back:                               *)
(*                                                                         *)
(*   - the FIFO queue and concurrency gate of src/src/endpoint.ts;         *)
(*   - the TransferController of src/src/transfer.ts;                      *)
(*   - download_blob / cancel_download of hybrid_iroh.rs and blob_download *)
(*     / blob_download_cancel of blobs.rs, with the TRANSFERS registry;    *)
(*   - the bridge between them, which posts callbacks and promise          *)
(*     settlements from native threads onto one FIFO queue of JS tasks.    *)
(*                                                                         *)
(* There is one JavaScript thread.  A task, a continuation or a call from  *)
(* the application runs to completion before the next one starts, but the  *)
(* native workers keep running beside it, also while it is inside a native *)
(* call.  The loop of pumpDownloads is therefore a step per iteration, and *)
(* binding.downloadBlob returns (posting onStart) in a step of its own.    *)
(***************************************************************************)
EXTENDS Naturals, Sequences, FiniteSets

CONSTANTS Transfer,       \* the transfers the application may create
          MaxConcurrent,  \* maxConcurrentDownloads, after normalisation
          None            \* stands for JavaScript's null and Rust's None

ASSUME MaxConcurrentAssumption == MaxConcurrent \in Nat \ {0}
ASSUME TransferAssumption == IsFiniteSet(Transfer)
ASSUME NoneAssumption == None \notin Transfer

VARIABLES
  created,          \* transfers handed to the application
  queue,            \* Endpoint.downloadQueue
  active,           \* Endpoint.activeDownloads
  started,          \* TransferController.started
  cancelRequested,  \* TransferController.cancelRequested
  nativeId,         \* TransferController.nativeTransferId is not null
  outcome,          \* the settlement of ProgressHub.promise
  releasing,        \* settled begin() promises whose continuation is due
  pumping,          \* the JS thread is in the loop of pumpDownloads
  inCall,           \* the transfer whose downloadBlob call has not returned
  closing,          \* Endpoint.closePromise and the native shutdown behind it
  bridge,           \* JS tasks posted by native threads, in order
  endpointOpen,     \* the endpoint's handle is in the ENDPOINTS registry
  transfers,        \* the TRANSFERS registry
  task,             \* the native download task of each transfer
  cancelSent,       \* the transfer's oneshot cancel sender has been used
  verdict           \* the terminal result select! settled on

jsVars == <<created, queue, active, started, cancelRequested, nativeId, outcome,
            releasing, pumping, inCall, closing>>
nativeVars == <<endpointOpen, transfers, task, cancelSent, verdict>>
vars == <<created, queue, active, started, cancelRequested, nativeId, outcome,
          releasing, pumping, inCall, closing, bridge, endpointOpen, transfers,
          task, cancelSent, verdict>>

Verdicts == {"ok", "failed", "cancelled"}
Outcomes == {"pending"} \cup Verdicts

StartTask(t)   == [type |-> "start", transfer |-> t, result |-> None]
DoneTask(t, r) == [type |-> "done", transfer |-> t, result |-> r]
ClosedTask     == [type |-> "closed", transfer |-> None, result |-> None]
Tasks == {StartTask(t) : t \in Transfer}
           \cup {DoneTask(t, r) : t \in Transfer, r \in Verdicts}
           \cup {ClosedTask}

Settled(t) == outcome[t] # "pending"
Queued(t) == \E i \in 1..Len(queue) : queue[i] = t

\* The JavaScript thread is between two pieces of work.
JsIdle == ~pumping /\ inCall = None

\* blob_download_cancel on a live handle: take the sender and use it, once.
BlobDownloadCancel(t) == cancelSent' = [cancelSent EXCEPT ![t] = TRUE]

\* cancel_download: a handle that is gone is reported as success.
CancelDownload(t) ==
  \/ t \in transfers /\ BlobDownloadCancel(t)
  \/ t \notin transfers /\ UNCHANGED cancelSent
-------------------------------------------------------------------------------
(* The application's calls.  They come between tasks, or from a continuation *)
(* that runs before a settled transfer has given its slot back.              *)

\* A signal that is already aborted cancels the transfer before it is queued; a
\* later abort is a Cancel.
WireAbortSignal(t, aborted) ==
  IF aborted
  THEN /\ cancelRequested' = [cancelRequested EXCEPT ![t] = TRUE]
       /\ outcome' = [outcome EXCEPT ![t] = "cancelled"]
  ELSE UNCHANGED <<cancelRequested, outcome>>

EnqueueDownload(t) ==
  /\ queue' = Append(queue, t)
  /\ pumping' = TRUE

\* Blobs.download.
Download(t, aborted) ==
  /\ JsIdle
  /\ t \notin created
  /\ created' = created \cup {t}
  /\ WireAbortSignal(t, aborted)
  /\ EnqueueDownload(t)
  /\ UNCHANGED <<active, started, nativeId, releasing, inCall, closing, bridge,
                 nativeVars>>

\* TransferController.cancel, by the application or by an abort signal.
Cancel(t) ==
  /\ JsIdle
  /\ t \in created
  /\ ~Settled(t)
  /\ cancelRequested' = [cancelRequested EXCEPT ![t] = TRUE]
  /\ IF started[t]
     THEN UNCHANGED outcome
     ELSE outcome' = [outcome EXCEPT ![t] = "cancelled"]
  /\ IF started[t] /\ nativeId[t]
     THEN CancelDownload(t)
     ELSE UNCHANGED cancelSent
  /\ UNCHANGED <<created, queue, active, started, nativeId, releasing, pumping,
                 inCall, closing, bridge, endpointOpen, transfers, task, verdict>>

\* endpoint_close invalidates the handle before it spawns the shutdown.
EndpointClose == endpointOpen' = FALSE

\* Endpoint.close: the first call starts the native close; later calls return
\* the same promise.
Close ==
  /\ JsIdle
  /\ closing = "no"
  /\ closing' = "shutdown"
  /\ EndpointClose
  /\ UNCHANGED <<created, queue, active, started, cancelRequested, nativeId,
                 outcome, releasing, pumping, inCall, bridge, transfers, task,
                 cancelSent, verdict>>
-------------------------------------------------------------------------------
(* pumpDownloads: one iteration of its loop per step.                        *)

SlotFreeOffByOne == active <= MaxConcurrent   \* mutant: `<=` for `<`

SlotFree == active < MaxConcurrent

\* Mutant: `return` for `continue`.
PumpSkipReturns ==
  /\ pumping /\ inCall = None /\ SlotFree
  /\ queue # << >>
  /\ Settled(Head(queue))
  /\ queue' = Tail(queue)
  /\ pumping' = FALSE
  /\ UNCHANGED <<created, active, started, cancelRequested, nativeId, outcome,
                 releasing, inCall, closing, bridge, nativeVars>>

\* The head of the queue was settled while it waited: it never takes a slot.
PumpSkip ==
  /\ pumping /\ inCall = None /\ SlotFree
  /\ queue # << >>
  /\ Settled(Head(queue))
  /\ queue' = Tail(queue)
  /\ UNCHANGED <<created, active, started, cancelRequested, nativeId, outcome,
                 releasing, pumping, inCall, closing, bridge, nativeVars>>

\* Mutant: pop() for shift().
TakeSlotNewest(t) ==
  /\ pumping /\ inCall = None /\ SlotFree
  /\ queue # << >> /\ queue[Len(queue)] = t /\ ~Settled(t)
  /\ queue' = SubSeq(queue, 1, Len(queue) - 1)
  /\ active' = active + 1
  /\ started' = [started EXCEPT ![t] = TRUE]

\* What the iteration does on the JS side before it enters native code.
TakeSlot(t) ==
  /\ pumping /\ inCall = None /\ SlotFree
  /\ queue # << >>
  /\ Head(queue) = t
  /\ ~Settled(t)
  /\ queue' = Tail(queue)
  /\ active' = active + 1
  /\ started' = [started EXCEPT ![t] = TRUE]

\* begin(), startDownload throwing: settled on the spot, begin() resolves.
BeginThrows(t) ==
  /\ TakeSlot(t)
  /\ outcome' = [outcome EXCEPT ![t] = "failed"]
  /\ releasing' = releasing \cup {t}
  /\ UNCHANGED <<created, cancelRequested, nativeId, pumping, inCall, closing,
                 bridge, nativeVars>>

\* blob_download returns an error (ticket, destination): the promise is
\* rejected through the bridge and onStart is never called.
BeginRefused(t) ==
  /\ TakeSlot(t)
  /\ bridge' = Append(bridge, DoneTask(t, "failed"))
  /\ UNCHANGED <<created, cancelRequested, nativeId, outcome, releasing, pumping,
                 inCall, closing, nativeVars>>

\* blob_download registers the transfer and spawns its task; the JS thread is
\* still inside downloadBlob.
BeginSpawns(t) ==
  /\ TakeSlot(t)
  /\ inCall' = t
  /\ transfers' = transfers \cup {t}
  /\ task' = [task EXCEPT ![t] = "spawned"]
  /\ UNCHANGED <<created, cancelRequested, nativeId, outcome, releasing, pumping,
                 closing, bridge, endpointOpen, cancelSent, verdict>>

\* download_blob calls on_start, after the task was spawned, and returns.
CallReturns ==
  /\ inCall # None
  /\ bridge' = Append(bridge, StartTask(inCall))
  /\ inCall' = None
  /\ UNCHANGED <<created, queue, active, started, cancelRequested, nativeId,
                 outcome, releasing, pumping, closing, nativeVars>>

PumpStops ==
  /\ pumping /\ inCall = None
  /\ ~SlotFree \/ queue = << >>
  /\ pumping' = FALSE
  /\ UNCHANGED <<created, queue, active, started, cancelRequested, nativeId,
                 outcome, releasing, inCall, closing, bridge, nativeVars>>

\* The continuation of next.begin(): give the slot back and pump again.
ReleaseSlot(t) ==
  /\ JsIdle
  /\ t \in releasing
  /\ releasing' = releasing \ {t}
  /\ active' = active - 1
  /\ pumping' = TRUE
  /\ UNCHANGED <<created, queue, started, cancelRequested, nativeId, outcome,
                 inCall, closing, bridge, nativeVars>>
-------------------------------------------------------------------------------
(* JS tasks from the bridge.  A task starts only when the continuations the  *)
(* previous one made due have all run.                                       *)

TakeTask(type) ==
  /\ JsIdle
  /\ releasing = {}
  /\ bridge # << >>
  /\ Head(bridge).type = type
  /\ bridge' = Tail(bridge)

\* Mutant: onStart only remembers the id.
OnStartForgetsCancel ==
  /\ TakeTask("start")
  /\ nativeId' = [nativeId EXCEPT ![Head(bridge).transfer] = TRUE]
  /\ UNCHANGED <<created, queue, active, started, cancelRequested, outcome,
                 releasing, pumping, inCall, closing, nativeVars>>

\* onStart: remember the id and deliver a cancel that came before it.
OnStart ==
  /\ TakeTask("start")
  /\ LET t == Head(bridge).transfer IN
       /\ nativeId' = [nativeId EXCEPT ![t] = TRUE]
       /\ IF cancelRequested[t] THEN CancelDownload(t) ELSE UNCHANGED cancelSent
  /\ UNCHANGED <<created, queue, active, started, cancelRequested, outcome,
                 releasing, pumping, inCall, closing, endpointOpen, transfers,
                 task, verdict>>

\* ProgressHub.settle.
Settle(t, r) ==
  outcome' = [outcome EXCEPT ![t] = IF Settled(t) THEN @ ELSE r]

\* The downloadBlob promise settles, and with it the one begin() returned.
OnDone ==
  /\ TakeTask("done")
  /\ LET t == Head(bridge).transfer IN
       /\ Settle(t, Head(bridge).result)
       /\ releasing' = releasing \cup {t}
  /\ UNCHANGED <<created, queue, active, started, cancelRequested, nativeId,
                 pumping, inCall, closing, nativeVars>>

\* The closeEndpoint promise settles, either way: cancelQueued.  A transfer in
\* the queue has not started, so cancel() settles it here.
OnClosed ==
  /\ TakeTask("closed")
  /\ cancelRequested' = [t \in Transfer |->
                           cancelRequested[t] \/ (Queued(t) /\ ~Settled(t))]
  /\ outcome' = [t \in Transfer |->
                   IF Queued(t) /\ ~Settled(t) THEN "cancelled" ELSE outcome[t]]
  /\ queue' = << >>
  /\ closing' = "closed"
  /\ UNCHANGED <<created, active, started, nativeId, releasing, pumping, inCall,
                 nativeVars>>
-------------------------------------------------------------------------------
(* Native workers.                                                           *)

\* download_inner resolves the endpoint handle first.
TaskLooksUp(t) ==
  /\ task[t] = "spawned"
  /\ task' = [task EXCEPT ![t] = IF endpointOpen THEN "fetching" ELSE "failed"]
  /\ UNCHANGED <<jsVars, bridge, endpointOpen, transfers, cancelSent, verdict>>

\* The rest of download_inner: connect, fetch, export, or an error of theirs.
TaskEnds(t, r) ==
  /\ task[t] = "fetching"
  /\ r \in {"ok", "failed"}
  /\ task' = [task EXCEPT ![t] = r]
  /\ UNCHANGED <<jsVars, bridge, endpointOpen, transfers, cancelSent, verdict>>

\* Mutant: the cancel branch returns without removing the handle.
SelectCancelKeepsHandle(t) ==
  /\ t \in transfers /\ verdict[t] = None /\ cancelSent[t]
  /\ verdict' = [verdict EXCEPT ![t] = "cancelled"]
  /\ task' = [task EXCEPT ![t] = "aborted"]
  /\ UNCHANGED <<jsVars, bridge, endpointOpen, transfers, cancelSent>>

\* select!, the cancel branch.
SelectCancel(t) ==
  /\ t \in transfers
  /\ verdict[t] = None
  /\ cancelSent[t]
  /\ verdict' = [verdict EXCEPT ![t] = "cancelled"]
  /\ task' = [task EXCEPT ![t] = "aborted"]
  /\ transfers' = transfers \ {t}
  /\ UNCHANGED <<jsVars, bridge, endpointOpen, cancelSent>>

\* select!, the branch that joins the task.
SelectJoin(t) ==
  /\ t \in transfers
  /\ verdict[t] = None
  /\ task[t] \in {"ok", "failed"}
  /\ verdict' = [verdict EXCEPT ![t] = task[t]]
  /\ transfers' = transfers \ {t}
  /\ UNCHANGED <<jsVars, bridge, endpointOpen, task, cancelSent>>

\* on_complete: the completer is posted to JavaScript.
Complete(t) ==
  /\ verdict[t] # None
  /\ task[t] # "completed"
  /\ bridge' = Append(bridge, DoneTask(t, verdict[t]))
  /\ task' = [task EXCEPT ![t] = "completed"]
  /\ UNCHANGED <<jsVars, endpointOpen, transfers, cancelSent, verdict>>

\* close_inner: the router has shut down and on_complete settles the promise.
ShutdownCompletes ==
  /\ closing = "shutdown"
  /\ closing' = "reported"
  /\ bridge' = Append(bridge, ClosedTask)
  /\ UNCHANGED <<created, queue, active, started, cancelRequested, nativeId,
                 outcome, releasing, pumping, inCall, nativeVars>>
-------------------------------------------------------------------------------
Init ==
  /\ created = {}
  /\ queue = << >>
  /\ active = 0
  /\ started = [t \in Transfer |-> FALSE]
  /\ cancelRequested = [t \in Transfer |-> FALSE]
  /\ nativeId = [t \in Transfer |-> FALSE]
  /\ outcome = [t \in Transfer |-> "pending"]
  /\ releasing = {}
  /\ pumping = FALSE
  /\ inCall = None
  /\ closing = "no"
  /\ bridge = << >>
  /\ endpointOpen = TRUE
  /\ transfers = {}
  /\ task = [t \in Transfer |-> "none"]
  /\ cancelSent = [t \in Transfer |-> FALSE]
  /\ verdict = [t \in Transfer |-> None]

Application ==
  \/ \E t \in Transfer, aborted \in BOOLEAN : Download(t, aborted)
  \/ \E t \in Transfer : Cancel(t)
  \/ Close

JsThread ==
  \/ PumpSkip
  \/ \E t \in Transfer : BeginThrows(t) \/ BeginRefused(t) \/ BeginSpawns(t)
  \/ CallReturns
  \/ PumpStops
  \/ \E t \in Transfer : ReleaseSlot(t)
  \/ OnStart
  \/ OnDone
  \/ OnClosed

Native ==
  \/ \E t \in Transfer : TaskLooksUp(t) \/ SelectCancel(t) \/ SelectJoin(t) \/ Complete(t)
  \/ \E t \in Transfer, r \in {"ok", "failed"} : TaskEnds(t, r)
  \/ ShutdownCompletes

Next == Application \/ JsThread \/ Native

Spec == Init /\ [][Next]_vars

(* The JS event loop keeps running its work, the tokio runtime keeps polling *)
(* ready tasks, and shutting the router down ends the fetches that run over  *)
(* it.  Nothing is assumed of the application, nor of the network: a fetch   *)
(* on an open endpoint may hang for ever.                                    *)
Fairness ==
  /\ WF_vars(JsThread)
  /\ \A t \in Transfer :
       /\ WF_vars(TaskLooksUp(t))
       /\ WF_vars(SelectCancel(t) \/ SelectJoin(t))
       /\ WF_vars(Complete(t))
       /\ WF_vars(closing # "no" /\ \E r \in {"ok", "failed"} : TaskEnds(t, r))
  /\ WF_vars(ShutdownCompletes)
-------------------------------------------------------------------------------
(* Properties.                                                               *)

\* Every variable keeps the shape the code gives it.  In particular
\* activeDownloads never goes below zero: a slot is given back only once.
TypeOK ==
  /\ created \subseteq Transfer
  /\ queue \in Seq(Transfer)
  /\ active \in Nat
  /\ started \in [Transfer -> BOOLEAN]
  /\ cancelRequested \in [Transfer -> BOOLEAN]
  /\ nativeId \in [Transfer -> BOOLEAN]
  /\ outcome \in [Transfer -> Outcomes]
  /\ releasing \subseteq Transfer
  /\ pumping \in BOOLEAN
  /\ inCall \in Transfer \cup {None}
  /\ closing \in {"no", "shutdown", "reported", "closed"}
  /\ bridge \in Seq(Tasks)
  /\ endpointOpen \in BOOLEAN
  /\ transfers \subseteq Transfer
  /\ task \in [Transfer -> {"none", "spawned", "fetching", "ok", "failed",
                           "aborted", "completed"}]
  /\ cancelSent \in [Transfer -> BOOLEAN]
  /\ verdict \in [Transfer -> Verdicts \cup {None}]

\* The transfers that hold a slot: begun, and not yet settled or settled with
\* the continuation that gives the slot back still to run.
Slots == {t \in Transfer : started[t] /\ (~Settled(t) \/ t \in releasing)}

\* activeDownloads counts exactly the transfers that hold a slot, and there are
\* never more of them than maxConcurrentDownloads: no order of settlements,
\* cancels, throws and re-entrant downloads leaks a slot or hands one out twice.
SlotsAccounted == active = Cardinality(Slots) /\ active <= MaxConcurrent

\* No idle slot while somebody waits: whenever the JS thread is idle with no
\* continuation due, a live transfer in the queue means that every slot is
\* taken.  (A pump that returned early would strand the queue until the next
\* download is created.)
NoIdleSlot ==
  JsIdle /\ releasing = {} /\ (\E t \in Transfer : Queued(t) /\ ~Settled(t))
    => active = MaxConcurrent

\* The number of completions of t that are still to be delivered: one owed by
\* the native side, and those posted on the bridge.
CompletionsOwed(t) ==
  (IF task[t] \in {"spawned", "fetching", "ok", "failed", "aborted"} THEN 1 ELSE 0)
    + Cardinality({i \in 1..Len(bridge) : bridge[i] = DoneTask(t, bridge[i].result)})

\* A transfer that was begun and has not settled is owed exactly one completion,
\* any other none: the completer shared by the two paths of download_blob is
\* consumed once, so no transfer hangs and none settles (or frees its slot) twice.
OneCompletionOwed ==
  \A t \in Transfer :
    CompletionsOwed(t) = IF started[t] /\ ~Settled(t) THEN 1 ELSE 0

\* A cancel is never forgotten in the gap between begin() and onStart: while the
\* native transfer of a cancelled download is registered, either the native
\* cancel was sent or the onStart that will send it is still on its way.
CancelNotForgotten ==
  \A t \in transfers :
    cancelRequested[t] =>
      \/ cancelSent[t]
      \/ inCall = t
      \/ \E i \in 1..Len(bridge) : bridge[i] = StartTask(t)

\* Once a transfer has settled its native registration is gone: TRANSFERS does
\* not grow with the downloads an application makes, whatever the order in which
\* completion, onStart and cancel arrive.
SettledNotRegistered == \A t \in transfers : ~Settled(t)

\* "fail locally, never touch native" (transfer.ts:258): a transfer that settled
\* before it started is never begun and nothing native ever exists for it.
SettledNeverStarts ==
  [][\A t \in Transfer : Settled(t) /\ ~started[t] =>
        ~started'[t] /\ task'[t] = "none" /\ outcome'[t] = outcome[t]]_vars

\* A transfer whose cancellation was requested, in whatever phase, or whose
\* endpoint is closed (endpoint.ts:934-939), be it queued, running or created after
\* close(), settles although the network never answers.
CancelAndCloseSettle ==
  \A t \in Transfer :
    cancelRequested[t] \/ (closing # "no" /\ t \in created) ~> Settled(t)

(* Refinement: the code implements the pool of DownloadPool.                 *)
Waiting == {t \in Transfer : Queued(t) /\ ~Settled(t)}
Running == {t \in Transfer : started[t] /\ ~Settled(t)}
Result  == [t \in Transfer |-> IF t \in created THEN outcome[t] ELSE "absent"]

InFront(q, u, t) == \E i, j \in 1..Len(q) : i < j /\ q[i] = u /\ q[j] = t
Ahead == [t \in Transfer |-> {u \in Waiting : t \in Waiting /\ InFront(queue, u, t)}]

Pool == INSTANCE DownloadPool
          WITH Capacity <- MaxConcurrent, waiting <- Waiting, ahead <- Ahead,
               running <- Running, result <- Result

\* The queue, the controllers, the bridge and the native transfers together
\* behave like a first-come first-served pool with one outcome per transfer:
\* transfers start in the order they were created, at most MaxConcurrent run, a
\* waiting one leaves on cancel or close, and an outcome never changes.
ImplementsPool == Pool!PoolSpec
===============================================================================
