------------------------------ MODULE AddrWatch -------------------------------
(***************************************************************************)
(* Endpoint.watchAddr and addrChanges: the Watchable that counts its       *)
(* subscribers (src/src/watchable.ts), the lazy start and stop of the      *)
(* native watch (src/src/endpoint.ts) and the watch tasks of watch_addr    *)
(* (endpoint.rs), across the bridge.                                       *)
(*                                                                         *)
(* A subscriber is a listener or an iterator; both retain and release the  *)
(* Watchable in the same way.                                              *)
(***************************************************************************)
EXTENDS Naturals, Sequences, FiniteSets

CONSTANTS Subscribers,  \* the consumers
          MaxWatches,   \* bound: native watches started
          MaxAddr       \* bound: the addresses are 1, 2, .. in the order observed

ASSUME BoundsAssumption == MaxWatches \in Nat /\ MaxAddr \in Nat \ {0}
ASSUME SubscribersAssumption == IsFiniteSet(Subscribers)

VARIABLES retained,        \* who has subscribed and not yet unsubscribed
          subscribers,     \* Watchable.subscribers
          watchableClosed, \* Watchable.closed
          addressWatchId,  \* Endpoint.addressWatchId, 0 for null
          starting,        \* the watch that watchAddr, still running, is starting, or 0
          endpoint,        \* "none", "open", "closing" (the handle is gone), "closed"
          heard,           \* the last address a subscriber heard, 0 for none
          newest,          \* the newest address it heard
          since            \* the address when it subscribed

jsVars == <<retained, subscribers, watchableClosed, addressWatchId, starting, endpoint,
            heard, newest, since>>

VARIABLES bridge,  \* JS tasks
          watch,   \* the watch tasks: "none", "running", "aborting", "stopped"
          told,    \* the newest address a task has taken from its stream
          holding, \* the tasks that have taken it and not yet reported it
          addr     \* the endpoint's address

nativeVars == <<watch, told, holding, addr>>
watchVars == <<jsVars, bridge, nativeVars>>

Watches == 1..MaxWatches
Addrs == 1..MaxAddr
OnStartTask(w) == [type |-> "start", id |-> w]
OnChangeTask(a) == [type |-> "change", addr |-> a]
ClosedTask == [type |-> "closed"]
WatchTasks == {OnStartTask(w) : w \in Watches} \cup {OnChangeTask(a) : a \in Addrs}

JsIdle == starting = 0
Attached(c) == c \in retained /\ ~watchableClosed
-------------------------------------------------------------------------------
(* The native watch.                                                         *)

\* Mutant: the id is kept.
StopNativeWatchKeepsId ==
  /\ watch' = IF addressWatchId = 0 THEN watch
              ELSE [watch EXCEPT ![addressWatchId] = "aborting"]
  /\ UNCHANGED addressWatchId

\* stop_watch_addr: dropping the state aborts the task.
StopNativeWatch ==
  IF addressWatchId = 0 THEN UNCHANGED <<addressWatchId, watch>>
  ELSE /\ addressWatchId' = 0
       /\ watch' = [watch EXCEPT ![addressWatchId] = "aborting"]

\* startNativeAddrWatch.  With a stale handle it closes the fan-out.
StartNativeWatch ==
  IF addressWatchId # 0
  THEN UNCHANGED <<addressWatchId, starting, watch, watchableClosed>>
  ELSE IF endpoint # "open"
  THEN /\ watchableClosed' = TRUE
       /\ UNCHANGED <<addressWatchId, starting, watch>>
  ELSE \E w \in Watches :
         /\ watch[w] = "none"
         /\ \A v \in 1..(w - 1) : watch[v] # "none"
         /\ watch' = [watch EXCEPT ![w] = "running"]
         /\ starting' = w
         /\ UNCHANGED <<addressWatchId, watchableClosed>>

\* watchAddr calls on_start last; the task is already running.  Like every native
\* callback it comes as a JS task of its own.
CallReturns ==
  /\ starting # 0
  /\ bridge' = Append(bridge, OnStartTask(starting))
  /\ starting' = 0
  /\ UNCHANGED <<retained, subscribers, watchableClosed, addressWatchId, endpoint, heard,
                 newest, since, nativeVars>>

\* stream.next(): the task takes the current address, then each newer one it observes.
Observes(w) ==
  /\ watch[w] \in {"running", "aborting"}
  /\ w \notin holding
  /\ told[w] < addr
  /\ told' = [told EXCEPT ![w] = addr]
  /\ holding' = holding \cup {w}
  /\ UNCHANGED <<jsVars, bridge, watch, addr>>

\* on_change, in the same poll: whatever is stopped meanwhile, the address is reported.
Reports(w) ==
  /\ w \in holding
  /\ holding' = holding \ {w}
  /\ bridge' = Append(bridge, OnChangeTask(told[w]))
  /\ UNCHANGED <<jsVars, watch, told, addr>>

\* The abort lands where the task awaits, never between the two.
WatchAbortLands(w) ==
  /\ watch[w] = "aborting"
  /\ w \notin holding
  /\ watch' = [watch EXCEPT ![w] = "stopped"]
  /\ UNCHANGED <<jsVars, bridge, told, holding, addr>>

AddrChanges ==
  /\ addr < MaxAddr
  /\ addr' = addr + 1
  /\ UNCHANGED <<jsVars, bridge, watch, told, holding>>

NativeClosed ==
  /\ endpoint = "closing"
  /\ endpoint' = "closed"
  /\ bridge' = Append(bridge, ClosedTask)
  /\ UNCHANGED <<retained, subscribers, watchableClosed, addressWatchId, starting, heard,
                 newest, since, nativeVars>>
-------------------------------------------------------------------------------
(* The JavaScript thread.                                                    *)

\* listen or createIterator, with retain and onActive; nothing once closed.
Subscribe(c) ==
  /\ JsIdle
  /\ c \notin retained
  /\ ~watchableClosed
  /\ retained' = retained \cup {c}
  /\ subscribers' = subscribers + 1
  /\ since' = [since EXCEPT ![c] = addr]
  /\ IF subscribers = 0 THEN StartNativeWatch
     ELSE UNCHANGED <<addressWatchId, starting, watch, watchableClosed>>
  /\ UNCHANGED <<endpoint, heard, newest, bridge, told, holding, addr>>

\* The first call of the unsubscribe function, or return() of the iterator; what was
\* heard is forgotten.
Unsubscribe(c) ==
  /\ JsIdle
  /\ c \in retained
  /\ retained' = retained \ {c}
  /\ subscribers' = subscribers - 1
  /\ IF subscribers = 1 THEN StopNativeWatch ELSE UNCHANGED <<addressWatchId, watch>>
  /\ heard' = [heard EXCEPT ![c] = 0]
  /\ newest' = [newest EXCEPT ![c] = 0]
  /\ since' = [since EXCEPT ![c] = 0]
  /\ UNCHANGED <<watchableClosed, starting, endpoint, bridge, told, holding, addr>>

TakeTask(type) ==
  /\ JsIdle
  /\ bridge # << >>
  /\ Head(bridge).type = type
  /\ bridge' = Tail(bridge)

OnStart ==
  /\ TakeTask("start")
  /\ addressWatchId' = Head(bridge).id
  /\ UNCHANGED <<retained, subscribers, watchableClosed, starting, endpoint, heard, newest,
                 since, nativeVars>>

\* Mutant: only one subscriber is called.
ReachedFirstOnly ==
  IF watchableClosed \/ retained = {} THEN {} ELSE {CHOOSE c \in retained : TRUE}

\* Those whom a pushed address reaches.
Reached == {c \in Subscribers : Attached(c)}

\* onChange: push to everyone attached.
OnChange ==
  /\ TakeTask("change")
  /\ LET a == Head(bridge).addr
     IN /\ heard' = [c \in Subscribers |-> IF c \in Reached THEN a ELSE heard[c]]
        /\ newest' = [c \in Subscribers |-> IF c \in Reached /\ a > newest[c] THEN a
                                            ELSE newest[c]]
  /\ UNCHANGED <<retained, subscribers, watchableClosed, addressWatchId, starting, endpoint,
                 since, nativeVars>>

\* close() hands the request to native code, which drops the handle at once.
Close ==
  /\ JsIdle
  /\ endpoint = "open"
  /\ endpoint' = "closing"
  /\ UNCHANGED <<retained, subscribers, watchableClosed, addressWatchId, starting, heard,
                 newest, since, bridge, nativeVars>>

\* When native closing has settled: stop the watch, end the fan-out.
OnClosed ==
  /\ TakeTask("closed")
  /\ StopNativeWatch
  /\ watchableClosed' = TRUE
  /\ UNCHANGED <<retained, subscribers, starting, endpoint, heard, newest, since, told,
                 holding, addr>>
-------------------------------------------------------------------------------
InitWith(e) ==
  /\ retained = {}
  /\ subscribers = 0
  /\ watchableClosed = FALSE
  /\ addressWatchId = 0
  /\ starting = 0
  /\ endpoint = e
  /\ heard = [c \in Subscribers |-> 0]
  /\ newest = [c \in Subscribers |-> 0]
  /\ since = [c \in Subscribers |-> 0]
  /\ bridge = << >>
  /\ watch = [w \in Watches |-> "none"]
  /\ told = [w \in Watches |-> 0]
  /\ holding = {}
  /\ addr = 1

WatchInit == InitWith("open")

WatchJs == CallReturns \/ OnStart \/ OnChange \/ OnClosed

Native ==
  \/ \E w \in Watches : Observes(w) \/ Reports(w) \/ WatchAbortLands(w)
  \/ AddrChanges
  \/ NativeClosed

WatchNext ==
  \/ \E c \in Subscribers : Subscribe(c) \/ Unsubscribe(c)
  \/ Close
  \/ WatchJs
  \/ Native

WatchSpec == WatchInit /\ [][WatchNext]_watchVars

(* Threads keep running; subscribers, the network and close() owe nothing.   *)
NativeFairness ==
  /\ \A w \in Watches : /\ WF_watchVars(Observes(w)) /\ WF_watchVars(Reports(w))
                         /\ WF_watchVars(WatchAbortLands(w))
  /\ WF_watchVars(NativeClosed)
-------------------------------------------------------------------------------
\* Every variable keeps its type, and subscribers counts those who retain it,
\* through closing too.
WatchTypeOK ==
  /\ retained \subseteq Subscribers
  /\ subscribers = Cardinality(retained)
  /\ watchableClosed \in BOOLEAN
  /\ addressWatchId \in 0..MaxWatches /\ starting \in 0..MaxWatches
  /\ endpoint \in {"none", "open", "closing", "closed"}
  /\ heard \in [Subscribers -> 0..MaxAddr] /\ newest \in [Subscribers -> 0..MaxAddr]
  /\ since \in [Subscribers -> 0..MaxAddr]
  /\ watch \in [Watches -> {"none", "running", "aborting", "stopped"}]
  /\ told \in [Watches -> 0..MaxAddr]
  /\ holding \subseteq {w \in Watches : told[w] # 0}
  /\ addr \in Addrs

\* Every variable keeps its type, and whoever is attached is served: a watch runs for
\* them, whatever order ids, stops and restarts come in, and the id on record is that
\* of a running watch.
ServedWhileAttached ==
  /\ WatchTypeOK
  /\ (\E c \in Subscribers : Attached(c)) => \E w \in Watches : watch[w] = "running"
  /\ addressWatchId # 0 => watch[addressWatchId] = "running"

\* Every change reaches everyone attached, unless a newer one does, although watches
\* come and go while it is on its way; and it stays the last word, unless a watch that was
\* stopped had an older address in hand, which it reports all the same.
ChangesArrive ==
  \A c \in Subscribers :
    (Attached(c) /\ since[c] < addr) ~>
      \/ ~Attached(c)
      \/ /\ newest[c] = addr
         /\ \/ heard[c] = addr
            \/ \E w \in Watches : watch[w] = "stopped" /\ told[w] = heard[c]
===============================================================================
