-------------------------- MODULE GossipSubscription --------------------------
(***************************************************************************)
(* One gossip subscription: the GossipSubscriptionController of            *)
(* src/src/gossip.ts, the bridge, and gossip_subscribe, gossip_broadcast   *)
(* and gossip_unsubscribe of gossip.rs.                                    *)
(*                                                                         *)
(* The join completes on a worker thread some time after subscribe() has   *)
(* returned; only then is there an id to broadcast on and to unsubscribe.  *)
(* An "event" is a message; neighbour changes and lag notices come the     *)
(* same way.  What the queues do with them is MessageQueue's business.     *)
(***************************************************************************)
EXTENDS Naturals, Sequences, SequencesExt

CONSTANTS Broadcasts,  \* the calls of broadcast()
          MaxEvents    \* bound: events forwarded

ASSUME BroadcastsAssumption == IsFiniteSet(Broadcasts)
ASSUME BoundAssumption == MaxEvents \in Nat

VARIABLES disposed,   \* GossipSubscriptionController.disposed
          subIdKnown, \* subId is not null
          ready,      \* the promise: "pending", "resolved", "rejected"
          messages,   \* messageQueue: "open", "done", "error"
          heard,      \* how many events reached the open queues
          call        \* the broadcasts: "none", "waiting", "native", "ok", "failed"

jsVars == <<disposed, subIdKnown, ready, messages, heard, call>>

VARIABLES bridge,     \* JS tasks
          join,       \* gossip.subscribe: "joining", "joined", "failed"
          registered, \* the subscription in GOSSIP_SUBS: "not_yet", "yes", "removed"
          forwarder,  \* the forwarding task: "none", "running", "aborting", "gone"
          sending,    \* the broadcasts whose native task holds the subscription
          events      \* how many events were forwarded

nativeVars == <<join, registered, forwarder, sending, events>>
vars == <<jsVars, bridge, nativeVars>>

Task(t) == [type |-> t]
SentTask(b, how) == [type |-> "sent", call |-> b, how |-> how]
-------------------------------------------------------------------------------
(* Native side.                                                              *)

\* The forwarding task is aborted with the last reference to the subscription: the
\* registry holds one and every broadcast under way another.
AbortedBy(entry, inFlight) ==
  forwarder' = IF entry = "removed" /\ inFlight = {} /\ forwarder = "running"
               THEN "aborting" ELSE forwarder

\* gossip_unsubscribe: idempotent.
GossipUnsubscribe ==
  IF registered = "yes" THEN registered' = "removed" /\ AbortedBy("removed", sending)
  ELSE UNCHANGED <<registered, forwarder>>

\* gossip_broadcast of several calls: on a stale id they fail at once.
GossipBroadcast(calls, rest) ==
  IF registered = "yes"
  THEN sending' = sending \cup calls /\ bridge' = rest
  ELSE /\ bridge' = rest \o [i \in 1..Cardinality(calls) |->
                               SentTask(SetToSeq(calls)[i], "failed")]
       /\ UNCHANGED sending

\* Mutant: a failed join is only logged.
JoinFailsSilently ==
  /\ join = "joining"
  /\ join' = "failed"
  /\ UNCHANGED <<jsVars, bridge, registered, forwarder, sending, events>>

JoinFails ==
  /\ join = "joining"
  /\ join' = "failed"
  /\ bridge' = Append(bridge, Task("error"))
  /\ UNCHANGED <<jsVars, registered, forwarder, sending, events>>

\* The topic is split and the forwarding task runs, before there is an id.
Joins ==
  /\ join = "joining"
  /\ join' = "joined"
  /\ forwarder' = "running"
  /\ UNCHANGED <<jsVars, bridge, registered, sending, events>>

\* insert and on_start.
Starts ==
  /\ join = "joined" /\ registered = "not_yet"
  /\ registered' = "yes"
  /\ bridge' = Append(bridge, Task("start"))
  /\ UNCHANGED <<jsVars, join, forwarder, sending, events>>

Forwards ==
  /\ forwarder \in {"running", "aborting"}
  /\ events < MaxEvents
  /\ events' = events + 1
  /\ bridge' = Append(bridge, Task("event"))
  /\ UNCHANGED <<jsVars, join, registered, forwarder, sending>>

\* The receiver ends or errors, which is not reported.
ReceiverEnds ==
  /\ forwarder \in {"running", "aborting"}
  /\ forwarder' = "gone"
  /\ UNCHANGED <<jsVars, bridge, join, registered, sending, events>>

AbortLands ==
  /\ forwarder = "aborting"
  /\ forwarder' = "gone"
  /\ UNCHANGED <<jsVars, bridge, join, registered, sending, events>>

BroadcastCompletes(b, how) ==
  /\ b \in sending
  /\ sending' = sending \ {b}
  /\ AbortedBy(registered, sending')
  /\ bridge' = Append(bridge, SentTask(b, how))
  /\ UNCHANGED <<jsVars, join, registered, events>>
-------------------------------------------------------------------------------
(* The JavaScript thread.                                                    *)

WaitingCalls == {b \in Broadcasts : call[b] = "waiting"}
WaitingBecome(state) ==
  call' = [b \in Broadcasts |-> IF b \in WaitingCalls THEN state ELSE call[b]]

\* broadcast.
Broadcast(b) ==
  /\ call[b] = "none"
  /\ \/ /\ subIdKnown
        /\ call' = [call EXCEPT ![b] = "native"]
        /\ GossipBroadcast({b}, bridge)
     \/ /\ ~subIdKnown
        /\ call' = [call EXCEPT ![b] = IF ready = "rejected" THEN "failed" ELSE "waiting"]
        /\ UNCHANGED <<bridge, sending>>
  /\ UNCHANGED <<disposed, subIdKnown, ready, messages, heard, join, registered,
                 forwarder, events>>

\* What ends with the subscription.
Dispose(end) ==
  /\ ~disposed
  /\ disposed' = TRUE
  /\ messages' = IF messages = "open" THEN end ELSE messages

RejectReady == ready' = "rejected" /\ WaitingBecome("failed")

\* Mutant: without an id there is nothing to do.
UnsubscribeLeavesReady ==
  /\ Dispose("done")
  /\ GossipUnsubscribe
  /\ UNCHANGED <<ready, call, subIdKnown, heard, bridge, join, sending, events>>

\* unsubscribe by the application, or by the endpoint when it has closed.
Unsubscribe ==
  /\ Dispose("done")
  /\ \/ subIdKnown /\ GossipUnsubscribe /\ UNCHANGED <<ready, call>>
     \/ ~subIdKnown /\ RejectReady /\ UNCHANGED <<registered, forwarder>>
  /\ UNCHANGED <<subIdKnown, heard, bridge, join, sending, events>>

TakeTask(type) == bridge # << >> /\ Head(bridge).type = type

\* Mutant: that it was disposed meanwhile is not looked at.
OnStartRegardless ==
  /\ TakeTask("start")
  /\ subIdKnown' = TRUE
  /\ ready' = IF ready = "pending" THEN "resolved" ELSE ready
  /\ WaitingBecome("native")
  /\ GossipBroadcast(WaitingCalls, Tail(bridge))
  /\ UNCHANGED <<disposed, messages, heard, join, registered, forwarder, events>>

\* onStart.  Resolving `ready` lets the waiting broadcasts go, in the same task.
OnStart ==
  /\ TakeTask("start")
  /\ subIdKnown' = TRUE
  /\ \/ /\ disposed
        /\ GossipUnsubscribe
        /\ bridge' = Tail(bridge)
        /\ UNCHANGED <<ready, call, sending>>
     \/ /\ ~disposed
        /\ ready' = "resolved"
        /\ WaitingBecome("native")
        /\ GossipBroadcast(WaitingCalls, Tail(bridge))
        /\ UNCHANGED <<registered, forwarder>>
  /\ UNCHANGED <<disposed, messages, heard, join, events>>

\* onNeighbor("error ..."): failJoin.
OnJoinError ==
  /\ TakeTask("error")
  /\ bridge' = Tail(bridge)
  /\ \/ Dispose("error") /\ RejectReady
     \/ disposed /\ UNCHANGED <<disposed, messages, ready, call>>
  /\ UNCHANGED <<subIdKnown, heard, nativeVars>>

\* Mutant: what comes before the id is ignored.
OnEventOnceStarted ==
  /\ TakeTask("event")
  /\ bridge' = Tail(bridge)
  /\ heard' = IF messages = "open" /\ subIdKnown THEN heard + 1 ELSE heard
  /\ UNCHANGED <<disposed, subIdKnown, ready, messages, call, nativeVars>>

\* onMessage, or onNeighbor with "up", "down" or "lagged".
OnEvent ==
  /\ TakeTask("event")
  /\ bridge' = Tail(bridge)
  /\ heard' = IF messages = "open" THEN heard + 1 ELSE heard
  /\ UNCHANGED <<disposed, subIdKnown, ready, messages, call, nativeVars>>

OnSent ==
  /\ TakeTask("sent")
  /\ bridge' = Tail(bridge)
  /\ call' = [call EXCEPT ![Head(bridge).call] = Head(bridge).how]
  /\ UNCHANGED <<disposed, subIdKnown, ready, messages, heard, nativeVars>>

\* A loop over `messages` is left: MessageQueue.return, which closes that queue.
LoopBreaks ==
  /\ messages = "open"
  /\ messages' = "done"
  /\ UNCHANGED <<disposed, subIdKnown, ready, heard, call, bridge, nativeVars>>
-------------------------------------------------------------------------------
Init ==
  /\ disposed = FALSE
  /\ subIdKnown = FALSE
  /\ ready = "pending"
  /\ messages = "open"
  /\ heard = 0
  /\ call = [b \in Broadcasts |-> "none"]
  /\ bridge = << >>
  /\ join = "joining"
  /\ registered = "not_yet"
  /\ forwarder = "none"
  /\ sending = {}
  /\ events = 0

JsThread == OnStart \/ OnJoinError \/ OnEvent \/ OnSent

Native ==
  \/ JoinFails \/ Joins \/ Starts \/ Forwards \/ ReceiverEnds \/ AbortLands
  \/ \E b \in Broadcasts, how \in {"ok", "failed"} : BroadcastCompletes(b, how)

Next ==
  \/ \E b \in Broadcasts : Broadcast(b)
  \/ Unsubscribe
  \/ LoopBreaks
  \/ JsThread
  \/ Native

Spec == Init /\ [][Next]_vars

(* Threads keep running and a broadcast handed to the swarm completes; a join *)
(* may hang, and the application owes nothing.                               *)
NativeFairness ==
  /\ WF_vars(Starts) /\ WF_vars(AbortLands)
  /\ \A b \in Broadcasts : WF_vars(\E how \in {"ok", "failed"} : BroadcastCompletes(b, how))
-------------------------------------------------------------------------------
\* Every variable keeps its type.
TypeOK ==
  /\ <<disposed, subIdKnown>> \in BOOLEAN \X BOOLEAN
  /\ ready \in {"pending", "resolved", "rejected"}
  /\ messages \in {"open", "done", "error"}
  /\ heard \in 0..events /\ events \in 0..MaxEvents
  /\ call \in [Broadcasts -> {"none", "waiting", "native", "ok", "failed"}]
  /\ bridge \in Seq({Task(t) : t \in {"start", "error", "event"}} \cup
                    {SentTask(b, how) : b \in Broadcasts, how \in {"ok", "failed"}})
  /\ join \in {"joining", "joined", "failed"}
  /\ registered \in {"not_yet", "yes", "removed"}
  /\ forwarder \in {"none", "running", "aborting", "gone"}
  /\ sending \subseteq {b \in Broadcasts : call[b] = "native"}

\* Where the events are among the JS tasks.
EventsOn(b) == {i \in DOMAIN b : b[i] = Task("event")}

\* Every variable keeps its type, and an event is not lost to a live subscription, not
\* even one that comes before the id: it was heard or is on its way.
NothingLostWhileLive ==
  /\ TypeOK
  /\ messages = "open" =>
       heard + Cardinality(EventsOn(bridge)) = events

\* Nobody waits on an id that will not come, and one that came while the subscription
\* was being ended is used to end it: no native subscription without an owner.
EndedOnceKnown ==
  /\ disposed => ready # "pending" /\ WaitingCalls = {}
  /\ disposed /\ subIdKnown => registered = "removed"

\* Leaving is never forgotten: after unsubscribe(), before or after the join, the
\* node stops following the topic unless the join hangs.
LeavesTheTopic ==
  disposed /\ join # "joining" ~>
    registered # "yes" /\ forwarder \in {"none", "gone"}

\* Every broadcast settles once the join is decided or the subscription ended.
BroadcastsSettle ==
  \A b \in Broadcasts :
    (call[b] # "none" /\ (join # "joining" \/ disposed)) ~> call[b] \in {"ok", "failed"}
===============================================================================
