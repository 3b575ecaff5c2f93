---------------------------- MODULE StreamListener ----------------------------
(***************************************************************************)
(* Listening on one ALPN of one endpoint: the inbound queue the router     *)
(* fills and the listener tasks drain (streams.rs), the bridge, and the    *)
(* StreamListenerControllers and ConnectionControllers of                  *)
(* src/src/streams.ts, with the endpoint's closing cascade (endpoint.ts).  *)
(*                                                                         *)
(* Listeners follow one another on the ALPN.  A consumer that is parked    *)
(* takes a connection in two steps here: it is queued, then taken.         *)
(***************************************************************************)
EXTENDS Naturals, Sequences, FiniteSets, Functions

CONSTANTS Connections,  \* the connections peers make, one each
          MaxListeners, \* bound: calls of listen()
          Backlog,      \* INBOUND_BACKLOG
          Capacity      \* DEFAULT_STREAM_BACKLOG

ASSUME ConnectionsAssumption == IsFiniteSet(Connections)
ASSUME BoundsAssumption ==
  MaxListeners \in Nat /\ Backlog \in Nat \ {0} /\ Capacity \in Nat \ {0}

VARIABLES listener,  \* StreamListenerController: "none", "open", "disposed", "refused"
          open,      \* the listeners whose queue of accepted connections is open
          accepted,  \* those queues
          held,      \* the connections the application has taken
          late,      \* those that came to a closed queue
          endpoint   \* "open", "closing" (the handle is gone), "closed"

jsVars == <<listener, open, accepted, held, late, endpoint>>

VARIABLES bridge,    \* JS tasks
          inbound,   \* the ALPN's mpsc channel
          claim,     \* the listener whose task owns the receiver, or 0
          task,      \* the listener tasks: "none", "running", "aborting", "gone"
          conn,      \* "none", "waiting" inbound, "accepted" (registered, announced),
                     \* "live" (has its controller), "closed" (and not registered)
          up,        \* the connections QUIC has open
          told       \* those whose on_close was called

nativeVars == <<inbound, claim, task, up, told>>
vars == <<jsVars, bridge, conn, nativeVars>>

Listeners == 1..MaxListeners
ConnTask(l, c) == [type |-> "connection", listener |-> l, conn |-> c]
GoneTask(c) == [type |-> "gone", conn |-> c]
EndTask(l) == [type |-> "end", listener |-> l]
ClosedTask == [type |-> "closed"]
-------------------------------------------------------------------------------
(* Native side.                                                              *)

\* InboundAlpnHandler.accept: with the channel full the connection is refused.
PeerConnects(c) ==
  /\ conn[c] = "none" /\ endpoint # "closed"
  /\ IF Len(inbound) < Backlog
     THEN /\ inbound' = Append(inbound, c)
          /\ conn' = [conn EXCEPT ![c] = "waiting"]
          /\ up' = up \cup {c}
     ELSE /\ conn' = [conn EXCEPT ![c] = "closed"]
          /\ UNCHANGED <<inbound, up>>
  /\ UNCHANGED <<jsVars, bridge, claim, task, told>>

\* The peer or the network ends a connection.
PeerCloses(c) ==
  /\ c \in up
  /\ up' = up \ {c}
  /\ UNCHANGED <<jsVars, bridge, conn, inbound, claim, task, told>>

\* The listener task: recv, insert, on_connection.
Accept(l) ==
  /\ task[l] \in {"running", "aborting"}
  /\ inbound # << >>
  /\ inbound' = Tail(inbound)
  /\ conn' = [conn EXCEPT ![Head(inbound)] = "accepted"]
  /\ bridge' = Append(bridge, ConnTask(l, Head(inbound)))
  /\ UNCHANGED <<jsVars, claim, task, up, told>>

\* Dropping the task drops the guard of the receiver.
AbortLands(l) ==
  /\ task[l] = "aborting"
  /\ task' = [task EXCEPT ![l] = "gone"]
  /\ claim' = 0
  /\ UNCHANGED <<jsVars, bridge, conn, inbound, up, told>>

\* The router has dropped the sender and the channel is drained.
ListenerEnds(l) ==
  /\ task[l] \in {"running", "aborting"}
  /\ endpoint = "closed" /\ inbound = << >>
  /\ task' = [task EXCEPT ![l] = "gone"]
  /\ claim' = 0
  /\ bridge' = Append(bridge, EndTask(l))
  /\ UNCHANGED <<jsVars, conn, inbound, up, told>>

\* Mutant: nothing is reported once the endpoint is closed.
ConnectionGoneWhileOpen(c) ==
  /\ conn[c] = "live" /\ c \notin up \cup told
  /\ endpoint # "closed"
  /\ told' = told \cup {c}
  /\ bridge' = Append(bridge, GoneTask(c))
  /\ UNCHANGED <<jsVars, conn, inbound, claim, task, up>>

\* The accept task of a subscribed connection finds it ended: on_close.
ConnectionGone(c) ==
  /\ conn[c] = "live" /\ c \notin up \cup told
  /\ told' = told \cup {c}
  /\ bridge' = Append(bridge, GoneTask(c))
  /\ UNCHANGED <<jsVars, conn, inbound, claim, task, up>>

\* Router shutdown, which closes every connection, and the end of the close promise.
EndpointCloses ==
  /\ endpoint = "closing"
  /\ endpoint' = "closed"
  /\ up' = {}
  /\ bridge' = Append(bridge, ClosedTask)
  /\ UNCHANGED <<listener, open, accepted, held, late, conn, inbound, claim, task, told>>
-------------------------------------------------------------------------------
(* The JavaScript thread.                                                    *)

\* ConnectionController.finish for each of them: idempotent.
CloseConnections(set) ==
  /\ conn' = [c \in Connections |-> IF c \in set /\ conn[c] = "live" THEN "closed" ELSE conn[c]]
  /\ up' = up \ {c \in set : conn[c] = "live"}

\* listen: a second claim on the ALPN is refused.
Listen(l) ==
  /\ endpoint = "open"
  /\ listener[l] = "none" /\ \A k \in 1..(l - 1) : listener[k] # "none"
  /\ IF claim # 0
     THEN /\ listener' = [listener EXCEPT ![l] = "refused"]
          /\ UNCHANGED <<open, claim, task>>
     ELSE /\ listener' = [listener EXCEPT ![l] = "open"]
          /\ open' = open \cup {l}
          /\ claim' = l
          /\ task' = [task EXCEPT ![l] = "running"]
  /\ UNCHANGED <<accepted, held, late, endpoint, bridge, conn, inbound, up, told>>

\* finish of the listeners in `set`: stopListen, then close the queue, which closes
\* what waits in it.
FinishListeners(set) ==
  /\ listener' = [l \in Listeners |-> IF l \in set THEN "disposed" ELSE listener[l]]
  /\ open' = open \ set
  /\ task' = [l \in Listeners |-> IF l \in set /\ task[l] = "running" THEN "aborting" ELSE task[l]]
  /\ accepted' = [l \in Listeners |-> IF l \in set THEN << >> ELSE accepted[l]]

Unconsumed(set) == UNION {Range(accepted[l]) : l \in set}

\* StreamListener.close.
CloseListener(l) ==
  /\ listener[l] = "open"
  /\ FinishListeners({l})
  /\ CloseConnections(Unconsumed({l}))
  /\ UNCHANGED <<held, late, endpoint, bridge, inbound, claim, told>>

\* A loop over `connections` is left: MessageQueue.return, which closes the queue only.
LoopBreaks(l) ==
  /\ l \in open
  /\ open' = open \ {l}
  /\ CloseConnections(Unconsumed({l}))
  /\ accepted' = [accepted EXCEPT ![l] = << >>]
  /\ UNCHANGED <<listener, held, late, endpoint, bridge, inbound, claim, task, told>>

\* A loop gets a connection.
Take(l) ==
  /\ accepted[l] # << >>
  /\ held' = held \cup {Head(accepted[l])}
  /\ accepted' = [accepted EXCEPT ![l] = Tail(accepted[l])]
  /\ UNCHANGED <<listener, open, late, endpoint, bridge, conn, nativeVars>>

\* Connection.close by the application.
CloseConnection(c) ==
  /\ c \in held /\ conn[c] = "live"
  /\ CloseConnections({c})
  /\ UNCHANGED <<jsVars, bridge, inbound, claim, task, told>>

TakeTask(type) ==
  /\ bridge # << >>
  /\ Head(bridge).type = type
  /\ bridge' = Tail(bridge)

\* Mutant: an evicted connection is not closed.
OnConnectionEvicting ==
  /\ TakeTask("connection")
  /\ LET l == Head(bridge).listener  c == Head(bridge).conn IN
     /\ conn' = [conn EXCEPT ![c] = "live"]
     /\ late' = IF l \in open THEN late ELSE late \cup {c}
     /\ accepted' = IF l \notin open THEN accepted
                    ELSE [accepted EXCEPT ![l] =
                            IF Len(@) < Capacity THEN Append(@, c) ELSE Append(Tail(@), c)]
  /\ UNCHANGED <<listener, open, held, endpoint, nativeVars>>

\* onConnection: wrap and subscribe, then push; the oldest gives way when it is full.
OnConnection ==
  /\ TakeTask("connection")
  /\ LET l == Head(bridge).listener  c == Head(bridge).conn IN
     \/ /\ l \notin open
        /\ conn' = [conn EXCEPT ![c] = "live"]
        /\ late' = late \cup {c}
        /\ UNCHANGED <<accepted, up>>
     \/ /\ l \in open /\ Len(accepted[l]) < Capacity
        /\ conn' = [conn EXCEPT ![c] = "live"]
        /\ accepted' = [accepted EXCEPT ![l] = Append(@, c)]
        /\ UNCHANGED <<late, up>>
     \/ /\ l \in open /\ Len(accepted[l]) >= Capacity
        /\ conn' = [conn EXCEPT ![c] = "live", ![Head(accepted[l])] = "closed"]
        /\ up' = up \ {Head(accepted[l])}
        /\ accepted' = [accepted EXCEPT ![l] = Append(Tail(@), c)]
        /\ UNCHANGED late
  /\ UNCHANGED <<listener, open, held, endpoint, inbound, claim, task, told>>

\* The connection's onClose.
OnGone ==
  /\ TakeTask("gone")
  /\ CloseConnections({Head(bridge).conn})
  /\ UNCHANGED <<jsVars, inbound, claim, task, told>>

\* The listener's onClose.
OnEnd ==
  /\ TakeTask("end")
  /\ LET set == {l \in {Head(bridge).listener} : listener[l] = "open"} IN
     FinishListeners(set) /\ CloseConnections(Unconsumed(set))
  /\ UNCHANGED <<held, late, endpoint, inbound, claim, told>>

Close ==
  /\ endpoint = "open"
  /\ endpoint' = "closing"
  /\ UNCHANGED <<listener, open, accepted, held, late, bridge, conn, nativeVars>>

\* The cascade of Endpoint.close, over every listener and every tracked connection.
OnClosed ==
  /\ TakeTask("closed")
  /\ FinishListeners({l \in Listeners : listener[l] = "open"})
  /\ CloseConnections(Connections)
  /\ UNCHANGED <<held, late, endpoint, inbound, claim, told>>
-------------------------------------------------------------------------------
Init ==
  /\ listener = [l \in Listeners |-> "none"]
  /\ open = {}
  /\ accepted = [l \in Listeners |-> << >>]
  /\ held = {}
  /\ late = {}
  /\ endpoint = "open"
  /\ bridge = << >>
  /\ inbound = << >>
  /\ claim = 0
  /\ task = [l \in Listeners |-> "none"]
  /\ conn = [c \in Connections |-> "none"]
  /\ up = {}
  /\ told = {}

JsThread == OnConnection \/ OnGone \/ OnEnd \/ OnClosed

Next ==
  \/ \E c \in Connections :
       PeerConnects(c) \/ PeerCloses(c) \/ ConnectionGone(c) \/ CloseConnection(c)
  \/ \E l \in Listeners :
       \/ Accept(l) \/ AbortLands(l) \/ ListenerEnds(l)
       \/ Listen(l) \/ CloseListener(l) \/ LoopBreaks(l) \/ Take(l)
  \/ EndpointCloses
  \/ Close
  \/ JsThread

Spec == Init /\ [][Next]_vars

(* Threads keep running; peers and the application owe nothing.              *)
FairSpec ==
  /\ Spec
  /\ WF_vars(JsThread)
  /\ WF_vars(EndpointCloses)
  /\ \A l \in Listeners : WF_vars(Accept(l) \/ ListenerEnds(l)) /\ WF_vars(AbortLands(l))
  /\ \A c \in Connections : WF_vars(ConnectionGone(c))
-------------------------------------------------------------------------------
\* Every variable keeps its type, and one task at most owns the receiver.
TypeOK ==
  /\ listener \in [Listeners -> {"none", "open", "disposed", "refused"}]
  /\ open \subseteq {l \in Listeners : listener[l] = "open"}
  /\ accepted \in [Listeners -> Seq(Connections)]
  /\ \A l \in Listeners : Len(accepted[l]) <= Capacity
  /\ held \cup late \cup up \cup told \subseteq Connections
  /\ endpoint \in {"open", "closing", "closed"}
  /\ bridge \in Seq({ConnTask(l, c) : l \in Listeners, c \in Connections} \cup
                    {GoneTask(c) : c \in Connections} \cup
                    {EndTask(l) : l \in Listeners} \cup {ClosedTask})
  /\ inbound \in Seq(Connections) /\ Len(inbound) <= Backlog
  /\ task \in [Listeners -> {"none", "running", "aborting", "gone"}]
  /\ conn \in [Connections -> {"none", "waiting", "accepted", "live", "closed"}]
  /\ \A l \in Listeners : task[l] \in {"running", "aborting"} <=> claim = l

HasOwner(c) == c \in held \/ \E l \in open : c \in Range(accepted[l])

\* Every variable keeps its type, one task at most owns the receiver, and a live
\* connection belongs to the application or waits where it can be taken, through
\* eviction, closing and breaking; `late` ones aside.
LiveHasOwner ==
  /\ TypeOK
  /\ \A c \in Connections : conn[c] = "live" /\ c \notin late => HasOwner(c)

\* Closing the endpoint releases every native connection in the end, those too that
\* are accepted while it shuts down or announced after the cascade.
CloseReleasesAll ==
  endpoint = "closed" ~> \A c \in Connections : conn[c] \notin {"accepted", "live"}

\* streams.ts:157-158, of StreamListener.close: connections already handed out stay
\* open, "Only ones still waiting unconsumed are closed".
UnconsumedAreClosed ==
  bridge = << >> =>
    \A c \in Connections, l \in Listeners :
      conn[c] = "live" /\ listener[l] = "disposed" /\ claim = 0 => HasOwner(c)
===============================================================================
