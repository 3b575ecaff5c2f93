------------------------------ MODULE Connections ------------------------------
(***************************************************************************)
(* One dialled connection of one endpoint and the streams on it, whichever *)
(* side opens them: stream_connect, stream_connection_subscribe,           *)
(* stream_open_stream, stream_close_connection and stream_subscribe of     *)
(* streams.rs, the bridge, the ConnectionController of src/src/streams.ts  *)
(* and its StreamControllers, and the closing cascade of endpoint.ts.      *)
(*                                                                         *)
(* What streams carry is in ByteStream and StreamSend, how connections     *)
(* come in from listeners in StreamListener; here it is who owns what, and *)
(* answers that come when their asker is gone.                             *)
(***************************************************************************)
EXTENDS Naturals, Sequences, SequencesExt

CONSTANTS Streams,   \* the streams either side may open, one each
          Backlog    \* DEFAULT_STREAM_BACKLOG

ASSUME StreamsAssumption == IsFiniteSet(Streams) /\ "connection" \notin Streams
ASSUME BacklogAssumption == Backlog \in Nat \ {0}

VARIABLES
  endpoint,      \* "open", "closing" (its handle is gone), "closed"
  connection,    \* ConnectionController: "none", "open" or "settled"
  incoming,      \* its queue of peer-opened streams
  incomingOpen,  \* that queue is open
  openStreams,   \* ConnectionController.openStreams
  stream,        \* the StreamControllers: "none", "live" or "settled"
  held,          \* streams the application has
  late           \* streams that came to a closed queue

jsVars == <<endpoint, connection, incoming, incomingOpen, openStreams, stream, held, late>>

VARIABLES
  bridge,      \* JS tasks, in order
  registered,  \* the handles in CONNECTIONS ("connection") and STREAMS
  dial,        \* stream_connect: "none", "dialling", "connected", "answered"
  opening,     \* stream_open_stream: "none", "asked", "opened", "answered"
  quic,        \* the connection is "none", "up" or "down"
  accepting,   \* the accept task: "none", "running", "aborting", "ended"
  reading      \* the read tasks, likewise

nativeVars == <<registered, dial, opening, quic, accepting, reading>>
vars == <<jsVars, bridge, nativeVars>>

Event(type, s) == [type |-> type, stream |-> s]
ConnEvent(type) == Event(type, "connection")
Post(event) == bridge' = Append(bridge, event)
Stopped(t) == IF t = "running" THEN "aborting" ELSE t
-------------------------------------------------------------------------------
(* Effects on the JavaScript side.                                           *)

\* StreamController.finish of those in the set that are live, down to stream_close.
FinishStreams(set) ==
  LET live == {s \in set : stream[s] = "live"} IN
  /\ stream' = [s \in Streams |-> IF s \in live THEN "settled" ELSE stream[s]]
  /\ reading' = [s \in Streams |-> IF s \in live THEN Stopped(reading[s]) ELSE reading[s]]
  /\ openStreams' = openStreams \ live

\* ConnectionController.finish, down to stream_close_connection.
FinishConnection ==
  /\ connection = "open"
  /\ connection' = "settled"
  /\ FinishStreams(openStreams)
  /\ incoming' = << >>
  /\ incomingOpen' = FALSE
  /\ registered' = registered \ ({"connection"} \cup {s \in openStreams : stream[s] = "live"})
  /\ quic' = "down"
  /\ accepting' = Stopped(accepting)

\* Mutant: the read is left to whoever iterates over the stream.
AdoptUnread(s) ==
  /\ stream' = [stream EXCEPT ![s] = "live"]
  /\ openStreams' = openStreams \cup {s}
  /\ UNCHANGED reading

\* adopt: wrap the handle, which subscribes to it, and track it.
Adopt(s) ==
  /\ stream' = [stream EXCEPT ![s] = "live"]
  /\ reading' = [reading EXCEPT ![s] = "running"]
  /\ openStreams' = openStreams \cup {s}
-------------------------------------------------------------------------------
(* The application.                                                          *)

\* Streams.connect: a closed endpoint refuses.
stream_connect ==
  /\ dial = "none"
  /\ dial' = IF endpoint = "open" THEN "dialling" ELSE "answered"
  /\ UNCHANGED <<jsVars, bridge, registered, opening, quic, accepting, reading>>

\* Connection.openStream: a connection that is closed refuses.
stream_open_stream(s) ==
  /\ connection # "none"
  /\ opening[s] = "none" /\ stream[s] = "none" /\ s \notin registered
  /\ opening' = [opening EXCEPT ![s] = IF "connection" \in registered
                                       THEN "asked" ELSE "answered"]
  /\ UNCHANGED <<jsVars, bridge, registered, dial, quic, accepting, reading>>

\* A loop over `incoming` gets a stream.
Take ==
  /\ incoming # << >>
  /\ held' = held \cup {Head(incoming)}
  /\ incoming' = Tail(incoming)
  /\ UNCHANGED <<endpoint, connection, incomingOpen, openStreams, stream, late, bridge,
                 nativeVars>>

\* A loop over `incoming` is left: the queue closes, and drops what waits in it.
LoopBreaks ==
  /\ incomingOpen /\ connection = "open"
  /\ incomingOpen' = FALSE
  /\ FinishStreams(Range(incoming))
  /\ registered' = registered \ {s \in Range(incoming) : stream[s] = "live"}
  /\ incoming' = << >>
  /\ UNCHANGED <<endpoint, connection, held, late, bridge, dial, opening, quic, accepting>>

\* Stream.close.
CloseStream(s) ==
  /\ s \in held /\ stream[s] = "live"
  /\ FinishStreams({s})
  /\ registered' = registered \ {s}
  /\ UNCHANGED <<endpoint, connection, incoming, incomingOpen, held, late, bridge, dial,
                 opening, quic, accepting>>

\* Connection.close.
CloseConnection ==
  /\ FinishConnection
  /\ UNCHANGED <<endpoint, held, late, bridge, dial, opening>>

\* Endpoint.close: the handle goes at once.
CloseEndpoint ==
  /\ endpoint = "open"
  /\ endpoint' = "closing"
  /\ UNCHANGED <<connection, incoming, incomingOpen, openStreams, stream, held, late,
                 bridge, nativeVars>>
-------------------------------------------------------------------------------
(* JS tasks.                                                                 *)

TakeTask(type) ==
  /\ bridge # << >>
  /\ Head(bridge).type = type
  /\ bridge' = Tail(bridge)

Subject == Head(bridge).stream

\* connectStreams goes on: adoptStreamConnection, which subscribes, whatever has
\* become of the endpoint meanwhile.
OnConnected ==
  /\ TakeTask("connected")
  /\ connection' = "open"
  /\ incomingOpen' = TRUE
  /\ accepting' = "running"
  /\ UNCHANGED <<endpoint, incoming, openStreams, stream, held, late, registered, dial,
                 opening, quic, reading>>

\* openStream goes on: adopt, whatever has become of the connection meanwhile.
OnOpened ==
  /\ TakeTask("opened")
  /\ Adopt(Subject)
  /\ held' = held \cup {Subject}
  /\ UNCHANGED <<endpoint, connection, incoming, incomingOpen, late, registered, dial,
                 opening, quic, accepting>>

\* Mutant: the stream that is pushed out is not closed.
OnPeerStreamEvicting ==
  /\ TakeTask("stream")
  /\ Adopt(Subject)
  /\ late' = IF incomingOpen THEN late ELSE late \cup {Subject}
  /\ incoming' = IF ~incomingOpen THEN incoming
                 ELSE IF Len(incoming) < Backlog THEN Append(incoming, Subject)
                 ELSE Append(Tail(incoming), Subject)
  /\ UNCHANGED <<endpoint, connection, incomingOpen, held, registered, dial, opening, quic,
                 accepting>>

\* onPeerStream: adopt and push; a closed queue ignores it, a full one drops its
\* oldest, which is closed.
OnPeerStream ==
  /\ TakeTask("stream")
  /\ \/ /\ ~incomingOpen
        /\ Adopt(Subject)
        /\ late' = late \cup {Subject}
        /\ UNCHANGED <<incoming, registered>>
     \/ /\ incomingOpen /\ Len(incoming) < Backlog
        /\ Adopt(Subject)
        /\ incoming' = Append(incoming, Subject)
        /\ UNCHANGED <<late, registered>>
     \/ /\ incomingOpen /\ Len(incoming) = Backlog
        /\ LET old == Head(incoming) IN
           /\ stream' = [stream EXCEPT ![Subject] = "live", ![old] = "settled"]
           /\ reading' = [reading EXCEPT ![Subject] = "running", ![old] = Stopped(@)]
           /\ openStreams' = (openStreams \cup {Subject}) \ {old}
           /\ registered' = registered \ {old}
        /\ incoming' = Append(Tail(incoming), Subject)
        /\ UNCHANGED late
  /\ UNCHANGED <<endpoint, connection, incomingOpen, held, dial, opening, quic, accepting>>

\* The stream's onClose.
OnStreamEnd ==
  /\ TakeTask("streamEnd")
  /\ FinishStreams({Subject})
  /\ registered' = IF stream[Subject] = "live" THEN registered \ {Subject} ELSE registered
  /\ UNCHANGED <<endpoint, connection, incoming, incomingOpen, held, late, dial, opening,
                 quic, accepting>>

\* The connection's onClose, and the cascade when the close promise settles: both
\* finish it, unless something has.
OnEnd ==
  /\ TakeTask("end") \/ TakeTask("closed")
  /\ \/ FinishConnection
     \/ /\ connection # "open"
        /\ UNCHANGED <<connection, stream, reading, openStreams, incoming, incomingOpen,
                       registered, quic, accepting>>
  /\ UNCHANGED <<endpoint, held, late, dial, opening>>
-------------------------------------------------------------------------------
(* The runtime, the peer and the network.                                    *)

\* endpoint.connect, which a closed endpoint fails.
DialConnects ==
  /\ dial = "dialling" /\ endpoint # "closed"
  /\ dial' = "connected"
  /\ quic' = "up"
  /\ UNCHANGED <<jsVars, bridge, registered, opening, accepting, reading>>

DialFails ==
  /\ dial = "dialling"
  /\ dial' = "answered"
  /\ UNCHANGED <<jsVars, bridge, registered, opening, quic, accepting, reading>>

\* The handle is made and on_complete posts it.
DialAnswers ==
  /\ dial = "connected"
  /\ dial' = "answered"
  /\ registered' = registered \cup {"connection"}
  /\ Post(ConnEvent("connected"))
  /\ UNCHANGED <<jsVars, opening, quic, accepting, reading>>

\* open_bi.
Opens(s) ==
  /\ opening[s] = "asked" /\ quic = "up"
  /\ opening' = [opening EXCEPT ![s] = "opened"]
  /\ UNCHANGED <<jsVars, bridge, registered, dial, quic, accepting, reading>>

OpenFails(s) ==
  /\ opening[s] = "asked" /\ quic = "down"
  /\ opening' = [opening EXCEPT ![s] = "answered"]
  /\ UNCHANGED <<jsVars, bridge, registered, dial, quic, accepting, reading>>

OpenAnswers(s) ==
  /\ opening[s] = "opened"
  /\ opening' = [opening EXCEPT ![s] = "answered"]
  /\ registered' = registered \cup {s}
  /\ Post(Event("opened", s))
  /\ UNCHANGED <<jsVars, dial, quic, accepting, reading>>

\* The accept task: accept_bi gives a stream of the peer's, or the end.
Accepts(s) ==
  /\ accepting \in {"running", "aborting"} /\ quic = "up"
  /\ stream[s] = "none" /\ opening[s] = "none" /\ s \notin registered
  /\ registered' = registered \cup {s}
  /\ Post(Event("stream", s))
  /\ UNCHANGED <<jsVars, dial, opening, quic, accepting, reading>>

\* Mutant: on_close is called only for a close this side did not ask for.
AcceptEndsUnlessClosing ==
  /\ accepting \in {"running", "aborting"} /\ quic = "down"
  /\ accepting' = "ended"
  /\ bridge' = IF endpoint = "open" THEN Append(bridge, ConnEvent("end")) ELSE bridge
  /\ UNCHANGED <<jsVars, registered, dial, opening, quic, reading>>

AcceptEnds ==
  /\ accepting \in {"running", "aborting"} /\ quic = "down"
  /\ accepting' = "ended"
  /\ Post(ConnEvent("end"))
  /\ UNCHANGED <<jsVars, registered, dial, opening, quic, reading>>

\* A read task finds its stream finished, or the connection gone.
ReadEnds(s) ==
  /\ reading[s] \in {"running", "aborting"}
  /\ reading' = [reading EXCEPT ![s] = "ended"]
  /\ Post(Event("streamEnd", s))
  /\ UNCHANGED <<jsVars, registered, dial, opening, quic, accepting>>

\* An abort takes effect at the next await of the task.
AbortsLand ==
  /\ accepting = "aborting" \/ \E s \in Streams : reading[s] = "aborting"
  /\ accepting' = IF accepting = "aborting" THEN "ended" ELSE accepting
  /\ reading' = [s \in Streams |-> IF reading[s] = "aborting" THEN "ended" ELSE reading[s]]
  /\ UNCHANGED <<jsVars, bridge, registered, dial, opening, quic>>

\* The peer closes the connection, or it is lost.
ConnectionGoes ==
  /\ quic = "up"
  /\ quic' = "down"
  /\ UNCHANGED <<jsVars, bridge, registered, dial, opening, accepting, reading>>

\* The router has shut down, with every connection, and the close promise settles.
EndpointCloses ==
  /\ endpoint = "closing"
  /\ endpoint' = "closed"
  /\ quic' = IF quic = "up" THEN "down" ELSE quic
  /\ Post(ConnEvent("closed"))
  /\ UNCHANGED <<connection, incoming, incomingOpen, openStreams, stream, held, late,
                 registered, dial, opening, accepting, reading>>
-------------------------------------------------------------------------------
Init ==
  /\ endpoint = "open"
  /\ connection = "none"
  /\ incoming = << >>
  /\ incomingOpen = FALSE
  /\ openStreams = {}
  /\ stream = [s \in Streams |-> "none"]
  /\ held = {}
  /\ late = {}
  /\ bridge = << >>
  /\ registered = {}
  /\ dial = "none"
  /\ opening = [s \in Streams |-> "none"]
  /\ quic = "none"
  /\ accepting = "none"
  /\ reading = [s \in Streams |-> "none"]

Application ==
  \/ stream_connect
  \/ \E s \in Streams : stream_open_stream(s) \/ CloseStream(s)
  \/ Take \/ LoopBreaks \/ CloseConnection \/ CloseEndpoint

JsThread == OnConnected \/ OnOpened \/ OnPeerStream \/ OnStreamEnd \/ OnEnd

Answers(s) == Opens(s) \/ OpenFails(s) \/ OpenAnswers(s)

Native ==
  \/ DialConnects \/ DialFails \/ DialAnswers
  \/ \E s \in Streams : Answers(s) \/ Accepts(s) \/ ReadEnds(s)
  \/ AcceptEnds \/ AbortsLand \/ ConnectionGoes \/ EndpointCloses

Next == Application \/ JsThread \/ Native

(* The JavaScript thread and the runtime go on; a read ends by itself only    *)
(* when its connection does.  Peer and application owe nothing.              *)
Spec ==
  /\ Init /\ [][Next]_vars
  /\ WF_vars(JsThread)
  /\ WF_vars(DialFails \/ DialAnswers)
  /\ WF_vars(AcceptEnds) /\ WF_vars(AbortsLand) /\ WF_vars(EndpointCloses)
  /\ \A s \in Streams : WF_vars(Answers(s)) /\ WF_vars(quic = "down" /\ ReadEnds(s))
-------------------------------------------------------------------------------
\* Every variable keeps its type, and the incoming queue its limit.
TypeOK ==
  /\ endpoint \in {"open", "closing", "closed"}
  /\ connection \in {"none", "open", "settled"}
  /\ incoming \in Seq(Streams) /\ Len(incoming) <= Backlog
  /\ incomingOpen \in BOOLEAN
  /\ openStreams \cup held \cup late \subseteq Streams
  /\ stream \in [Streams -> {"none", "live", "settled"}]
  /\ registered \subseteq Streams \cup {"connection"}
  /\ quic \in {"none", "up", "down"}

\* Every variable keeps its type, and a live stream belongs to somebody who can close
\* it: the application has it or can take it, and the connection's cascade knows it.
\* Only those announced to a queue that was left are in nobody's hands but the
\* connection's.
StreamHasOwner ==
  /\ TypeOK
  /\ \A s \in Streams : stream[s] = "live" =>
       /\ s \in openStreams
       /\ s \in held \cup Range(incoming) \cup late

\* A stream that is adopted when its connection has settled already, which no cascade
\* will reach, is on its way out: its end is posted or its read task about to find it.
LateStreamsAreEnding ==
  \A s \in Streams : connection = "settled" /\ stream[s] = "live" =>
    /\ quic = "down"
    /\ \/ reading[s] = "running"
       \/ \E i \in DOMAIN bridge : bridge[i] = Event("streamEnd", s)

\* Nothing native survives a connection that settled or an endpoint that closed, nor
\* does a controller, whatever was being dialled, opened or announced meanwhile
\* (endpoint.ts:763, streams.ts:424).
NothingSurvives ==
  connection = "settled" \/ endpoint = "closed" ~>
    [](registered = {} /\ connection # "open" /\ \A s \in Streams : stream[s] # "live")
===============================================================================
