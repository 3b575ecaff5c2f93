--------------------------- MODULE ConnectionsProofs ---------------------------
(***************************************************************************)
(* Proofs about Connections, for any number of streams and any backlog.    *)
(*                                                                         *)
(* What StreamHasOwner and LateStreamsAreEnding need besides themselves is *)
(* what the bridge may hold: an announcement for every handle JavaScript   *)
(* has not adopted yet and for no other, each once, and the end of every   *)
(* live stream whose read task is over.                                    *)
(***************************************************************************)
EXTENDS Connections, SequenceTheorems, TLAPS

Events ==
  {Event(type, s) : type \in {"opened", "stream", "streamEnd"}, s \in Streams}
    \cup {ConnEvent(type) : type \in {"connected", "end", "closed"}}

On(b, e) == \E i \in 1..Len(b) : b[i] = e

\* The tasks that hand JavaScript a new handle.
Announces(e, x) == e.type \in {"opened", "stream", "connected"} /\ e.stream = x
Announced(b, x) == \E i \in 1..Len(b) : Announces(b[i], x)
OnceAnnounced(b) ==
  \A i, j \in 1..Len(b) : Announces(b[i], b[j].stream) /\ Announces(b[j], b[j].stream) => i = j

\* What a connection or stream controller is, in a state of the two.
Handles == Streams \cup {"connection"}
Live(c, st, x) == IF x = "connection" THEN c = "open" ELSE st[x] = "live"
Fresh(c, st, x) == IF x = "connection" THEN c = "none" ELSE st[x] = "none"

\* The types TypeOK leaves out.
Shapes ==
  /\ TypeOK
  /\ bridge \in Seq(Events)
  /\ reading \in [Streams -> {"none", "running", "aborting", "ended"}]
  /\ opening \in [Streams -> {"none", "asked", "opened", "answered"}]

\* Whoever can close a live stream knows it.
OwnerInv ==
  \A s \in Streams : stream[s] = "live" =>
    s \in openStreams /\ s \in held \cup Range(incoming) \cup late

\* A live stream is being read, or its end is posted.
ReadInv ==
  \A s \in Streams : stream[s] = "live" =>
    reading[s] = "running" \/ On(bridge, Event("streamEnd", s))

\* The dial is over when its answer is posted, and what settles takes QUIC down.
DialInv ==
  /\ connection # "none" \/ Announced(bridge, "connection") => dial = "answered"
  /\ connection = "settled" => quic = "down"

\* A native handle is registered exactly while its controller is live or about to
\* be made, which is announced once.
HandleInv ==
  /\ \A x \in Handles :
       x \in registered <=> Live(connection, stream, x) \/ Announced(bridge, x)
  /\ \A x \in Handles : Announced(bridge, x) => Fresh(connection, stream, x)
  /\ OnceAnnounced(bridge)
  /\ \A s \in Streams :
       opening[s] \in {"asked", "opened"} => stream[s] = "none" /\ s \notin registered
  /\ \A s \in Range(incoming) : stream[s] # "none"

IInv ==
  /\ Shapes
  /\ OwnerInv
  /\ ReadInv
  /\ DialInv
  /\ HandleInv
-------------------------------------------------------------------------------
(* The bridge and the incoming queue as sequences.                           *)

LEMMA EventsType ==
  /\ \A s \in Streams : Event("opened", s) \in Events /\ Event("stream", s) \in Events
                        /\ Event("streamEnd", s) \in Events
  /\ ConnEvent("connected") \in Events /\ ConnEvent("end") \in Events
  /\ ConnEvent("closed") \in Events
BY DEF Events

LEMMA EventFields ==
  ASSUME NEW e \in Events
  PROVE  /\ e.type \in {"opened", "stream", "streamEnd"} =>
              e.stream \in Streams /\ e = Event(e.type, e.stream)
         /\ e.type \in {"connected", "end", "closed"} => e = ConnEvent(e.type)
         /\ e.type \in {"opened", "stream", "streamEnd", "connected", "end", "closed"}
         /\ \A type, s : e = Event(type, s) => e.type = type /\ e.stream = s
BY DEF Events, Event, ConnEvent

LEMMA AppendOn ==
  ASSUME NEW S, NEW b \in Seq(S), NEW e \in S
  PROVE  /\ Append(b, e) \in Seq(S) /\ Len(Append(b, e)) = Len(b) + 1 /\ Len(b) \in Nat
         /\ \A i \in 1..Len(b) : Append(b, e)[i] = b[i]
         /\ Append(b, e)[Len(b) + 1] = e
         /\ \A f : On(Append(b, e), f) <=> On(b, f) \/ f = e
<1> DEFINE p == Append(b, e)
<1>1. /\ p \in Seq(S) /\ Len(p) = Len(b) + 1 /\ Len(b) \in Nat
      /\ \A i \in 1..Len(b) : p[i] = b[i]
      /\ p[Len(b) + 1] = e
  BY AppendProperties, LenProperties
<1> HIDE DEF p
<1>2. \A i : i \in 1..Len(p) <=> i \in 1..Len(b) \/ i = Len(b) + 1
  BY <1>1
<1>3. \A f : On(p, f) <=> On(b, f) \/ f = e
  BY <1>1, <1>2 DEF On
<1>4. QED
  BY <1>1, <1>3 DEF p

LEMMA TailOn ==
  ASSUME NEW S, NEW b \in Seq(S), b # << >>
  PROVE  /\ Tail(b) \in Seq(S) /\ Len(Tail(b)) = Len(b) - 1 /\ Len(b) \in Nat
         /\ Head(b) \in S /\ Head(b) = b[1] /\ 1 \in 1..Len(b)
         /\ \A i \in 1..Len(Tail(b)) : i + 1 \in 1..Len(b) /\ Tail(b)[i] = b[i + 1]
         /\ \A i \in 1..Len(b) :
              i = 1 \/ (i - 1 \in 1..Len(Tail(b)) /\ Tail(b)[i - 1] = b[i])
         /\ \A f : On(b, f) <=> On(Tail(b), f) \/ f = Head(b)
<1> DEFINE p == Tail(b)
<1>1. /\ p \in Seq(S) /\ Len(p) = Len(b) - 1 /\ Len(b) \in Nat
      /\ \A i \in 1..Len(p) : p[i] = b[i + 1]
      /\ Head(b) = b[1] /\ Head(b) \in S /\ 1 \in 1..Len(b)
  BY HeadTailProperties, LenProperties, EmptySeq
<1> HIDE DEF p
<1>2. /\ \A i \in 1..Len(p) : i + 1 \in 1..Len(b)
      /\ \A i \in 1..Len(b) : i = 1 \/ (i - 1 \in 1..Len(p) /\ p[i - 1] = b[i])
  BY <1>1
<1>3. \A f : On(b, f) <=> On(p, f) \/ f = Head(b)
  BY <1>1, <1>2 DEF On
<1>4. QED
  BY <1>1, <1>2, <1>3 DEF p

LEMMA AppendAnnounced ==
  ASSUME NEW S, NEW b \in Seq(S), NEW e \in S
  PROVE  /\ \A x : Announced(Append(b, e), x) <=> Announced(b, x) \/ Announces(e, x)
         /\ OnceAnnounced(b) /\ (\A x : Announces(e, x) => ~Announced(b, x))
              => OnceAnnounced(Append(b, e))
<1> DEFINE p == Append(b, e)
<1>1. /\ Len(p) = Len(b) + 1 /\ Len(b) \in Nat
      /\ \A i \in 1..Len(b) : p[i] = b[i]
      /\ p[Len(b) + 1] = e
  BY AppendOn
<1> HIDE DEF p
<1>2. \A i : i \in 1..Len(p) <=> i \in 1..Len(b) \/ i = Len(b) + 1
  BY <1>1
<1>3. \A x : Announced(p, x) <=> Announced(b, x) \/ Announces(e, x)
  BY <1>1, <1>2 DEF Announced
<1>4. ASSUME OnceAnnounced(b), \A x : Announces(e, x) => ~Announced(b, x)
      PROVE  OnceAnnounced(p)
  BY <1>1, <1>2, <1>4 DEF OnceAnnounced, Announced
<1>5. QED
  BY <1>3, <1>4 DEF p

LEMMA TailAnnounced ==
  ASSUME NEW S, NEW b \in Seq(S), b # << >>
  PROVE  /\ \A x : Announced(b, x) <=> Announced(Tail(b), x) \/ Announces(Head(b), x)
         /\ OnceAnnounced(b) => /\ OnceAnnounced(Tail(b))
                                /\ \A x : Announces(Head(b), x) => ~Announced(Tail(b), x)
<1> DEFINE p == Tail(b)
<1>1. /\ Len(p) = Len(b) - 1 /\ Len(b) \in Nat /\ Head(b) = b[1] /\ 1 \in 1..Len(b)
      /\ \A i \in 1..Len(p) : i + 1 \in 1..Len(b) /\ p[i] = b[i + 1]
      /\ \A i \in 1..Len(b) : i = 1 \/ (i - 1 \in 1..Len(p) /\ p[i - 1] = b[i])
  BY TailOn
<1> HIDE DEF p
<1>2. \A x : Announced(b, x) <=> Announced(p, x) \/ Announces(Head(b), x)
  BY <1>1 DEF Announced
<1>3. ASSUME OnceAnnounced(b)
      PROVE  OnceAnnounced(p)
  <2>1. SUFFICES ASSUME NEW i \in 1..Len(p), NEW j \in 1..Len(p), NEW x,
                        Announces(p[i], x), Announces(p[j], x)
                 PROVE  i = j
    BY DEF OnceAnnounced
  <2>2. /\ i + 1 \in 1..Len(b) /\ Announces(b[i + 1], x) /\ b[i + 1].stream = x
        /\ j + 1 \in 1..Len(b) /\ Announces(b[j + 1], x) /\ b[j + 1].stream = x
    BY <1>1, <2>1 DEF Announces
  <2>3. i + 1 = j + 1
    BY <1>3, <2>2 DEF OnceAnnounced
  <2>4. QED
    BY <2>3
<1>4. ASSUME OnceAnnounced(b), NEW x, Announces(Head(b), x)
      PROVE  ~Announced(p, x)
  <2>1. SUFFICES ASSUME NEW i \in 1..Len(p), Announces(p[i], x)
                 PROVE  FALSE
    BY DEF Announced
  <2>2. /\ i + 1 \in 1..Len(b) /\ Announces(b[i + 1], x) /\ b[i + 1].stream = x
        /\ Announces(b[1], x) /\ b[1].stream = x
    BY <1>1, <1>4, <2>1 DEF Announces
  <2>3. i + 1 = 1
    BY <1>1, <1>4, <2>2 DEF OnceAnnounced
  <2>4. QED
    BY <2>3
<1>5. QED
  BY <1>2, <1>3, <1>4 DEF p

LEMMA RangeOf ==
  ASSUME NEW S, NEW q \in Seq(S)
  PROVE  /\ Range(q) \subseteq S
         /\ \A x : x \in Range(q) <=> On(q, x)
<1>1. DOMAIN q = 1..Len(q) /\ \A i \in 1..Len(q) : q[i] \in S
  BY LenProperties, ElementOfSeq
<1>2. QED
  BY <1>1 DEF Range, On

LEMMA EmptyRange == Range(<< >>) = {} /\ \A f : ~On(<< >>, f)
BY DEF Range, On

LEMMA AppendRange ==
  ASSUME NEW S, NEW q \in Seq(S), NEW x \in S
  PROVE  Range(Append(q, x)) = Range(q) \cup {x}
<1>1. Append(q, x) \in Seq(S)
  BY AppendOn
<1>2. \A y : y \in Range(Append(q, x)) <=> y \in Range(q) \/ y = x
  BY <1>1, RangeOf, AppendOn
<1>3. QED
  BY <1>2

LEMMA TailRange ==
  ASSUME NEW S, NEW q \in Seq(S), q # << >>
  PROVE  Range(q) = Range(Tail(q)) \cup {Head(q)}
<1>1. Tail(q) \in Seq(S)
  BY TailOn
<1>2. \A y : y \in Range(q) <=> y \in Range(Tail(q)) \/ y = Head(q)
  BY <1>1, RangeOf, TailOn
<1>3. QED
  BY <1>2

\* The task the JS thread takes off the bridge.
LEMMA Taken ==
  ASSUME Shapes, NEW type, TakeTask(type)
  PROVE  /\ bridge # << >> /\ bridge' = Tail(bridge) /\ bridge' \in Seq(Events)
         /\ Head(bridge) \in Events /\ Head(bridge).type = type
         /\ \A f : On(bridge, f) <=> On(bridge', f) \/ f = Head(bridge)
BY TailOn DEF Shapes, TakeTask

\* Three kinds of task are about a stream.
LEMMA StreamTask ==
  ASSUME Shapes, NEW type \in {"opened", "stream", "streamEnd"}, TakeTask(type)
  PROVE  Subject \in Streams /\ Head(bridge) = Event(type, Subject)
<1>1. Head(bridge) \in Events /\ Head(bridge).type = type
  BY Taken
<1>2. QED
  BY <1>1, EventFields DEF Subject

\* The answer to the dial announces the connection.
LEMMA ConnectedTask ==
  ASSUME Shapes, TakeTask("connected")
  PROVE  Announces(Head(bridge), "connection") /\ Announced(bridge, "connection")
<1>1. bridge # << >> /\ Head(bridge) \in Events /\ Head(bridge).type = "connected"
  BY Taken
<1>2. Announces(Head(bridge), "connection")
  BY <1>1, EventFields DEF Announces, ConnEvent, Event
<1>3. QED
  BY <1>1, <1>2, TailAnnounced DEF Shapes
-------------------------------------------------------------------------------
(* What the shared effects do.                                               *)

LEMMA Finishes ==
  ASSUME Shapes, NEW set, FinishStreams(set)
  PROVE  /\ stream' \in [Streams -> {"none", "live", "settled"}]
         /\ reading' \in [Streams -> {"none", "running", "aborting", "ended"}]
         /\ openStreams' \subseteq openStreams
         /\ \A s \in Streams : stream'[s] = IF s \in set /\ stream[s] = "live"
                                            THEN "settled" ELSE stream[s]
         /\ \A s \in Streams : ~(s \in set /\ stream[s] = "live") => reading'[s] = reading[s]
         /\ \A s \in openStreams : ~(s \in set /\ stream[s] = "live") => s \in openStreams'
BY DEF Shapes, TypeOK, FinishStreams, Stopped

\* Ending the connection settles every live stream.
LEMMA FinishesAll ==
  ASSUME Shapes, OwnerInv, FinishConnection
  PROVE  /\ connection = "open" /\ connection' = "settled" /\ quic' = "down"
         /\ incoming' = << >> /\ incomingOpen' = FALSE
         /\ stream' \in [Streams -> {"none", "live", "settled"}]
         /\ reading' \in [Streams -> {"none", "running", "aborting", "ended"}]
         /\ openStreams' \subseteq openStreams
         /\ \A s \in Streams : stream'[s] = IF stream[s] = "live" THEN "settled" ELSE stream[s]
         /\ registered' = registered \ ({"connection"} \cup {s \in Streams : stream[s] = "live"})
<1>1. FinishStreams(openStreams)
  BY DEF FinishConnection
<1>2. {s \in openStreams : stream[s] = "live"} = {s \in Streams : stream[s] = "live"}
  BY DEF OwnerInv, Shapes, TypeOK
<1>3. \A s \in Streams : stream'[s] = IF s \in openStreams /\ stream[s] = "live"
                                      THEN "settled" ELSE stream[s]
  BY <1>1, Finishes
<1>4. \A s \in Streams : stream'[s] = IF stream[s] = "live" THEN "settled" ELSE stream[s]
  BY <1>3 DEF OwnerInv
<1>5. /\ stream' \in [Streams -> {"none", "live", "settled"}]
      /\ reading' \in [Streams -> {"none", "running", "aborting", "ended"}]
      /\ openStreams' \subseteq openStreams
  BY <1>1, Finishes
<1>6. QED
  BY <1>2, <1>4, <1>5 DEF FinishConnection
-------------------------------------------------------------------------------
LEMMA ShapesStep == IInv /\ [Next]_vars => Shapes'
<1> SUFFICES ASSUME IInv, [Next]_vars PROVE Shapes'
  OBVIOUS
<1>T. Shapes /\ TypeOK /\ OwnerInv
  BY DEF IInv, Shapes
<1>B. Backlog \in Nat /\ Backlog > 0 /\ "connection" \notin Streams
  BY BacklogAssumption, StreamsAssumption
<1>P. \A e \in Events : Append(bridge, e) \in Seq(Events)
  BY <1>T, AppendOn DEF Shapes
<1>1. CASE stream_connect \/ CloseEndpoint \/ DialConnects \/ DialFails \/ ConnectionGoes
  BY <1>1, <1>T
  DEF stream_connect, CloseEndpoint, DialConnects, DialFails, ConnectionGoes, Shapes, TypeOK,
      jsVars, nativeVars
<1>2. CASE Take
  <2>1. incoming' \in Seq(Streams) /\ Len(incoming') <= Len(incoming) /\ Head(incoming) \in Streams
    BY <1>2, <1>T, TailOn DEF Take, TypeOK
  <2>2. Len(incoming') <= Backlog
    BY <2>1, <1>B, <1>T, LenProperties DEF TypeOK
  <2>3. QED
    BY <2>1, <2>2, <1>2, <1>T DEF Take, Shapes, TypeOK, nativeVars
<1>3. CASE LoopBreaks
  <2>1. FinishStreams(Range(incoming))
    BY <1>3 DEF LoopBreaks
  <2>2. /\ stream' \in [Streams -> {"none", "live", "settled"}]
        /\ reading' \in [Streams -> {"none", "running", "aborting", "ended"}]
        /\ openStreams' \subseteq openStreams
    BY <2>1, <1>T, Finishes
  <2>3. incoming' \in Seq(Streams) /\ Len(incoming') <= Backlog
    BY <1>3, <1>B, EmptySeq DEF LoopBreaks
  <2>4. QED
    BY <2>2, <2>3, <1>3, <1>T DEF LoopBreaks, Shapes, TypeOK
<1>4. ASSUME NEW s \in Streams, stream_open_stream(s) \/ Opens(s) \/ OpenFails(s)
      PROVE  Shapes'
  BY <1>4, <1>T DEF stream_open_stream, Opens, OpenFails, Shapes, TypeOK, jsVars
<1>5. ASSUME NEW s \in Streams, CloseStream(s)
      PROVE  Shapes'
  <2>1. FinishStreams({s})
    BY <1>5 DEF CloseStream
  <2>2. /\ stream' \in [Streams -> {"none", "live", "settled"}]
        /\ reading' \in [Streams -> {"none", "running", "aborting", "ended"}]
        /\ openStreams' \subseteq openStreams
    BY <2>1, <1>T, Finishes
  <2>3. QED
    BY <2>2, <1>5, <1>T DEF CloseStream, Shapes, TypeOK
<1>F. ASSUME FinishConnection, UNCHANGED <<endpoint, held, late, dial, opening>>,
             bridge' \in Seq(Events)
      PROVE  Shapes'
  <2>1. /\ connection' = "settled" /\ quic' = "down"
        /\ incoming' = << >> /\ incomingOpen' = FALSE
        /\ stream' \in [Streams -> {"none", "live", "settled"}]
        /\ reading' \in [Streams -> {"none", "running", "aborting", "ended"}]
        /\ openStreams' \subseteq openStreams
        /\ registered' \subseteq registered
    BY <1>F, <1>T, FinishesAll
  <2>2. incoming' \in Seq(Streams) /\ Len(incoming') <= Backlog
    BY <2>1, <1>B, EmptySeq
  <2>3. QED
    BY <2>1, <2>2, <1>F, <1>T DEF Shapes, TypeOK
<1>6. CASE CloseConnection
  BY <1>6, <1>F, <1>T DEF CloseConnection, Shapes
<1>7. CASE OnConnected
  <2>1. bridge' \in Seq(Events)
    BY <1>7, <1>T, Taken DEF OnConnected
  <2>2. QED
    BY <2>1, <1>7, <1>T DEF OnConnected, Shapes, TypeOK
<1>8. CASE OnOpened
  <2>1. bridge' \in Seq(Events) /\ Subject \in Streams
    BY <1>8, <1>T, Taken, StreamTask DEF OnOpened
  <2>2. QED
    BY <2>1, <1>8, <1>T DEF OnOpened, Adopt, Shapes, TypeOK
<1>9. CASE OnPeerStream
  <2>1. bridge' \in Seq(Events) /\ Subject \in Streams
    BY <1>9, <1>T, Taken, StreamTask DEF OnPeerStream
  <2>2. incoming \in Seq(Streams) /\ Len(incoming) \in Nat
    BY <1>T, LenProperties DEF TypeOK
  <2>3. CASE ~incomingOpen
    BY <2>1, <2>3, <1>9, <1>T DEF OnPeerStream, Adopt, Shapes, TypeOK
  <2>4. CASE incomingOpen /\ Len(incoming) < Backlog
    <3>1. /\ Adopt(Subject) /\ incoming' = Append(incoming, Subject)
          /\ UNCHANGED <<late, registered>>
      BY <2>4, <1>9, <1>B, <2>2 DEF OnPeerStream
    <3>2. incoming' \in Seq(Streams) /\ Len(incoming') = Len(incoming) + 1
      BY <3>1, <2>1, <2>2, AppendOn
    <3>3. Len(incoming') <= Backlog
      BY <3>2, <2>2, <2>4, <1>B
    <3>4. QED
      BY <2>1, <3>1, <3>2, <3>3, <1>9, <1>T DEF OnPeerStream, Adopt, Shapes, TypeOK
  <2>5. CASE incomingOpen /\ Len(incoming) = Backlog
    <3>1. incoming # << >>
      BY <2>5, <1>B, EmptySeq
    <3>2. /\ Head(incoming) \in Streams /\ Tail(incoming) \in Seq(Streams)
          /\ Len(Tail(incoming)) = Len(incoming) - 1
      BY <3>1, <2>2, TailOn
    <3>3. /\ stream' = [stream EXCEPT ![Subject] = "live", ![Head(incoming)] = "settled"]
          /\ reading' = [reading EXCEPT ![Subject] = "running", ![Head(incoming)] = Stopped(@)]
          /\ openStreams' = (openStreams \cup {Subject}) \ {Head(incoming)}
          /\ registered' = registered \ {Head(incoming)}
          /\ incoming' = Append(Tail(incoming), Subject)
          /\ UNCHANGED late
      BY <2>5, <1>9, <1>B, <2>2 DEF OnPeerStream
    <3>4. incoming' \in Seq(Streams) /\ Len(incoming') = Len(Tail(incoming)) + 1
      BY <3>2, <3>3, <2>1, AppendOn
    <3>5. Len(incoming') <= Backlog
      BY <3>2, <3>4, <2>2, <2>5, <1>B
    <3>6. stream' \in [Streams -> {"none", "live", "settled"}]
      BY <3>3, <1>T DEF TypeOK
    <3>7. reading' \in [Streams -> {"none", "running", "aborting", "ended"}]
      BY <3>3, <1>T DEF Shapes, Stopped
    <3>8. openStreams' \subseteq Streams /\ registered' \subseteq Streams \cup {"connection"}
      BY <3>3, <2>1, <1>T DEF TypeOK
    <3>9. QED
      BY <2>1, <3>3, <3>4, <3>5, <3>6, <3>7, <3>8, <1>9, <1>T DEF OnPeerStream, Shapes, TypeOK
  <2>6. QED
    BY <1>9, <2>3, <2>4, <2>5 DEF OnPeerStream
<1>10. CASE OnStreamEnd
  <2>1. bridge' \in Seq(Events) /\ FinishStreams({Subject})
    BY <1>10, <1>T, Taken DEF OnStreamEnd
  <2>2. /\ stream' \in [Streams -> {"none", "live", "settled"}]
        /\ reading' \in [Streams -> {"none", "running", "aborting", "ended"}]
        /\ openStreams' \subseteq openStreams
    BY <2>1, <1>T, Finishes
  <2>3. QED
    BY <2>1, <2>2, <1>10, <1>T DEF OnStreamEnd, Shapes, TypeOK
<1>11. CASE OnEnd
  <2>1. bridge' \in Seq(Events)
    BY <1>11, <1>T, Taken DEF OnEnd
  <2>2. CASE FinishConnection
    BY <2>1, <2>2, <1>11, <1>F DEF OnEnd
  <2>3. CASE UNCHANGED <<connection, stream, reading, openStreams, incoming, incomingOpen,
                         registered, quic, accepting>>
    BY <2>1, <2>3, <1>11, <1>T DEF OnEnd, Shapes, TypeOK
  <2>4. QED
    BY <2>2, <2>3, <1>11 DEF OnEnd
<1>12. CASE DialAnswers
  BY <1>12, <1>T, <1>P, EventsType DEF DialAnswers, Post, Shapes, TypeOK, jsVars
<1>13. ASSUME NEW s \in Streams, OpenAnswers(s) \/ Accepts(s) \/ ReadEnds(s)
       PROVE  Shapes'
  <2>1. bridge' \in Seq(Events)
    BY <1>13, <1>P, EventsType DEF OpenAnswers, Accepts, ReadEnds, Post
  <2>2. CASE OpenAnswers(s)
    BY <2>1, <2>2, <1>T DEF OpenAnswers, Shapes, TypeOK, jsVars
  <2>3. CASE Accepts(s)
    BY <2>1, <2>3, <1>T DEF Accepts, Shapes, TypeOK, jsVars
  <2>4. CASE ReadEnds(s)
    BY <2>1, <2>4, <1>T DEF ReadEnds, Shapes, TypeOK, jsVars
  <2>5. QED
    BY <1>13, <2>2, <2>3, <2>4
<1>14. CASE AcceptEnds
  BY <1>14, <1>T, <1>P, EventsType DEF AcceptEnds, Post, Shapes, TypeOK, jsVars
<1>15. CASE AbortsLand
  BY <1>15, <1>T DEF AbortsLand, Shapes, TypeOK, jsVars
<1>16. CASE EndpointCloses
  BY <1>16, <1>T, <1>P, EventsType DEF EndpointCloses, Post, Shapes, TypeOK
<1>17. CASE UNCHANGED vars
  BY <1>17, <1>T DEF vars, jsVars, nativeVars, Shapes, TypeOK
<1>18. QED
  BY <1>1, <1>2, <1>3, <1>4, <1>5, <1>6, <1>7, <1>8, <1>9, <1>10, <1>11, <1>12, <1>13,
     <1>14, <1>15, <1>16, <1>17
  DEF Next, Application, JsThread, Native, Answers
-------------------------------------------------------------------------------
(* The three ways an announced stream is received, in one: what is pushed    *)
(* out of a full queue is settled.                                           *)

Received(out) ==
  /\ \A s \in Streams : stream'[s] = IF s = out THEN "settled"
                                     ELSE IF s = Subject THEN "live" ELSE stream[s]
  /\ \A s \in Streams \ {out} : reading'[s] = IF s = Subject THEN "running" ELSE reading[s]
  /\ \A s \in Streams : s \in openStreams' <=> s # out /\ s \in openStreams \cup {Subject}
  /\ \A x : x \in registered' <=> x \in registered /\ (x = out => x = "connection")
  /\ \A s \in Streams \ {out} :
       s \in Range(incoming') \cup late' <=> s \in Range(incoming) \cup late \cup {Subject}
  /\ Range(incoming') \subseteq Range(incoming) \cup {Subject}

LEMMA PeerStream ==
  ASSUME Shapes, OnPeerStream
  PROVE  /\ Subject \in Streams /\ Head(bridge) = Event("stream", Subject)
         /\ \E out \in Range(incoming) \cup {"connection"} : Received(out)
<1>1. Subject \in Streams /\ Head(bridge) = Event("stream", Subject)
  BY StreamTask DEF OnPeerStream
<1>B. Backlog \in Nat /\ Backlog > 0 /\ "connection" \notin Streams
  BY BacklogAssumption, StreamsAssumption
<1>2. /\ incoming \in Seq(Streams) /\ Len(incoming) \in Nat /\ Range(incoming) \subseteq Streams
      /\ Subject # "connection"
  BY <1>1, <1>B, RangeOf, LenProperties DEF Shapes, TypeOK
<1>3. CASE ~incomingOpen
  <2>1. Adopt(Subject) /\ late' = late \cup {Subject} /\ UNCHANGED <<incoming, registered>>
    BY <1>3 DEF OnPeerStream
  <2>2. Received("connection")
    BY <1>1, <1>2, <2>1, <1>B DEF Adopt, Shapes, TypeOK, Received
  <2>3. QED
    BY <2>2, <1>1
<1>4. CASE incomingOpen /\ Len(incoming) < Backlog
  <2>1. Adopt(Subject) /\ incoming' = Append(incoming, Subject) /\ UNCHANGED <<late, registered>>
    BY <1>4, <1>B, <1>2 DEF OnPeerStream
  <2>2. Range(incoming') = Range(incoming) \cup {Subject}
    BY <2>1, <1>1, <1>2, AppendRange
  <2>3. Received("connection")
    BY <1>1, <1>2, <2>1, <2>2, <1>B DEF Adopt, Shapes, TypeOK, Received
  <2>4. QED
    BY <2>3, <1>1
<1>5. CASE incomingOpen /\ Len(incoming) = Backlog
  <2> DEFINE old == Head(incoming)
  <2>1. incoming # << >>
    BY <1>5, <1>B, EmptySeq
  <2>2. /\ stream' = [stream EXCEPT ![Subject] = "live", ![old] = "settled"]
        /\ reading' = [reading EXCEPT ![Subject] = "running", ![old] = Stopped(@)]
        /\ openStreams' = (openStreams \cup {Subject}) \ {old}
        /\ registered' = registered \ {old}
        /\ incoming' = Append(Tail(incoming), Subject)
        /\ UNCHANGED late
    BY <1>5, <1>B, <1>2 DEF OnPeerStream
  <2>3. old \in Streams /\ Tail(incoming) \in Seq(Streams)
    BY <2>1, <1>2, TailOn
  <2>4. Range(incoming) = Range(Tail(incoming)) \cup {old}
    BY <2>1, <1>2, TailRange
  <2>5. Range(incoming') = Range(Tail(incoming)) \cup {Subject}
    <3>1. \A q \in Seq(Streams) : Range(Append(q, Subject)) = Range(q) \cup {Subject}
      BY <1>1, AppendRange
    <3>2. QED
      BY <3>1, <2>2, <2>3
  <2> HIDE DEF old
  <2>6. old \in Range(incoming) \cup {"connection"}
    BY <2>4
  <2>7. \A s \in Streams : stream'[s] = IF s = old THEN "settled"
                                        ELSE IF s = Subject THEN "live" ELSE stream[s]
    BY <2>2, <2>3, <1>1 DEF Shapes, TypeOK
  <2>8. \A s \in Streams \ {old} : reading'[s] = IF s = Subject THEN "running" ELSE reading[s]
    BY <2>2, <2>3, <1>1 DEF Shapes
  <2>9. /\ \A s \in Streams : s \in openStreams' <=> s # old /\ s \in openStreams \cup {Subject}
        /\ \A x : x \in registered' <=> x \in registered /\ (x = old => x = "connection")
    BY <2>2, <2>3, <1>B
  <2>10. /\ \A s \in Streams \ {old} :
              s \in Range(incoming') \cup late' <=> s \in Range(incoming) \cup late \cup {Subject}
         /\ Range(incoming') \subseteq Range(incoming) \cup {Subject}
    BY <2>2, <2>4, <2>5
  <2>11. Received(old)
    BY <2>7, <2>8, <2>9, <2>10 DEF Received
  <2>12. QED
    BY <1>1, <2>6, <2>11
<1>6. QED
  BY <1>3, <1>4, <1>5 DEF OnPeerStream

LEMMA OwnerStep == IInv /\ [Next]_vars => OwnerInv'
<1> SUFFICES ASSUME IInv, [Next]_vars PROVE OwnerInv'
  OBVIOUS
<1>T. Shapes /\ TypeOK /\ OwnerInv
  BY DEF IInv, Shapes
<1>U. ASSUME UNCHANGED <<stream, openStreams, held, incoming, late>>
      PROVE  OwnerInv'
  BY <1>U, <1>T DEF OwnerInv
<1>1. CASE stream_connect \/ CloseEndpoint \/ OnConnected
  BY <1>1, <1>U DEF stream_connect, CloseEndpoint, OnConnected, jsVars
<1>2. CASE Take
  <2>1. Range(incoming) = Range(incoming') \cup {Head(incoming)}
    BY <1>2, <1>T, TailRange DEF Take, TypeOK
  <2>2. QED
    BY <2>1, <1>2, <1>T DEF Take, OwnerInv
<1>3. CASE LoopBreaks
  <2>1. FinishStreams(Range(incoming)) /\ UNCHANGED <<held, late>>
    BY <1>3 DEF LoopBreaks
  <2>2. QED
    BY <2>1, <1>T, Finishes DEF OwnerInv
<1>4. ASSUME NEW s \in Streams, stream_open_stream(s) \/ Answers(s) \/ Accepts(s) \/ ReadEnds(s)
      PROVE  OwnerInv'
  BY <1>4, <1>U
  DEF stream_open_stream, Answers, Opens, OpenFails, OpenAnswers, Accepts, ReadEnds, jsVars
<1>5. ASSUME NEW s \in Streams, CloseStream(s)
      PROVE  OwnerInv'
  <2>1. FinishStreams({s}) /\ UNCHANGED <<held, late, incoming>>
    BY <1>5 DEF CloseStream
  <2>2. QED
    BY <2>1, <1>T, Finishes DEF OwnerInv
<1>6. CASE FinishConnection
  BY <1>6, <1>T, FinishesAll DEF OwnerInv
<1>7. CASE OnOpened
  <2>1. Subject \in Streams
    BY <1>7, <1>T, StreamTask DEF OnOpened
  <2>2. QED
    BY <2>1, <1>7, <1>T DEF OnOpened, Adopt, OwnerInv, TypeOK
<1>8. CASE OnPeerStream
  <2>1. held' = held
    BY <1>8 DEF OnPeerStream
  <2>2. QED
    BY <2>1, <1>8, <1>T, PeerStream DEF OwnerInv, Received
<1>9. CASE OnStreamEnd
  <2>1. FinishStreams({Subject}) /\ UNCHANGED <<held, late, incoming>>
    BY <1>9 DEF OnStreamEnd
  <2>2. QED
    BY <2>1, <1>T, Finishes DEF OwnerInv
<1>10. CASE OnEnd \/ CloseConnection
  <2>1. CASE FinishConnection
    BY <2>1, <1>6
  <2>2. CASE ~FinishConnection
    BY <2>2, <1>10, <1>U DEF OnEnd, CloseConnection
  <2>3. QED
    BY <2>1, <2>2
<1>11. CASE DialConnects \/ DialFails \/ DialAnswers \/ AcceptEnds \/ AbortsLand
            \/ ConnectionGoes \/ EndpointCloses
  BY <1>11, <1>U
  DEF DialConnects, DialFails, DialAnswers, AcceptEnds, AbortsLand, ConnectionGoes,
      EndpointCloses, jsVars
<1>12. CASE UNCHANGED vars
  BY <1>12, <1>U DEF vars, jsVars
<1>13. QED
  BY <1>1, <1>2, <1>3, <1>4, <1>5, <1>7, <1>8, <1>9, <1>10, <1>11, <1>12
  DEF Next, Application, JsThread, Native

LEMMA ReadStep == IInv /\ [Next]_vars => ReadInv'
<1> SUFFICES ASSUME IInv, [Next]_vars PROVE ReadInv'
  OBVIOUS
<1>T. Shapes /\ TypeOK /\ OwnerInv /\ ReadInv
  BY DEF IInv, Shapes
<1>U. ASSUME UNCHANGED <<stream, reading, bridge>>
      PROVE  ReadInv'
  BY <1>U, <1>T DEF ReadInv
<1>P. ASSUME NEW e \in Events, Post(e), UNCHANGED stream,
             \A s \in Streams : reading'[s] = reading[s] \/ e = Event("streamEnd", s)
      PROVE  ReadInv'
  <2>1. \A f : On(bridge', f) <=> On(bridge, f) \/ f = e
    BY <1>P, <1>T, AppendOn DEF Post, Shapes
  <2>2. QED
    BY <2>1, <1>P, <1>T DEF ReadInv
<1>K. ASSUME NEW type, TakeTask(type), type # "streamEnd",
             \A s \in Streams : stream'[s] = "live" =>
               reading'[s] = "running" \/ (stream[s] = "live" /\ reading'[s] = reading[s])
      PROVE  ReadInv'
  <2>1. /\ Head(bridge) \in Events /\ Head(bridge).type = type
        /\ \A f : On(bridge, f) <=> On(bridge', f) \/ f = Head(bridge)
    BY <1>K, <1>T, Taken
  <2>2. \A s : Head(bridge) # Event("streamEnd", s)
    BY <2>1, <1>K, EventFields
  <2>3. QED
    BY <2>1, <2>2, <1>K, <1>T DEF ReadInv
<1>F. ASSUME NEW set, FinishStreams(set), UNCHANGED bridge
      PROVE  ReadInv'
  <2>1. \A s \in Streams : stream'[s] = "live" => stream[s] = "live" /\ reading'[s] = reading[s]
    BY <1>F, <1>T, Finishes
  <2>2. QED
    BY <2>1, <1>F, <1>T DEF ReadInv
<1>1. CASE stream_connect \/ CloseEndpoint \/ Take
  BY <1>1, <1>U DEF stream_connect, CloseEndpoint, Take, jsVars, nativeVars
<1>2. CASE LoopBreaks
  BY <1>2, <1>F DEF LoopBreaks
<1>3. ASSUME NEW s \in Streams, stream_open_stream(s) \/ Opens(s) \/ OpenFails(s)
      PROVE  ReadInv'
  BY <1>3, <1>U DEF stream_open_stream, Opens, OpenFails, jsVars
<1>4. ASSUME NEW s \in Streams, CloseStream(s)
      PROVE  ReadInv'
  BY <1>4, <1>F DEF CloseStream
<1>5. CASE FinishConnection
  <2>1. \A s \in Streams : stream'[s] # "live"
    BY <1>5, <1>T, FinishesAll
  <2>2. QED
    BY <2>1 DEF ReadInv
<1>6. CASE OnConnected
  BY <1>6, <1>K DEF OnConnected
<1>7. CASE OnOpened
  <2>1. Subject \in Streams /\ TakeTask("opened")
    BY <1>7, <1>T, StreamTask DEF OnOpened
  <2>2. \A s \in Streams : stream'[s] = "live" =>
          reading'[s] = "running" \/ (stream[s] = "live" /\ reading'[s] = reading[s])
    BY <2>1, <1>7, <1>T DEF OnOpened, Adopt, TypeOK, Shapes
  <2>3. QED
    BY <2>1, <2>2, <1>K
<1>8. CASE OnPeerStream
  <2>1. TakeTask("stream")
    BY <1>8 DEF OnPeerStream
  <2>2. \A s \in Streams : stream'[s] = "live" =>
          reading'[s] = "running" \/ (stream[s] = "live" /\ reading'[s] = reading[s])
    BY <1>8, <1>T, PeerStream DEF Received
  <2>3. QED
    BY <2>1, <2>2, <1>K
<1>9. CASE OnStreamEnd
  <2>1. /\ Subject \in Streams /\ Head(bridge) = Event("streamEnd", Subject)
        /\ FinishStreams({Subject})
    BY <1>9, <1>T, StreamTask DEF OnStreamEnd
  <2>2. \A f : On(bridge, f) <=> On(bridge', f) \/ f = Head(bridge)
    BY <1>9, <1>T, Taken DEF OnStreamEnd
  <2>3. \A s \in Streams : stream'[s] = "live" =>
          s # Subject /\ stream[s] = "live" /\ reading'[s] = reading[s]
    BY <2>1, <1>T, Finishes
  <2>4. \A s \in Streams : Event("streamEnd", s) = Event("streamEnd", Subject) => s = Subject
    BY DEF Event
  <2>5. QED
    BY <2>1, <2>2, <2>3, <2>4, <1>T DEF ReadInv
<1>10. CASE OnEnd \/ CloseConnection
  <2>1. CASE FinishConnection
    BY <2>1, <1>5
  <2>2. CASE ~FinishConnection
    BY <2>2, <1>10, <1>K DEF OnEnd, CloseConnection
  <2>3. QED
    BY <2>1, <2>2
<1>11. CASE DialConnects \/ DialFails \/ ConnectionGoes
  BY <1>11, <1>U DEF DialConnects, DialFails, ConnectionGoes, jsVars
<1>12. CASE DialAnswers \/ AcceptEnds \/ EndpointCloses
  BY <1>12, <1>P, EventsType DEF DialAnswers, AcceptEnds, EndpointCloses, jsVars
<1>13. ASSUME NEW s \in Streams, OpenAnswers(s) \/ Accepts(s)
       PROVE  ReadInv'
  BY <1>13, <1>P, EventsType DEF OpenAnswers, Accepts, jsVars
<1>14. ASSUME NEW s \in Streams, ReadEnds(s)
       PROVE  ReadInv'
  <2>1. /\ Post(Event("streamEnd", s)) /\ Event("streamEnd", s) \in Events /\ UNCHANGED stream
        /\ reading' = [reading EXCEPT ![s] = "ended"]
    BY <1>14, EventsType DEF ReadEnds, jsVars
  <2>2. \A u \in Streams : reading'[u] = reading[u] \/ Event("streamEnd", s) = Event("streamEnd", u)
    BY <2>1, <1>T DEF Shapes
  <2>3. QED
    BY <2>1, <2>2, <1>P
<1>15. CASE AbortsLand
  BY <1>15, <1>T DEF AbortsLand, ReadInv, jsVars
<1>16. CASE UNCHANGED vars
  BY <1>16, <1>U DEF vars, jsVars, nativeVars
<1>17. QED
  BY <1>1, <1>2, <1>3, <1>4, <1>6, <1>7, <1>8, <1>9, <1>10, <1>11, <1>12, <1>13, <1>14,
     <1>15, <1>16
  DEF Next, Application, JsThread, Native, Answers

LEMMA DialStep == IInv /\ [Next]_vars => DialInv'
<1> SUFFICES ASSUME IInv, [Next]_vars PROVE DialInv'
  OBVIOUS
<1>T. Shapes /\ TypeOK /\ OwnerInv /\ DialInv
  BY DEF IInv, Shapes
<1>U. ASSUME UNCHANGED <<connection, dial>>, quic' = quic \/ quic' = "down",
             Announced(bridge', "connection") => Announced(bridge, "connection")
      PROVE  DialInv'
  BY <1>U, <1>T DEF DialInv
<1>K. ASSUME NEW type, TakeTask(type)
      PROVE  Announced(bridge', "connection") => Announced(bridge, "connection")
  BY <1>K, <1>T, TailAnnounced DEF TakeTask, Shapes
<1>P. ASSUME NEW e \in Events, Post(e), ~Announces(e, "connection")
      PROVE  Announced(bridge', "connection") => Announced(bridge, "connection")
  BY <1>P, <1>T, AppendAnnounced DEF Post, Shapes
<1>1. CASE CloseEndpoint \/ Take \/ LoopBreaks \/ ConnectionGoes \/ AbortsLand
  BY <1>1, <1>U DEF CloseEndpoint, Take, LoopBreaks, ConnectionGoes, AbortsLand, jsVars, nativeVars
<1>2. CASE stream_connect \/ DialConnects \/ DialFails
  BY <1>2, <1>T DEF stream_connect, DialConnects, DialFails, DialInv, jsVars
<1>3. ASSUME NEW s \in Streams,
             stream_open_stream(s) \/ Opens(s) \/ OpenFails(s) \/ CloseStream(s)
      PROVE  DialInv'
  BY <1>3, <1>U DEF stream_open_stream, Opens, OpenFails, CloseStream, jsVars
<1>4. CASE OnConnected
  <2>1. Announced(bridge, "connection")
    BY <1>4, <1>T, ConnectedTask DEF OnConnected
  <2>2. QED
    BY <2>1, <1>4, <1>T DEF OnConnected, DialInv
<1>5. CASE OnOpened
  BY <1>5, <1>U, <1>K DEF OnOpened
<1>6. CASE OnPeerStream
  BY <1>6, <1>U, <1>K DEF OnPeerStream
<1>7. CASE OnStreamEnd
  BY <1>7, <1>U, <1>K DEF OnStreamEnd
<1>F. ASSUME FinishConnection, UNCHANGED dial
      PROVE  DialInv'
  BY <1>F, <1>T, FinishesAll DEF DialInv
<1>8. CASE OnEnd \/ CloseConnection
  <2>1. CASE FinishConnection
    BY <2>1, <1>F, <1>8 DEF OnEnd, CloseConnection
  <2>2. CASE ~FinishConnection
    BY <2>2, <1>8, <1>U, <1>K DEF OnEnd, CloseConnection
  <2>3. QED
    BY <2>1, <2>2
<1>9. CASE DialAnswers
  BY <1>9, <1>T DEF DialAnswers, DialInv, jsVars
<1>10. ASSUME NEW s \in Streams, OpenAnswers(s) \/ Accepts(s) \/ ReadEnds(s)
       PROVE  DialInv'
  <2>1. PICK type \in {"opened", "stream", "streamEnd"} : Post(Event(type, s))
    BY <1>10 DEF OpenAnswers, Accepts, ReadEnds
  <2>2. Event(type, s) \in Events /\ ~Announces(Event(type, s), "connection")
    BY EventsType, StreamsAssumption DEF Event, Announces
  <2>3. Announced(bridge', "connection") => Announced(bridge, "connection")
    BY <2>1, <2>2, <1>P
  <2>4. QED
    BY <2>3, <1>10, <1>U DEF OpenAnswers, Accepts, ReadEnds, jsVars
<1>11. CASE AcceptEnds \/ EndpointCloses
  <2>1. PICK type \in {"end", "closed"} : Post(ConnEvent(type))
    BY <1>11 DEF AcceptEnds, EndpointCloses
  <2>2. ConnEvent(type) \in Events /\ ~Announces(ConnEvent(type), "connection")
    BY EventsType DEF Event, ConnEvent, Announces
  <2>3. Announced(bridge', "connection") => Announced(bridge, "connection")
    BY <2>1, <2>2, <1>P
  <2>4. QED
    BY <2>3, <1>11, <1>U DEF AcceptEnds, EndpointCloses, jsVars
<1>12. CASE UNCHANGED vars
  BY <1>12, <1>U DEF vars, jsVars, nativeVars
<1>13. QED
  BY <1>1, <1>2, <1>3, <1>4, <1>5, <1>6, <1>7, <1>8, <1>9, <1>10, <1>11, <1>12
  DEF Next, Application, JsThread, Native, Answers

LEMMA HandleStep == IInv /\ [Next]_vars => HandleInv'
<1> SUFFICES ASSUME IInv, [Next]_vars PROVE HandleInv'
  OBVIOUS
<1>T. Shapes /\ TypeOK /\ OwnerInv /\ DialInv /\ HandleInv
  BY DEF IInv, Shapes
<1>C. "connection" \notin Streams /\ Streams \subseteq Handles /\ "connection" \in Handles
  BY StreamsAssumption DEF Handles
<1>R. Range(incoming) \subseteq Streams
  BY <1>T, RangeOf DEF TypeOK
\* Steps that announce and adopt nothing: some handles may be given up.
<1>U. ASSUME NEW gone,
             \A x \in Handles : Live(connection', stream', x)
                                  <=> Live(connection, stream, x) /\ x \notin gone,
             \A x \in Handles : Fresh(connection', stream', x) <=> Fresh(connection, stream, x),
             \A x \in Handles : x \in registered' <=> x \in registered /\ x \notin gone,
             \A x \in gone : Live(connection, stream, x),
             \A x \in Handles : Announced(bridge', x) <=> Announced(bridge, x),
             OnceAnnounced(bridge'),
             \A s \in Streams : opening'[s] \in {"asked", "opened"} =>
               opening[s] \in {"asked", "opened"} \/ (stream[s] = "none" /\ s \notin registered),
             Range(incoming') \subseteq Range(incoming)
      PROVE  HandleInv'
  <2>1. \A s \in Streams : Fresh(connection, stream, s) <=> stream[s] = "none"
    BY <1>C DEF Fresh
  <2>2. \A s \in Streams : Fresh(connection', stream', s) <=> stream'[s] = "none"
    BY <1>C DEF Fresh
  <2>3. \A x \in gone : ~Fresh(connection, stream, x)
    BY <1>U DEF Live, Fresh
  <2>4. \A x \in Handles : x \in registered' <=>
          Live(connection', stream', x) \/ Announced(bridge', x)
    BY <2>3, <1>U, <1>T DEF HandleInv
  <2>5. \A x \in Handles : Announced(bridge', x) => Fresh(connection', stream', x)
    BY <1>U, <1>T DEF HandleInv
  <2>6. \A s \in Streams : opening'[s] \in {"asked", "opened"} =>
          stream'[s] = "none" /\ s \notin registered'
    BY <2>1, <2>2, <1>U, <1>T, <1>C DEF HandleInv
  <2>7. \A s \in Range(incoming') : stream'[s] # "none"
    BY <2>1, <2>2, <1>U, <1>T, <1>C, <1>R DEF HandleInv
  <2>8. QED
    BY <2>4, <2>5, <2>6, <2>7, <1>U DEF HandleInv
\* A new handle is announced.
<1>A. ASSUME NEW x \in Handles, NEW e \in Events, Post(e),
             \A y : Announces(e, y) <=> y = x,
             Fresh(connection, stream, x), ~Announced(bridge, x),
             UNCHANGED <<connection, stream, incoming>>,
             registered' = registered \cup {x},
             \A s \in Streams : opening'[s] \in {"asked", "opened"} =>
               s # x /\ opening[s] \in {"asked", "opened"}
      PROVE  HandleInv'
  <2>1. \A y : Announced(bridge', y) <=> Announced(bridge, y) \/ y = x
    BY <1>A, <1>T, AppendAnnounced DEF Post, Shapes
  <2>2. OnceAnnounced(bridge')
    BY <1>A, <1>T, AppendAnnounced DEF Post, Shapes, HandleInv
  <2>3. QED
    BY <2>1, <2>2, <1>A, <1>T DEF HandleInv
\* A handle is adopted, and may push another out.
<1>J. ASSUME NEW x \in Handles, NEW out \in SUBSET Range(incoming),
             bridge # << >>, bridge' = Tail(bridge), Announces(Head(bridge), x),
             \A y \in Handles : Live(connection', stream', y)
                                  <=> (Live(connection, stream, y) \/ y = x) /\ y \notin out,
             \A y \in Handles : Fresh(connection', stream', y)
                                  <=> Fresh(connection, stream, y) /\ y # x /\ y \notin out,
             \A y \in Handles : y \in registered' <=> y \in registered /\ y \notin out,
             opening' = opening,
             Range(incoming') \subseteq Range(incoming) \cup {x}
      PROVE  HandleInv'
  <2>1. \A y : Announces(Head(bridge), y) <=> y = x
    BY <1>J DEF Announces
  <2>2. /\ \A y : Announced(bridge, y) <=> Announced(bridge', y) \/ y = x
        /\ OnceAnnounced(bridge') /\ ~Announced(bridge', x)
    BY <2>1, <1>J, <1>T, TailAnnounced DEF Shapes, HandleInv
  <2>3. \A s \in Streams : Fresh(connection, stream, s) <=> stream[s] = "none"
    BY <1>C DEF Fresh
  <2>4. \A s \in Streams : Fresh(connection', stream', s) <=> stream'[s] = "none"
    BY <1>C DEF Fresh
  <2>5. \A y \in out : y \in Streams /\ ~Fresh(connection, stream, y) /\ ~Announced(bridge, y)
    BY <2>3, <1>R, <1>T, <1>C DEF HandleInv
  <2>6. \A y \in Handles : y \in registered' <=>
          Live(connection', stream', y) \/ Announced(bridge', y)
    BY <2>2, <2>5, <1>J, <1>T DEF HandleInv
  <2>7. \A y \in Handles : Announced(bridge', y) => Fresh(connection', stream', y)
    BY <2>2, <2>5, <1>J, <1>T DEF HandleInv
  <2>8. \A s \in Streams : opening'[s] \in {"asked", "opened"} =>
          stream'[s] = "none" /\ s \notin registered'
    <3>1. x \in registered
      BY <2>2, <1>T DEF HandleInv
    <3>2. QED
      BY <3>1, <2>3, <2>4, <2>5, <1>J, <1>T, <1>C DEF HandleInv
  <2>9. \A s \in Range(incoming') : s \in Streams => stream'[s] # "none"
    BY <2>3, <2>4, <1>J, <1>T, <1>C, <1>R DEF HandleInv
  <2>10. Range(incoming') \subseteq Streams
    <3>1. Shapes'
      BY ShapesStep
    <3>2. QED
      BY <3>1, RangeOf DEF Shapes, TypeOK
  <2>11. QED
    BY <2>2, <2>6, <2>7, <2>8, <2>9, <2>10 DEF HandleInv
\* The same, in the terms of the actions.
<1>S. ASSUME UNCHANGED <<connection, stream, registered, bridge>>,
             \A s \in Streams : opening'[s] \in {"asked", "opened"} =>
               opening[s] \in {"asked", "opened"} \/ (stream[s] = "none" /\ s \notin registered),
             Range(incoming') \subseteq Range(incoming)
      PROVE  HandleInv'
  <2>1. OnceAnnounced(bridge)
    BY <1>T DEF HandleInv
  <2> DEFINE gone == {}
  <2>2. \A x \in gone : FALSE
    OBVIOUS
  <2> HIDE DEF gone
  <2>3. QED
    BY <2>1, <2>2, <1>S, <1>U
<1>F. ASSUME NEW set \in SUBSET Streams, FinishStreams(set),
             registered' = registered \ {s \in set : stream[s] = "live"},
             UNCHANGED <<connection, opening>>, Range(incoming') \subseteq Range(incoming),
             \A x \in Handles : Announced(bridge', x) <=> Announced(bridge, x),
             OnceAnnounced(bridge')
      PROVE  HandleInv'
  <2> DEFINE gone == {s \in set : stream[s] = "live"}
  <2>1. \A s \in Streams : stream'[s] = IF s \in gone THEN "settled" ELSE stream[s]
    BY <1>F, <1>T, Finishes
  <2>2. \A x \in gone : x \in Streams /\ stream[x] = "live"
    OBVIOUS
  <2>3. registered' = registered \ gone
    BY <1>F
  <2> HIDE DEF gone
  <2>4. \A x \in Handles : Live(connection', stream', x)
                             <=> Live(connection, stream, x) /\ x \notin gone
    BY <2>1, <2>2, <1>F, <1>C DEF Live, Handles
  <2>5. \A x \in Handles : Fresh(connection', stream', x) <=> Fresh(connection, stream, x)
    BY <2>1, <2>2, <1>F, <1>C DEF Fresh, Handles
  <2>6. \A x \in gone : Live(connection, stream, x)
    BY <2>2, <1>C DEF Live
  <2>7. QED
    BY <2>3, <2>4, <2>5, <2>6, <1>F, <1>U
<1>E. ASSUME FinishConnection, opening' = opening,
             \A x \in Handles : Announced(bridge', x) <=> Announced(bridge, x),
             OnceAnnounced(bridge')
      PROVE  HandleInv'
  <2> DEFINE gone == {"connection"} \cup {s \in Streams : stream[s] = "live"}
  <2>1. /\ connection = "open" /\ connection' = "settled" /\ incoming' = << >>
        /\ \A s \in Streams : stream'[s] = IF s \in gone THEN "settled" ELSE stream[s]
        /\ registered' = registered \ gone
    BY <1>E, <1>T, <1>C, FinishesAll
  <2>2. \A x : x \in gone <=> x = "connection" \/ (x \in Streams /\ stream[x] = "live")
    OBVIOUS
  <2> HIDE DEF gone
  <2>3. \A x \in Handles : Live(connection', stream', x)
                             <=> Live(connection, stream, x) /\ x \notin gone
    BY <2>1, <2>2, <1>C DEF Live, Handles
  <2>4. \A x \in Handles : Fresh(connection', stream', x) <=> Fresh(connection, stream, x)
    BY <2>1, <2>2, <1>C DEF Fresh, Handles
  <2>5. \A x \in gone : Live(connection, stream, x)
    BY <2>1, <2>2, <1>C DEF Live
  <2>6. Range(incoming') \subseteq Range(incoming)
    BY <2>1, EmptyRange
  <2>7. QED
    BY <2>1, <2>3, <2>4, <2>5, <2>6, <1>E, <1>U
\* A task that announces nothing is taken or posted.
<1>K. ASSUME NEW type \in {"streamEnd", "end", "closed"}, TakeTask(type)
      PROVE  /\ \A x \in Handles : Announced(bridge', x) <=> Announced(bridge, x)
             /\ OnceAnnounced(bridge')
  <2>1. bridge # << >> /\ Head(bridge).type = type /\ bridge' = Tail(bridge)
    BY <1>K DEF TakeTask
  <2>2. \A x : ~Announces(Head(bridge), x)
    BY <2>1 DEF Announces
  <2>3. QED
    BY <2>1, <2>2, <1>T, TailAnnounced DEF Shapes, HandleInv
<1>P. ASSUME NEW e \in Events, Post(e), \A x : ~Announces(e, x),
             UNCHANGED <<connection, stream, registered, incoming, opening>>
      PROVE  HandleInv'
  <2>1. \A x : Announced(bridge', x) <=> Announced(bridge, x)
    BY <1>P, <1>T, AppendAnnounced DEF Post, Shapes
  <2>2. OnceAnnounced(bridge')
    BY <1>P, <1>T, AppendAnnounced DEF Post, Shapes, HandleInv
  <2> DEFINE gone == {}
  <2>3. \A x \in gone : FALSE
    OBVIOUS
  <2> HIDE DEF gone
  <2>4. QED
    BY <2>1, <2>2, <2>3, <1>P, <1>U
<1>1. CASE stream_connect \/ CloseEndpoint \/ DialConnects \/ DialFails \/ ConnectionGoes
           \/ AbortsLand
  BY <1>1, <1>S
  DEF stream_connect, CloseEndpoint, DialConnects, DialFails, ConnectionGoes, AbortsLand,
      jsVars, nativeVars
<1>2. CASE Take
  <2>1. Range(incoming') \subseteq Range(incoming)
    BY <1>2, <1>T, TailRange DEF Take, TypeOK
  <2>2. QED
    BY <2>1, <1>2, <1>S DEF Take, nativeVars
<1>3. CASE LoopBreaks
  <2>1. /\ FinishStreams(Range(incoming)) /\ UNCHANGED <<connection, opening, bridge>>
        /\ registered' = registered \ {s \in Range(incoming) : stream[s] = "live"}
        /\ incoming' = << >>
    BY <1>3 DEF LoopBreaks
  <2>2. Range(incoming') \subseteq Range(incoming) /\ OnceAnnounced(bridge')
    BY <2>1, <1>T, EmptyRange DEF HandleInv
  <2>3. QED
    BY <2>1, <2>2, <1>R, <1>F
<1>4. ASSUME NEW s \in Streams, stream_open_stream(s) \/ Opens(s) \/ OpenFails(s)
      PROVE  HandleInv'
  <2>1. /\ UNCHANGED <<connection, stream, registered, bridge, incoming>>
        /\ \A u \in Streams : opening'[u] \in {"asked", "opened"} =>
             opening[u] \in {"asked", "opened"} \/ (stream[u] = "none" /\ u \notin registered)
    BY <1>4, <1>T DEF stream_open_stream, Opens, OpenFails, jsVars, Shapes
  <2>2. QED
    BY <2>1, <1>S
<1>5. ASSUME NEW s \in Streams, CloseStream(s)
      PROVE  HandleInv'
  <2>1. /\ FinishStreams({s}) /\ UNCHANGED <<connection, opening, bridge, incoming>>
        /\ registered' = registered \ {u \in {s} : stream[u] = "live"}
    BY <1>5 DEF CloseStream
  <2>2. OnceAnnounced(bridge') /\ {s} \in SUBSET Streams
    BY <2>1, <1>T DEF HandleInv
  <2>3. QED
    BY <2>1, <2>2, <1>F
<1>6. CASE CloseConnection
  <2>1. OnceAnnounced(bridge')
    BY <1>6, <1>T DEF CloseConnection, HandleInv
  <2>2. QED
    BY <2>1, <1>6, <1>E DEF CloseConnection
<1>7. CASE OnConnected
  <2>1. Announces(Head(bridge), "connection") /\ bridge # << >> /\ bridge' = Tail(bridge)
    BY <1>7, <1>T, ConnectedTask, Taken DEF OnConnected
  <2>2. /\ connection' = "open" /\ UNCHANGED <<stream, registered, incoming, opening>>
    BY <1>7 DEF OnConnected
  <2> DEFINE out == {}
             x == "connection"
  <2>3. out \in SUBSET Range(incoming) /\ \A y : y \notin out
    OBVIOUS
  <2>4. \A y \in Handles : Live(connection', stream', y)
                             <=> (Live(connection, stream, y) \/ y = x) /\ y \notin out
    BY <2>2, <1>C DEF Live, Handles
  <2>5. \A y \in Handles : Fresh(connection', stream', y)
                             <=> Fresh(connection, stream, y) /\ y # x /\ y \notin out
    BY <2>2, <1>C DEF Fresh, Handles
  <2>6. x \in Handles /\ Announces(Head(bridge), x)
    BY <2>1, <1>C
  <2> HIDE DEF out, x
  <2>7. QED
    BY <2>1, <2>2, <2>3, <2>4, <2>5, <2>6, <1>J
<1>8. CASE OnOpened
  <2>1. /\ Subject \in Streams /\ Head(bridge) = Event("opened", Subject)
        /\ bridge # << >> /\ bridge' = Tail(bridge)
    BY <1>8, <1>T, StreamTask, Taken DEF OnOpened
  <2>2. /\ stream' = [stream EXCEPT ![Subject] = "live"]
        /\ UNCHANGED <<connection, registered, incoming, opening>>
    BY <1>8 DEF OnOpened, Adopt
  <2>3. Announces(Head(bridge), Subject)
    BY <2>1 DEF Announces, Event
  <2> DEFINE out == {}
  <2>4. out \in SUBSET Range(incoming) /\ \A y : y \notin out
    OBVIOUS
  <2>5. \A y \in Handles : Live(connection', stream', y)
                             <=> (Live(connection, stream, y) \/ y = Subject) /\ y \notin out
    BY <2>1, <2>2, <1>C, <1>T DEF Live, Handles, TypeOK
  <2>6. \A y \in Handles : Fresh(connection', stream', y)
                             <=> Fresh(connection, stream, y) /\ y # Subject /\ y \notin out
    BY <2>1, <2>2, <1>C, <1>T DEF Fresh, Handles, TypeOK
  <2> HIDE DEF out
  <2>7. QED
    BY <2>1, <2>2, <2>3, <2>4, <2>5, <2>6, <1>C, <1>J
<1>9. CASE OnPeerStream
  <2>1. /\ Subject \in Streams /\ Head(bridge) = Event("stream", Subject)
        /\ bridge # << >> /\ bridge' = Tail(bridge)
    BY <1>9, <1>T, PeerStream, Taken DEF OnPeerStream
  <2>2. PICK old \in Range(incoming) \cup {"connection"} : Received(old)
    BY <1>9, <1>T, PeerStream
  <2>3. UNCHANGED <<connection, opening>>
    BY <1>9 DEF OnPeerStream
  <2>4. Announces(Head(bridge), Subject)
    BY <2>1 DEF Announces, Event
  <2> DEFINE out == {old} \ {"connection"}
  <2>5. out \in SUBSET Range(incoming) /\ \A y : y \in out <=> y = old /\ y # "connection"
    OBVIOUS
  <2> HIDE DEF out
  <2>6. \A y \in Handles : Live(connection', stream', y)
                             <=> (Live(connection, stream, y) \/ y = Subject) /\ y \notin out
    BY <2>1, <2>2, <2>3, <2>5, <1>C DEF Live, Handles, Received
  <2>7. \A y \in Handles : Fresh(connection', stream', y)
                             <=> Fresh(connection, stream, y) /\ y # Subject /\ y \notin out
    BY <2>1, <2>2, <2>3, <2>5, <1>C DEF Fresh, Handles, Received
  <2>8. \A y \in Handles : y \in registered' <=> y \in registered /\ y \notin out
    BY <2>2, <2>5 DEF Received
  <2>9. Range(incoming') \subseteq Range(incoming) \cup {Subject}
    BY <2>2 DEF Received
  <2>10. QED
    BY <2>1, <2>3, <2>4, <2>5, <2>6, <2>7, <2>8, <2>9, <1>C, <1>J
<1>10. CASE OnStreamEnd
  <2>1. /\ FinishStreams({Subject}) /\ UNCHANGED <<connection, opening, incoming>>
        /\ registered' = registered \ {u \in {Subject} : stream[u] = "live"}
        /\ TakeTask("streamEnd")
    BY <1>10 DEF OnStreamEnd
  <2>2. {Subject} \in SUBSET Streams
    BY <2>1, <1>T, StreamTask
  <2>3. /\ \A x \in Handles : Announced(bridge', x) <=> Announced(bridge, x)
        /\ OnceAnnounced(bridge')
    BY <2>1, <1>K
  <2>4. QED
    BY <2>1, <2>2, <2>3, <1>F
<1>11. CASE OnEnd
  <2>1. /\ \A x \in Handles : Announced(bridge', x) <=> Announced(bridge, x)
        /\ OnceAnnounced(bridge')
    BY <1>11, <1>K DEF OnEnd
  <2>2. CASE FinishConnection
    BY <2>1, <2>2, <1>11, <1>E DEF OnEnd
  <2>3. CASE ~FinishConnection
    <3>1. UNCHANGED <<connection, stream, registered, incoming, opening>>
      BY <2>3, <1>11 DEF OnEnd
    <3> DEFINE gone == {}
    <3>2. \A x \in gone : FALSE
      OBVIOUS
    <3> HIDE DEF gone
    <3>3. QED
      BY <2>1, <3>1, <3>2, <1>U
  <2>4. QED
    BY <2>2, <2>3
<1>12. CASE DialAnswers
  <2>1. /\ Post(ConnEvent("connected")) /\ dial = "connected"
        /\ UNCHANGED <<connection, stream, incoming, opening>>
        /\ registered' = registered \cup {"connection"}
    BY <1>12 DEF DialAnswers, jsVars
  <2>2. connection = "none" /\ ~Announced(bridge, "connection")
    BY <2>1, <1>T DEF DialInv
  <2>3. \A y : Announces(ConnEvent("connected"), y) <=> y = "connection"
    BY DEF Announces, ConnEvent, Event
  <2>4. Fresh(connection, stream, "connection")
    BY <2>2 DEF Fresh
  <2>5. ConnEvent("connected") \in Events
    BY EventsType
  <2>6. \A s \in Streams : opening'[s] \in {"asked", "opened"} =>
               s # "connection" /\ opening[s] \in {"asked", "opened"}
    BY <2>1, <1>C
  <2> DEFINE x == "connection"
  <2>7. /\ x \in Handles /\ Fresh(connection, stream, x) /\ ~Announced(bridge, x)
        /\ registered' = registered \cup {x}
        /\ \A y : Announces(ConnEvent("connected"), y) <=> y = x
        /\ \A s \in Streams : opening'[s] \in {"asked", "opened"} =>
             s # x /\ opening[s] \in {"asked", "opened"}
    BY <2>1, <2>2, <2>3, <2>4, <2>6, <1>C
  <2> HIDE DEF x
  <2>8. QED
    BY <2>1, <2>5, <2>7, <1>A
<1>13. ASSUME NEW s \in Streams, OpenAnswers(s) \/ Accepts(s)
       PROVE  HandleInv'
  <2>1. PICK type \in {"opened", "stream"} : Post(Event(type, s))
    BY <1>13 DEF OpenAnswers, Accepts
  <2>2. /\ UNCHANGED <<connection, stream, incoming>> /\ registered' = registered \cup {s}
        /\ \A u \in Streams : opening'[u] \in {"asked", "opened"} =>
             u # s /\ opening[u] \in {"asked", "opened"}
    BY <1>13, <1>T DEF OpenAnswers, Accepts, Shapes, jsVars
  <2>3. stream[s] = "none" /\ s \notin registered
    BY <1>13, <1>T DEF OpenAnswers, Accepts, HandleInv
  <2>4. Fresh(connection, stream, s) /\ ~Announced(bridge, s)
    BY <2>3, <1>C, <1>T DEF Fresh, HandleInv
  <2>5. Event(type, s) \in Events /\ \A y : Announces(Event(type, s), y) <=> y = s
    BY EventsType DEF Announces, Event
  <2>6. QED
    BY <2>1, <2>2, <2>4, <2>5, <1>C, <1>A
<1>14. ASSUME NEW s \in Streams, ReadEnds(s)
       PROVE  HandleInv'
  <2>1. Event("streamEnd", s) \in Events /\ \A x : ~Announces(Event("streamEnd", s), x)
    BY EventsType DEF Announces, Event
  <2>2. QED
    BY <2>1, <1>14, <1>P DEF ReadEnds, jsVars
<1>15. CASE AcceptEnds \/ EndpointCloses
  <2>1. PICK type \in {"end", "closed"} : Post(ConnEvent(type))
    BY <1>15 DEF AcceptEnds, EndpointCloses
  <2>2. ConnEvent(type) \in Events /\ \A x : ~Announces(ConnEvent(type), x)
    BY EventsType DEF Event, ConnEvent, Announces
  <2>3. QED
    BY <2>1, <2>2, <1>15, <1>P DEF AcceptEnds, EndpointCloses, jsVars
<1>16. CASE UNCHANGED vars
  BY <1>16, <1>S DEF vars, jsVars, nativeVars
<1>17. QED
  BY <1>1, <1>2, <1>3, <1>4, <1>5, <1>6, <1>7, <1>8, <1>9, <1>10, <1>11, <1>12, <1>13,
     <1>14, <1>15, <1>16
  DEF Next, Application, JsThread, Native, Answers
-------------------------------------------------------------------------------
LEMMA InitIInv == Init => IInv
<1> SUFFICES ASSUME Init PROVE IInv
  OBVIOUS
<1>1. Shapes
  <2>1. incoming \in Seq(Streams) /\ Len(incoming) <= Backlog /\ bridge \in Seq(Events)
    BY BacklogAssumption, EmptySeq DEF Init
  <2>2. QED
    BY <2>1 DEF Init, Shapes, TypeOK
<1>2. OwnerInv /\ ReadInv
  BY DEF Init, OwnerInv, ReadInv
<1>3. bridge = << >> /\ \A x : ~Announced(bridge, x)
  BY DEF Init, Announced
<1>4. DialInv
  BY <1>3 DEF Init, DialInv
<1>5. HandleInv
  <2>1. OnceAnnounced(bridge)
    BY <1>3 DEF OnceAnnounced
  <2>2. Range(incoming) = {}
    BY EmptyRange DEF Init
  <2>3. \A x \in Handles : ~Live(connection, stream, x)
    BY StreamsAssumption DEF Init, Live, Handles
  <2>4. QED
    BY <2>1, <2>2, <2>3, <1>3 DEF Init, HandleInv
<1>6. QED
  BY <1>1, <1>2, <1>4, <1>5 DEF IInv

LEMMA NextIInv == IInv /\ [Next]_vars => IInv'
BY ShapesStep, OwnerStep, ReadStep, DialStep, HandleStep DEF IInv

\* A live stream has an owner who can close it, whatever was opened, announced,
\* pushed out of the queue or left behind by a loop meanwhile (streams.ts:397-436).
THEOREM OwnersCorrect == Spec => []StreamHasOwner
<1>1. IInv => StreamHasOwner
  BY DEF IInv, Shapes, OwnerInv, StreamHasOwner
<1>2. QED
  BY <1>1, InitIInv, NextIInv, PTL DEF Spec

\* A stream adopted after its connection settled is on its way out.
THEOREM LateStreamsEnd == Spec => []LateStreamsAreEnding
<1>1. ASSUME IInv, NEW s \in Streams, On(bridge, Event("streamEnd", s))
      PROVE  \E i \in DOMAIN bridge : bridge[i] = Event("streamEnd", s)
  BY <1>1, LenProperties DEF IInv, Shapes, On
<1>2. IInv => LateStreamsAreEnding
  BY <1>1 DEF IInv, ReadInv, DialInv, LateStreamsAreEnding
<1>3. QED
  BY <1>2, InitIInv, NextIInv, PTL DEF Spec

\* A handle is in CONNECTIONS or STREAMS exactly while its JavaScript controller is
\* live or the task that will make one is on the bridge, and there is one such task:
\* no controller works on a handle that is gone, and no handle is left without one.
THEOREM HandlesMatch == Spec => []HandleInv
<1>1. IInv => HandleInv
  BY DEF IInv
<1>2. QED
  BY <1>1, InitIInv, NextIInv, PTL DEF Spec
===============================================================================
