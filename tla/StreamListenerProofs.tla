------------------------- MODULE StreamListenerProofs -------------------------
(***************************************************************************)
(* Proofs about StreamListener, for every finite set of connections and    *)
(* any number of listeners, backlog and capacity.                          *)
(*                                                                         *)
(* A connection is at one station at a time: it waits in the channel once, *)
(* or its announcement is on the bridge once, or it has its controller.    *)
(* That a connection which is announced has had no controller yet, and one *)
(* that is queued has had it, is what keeps a closed one closed.           *)
(***************************************************************************)
EXTENDS StreamListener, SequenceTheorems, TLAPS

Tasks ==
  {ConnTask(l, c) : l \in Listeners, c \in Connections} \cup {GoneTask(c) : c \in Connections}
    \cup {EndTask(l) : l \in Listeners} \cup {ClosedTask}

Once(s) == \A i, j \in 1..Len(s) : s[i] = s[j] => i = j

\* The connections a sequence of tasks hands to JavaScript.
Announces(e, c) == e.type = "connection" /\ e.conn = c
Announced(b) == {c \in Connections : \E i \in 1..Len(b) : Announces(b[i], c)}
AnnouncedOnce(b) ==
  \A c \in Connections, i, j \in 1..Len(b) :
    Announces(b[i], c) /\ Announces(b[j], c) => i = j

At(stage) == {c \in Connections : conn[c] = stage}

\* What waits natively is in the channel, and what the registry has without a controller
\* is announced: each once.
Stations ==
  /\ Range(inbound) = At("waiting") /\ Once(inbound)
  /\ Announced(bridge) = At("accepted") /\ AnnouncedOnce(bridge)

\* What a listener has queued has got its controller.
QueuedInv ==
  \A l \in Listeners : Range(accepted[l]) \subseteq At("live") \cup At("closed")

\* Who is left when the endpoint has closed: QUIC has ended every connection, and one that
\* was reported ended, and is live still, has that report on the bridge.
ReleaseOwed ==
  /\ endpoint = "closed" => up = {}
  /\ \A c \in told : conn[c] \in {"live", "closed"}
  /\ \A c \in told : conn[c] = "live" => GoneTask(c) \in Range(bridge)

OwnedInv == \A c \in Connections : conn[c] = "live" /\ c \notin late => HasOwner(c)

IInv ==
  /\ TypeOK
  /\ Stations
  /\ QueuedInv
  /\ OwnedInv
-------------------------------------------------------------------------------
(* The bridge, the channel and the queues as sequences.                      *)

LEMMA Posts ==
  ASSUME NEW S, NEW s \in Seq(S), NEW e \in S
  PROVE  /\ Append(s, e) \in Seq(S) /\ Len(Append(s, e)) = Len(s) + 1 /\ Len(s) \in Nat
         /\ Range(Append(s, e)) = Range(s) \cup {e}
         /\ Once(s) /\ e \notin Range(s) => Once(Append(s, e))
         /\ Announced(Append(s, e)) = Announced(s) \cup {c \in Connections : Announces(e, c)}
         /\ AnnouncedOnce(s) /\ (\A c \in Announced(s) : ~Announces(e, c))
              => AnnouncedOnce(Append(s, e))
<1>. DEFINE p == Append(s, e)
<1>1. /\ p \in Seq(S) /\ Len(p) = Len(s) + 1 /\ Len(s) \in Nat
      /\ \A i \in 1..Len(s) : p[i] = s[i]
      /\ p[Len(s) + 1] = e
  BY AppendProperties, LenProperties
<1>. HIDE DEF p
<1>2. /\ \A i : i \in 1..Len(p) <=> i \in 1..Len(s) \/ i = Len(s) + 1
      /\ DOMAIN p = 1..Len(p) /\ DOMAIN s = 1..Len(s)
  BY <1>1, LenProperties
<1>3. Range(p) = Range(s) \cup {e}
  BY <1>1, <1>2 DEF Range
<1>4. Once(s) /\ e \notin Range(s) => Once(p)
  BY <1>1, <1>2 DEF Once, Range
<1>5. Announced(p) = Announced(s) \cup {c \in Connections : Announces(e, c)}
  BY <1>1, <1>2 DEF Announced
<1>6. AnnouncedOnce(s) /\ (\A c \in Announced(s) : ~Announces(e, c)) => AnnouncedOnce(p)
  BY <1>1, <1>2 DEF AnnouncedOnce, Announced
<1>. QED
  BY <1>1, <1>3, <1>4, <1>5, <1>6 DEF p

LEMMA Takes ==
  ASSUME NEW S, NEW s \in Seq(S), s # << >>
  PROVE  /\ Tail(s) \in Seq(S) /\ Len(Tail(s)) = Len(s) - 1 /\ Len(s) \in Nat /\ Head(s) \in S
         /\ Range(s) = Range(Tail(s)) \cup {Head(s)}
         /\ Once(s) => Once(Tail(s)) /\ Head(s) \notin Range(Tail(s))
         /\ Announced(s) = Announced(Tail(s)) \cup {c \in Connections : Announces(Head(s), c)}
         /\ AnnouncedOnce(s) => /\ AnnouncedOnce(Tail(s))
                                /\ \A c \in Announced(Tail(s)) : ~Announces(Head(s), c)
<1>. DEFINE p == Tail(s)
<1>1. /\ p \in Seq(S) /\ Len(p) = Len(s) - 1 /\ Len(s) \in Nat
      /\ \A i \in 1..Len(p) : p[i] = s[i + 1]
      /\ Head(s) = s[1] /\ Head(s) \in S /\ 1 \in 1..Len(s)
  BY HeadTailProperties, LenProperties, EmptySeq
<1>. HIDE DEF p
<1>2. /\ \A i \in 1..Len(p) : i \in Nat /\ i + 1 \in 1..Len(s) /\ p[i] = s[i + 1]
      /\ \A i \in 1..Len(s) : i = 1 \/ (i - 1 \in 1..Len(p) /\ p[i - 1] = s[i])
      /\ DOMAIN p = 1..Len(p) /\ DOMAIN s = 1..Len(s)
  BY <1>1, LenProperties
<1>3. Range(s) = Range(p) \cup {Head(s)}
  <2>1. \A x : x \in Range(p) <=> \E i \in 1..Len(p) : p[i] = x
    BY <1>2 DEF Range
  <2>2. \A x : x \in Range(s) <=> \E i \in 1..Len(s) : s[i] = x
    BY <1>2 DEF Range
  <2>3. \A x : x \in Range(s) <=> x \in Range(p) \/ x = s[1]
    BY <1>1, <1>2, <2>1, <2>2
  <2>. QED
    BY <1>1, <2>3
<1>4. ASSUME Once(s) PROVE Once(p) /\ Head(s) \notin Range(p)
  <2>1. \A i, j \in 1..Len(p) : p[i] = p[j] => i + 1 = j + 1
    BY <1>2, <1>4 DEF Once
  <2>2. \A i \in 1..Len(p) : p[i] = s[1] => i + 1 = 1
    BY <1>1, <1>2, <1>4 DEF Once
  <2>. QED
    BY <2>1, <2>2, <1>1, <1>2 DEF Once, Range
<1>5. Announced(s) = Announced(p) \cup {c \in Connections : Announces(Head(s), c)}
  BY <1>1, <1>2 DEF Announced
<1>6. ASSUME AnnouncedOnce(s)
      PROVE  AnnouncedOnce(p) /\ \A c \in Announced(p) : ~Announces(Head(s), c)
  <2>1. \A c \in Connections, i, j \in 1..Len(p) :
          Announces(p[i], c) /\ Announces(p[j], c) => i + 1 = j + 1
    BY <1>2, <1>6 DEF AnnouncedOnce
  <2>2. \A c \in Connections, i \in 1..Len(p) :
          Announces(p[i], c) /\ Announces(s[1], c) => i + 1 = 1
    BY <1>1, <1>2, <1>6 DEF AnnouncedOnce
  <2>. QED
    BY <2>1, <2>2, <1>1, <1>2 DEF AnnouncedOnce, Announced
<1>. QED
  BY <1>1, <1>3, <1>4, <1>5, <1>6 DEF p

\* The oldest gives way to a newcomer.
LEMMA Evicts ==
  ASSUME NEW S, NEW s \in Seq(S), s # << >>, NEW e \in S
  PROVE  /\ Append(Tail(s), e) \in Seq(S) /\ Len(Append(Tail(s), e)) = Len(s) /\ Head(s) \in S
         /\ Range(Append(Tail(s), e)) \subseteq Range(s) \cup {e}
         /\ Range(s) \subseteq Range(Append(Tail(s), e)) \cup {Head(s)}
         /\ e \in Range(Append(Tail(s), e))
<1>1. /\ Tail(s) \in Seq(S) /\ Len(Tail(s)) = Len(s) - 1 /\ Len(s) \in Nat /\ Head(s) \in S
      /\ Range(s) = Range(Tail(s)) \cup {Head(s)}
  BY Takes
<1>2. \A x \in Seq(S) : /\ Append(x, e) \in Seq(S) /\ Len(Append(x, e)) = Len(x) + 1
                        /\ Range(Append(x, e)) = Range(x) \cup {e}
  BY Posts
<1>3. /\ Append(Tail(s), e) \in Seq(S) /\ Len(Append(Tail(s), e)) = Len(Tail(s)) + 1
      /\ Range(Append(Tail(s), e)) = Range(Tail(s)) \cup {e}
  BY <1>1, <1>2
<1>. QED
  BY <1>1, <1>3

LEMMA Nothing ==
  ASSUME NEW S
  PROVE  /\ << >> \in Seq(S) /\ Len(<< >>) = 0 /\ Range(<< >>) = {} /\ Once(<< >>)
         /\ Announced(<< >>) = {} /\ AnnouncedOnce(<< >>)
<1>1. << >> \in Seq(S) /\ Len(<< >>) = 0 /\ DOMAIN << >> = {} /\ 1..0 = {}
  OBVIOUS
<1>. QED
  BY <1>1 DEF Range, Once, Announced, AnnouncedOnce

LEMMA ElementsOf ==
  ASSUME NEW S, NEW s \in Seq(S)
  PROVE  Range(s) \subseteq S
BY LenProperties, ElementOfSeq DEF Range

LEMMA KindsOfTask ==
  /\ \A l \in Listeners, c \in Connections :
       ConnTask(l, c) \in Tasks /\ \A d : Announces(ConnTask(l, c), d) <=> d = c
  /\ \A c \in Connections : GoneTask(c) \in Tasks /\ \A d : ~Announces(GoneTask(c), d)
  /\ \A l \in Listeners : EndTask(l) \in Tasks /\ \A d : ~Announces(EndTask(l), d)
  /\ ClosedTask \in Tasks /\ \A d : ~Announces(ClosedTask, d)
  /\ \A e \in Tasks :
       /\ e.type = "connection" => e.listener \in Listeners /\ e.conn \in Connections
       /\ e.type = "gone" => e.conn \in Connections
       /\ e.type = "end" => e.listener \in Listeners
<1>1. \A l \in Listeners, c \in Connections :
        ConnTask(l, c) \in Tasks /\ \A d : Announces(ConnTask(l, c), d) <=> d = c
  BY DEF Tasks, ConnTask, Announces
<1>2. \A c \in Connections : GoneTask(c) \in Tasks /\ \A d : ~Announces(GoneTask(c), d)
  BY DEF Tasks, GoneTask, Announces
<1>3. /\ \A l \in Listeners : EndTask(l) \in Tasks /\ \A d : ~Announces(EndTask(l), d)
      /\ ClosedTask \in Tasks /\ \A d : ~Announces(ClosedTask, d)
  BY DEF Tasks, EndTask, ClosedTask, Announces
<1>4. ASSUME NEW e \in Tasks
      PROVE  /\ e.type = "connection" => e.listener \in Listeners /\ e.conn \in Connections
             /\ e.type = "gone" => e.conn \in Connections
             /\ e.type = "end" => e.listener \in Listeners
  BY DEF Tasks, ConnTask, GoneTask, EndTask, ClosedTask
<1>. QED
  BY <1>1, <1>2, <1>3, <1>4
-------------------------------------------------------------------------------
(* What the shared effects do.                                               *)

Stages == {"none", "waiting", "accepted", "live", "closed"}

LEMMA Closes ==
  ASSUME TypeOK, NEW set, CloseConnections(set)
  PROVE  /\ conn' \in [Connections -> Stages] /\ up' \subseteq up
         /\ \A c \in Connections :
              conn'[c] = IF c \in set /\ conn[c] = "live" THEN "closed" ELSE conn[c]
         /\ At("waiting")' = At("waiting") /\ At("accepted")' = At("accepted")
         /\ At("live")' = At("live") \ set /\ At("closed") \subseteq At("closed")'
BY DEF TypeOK, CloseConnections, Stages, At

LEMMA Finishes ==
  ASSUME TypeOK, NEW set \in SUBSET Listeners, FinishListeners(set)
  PROVE  /\ listener' \in [Listeners -> {"none", "open", "disposed", "refused"}]
         /\ open' = open \ set
         /\ open' \subseteq {l \in Listeners : listener'[l] = "open"}
         /\ accepted' \in [Listeners -> Seq(Connections)]
         /\ \A l \in Listeners : accepted'[l] = IF l \in set THEN << >> ELSE accepted[l]
         /\ \A l \in Listeners : Len(accepted'[l]) <= Capacity
         /\ task' \in [Listeners -> {"none", "running", "aborting", "gone"}]
         /\ \A l \in Listeners : task'[l] \in {"running", "aborting"} <=>
                                   task[l] \in {"running", "aborting"}
<1>1. /\ accepted' \in [Listeners -> Seq(Connections)]
      /\ \A l \in Listeners : accepted'[l] = IF l \in set THEN << >> ELSE accepted[l]
  BY Nothing DEF TypeOK, FinishListeners
<1>2. \A l \in Listeners : Len(accepted'[l]) <= Capacity
  BY <1>1, BoundsAssumption, Nothing DEF TypeOK
<1>3. /\ listener' \in [Listeners -> {"none", "open", "disposed", "refused"}]
      /\ open' = open \ set
      /\ open' \subseteq {l \in Listeners : listener'[l] = "open"}
  BY DEF TypeOK, FinishListeners
<1>4. /\ task' \in [Listeners -> {"none", "running", "aborting", "gone"}]
      /\ \A l \in Listeners : task'[l] \in {"running", "aborting"} <=>
                                task[l] \in {"running", "aborting"}
  BY DEF TypeOK, FinishListeners
<1>. QED
  BY <1>1, <1>2, <1>3, <1>4

\* The task the JS thread takes off the bridge.
LEMMA Taken ==
  ASSUME TypeOK, NEW type, TakeTask(type)
  PROVE  /\ bridge \in Seq(Tasks) /\ bridge # << >>
         /\ bridge' = Tail(bridge) /\ bridge' \in Seq(Tasks)
         /\ Head(bridge) \in Tasks /\ Head(bridge).type = type
BY Takes DEF TypeOK, TakeTask, Tasks

\* The four ways a connection that is announced comes to JavaScript.
LEMMA OnConnectionStages ==
  ASSUME TypeOK, OnConnection
  PROVE  \E l \in Listeners, c \in Connections :
           /\ Announces(Head(bridge), c)
           /\ \/ /\ l \notin open /\ late' = late \cup {c} /\ UNCHANGED accepted
                 /\ conn' = [conn EXCEPT ![c] = "live"]
              \/ /\ l \in open /\ UNCHANGED late
                 /\ accepted' = [accepted EXCEPT ![l] = Append(@, c)]
                 /\ Len(accepted[l]) < Capacity
                 /\ conn' = [conn EXCEPT ![c] = "live"]
              \/ /\ l \in open /\ UNCHANGED late
                 /\ accepted' = [accepted EXCEPT ![l] = Append(Tail(@), c)]
                 /\ accepted[l] # << >> /\ Head(accepted[l]) \in Connections
                 /\ Len(accepted[l]) >= Capacity
                 /\ conn' = [conn EXCEPT ![c] = "live", ![Head(accepted[l])] = "closed"]
           /\ up' \subseteq up
           /\ UNCHANGED <<listener, open, held, endpoint, inbound, claim, task, told>>
<1>. DEFINE l == Head(bridge).listener
            c == Head(bridge).conn
<1>1. l \in Listeners /\ c \in Connections /\ Announces(Head(bridge), c)
  BY Taken, KindsOfTask DEF OnConnection, Announces
<1>2. accepted[l] \in Seq(Connections) /\ Len(accepted[l]) \in Nat
  BY <1>1, LenProperties DEF TypeOK
<1>3. Len(accepted[l]) >= Capacity =>
        accepted[l] # << >> /\ Head(accepted[l]) \in Connections
  BY <1>2, BoundsAssumption, Nothing, Takes
<1>. QED
  BY <1>1, <1>3 DEF OnConnection
-------------------------------------------------------------------------------
LEMMA TypeStep == IInv /\ [Next]_vars => TypeOK'
<1>. SUFFICES ASSUME IInv, [Next]_vars PROVE TypeOK'
  OBVIOUS
<1>T. TypeOK
  BY DEF IInv
<1>B. bridge \in Seq(Tasks) /\ inbound \in Seq(Connections)
  BY <1>T DEF TypeOK, Tasks
\* Only the natural numbers name listeners, 0 none.
<1>L. 0 \notin Listeners
  BY DEF Listeners
<1>1. ASSUME NEW c \in Connections, PeerConnects(c)
      PROVE  TypeOK'
  <2>1. /\ Append(inbound, c) \in Seq(Connections) /\ Len(inbound) \in Nat
        /\ Len(Append(inbound, c)) = Len(inbound) + 1
    BY <1>B, Posts
  <2>2. inbound' \in Seq(Connections) /\ Len(inbound') <= Backlog
    <3>1. \/ UNCHANGED inbound
          \/ Len(inbound) < Backlog /\ inbound' = Append(inbound, c)
      BY <1>1 DEF PeerConnects
    <3>2. Backlog \in Nat /\ Len(inbound) <= Backlog
      BY <1>T, BoundsAssumption DEF TypeOK
    <3>. QED
      BY <2>1, <3>1, <3>2, <1>B
  <2>3. conn' \in [Connections -> Stages] /\ up' \subseteq Connections
    <3>1. /\ up' = up \/ up' = up \cup {c}
          /\ \E s \in Stages : conn' = [conn EXCEPT ![c] = s]
      BY <1>1 DEF PeerConnects, Stages
    <3>2. conn \in [Connections -> Stages] /\ up \subseteq Connections
      BY <1>T DEF TypeOK, Stages
    <3>. QED
      BY <3>1, <3>2
  <2>4. UNCHANGED <<jsVars, bridge, claim, task, told>>
    BY <1>1 DEF PeerConnects
  <2>5. held' \cup late' \cup up' \cup told' \subseteq Connections
    BY <2>3, <2>4, <1>T DEF TypeOK, jsVars
  <2>. QED
    BY <2>2, <2>3, <2>4, <2>5, <1>T DEF TypeOK, jsVars, Stages
<1>2. ASSUME NEW c \in Connections, PeerCloses(c)
      PROVE  TypeOK'
  BY <1>2, <1>T DEF PeerCloses, TypeOK, jsVars
<1>3. ASSUME NEW c \in Connections, ConnectionGone(c)
      PROVE  TypeOK'
  <2>1. bridge' \in Seq(Tasks)
    BY <1>3, <1>B, Posts, KindsOfTask DEF ConnectionGone
  <2>. QED
    BY <2>1, <1>3, <1>T DEF ConnectionGone, TypeOK, jsVars, Tasks
<1>4. ASSUME NEW c \in Connections, CloseConnection(c)
      PROVE  TypeOK'
  <2>1. conn' \in [Connections -> Stages] /\ up' \subseteq up
    BY <1>4, <1>T, Closes DEF CloseConnection
  <2>. QED
    BY <2>1, <1>4, <1>T DEF CloseConnection, TypeOK, jsVars, Stages
<1>5. ASSUME NEW l \in Listeners, Accept(l)
      PROVE  TypeOK'
  <2>1. /\ inbound' \in Seq(Connections) /\ Len(inbound') <= Backlog
        /\ Head(inbound) \in Connections
    BY <1>5, <1>B, <1>T, Takes, BoundsAssumption DEF Accept, TypeOK
  <2>2. bridge' \in Seq(Tasks)
    BY <2>1, <1>5, <1>B, Posts, KindsOfTask DEF Accept
  <2>. QED
    BY <2>1, <2>2, <1>5, <1>T DEF Accept, TypeOK, jsVars, Tasks
<1>6. ASSUME NEW l \in Listeners, AbortLands(l)
      PROVE  TypeOK'
  <2>1. \A k \in Listeners : task'[k] \in {"running", "aborting"} <=> claim' = k
    BY <1>6, <1>T, <1>L DEF AbortLands, TypeOK
  <2>. QED
    BY <2>1, <1>6, <1>T DEF AbortLands, TypeOK, jsVars
<1>7. ASSUME NEW l \in Listeners, ListenerEnds(l)
      PROVE  TypeOK'
  <2>1. \A k \in Listeners : task'[k] \in {"running", "aborting"} <=> claim' = k
    BY <1>7, <1>T, <1>L DEF ListenerEnds, TypeOK
  <2>2. bridge' \in Seq(Tasks)
    BY <1>7, <1>B, Posts, KindsOfTask DEF ListenerEnds
  <2>. QED
    BY <2>1, <2>2, <1>7, <1>T DEF ListenerEnds, TypeOK, jsVars, Tasks
<1>8. ASSUME NEW l \in Listeners, Listen(l)
      PROVE  TypeOK'
  <2>1. \A k \in Listeners : task'[k] \in {"running", "aborting"} <=> claim' = k
    BY <1>8, <1>T, <1>L DEF Listen, TypeOK
  <2>2. open' \subseteq {k \in Listeners : listener'[k] = "open"}
    BY <1>8, <1>T DEF Listen, TypeOK
  <2>. QED
    BY <2>1, <2>2, <1>8, <1>T DEF Listen, TypeOK
\* A step that finishes listeners and connections.
<1>F. ASSUME NEW set \in SUBSET Listeners, NEW cs, FinishListeners(set), CloseConnections(cs),
             bridge' \in Seq(Tasks), UNCHANGED <<held, late, endpoint, inbound, claim, told>>
      PROVE  TypeOK'
  <2>1. conn' \in [Connections -> Stages] /\ up' \subseteq up
    BY <1>F, <1>T, Closes
  <2>2. \A l \in Listeners : task'[l] \in {"running", "aborting"} <=> claim' = l
    BY <1>F, <1>T, Finishes DEF TypeOK
  <2>3. /\ listener' \in [Listeners -> {"none", "open", "disposed", "refused"}]
        /\ open' \subseteq {l \in Listeners : listener'[l] = "open"}
        /\ accepted' \in [Listeners -> Seq(Connections)]
        /\ \A l \in Listeners : Len(accepted'[l]) <= Capacity
        /\ task' \in [Listeners -> {"none", "running", "aborting", "gone"}]
    BY <1>F, <1>T, Finishes
  <2>. QED
    BY <2>1, <2>2, <2>3, <1>F, <1>T DEF TypeOK, Stages, Tasks
<1>9. ASSUME NEW l \in Listeners, CloseListener(l)
      PROVE  TypeOK'
  BY <1>9, <1>F, <1>B DEF CloseListener
<1>10. ASSUME NEW l \in Listeners, LoopBreaks(l)
       PROVE  TypeOK'
  <2>1. conn' \in [Connections -> Stages] /\ up' \subseteq up
    BY <1>10, <1>T, Closes DEF LoopBreaks
  <2>2. /\ accepted' \in [Listeners -> Seq(Connections)]
        /\ \A k \in Listeners : accepted'[k] = IF k = l THEN << >> ELSE accepted[k]
    BY <1>10, <1>T, Nothing DEF LoopBreaks, TypeOK
  <2>3. \A k \in Listeners : Len(accepted'[k]) <= Capacity
    BY <2>2, <1>T, Nothing, BoundsAssumption DEF TypeOK
  <2>. QED
    BY <2>1, <2>2, <2>3, <1>10, <1>T DEF LoopBreaks, TypeOK, Stages
<1>11. ASSUME NEW l \in Listeners, Take(l)
       PROVE  TypeOK'
  <2>1. accepted[l] \in Seq(Connections) /\ accepted[l] # << >>
    BY <1>11, <1>T DEF Take, TypeOK
  <2>2. /\ Tail(accepted[l]) \in Seq(Connections) /\ Head(accepted[l]) \in Connections
        /\ Len(Tail(accepted[l])) <= Capacity
    BY <2>1, <1>T, Takes, BoundsAssumption DEF TypeOK
  <2>3. /\ accepted' \in [Listeners -> Seq(Connections)]
        /\ \A k \in Listeners : Len(accepted'[k]) <= Capacity
    BY <2>2, <1>11, <1>T DEF Take, TypeOK
  <2>. QED
    BY <2>2, <2>3, <1>11, <1>T DEF Take, TypeOK, nativeVars
<1>12. CASE EndpointCloses
  <2>1. bridge' \in Seq(Tasks)
    BY <1>12, <1>B, Posts, KindsOfTask DEF EndpointCloses
  <2>. QED
    BY <2>1, <1>12, <1>T DEF EndpointCloses, TypeOK, Tasks
<1>13. CASE Close
  BY <1>13, <1>T DEF Close, TypeOK, nativeVars
<1>14. CASE OnConnection
  <2>1. bridge' \in Seq(Tasks)
    BY <1>14, <1>T, Taken DEF OnConnection
  <2>2. PICK l \in Listeners, c \in Connections :
           /\ \/ late' = late \cup {c} /\ UNCHANGED accepted
                 /\ conn' = [conn EXCEPT ![c] = "live"]
              \/ /\ UNCHANGED late
                 /\ accepted' = [accepted EXCEPT ![l] = Append(@, c)]
                 /\ Len(accepted[l]) < Capacity
                 /\ conn' = [conn EXCEPT ![c] = "live"]
              \/ /\ UNCHANGED late
                 /\ accepted' = [accepted EXCEPT ![l] = Append(Tail(@), c)]
                 /\ accepted[l] # << >> /\ Head(accepted[l]) \in Connections
                 /\ conn' = [conn EXCEPT ![c] = "live", ![Head(accepted[l])] = "closed"]
           /\ up' \subseteq up
           /\ UNCHANGED <<listener, open, held, endpoint, inbound, claim, task, told>>
    BY <1>14, <1>T, OnConnectionStages
  <2>3. accepted[l] \in Seq(Connections) /\ Len(accepted[l]) <= Capacity
    BY <1>T DEF TypeOK
  <2>4. /\ Append(accepted[l], c) \in Seq(Connections) /\ Len(accepted[l]) \in Nat
        /\ Len(Append(accepted[l], c)) = Len(accepted[l]) + 1
    BY <2>3, Posts
  <2>5. accepted[l] # << >> => /\ Append(Tail(accepted[l]), c) \in Seq(Connections)
                               /\ Len(Append(Tail(accepted[l]), c)) = Len(accepted[l])
    BY <2>3, Evicts
  <2>6. /\ accepted' \in [Listeners -> Seq(Connections)]
        /\ \A k \in Listeners : Len(accepted'[k]) <= Capacity
    <3>1. \A s \in Seq(Connections) : Len(s) <= Capacity /\ accepted' = [accepted EXCEPT ![l] = s]
            => /\ accepted' \in [Listeners -> Seq(Connections)]
               /\ \A k \in Listeners : Len(accepted'[k]) <= Capacity
      BY <1>T DEF TypeOK
    <3>2. Len(accepted[l]) < Capacity => Len(accepted[l]) + 1 <= Capacity
      BY <2>4, BoundsAssumption
    <3>3. CASE UNCHANGED accepted
      BY <3>3, <1>T DEF TypeOK
    <3>4. CASE ~UNCHANGED accepted
      BY <3>1, <3>2, <3>4, <2>2, <2>3, <2>4, <2>5
    <3>. QED
      BY <3>3, <3>4
  <2>7. conn' \in [Connections -> Stages] /\ late' \subseteq Connections
    <3>1. conn \in [Connections -> Stages] /\ late \subseteq Connections
      BY <1>T DEF TypeOK, Stages
    <3>2. conn' \in [Connections -> Stages]
      BY <2>2, <3>1 DEF Stages
    <3>3. late' \subseteq Connections
      BY <2>2, <3>1
    <3>. QED
      BY <3>2, <3>3
  <2>. QED
    BY <2>1, <2>2, <2>6, <2>7, <1>T DEF TypeOK, Stages, Tasks
<1>15. CASE OnGone
  <2>1. conn' \in [Connections -> Stages] /\ up' \subseteq up
    BY <1>15, <1>T, Closes DEF OnGone
  <2>2. bridge' \in Seq(Tasks)
    BY <1>15, <1>T, Taken DEF OnGone
  <2>. QED
    BY <2>1, <2>2, <1>15, <1>T DEF OnGone, TypeOK, jsVars, Stages, Tasks
<1>16. CASE OnEnd
  <2>1. bridge' \in Seq(Tasks) /\ Head(bridge).listener \in Listeners
    BY <1>16, <1>T, Taken, KindsOfTask DEF OnEnd
  <2>. QED
    BY <2>1, <1>16, <1>F DEF OnEnd
<1>17. CASE OnClosed
  <2>1. bridge' \in Seq(Tasks)
    BY <1>17, <1>T, Taken DEF OnClosed
  <2>. QED
    BY <2>1, <1>17, <1>F DEF OnClosed
<1>18. CASE UNCHANGED vars
  BY <1>18, <1>T DEF vars, jsVars, nativeVars, TypeOK
<1>. QED
  BY <1>1, <1>2, <1>3, <1>4, <1>5, <1>6, <1>7, <1>8, <1>9, <1>10, <1>11, <1>12, <1>13,
     <1>14, <1>15, <1>16, <1>17, <1>18 DEF Next, JsThread
-------------------------------------------------------------------------------
(* What every step does to the stations of a connection.                     *)

LEMMA StationsStep == IInv /\ [Next]_vars => Stations'
<1>. SUFFICES ASSUME IInv, [Next]_vars PROVE Stations'
  OBVIOUS
<1>T. TypeOK /\ Stations /\ QueuedInv /\ conn \in [Connections -> Stages]
      /\ bridge \in Seq(Tasks) /\ inbound \in Seq(Connections)
  BY DEF IInv, TypeOK, Tasks, Stages
\* A task that announces nothing is posted or taken, or neither.
<1>P. ASSUME At("waiting")' = At("waiting"), At("accepted")' = At("accepted"), UNCHANGED inbound,
             \/ UNCHANGED bridge
             \/ \E e \in Tasks : bridge' = Append(bridge, e) /\ \A d : ~Announces(e, d)
             \/ bridge # << >> /\ bridge' = Tail(bridge) /\ \A d : ~Announces(Head(bridge), d)
      PROVE  Stations'
  <2>1. Announced(bridge') = Announced(bridge) /\ AnnouncedOnce(bridge')
    <3>1. CASE UNCHANGED bridge
      BY <3>1, <1>T DEF Stations
    <3>2. ASSUME NEW e \in Tasks, bridge' = Append(bridge, e), \A d : ~Announces(e, d)
          PROVE  Announced(bridge') = Announced(bridge) /\ AnnouncedOnce(bridge')
      <4>1. {c \in Connections : Announces(e, c)} = {} /\ \A c \in Announced(bridge) : ~Announces(e, c)
        BY <3>2
      <4>2. /\ Announced(Append(bridge, e)) = Announced(bridge) \cup {c \in Connections : Announces(e, c)}
            /\ AnnouncedOnce(Append(bridge, e))
        BY <4>1, <1>T, Posts DEF Stations
      <4>. QED
        BY <3>2, <4>1, <4>2
    <3>3. CASE bridge # << >> /\ bridge' = Tail(bridge) /\ \A d : ~Announces(Head(bridge), d)
      <4>1. {c \in Connections : Announces(Head(bridge), c)} = {}
        BY <3>3
      <4>2. /\ Announced(bridge) = Announced(Tail(bridge))
                                     \cup {c \in Connections : Announces(Head(bridge), c)}
            /\ AnnouncedOnce(Tail(bridge))
        BY <3>3, <1>T, Takes DEF Stations
      <4>. QED
        BY <3>3, <4>1, <4>2
    <3>. QED
      BY <1>P, <3>1, <3>2, <3>3
  <2>. QED
    BY <2>1, <1>P, <1>T DEF Stations
<1>1. ASSUME NEW c \in Connections, PeerConnects(c)
      PROVE  Stations'
  <2>1. conn[c] = "none" /\ UNCHANGED bridge
    BY <1>1 DEF PeerConnects
  <2>2. CASE Len(inbound) < Backlog
    <3>1. inbound' = Append(inbound, c) /\ conn' = [conn EXCEPT ![c] = "waiting"]
      BY <1>1, <2>2 DEF PeerConnects
    <3>2. /\ At("waiting")' = At("waiting") \cup {c} /\ At("accepted")' = At("accepted")
          /\ c \notin At("waiting")
      BY <2>1, <3>1, <1>T DEF At
    <3>3. Range(inbound') = Range(inbound) \cup {c} /\ Once(inbound')
      BY <3>1, <3>2, <1>T, Posts DEF Stations
    <3>. QED
      BY <2>1, <3>2, <3>3, <1>T DEF Stations
  <2>3. CASE ~(Len(inbound) < Backlog)
    <3>1. UNCHANGED inbound /\ conn' = [conn EXCEPT ![c] = "closed"]
      BY <1>1, <2>3 DEF PeerConnects
    <3>2. At("waiting")' = At("waiting") /\ At("accepted")' = At("accepted")
      BY <2>1, <3>1, <1>T DEF At
    <3>. QED
      BY <2>1, <3>1, <3>2, <1>P
  <2>. QED
    BY <2>2, <2>3
<1>2. ASSUME NEW c \in Connections, PeerCloses(c)
      PROVE  Stations'
  BY <1>2, <1>P DEF PeerCloses, At
<1>3. ASSUME NEW c \in Connections, ConnectionGone(c)
      PROVE  Stations'
  BY <1>3, <1>P, KindsOfTask DEF ConnectionGone, At
<1>4. ASSUME NEW c \in Connections, CloseConnection(c)
      PROVE  Stations'
  <2>1. At("waiting")' = At("waiting") /\ At("accepted")' = At("accepted")
    BY <1>4, <1>T, Closes DEF CloseConnection
  <2>. QED
    BY <2>1, <1>4, <1>P DEF CloseConnection
<1>5. ASSUME NEW l \in Listeners, Accept(l)
      PROVE  Stations'
  <2>. DEFINE c == Head(inbound)
              e == ConnTask(l, c)
  <2>1. /\ inbound # << >> /\ inbound' = Tail(inbound)
        /\ conn' = [conn EXCEPT ![c] = "accepted"] /\ bridge' = Append(bridge, e)
    BY <1>5 DEF Accept
  <2>2. /\ c \in Connections /\ Range(inbound) = Range(inbound') \cup {c}
        /\ Once(inbound') /\ c \notin Range(inbound')
    BY <2>1, <1>T, Takes DEF Stations
  <2>3. conn[c] = "waiting"
    BY <2>2, <1>T DEF Stations, At
  <2>4. /\ At("waiting")' = At("waiting") \ {c} /\ At("accepted")' = At("accepted") \cup {c}
        /\ c \notin At("accepted")
    BY <2>1, <2>2, <2>3, <1>T DEF At
  <2>5. e \in Tasks /\ \A d : Announces(e, d) <=> d = c
    BY <2>2, KindsOfTask
  <2>. HIDE DEF c, e
  <2>6. Announced(bridge') = Announced(bridge) \cup {c} /\ AnnouncedOnce(bridge')
    <3>1. {d \in Connections : Announces(e, d)} = {c} /\ \A d \in Announced(bridge) : ~Announces(e, d)
      BY <2>2, <2>4, <2>5, <1>T DEF Stations
    <3>2. /\ Announced(bridge') = Announced(bridge) \cup {d \in Connections : Announces(e, d)}
          /\ AnnouncedOnce(bridge')
      BY <2>1, <2>5, <3>1, <1>T, Posts DEF Stations
    <3>. QED
      BY <3>1, <3>2
  <2>7. Range(inbound') = Range(inbound) \ {c}
    BY <2>2
  <2>8. Range(inbound) = At("waiting") /\ Announced(bridge) = At("accepted")
    BY <1>T DEF Stations
  <2>. QED
    BY <2>2, <2>4, <2>6, <2>7, <2>8 DEF Stations
<1>6. ASSUME NEW l \in Listeners, AbortLands(l) \/ Listen(l)
      PROVE  Stations'
  BY <1>6, <1>P DEF AbortLands, Listen, At
<1>7. ASSUME NEW l \in Listeners, ListenerEnds(l)
      PROVE  Stations'
  BY <1>7, <1>P, KindsOfTask DEF ListenerEnds, At
<1>8. ASSUME NEW l \in Listeners, CloseListener(l) \/ LoopBreaks(l)
      PROVE  Stations'
  <2>1. At("waiting")' = At("waiting") /\ At("accepted")' = At("accepted")
    BY <1>8, <1>T, Closes DEF CloseListener, LoopBreaks
  <2>. QED
    BY <2>1, <1>8, <1>P DEF CloseListener, LoopBreaks
<1>9. ASSUME NEW l \in Listeners, Take(l)
      PROVE  Stations'
  BY <1>9, <1>P DEF Take, nativeVars, At
<1>10. CASE EndpointCloses
  BY <1>10, <1>P, KindsOfTask DEF EndpointCloses, At
<1>11. CASE Close
  BY <1>11, <1>P DEF Close, nativeVars, At
<1>12. CASE OnConnection
  <2>1. PICK l \in Listeners, c \in Connections :
          /\ Announces(Head(bridge), c) /\ UNCHANGED inbound
          /\ \/ conn' = [conn EXCEPT ![c] = "live"]
             \/ /\ accepted[l] # << >> /\ Head(accepted[l]) \in Connections
                /\ conn' = [conn EXCEPT ![c] = "live", ![Head(accepted[l])] = "closed"]
    BY <1>12, <1>T, OnConnectionStages
  <2>2. bridge # << >> /\ bridge' = Tail(bridge)
    BY <1>12 DEF OnConnection, TakeTask
  <2>3. /\ Announced(bridge) = Announced(bridge') \cup {d \in Connections : Announces(Head(bridge), d)}
        /\ AnnouncedOnce(bridge') /\ \A d \in Announced(bridge') : ~Announces(Head(bridge), d)
    BY <2>2, <1>T, Takes DEF Stations
  <2>4. Announced(bridge) = Announced(bridge') \cup {c} /\ c \notin Announced(bridge')
        /\ conn[c] = "accepted"
    BY <2>1, <2>3, <1>T DEF Announces, Stations, At
  <2>5. accepted[l] # << >> => conn[Head(accepted[l])] \in {"live", "closed"}
    <3>. HAVE accepted[l] # << >>
    <3>1. Head(accepted[l]) \in Range(accepted[l])
      BY <1>T, Takes DEF TypeOK
    <3>. QED
      BY <3>1, <1>T DEF QueuedInv, At
  <2>6. At("waiting")' = At("waiting") /\ At("accepted")' = At("accepted") \ {c}
    <3>1. CASE conn' = [conn EXCEPT ![c] = "live"]
      BY <3>1, <2>4, <1>T DEF At
    <3>2. CASE /\ accepted[l] # << >> /\ Head(accepted[l]) \in Connections
               /\ conn' = [conn EXCEPT ![c] = "live", ![Head(accepted[l])] = "closed"]
      BY <3>2, <2>4, <2>5, <1>T DEF At
    <3>. QED
      BY <2>1, <3>1, <3>2
  <2>. QED
    BY <2>1, <2>3, <2>4, <2>6, <1>T DEF Stations
<1>13. CASE OnGone \/ OnEnd \/ OnClosed
  <2>1. PICK type \in {"gone", "end", "closed"} : TakeTask(type)
    BY <1>13 DEF OnGone, OnEnd, OnClosed
  <2>2. bridge # << >> /\ bridge' = Tail(bridge) /\ \A d : ~Announces(Head(bridge), d)
    BY <2>1 DEF TakeTask, Announces
  <2>3. At("waiting")' = At("waiting") /\ At("accepted")' = At("accepted") /\ UNCHANGED inbound
    BY <1>13, <1>T, Closes DEF OnGone, OnEnd, OnClosed
  <2>. QED
    BY <2>2, <2>3, <1>P
<1>14. CASE UNCHANGED vars
  BY <1>14, <1>P DEF vars, nativeVars, At
<1>. QED
  BY <1>1, <1>2, <1>3, <1>4, <1>5, <1>6, <1>7, <1>8, <1>9, <1>10, <1>11, <1>12, <1>13, <1>14
  DEF Next, JsThread
-------------------------------------------------------------------------------
(* Once a connection has its controller it is live until it is closed.       *)

\* A closed connection stays closed, and a live one goes nowhere else.
Settles ==
  /\ At("closed") \subseteq At("closed")'
  /\ At("live") \subseteq At("live")' \cup At("closed")'

LEMMA NextSettles == IInv /\ [Next]_vars => Settles
<1>. SUFFICES ASSUME IInv, [Next]_vars PROVE Settles
  OBVIOUS
<1>T. TypeOK /\ Stations /\ QueuedInv /\ conn \in [Connections -> Stages]
  BY DEF IInv, TypeOK, Stages
<1>C. ASSUME NEW set, CloseConnections(set)
      PROVE  Settles
  BY <1>C, <1>T, Closes DEF Settles, At
<1>1. ASSUME NEW c \in Connections, PeerConnects(c)
      PROVE  Settles
  <2>1. conn[c] = "none" /\ \E s \in Stages : conn' = [conn EXCEPT ![c] = s]
    BY <1>1 DEF PeerConnects, Stages
  <2>. QED
    BY <2>1, <1>T DEF Settles, At
<1>2. ASSUME NEW l \in Listeners, Accept(l)
      PROVE  Settles
  <2>1. Head(inbound) \in Range(inbound) /\ conn' = [conn EXCEPT ![Head(inbound)] = "accepted"]
    BY <1>2, <1>T, Takes DEF Accept, TypeOK
  <2>2. Head(inbound) \in Connections /\ conn[Head(inbound)] = "waiting"
    BY <2>1, <1>T DEF Stations, At
  <2>. QED
    BY <2>1, <2>2, <1>T DEF Settles, At
<1>3. CASE OnConnection
  <2>1. PICK l \in Listeners, c \in Connections :
          /\ Announces(Head(bridge), c)
          /\ \/ conn' = [conn EXCEPT ![c] = "live"]
             \/ /\ accepted[l] # << >> /\ Head(accepted[l]) \in Connections
                /\ conn' = [conn EXCEPT ![c] = "live", ![Head(accepted[l])] = "closed"]
    BY <1>3, <1>T, OnConnectionStages
  <2>2. conn[c] = "accepted"
    <3>1. c \in Announced(bridge)
      BY <1>3, <2>1, <1>T, Taken, Takes DEF OnConnection
    <3>. QED
      BY <3>1, <1>T DEF Stations, At
  <2>. QED
    BY <2>1, <2>2, <1>T DEF Settles, At
<1>4. CASE UNCHANGED conn
  BY <1>4 DEF Settles, At
<1>. QED
  BY <1>C, <1>1, <1>2, <1>3, <1>4
  DEF Next, JsThread, vars, nativeVars, PeerCloses, ConnectionGone, CloseConnection, AbortLands,
      ListenerEnds, Listen, CloseListener, LoopBreaks, Take, EndpointCloses, Close, OnGone, OnEnd,
      OnClosed

LEMMA QueuedStep == IInv /\ [Next]_vars => QueuedInv'
<1>. SUFFICES ASSUME IInv, [Next]_vars PROVE QueuedInv'
  OBVIOUS
<1>T. TypeOK /\ TypeOK' /\ QueuedInv /\ Settles /\ conn \in [Connections -> Stages]
      /\ \A l \in Listeners : accepted[l] \in Seq(Connections)
  BY TypeStep, NextSettles DEF IInv, TypeOK, Stages
<1>K. ASSUME \A l \in Listeners : Range(accepted'[l]) \subseteq Range(accepted[l])
      PROVE  QueuedInv'
  BY <1>K, <1>T DEF QueuedInv, Settles, At
<1>F. ASSUME NEW set \in SUBSET Listeners, FinishListeners(set)
      PROVE  QueuedInv'
  <2>1. \A l \in Listeners : accepted'[l] = IF l \in set THEN << >> ELSE accepted[l]
    BY <1>F, <1>T, Finishes
  <2>2. \A l \in Listeners : Range(accepted'[l]) \subseteq Range(accepted[l])
    BY <2>1, Nothing
  <2>. QED
    BY <2>2, <1>K
<1>1. ASSUME NEW l \in Listeners, CloseListener(l)
      PROVE  QueuedInv'
  BY <1>1, <1>F DEF CloseListener
<1>2. CASE OnEnd
  <2>1. Head(bridge).listener \in Listeners
    BY <1>2, <1>T, Taken, KindsOfTask DEF OnEnd
  <2>. QED
    BY <2>1, <1>2, <1>F DEF OnEnd
<1>3. CASE OnClosed
  BY <1>3, <1>F DEF OnClosed
<1>4. ASSUME NEW l \in Listeners, LoopBreaks(l)
      PROVE  QueuedInv'
  <2>1. \A k \in Listeners : accepted'[k] = IF k = l THEN << >> ELSE accepted[k]
    BY <1>4, <1>T DEF LoopBreaks, TypeOK
  <2>2. \A k \in Listeners : Range(accepted'[k]) \subseteq Range(accepted[k])
    BY <2>1, Nothing
  <2>. QED
    BY <2>2, <1>K
<1>5. ASSUME NEW l \in Listeners, Take(l)
      PROVE  QueuedInv'
  <2>1. \A k \in Listeners : accepted'[k] = IF k = l THEN Tail(accepted[k]) ELSE accepted[k]
    BY <1>5, <1>T DEF Take, TypeOK
  <2>2. \A k \in Listeners : Range(accepted'[k]) \subseteq Range(accepted[k])
    BY <2>1, <1>5, <1>T, Takes DEF Take
  <2>. QED
    BY <2>2, <1>K
<1>6. CASE OnConnection
  <2>1. PICK l \in Listeners, c \in Connections :
          /\ \/ UNCHANGED accepted
             \/ accepted' = [accepted EXCEPT ![l] = Append(@, c)]
             \/ accepted' = [accepted EXCEPT ![l] = Append(Tail(@), c)] /\ accepted[l] # << >>
          /\ \/ conn' = [conn EXCEPT ![c] = "live"]
             \/ /\ Head(accepted[l]) \in Connections
                /\ conn' = [conn EXCEPT ![c] = "live", ![Head(accepted[l])] = "closed"]
    BY <1>6, <1>T, OnConnectionStages
  <2>2. c \in At("live")' \cup At("closed")'
    BY <2>1, <1>T DEF At
  <2>3. /\ Range(Append(accepted[l], c)) = Range(accepted[l]) \cup {c}
        /\ accepted[l] # << >> =>
             Range(Append(Tail(accepted[l]), c)) \subseteq Range(accepted[l]) \cup {c}
    <3>1. accepted[l] \in Seq(Connections)
      BY <1>T
    <3>. QED
      BY <3>1, Posts, Evicts
  <2>4. \A k \in Listeners : Range(accepted'[k]) \subseteq Range(accepted[k]) \cup {c}
    <3>1. accepted \in [Listeners -> Seq(Connections)]
      BY <1>T DEF TypeOK
    <3>2. \A k \in Listeners :
            \/ accepted'[k] = accepted[k]
            \/ k = l /\ accepted'[k] = Append(accepted[l], c)
            \/ k = l /\ accepted'[k] = Append(Tail(accepted[l]), c) /\ accepted[l] # << >>
      BY <2>1, <3>1
    <3>. QED
      BY <2>3, <3>2
  <2>. QED
    BY <2>2, <2>4, <1>T DEF QueuedInv, Settles
<1>7. CASE UNCHANGED accepted
  BY <1>7, <1>K
<1>. QED
  BY <1>1, <1>2, <1>3, <1>4, <1>5, <1>6, <1>7
  DEF Next, JsThread, vars, jsVars, PeerConnects, PeerCloses, ConnectionGone, CloseConnection,
      Accept, AbortLands, ListenerEnds, Listen, EndpointCloses, Close, OnGone
-------------------------------------------------------------------------------
(* Nobody's connection is live.                                              *)

LEMMA OwnedStep == IInv /\ [Next]_vars => OwnedInv'
<1>. SUFFICES ASSUME IInv, [Next]_vars PROVE OwnedInv'
  OBVIOUS
<1>T. TypeOK /\ OwnedInv /\ conn \in [Connections -> Stages]
      /\ \A l \in Listeners : accepted[l] \in Seq(Connections)
  BY DEF IInv, TypeOK, Stages
<1>K. ASSUME At("live")' \subseteq At("live"), UNCHANGED late, held \subseteq held',
             \A l \in open : \A c \in Range(accepted[l]) :
               \/ c \in held'
               \/ l \in open' /\ c \in Range(accepted'[l])
               \/ c \notin At("live")'
      PROVE  OwnedInv'
  <2>. SUFFICES ASSUME NEW c \in Connections, conn'[c] = "live", c \notin late'
                PROVE  c \in held' \/ \E l \in open' : c \in Range(accepted'[l])
    BY DEF OwnedInv, HasOwner
  <2>1. c \in At("live")' /\ conn[c] = "live" /\ c \notin late
    BY <1>K DEF At
  <2>2. c \in held \/ \E l \in open : c \in Range(accepted[l])
    BY <2>1, <1>T DEF OwnedInv, HasOwner
  <2>. QED
    BY <2>1, <2>2, <1>K
\* The queues of `set` are closed, which closes what waits there.
<1>F. ASSUME NEW set \in SUBSET Listeners, CloseConnections(Unconsumed(set)),
             open' = open \ set, UNCHANGED <<held, late>>,
             \A l \in Listeners : accepted'[l] = IF l \in set THEN << >> ELSE accepted[l]
      PROVE  OwnedInv'
  <2>1. At("live")' = At("live") \ Unconsumed(set)
    BY <1>F, <1>T, Closes
  <2>2. \A l \in open \cap set : Range(accepted[l]) \subseteq Unconsumed(set)
    BY DEF Unconsumed
  <2>3. open \subseteq Listeners
    BY <1>T DEF TypeOK
  <2>. QED
    BY <2>1, <2>2, <2>3, <1>F, <1>K
<1>1. ASSUME NEW c \in Connections, PeerConnects(c)
      PROVE  OwnedInv'
  <2>1. conn' = [conn EXCEPT ![c] = "waiting"] \/ conn' = [conn EXCEPT ![c] = "closed"]
    BY <1>1 DEF PeerConnects
  <2>2. At("live")' \subseteq At("live")
    BY <2>1, <1>T DEF At
  <2>. QED
    BY <2>2, <1>1, <1>K DEF PeerConnects, jsVars
<1>2. ASSUME NEW l \in Listeners, Accept(l)
      PROVE  OwnedInv'
  <2>1. At("live")' \subseteq At("live")
    BY <1>2, <1>T DEF Accept, At
  <2>. QED
    BY <2>1, <1>2, <1>K DEF Accept, jsVars
<1>3. ASSUME NEW set, CloseConnections(set), UNCHANGED jsVars
      PROVE  OwnedInv'
  BY <1>3, <1>T, <1>K, Closes DEF jsVars
<1>4. ASSUME NEW l \in Listeners, CloseListener(l)
      PROVE  OwnedInv'
  <2>1. FinishListeners({l}) /\ CloseConnections(Unconsumed({l})) /\ UNCHANGED <<held, late>>
    BY <1>4 DEF CloseListener
  <2>. QED
    BY <2>1, <1>F, <1>T, Finishes
<1>5. ASSUME NEW l \in Listeners, LoopBreaks(l)
      PROVE  OwnedInv'
  <2>1. \A k \in Listeners : accepted'[k] = IF k \in {l} THEN << >> ELSE accepted[k]
    BY <1>5, <1>T DEF LoopBreaks, TypeOK
  <2>. QED
    BY <2>1, <1>5, <1>F DEF LoopBreaks
<1>6. ASSUME NEW l \in Listeners, Take(l)
      PROVE  OwnedInv'
  <2>1. \A k \in Listeners : accepted'[k] = IF k = l THEN Tail(accepted[k]) ELSE accepted[k]
    BY <1>6, <1>T DEF Take, TypeOK
  <2>2. \A k \in Listeners : \A c \in Range(accepted[k]) : c \in held' \/ c \in Range(accepted'[k])
    <3>1. held' = held \cup {Head(accepted[l])} /\ accepted[l] # << >>
      BY <1>6 DEF Take
    <3>2. Range(accepted[l]) = Range(Tail(accepted[l])) \cup {Head(accepted[l])}
      BY <3>1, <1>T, Takes
    <3>. QED
      BY <2>1, <3>1, <3>2
  <2>3. At("live")' = At("live") /\ open \subseteq Listeners
    BY <1>6, <1>T DEF Take, At, TypeOK
  <2>4. UNCHANGED open /\ UNCHANGED late /\ held \subseteq held'
    BY <1>6 DEF Take
  <2>5. \A k \in open : \A c \in Range(accepted[k]) :
          \/ c \in held'
          \/ k \in open' /\ c \in Range(accepted'[k])
          \/ c \notin At("live")'
    BY <2>2, <2>3, <2>4
  <2>6. At("live")' \subseteq At("live")
    BY <2>3
  <2>. QED
    BY <2>4, <2>5, <2>6, <1>K
<1>7. ASSUME NEW l \in Listeners, Listen(l)
      PROVE  OwnedInv'
  <2>1. open \subseteq open' /\ UNCHANGED <<accepted, held, late, conn>>
    BY <1>7 DEF Listen
  <2>2. At("live")' = At("live")
    BY <2>1 DEF At
  <2>. QED
    BY <2>1, <2>2, <1>K
<1>8. CASE OnConnection
  <2>1. PICK l \in Listeners, c \in Connections :
           \/ /\ late' = late \cup {c} /\ UNCHANGED accepted
              /\ conn' = [conn EXCEPT ![c] = "live"]
           \/ /\ l \in open /\ UNCHANGED late
              /\ accepted' = [accepted EXCEPT ![l] = Append(@, c)]
              /\ conn' = [conn EXCEPT ![c] = "live"]
           \/ /\ l \in open /\ UNCHANGED late
              /\ accepted' = [accepted EXCEPT ![l] = Append(Tail(@), c)]
              /\ accepted[l] # << >> /\ Head(accepted[l]) \in Connections
              /\ conn' = [conn EXCEPT ![c] = "live", ![Head(accepted[l])] = "closed"]
    BY <1>8, <1>T, OnConnectionStages
  <2>2. UNCHANGED <<open, held>>
    BY <1>8 DEF OnConnection
  <2>3. /\ Range(Append(accepted[l], c)) = Range(accepted[l]) \cup {c}
        /\ accepted[l] # << >> =>
             /\ Range(accepted[l]) \subseteq Range(Append(Tail(accepted[l]), c)) \cup {Head(accepted[l])}
             /\ c \in Range(Append(Tail(accepted[l]), c))
    <3>1. accepted[l] \in Seq(Connections)
      BY <1>T
    <3>. QED
      BY <3>1, Posts, Evicts
  <2>4. open \subseteq Listeners
    BY <1>T DEF TypeOK
  <2>5. CASE late' = late \cup {c} /\ UNCHANGED accepted /\ conn' = [conn EXCEPT ![c] = "live"]
    BY <2>2, <2>5, <1>T DEF OwnedInv, HasOwner
  <2>6. CASE /\ l \in open /\ UNCHANGED late
             /\ accepted' = [accepted EXCEPT ![l] = Append(@, c)]
             /\ conn' = [conn EXCEPT ![c] = "live"]
    <3>1. \A k \in open : Range(accepted[k]) \subseteq Range(accepted'[k])
      BY <2>3, <2>4, <2>6, <1>T DEF TypeOK
    <3>2. c \in Range(accepted'[l])
      BY <2>3, <2>6, <1>T DEF TypeOK
    <3>. QED
      BY <2>2, <2>6, <3>1, <3>2, <1>T DEF OwnedInv, HasOwner
  <2>7. CASE /\ l \in open /\ UNCHANGED late
             /\ accepted' = [accepted EXCEPT ![l] = Append(Tail(@), c)]
             /\ accepted[l] # << >> /\ Head(accepted[l]) \in Connections
             /\ conn' = [conn EXCEPT ![c] = "live", ![Head(accepted[l])] = "closed"]
    <3>. DEFINE h == Head(accepted[l])
    <3>1. /\ \A k \in open : \A d \in Range(accepted[k]) : d = h \/ d \in Range(accepted'[k])
          /\ c \in Range(accepted'[l])
      BY <2>3, <2>4, <2>7, <1>T DEF TypeOK
    <3>2. /\ conn'[h] = "closed"
          /\ \A d \in Connections : d # h /\ d # c => conn'[d] = conn[d]
      BY <2>7, <1>T
    <3>. HIDE DEF h
    <3>. QED
      BY <2>2, <2>7, <3>1, <3>2, <1>T DEF OwnedInv, HasOwner
  <2>. QED
    BY <2>1, <2>5, <2>6, <2>7
<1>9. CASE OnEnd
  <2>. DEFINE set == {l \in {Head(bridge).listener} : listener[l] = "open"}
  <2>1. set \in SUBSET Listeners
    BY <1>9, <1>T, Taken, KindsOfTask DEF OnEnd
  <2>2. FinishListeners(set) /\ CloseConnections(Unconsumed(set)) /\ UNCHANGED <<held, late>>
    BY <1>9 DEF OnEnd
  <2>. HIDE DEF set
  <2>. QED
    BY <2>1, <2>2, <1>F, <1>T, Finishes
<1>10. CASE OnClosed
  <2>1. At("live")' = At("live") \ Connections
    BY <1>10, <1>T, Closes DEF OnClosed
  <2>. QED
    BY <2>1 DEF OwnedInv, At
<1>11. CASE UNCHANGED <<jsVars, conn>>
  BY <1>11, <1>K DEF jsVars, At
<1>12. CASE EndpointCloses \/ Close
  BY <1>12, <1>K DEF EndpointCloses, Close, At
<1>. QED
  BY <1>1, <1>2, <1>3, <1>4, <1>5, <1>6, <1>7, <1>8, <1>9, <1>10, <1>11, <1>12
  DEF Next, JsThread, vars, PeerCloses, ConnectionGone, CloseConnection, AbortLands, ListenerEnds,
      OnGone
-------------------------------------------------------------------------------
LEMMA InitIInv == Init => IInv
<1>. SUFFICES ASSUME Init PROVE IInv
  OBVIOUS
<1>1. TypeOK
  <2>1. 0 \notin Listeners /\ Backlog >= 0 /\ Capacity >= 0 /\ << >> \in Seq(Connections)
        /\ << >> \in Seq(Tasks) /\ Len(<< >>) = 0
    BY BoundsAssumption, Nothing DEF Listeners
  <2>. QED
    BY <2>1 DEF Init, TypeOK, Tasks
<1>2. Stations
  <2>1. At("waiting") = {} /\ At("accepted") = {}
    BY DEF Init, At
  <2>. QED
    BY <2>1, Nothing DEF Init, Stations
<1>3. QueuedInv /\ OwnedInv
  BY Nothing DEF Init, QueuedInv, OwnedInv
<1>. QED
  BY <1>1, <1>2, <1>3 DEF IInv

LEMMA NextIInv == IInv /\ [Next]_vars => IInv'
BY TypeStep, StationsStep, QueuedStep, OwnedStep DEF IInv

LEMMA ReleaseStep == IInv /\ ReleaseOwed /\ [Next]_vars => ReleaseOwed'
<1>. SUFFICES ASSUME IInv, ReleaseOwed, [Next]_vars PROVE ReleaseOwed'
  OBVIOUS
<1>T. /\ TypeOK /\ Stations /\ conn \in [Connections -> Stages] /\ told \subseteq Connections
      /\ bridge \in Seq(Tasks) /\ Settles
      /\ (endpoint = "closed" => up = {})
      /\ \A c \in told : c \in At("live") \cup At("closed")
      /\ \A c \in told : conn[c] = "live" => GoneTask(c) \in Range(bridge)
  BY NextSettles DEF IInv, TypeOK, Tasks, Stages, ReleaseOwed, At
\* Reports stay on the bridge as long as their connections are live.
<1>K. ASSUME UNCHANGED told, (endpoint' = "closed" => up' = {}),
             \A c \in told : GoneTask(c) \in Range(bridge) =>
               GoneTask(c) \in Range(bridge') \/ conn'[c] # "live"
      PROVE  ReleaseOwed'
  <2>1. \A c \in told : conn'[c] \in {"live", "closed"}
    BY <1>T DEF Settles, At
  <2>2. \A c \in told : conn'[c] = "live" => conn[c] = "live"
    BY <1>T DEF Settles, At
  <2>. QED
    BY <2>1, <2>2, <1>K, <1>T DEF ReleaseOwed
<1>A. ASSUME NEW e \in Tasks, bridge' = Append(bridge, e)
      PROVE  Range(bridge') = Range(bridge) \cup {e}
  BY <1>A, <1>T, Posts
<1>H. ASSUME NEW type, TakeTask(type)
      PROVE  Range(bridge) = Range(bridge') \cup {Head(bridge)} /\ Head(bridge).type = type
  BY <1>H, <1>T, Taken, Takes
<1>1. ASSUME NEW c \in Connections, PeerConnects(c) \/ PeerCloses(c) \/ CloseConnection(c)
      PROVE  ReleaseOwed'
  <2>1. UNCHANGED <<told, bridge, endpoint>> /\ (endpoint = "closed" => up' \subseteq up)
    BY <1>1, <1>T, Closes DEF PeerConnects, PeerCloses, CloseConnection, jsVars
  <2>. QED
    BY <2>1, <1>K, <1>T
<1>2. ASSUME NEW c \in Connections, ConnectionGone(c)
      PROVE  ReleaseOwed'
  <2>1. /\ conn[c] = "live" /\ told' = told \cup {c} /\ UNCHANGED <<conn, up, endpoint>>
        /\ bridge' = Append(bridge, GoneTask(c)) /\ GoneTask(c) \in Tasks
    BY <1>2, KindsOfTask DEF ConnectionGone, jsVars
  <2>2. Range(bridge') = Range(bridge) \cup {GoneTask(c)}
    BY <2>1, <1>A
  <2>. QED
    BY <2>1, <2>2, <1>T DEF ReleaseOwed, At
<1>3. ASSUME NEW l \in Listeners, Accept(l) \/ ListenerEnds(l)
      PROVE  ReleaseOwed'
  <2>1. UNCHANGED <<told, endpoint, up>>
    BY <1>3 DEF Accept, ListenerEnds, jsVars
  <2>2. \E e \in Tasks : bridge' = Append(bridge, e)
    <3>1. inbound # << >> => Head(inbound) \in Connections
      BY <1>T, Takes DEF TypeOK
    <3>. QED
      BY <3>1, <1>3, KindsOfTask DEF Accept, ListenerEnds
  <2>. QED
    BY <2>1, <2>2, <1>A, <1>K, <1>T
<1>4. ASSUME NEW l \in Listeners,
             AbortLands(l) \/ Listen(l) \/ CloseListener(l) \/ LoopBreaks(l) \/ Take(l)
      PROVE  ReleaseOwed'
  <2>1. UNCHANGED <<told, bridge, endpoint>> /\ up' \subseteq up
    BY <1>4, <1>T, Closes
    DEF AbortLands, Listen, CloseListener, LoopBreaks, Take, jsVars, nativeVars
  <2>. QED
    BY <2>1, <1>K, <1>T
<1>5. CASE EndpointCloses
  <2>1. up' = {} /\ UNCHANGED told /\ bridge' = Append(bridge, ClosedTask)
    BY <1>5 DEF EndpointCloses
  <2>. QED
    BY <2>1, <1>A, <1>K, KindsOfTask
<1>6. CASE Close
  BY <1>6, <1>K DEF Close, nativeVars
<1>7. CASE OnConnection \/ OnEnd \/ OnClosed
  <2>1. PICK type \in {"connection", "end", "closed"} : TakeTask(type)
    BY <1>7 DEF OnConnection, OnEnd, OnClosed
  <2>2. UNCHANGED <<told, endpoint>> /\ up' \subseteq up
    <3>1. CASE OnConnection
      BY <3>1, <1>T, OnConnectionStages
    <3>2. CASE OnEnd \/ OnClosed
      BY <3>2, <1>T, Closes DEF OnEnd, OnClosed
    <3>. QED
      BY <1>7, <3>1, <3>2
  <2>3. \A c : GoneTask(c) # Head(bridge)
    BY <2>1, <1>H DEF GoneTask
  <2>. QED
    BY <2>1, <2>2, <2>3, <1>H, <1>K, <1>T
<1>8. CASE OnGone
  <2>1. TakeTask("gone") /\ UNCHANGED <<told, endpoint>> /\ CloseConnections({Head(bridge).conn})
    BY <1>8 DEF OnGone, jsVars
  <2>2. up' \subseteq up
    BY <2>1, <1>T, Closes
  <2>3. \A c \in told : GoneTask(c) = Head(bridge) => conn'[c] # "live"
    <3>1. \A c : GoneTask(c) = Head(bridge) => Head(bridge).conn = c
      BY DEF GoneTask
    <3>. QED
      BY <3>1, <2>1, <1>T, Closes
  <2>. QED
    BY <2>1, <2>2, <2>3, <1>H, <1>K, <1>T
<1>9. CASE UNCHANGED vars
  BY <1>9, <1>K, <1>T DEF vars, jsVars, nativeVars
<1>. QED
  BY <1>1, <1>2, <1>3, <1>4, <1>5, <1>6, <1>7, <1>8, <1>9 DEF Next, JsThread

(* A live connection belongs to the application or waits where it can be     *)
(* taken, and one task at most owns the receiver, for any number of both.    *)
THEOREM OwnersKnown == Spec => []LiveHasOwner
<1>1. IInv => LiveHasOwner
  BY DEF IInv, OwnedInv, LiveHasOwner
<1>. QED
  BY <1>1, InitIInv, NextIInv, PTL DEF Spec

(* A connection the registry holds without a controller is announced, once;  *)
(* so JavaScript gets to know of each one it has to close.                   *)
THEOREM AcceptedAreAnnounced == Spec => []Stations
<1>1. IInv => Stations
  BY DEF IInv
<1>. QED
  BY <1>1, InitIInv, NextIInv, PTL DEF Spec

(* The safety core of CloseReleasesAll: when the endpoint has closed, each   *)
(* live connection is yet to be reported, or its report is on the bridge,    *)
(* and OnGone closes it; nothing forgets one.                                *)
THEOREM ReleaseIsOwed == Spec => []ReleaseOwed
<1>1. Init => ReleaseOwed
  BY DEF Init, ReleaseOwed
<1>. QED
  BY <1>1, InitIInv, NextIInv, ReleaseStep, PTL DEF Spec

(* A closed connection stays closed, and a live one leaves that only so,     *)
(* whatever is announced late, evicted or broken off.                        *)
THEOREM ClosedStayClosed == Spec => [][Settles]_vars
<1>1. IInv /\ [Next]_vars => [Settles]_vars
  BY NextSettles
<1>. QED
  BY <1>1, InitIInv, NextIInv, PTL DEF Spec
===============================================================================
