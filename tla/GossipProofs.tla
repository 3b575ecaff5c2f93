------------------------------ MODULE GossipProofs ------------------------------
(***************************************************************************)
(* Proofs about GossipSubscription and GossipHook, for any number of       *)
(* broadcasts and events.                                                  *)
(*                                                                         *)
(* The start task is what carries the id across the bridge: it is there    *)
(* once, after the registry has the subscription, and until it is taken    *)
(* nobody can have removed that entry.  The hook follows `ready` and the   *)
(* two queues; what it has not caught up with is among its continuations.  *)
(***************************************************************************)
EXTENDS GossipHook, FiniteSetTheorems, FunctionTheorems, SequenceTheorems, TLAPS

Tasks == {Task(t) : t \in {"start", "error", "event"}} \cup
         {SentTask(b, how) : b \in Broadcasts, how \in {"ok", "failed"}}

On(b, e) == \E i \in 1..Len(b) : b[i] = e
Once(b, e) == \A i, j \in 1..Len(b) : b[i] = e /\ b[j] = e => i = j

IsSent(e) == e.type = "sent"
SentOnce(b) ==
  \A i, j \in 1..Len(b) : IsSent(b[i]) /\ IsSent(b[j]) /\ b[i].call = b[j].call => i = j

\* A broadcast is at one place, its native task or its answer.
SentInv ==
  /\ \A i \in 1..Len(bridge) : IsSent(bridge[i]) =>
       call[bridge[i].call] = "native" /\ bridge[i].call \notin sending
  /\ SentOnce(bridge)

\* The id is on the bridge once, before JavaScript has it; a failed join has none.
StartInv ==
  /\ registered # "not_yet" => join = "joined"
  /\ On(bridge, Task("start")) => registered = "yes" /\ ~subIdKnown
  /\ Once(bridge, Task("start"))
  /\ subIdKnown => registered # "not_yet"
  /\ registered = "removed" => subIdKnown
  /\ On(bridge, Task("error")) => join = "failed"

\* What `ready`, the id and the queues say of one another.
ReadyInv ==
  /\ ready = "pending" <=> ~disposed /\ ~subIdKnown
  /\ ready = "resolved" => subIdKnown
  /\ ready = "rejected" => disposed
  /\ subIdKnown => IF disposed THEN registered = "removed"
                               ELSE registered = "yes" /\ ready = "resolved"
  /\ \A b \in Broadcasts : call[b] = "waiting" => ready = "pending"
  /\ messages = "open" => ~disposed
  /\ messages = "error" => ready = "rejected"

\* An event is heard, on its way, or was not wanted.
EventsInv ==
  /\ heard + Cardinality(EventsOn(bridge)) <= events
  /\ messages = "open" => heard + Cardinality(EventsOn(bridge)) = events

IInv ==
  /\ TypeOK
  /\ SentInv
  /\ StartInv
  /\ ReadyInv
  /\ EventsInv

\* The hook.  What is due follows from how things stand, and what the status does
\* not say yet is due.
DueInv ==
  /\ due \subseteq {"joined", "rejected", "event", "loopEnds", "loopThrows"}
  /\ "joined" \in due => ready = "resolved"
  /\ "rejected" \in due => ready = "rejected"
  /\ "event" \in due => heard > 0
  /\ "loopEnds" \in due => messages = "done"
  /\ "loopThrows" \in due => messages = "error"
  /\ disposed => "joined" \notin due /\ "event" \notin due

StatusInv ==
  /\ active => hooked
  /\ hooked /\ ~disposed => messages = "open"
  /\ active =>
       /\ status \in {"joining", "joined", "error", "closed"}
       /\ status = "joined" => subIdKnown \/ heard > 0
       /\ status = "error" => ready = "rejected"
       /\ ready = "rejected" => "rejected" \in due \/ status = "error"
       /\ messages = "error" => "loopThrows" \in due \/ status = "error"
       /\ joinedOnce => status # "joining"
       /\ status = "closed" => disposed
       /\ ready = "resolved" /\ ~disposed => "joined" \in due \/ status = "joined"
       /\ disposed /\ messages = "done" => "loopEnds" \in due \/ ~subscriptionRef
       /\ disposed /\ ready = "resolved" => "loopEnds" \in due \/ status = "closed"

HookIInv ==
  /\ IInv
  /\ DueInv
  /\ StatusInv
-------------------------------------------------------------------------------
(* The bridge as a sequence.                                                 *)

\* TypeOK, a conjunct per variable.
Typed ==
  /\ disposed \in BOOLEAN /\ subIdKnown \in BOOLEAN
  /\ ready \in {"pending", "resolved", "rejected"}
  /\ messages \in {"open", "done", "error"}
  /\ heard \in 0..events /\ events \in 0..MaxEvents
  /\ call \in [Broadcasts -> {"none", "waiting", "native", "ok", "failed"}]
  /\ bridge \in Seq(Tasks)
  /\ join \in {"joining", "joined", "failed"}
  /\ registered \in {"not_yet", "yes", "removed"}
  /\ forwarder \in {"none", "running", "aborting", "gone"}
  /\ sending \subseteq Broadcasts /\ \A b \in sending : call[b] = "native"

LEMMA TypedIsTypeOK == TypeOK <=> Typed
<1>1. <<disposed, subIdKnown>> \in BOOLEAN \X BOOLEAN
        <=> disposed \in BOOLEAN /\ subIdKnown \in BOOLEAN
  OBVIOUS
<1>2. sending \subseteq {b \in Broadcasts : call[b] = "native"}
        <=> sending \subseteq Broadcasts /\ \A b \in sending : call[b] = "native"
  OBVIOUS
<1>3. bridge \in Seq(Tasks) <=>
        bridge \in Seq({Task(t) : t \in {"start", "error", "event"}} \cup
                       {SentTask(b, how) : b \in Broadcasts, how \in {"ok", "failed"}})
  BY DEF Tasks
<1>4. ASSUME TypeOK PROVE Typed
  BY <1>1, <1>2, <1>4 DEF TypeOK, Typed, Tasks
<1>5. ASSUME Typed PROVE TypeOK
  BY <1>1, <1>2, <1>5 DEF TypeOK, Typed, Tasks
<1>6. QED
  BY <1>4, <1>5

LEMMA TaskFields ==
  /\ Task("start") \in Tasks /\ Task("error") \in Tasks /\ Task("event") \in Tasks
  /\ \A t \in {"start", "error", "event"} : ~IsSent(Task(t)) /\ Task(t).type = t
  /\ \A b \in Broadcasts, how \in {"ok", "failed"} :
       /\ SentTask(b, how) \in Tasks /\ IsSent(SentTask(b, how))
       /\ SentTask(b, how).call = b /\ SentTask(b, how).how = how
  /\ \A m \in Tasks :
       /\ IsSent(m) => m.call \in Broadcasts /\ m.how \in {"ok", "failed"}
       /\ \A t \in {"start", "error", "event"} : m.type = t <=> m = Task(t)
<1>1. ASSUME NEW t \in {"start", "error", "event"}
      PROVE  Task(t) \in Tasks /\ ~IsSent(Task(t)) /\ Task(t).type = t
  <2>1. Task(t) \in Tasks
    BY DEF Tasks
  <2>2. QED
    BY <2>1 DEF Task, IsSent
<1>2. ASSUME NEW b \in Broadcasts, NEW how \in {"ok", "failed"}
      PROVE  /\ SentTask(b, how) \in Tasks /\ IsSent(SentTask(b, how))
             /\ SentTask(b, how).call = b /\ SentTask(b, how).how = how
  <2>1. SentTask(b, how) \in Tasks
    BY DEF Tasks
  <2>2. QED
    BY <2>1 DEF SentTask, IsSent
<1>3. ASSUME NEW m \in Tasks
      PROVE  /\ IsSent(m) => m.call \in Broadcasts /\ m.how \in {"ok", "failed"}
             /\ \A t \in {"start", "error", "event"} : m.type = t <=> m = Task(t)
  <2>1. ASSUME NEW t \in {"start", "error", "event"}, m = Task(t)
        PROVE  ~IsSent(m) /\ \A u \in {"start", "error", "event"} : m.type = u <=> m = Task(u)
    BY <2>1, <1>1 DEF Task
  <2>2. ASSUME NEW b \in Broadcasts, NEW how \in {"ok", "failed"}, m = SentTask(b, how)
        PROVE  /\ m.call \in Broadcasts /\ m.how \in {"ok", "failed"}
               /\ \A u \in {"start", "error", "event"} : m.type # u /\ m # Task(u)
    <3>1. m.type = "sent"
      BY <2>2, <1>2 DEF IsSent
    <3>2. QED
      BY <2>2, <3>1, <1>1, <1>2
  <2>3. QED
    BY <2>1, <2>2 DEF Tasks
<1>4. QED
  BY <1>1, <1>2, <1>3

LEMMA AppendFacts ==
  ASSUME NEW S, NEW b \in Seq(S), NEW e \in S
  PROVE  /\ Append(b, e) \in Seq(S) /\ Len(Append(b, e)) = Len(b) + 1 /\ Len(b) \in Nat
         /\ \A i \in 1..Len(b) : Append(b, e)[i] = b[i]
         /\ Append(b, e)[Len(b) + 1] = e
         /\ \A i : i \in 1..Len(Append(b, e)) <=> i \in 1..Len(b) \/ i = Len(b) + 1
BY AppendProperties, LenProperties

LEMMA TailFacts ==
  ASSUME NEW S, NEW b \in Seq(S), b # << >>
  PROVE  /\ Tail(b) \in Seq(S) /\ Len(Tail(b)) = Len(b) - 1 /\ Len(b) \in Nat
         /\ Head(b) \in S /\ Head(b) = b[1] /\ 1 \in 1..Len(b)
         /\ \A i \in 1..Len(Tail(b)) :
              i \in Nat /\ i + 1 \in 1..Len(b) /\ i + 1 # 1 /\ Tail(b)[i] = b[i + 1]
         /\ \A i \in 1..Len(b) :
              i = 1 \/ (i - 1 \in 1..Len(Tail(b)) /\ Tail(b)[i - 1] = b[i])
<1> DEFINE p == Tail(b)
<1>1. /\ p \in Seq(S) /\ Len(p) = Len(b) - 1 /\ Len(b) \in Nat
      /\ \A i \in 1..Len(p) : p[i] = b[i + 1]
      /\ Head(b) = b[1] /\ Head(b) \in S /\ 1 \in 1..Len(b)
  BY HeadTailProperties, LenProperties, EmptySeq
<1> HIDE DEF p
<1>2. /\ \A i \in 1..Len(p) : i \in Nat /\ i + 1 \in 1..Len(b) /\ i + 1 # 1
      /\ \A i \in 1..Len(b) : i = 1 \/ (i - 1 \in 1..Len(p) /\ p[i - 1] = b[i])
  BY <1>1
<1>3. QED
  BY <1>1, <1>2 DEF p

LEMMA EventCount ==
  ASSUME NEW b \in Seq(Tasks)
  PROVE  IsFiniteSet(EventsOn(b)) /\ Cardinality(EventsOn(b)) \in Nat
<1>1. EventsOn(b) \subseteq 1..Len(b) /\ Len(b) \in Nat
  BY LenProperties DEF EventsOn
<1>2. IsFiniteSet(1..Len(b))
  BY <1>1, FS_Interval
<1>3. QED
  BY <1>1, <1>2, FS_Subset, FS_CardinalityType

\* A task is posted.
LEMMA Posted ==
  ASSUME NEW b \in Seq(Tasks), NEW e \in Tasks
  PROVE  /\ \A x : On(Append(b, e), x) <=> On(b, x) \/ e = x
         /\ \A x : Once(b, x) /\ (e = x => ~On(b, x)) => Once(Append(b, e), x)
         /\ SentOnce(b) /\ (IsSent(e) => \A i \in 1..Len(b) : IsSent(b[i]) => b[i].call # e.call)
              => SentOnce(Append(b, e))
         /\ e # Task("event") => EventsOn(Append(b, e)) = EventsOn(b)
         /\ e = Task("event") =>
              Cardinality(EventsOn(Append(b, e))) = Cardinality(EventsOn(b)) + 1
<1> DEFINE p == Append(b, e)
<1>1. /\ Len(p) = Len(b) + 1 /\ Len(b) \in Nat
      /\ \A i \in 1..Len(b) : p[i] = b[i]
      /\ p[Len(b) + 1] = e
      /\ \A i : i \in 1..Len(p) <=> i \in 1..Len(b) \/ i = Len(b) + 1
      /\ p \in Seq(Tasks)
  BY AppendFacts
<1> HIDE DEF p
<1>2. \A x : On(p, x) <=> On(b, x) \/ e = x
  BY <1>1 DEF On
<1>3. ASSUME NEW x, Once(b, x), e = x => ~On(b, x)
      PROVE  Once(p, x)
  BY <1>1, <1>3 DEF On, Once
<1>4. ASSUME SentOnce(b), IsSent(e) => \A i \in 1..Len(b) : IsSent(b[i]) => b[i].call # e.call
      PROVE  SentOnce(p)
  <2> SUFFICES ASSUME NEW i \in 1..Len(p), NEW j \in 1..Len(p),
                      IsSent(p[i]), IsSent(p[j]), p[i].call = p[j].call
               PROVE  i = j
    BY DEF SentOnce
  <2>1. CASE i \in 1..Len(b) /\ j \in 1..Len(b)
    BY <2>1, <1>1, <1>4 DEF SentOnce
  <2>2. CASE i = Len(b) + 1 /\ j = Len(b) + 1
    BY <2>2
  <2>3. CASE i = Len(b) + 1 /\ j \in 1..Len(b)
    BY <2>3, <1>1, <1>4
  <2>4. CASE j = Len(b) + 1 /\ i \in 1..Len(b)
    BY <2>4, <1>1, <1>4
  <2>5. QED
    BY <2>1, <2>2, <2>3, <2>4, <1>1
<1>5. DOMAIN p = 1..Len(p) /\ DOMAIN b = 1..Len(b)
  BY <1>1, LenProperties
<1>6. ASSUME e # Task("event")
      PROVE  EventsOn(p) = EventsOn(b)
  BY <1>1, <1>5, <1>6 DEF EventsOn
<1>7. ASSUME e = Task("event")
      PROVE  Cardinality(EventsOn(p)) = Cardinality(EventsOn(b)) + 1
  <2>1. EventsOn(p) = EventsOn(b) \cup {Len(b) + 1}
    BY <1>1, <1>5, <1>7 DEF EventsOn
  <2>2. Len(b) + 1 \notin EventsOn(b)
    BY <1>1, <1>5 DEF EventsOn
  <2>3. QED
    BY <2>1, <2>2, EventCount, FS_AddElement
<1>8. QED
  BY <1>2, <1>3, <1>4, <1>6, <1>7 DEF p

\* A task is taken.
LEMMA TakenOff ==
  ASSUME NEW b \in Seq(Tasks), b # << >>
  PROVE  /\ Tail(b) \in Seq(Tasks) /\ Head(b) \in Tasks /\ Head(b) = b[1] /\ 1 \in 1..Len(b)
         /\ \A i \in 1..Len(Tail(b)) : i + 1 \in 1..Len(b) /\ i + 1 # 1 /\ Tail(b)[i] = b[i + 1]
         /\ \A x : On(Tail(b), x) => On(b, x)
         /\ On(b, Head(b))
         /\ \A x : Once(b, x) => Once(Tail(b), x)
         /\ \A x : Once(b, x) /\ Head(b) = x => ~On(Tail(b), x)
         /\ SentOnce(b) => SentOnce(Tail(b))
         /\ Head(b) # Task("event") =>
              Cardinality(EventsOn(Tail(b))) = Cardinality(EventsOn(b))
         /\ Head(b) = Task("event") =>
              Cardinality(EventsOn(Tail(b))) = Cardinality(EventsOn(b)) - 1
<1> DEFINE p == Tail(b)
<1>1. /\ p \in Seq(Tasks) /\ Len(p) = Len(b) - 1 /\ Len(b) \in Nat
      /\ Head(b) \in Tasks /\ Head(b) = b[1] /\ 1 \in 1..Len(b)
      /\ \A i \in 1..Len(p) : i \in Nat /\ i + 1 \in 1..Len(b) /\ i + 1 # 1 /\ p[i] = b[i + 1]
      /\ \A i \in 1..Len(b) : i = 1 \/ (i - 1 \in 1..Len(p) /\ p[i - 1] = b[i])
  BY TailFacts
<1> HIDE DEF p
<1>2. (\A x : On(p, x) => On(b, x)) /\ On(b, Head(b))
  BY <1>1 DEF On
<1>3. ASSUME NEW x, Once(b, x)
      PROVE  Once(p, x)
  <2> SUFFICES ASSUME NEW i \in 1..Len(p), NEW j \in 1..Len(p), p[i] = x, p[j] = x
               PROVE  i = j
    BY DEF Once
  <2>1. i + 1 = j + 1 /\ i \in Nat /\ j \in Nat
    BY <1>1, <1>3 DEF Once
  <2>2. QED
    BY <2>1
<1>4. ASSUME NEW x, Once(b, x), Head(b) = x
      PROVE  ~On(p, x)
  BY <1>1, <1>4 DEF Once, On
<1>5. ASSUME SentOnce(b)
      PROVE  SentOnce(p)
  <2> SUFFICES ASSUME NEW i \in 1..Len(p), NEW j \in 1..Len(p),
                      IsSent(p[i]), IsSent(p[j]), p[i].call = p[j].call
               PROVE  i = j
    BY DEF SentOnce
  <2>1. i + 1 = j + 1 /\ i \in Nat /\ j \in Nat
    BY <1>1, <1>5 DEF SentOnce
  <2>2. QED
    BY <2>1
<1>6. Cardinality(EventsOn(p)) = Cardinality(EventsOn(b) \ {1})
  <2> DEFINE S == EventsOn(p)
             T == EventsOn(b) \ {1}
             f == [i \in S |-> i + 1]
  <2>1. DOMAIN p = 1..Len(p) /\ DOMAIN b = 1..Len(b)
    BY <1>1, LenProperties
  <2>2. \A i \in S : i \in Nat /\ i + 1 \in T
    BY <2>1, <1>1 DEF EventsOn
  <2>3. \A j \in T : j \in Nat /\ j - 1 \in S
    BY <2>1, <1>1 DEF EventsOn
  <2> HIDE DEF S, T
  <2>4. f \in [S -> T] /\ \A i \in S : f[i] = i + 1
    BY <2>2
  <2>5. f \in Bijection(S, T)
    <3>1. \A i, j \in S : f[i] = f[j] => i = j
      BY <2>2
    <3>2. \A j \in T : \E i \in S : f[i] = j
      <4>1. ASSUME NEW j \in T
            PROVE  f[j - 1] = j /\ j - 1 \in S
        BY <2>3
      <4>2. QED
        BY <4>1
    <3>3. QED
      BY <2>4, <3>1, <3>2, Fun_IsBij
  <2>6. IsFiniteSet(S)
    BY <1>1, EventCount DEF S
  <2>7. QED
    BY <2>5, <2>6, FS_Bijection DEF ExistsBijection, S, T
<1>7. IsFiniteSet(EventsOn(b)) /\ Cardinality(EventsOn(b)) \in Nat
  BY EventCount
<1>8. 1 \in EventsOn(b) <=> Head(b) = Task("event")
  BY <1>1, LenProperties DEF EventsOn
<1>9. /\ Head(b) # Task("event") => Cardinality(EventsOn(p)) = Cardinality(EventsOn(b))
      /\ Head(b) = Task("event") => Cardinality(EventsOn(p)) = Cardinality(EventsOn(b)) - 1
  BY <1>6, <1>7, <1>8, FS_RemoveElement
<1>10. QED
  BY <1>1, <1>2, <1>3, <1>4, <1>5, <1>9 DEF p
-------------------------------------------------------------------------------
(* The steps of the subscription.                                            *)

LEMMA NextCases ==
  ASSUME [Next]_vars
  PROVE  \/ \E b \in Broadcasts : Broadcast(b)
         \/ Unsubscribe \/ LoopBreaks \/ OnStart \/ OnJoinError \/ OnEvent \/ OnSent
         \/ JoinFails \/ Joins \/ Starts \/ Forwards \/ ReceiverEnds \/ AbortLands
         \/ \E b \in Broadcasts, how \in {"ok", "failed"} : BroadcastCompletes(b, how)
         \/ UNCHANGED vars
BY DEF Next, JsThread, Native

\* When the id comes and nobody has left, the registry still has the subscription.
LEMMA StartFinds ==
  ASSUME Typed, StartInv, OnStart
  PROVE  /\ registered = "yes" /\ ~subIdKnown /\ Head(bridge) = Task("start")
         /\ bridge' = Tail(bridge) /\ bridge # << >>
         /\ subIdKnown' = TRUE
         /\ ~On(Tail(bridge), Task("start"))
         /\ UNCHANGED <<disposed, messages, heard, join, events>>
         /\ \/ /\ disposed
               /\ registered' = "removed" /\ AbortedBy("removed", sending)
               /\ UNCHANGED <<ready, call, sending>>
            \/ /\ ~disposed
               /\ ready' = "resolved" /\ WaitingBecome("native")
               /\ sending' = sending \cup WaitingCalls
               /\ UNCHANGED <<registered, forwarder>>
<1>1. bridge # << >> /\ Head(bridge).type = "start"
  BY DEF OnStart, TakeTask
<1>2. Head(bridge) = Task("start") /\ On(bridge, Task("start"))
  BY <1>1, TakenOff, TaskFields DEF Typed
<1>3. registered = "yes" /\ ~subIdKnown
  BY <1>2 DEF StartInv
<1>4. ~On(Tail(bridge), Task("start"))
  BY <1>1, <1>2, TakenOff DEF StartInv, Typed
<1>5. QED
  BY <1>1, <1>2, <1>3, <1>4 DEF OnStart, GossipUnsubscribe, GossipBroadcast

\* A broadcast finds the subscription, waits for its id, or is told that it is gone.
LEMMA BroadcastCases ==
  ASSUME Typed, NEW b \in Broadcasts, Broadcast(b)
  PROVE  /\ call[b] = "none"
         /\ UNCHANGED <<disposed, subIdKnown, ready, messages, heard, join, registered,
                        forwarder, events>>
         /\ \/ /\ subIdKnown /\ registered = "yes"
               /\ call' = [call EXCEPT ![b] = "native"]
               /\ sending' = sending \cup {b} /\ bridge' = bridge
            \/ /\ subIdKnown
               /\ call' = [call EXCEPT ![b] = "native"]
               /\ sending' = sending /\ bridge' = Append(bridge, SentTask(b, "failed"))
            \/ /\ ~subIdKnown
               /\ call' = [call EXCEPT ![b] = IF ready = "rejected" THEN "failed" ELSE "waiting"]
               /\ UNCHANGED <<bridge, sending>>
<1>1. Cardinality({b}) = 1
  BY FS_Singleton
<1>2. SetToSeq({b})[1] = b
  <2> DEFINE f == [i \in 1..1 |-> b]
  <2>1. f \in [1..1 -> {b}] /\ IsInjective(f)
    BY DEF IsInjective
  <2> HIDE DEF f
  <2>2. SetToSeq({b}) \in [1..1 -> {b}]
    BY <1>1, <2>1 DEF SetToSeq
  <2>3. QED
    BY <2>2
<1>3. bridge \o [i \in 1..1 |-> SentTask(b, "failed")] = Append(bridge, SentTask(b, "failed"))
  <2>1. SentTask(b, "failed") \in Tasks
    BY TaskFields
  <2>2. QED
    BY <2>1 DEF Typed
<1>4. [i \in 1..Cardinality({b}) |-> SentTask(SetToSeq({b})[i], "failed")]
        = [i \in 1..1 |-> SentTask(b, "failed")]
  BY <1>1, <1>2
<1>5. QED
  BY <1>3, <1>4 DEF Broadcast, GossipBroadcast

LEMMA WaitingMove ==
  ASSUME Typed, NEW state \in {"native", "failed"}, WaitingBecome(state)
  PROVE  /\ call' \in [Broadcasts -> {"none", "waiting", "native", "ok", "failed"}]
         /\ \A b \in Broadcasts : call'[b] = IF call[b] = "waiting" THEN state ELSE call[b]
         /\ \A b \in WaitingCalls : b \in Broadcasts /\ call[b] = "waiting"
BY DEF WaitingBecome, WaitingCalls, Typed

\* The task taken, when it is a plain one.
LEMMA TakesPlain ==
  ASSUME Typed, NEW t \in {"start", "error", "event"}, TakeTask(t)
  PROVE  bridge # << >> /\ Head(bridge) = Task(t) /\ On(bridge, Task(t))
<1>1. bridge # << >> /\ Head(bridge).type = t
  BY DEF TakeTask
<1>2. QED
  BY <1>1, TakenOff, TaskFields DEF Typed

LEMMA TakesSent ==
  ASSUME Typed, SentInv, OnSent
  PROVE  /\ bridge # << >> /\ IsSent(Head(bridge)) /\ Head(bridge) = bridge[1]
         /\ Head(bridge).call \in Broadcasts /\ Head(bridge).how \in {"ok", "failed"}
         /\ call[Head(bridge).call] = "native" /\ Head(bridge).call \notin sending
<1>1. bridge # << >> /\ IsSent(Head(bridge))
  BY DEF OnSent, TakeTask, IsSent
<1>2. Head(bridge) \in Tasks /\ Head(bridge) = bridge[1] /\ 1 \in 1..Len(bridge)
  BY <1>1, TakenOff DEF Typed
<1>3. QED
  BY <1>1, <1>2, TaskFields DEF SentInv

LEMMA TypeStep == IInv /\ [Next]_vars => Typed'
<1> SUFFICES ASSUME IInv, [Next]_vars PROVE Typed'
  OBVIOUS
<1>T. Typed /\ SentInv /\ StartInv /\ ReadyInv /\ EventsInv
  BY TypedIsTypeOK DEF IInv
<1>P. \A m \in Tasks : Append(bridge, m) \in Seq(Tasks)
  BY <1>T, AppendFacts DEF Typed
<1>Q. bridge # << >> => Tail(bridge) \in Seq(Tasks)
  BY <1>T, TakenOff DEF Typed
<1>1. ASSUME NEW b \in Broadcasts, Broadcast(b)
      PROVE  Typed'
  <2>1. SentTask(b, "failed") \in Tasks
    BY TaskFields
  <2>2. call' \in [Broadcasts -> {"none", "waiting", "native", "ok", "failed"}]
    BY <1>1, <1>T, BroadcastCases DEF Typed
  <2>3. bridge' \in Seq(Tasks)
    BY <1>1, <2>1, <1>P, <1>T, BroadcastCases DEF Typed
  <2>4. sending' \subseteq Broadcasts /\ \A c \in sending' : call'[c] = "native"
    BY <1>1, <1>T, BroadcastCases DEF Typed
  <2>5. QED
    BY <1>1, <2>2, <2>3, <2>4, <1>T, BroadcastCases DEF Typed
<1>2. CASE Unsubscribe
  <2>1. disposed' \in BOOLEAN /\ messages' \in {"open", "done", "error"}
    BY <1>2, <1>T DEF Unsubscribe, Dispose, Typed
  <2>2. UNCHANGED <<subIdKnown, heard, bridge, join, sending, events>>
    BY <1>2 DEF Unsubscribe
  <2>3. CASE subIdKnown /\ GossipUnsubscribe /\ UNCHANGED <<ready, call>>
    BY <2>1, <2>2, <2>3, <1>T DEF GossipUnsubscribe, AbortedBy, Typed
  <2>4. CASE ~subIdKnown /\ RejectReady /\ UNCHANGED <<registered, forwarder>>
    <3>1. /\ call' \in [Broadcasts -> {"none", "waiting", "native", "ok", "failed"}]
          /\ \A b \in sending : call'[b] = "native"
      BY <2>4, <1>T, WaitingMove DEF RejectReady, Typed
    <3>2. QED
      BY <2>1, <2>2, <2>4, <3>1, <1>T DEF RejectReady, Typed
  <2>5. QED
    BY <1>2, <2>3, <2>4 DEF Unsubscribe
<1>3. CASE LoopBreaks
  BY <1>3, <1>T DEF LoopBreaks, nativeVars, Typed
<1>4. CASE OnStart
  <2>1. bridge' \in Seq(Tasks) /\ subIdKnown' \in BOOLEAN
    BY <1>4, <1>T, <1>Q, StartFinds
  <2>2. UNCHANGED <<disposed, messages, heard, join, events>>
    BY <1>4 DEF OnStart
  <2>3. CASE /\ registered' = "removed" /\ AbortedBy("removed", sending)
             /\ UNCHANGED <<ready, call, sending>>
    BY <2>1, <2>2, <2>3, <1>T DEF AbortedBy, Typed
  <2>4. CASE /\ ready' = "resolved" /\ WaitingBecome("native")
             /\ sending' = sending \cup WaitingCalls
             /\ UNCHANGED <<registered, forwarder>>
    <3>1. call' \in [Broadcasts -> {"none", "waiting", "native", "ok", "failed"}]
      BY <2>4, <1>T, WaitingMove
    <3>2. sending' \subseteq Broadcasts /\ \A b \in sending' : call'[b] = "native"
      BY <2>4, <1>T, WaitingMove DEF Typed
    <3>3. QED
      BY <2>1, <2>2, <2>4, <3>1, <3>2, <1>T DEF Typed
  <2>5. QED
    BY <1>4, <2>3, <2>4, <1>T, StartFinds
<1>5. CASE OnJoinError
  <2>1. bridge' \in Seq(Tasks) /\ UNCHANGED <<subIdKnown, heard, nativeVars>>
    BY <1>5, <1>Q DEF OnJoinError, TakeTask
  <2>2. CASE Dispose("error") /\ RejectReady
    <3>1. disposed' \in BOOLEAN /\ messages' \in {"open", "done", "error"}
      BY <2>2, <1>T DEF Dispose, Typed
    <3>2. /\ call' \in [Broadcasts -> {"none", "waiting", "native", "ok", "failed"}]
          /\ \A b \in sending : call'[b] = "native"
      BY <2>2, <1>T, WaitingMove DEF RejectReady, Typed
    <3>3. QED
      BY <2>1, <2>2, <3>1, <3>2, <1>T DEF RejectReady, nativeVars, Typed
  <2>3. CASE UNCHANGED <<disposed, messages, ready, call>>
    BY <2>1, <2>3, <1>T DEF nativeVars, Typed
  <2>4. QED
    BY <1>5, <2>2, <2>3 DEF OnJoinError
<1>6. CASE OnEvent
  <2>1. bridge # << >> /\ Head(bridge) = Task("event")
    BY <1>6, <1>T, TakesPlain DEF OnEvent
  <2>2. bridge' = Tail(bridge) /\ bridge' \in Seq(Tasks)
    BY <1>6, <2>1, <1>Q DEF OnEvent
  <2>3. heard + 1 <= events
    <3>1. Cardinality(EventsOn(Tail(bridge))) = Cardinality(EventsOn(bridge)) - 1
      BY <2>1, <1>T, TakenOff DEF Typed
    <3>2. /\ Cardinality(EventsOn(Tail(bridge))) \in Nat
          /\ Cardinality(EventsOn(bridge)) \in Nat
      BY <2>2, <1>T, EventCount DEF Typed
    <3>3. QED
      BY <3>1, <3>2, <1>T DEF EventsInv, Typed
  <2>4. heard' \in 0..events
    BY <1>6, <2>3, <1>T DEF OnEvent, Typed
  <2>5. QED
    BY <1>6, <2>2, <2>4, <1>T DEF OnEvent, nativeVars, Typed
<1>7. CASE OnSent
  <2>1. bridge' \in Seq(Tasks)
    BY <1>7, <1>Q DEF OnSent, TakeTask
  <2>2. /\ call' \in [Broadcasts -> {"none", "waiting", "native", "ok", "failed"}]
        /\ \A b \in sending : call'[b] = "native"
    BY <1>7, <1>T, TakesSent DEF OnSent, Typed
  <2>3. QED
    BY <1>7, <2>1, <2>2, <1>T DEF OnSent, nativeVars, Typed
<1>8. CASE JoinFails
  <2>1. bridge' \in Seq(Tasks)
    BY <1>8, <1>P, TaskFields DEF JoinFails
  <2>2. QED
    BY <1>8, <2>1, <1>T DEF JoinFails, jsVars, Typed
<1>9. CASE Starts
  <2>1. bridge' \in Seq(Tasks)
    BY <1>9, <1>P, TaskFields DEF Starts
  <2>2. QED
    BY <1>9, <2>1, <1>T DEF Starts, jsVars, Typed
<1>10. CASE Forwards
  <2>1. bridge' \in Seq(Tasks)
    BY <1>10, <1>P, TaskFields DEF Forwards
  <2>2. events' \in 0..MaxEvents /\ heard \in 0..events'
    BY <1>10, <1>T, BoundAssumption DEF Forwards, Typed
  <2>3. QED
    BY <1>10, <2>1, <2>2, <1>T DEF Forwards, jsVars, Typed
<1>11. CASE Joins \/ ReceiverEnds \/ AbortLands \/ UNCHANGED vars
  BY <1>11, <1>T DEF Joins, ReceiverEnds, AbortLands, vars, jsVars, nativeVars, Typed
<1>12. ASSUME NEW b \in Broadcasts, NEW how \in {"ok", "failed"}, BroadcastCompletes(b, how)
       PROVE  Typed'
  <2>1. bridge' \in Seq(Tasks)
    BY <1>12, <1>P, TaskFields DEF BroadcastCompletes
  <2>2. forwarder' \in {"none", "running", "aborting", "gone"}
    BY <1>12, <1>T DEF BroadcastCompletes, AbortedBy, Typed
  <2>3. QED
    BY <1>12, <2>1, <2>2, <1>T DEF BroadcastCompletes, jsVars, Typed
<1>13. QED
  BY <1>1, <1>2, <1>3, <1>4, <1>5, <1>6, <1>7, <1>8, <1>9, <1>10, <1>11, <1>12, NextCases

LEMMA SentStep == IInv /\ [Next]_vars => SentInv'
<1> SUFFICES ASSUME IInv, [Next]_vars PROVE SentInv'
  OBVIOUS
<1>T. Typed /\ SentInv
  BY TypedIsTypeOK DEF IInv
<1>B. \A i \in 1..Len(bridge) : IsSent(bridge[i]) => bridge[i].call \in Broadcasts
  <2>1. \A i \in 1..Len(bridge) : bridge[i] \in Tasks
    BY <1>T, ElementOfSeq DEF Typed
  <2>2. QED
    BY <2>1, TaskFields
\* What was at its native task may have been joined by others, but not by what is answered.
<1>U. ASSUME bridge' = bridge,
             \A b \in Broadcasts : call[b] = "native" /\ b \notin sending =>
               call'[b] = "native" /\ b \notin sending'
      PROVE  SentInv'
  BY <1>U, <1>B, <1>T DEF SentInv, SentOnce
<1>A. ASSUME NEW m \in Tasks, ~IsSent(m), bridge' = Append(bridge, m), UNCHANGED <<call, sending>>
      PROVE  SentInv'
  <2>1. /\ Len(bridge) \in Nat
        /\ \A i \in 1..Len(bridge) : bridge'[i] = bridge[i]
        /\ bridge'[Len(bridge) + 1] = m
        /\ \A i : i \in 1..Len(bridge') <=> i \in 1..Len(bridge) \/ i = Len(bridge) + 1
    BY <1>A, <1>T, AppendFacts DEF Typed
  <2>2. SentOnce(bridge')
    BY <1>A, <1>T, Posted DEF SentInv, Typed
  <2>3. QED
    BY <2>1, <2>2, <1>A, <1>T DEF SentInv
\* An answer is posted.
<1>S. ASSUME NEW b \in Broadcasts, NEW how \in {"ok", "failed"},
             bridge' = Append(bridge, SentTask(b, how)),
             call'[b] = "native", b \notin sending',
             call[b] = "none" \/ b \in sending,
             \A c \in Broadcasts \ {b} : call'[c] = call[c] /\ (c \in sending' <=> c \in sending)
      PROVE  SentInv'
  <2>1. /\ Len(bridge) \in Nat
        /\ \A i \in 1..Len(bridge) : bridge'[i] = bridge[i]
        /\ bridge'[Len(bridge) + 1] = SentTask(b, how)
        /\ \A i : i \in 1..Len(bridge') <=> i \in 1..Len(bridge) \/ i = Len(bridge) + 1
        /\ SentTask(b, how) \in Tasks /\ SentTask(b, how).call = b
    BY <1>S, <1>T, AppendFacts, TaskFields DEF Typed
  <2>2. \A i \in 1..Len(bridge) : IsSent(bridge[i]) => bridge[i].call # b
    BY <1>S, <1>T DEF SentInv
  <2>3. SentOnce(bridge')
    BY <1>S, <2>1, <2>2, <1>T, Posted DEF SentInv, Typed
  <2>4. \A i \in 1..Len(bridge') : IsSent(bridge'[i]) =>
          call'[bridge'[i].call] = "native" /\ bridge'[i].call \notin sending'
    BY <1>S, <2>1, <2>2, <1>B, <1>T DEF SentInv
  <2>5. QED
    BY <2>3, <2>4 DEF SentInv
\* A task is taken.
<1>K. ASSUME bridge # << >>, bridge' = Tail(bridge),
             \A b \in Broadcasts : call[b] = "native" /\ b \notin sending =>
               (call'[b] = "native" /\ b \notin sending') \/
               (IsSent(bridge[1]) /\ bridge[1].call = b)
      PROVE  SentInv'
  <2>1. /\ 1 \in 1..Len(bridge)
        /\ \A i \in 1..Len(bridge') : i + 1 \in 1..Len(bridge) /\ i + 1 # 1 /\ bridge'[i] = bridge[i + 1]
        /\ SentOnce(bridge')
    BY <1>K, <1>T, TakenOff DEF SentInv, Typed
  <2>2. ASSUME NEW i \in 1..Len(bridge'), IsSent(bridge'[i])
        PROVE  call'[bridge'[i].call] = "native" /\ bridge'[i].call \notin sending'
    <3>1. /\ i + 1 \in 1..Len(bridge) /\ i + 1 # 1 /\ IsSent(bridge[i + 1])
          /\ bridge'[i].call = bridge[i + 1].call /\ bridge[i + 1].call \in Broadcasts
      BY <2>1, <2>2, <1>B
    <3>2. ~(IsSent(bridge[1]) /\ bridge[1].call = bridge[i + 1].call)
      BY <2>1, <3>1, <1>T DEF SentInv, SentOnce
    <3>3. QED
      BY <3>1, <3>2, <1>K, <1>T DEF SentInv
  <2>3. QED
    BY <2>1, <2>2 DEF SentInv
<1>1. ASSUME NEW b \in Broadcasts, Broadcast(b)
      PROVE  SentInv'
  <2>1. CASE bridge' = bridge
    BY <2>1, <1>1, <1>U, <1>T, BroadcastCases DEF Typed
  <2>2. CASE /\ call' = [call EXCEPT ![b] = "native"] /\ sending' = sending
             /\ bridge' = Append(bridge, SentTask(b, "failed"))
    <3>1. call[b] = "none" /\ b \notin sending
      BY <1>1, <1>T, BroadcastCases DEF Typed
    <3>2. call'[b] = "native" /\ \A c \in Broadcasts \ {b} : call'[c] = call[c]
      BY <2>2, <1>T DEF Typed
    <3>3. QED
      BY <2>2, <3>1, <3>2, <1>S
  <2>3. QED
    BY <1>1, <2>1, <2>2, <1>T, BroadcastCases
<1>2. CASE Unsubscribe
  <2>1. \A b \in Broadcasts : call[b] = "native" => call'[b] = "native"
    BY <1>2, <1>T, WaitingMove DEF Unsubscribe, RejectReady
  <2>2. QED
    BY <1>2, <2>1, <1>U DEF Unsubscribe
<1>3. CASE OnStart
  <2>1. StartInv /\ bridge # << >> /\ bridge' = Tail(bridge)
    BY <1>3, <1>T, StartFinds DEF IInv
  <2>2. CASE UNCHANGED <<call, sending>>
    BY <2>1, <2>2, <1>K
  <2>3. CASE WaitingBecome("native") /\ sending' = sending \cup WaitingCalls
    <3>1. /\ \A b \in Broadcasts : call[b] = "native" => call'[b] = "native"
          /\ \A b \in WaitingCalls : call[b] = "waiting"
      BY <2>3, <1>T, WaitingMove
    <3>2. \A b \in Broadcasts : call[b] = "native" /\ b \notin sending =>
            call'[b] = "native" /\ b \notin sending'
      BY <2>3, <3>1
    <3>3. QED
      BY <2>1, <3>2, <1>K
  <2>4. QED
    BY <1>3, <2>1, <2>2, <2>3, <1>T, StartFinds
<1>4. CASE OnJoinError
  <2>1. \A b \in Broadcasts : call[b] = "native" => call'[b] = "native"
    BY <1>4, <1>T, WaitingMove DEF OnJoinError, RejectReady
  <2>2. QED
    BY <1>4, <2>1, <1>K DEF OnJoinError, TakeTask, nativeVars
<1>5. CASE OnEvent
  BY <1>5, <1>K DEF OnEvent, TakeTask, nativeVars
<1>6. CASE OnSent
  <2> DEFINE c == Head(bridge).call
             how == Head(bridge).how
  <2>1. /\ bridge # << >> /\ bridge' = Tail(bridge) /\ UNCHANGED sending
        /\ call' = [call EXCEPT ![c] = how]
    BY <1>6 DEF OnSent, TakeTask, nativeVars
  <2>2. IsSent(bridge[1]) /\ bridge[1].call = c
    BY <1>6, <1>T, TakesSent
  <2> HIDE DEF c, how
  <2>3. \A b \in Broadcasts : b # c => call'[b] = call[b]
    BY <2>1, <1>T DEF Typed
  <2>4. QED
    BY <2>1, <2>2, <2>3, <1>K
<1>7. CASE JoinFails
  BY <1>7, <1>A, TaskFields DEF JoinFails, jsVars
<1>8. CASE Starts
  BY <1>8, <1>A, TaskFields DEF Starts, jsVars
<1>9. CASE Forwards
  BY <1>9, <1>A, TaskFields DEF Forwards, jsVars
<1>10. CASE LoopBreaks \/ Joins \/ ReceiverEnds \/ AbortLands \/ UNCHANGED vars
  BY <1>10, <1>U DEF LoopBreaks, Joins, ReceiverEnds, AbortLands, vars, jsVars, nativeVars
<1>11. ASSUME NEW b \in Broadcasts, NEW how \in {"ok", "failed"}, BroadcastCompletes(b, how)
       PROVE  SentInv'
  <2>1. /\ b \in sending /\ sending' = sending \ {b} /\ UNCHANGED call
        /\ bridge' = Append(bridge, SentTask(b, how))
    BY <1>11 DEF BroadcastCompletes, jsVars
  <2>2. call[b] = "native"
    BY <2>1, <1>T DEF Typed
  <2>3. QED
    BY <2>1, <2>2, <1>S
<1>12. QED
  BY <1>1, <1>2, <1>3, <1>4, <1>5, <1>6, <1>7, <1>8, <1>9, <1>10, <1>11, NextCases

LEMMA StartStep == IInv /\ [Next]_vars => StartInv'
<1> SUFFICES ASSUME IInv, [Next]_vars PROVE StartInv'
  OBVIOUS
<1>T. Typed /\ StartInv /\ ReadyInv
  BY TypedIsTypeOK DEF IInv
\* What the bridge gains is no start and no error.
<1>U. ASSUME UNCHANGED <<subIdKnown, registered>>,
             join' = join \/ (join' = "joined" /\ join = "joining"),
             \A x \in {Task("start"), Task("error")} :
               /\ On(bridge', x) => On(bridge, x)
               /\ Once(bridge, x) => Once(bridge', x)
      PROVE  StartInv'
  BY <1>U, <1>T DEF StartInv
<1>A. \A m \in Tasks : m # Task("start") /\ m # Task("error") /\ bridge' = Append(bridge, m) =>
        \A x \in {Task("start"), Task("error")} :
          /\ On(bridge', x) => On(bridge, x)
          /\ Once(bridge, x) => Once(bridge', x)
  BY <1>T, Posted DEF Typed
<1>K. bridge # << >> /\ bridge' = Tail(bridge) =>
        \A x \in {Task("start"), Task("error")} :
          /\ On(bridge', x) => On(bridge, x)
          /\ Once(bridge, x) => Once(bridge', x)
  BY <1>T, TakenOff DEF Typed
<1>S. \A b \in Broadcasts, how \in {"ok", "failed"} :
        /\ SentTask(b, how) \in Tasks
        /\ SentTask(b, how) # Task("start") /\ SentTask(b, how) # Task("error")
  BY TaskFields
<1>D. /\ Task("start") # Task("error") /\ Task("event") # Task("start")
      /\ Task("event") # Task("error")
  BY TaskFields
<1>1. ASSUME NEW b \in Broadcasts, Broadcast(b)
      PROVE  StartInv'
  <2>1. CASE bridge' = bridge
    BY <2>1, <1>1, <1>U, <1>T, BroadcastCases
  <2>2. CASE bridge' = Append(bridge, SentTask(b, "failed"))
    BY <2>2, <1>1, <1>S, <1>A, <1>U, <1>T, BroadcastCases
  <2>3. QED
    BY <1>1, <2>1, <2>2, <1>T, BroadcastCases
<1>2. CASE Unsubscribe
  <2>1. UNCHANGED <<subIdKnown, bridge, join>>
    BY <1>2 DEF Unsubscribe
  <2>2. CASE subIdKnown /\ GossipUnsubscribe
    BY <2>1, <2>2, <1>T DEF GossipUnsubscribe, StartInv
  <2>3. CASE UNCHANGED registered
    BY <2>1, <2>3, <1>U
  <2>4. QED
    BY <1>2, <2>2, <2>3 DEF Unsubscribe
<1>3. CASE OnStart
  <2>1. /\ bridge' = Tail(bridge) /\ subIdKnown' /\ registered' \in {"yes", "removed"}
        /\ ~On(bridge', Task("start")) /\ Once(bridge', Task("start"))
        /\ (On(bridge', Task("error")) => On(bridge, Task("error")))
        /\ UNCHANGED join /\ registered = "yes"
    BY <1>3, <1>T, <1>K, StartFinds DEF StartInv
  <2>2. QED
    BY <2>1, <1>T DEF StartInv
<1>4. CASE OnJoinError \/ OnEvent \/ OnSent
  <2>1. bridge # << >> /\ bridge' = Tail(bridge) /\ UNCHANGED <<subIdKnown, registered, join>>
    BY <1>4 DEF OnJoinError, OnEvent, OnSent, TakeTask, nativeVars
  <2>2. QED
    BY <2>1, <1>K, <1>U
<1>5. CASE JoinFails
  <2>1. /\ join = "joining" /\ join' = "failed" /\ bridge' = Append(bridge, Task("error"))
        /\ UNCHANGED <<subIdKnown, registered>>
    BY <1>5 DEF JoinFails, jsVars
  <2>2. /\ On(bridge', Task("start")) => On(bridge, Task("start"))
        /\ Once(bridge, Task("start")) => Once(bridge', Task("start"))
    BY <2>1, <1>D, <1>T, TaskFields, Posted DEF Typed
  <2>3. QED
    BY <2>1, <2>2, <1>T DEF StartInv
<1>6. CASE Starts
  <2>1. /\ join = "joined" /\ registered = "not_yet" /\ registered' = "yes"
        /\ bridge' = Append(bridge, Task("start")) /\ UNCHANGED <<subIdKnown, join>>
    BY <1>6 DEF Starts, jsVars
  <2>2. ~On(bridge, Task("start")) /\ ~subIdKnown
    BY <2>1, <1>T DEF StartInv
  <2>3. /\ On(bridge', Task("error")) => On(bridge, Task("error"))
        /\ Once(bridge, Task("start")) => Once(bridge', Task("start"))
    BY <2>1, <2>2, <1>D, <1>T, TaskFields, Posted DEF Typed
  <2>4. QED
    BY <2>1, <2>2, <2>3, <1>T DEF StartInv
<1>7. CASE Forwards
  BY <1>7, <1>D, <1>A, <1>U, TaskFields DEF Forwards, jsVars
<1>8. CASE Joins
  BY <1>8, <1>U DEF Joins, jsVars
<1>9. CASE LoopBreaks \/ ReceiverEnds \/ AbortLands \/ UNCHANGED vars
  BY <1>9, <1>U DEF LoopBreaks, ReceiverEnds, AbortLands, vars, jsVars, nativeVars
<1>10. ASSUME NEW b \in Broadcasts, NEW how \in {"ok", "failed"}, BroadcastCompletes(b, how)
       PROVE  StartInv'
  BY <1>10, <1>S, <1>A, <1>U DEF BroadcastCompletes, jsVars
<1>11. QED
  BY <1>1, <1>2, <1>3, <1>4, <1>5, <1>6, <1>7, <1>8, <1>9, <1>10, NextCases

LEMMA ReadyStep == IInv /\ [Next]_vars => ReadyInv'
<1> SUFFICES ASSUME IInv, [Next]_vars PROVE ReadyInv'
  OBVIOUS
<1>T. Typed /\ StartInv /\ ReadyInv
  BY TypedIsTypeOK DEF IInv
<1>U. ASSUME UNCHANGED <<disposed, subIdKnown, ready, messages, registered>>,
             \A b \in Broadcasts : call'[b] = "waiting" => call[b] = "waiting"
      PROVE  ReadyInv'
  BY <1>U, <1>T DEF ReadyInv
<1>1. ASSUME NEW b \in Broadcasts, Broadcast(b)
      PROVE  ReadyInv'
  <2>1. UNCHANGED <<disposed, subIdKnown, ready, messages, registered>>
    BY <1>1, <1>T, BroadcastCases
  <2>2. \A c \in Broadcasts : call'[c] = "waiting" => ready = "pending"
    <3>1. ~subIdKnown /\ ready # "rejected" => ready = "pending"
      BY <1>T DEF ReadyInv, Typed
    <3>2. QED
      BY <3>1, <1>1, <1>T, BroadcastCases DEF ReadyInv, Typed
  <2>3. QED
    BY <2>1, <2>2, <1>T DEF ReadyInv
<1>2. CASE Unsubscribe
  <2>1. /\ ~disposed /\ disposed' /\ UNCHANGED subIdKnown
        /\ messages' = IF messages = "open" THEN "done" ELSE messages
    BY <1>2 DEF Unsubscribe, Dispose
  <2>2. CASE subIdKnown /\ GossipUnsubscribe /\ UNCHANGED <<ready, call>>
    BY <2>1, <2>2, <1>T DEF GossipUnsubscribe, ReadyInv
  <2>3. CASE ~subIdKnown /\ RejectReady /\ UNCHANGED <<registered, forwarder>>
    <3>1. \A b \in Broadcasts : call'[b] # "waiting"
      BY <2>3, <1>T, WaitingMove DEF RejectReady
    <3>2. QED
      BY <2>1, <2>3, <3>1, <1>T DEF RejectReady, ReadyInv
  <2>4. QED
    BY <1>2, <2>2, <2>3 DEF Unsubscribe
<1>3. CASE OnStart
  <2>1. /\ registered = "yes" /\ ~subIdKnown /\ subIdKnown' /\ UNCHANGED <<disposed, messages>>
    BY <1>3, <1>T, StartFinds
  <2>2. CASE /\ disposed /\ registered' = "removed" /\ UNCHANGED <<ready, call>>
    BY <2>1, <2>2, <1>T DEF ReadyInv
  <2>3. CASE /\ ~disposed /\ ready' = "resolved" /\ WaitingBecome("native")
             /\ UNCHANGED registered
    <3>1. \A b \in Broadcasts : call'[b] # "waiting"
      BY <2>3, <1>T, WaitingMove
    <3>2. ready = "pending"
      BY <2>1, <2>3, <1>T DEF ReadyInv
    <3>3. QED
      BY <2>1, <2>3, <3>1, <3>2, <1>T DEF ReadyInv
  <2>4. QED
    BY <1>3, <2>2, <2>3, <1>T, StartFinds
<1>4. CASE OnJoinError
  <2>1. join = "failed"
    BY <1>4, <1>T, TakesPlain DEF OnJoinError, StartInv
  <2>2. ~subIdKnown
    BY <2>1, <1>T DEF StartInv
  <2>3. CASE Dispose("error") /\ RejectReady
    <3>1. /\ ~disposed /\ disposed' /\ ready' = "rejected"
          /\ messages' = IF messages = "open" THEN "error" ELSE messages
          /\ \A b \in Broadcasts : call'[b] # "waiting"
      BY <2>3, <1>T, WaitingMove DEF Dispose, RejectReady
    <3>2. UNCHANGED <<subIdKnown, registered>>
      BY <1>4 DEF OnJoinError, nativeVars
    <3>3. QED
      BY <3>1, <3>2, <2>2, <1>T DEF ReadyInv
  <2>4. CASE UNCHANGED <<disposed, messages, ready, call>>
    BY <1>4, <2>4, <1>U DEF OnJoinError, nativeVars
  <2>5. QED
    BY <1>4, <2>3, <2>4 DEF OnJoinError
<1>5. CASE OnEvent
  BY <1>5, <1>U DEF OnEvent, nativeVars
<1>6. CASE OnSent
  <2>1. \A b \in Broadcasts : call'[b] = "waiting" => call[b] = "waiting"
    <3>1. Head(bridge).how # "waiting"
      BY <1>6, <1>T, TakesSent DEF IInv
    <3>2. QED
      BY <1>6, <3>1, <1>T DEF OnSent, Typed
  <2>2. QED
    BY <1>6, <2>1, <1>U DEF OnSent, nativeVars
<1>7. CASE LoopBreaks
  BY <1>7, <1>T DEF LoopBreaks, nativeVars, ReadyInv
<1>8. CASE Starts
  BY <1>8, <1>T DEF Starts, jsVars, StartInv, ReadyInv
<1>9. CASE JoinFails \/ Joins \/ Forwards \/ ReceiverEnds \/ AbortLands \/ UNCHANGED vars
  BY <1>9, <1>U
  DEF JoinFails, Joins, Forwards, ReceiverEnds, AbortLands, vars, jsVars, nativeVars
<1>10. CASE \E b \in Broadcasts, how \in {"ok", "failed"} : BroadcastCompletes(b, how)
  BY <1>10, <1>U DEF BroadcastCompletes, jsVars
<1>11. QED
  BY <1>1, <1>2, <1>3, <1>4, <1>5, <1>6, <1>7, <1>8, <1>9, <1>10, NextCases

LEMMA EventsStep == IInv /\ [Next]_vars => EventsInv'
<1> SUFFICES ASSUME IInv, [Next]_vars PROVE EventsInv'
  OBVIOUS
<1>T. Typed /\ StartInv /\ ReadyInv /\ EventsInv
  BY TypedIsTypeOK DEF IInv
<1>N. /\ Cardinality(EventsOn(bridge)) \in Nat /\ heard \in Nat /\ events \in Nat
  BY <1>T, EventCount DEF Typed
<1>U. ASSUME UNCHANGED <<heard, events>>, messages' = "open" => messages = "open",
             Cardinality(EventsOn(bridge')) = Cardinality(EventsOn(bridge))
      PROVE  EventsInv'
  BY <1>U, <1>T DEF EventsInv
<1>A. ASSUME NEW m \in Tasks, m # Task("event"), bridge' = Append(bridge, m),
             UNCHANGED <<heard, events, messages>>
      PROVE  EventsInv'
  <2>1. EventsOn(bridge') = EventsOn(bridge)
    BY <1>A, <1>T, Posted DEF Typed
  <2>2. QED
    BY <1>A, <2>1, <1>U
<1>D. /\ Task("start") # Task("event") /\ Task("error") # Task("event")
      /\ \A b \in Broadcasts, how \in {"ok", "failed"} : SentTask(b, how) # Task("event")
      /\ ~IsSent(Task("event"))
  BY TaskFields
<1>1. ASSUME NEW b \in Broadcasts, Broadcast(b)
      PROVE  EventsInv'
  <2>1. CASE bridge' = bridge
    BY <2>1, <1>1, <1>U, <1>T, BroadcastCases
  <2>2. CASE bridge' = Append(bridge, SentTask(b, "failed"))
    BY <2>2, <1>1, <1>D, <1>A, <1>T, BroadcastCases, TaskFields
  <2>3. QED
    BY <1>1, <2>1, <2>2, <1>T, BroadcastCases
<1>2. CASE Unsubscribe \/ LoopBreaks
  BY <1>2, <1>U DEF Unsubscribe, LoopBreaks, Dispose, nativeVars
<1>3. CASE OnStart
  <2>1. Head(bridge) # Task("event") /\ bridge # << >> /\ bridge' = Tail(bridge)
    BY <1>3, <1>T, <1>D, StartFinds
  <2>2. QED
    BY <1>3, <2>1, <1>U, <1>T, TakenOff DEF OnStart, Typed
<1>4. CASE OnJoinError
  <2>1. Head(bridge) # Task("event") /\ bridge # << >> /\ bridge' = Tail(bridge)
    BY <1>4, <1>T, <1>D, TakesPlain DEF OnJoinError
  <2>2. messages' = "open" => messages = "open"
    BY <1>4, <1>T DEF OnJoinError, Dispose
  <2>3. UNCHANGED <<heard, events>>
    BY <1>4 DEF OnJoinError, nativeVars
  <2>4. QED
    BY <2>1, <2>2, <2>3, <1>U, <1>T, TakenOff DEF Typed
<1>5. CASE OnEvent
  <2>1. Head(bridge) = Task("event") /\ bridge # << >> /\ bridge' = Tail(bridge)
    BY <1>5, <1>T, TakesPlain DEF OnEvent
  <2>2. Cardinality(EventsOn(bridge')) = Cardinality(EventsOn(bridge)) - 1
    BY <2>1, <1>T, TakenOff DEF Typed
  <2>3. /\ heard' = IF messages = "open" THEN heard + 1 ELSE heard
        /\ UNCHANGED <<messages, events>>
    BY <1>5 DEF OnEvent, nativeVars
  <2>4. QED
    BY <2>2, <2>3, <1>N, <1>T DEF EventsInv
<1>6. CASE OnSent
  <2>1. Head(bridge) # Task("event") /\ bridge # << >> /\ bridge' = Tail(bridge)
    BY <1>6, <1>D DEF OnSent, TakeTask, IsSent
  <2>2. QED
    BY <1>6, <2>1, <1>U, <1>T, TakenOff DEF OnSent, nativeVars, Typed
<1>7. CASE JoinFails \/ Starts
  BY <1>7, <1>A, <1>D, TaskFields DEF JoinFails, Starts, jsVars
<1>8. CASE Forwards
  <2>1. bridge' = Append(bridge, Task("event")) /\ events' = events + 1
        /\ UNCHANGED <<heard, messages>>
    BY <1>8 DEF Forwards, jsVars
  <2>2. Cardinality(EventsOn(bridge')) = Cardinality(EventsOn(bridge)) + 1
    BY <2>1, <1>T, Posted, TaskFields DEF Typed
  <2>3. QED
    BY <2>1, <2>2, <1>N, <1>T DEF EventsInv
<1>9. CASE Joins \/ ReceiverEnds \/ AbortLands \/ UNCHANGED vars
  BY <1>9, <1>U DEF Joins, ReceiverEnds, AbortLands, vars, jsVars, nativeVars
<1>10. ASSUME NEW b \in Broadcasts, NEW how \in {"ok", "failed"}, BroadcastCompletes(b, how)
       PROVE  EventsInv'
  BY <1>10, <1>A, <1>D, TaskFields DEF BroadcastCompletes, jsVars
<1>11. QED
  BY <1>1, <1>2, <1>3, <1>4, <1>5, <1>6, <1>7, <1>8, <1>9, <1>10, NextCases

LEMMA InitIInv == Init => IInv
<1> SUFFICES ASSUME Init PROVE IInv
  OBVIOUS
<1>1. bridge \in Seq(Tasks) /\ Len(bridge) = 0
  BY DEF Init
<1>2. Typed
  <2>1. 0 \in 0..0 /\ 0 \in 0..MaxEvents /\ FALSE \in BOOLEAN
    BY BoundAssumption
  <2>2. call \in [Broadcasts -> {"none", "waiting", "native", "ok", "failed"}]
    BY DEF Init
  <2>3. QED
    BY <1>1, <2>1, <2>2 DEF Init, Typed
<1>3. \A i \in 1..0 : FALSE
  OBVIOUS
<1>4. EventsOn(bridge) = {}
  BY <1>1, <1>3, LenProperties DEF EventsOn
<1>5. SentInv /\ StartInv /\ ReadyInv
  BY <1>1, <1>3 DEF Init, SentInv, SentOnce, StartInv, On, Once, ReadyInv
<1>6. EventsInv
  BY <1>4, FS_EmptySet DEF Init, EventsInv
<1>7. QED
  BY <1>2, <1>5, <1>6, TypedIsTypeOK DEF IInv

LEMMA NextIInv == IInv /\ [Next]_vars => IInv'
<1>1. Typed' => TypeOK'
  BY TypedIsTypeOK, PTL
<1>2. QED
  BY <1>1, TypeStep, SentStep, StartStep, ReadyStep, EventsStep DEF IInv
-------------------------------------------------------------------------------
(* The hook.                                                                 *)

\* A step with the hook is a step of the subscription, or leaves it alone.
LEMMA HookStepsNext == [HookNext]_allVars => [Next]_vars
<1>1. ASSUME HookNext
      PROVE  Next \/ UNCHANGED vars
  <2>1. ASSUME SubscriptionStep(JsThread \/ Unsubscribe)
        PROVE  Next
    BY <2>1 DEF SubscriptionStep, Next
  <2>2. ASSUME SubscriptionStep((hooked => subscriptionRef) /\ \E b \in Broadcasts : Broadcast(b))
        PROVE  Next
    BY <2>2 DEF SubscriptionStep, Next
  <2>3. ASSUME SubscriptionStep(~hooked /\ LoopBreaks)
        PROVE  Next
    BY <2>3 DEF SubscriptionStep, Next
  <2>4. ASSUME NativeStep
        PROVE  Next
    BY <2>4 DEF NativeStep, Next
  <2>5. ASSUME CleanUp
        PROVE  Next \/ UNCHANGED vars
    BY <2>5 DEF CleanUp, Next
  <2>6. ASSUME Continuations
        PROVE  UNCHANGED vars
    BY <2>6 DEF Continuations, Continue
  <2>7. QED
    BY <1>1, <2>1, <2>2, <2>3, <2>4, <2>5, <2>6 DEF HookNext
<1>2. QED
  BY <1>1 DEF allVars

\* What a step of the subscription changes that the hook looks at.
LEMMA SubscriptionMoves ==
  ASSUME IInv, [Next]_vars
  PROVE  /\ disposed => disposed'
         /\ subIdKnown => subIdKnown'
         /\ heard' # heard => heard' = heard + 1 /\ messages = "open" /\ UNCHANGED <<messages, ready, disposed>>
         /\ heard \in Nat /\ heard' \in Nat
         /\ ready' # ready => /\ ready = "pending"
                              /\ ready' = "resolved" => ~disposed' /\ subIdKnown'
         /\ messages # "open" => UNCHANGED messages
<1>T. Typed /\ StartInv /\ ReadyInv
  BY TypedIsTypeOK DEF IInv
<1>1. heard \in Nat /\ heard' \in Nat
  BY <1>T, TypeStep DEF Typed
<1>2. CASE Unsubscribe
  BY <1>1, <1>2, <1>T DEF Unsubscribe, Dispose, RejectReady, ReadyInv
<1>3. CASE OnJoinError
  <2>1. ~subIdKnown
    BY <1>3, <1>T, TakesPlain DEF OnJoinError, StartInv
  <2>2. QED
    BY <1>1, <1>3, <2>1, <1>T DEF OnJoinError, Dispose, RejectReady, ReadyInv, nativeVars
<1>4. CASE OnStart
  <2>1. UNCHANGED <<disposed, messages, heard>> /\ ~subIdKnown /\ subIdKnown'
    BY <1>4, <1>T, StartFinds
  <2>2. ready' = ready \/ (ready' = "resolved" /\ ~disposed)
    BY <1>4, <1>T, StartFinds
  <2>3. QED
    BY <1>1, <2>1, <2>2, <1>T DEF ReadyInv
<1>5. CASE OnEvent
  BY <1>1, <1>5 DEF OnEvent, nativeVars
<1>6. CASE \/ OnSent \/ LoopBreaks \/ JoinFails \/ Joins \/ Starts \/ Forwards \/ ReceiverEnds
           \/ AbortLands \/ UNCHANGED vars
  BY <1>1, <1>6
  DEF OnSent, LoopBreaks, JoinFails, Joins, Starts, Forwards, ReceiverEnds, AbortLands, vars,
      jsVars, nativeVars
<1>7. CASE \E b \in Broadcasts, how \in {"ok", "failed"} : BroadcastCompletes(b, how)
  BY <1>1, <1>7 DEF BroadcastCompletes, jsVars
<1>8. CASE \E b \in Broadcasts : Broadcast(b)
  BY <1>1, <1>8, <1>T, BroadcastCases
<1>9. QED
  BY <1>2, <1>3, <1>4, <1>5, <1>6, <1>7, <1>8, NextCases

\* A step of the subscription that makes due what follows from it.
LEMMA MadeDue ==
  ASSUME HookIInv, [Next]_vars, due = {}, due' = NewlyDue, UNCHANGED <<hooked, joinedOnce, status>>,
         active' => active, active' => UNCHANGED subscriptionRef,
         hooked => messages' = "open" \/ disposed'
  PROVE  DueInv' /\ StatusInv'
<1>T. Typed /\ ReadyInv /\ DueInv /\ StatusInv
  BY TypedIsTypeOK DEF HookIInv, IInv
<1>I. IInv /\ ReadyInv' /\ Typed'
  BY ReadyStep, TypeStep DEF HookIInv
<1>M. /\ disposed => disposed'
      /\ subIdKnown => subIdKnown'
      /\ heard' # heard => heard' = heard + 1 /\ messages = "open" /\ UNCHANGED <<messages, ready, disposed>>
      /\ heard \in Nat /\ heard' \in Nat
      /\ ready' # ready => /\ ready = "pending"
                           /\ ready' = "resolved" => ~disposed' /\ subIdKnown'
      /\ messages # "open" => UNCHANGED messages
  BY <1>I, SubscriptionMoves
<1>D. /\ due' \subseteq {"joined", "rejected", "event", "loopEnds", "loopThrows"}
      /\ "joined" \in due' <=> hooked /\ ready # "resolved" /\ ready' = "resolved"
      /\ "rejected" \in due' <=> hooked /\ ready # "rejected" /\ ready' = "rejected"
      /\ "event" \in due' <=> hooked /\ heard' > heard
      /\ "loopEnds" \in due' <=> hooked /\ messages = "open" /\ messages' = "done"
      /\ "loopThrows" \in due' <=> hooked /\ messages = "open" /\ messages' = "error"
  <2>1. due' \subseteq {"joined", "rejected", "event", "loopEnds", "loopThrows"}
    BY DEF NewlyDue
  <2>2. "joined" \in due' <=> hooked /\ ready # "resolved" /\ ready' = "resolved"
    BY DEF NewlyDue
  <2>3. "rejected" \in due' <=> hooked /\ ready # "rejected" /\ ready' = "rejected"
    BY DEF NewlyDue
  <2>4. "event" \in due' <=> hooked /\ heard' > heard
    BY DEF NewlyDue
  <2>5. "loopEnds" \in due' <=> hooked /\ messages = "open" /\ messages' = "done"
    BY DEF NewlyDue
  <2>6. "loopThrows" \in due' <=> hooked /\ messages = "open" /\ messages' = "error"
    BY DEF NewlyDue
  <2>7. QED
    BY <2>1, <2>2, <2>3, <2>4, <2>5, <2>6
<1>1. DueInv'
  <2>1. "event" \in due' => heard' > 0 /\ ~disposed'
    BY <1>D, <1>M, <1>T DEF ReadyInv
  <2>2. "joined" \in due' => ready' = "resolved" /\ ~disposed'
    BY <1>D, <1>M
  <2>3. QED
    BY <1>D, <2>1, <2>2 DEF DueInv
<1>2. StatusInv'
  <2>1. (active' => hooked') /\ (hooked' /\ ~disposed' => messages' = "open")
    BY <1>T DEF StatusInv
  <2>2. ASSUME active'
        PROVE  /\ status \in {"joining", "joined", "error", "closed"}
               /\ status = "joined" => subIdKnown' \/ heard' > 0
               /\ status = "error" => ready' = "rejected"
               /\ ready' = "rejected" => "rejected" \in due' \/ status = "error"
               /\ messages' = "error" => "loopThrows" \in due' \/ status = "error"
               /\ joinedOnce => status # "joining"
               /\ status = "closed" => disposed'
               /\ ready' = "resolved" /\ ~disposed' => "joined" \in due' \/ status = "joined"
    <3>1. active /\ hooked
      BY <2>2, <1>T DEF StatusInv
    <3>2. heard > 0 => heard' > 0
      BY <1>M
    <3>3. QED
      BY <3>1, <3>2, <1>M, <1>D, <1>T DEF StatusInv
  <2>3. ASSUME active', disposed', ready' = "resolved"
        PROVE  "loopEnds" \in due' \/ status = "closed"
    <3>1. active /\ hooked /\ subscriptionRef' = subscriptionRef
      BY <2>3, <1>T DEF StatusInv
    <3>2. ready = "resolved"
      BY <2>3, <1>M
    <3>3. CASE disposed
      BY <3>1, <3>2, <3>3, <1>T DEF StatusInv
    <3>4. CASE ~disposed
      <4>1. messages = "open"
        BY <3>1, <3>4, <1>T DEF StatusInv
      <4>2. messages' # "open" /\ messages' # "error"
        BY <2>3, <1>I DEF ReadyInv
      <4>3. messages' = "done"
        BY <4>2, <1>I DEF Typed
      <4>4. QED
        BY <3>1, <4>1, <4>3, <1>D
    <3>5. QED
      BY <3>3, <3>4
  <2>4. ASSUME active', disposed', messages' = "done"
        PROVE  "loopEnds" \in due' \/ ~subscriptionRef'
    <3>1. active /\ hooked /\ subscriptionRef' = subscriptionRef
      BY <2>4, <1>T DEF StatusInv
    <3>2. CASE messages = "open"
      BY <2>4, <3>1, <3>2, <1>D
    <3>3. CASE messages # "open"
      BY <2>4, <3>1, <3>3, <1>M, <1>T DEF StatusInv
    <3>4. QED
      BY <3>2, <3>3
  <2>5. QED
    BY <2>1, <2>2, <2>3, <2>4 DEF StatusInv
<1>3. QED
  BY <1>1, <1>2

\* A continuation runs.
LEMMA Continued ==
  ASSUME HookIInv, NEW c \in due, Continue(c)
  PROVE  DueInv' /\ StatusInv'
<1>T. ReadyInv /\ DueInv /\ StatusInv
  BY DEF HookIInv, IInv
<1>1. /\ due' = due \ {c} /\ UNCHANGED <<vars, hooked, active>>
  BY DEF Continue
<1>2. UNCHANGED <<disposed, subIdKnown, ready, messages, heard>>
  BY <1>1 DEF vars, jsVars
<1>3. DueInv'
  BY <1>1, <1>2, <1>T DEF DueInv
<1> SUFFICES StatusInv'
  BY <1>3
<1>4. CASE ~active
  BY <1>4, <1>1, <1>2, <1>T DEF StatusInv
<1>5. CASE active /\ c \in {"joined", "event"} /\ MarkJoined
  <2>1. ~disposed
    BY <1>5, <1>T DEF DueInv
  <2>2. subIdKnown \/ heard > 0
    BY <1>5, <1>T DEF DueInv, ReadyInv
  <2>3. status = "error" => ready = "rejected"
    BY <1>5, <1>T DEF StatusInv
  <2>4. status' = IF joinedOnce \/ status = "error" THEN status ELSE "joined"
    BY <1>5 DEF MarkJoined
  <2>5. status' = status \/ (status' = "joined" /\ status # "error")
    BY <2>4
  <2>6. status' # "joining"
    BY <1>5, <2>4, <1>T DEF StatusInv
  <2>7. ready = "resolved" => status' = "joined"
    BY <1>5, <2>1, <2>3, <2>4, <2>6, <1>T DEF StatusInv
  <2>8. QED
    BY <1>5, <2>1, <2>2, <2>5, <2>6, <2>7, <1>1, <1>2, <1>T DEF StatusInv, ReadyInv
\* An event that is neither a message nor a neighbour that comes up.
<1>9. CASE active /\ c = "event" /\ UNCHANGED <<joinedOnce, status, subscriptionRef>>
  BY <1>9, <1>1, <1>2, <1>T DEF StatusInv
<1>6. CASE active /\ c \in {"rejected", "loopThrows"} /\ Fail
  <2>1. ready = "rejected"
    BY <1>6, <1>T DEF DueInv, ReadyInv
  <2>2. QED
    BY <1>6, <2>1, <1>1, <1>2, <1>T DEF Fail, StatusInv
<1>7. CASE active /\ c = "loopEnds" /\ MarkClosed
  <2>1. /\ ~subscriptionRef' /\ status' = IF status = "error" THEN status ELSE "closed"
    BY <1>7 DEF MarkClosed
  <2>2. /\ status = "error" => ready = "rejected"
        /\ messages = "done" /\ disposed /\ UNCHANGED joinedOnce
    BY <1>7, <1>T DEF StatusInv, DueInv, MarkClosed
  <2>3. QED
    BY <1>7, <2>1, <2>2, <1>1, <1>2, <1>T DEF StatusInv
<1>8. QED
  BY <1>4, <1>5, <1>6, <1>7, <1>9 DEF Continue

LEMMA NextHookIInv == HookIInv /\ [HookNext]_allVars => HookIInv'
<1> SUFFICES ASSUME HookIInv, [HookNext]_allVars PROVE HookIInv'
  OBVIOUS
<1>T. IInv /\ Typed /\ ReadyInv /\ DueInv /\ StatusInv
  BY TypedIsTypeOK DEF HookIInv, IInv
<1>N. [Next]_vars /\ IInv'
  BY <1>T, HookStepsNext, NextIInv
<1> SUFFICES DueInv' /\ StatusInv'
  BY <1>N DEF HookIInv
\* With a hook, the messages are left by disposing only.
<1>O. ASSUME JsThread \/ Unsubscribe \/ (\E b \in Broadcasts : Broadcast(b)) \/ UNCHANGED vars,
             hooked
      PROVE  messages' = "open" \/ disposed'
  <2>1. messages = "open" \/ disposed
    BY <1>O, <1>T DEF StatusInv
  <2>2. CASE Unsubscribe \/ OnJoinError
    BY <2>1, <2>2, <1>N, <1>T, SubscriptionMoves DEF Unsubscribe, OnJoinError, Dispose
  <2>3. CASE \/ OnStart \/ OnEvent \/ OnSent \/ UNCHANGED vars
    BY <2>1, <2>3 DEF OnStart, OnEvent, OnSent, vars, jsVars
  <2>4. CASE \E b \in Broadcasts : Broadcast(b)
    BY <2>1, <2>4, <1>T, BroadcastCases
  <2>5. QED
    BY <1>O, <2>2, <2>3, <2>4 DEF JsThread
<1>1. CASE SubscriptionStep(JsThread \/ Unsubscribe)
  <2>1. /\ JsThread \/ Unsubscribe
        /\ due = {} /\ due' = NewlyDue /\ UNCHANGED <<hooked, active, joinedOnce, status, subscriptionRef>>
    BY <1>1 DEF SubscriptionStep, hookVars
  <2>2. QED
    BY <2>1, <1>N, <1>O, MadeDue
<1>2. CASE SubscriptionStep((hooked => subscriptionRef) /\ \E b \in Broadcasts : Broadcast(b))
  <2>1. /\ \E b \in Broadcasts : Broadcast(b)
        /\ due = {} /\ due' = NewlyDue /\ UNCHANGED <<hooked, active, joinedOnce, status, subscriptionRef>>
    BY <1>2 DEF SubscriptionStep, hookVars
  <2>2. QED
    BY <2>1, <1>N, <1>O, MadeDue
<1>3. CASE SubscriptionStep(~hooked /\ LoopBreaks)
  <2>1. /\ ~hooked
        /\ due = {} /\ due' = NewlyDue /\ UNCHANGED <<hooked, active, joinedOnce, status, subscriptionRef>>
    BY <1>3 DEF SubscriptionStep, hookVars
  <2>2. QED
    BY <2>1, <1>N, MadeDue
<1>4. CASE NativeStep
  <2>1. UNCHANGED <<hooked, hookVars, due>>
    BY <1>4 DEF NativeStep
  <2>2. UNCHANGED <<disposed, subIdKnown, ready, messages, heard>>
    BY <1>4 DEF NativeStep, Native, JoinFails, Joins, Starts, Forwards, ReceiverEnds, AbortLands,
                BroadcastCompletes, jsVars
  <2>3. QED
    BY <2>1, <2>2, <1>T DEF hookVars, DueInv, StatusInv
<1>5. CASE CleanUp
  <2>1. /\ due = {} /\ due' = NewlyDue /\ UNCHANGED <<hooked, joinedOnce, status>>
        /\ active' = FALSE /\ (Unsubscribe \/ UNCHANGED vars)
    BY <1>5 DEF CleanUp
  <2>2. QED
    BY <2>1, <1>N, <1>O, MadeDue
<1>6. CASE Continuations
  BY <1>6, Continued DEF Continuations
<1>7. CASE UNCHANGED allVars
  BY <1>7, <1>T DEF allVars, vars, jsVars, hookVars, DueInv, StatusInv
<1>8. QED
  BY <1>1, <1>2, <1>3, <1>4, <1>5, <1>6, <1>7 DEF HookNext

LEMMA InitHookIInv == HookInit => HookIInv
<1> SUFFICES ASSUME HookInit PROVE HookIInv
  OBVIOUS
<1>1. IInv
  BY InitIInv DEF HookInit
<1>2. DueInv /\ StatusInv
  BY DEF HookInit, Init, DueInv, StatusInv
<1>3. QED
  BY <1>1, <1>2 DEF HookIInv
-------------------------------------------------------------------------------
\* No event is lost to a live subscription, not even one that the forwarding task
\* posts before the id (gossip_subscribe, gossip.rs): however many are forwarded, they
\* were heard or are on the bridge.
THEOREM NoEventIsLost == HookSpec => []NothingLostWhileLive
<1>1. HookIInv => NothingLostWhileLive
  BY DEF HookIInv, IInv, EventsInv, NothingLostWhileLive
<1>2. QED
  BY <1>1, InitHookIInv, NextHookIInv, PTL DEF HookSpec

\* An id that comes after the subscription was ended is used to end it (onStart,
\* gossip.ts), and nobody is left waiting for it.
THEOREM IdEndsTheEnded == HookSpec => []EndedOnceKnown
<1>1. HookIInv => EndedOnceKnown
  <2> SUFFICES ASSUME HookIInv PROVE EndedOnceKnown
    OBVIOUS
  <2>1. ReadyInv
    BY DEF HookIInv, IInv
  <2>2. QED
    BY <2>1 DEF ReadyInv, EndedOnceKnown, WaitingCalls
<1>2. QED
  BY <1>1, InitHookIInv, NextHookIInv, PTL DEF HookSpec

\* useGossip never claims more than its subscription is, whatever its continuations
\* run in which order.
THEOREM HookTellsTheTruth == HookSpec => []StatusIsTrue
<1>1. HookIInv => StatusIsTrue
  <2> SUFFICES ASSUME HookIInv, active, due = {}
               PROVE  /\ status = "joined" => ~disposed /\ (subIdKnown \/ heard > 0)
                      /\ messages = "error" => status = "error"
                      /\ ready = "resolved" /\ ~disposed => status = "joined"
                      /\ disposed => status \in {"closed", "error"}
                      /\ disposed /\ messages = "done" => ~subscriptionRef
                      /\ disposed /\ ready = "resolved" => status = "closed"
    BY DEF StatusIsTrue
  <2>1. Typed /\ ReadyInv /\ StatusInv
    BY TypedIsTypeOK DEF HookIInv, IInv
  <2>2. disposed => ready \in {"rejected", "resolved"}
    BY <2>1 DEF Typed, ReadyInv
  <2>3. QED
    BY <2>1, <2>2 DEF StatusInv
<1>2. QED
  BY <1>1, InitHookIInv, NextHookIInv, PTL DEF HookSpec

\* The same of a subscription that the application drives itself.
THEOREM SubscriptionEndsOnceKnown == Spec => [](NothingLostWhileLive /\ EndedOnceKnown)
<1>1. IInv => NothingLostWhileLive /\ EndedOnceKnown
  BY DEF IInv, ReadyInv, EventsInv, NothingLostWhileLive, EndedOnceKnown, WaitingCalls
<1>2. QED
  BY <1>1, InitIInv, NextIInv, PTL DEF Spec
===============================================================================
