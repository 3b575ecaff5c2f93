-------------------------- MODULE MessageQueueProofs --------------------------
(***************************************************************************)
(* The queue of MessageQueue keeps its promises for every capacity and     *)
(* every number of pushes and consumers.                                   *)
(*                                                                         *)
(* The inductive invariant rests on one observation: the buffer always     *)
(* holds the newest Len(buffer) accepted values, the waiters are always    *)
(* the newest Len(waiters) calls, and one of the two is empty.             *)
(*                                                                         *)
(* Whatever a stream does to its queue of chunks is one of the queue's own *)
(* operations, so the same invariant carries ByteStream.  What is added    *)
(* relates the three ends: the queue's, the settlement of `closed` and the *)
(* native handle's.                                                        *)
(***************************************************************************)
EXTENDS ByteStream, FiniteSetTheorems, FunctionTheorems, SequenceTheorems, TLAPS

\* The values that have left the buffer are 1..Gone, the answered calls 1..Answered.
Gone == accepted - Len(buffer)
Answered == nexts - Len(waiters)

BufferIsNewest ==
  /\ Len(buffer) <= accepted
  /\ \A i \in 1..Len(buffer) : buffer[i] = Gone + i

WaitersAreNewest ==
  /\ Len(waiters) <= nexts
  /\ \A i \in 1..Len(waiters) : waiters[i] = Answered + i

OneIsEmpty ==
  /\ buffer = << >> \/ waiters = << >>
  /\ isClosed => buffer = << >> /\ waiters = << >>

\* Where the answers are: none beyond nexts, parked beyond Answered.
AnswersPlaced ==
  \A c \in Calls :
    /\ result[c] = NotCalled <=> c > nexts
    /\ result[c] = Parked <=> Answered < c /\ c <= nexts

GoneAccounted ==
  /\ discarded \subseteq 1..Gone
  /\ \A v \in 1..Gone : Delivered(v) \/ v \in discarded
  /\ \A c \in Calls : result[c].type = "value" =>
       result[c].value \in 1..Gone /\ result[c].value \notin discarded

OrderKept ==
  \A c, d \in Calls :
    c < d /\ result[d].type = "value" =>
      /\ result[c].type = "value"
      /\ result[c].value < result[d].value

EndsAnnounced ==
  /\ ~isClosed => ~errorDelivered /\ \A c \in Calls : result[c] \notin {Done, Error}
  /\ terminal # "error" => ~errorDelivered
  /\ errorDelivered <=> \E c \in Calls : result[c] = Error

PrefixDelivered ==
  FatalLag =>
    /\ ~isClosed => discarded = {}
    /\ \A w \in Values : Delivered(w) => \A v \in 1..w : Delivered(v)

AcceptsWhileOpen == ~isClosed => accepted = pushes

IInv ==
  /\ TypeOK
  /\ AcceptsWhileOpen
  /\ BufferIsNewest
  /\ WaitersAreNewest
  /\ OneIsEmpty
  /\ AnswersPlaced
  /\ GoneAccounted
  /\ OrderKept
  /\ EndsAnnounced
  /\ ErrorReachesOne
  /\ PrefixDelivered
-------------------------------------------------------------------------------
(* The kinds of answer are told apart by their type.                         *)
LEMMA AnswerKinds ==
  /\ NotCalled.type = "none" /\ Parked.type = "parked"
  /\ Done.type = "done" /\ Error.type = "error"
  /\ \A v \in Values : Value(v).type = "value" /\ Value(v).value = v
  /\ \A v \in Values : Value(v) \in Answers
  /\ {NotCalled, Parked, Done, Error} \subseteq Answers
  /\ \A a \in Answers :
       /\ a.type = "value" => a.value \in Values /\ a = Value(a.value)
       /\ a.type = "none" => a = NotCalled
       /\ a.type = "parked" => a = Parked
       /\ a.type = "done" => a = Done
       /\ a.type = "error" => a = Error
       /\ a.type \in {"none", "parked", "done", "error", "value"}
<1>1. /\ NotCalled.type = "none" /\ Parked.type = "parked"
      /\ Done.type = "done" /\ Error.type = "error"
  BY DEF NotCalled, Parked, Done, Error
<1>2. \A v \in Values : Value(v).type = "value" /\ Value(v).value = v
  BY DEF Value
<1>3. \A v \in Values : Value(v) \in Answers
  BY DEF Answers
<1>4. {NotCalled, Parked, Done, Error} \subseteq Answers
  BY DEF Answers
<1>5. ASSUME NEW a \in Answers
      PROVE  /\ a.type = "value" => a.value \in Values /\ a = Value(a.value)
             /\ a.type = "none" => a = NotCalled
             /\ a.type = "parked" => a = Parked
             /\ a.type = "done" => a = Done
             /\ a.type = "error" => a = Error
             /\ a.type \in {"none", "parked", "done", "error", "value"}
  <2>1. CASE a \in {NotCalled, Parked, Done, Error}
    BY <2>1, <1>1
  <2>2. CASE \E v \in Values : a = Value(v)
    BY <2>2, <1>2
  <2>. QED  BY <2>1, <2>2 DEF Answers
<1>. QED  BY <1>1, <1>2, <1>3, <1>4, <1>5

(* Whom an invariant state's waiters are, and what its buffer holds.         *)
LEMMA InvariantRanges ==
  ASSUME TypeOK, BufferIsNewest, WaitersAreNewest
  PROVE  /\ Range(buffer) = (Gone + 1)..accepted
         /\ Range(waiters) = (Answered + 1)..nexts
         /\ buffer # << >> => Head(buffer) = Gone + 1 /\ Len(buffer) > 0
         /\ waiters # << >> => Head(waiters) = Answered + 1 /\ Len(waiters) > 0
<1>1. Range(buffer) = (Gone + 1)..accepted
  <2>1. ASSUME NEW v \in Range(buffer) PROVE v \in (Gone + 1)..accepted
    <3>1. PICK i \in 1..Len(buffer) : v = buffer[i]
      BY <2>1 DEF Range, TypeOK
    <3>. QED  BY <3>1 DEF BufferIsNewest, Gone, TypeOK
  <2>2. ASSUME NEW v \in (Gone + 1)..accepted PROVE v \in Range(buffer)
    <3>. DEFINE i == v - Gone
    <3>1. i \in 1..Len(buffer) /\ buffer[i] = v
      BY <2>2 DEF BufferIsNewest, Gone, TypeOK
    <3>. QED  BY <3>1 DEF Range, TypeOK
  <2>. QED  BY <2>1, <2>2
<1>2. Range(waiters) = (Answered + 1)..nexts
  <2>1. ASSUME NEW v \in Range(waiters) PROVE v \in (Answered + 1)..nexts
    <3>1. PICK i \in 1..Len(waiters) : v = waiters[i]
      BY <2>1 DEF Range, TypeOK
    <3>. QED  BY <3>1 DEF WaitersAreNewest, Answered, TypeOK
  <2>2. ASSUME NEW v \in (Answered + 1)..nexts PROVE v \in Range(waiters)
    <3>. DEFINE i == v - Answered
    <3>1. i \in 1..Len(waiters) /\ waiters[i] = v
      BY <2>2 DEF WaitersAreNewest, Answered, TypeOK
    <3>. QED  BY <3>1 DEF Range, TypeOK
  <2>. QED  BY <2>1, <2>2
<1>3. buffer # << >> => Head(buffer) = Gone + 1 /\ Len(buffer) > 0
  BY DEF BufferIsNewest, TypeOK
<1>4. waiters # << >> => Head(waiters) = Answered + 1 /\ Len(waiters) > 0
  BY DEF WaitersAreNewest, TypeOK
<1>. QED  BY <1>1, <1>2, <1>3, <1>4
-------------------------------------------------------------------------------
LEMMA InitInv == Init => IInv
<1>. SUFFICES ASSUME Init PROVE IInv
  OBVIOUS
<1>1. TypeOK
  <2>1. << >> \in Seq(Values) /\ << >> \in Seq(Calls) /\ Len(<< >>) <= Capacity
    BY CapacityAssumption
  <2>2. result \in [Calls -> Answers]
    BY AnswerKinds DEF Init
  <2>3. 0 \in 0..MaxPush /\ 0 \in 0..0 /\ 0 \in 0..MaxNext /\ 0 \in Nat
    BY BoundsAssumption
  <2>. QED  BY <2>1, <2>2, <2>3, Zenon DEF Init, TypeOK
<1>2. \A c \in Calls : result[c] = NotCalled
  BY DEF Init
<1>3. BufferIsNewest /\ WaitersAreNewest /\ OneIsEmpty
  BY DEF Init, BufferIsNewest, WaitersAreNewest, OneIsEmpty, isClosed
<1>8. AcceptsWhileOpen
  BY DEF Init, AcceptsWhileOpen
<1>4. AnswersPlaced
  BY <1>2, AnswerKinds DEF Init, AnswersPlaced, Answered, Calls
<1>5. GoneAccounted
  BY <1>2, AnswerKinds DEF Init, GoneAccounted, Gone
<1>6. OrderKept /\ EndsAnnounced /\ ErrorReachesOne
  BY <1>2, AnswerKinds DEF Init, OrderKept, EndsAnnounced, ErrorReachesOne, isClosed
<1>7. PrefixDelivered
  BY <1>2, AnswerKinds DEF Init, PrefixDelivered, Delivered
<1>. QED  BY <1>1, <1>3, <1>4, <1>5, <1>6, <1>7, <1>8 DEF IInv
-------------------------------------------------------------------------------
(* Both ways a value is delivered give the next value to the next call.      *)
LEMMA Delivery ==
  ASSUME IInv, ~isClosed,
         Answered + 1 \in Calls, Gone + 1 \in Values,
         result[Answered + 1] \in {Parked, NotCalled},
         result' = [result EXCEPT ![Answered + 1] = Value(Gone + 1)],
         Gone' = Gone + 1,
         UNCHANGED <<terminal, errorDelivered, discarded>>
  PROVE  /\ result' \in [Calls -> Answers]
         /\ \A c \in Calls :
              c # Answered + 1 => result'[c] = result[c]
         /\ result'[Answered + 1] \notin {NotCalled, Parked}
         /\ GoneAccounted' /\ OrderKept' /\ EndsAnnounced' /\ ErrorReachesOne'
         /\ PrefixDelivered'
<1>. USE DEF IInv
<1>. DEFINE c0 == Answered + 1
            v0 == Gone + 1
<1>1. /\ Value(v0).type = "value" /\ Value(v0).value = v0
      /\ Value(v0) \notin {NotCalled, Parked, Done, Error}
      /\ result[c0].type # "value"
      /\ Answered \in Nat /\ Gone \in Nat
  BY AnswerKinds DEF Answered, Gone, TypeOK, WaitersAreNewest, BufferIsNewest
<1>2. /\ \A c \in Calls : result'[c] = IF c = c0 THEN Value(v0) ELSE result[c]
      /\ result' \in [Calls -> Answers]
  BY AnswerKinds DEF TypeOK
<1>3. GoneAccounted'
  <2>1. ASSUME NEW v \in 1..Gone' PROVE Delivered(v)' \/ v \in discarded
    <3>1. CASE v = v0
      BY <3>1, <1>2 DEF Delivered
    <3>2. CASE v # v0
      <4>1. v \in 1..Gone
        BY <3>2, <1>1
      <4>2. CASE v \in discarded
        BY <4>2
      <4>3. CASE Delivered(v)
        <5>1. PICK c \in Calls : result[c] = Value(v)
          BY <4>3 DEF Delivered
        <5>2. c # c0
          BY <5>1, <1>1, <4>1 DEF Value
        <5>. QED  BY <5>1, <5>2, <1>2 DEF Delivered
      <4>. QED  BY <4>1, <4>2, <4>3 DEF GoneAccounted
    <3>. QED  BY <3>1, <3>2
  <2>2. ASSUME NEW c \in Calls, result'[c].type = "value"
        PROVE  result'[c].value \in 1..Gone' /\ result'[c].value \notin discarded
    BY <2>2, <1>1, <1>2 DEF GoneAccounted, TypeOK
  <2>3. discarded' \subseteq 1..Gone' /\ discarded' = discarded
    BY <1>1 DEF GoneAccounted
  <2>. QED  BY <2>1, <2>2, <2>3 DEF GoneAccounted
<1>4. OrderKept'
  <2>. SUFFICES ASSUME NEW c \in Calls, NEW d \in Calls, c < d,
                       result'[d].type = "value"
                PROVE  result'[c].type = "value" /\ result'[c].value < result'[d].value
    BY DEF OrderKept
  <2>1. CASE d = c0
    <3>1. result[c].type = "value"
      <4>1. result[c] # Parked /\ result[c] # NotCalled
        BY <2>1, <1>1 DEF AnswersPlaced, Calls, Answered, TypeOK
      <4>2. result[c] # Done /\ result[c] # Error
        BY DEF EndsAnnounced
      <4>. QED  BY <4>1, <4>2, AnswerKinds DEF TypeOK
    <3>. QED  BY <2>1, <3>1, <1>1, <1>2 DEF GoneAccounted, TypeOK, Calls
  <2>2. CASE d # c0
    BY <2>2, <1>2, <1>1 DEF OrderKept
  <2>. QED  BY <2>1, <2>2
<1>5. EndsAnnounced' /\ ErrorReachesOne'
  BY <1>1, <1>2 DEF EndsAnnounced, ErrorReachesOne, isClosed
<1>6. PrefixDelivered'
  <2>. SUFFICES ASSUME FatalLag, NEW w \in Values, Delivered(w)', NEW v \in 1..w
                PROVE  Delivered(v)'
    BY DEF PrefixDelivered, isClosed
  <2>1. discarded = {}
    BY DEF PrefixDelivered
  <2>2. w \in 1..Gone'
    BY <1>3, AnswerKinds DEF Delivered, GoneAccounted
  <2>3. v \in 1..Gone'
    BY <2>2, <1>1
  <2>. QED  BY <2>1, <2>3, <1>3 DEF GoneAccounted
<1>. QED  BY <1>1, <1>2, <1>3, <1>4, <1>5, <1>6

(* Closing an open queue, with `left` still undelivered.                     *)
LEMMA Closing ==
  ASSUME IInv, ~isClosed,
         NEW end \in {"done", "error"}, NEW left \in Seq(Values),
         CloseDiscarding(end, left),
         NEW last \in Nat, accepted' = last, accepted <= last, last <= MaxPush,
         Range(left) = (Gone + 1)..last,
         nexts' = nexts
  PROVE  /\ buffer' \in Seq(Values) /\ Len(buffer') <= Capacity
         /\ waiters' \in Seq(Calls) /\ terminal' \in {"open", "done", "error"}
         /\ errorDelivered' \in BOOLEAN
         /\ result' \in [Calls -> Answers] /\ discarded' \subseteq Values
         /\ BufferIsNewest' /\ WaitersAreNewest' /\ OneIsEmpty' /\ AnswersPlaced'
         /\ AcceptsWhileOpen' /\ GoneAccounted' /\ OrderKept' /\ EndsAnnounced'
         /\ ErrorReachesOne' /\ PrefixDelivered'
<1>. USE DEF IInv
<1>1. /\ buffer' = << >> /\ waiters' = << >> /\ terminal' = end
      /\ discarded' = discarded \cup (Gone + 1)..last
      /\ result' = Settled(end)
      /\ isClosed'
  BY DEF CloseDiscarding, isClosed
<1>2. /\ Gone \in Nat /\ Answered \in Nat /\ Gone <= accepted /\ Answered <= nexts
      /\ Gone' = last /\ Answered' = nexts
  <2>1. Len(buffer') = 0 /\ Len(waiters') = 0
    BY <1>1
  <2>2. Len(buffer) \in Nat /\ Len(waiters) \in Nat
    BY DEF TypeOK
  <2>3. Gone' = last /\ Answered' = nexts
    BY <2>1, BoundsAssumption DEF Gone, Answered, TypeOK
  <2>. QED  BY <2>2, <2>3 DEF Gone, Answered, TypeOK, BufferIsNewest, WaitersAreNewest
<1>3. /\ Range(waiters) = (Answered + 1)..nexts
      /\ waiters # << >> => Head(waiters) = Answered + 1
      /\ waiters = << >> => Answered = nexts
  BY InvariantRanges DEF Answered, TypeOK
<1>. DEFINE told(c) == Answered < c /\ c <= nexts
<1>4. \A c \in Calls :
        /\ ~told(c) => result'[c] = result[c]
        /\ told(c) => result'[c] = IF end = "error" /\ c = Answered + 1
                                   THEN Error ELSE Done
  <2>. TAKE c \in Calls
  <2>1. c \in Range(waiters) <=> told(c)
    BY <1>2, <1>3 DEF Calls, TypeOK
  <2>2. c \in Range(waiters) => waiters # << >>
    BY <1>3, <1>2, <2>1 DEF TypeOK, Calls
  <2>. QED  BY <1>1, <1>3, <2>1, <2>2 DEF Settled
<1>5. result' \in [Calls -> Answers]
  BY <1>1, AnswerKinds DEF Settled, TypeOK
<1>6. /\ buffer' \in Seq(Values) /\ Len(buffer') <= Capacity
      /\ waiters' \in Seq(Calls) /\ terminal' \in {"open", "done", "error"}
      /\ discarded' \subseteq Values
  <2>1. discarded' \subseteq Values
    BY <1>1, <1>2, BoundsAssumption DEF TypeOK, Values
  <2>. QED  BY <1>1, <2>1, CapacityAssumption
<1>7. errorDelivered' \in BOOLEAN
  BY Zenon DEF CloseDiscarding
<1>8. BufferIsNewest' /\ WaitersAreNewest' /\ OneIsEmpty' /\ AcceptsWhileOpen'
  BY <1>1 DEF BufferIsNewest, WaitersAreNewest, OneIsEmpty, AcceptsWhileOpen, TypeOK
<1>9. AnswersPlaced'
  BY <1>2, <1>4, AnswerKinds DEF AnswersPlaced, Calls, TypeOK
<1>10. \A c \in Calls : /\ result'[c].type = "value" <=> result[c].type = "value"
                        /\ result'[c].type = "value" => result'[c] = result[c]
  BY <1>4, AnswerKinds DEF AnswersPlaced, Calls, TypeOK
<1>11. \A v \in Values : Delivered(v)' <=> Delivered(v)
  BY <1>10, AnswerKinds DEF Delivered
<1>12. GoneAccounted'
  <2>1. discarded' \subseteq 1..Gone'
    BY <1>1, <1>2 DEF GoneAccounted, TypeOK
  <2>2. ASSUME NEW v \in 1..Gone' PROVE Delivered(v)' \/ v \in discarded'
    <3>1. v \in Values
      BY <1>2, BoundsAssumption DEF Values
    <3>2. CASE v \in 1..Gone
      BY <3>1, <3>2, <1>1, <1>11 DEF GoneAccounted
    <3>3. CASE v \notin 1..Gone
      BY <3>3, <1>1, <1>2
    <3>. QED  BY <3>2, <3>3
  <2>3. ASSUME NEW c \in Calls, result'[c].type = "value"
        PROVE  result'[c].value \in 1..Gone' /\ result'[c].value \notin discarded'
    <3>1. result'[c] = result[c] /\ result[c].value \in 1..Gone
          /\ result[c].value \notin discarded
      BY <2>3, <1>10 DEF GoneAccounted
    <3>. QED  BY <3>1, <1>1, <1>2 DEF TypeOK
  <2>. QED  BY <2>1, <2>2, <2>3 DEF GoneAccounted
<1>13. OrderKept'
  BY <1>10 DEF OrderKept
<1>14. EndsAnnounced' /\ ErrorReachesOne'
  <2>1. \A c \in Calls : ~told(c) => result[c] \notin {Done, Error}
    BY DEF EndsAnnounced
  <2>2. \A c \in Calls : result'[c] = Error <=> told(c) /\ end = "error" /\ c = Answered + 1
    BY <1>4, <2>1, AnswerKinds
  <2>3. \A c \in Calls : result'[c] = Done => told(c) /\ ~(end = "error" /\ c = Answered + 1)
    BY <1>4, <2>1, AnswerKinds
  <2>4. waiters # << >> => Answered + 1 \in Calls /\ told(Answered + 1)
    <3>1. waiters # << >> => Len(waiters) > 0
      BY DEF TypeOK
    <3>2. waiters # << >> => Answered + 1 <= nexts
      BY <3>1, <1>2 DEF Answered, TypeOK
    <3>3. nexts \in 0..MaxNext /\ MaxNext \in Nat
      BY BoundsAssumption DEF TypeOK
    <3>. QED  BY <3>2, <3>3, <1>2 DEF Calls
  <2>5. (\E c \in Calls : told(c)) => waiters # << >>
    BY <1>2, <1>3 DEF Calls, TypeOK
  <2>6. errorDelivered' <=> end = "error" /\ waiters # << >>
    BY Zenon DEF CloseDiscarding, EndsAnnounced
  <2>7. EndsAnnounced'
    BY <1>1, <2>2, <2>4, <2>5, <2>6, Zenon DEF EndsAnnounced
  <2>8. ErrorReachesOne'
    BY <1>1, <1>2, <2>2, <2>3, <2>4, <2>5 DEF ErrorReachesOne, Calls, TypeOK
  <2>. QED  BY <2>7, <2>8
<1>15. PrefixDelivered'
  <2>1. \A w \in Values : \A v \in 1..w : v \in Values
    BY BoundsAssumption DEF Values
  <2>. QED  BY <1>1, <1>11, <2>1 DEF PrefixDelivered
<1>. QED  BY <1>5, <1>6, <1>7, <1>8, <1>9, <1>12, <1>13, <1>14, <1>15
-------------------------------------------------------------------------------
(* push.                                                                     *)
LEMMA PushIgnoredInv == ASSUME IInv, PushIgnored PROVE IInv'
<1>. USE DEF IInv
<1>1. TypeOK'
  <2>1. pushes' \in 0..MaxPush /\ accepted' \in 0..pushes'
    BY BoundsAssumption DEF PushIgnored, TypeOK
  <2>. QED  BY <2>1, Zenon DEF PushIgnored, TypeOK
<1>2. BufferIsNewest' /\ WaitersAreNewest' /\ OneIsEmpty' /\ AnswersPlaced'
  BY DEF PushIgnored, BufferIsNewest, WaitersAreNewest, OneIsEmpty, AnswersPlaced,
         Gone, Answered, isClosed
<1>3. AcceptsWhileOpen' /\ GoneAccounted' /\ OrderKept'
  BY DEF PushIgnored, AcceptsWhileOpen, GoneAccounted, OrderKept, Gone, Delivered,
         isClosed
<1>4. EndsAnnounced' /\ ErrorReachesOne' /\ PrefixDelivered'
  BY DEF PushIgnored, EndsAnnounced, ErrorReachesOne, PrefixDelivered, isClosed, Delivered
<1>. QED  BY <1>1, <1>2, <1>3, <1>4

LEMMA PushHandsOffInv == ASSUME IInv, PushHandsOff PROVE IInv'
<1>. USE DEF IInv
<1>0. /\ Head(waiters) = Answered + 1 /\ Len(waiters) > 0 /\ ~isClosed
      /\ pushes = accepted /\ buffer = << >> /\ Len(buffer) = 0
  BY InvariantRanges DEF PushHandsOff, Accept, OneIsEmpty, AcceptsWhileOpen, TypeOK
<1>1. /\ Answered + 1 \in Calls /\ Answered + 1 <= nexts /\ Answered \in Nat
      /\ result[Answered + 1] = Parked
      /\ Gone + 1 \in Values /\ Gone = accepted /\ Gone' = Gone + 1
  BY <1>0, BoundsAssumption DEF Gone, Answered, PushHandsOff, Accept, TypeOK, Calls, Values,
     AnswersPlaced, WaitersAreNewest
<1>2. /\ Len(waiters') = Len(waiters) - 1 /\ waiters' \in Seq(Calls)
      /\ \A i \in 1..Len(waiters') : waiters'[i] = waiters[i + 1]
      /\ Answered' = Answered + 1
  BY <1>0 DEF PushHandsOff, TypeOK, Answered
<1>3. result' = [result EXCEPT ![Answered + 1] = Value(Gone + 1)]
  BY <1>0, <1>1 DEF PushHandsOff, Accept
<1>4. /\ result' \in [Calls -> Answers]
      /\ \A c \in Calls : c # Answered + 1 => result'[c] = result[c]
      /\ result'[Answered + 1] \notin {NotCalled, Parked}
      /\ GoneAccounted' /\ OrderKept' /\ EndsAnnounced' /\ ErrorReachesOne'
      /\ PrefixDelivered'
  BY <1>0, <1>1, <1>3, Delivery DEF PushHandsOff
<1>5. TypeOK'
  <2>1. pushes' \in 0..MaxPush /\ accepted' \in 0..pushes'
    BY BoundsAssumption DEF PushHandsOff, Accept, TypeOK
  <2>. QED  BY <1>2, <1>4, <2>1, Zenon DEF PushHandsOff, TypeOK
<1>6. BufferIsNewest' /\ OneIsEmpty' /\ AcceptsWhileOpen'
  BY <1>0, <1>1 DEF PushHandsOff, Accept, BufferIsNewest, OneIsEmpty, AcceptsWhileOpen,
     isClosed, TypeOK
<1>7. WaitersAreNewest'
  BY <1>0, <1>2 DEF PushHandsOff, WaitersAreNewest, Answered, TypeOK
<1>8. AnswersPlaced'
  BY <1>1, <1>2, <1>4 DEF AnswersPlaced, Calls, PushHandsOff, TypeOK
<1>. QED  BY <1>4, <1>5, <1>6, <1>7, <1>8

LEMMA PushBuffersInv == ASSUME IInv, PushBuffers PROVE IInv'
<1>. USE DEF IInv
<1>1. /\ ~isClosed /\ pushes = accepted /\ accepted' = accepted + 1
      /\ pushes + 1 \in Values /\ accepted \in Nat
  BY BoundsAssumption DEF PushBuffers, Accept, AcceptsWhileOpen, TypeOK, Values
<1>2. /\ buffer' \in Seq(Values) /\ Len(buffer') = Len(buffer) + 1
      /\ \A i \in 1..Len(buffer) : buffer'[i] = buffer[i]
      /\ buffer'[Len(buffer) + 1] = accepted + 1
  BY <1>1 DEF PushBuffers, TypeOK
<1>3. Gone' = Gone /\ Gone \in Nat /\ Gone + Len(buffer) = accepted /\ Len(buffer) \in Nat
  BY <1>1, <1>2 DEF Gone, TypeOK, BufferIsNewest
<1>4. TypeOK'
  <2>1. pushes' \in 0..MaxPush /\ accepted' \in 0..pushes'
    BY BoundsAssumption DEF PushBuffers, Accept, TypeOK
  <2>2. Len(buffer') <= Capacity
    BY <1>2, CapacityAssumption DEF PushBuffers, TypeOK
  <2>. QED  BY <1>2, <2>1, <2>2, Zenon DEF PushBuffers, TypeOK
<1>5. BufferIsNewest'
  <2>1. ASSUME NEW i \in 1..Len(buffer') PROVE buffer'[i] = Gone' + i
    <3>1. CASE i = Len(buffer) + 1
      BY <3>1, <1>2, <1>3
    <3>2. CASE i # Len(buffer) + 1
      BY <3>2, <1>2, <1>3 DEF BufferIsNewest
    <3>. QED  BY <3>1, <3>2
  <2>2. Len(buffer') <= accepted'
    BY <1>1, <1>2, <1>3
  <2>. QED  BY <2>1, <2>2 DEF BufferIsNewest
<1>6. WaitersAreNewest' /\ OneIsEmpty' /\ AnswersPlaced' /\ AcceptsWhileOpen'
  BY <1>1 DEF PushBuffers, Accept, WaitersAreNewest, OneIsEmpty, AnswersPlaced,
     AcceptsWhileOpen, Answered, isClosed, TypeOK
<1>7. GoneAccounted' /\ OrderKept'
  BY <1>3 DEF PushBuffers, GoneAccounted, OrderKept, Delivered
<1>8. EndsAnnounced' /\ ErrorReachesOne' /\ PrefixDelivered'
  BY DEF PushBuffers, EndsAnnounced, ErrorReachesOne, PrefixDelivered, isClosed, Delivered
<1>. QED  BY <1>4, <1>5, <1>6, <1>7, <1>8

(* Evicting keeps the buffer as long as it is and makes its head go.         *)
LEMMA PushEvictsInv == ASSUME IInv, PushEvicts PROVE IInv'
<1>. USE DEF IInv
<1>1. /\ ~isClosed /\ pushes = accepted /\ accepted' = accepted + 1
      /\ pushes + 1 \in Values /\ accepted \in Nat /\ Len(buffer) > 0
      /\ nexts' = nexts /\ droppedCount' \in Nat
      /\ pushes' \in 0..MaxPush /\ accepted' \in 0..pushes' /\ accepted + 1 <= MaxPush
  BY BoundsAssumption, CapacityAssumption
     DEF PushEvicts, Accept, AcceptsWhileOpen, TypeOK, Values
<1>. DEFINE left == Append(buffer, pushes + 1)
<1>2. /\ left \in Seq(Values) /\ Len(left) = Len(buffer) + 1
      /\ \A i \in 1..Len(buffer) : left[i] = buffer[i]
      /\ left[Len(buffer) + 1] = accepted + 1
  BY <1>1 DEF TypeOK
<1>3. Gone \in Nat /\ Gone + Len(buffer) = accepted /\ Len(buffer) \in Nat
  BY <1>1 DEF Gone, TypeOK, BufferIsNewest
<1>4. \A i \in 1..Len(left) : left[i] = Gone + i
  <2>. SUFFICES ASSUME NEW i \in 1..Len(left) PROVE left[i] = Gone + i
    OBVIOUS
  <2>1. CASE i = Len(buffer) + 1
    BY <2>1, <1>2, <1>3
  <2>2. CASE i # Len(buffer) + 1
    BY <2>2, <1>2, <1>3 DEF BufferIsNewest
  <2>. QED  BY <2>1, <2>2
<1>5. CASE FatalLag
  <2>1. Range(left) = (Gone + 1)..(accepted + 1)
    <3>1. ASSUME NEW v \in Range(left) PROVE v \in (Gone + 1)..(accepted + 1)
      <4>1. PICK i \in 1..Len(left) : v = left[i]
        BY <1>2 DEF Range
      <4>. QED  BY <4>1, <1>2, <1>3, <1>4
    <3>2. ASSUME NEW v \in (Gone + 1)..(accepted + 1) PROVE v \in Range(left)
      <4>1. v - Gone \in 1..Len(left) /\ left[v - Gone] = v
        BY <1>2, <1>3, <1>4
      <4>. QED  BY <4>1, <1>2 DEF Range
    <3>. QED  BY <3>1, <3>2
  <2>2. CloseDiscarding("error", left)
    BY <1>5 DEF PushEvicts
  <2>3. accepted + 1 \in Nat /\ accepted <= accepted + 1
    BY <1>1
  <2>. HIDE DEF left
  <2>4. /\ buffer' \in Seq(Values) /\ Len(buffer') <= Capacity
        /\ waiters' \in Seq(Calls) /\ terminal' \in {"open", "done", "error"}
        /\ errorDelivered' \in BOOLEAN
        /\ result' \in [Calls -> Answers] /\ discarded' \subseteq Values
        /\ BufferIsNewest' /\ WaitersAreNewest' /\ OneIsEmpty' /\ AnswersPlaced'
        /\ AcceptsWhileOpen' /\ GoneAccounted' /\ OrderKept' /\ EndsAnnounced'
        /\ ErrorReachesOne' /\ PrefixDelivered'
    BY <1>1, <1>2, <2>1, <2>2, <2>3, Closing
  <2>5. nexts' \in 0..MaxNext
    BY <1>1 DEF TypeOK
  <2>6. TypeOK'
    BY <1>1, <2>4, <2>5, Zenon DEF TypeOK
  <2>. QED  BY <2>4, <2>6
<1>6. CASE ~FatalLag
  <2>1. /\ buffer' = Tail(left) /\ discarded' = discarded \cup {Head(buffer)}
        /\ UNCHANGED <<waiters, terminal, errorDelivered, result, nexts>>
    BY <1>6 DEF PushEvicts
  <2>2. /\ buffer' \in Seq(Values) /\ Len(buffer') = Len(buffer)
        /\ \A i \in 1..Len(buffer') : buffer'[i] = left[i + 1]
    BY <1>2, <2>1
  <2>3. Head(buffer) = Gone + 1 /\ Gone + 1 \in Values /\ Gone' = Gone + 1
    <3>1. Head(buffer) = Gone + 1 /\ Gone + 1 \in Values
      BY <1>1, <1>3, InvariantRanges, BoundsAssumption DEF Values, TypeOK
    <3>2. Gone' = Gone + 1
      BY <1>1, <1>3, <2>2 DEF Gone
    <3>. QED  BY <3>1, <3>2
  <2>4. TypeOK'
    <3>1. discarded' \subseteq Values
      BY <2>1, <2>3 DEF TypeOK
    <3>2. Len(buffer') <= Capacity
      BY <2>2 DEF TypeOK
    <3>. QED  BY <1>1, <2>1, <2>2, <3>1, <3>2, Zenon DEF TypeOK
  <2>5. BufferIsNewest'
    <3>1. Len(buffer') <= accepted'
      BY <1>1, <1>3, <2>2
    <3>2. ASSUME NEW i \in 1..Len(buffer') PROVE buffer'[i] = Gone' + i
      <4>1. i \in Nat /\ i + 1 \in 1..Len(left) /\ buffer'[i] = left[i + 1]
        BY <1>2, <1>3, <2>2
      <4>2. left[i + 1] = Gone + (i + 1)
        BY <4>1, <1>4
      <4>. QED  BY <4>1, <4>2, <1>3, <2>3
    <3>. QED  BY <3>1, <3>2 DEF BufferIsNewest
  <2>6. WaitersAreNewest' /\ OneIsEmpty' /\ AnswersPlaced' /\ AcceptsWhileOpen'
    BY <1>1, <2>1 DEF PushEvicts, Accept, WaitersAreNewest, OneIsEmpty, AnswersPlaced,
       AcceptsWhileOpen, Answered, isClosed, TypeOK
  <2>7. GoneAccounted'
    <3>1. discarded' = discarded \cup {Gone + 1} /\ result' = result
      BY <2>1, <2>3
    <3>2. \A v \in 1..Gone' : v = Gone + 1 \/ v \in 1..Gone
      BY <1>3, <2>3
    <3>3. ASSUME NEW v \in 1..Gone' PROVE Delivered(v)' \/ v \in discarded'
      BY <3>1, <3>2 DEF GoneAccounted, Delivered
    <3>4. discarded' \subseteq 1..Gone'
      BY <1>3, <2>3, <3>1 DEF GoneAccounted
    <3>5. ASSUME NEW c \in Calls, result'[c].type = "value"
          PROVE  result'[c].value \in 1..Gone' /\ result'[c].value \notin discarded'
      BY <1>3, <2>3, <3>1, <3>5 DEF GoneAccounted
    <3>. QED  BY <3>3, <3>4, <3>5 DEF GoneAccounted
  <2>8. OrderKept' /\ PrefixDelivered'
    BY <1>6, <2>1 DEF OrderKept, PrefixDelivered
  <2>9. EndsAnnounced' /\ ErrorReachesOne'
    BY <2>1 DEF EndsAnnounced, ErrorReachesOne, isClosed
  <2>. QED  BY <2>4, <2>5, <2>6, <2>7, <2>8, <2>9
<1>. QED  BY <1>5, <1>6

LEMMA PushInv == ASSUME IInv, Push PROVE IInv'
BY PushIgnoredInv, PushHandsOffInv, PushBuffersInv, PushEvictsInv DEF Push
-------------------------------------------------------------------------------
(* markLagged, close and return.                                             *)
LEMMA CloseBufferInv ==
  ASSUME IInv, ~isClosed, NEW end \in {"done", "error"},
         CloseDiscarding(end, buffer), droppedCount' \in Nat,
         UNCHANGED <<pushes, accepted, nexts>>
  PROVE  IInv'
<1>. USE DEF IInv
<1>1. /\ buffer \in Seq(Values) /\ accepted \in Nat /\ accepted <= MaxPush
      /\ accepted' = accepted /\ nexts' = nexts
      /\ Range(buffer) = (Gone + 1)..accepted
  BY InvariantRanges, BoundsAssumption DEF TypeOK
<1>2. /\ buffer' \in Seq(Values) /\ Len(buffer') <= Capacity
      /\ waiters' \in Seq(Calls) /\ terminal' \in {"open", "done", "error"}
      /\ errorDelivered' \in BOOLEAN
      /\ result' \in [Calls -> Answers] /\ discarded' \subseteq Values
      /\ BufferIsNewest' /\ WaitersAreNewest' /\ OneIsEmpty' /\ AnswersPlaced'
      /\ AcceptsWhileOpen' /\ GoneAccounted' /\ OrderKept' /\ EndsAnnounced'
      /\ ErrorReachesOne' /\ PrefixDelivered'
  BY <1>1, Closing
<1>3. /\ pushes' \in 0..MaxPush /\ accepted' \in 0..pushes'
      /\ nexts' \in 0..MaxNext
  BY DEF TypeOK
<1>4. TypeOK'
  BY <1>2, <1>3, Zenon DEF TypeOK
<1>. QED  BY <1>2, <1>4

LEMMA MarkLaggedInv == ASSUME IInv, markLagged PROVE IInv'
<1>. USE DEF IInv
<1>1. droppedCount' \in Nat /\ ~isClosed /\ UNCHANGED <<pushes, accepted, nexts>>
  BY DEF markLagged, TypeOK
<1>2. CASE FatalLag
  BY <1>1, <1>2, CloseBufferInv DEF markLagged
<1>3. CASE ~FatalLag
  <2>1. UNCHANGED <<buffer, waiters, terminal, errorDelivered, result, discarded>>
    BY <1>3 DEF markLagged
  <2>2. TypeOK'
    <3>1. /\ pushes' \in 0..MaxPush /\ accepted' \in 0..pushes'
          /\ nexts' \in 0..MaxNext /\ Len(buffer') <= Capacity
      BY <1>1, <2>1 DEF TypeOK
    <3>. QED  BY <1>1, <2>1, <3>1, Zenon DEF TypeOK
  <2>3. BufferIsNewest' /\ WaitersAreNewest' /\ OneIsEmpty' /\ AnswersPlaced'
        /\ AcceptsWhileOpen'
    BY <1>1, <2>1 DEF BufferIsNewest, WaitersAreNewest, OneIsEmpty, AnswersPlaced,
       AcceptsWhileOpen, Gone, Answered, isClosed
  <2>4. GoneAccounted' /\ OrderKept' /\ PrefixDelivered'
    BY <1>1, <1>3, <2>1 DEF GoneAccounted, OrderKept, PrefixDelivered, Gone, Delivered
  <2>5. EndsAnnounced' /\ ErrorReachesOne'
    BY <2>1 DEF EndsAnnounced, ErrorReachesOne, isClosed
  <2>. QED  BY <2>2, <2>3, <2>4, <2>5
<1>. QED  BY <1>2, <1>3

LEMMA CloseInv == ASSUME IInv, NEW end \in {"done", "error"}, close(end) PROVE IInv'
<1>1. droppedCount' \in Nat
  BY DEF close, IInv, TypeOK
<1>. QED  BY <1>1, CloseBufferInv DEF close
-------------------------------------------------------------------------------
(* next.                                                                     *)
LEMMA NextTakesInv == ASSUME IInv, NextTakes PROVE IInv'
<1>. USE DEF IInv
<1>1. /\ ~isClosed /\ waiters = << >> /\ Len(waiters) = 0 /\ Len(buffer) > 0
      /\ Head(buffer) = Gone + 1 /\ nexts' = nexts + 1 /\ nexts + 1 \in Calls
      /\ nexts \in Nat /\ Answered = nexts
  BY InvariantRanges, BoundsAssumption DEF NextTakes, Call, OneIsEmpty, TypeOK, Calls, Answered
<1>2. /\ buffer' \in Seq(Values) /\ Len(buffer') = Len(buffer) - 1
      /\ \A i \in 1..Len(buffer') : buffer'[i] = buffer[i + 1]
      /\ Gone' = Gone + 1 /\ Gone + 1 \in Values /\ Gone \in Nat
  <2>1. /\ buffer' \in Seq(Values) /\ Len(buffer') = Len(buffer) - 1
        /\ \A i \in 1..Len(buffer') : buffer'[i] = buffer[i + 1]
    BY <1>1 DEF NextTakes, TypeOK
  <2>2. Gone \in Nat /\ Gone + Len(buffer) = accepted /\ accepted <= MaxPush
    BY BoundsAssumption DEF Gone, BufferIsNewest, TypeOK
  <2>3. Gone' = Gone + 1
    BY <2>1, <2>2 DEF Gone, NextTakes, TypeOK
  <2>. QED  BY <1>1, <2>1, <2>2, <2>3, BoundsAssumption DEF Values
<1>3. result' = [result EXCEPT ![Answered + 1] = Value(Gone + 1)]
      /\ result[Answered + 1] = NotCalled
  <2>1. result' = [result EXCEPT ![nexts + 1] = Value(Head(buffer))]
    BY DEF NextTakes
  <2>2. result[nexts + 1] = NotCalled
    BY <1>1 DEF AnswersPlaced
  <2>. QED  BY <1>1, <2>1, <2>2
<1>4. /\ result' \in [Calls -> Answers]
      /\ \A c \in Calls : c # Answered + 1 => result'[c] = result[c]
      /\ result'[Answered + 1] \notin {NotCalled, Parked}
      /\ GoneAccounted' /\ OrderKept' /\ EndsAnnounced' /\ ErrorReachesOne'
      /\ PrefixDelivered'
  BY <1>1, <1>2, <1>3, Delivery DEF NextTakes
<1>5. TypeOK'
  <2>1. /\ pushes' \in 0..MaxPush /\ accepted' \in 0..pushes' /\ nexts' \in 0..MaxNext
        /\ Len(buffer') <= Capacity
    BY <1>1, <1>2, CapacityAssumption DEF NextTakes, Call, TypeOK, Calls
  <2>. QED  BY <1>2, <1>4, <2>1, Zenon DEF NextTakes, TypeOK
<1>6. BufferIsNewest'
  <2>1. \A i \in 1..Len(buffer') : buffer'[i] = Gone' + i
    BY <1>1, <1>2 DEF BufferIsNewest, TypeOK
  <2>2. accepted' = accepted /\ accepted \in Nat /\ Len(buffer) <= accepted
    BY DEF NextTakes, BufferIsNewest, TypeOK
  <2>3. Len(buffer') <= accepted'
    BY <1>1, <1>2, <2>2
  <2>. QED  BY <2>1, <2>3 DEF BufferIsNewest
<1>7. WaitersAreNewest' /\ OneIsEmpty' /\ AcceptsWhileOpen'
  BY <1>1 DEF NextTakes, WaitersAreNewest, OneIsEmpty, AcceptsWhileOpen, isClosed
<1>8. AnswersPlaced'
  <2>1. Answered' = nexts + 1
    BY <1>1 DEF Answered, NextTakes
  <2>. QED  BY <1>1, <1>4, <2>1 DEF AnswersPlaced, Calls
<1>. QED  BY <1>4, <1>5, <1>6, <1>7, <1>8

LEMMA NextToldInv == ASSUME IInv, NextTold PROVE IInv'
<1>. USE DEF IInv
<1>. DEFINE c0 == nexts + 1
<1>1. /\ isClosed /\ waiters = << >> /\ Len(waiters) = 0 /\ nexts' = c0 /\ c0 \in Calls
      /\ nexts \in Nat /\ Answered = nexts /\ result[c0] = NotCalled
  BY BoundsAssumption DEF NextTold, Call, OneIsEmpty, TypeOK, Calls, Answered, AnswersPlaced
<1>2. /\ \A c \in Calls : result'[c] = IF c = c0 THEN LateAnswer ELSE result[c]
      /\ result' \in [Calls -> Answers]
      /\ LateAnswer \in {Done, Error}
  BY AnswerKinds DEF NextTold, LateAnswer, TypeOK
<1>3. TypeOK'
  <2>1. /\ pushes' \in 0..MaxPush /\ accepted' \in 0..pushes' /\ nexts' \in 0..MaxNext
        /\ Len(buffer') <= Capacity
    BY <1>1 DEF NextTold, Call, TypeOK, Calls
  <2>2. errorDelivered' \in BOOLEAN
    BY Zenon DEF NextTold
  <2>. QED  BY <1>2, <2>1, <2>2, Zenon DEF NextTold, TypeOK
<1>4. BufferIsNewest' /\ WaitersAreNewest' /\ OneIsEmpty' /\ AcceptsWhileOpen'
  BY <1>1 DEF NextTold, BufferIsNewest, WaitersAreNewest, OneIsEmpty, AcceptsWhileOpen,
     Gone, isClosed, TypeOK
<1>5. AnswersPlaced'
  <2>1. Answered' = c0
    BY <1>1 DEF Answered, NextTold
  <2>. QED  BY <1>1, <1>2, <2>1, AnswerKinds DEF AnswersPlaced, Calls
<1>6. \A c \in Calls : /\ result'[c].type = "value" <=> result[c].type = "value"
                       /\ result'[c].type = "value" => result'[c] = result[c]
  BY <1>1, <1>2, AnswerKinds
<1>7. \A v \in Values : Delivered(v)' <=> Delivered(v)
  BY <1>6, AnswerKinds DEF Delivered
<1>8. GoneAccounted'
  <2>1. Gone' = Gone /\ discarded' = discarded
    BY DEF NextTold, Gone
  <2>2. \A v \in 1..Gone : v \in Values
    BY BoundsAssumption DEF Gone, Values, TypeOK
  <2>. QED  BY <1>6, <1>7, <2>1, <2>2 DEF GoneAccounted
<1>9. OrderKept'
  BY <1>6 DEF OrderKept
<1>10. PrefixDelivered'
  <2>1. \A w \in Values : \A v \in 1..w : v \in Values
    BY BoundsAssumption DEF Values
  <2>. QED  BY <1>1, <1>7, <2>1 DEF PrefixDelivered, NextTold, isClosed
<1>11. EndsAnnounced' /\ ErrorReachesOne'
  <2>1. terminal' = terminal /\ isClosed'
    BY <1>1 DEF NextTold, isClosed
  <2>2. CASE terminal = "error" /\ ~errorDelivered
    <3>1. \A c \in Calls : result'[c] = Error <=> c = c0
      BY <1>1, <1>2, <2>2, AnswerKinds DEF LateAnswer, EndsAnnounced
    <3>2. \A c \in Calls : result'[c] # Done
      BY <1>1, <1>2, <2>2, <3>1, AnswerKinds DEF LateAnswer, EndsAnnounced, ErrorReachesOne
    <3>3. errorDelivered'
      BY <2>2, Zenon DEF NextTold
    <3>4. EndsAnnounced'
      BY <1>1, <2>1, <2>2, <3>1, <3>3, Zenon DEF EndsAnnounced
    <3>. QED  BY <3>1, <3>2, <3>4 DEF ErrorReachesOne
  <2>3. CASE ~(terminal = "error" /\ ~errorDelivered)
    <3>1. \A c \in Calls : result'[c] = Error <=> result[c] = Error
      BY <1>1, <1>2, <2>3, AnswerKinds DEF LateAnswer
    <3>2. errorDelivered' <=> errorDelivered
      BY <2>3, Zenon DEF NextTold, EndsAnnounced
    <3>3. EndsAnnounced'
      BY <2>1, <3>1, <3>2, Zenon DEF EndsAnnounced
    <3>4. ASSUME terminal = "error", NEW d \in Calls, result'[d] = Done
          PROVE  \E c \in Calls : c < d /\ result'[c] = Error
      <4>1. CASE d = c0
        <5>1. PICK c \in Calls : result[c] = Error
          BY <2>3, <3>4 DEF EndsAnnounced
        <5>2. c < c0
          BY <5>1, <1>1, AnswerKinds DEF AnswersPlaced, Calls
        <5>. QED  BY <4>1, <5>1, <5>2, <3>1
      <4>2. CASE d # c0
        BY <3>1, <3>4, <4>2, <1>2 DEF ErrorReachesOne
      <4>. QED  BY <4>1, <4>2
    <3>. QED  BY <2>1, <3>1, <3>3, <3>4 DEF ErrorReachesOne
  <2>. QED  BY <2>2, <2>3
<1>. QED  BY <1>3, <1>4, <1>5, <1>8, <1>9, <1>10, <1>11

LEMMA NextParksInv == ASSUME IInv, NextParks PROVE IInv'
<1>. USE DEF IInv
<1>. DEFINE c0 == nexts + 1
<1>1. /\ ~isClosed /\ buffer = << >> /\ nexts' = c0 /\ c0 \in Calls /\ nexts \in Nat
      /\ result[c0] = NotCalled
  BY BoundsAssumption DEF NextParks, Call, TypeOK, Calls, AnswersPlaced
<1>2. /\ \A c \in Calls : result'[c] = IF c = c0 THEN Parked ELSE result[c]
      /\ result' \in [Calls -> Answers]
  BY <1>1, AnswerKinds DEF NextParks, TypeOK
<1>3. /\ waiters' \in Seq(Calls) /\ Len(waiters') = Len(waiters) + 1
      /\ \A i \in 1..Len(waiters) : waiters'[i] = waiters[i]
      /\ waiters'[Len(waiters) + 1] = c0
  BY <1>1 DEF NextParks, TypeOK
<1>4. /\ Answered' = Answered /\ Answered \in Nat /\ Answered + Len(waiters) = nexts
      /\ Len(waiters) \in Nat
  BY <1>1, <1>3 DEF Answered, WaitersAreNewest, TypeOK
<1>5. TypeOK'
  <2>1. /\ pushes' \in 0..MaxPush /\ accepted' \in 0..pushes' /\ nexts' \in 0..MaxNext
        /\ Len(buffer') <= Capacity
    BY <1>1 DEF NextParks, Call, TypeOK, Calls
  <2>. QED  BY <1>2, <1>3, <2>1, Zenon DEF NextParks, TypeOK
<1>6. WaitersAreNewest'
  <2>1. ASSUME NEW i \in 1..Len(waiters') PROVE waiters'[i] = Answered' + i
    <3>1. CASE i = Len(waiters) + 1
      BY <3>1, <1>3, <1>4
    <3>2. CASE i # Len(waiters) + 1
      BY <3>2, <1>3, <1>4 DEF WaitersAreNewest
    <3>. QED  BY <3>1, <3>2
  <2>2. Len(waiters') <= nexts'
    BY <1>1, <1>3, <1>4
  <2>. QED  BY <2>1, <2>2 DEF WaitersAreNewest
<1>7. BufferIsNewest' /\ OneIsEmpty' /\ AcceptsWhileOpen'
  BY <1>1 DEF NextParks, BufferIsNewest, OneIsEmpty, AcceptsWhileOpen, Gone, isClosed
<1>8. AnswersPlaced'
  BY <1>1, <1>2, <1>4, AnswerKinds DEF AnswersPlaced, Calls
<1>9. \A c \in Calls : /\ result'[c].type = "value" <=> result[c].type = "value"
                       /\ result'[c].type = "value" => result'[c] = result[c]
                       /\ result'[c] = Error <=> result[c] = Error
                       /\ result'[c] = Done <=> result[c] = Done
  BY <1>1, <1>2, AnswerKinds
<1>10. \A v \in Values : Delivered(v)' <=> Delivered(v)
  BY <1>9, AnswerKinds DEF Delivered
<1>11. GoneAccounted'
  <2>1. Gone' = Gone /\ discarded' = discarded
    BY DEF NextParks, Gone
  <2>2. \A v \in 1..Gone : v \in Values
    BY BoundsAssumption DEF Gone, Values, TypeOK
  <2>. QED  BY <1>9, <1>10, <2>1, <2>2 DEF GoneAccounted
<1>12. OrderKept'
  BY <1>9 DEF OrderKept
<1>13. PrefixDelivered'
  <2>1. \A w \in Values : \A v \in 1..w : v \in Values
    BY BoundsAssumption DEF Values
  <2>. QED  BY <1>1, <1>10, <2>1 DEF PrefixDelivered, NextParks, isClosed
<1>14. EndsAnnounced' /\ ErrorReachesOne'
  BY <1>1, <1>9 DEF NextParks, EndsAnnounced, ErrorReachesOne, isClosed
<1>. QED  BY <1>5, <1>6, <1>7, <1>8, <1>11, <1>12, <1>13, <1>14
-------------------------------------------------------------------------------
LEMMA StutterInv == ASSUME IInv, UNCHANGED queueVars PROVE IInv'
<1>. USE DEF IInv, queueVars
<1>1. TypeOK'
  <2>1. /\ pushes' \in 0..MaxPush /\ accepted' \in 0..pushes' /\ nexts' \in 0..MaxNext
        /\ Len(buffer') <= Capacity
    BY DEF TypeOK
  <2>. QED  BY <2>1, Zenon DEF TypeOK
<1>2. BufferIsNewest' /\ WaitersAreNewest' /\ OneIsEmpty' /\ AnswersPlaced'
      /\ AcceptsWhileOpen'
  BY DEF BufferIsNewest, WaitersAreNewest, OneIsEmpty, AnswersPlaced, AcceptsWhileOpen,
     Gone, Answered, isClosed
<1>3. GoneAccounted' /\ OrderKept' /\ PrefixDelivered'
  BY DEF GoneAccounted, OrderKept, PrefixDelivered, Gone, Delivered, isClosed
<1>4. EndsAnnounced' /\ ErrorReachesOne'
  BY DEF EndsAnnounced, ErrorReachesOne, isClosed
<1>. QED  BY <1>1, <1>2, <1>3, <1>4

LEMMA StepInv == ASSUME IInv, [Next]_queueVars PROVE IInv'
<1>1. CASE Push
  BY <1>1, PushInv
<1>2. CASE markLagged
  BY <1>2, MarkLaggedInv
<1>3. CASE \E end \in {"done", "error"} : close(end)
  BY <1>3, CloseInv
<1>4. CASE next
  BY <1>4, NextTakesInv, NextToldInv, NextParksInv DEF next
<1>5. CASE UNCHANGED queueVars
  BY <1>5, StutterInv
<1>. QED  BY <1>1, <1>2, <1>3, <1>4, <1>5 DEF Next
-------------------------------------------------------------------------------
(* The inductive invariant: the buffer is the newest values, the waiters are *)
(* the newest calls, everything older is accounted for and in order.         *)
THEOREM Inductive == Spec => []IInv
BY InitInv, StepInv, PTL DEF Spec

(* Types, and the bound on the buffer, for every capacity.                   *)
THEOREM TypeCorrect == Spec => []TypeOK
<1>1. IInv => TypeOK
  BY DEF IInv
<1>. QED  BY <1>1, Inductive, PTL

(* Every value accepted by push is delivered once, dropped or still there.   *)
THEOREM ValuesAccounted == Spec => []EveryValueAccounted
<1>1. IInv => EveryValueAccounted
  <2>. SUFFICES ASSUME IInv PROVE EveryValueAccounted
    OBVIOUS
  <2>. USE DEF IInv
  <2>1. ASSUME NEW v \in 1..accepted
        PROVE  /\ Buffered(v) \/ Delivered(v) \/ v \in discarded
               /\ ~(Buffered(v) /\ (Delivered(v) \/ v \in discarded))
               /\ ~(Delivered(v) /\ v \in discarded)
    <3>1. Buffered(v) <=> v \in (Gone + 1)..accepted
      BY InvariantRanges DEF Buffered
    <3>2. v \in Values
      BY BoundsAssumption DEF Values, TypeOK
    <3>3. Delivered(v) => v \in 1..Gone /\ v \notin discarded
      BY <3>2, AnswerKinds DEF Delivered, GoneAccounted
    <3>4. v \in 1..Gone <=> ~(v \in (Gone + 1)..accepted)
      BY DEF Gone, TypeOK
    <3>. QED  BY <3>1, <3>3, <3>4 DEF GoneAccounted
  <2>2. ASSUME NEW c \in Calls, NEW d \in Calls,
               result[c].type = "value", result[c] = result[d], c # d
        PROVE  FALSE
    <3>1. result[c].value \in Int
      BY <2>2 DEF GoneAccounted
    <3>2. c < d \/ d < c
      BY <2>2 DEF Calls
    <3>. QED  BY <2>2, <3>1, <3>2 DEF OrderKept
  <2>. QED  BY <2>1, <2>2 DEF EveryValueAccounted
<1>. QED  BY <1>1, Inductive, PTL

(* However many consumers share the queue, they see the values in order.     *)
THEOREM Ordered == Spec => []InOrder
<1>1. IInv => InOrder
  <2>. SUFFICES ASSUME IInv PROVE InOrder
    OBVIOUS
  <2>1. \A c \in 1..nexts : c \in Calls
    BY BoundsAssumption DEF IInv, TypeOK, Calls
  <2>. QED  BY <2>1 DEF IInv, OrderKept, InOrder
<1>. QED  BY <1>1, Inductive, PTL

(* A parked consumer always waits for something that can still come.         *)
THEOREM NobodyParkedInVain == Spec => []NobodyHangs
<1>1. IInv => NobodyHangs
  <2>. SUFFICES ASSUME IInv PROVE NobodyHangs
    OBVIOUS
  <2>. SUFFICES ASSUME NEW c \in Calls, result[c] = Parked
                PROVE  ~isClosed /\ buffer = << >>
    BY DEF NobodyHangs
  <2>1. Answered < nexts
    BY DEF IInv, AnswersPlaced, Answered, Calls, TypeOK
  <2>2. Len(waiters) > 0
    BY <2>1 DEF IInv, Answered, TypeOK
  <2>3. waiters # << >>
    BY <2>2
  <2>. QED  BY <2>3 DEF IInv, OneIsEmpty
<1>. QED  BY <1>1, Inductive, PTL

(* The terminal error is told once, and before anybody is told of the end.   *)
THEOREM ErrorToldOnce == Spec => []ErrorReachesOne
<1>1. IInv => ErrorReachesOne
  BY DEF IInv
<1>. QED  BY <1>1, Inductive, PTL

(* With a fatal lag the delivered values are a prefix of the pushed ones.    *)
THEOREM DeliveredIsPrefix == Spec => []NoHole
<1>1. IInv => NoHole
  <2>. SUFFICES ASSUME IInv PROVE NoHole
    OBVIOUS
  <2>1. \A w \in 1..accepted : w \in Values
    BY BoundsAssumption DEF IInv, TypeOK, Values
  <2>. QED  BY <2>1 DEF IInv, PrefixDelivered, NoHole
<1>. QED  BY <1>1, Inductive, PTL
-------------------------------------------------------------------------------
(* Holes.  While the queue is open nothing but an overflow discards a value, *)
(* so those discarded are counted; closing discards the rest of the buffer,  *)
(* which is newer than anything delivered.                                   *)

HolesInv ==
  /\ ~isClosed => Cardinality(discarded) <= droppedCount
  /\ HolesAreTold

\* Of an answer given nothing is taken back.
LEMMA AnswersStay ==
  ASSUME IInv, [Next]_queueVars
  PROVE  \A v \in Values : Delivered(v) => Delivered(v)'
<1>. SUFFICES ASSUME NEW c \in Calls, NEW v \in Values, result[c] = Value(v)
              PROVE  result'[c] = Value(v)
  BY DEF Delivered
<1>1. /\ result \in [Calls -> Answers] /\ result[c].type = "value" /\ c <= nexts
      /\ ~(Answered < c)
  <2>1. result[c].type = "value" /\ result[c] # NotCalled /\ result[c] # Parked
    BY AnswerKinds
  <2>2. ~(c > nexts) /\ ~(Answered < c /\ c <= nexts)
    BY <2>1 DEF IInv, AnswersPlaced
  <2>3. Answered \in Int /\ nexts \in Int /\ c \in Int
    BY DEF IInv, TypeOK, Answered, Calls
  <2>. QED
    BY <2>1, <2>2, <2>3 DEF IInv, TypeOK
<1>2. /\ c \notin Range(waiters)
      /\ waiters # << >> => Head(waiters) # c
  <2>1. /\ Range(waiters) = (Answered + 1)..nexts
        /\ waiters # << >> => Head(waiters) = Answered + 1
    BY InvariantRanges DEF IInv
  <2>2. Answered \in Int /\ nexts \in Int /\ c \in Int
    BY DEF IInv, TypeOK, Answered, Calls
  <2>. QED
    BY <1>1, <2>1, <2>2
<1>3. c # nexts + 1
  BY <1>1 DEF IInv, TypeOK
<1>4. CASE PushHandsOff
  BY <1>1, <1>2, <1>4 DEF PushHandsOff
<1>5. CASE NextTakes \/ NextTold \/ NextParks
  BY <1>1, <1>3, <1>5 DEF NextTakes, NextTold, NextParks
<1>6. ASSUME NEW end, NEW left, CloseDiscarding(end, left)
      PROVE  result'[c] = result[c]
  BY <1>2, <1>6 DEF CloseDiscarding, Settled
<1>7. CASE PushEvicts \/ markLagged \/ \E end \in {"done", "error"} : close(end)
  BY <1>6, <1>7 DEF PushEvicts, markLagged, close
<1>8. CASE PushIgnored \/ PushBuffers \/ UNCHANGED queueVars
  BY <1>8 DEF PushIgnored, PushBuffers, queueVars
<1>. QED
  BY <1>4, <1>5, <1>7, <1>8 DEF Next, Push, next

\* A value is only delivered while the queue is open, and then none is discarded.
LEMMA DeliversWhileOpen ==
  ASSUME IInv, [Next]_queueVars,
         NEW v \in Values, Delivered(v)', ~Delivered(v)
  PROVE  ~isClosed /\ ~isClosed' /\ discarded' = discarded
<1>. PICK c \in Calls : result'[c] = Value(v) /\ result[c] # Value(v)
  BY DEF Delivered
<1>1. /\ result \in [Calls -> Answers]
      /\ \A a \in {Done, Error, Parked} : a # Value(v)
  BY AnswerKinds DEF IInv, TypeOK
<1>2. CASE PushHandsOff
  BY <1>2 DEF PushHandsOff, Accept, isClosed
<1>3. CASE NextTakes
  BY <1>3 DEF NextTakes, IInv, OneIsEmpty, isClosed
<1>4. ~NextTold /\ ~NextParks
  BY <1>1 DEF NextTold, NextParks, LateAnswer
<1>5. ASSUME NEW end, NEW left, CloseDiscarding(end, left)
      PROVE  FALSE
  BY <1>1, <1>5 DEF CloseDiscarding, Settled
<1>6. ~(PushIgnored \/ PushBuffers \/ UNCHANGED queueVars)
  BY DEF PushIgnored, PushBuffers, queueVars
<1>7. ~(PushEvicts \/ markLagged \/ \E end \in {"done", "error"} : close(end))
  BY <1>5 DEF PushEvicts, markLagged, close
<1>. QED
  BY <1>2, <1>3, <1>4, <1>6, <1>7 DEF Next, Push, next

\* Whatever an open queue discards it counts.
LEMMA DiscardsCounted ==
  ASSUME IInv, [Next]_queueVars
  PROVE  /\ droppedCount \in Nat /\ droppedCount' \in Nat /\ droppedCount <= droppedCount'
         /\ ~isClosed' =>
              /\ ~isClosed
              /\ \/ discarded' = discarded
                 \/ \E v : discarded' = discarded \cup {v} /\ droppedCount' = droppedCount + 1
<1>1. droppedCount \in Nat
  BY DEF IInv, TypeOK
<1>2. CASE PushEvicts
  <2>1. droppedCount' = droppedCount + 1
    BY <1>2 DEF PushEvicts
  <2>2. ~isClosed
    BY <1>2 DEF PushEvicts, Accept
  <2>3. CASE FatalLag
    BY <1>1, <1>2, <2>1, <2>3 DEF PushEvicts, CloseDiscarding, isClosed
  <2>4. CASE ~FatalLag
    <3>1. discarded' = discarded \cup {Head(buffer)}
      BY <1>2, <2>4 DEF PushEvicts
    <3>2. \E v : discarded' = discarded \cup {v} /\ droppedCount' = droppedCount + 1
      BY <2>1, <3>1
    <3>3. droppedCount' \in Nat /\ droppedCount <= droppedCount'
      BY <1>1, <2>1
    <3>. QED
      BY <1>1, <2>2, <3>2, <3>3
  <2>. QED
    BY <2>3, <2>4
<1>3. CASE markLagged
  <2>1. droppedCount' = droppedCount + 1 /\ ~isClosed
    BY <1>3 DEF markLagged
  <2>2. ~isClosed' => discarded' = discarded
    BY <1>3 DEF markLagged, CloseDiscarding, isClosed
  <2>. QED
    BY <1>1, <2>1, <2>2
<1>4. CASE \E end \in {"done", "error"} : close(end)
  BY <1>1, <1>4 DEF close, CloseDiscarding, isClosed
<1>5. CASE PushIgnored \/ PushHandsOff \/ PushBuffers \/ next \/ UNCHANGED queueVars
  <2>1. UNCHANGED <<droppedCount, discarded, terminal>>
    BY <1>5 DEF PushIgnored, PushHandsOff, PushBuffers, next, NextTakes, NextTold, NextParks,
       queueVars
  <2>. QED
    BY <1>1, <2>1 DEF isClosed
<1>. QED
  BY <1>2, <1>3, <1>4, <1>5 DEF Next, Push

LEMMA HolesStep ==
  ASSUME IInv, IInv', HolesInv, [Next]_queueVars
  PROVE  HolesInv'
<1>1. IsFiniteSet(discarded) /\ IsFiniteSet(discarded')
  <2>1. IsFiniteSet(Values)
    BY BoundsAssumption, FS_Interval DEF Values
  <2>. QED
    BY <2>1, FS_Subset DEF IInv, TypeOK
<1>2. Cardinality(discarded) \in Nat /\ Cardinality(discarded') \in Nat
  BY <1>1, FS_CardinalityType
<1>3. droppedCount \in Nat /\ droppedCount' \in Nat /\ droppedCount <= droppedCount'
  BY DiscardsCounted
<1>4. ASSUME ~isClosed'
      PROVE  Cardinality(discarded') <= droppedCount'
  <2>1. Cardinality(discarded) <= droppedCount
    BY <1>4, DiscardsCounted DEF HolesInv
  <2>2. CASE discarded' = discarded
    BY <1>2, <1>3, <2>1, <2>2
  <2>3. ASSUME NEW v, discarded' = discarded \cup {v}, droppedCount' = droppedCount + 1
        PROVE  Cardinality(discarded') <= droppedCount'
    BY <1>1, <1>2, <1>3, <2>1, <2>3, FS_AddElement
  <2>. QED
    BY <1>4, <2>2, <2>3, DiscardsCounted
<1>5. ASSUME NEW w \in 1..accepted', Delivered(w)'
      PROVE  Cardinality({v \in 1..w : ~Delivered(v)'}) <= droppedCount'
  <2>. DEFINE missing == {v \in 1..w : ~Delivered(v)}
              missingNext == {v \in 1..w : ~Delivered(v)'}
  <2>1. w \in Values /\ w \in Nat /\ \A v \in 1..w : v \in Values
    BY BoundsAssumption DEF IInv, TypeOK, Values
  <2>2. CASE Delivered(w)
    <3>1. w \in 1..accepted
      <4>1. w \in 1..Gone
        BY <2>1, <2>2, AnswerKinds DEF Delivered, IInv, GoneAccounted
      <4>. QED
        BY <4>1 DEF Gone, IInv, TypeOK
    <3>2. Cardinality(missing) <= droppedCount
      BY <2>2, <3>1 DEF HolesInv, HolesAreTold
    <3>3. missingNext \subseteq missing
      BY <2>1, AnswersStay
    <3>4. IsFiniteSet(missing)
      <4>1. IsFiniteSet(1..w)
        BY <2>1, FS_Interval
      <4>. QED
        BY <4>1, FS_Subset
    <3>5. Cardinality(missingNext) <= Cardinality(missing) /\ IsFiniteSet(missingNext)
      <4>. HIDE DEF missing, missingNext
      <4>. QED
        BY <3>3, <3>4, FS_Subset
    <3>. HIDE DEF missing, missingNext
    <3>6. Cardinality(missing) \in Nat /\ Cardinality(missingNext) \in Nat
      BY <3>4, <3>5, FS_CardinalityType
    <3>7. Cardinality(missingNext) <= droppedCount'
      BY <1>3, <3>2, <3>5, <3>6
    <3>. QED
      BY <3>7 DEF missingNext
  <2>3. CASE ~Delivered(w)
    <3>1. ~isClosed /\ ~isClosed' /\ discarded' = discarded
      BY <1>5, <2>1, <2>3, DeliversWhileOpen
    <3>2. w \in 1..Gone'
      <4>1. PICK c \in Calls : result'[c] = Value(w)
        BY <1>5 DEF Delivered
      <4>2. result'[c].type = "value" /\ result'[c].value = w
        BY <2>1, <4>1, AnswerKinds
      <4>. QED
        BY <4>2 DEF IInv, GoneAccounted
    <3>3. missingNext \subseteq discarded'
      <4>1. Gone' \in Nat
        BY DEF Gone, IInv, TypeOK, BufferIsNewest
      <4>2. \A v \in 1..w : v \in 1..Gone'
        BY <2>1, <3>2, <4>1
      <4>. QED
        BY <4>2 DEF IInv, GoneAccounted
    <3>. HIDE DEF missingNext
    <3>4. Cardinality(missingNext) <= Cardinality(discarded') /\ IsFiniteSet(missingNext)
      BY <1>1, <3>3, FS_Subset
    <3>5. Cardinality(missingNext) \in Nat
      BY <3>4, FS_CardinalityType
    <3>6. Cardinality(missingNext) <= droppedCount'
      BY <1>2, <1>3, <1>4, <3>1, <3>4, <3>5
    <3>. QED
      BY <3>6 DEF missingNext
  <2>. QED
    BY <2>2, <2>3
<1>6. HolesAreTold'
  BY <1>5 DEF HolesAreTold
<1>. QED
  BY <1>4, <1>6 DEF HolesInv

(* What is missing before a delivered value has been reported to onLagged.   *)
THEOREM HolesReported == Spec => []HolesAreTold
<1>1. Init => HolesInv
  <2>. SUFFICES ASSUME Init PROVE HolesInv
    OBVIOUS
  <2>1. Cardinality(discarded) = 0 /\ droppedCount = 0 /\ accepted = 0
    BY FS_EmptySet DEF Init
  <2>. QED
    BY <2>1 DEF HolesInv, HolesAreTold
<1>2. IInv /\ IInv' /\ HolesInv /\ [Next]_queueVars => HolesInv'
  BY HolesStep
<1>3. HolesInv => HolesAreTold
  BY DEF HolesInv
<1>. QED
  BY <1>1, <1>2, <1>3, Inductive, PTL DEF Spec
-------------------------------------------------------------------------------
(* The receiving side of a stream.                                           *)

\* The chunks on the bridge.
DataOn(b) == {i \in DOMAIN b : b[i] = "data"}

\* StreamTypeOK, a conjunct per variable.
Typed ==
  /\ TypeOK
  /\ settlement \in {"open", "resolved", "rejected"}
  /\ byPeer \in BOOLEAN /\ broken \in BOOLEAN /\ registered \in BOOLEAN
  /\ bridge \in Seq({"data", "end", "error"})
  /\ reader \in {"running", "aborting", "ended", "stopped"}
  /\ sent \in 0..MaxPush /\ arrived \in 0..sent
  /\ peerEnd \in {"no", "finished", "closed", "failed"}
  /\ arrived = pushes + Cardinality(DataOn(bridge))

\* The three ends.  A stream is settled when its handle is gone; its queue may be
\* closed before only because a loop was left, and with the error only if `closed`
\* was rejected.
EndInv ==
  /\ settlement = "open" => registered
  /\ settlement = "open" /\ isClosed => broken
  /\ settlement # "open" => ~registered /\ reader # "running" /\ isClosed
  /\ settlement = "rejected" /\ ~broken => terminal = "error"
  /\ settlement # "rejected" => terminal # "error"

StreamIInv ==
  /\ FatalLag
  /\ IInv
  /\ Typed
  /\ EndInv
-------------------------------------------------------------------------------
(* What the queue's invariant says of the stream's data.                     *)
LEMMA QueueKeeps ==
  ASSUME IInv, FatalLag
  PROVE  /\ \A c \in Calls : result[c] = Parked => ~isClosed
         /\ terminal = "error" =>
              \A d \in Calls : result[d] = Done =>
                \E c \in Calls : c < d /\ result[c] = Error
         /\ terminal # "error" => \A c \in Calls : result[c] # Error
         /\ \A w \in Values : Delivered(w) => \A v \in 1..w : Delivered(v)
<1>1. \A c \in Calls : result[c] = Parked => ~isClosed
  <2>. SUFFICES ASSUME NEW c \in Calls, result[c] = Parked
                PROVE  ~isClosed
    OBVIOUS
  <2>1. Answered < c /\ c <= nexts
    BY DEF IInv, AnswersPlaced
  <2>2. waiters # << >>
    BY <2>1, BoundsAssumption DEF Answered, IInv, TypeOK, Calls
  <2>. QED
    BY <2>2 DEF IInv, OneIsEmpty
<1>2. terminal = "error" =>
        \A d \in Calls : result[d] = Done =>
          \E c \in Calls : c < d /\ result[c] = Error
  BY DEF IInv, ErrorReachesOne
<1>3. terminal # "error" => \A c \in Calls : result[c] # Error
  BY DEF IInv, EndsAnnounced
<1>4. \A w \in Values : Delivered(w) => \A v \in 1..w : Delivered(v)
  BY DEF IInv, PrefixDelivered, Delivered
<1>. QED
  BY <1>1, <1>2, <1>3, <1>4

\* What the operations do to the count of pushes and to the end of the queue.
LEMMA QueueMoves ==
  ASSUME StreamIInv
  PROVE  /\ PushIgnored \/ PushHandsOff \/ PushBuffers =>
              pushes' = pushes + 1 /\ terminal' = terminal
         /\ PushEvicts => pushes' = pushes + 1 /\ terminal = "open" /\ terminal' = "error"
         /\ \A end : close(end) =>
              pushes' = pushes /\ terminal = "open" /\ terminal' = end
         /\ next => pushes' = pushes /\ terminal' = terminal
BY DEF PushIgnored, PushHandsOff, PushBuffers, PushEvicts,
   close, next, NextTakes, NextTold, NextParks,
   Accept, Call, CloseDiscarding, isClosed, StreamIInv
-------------------------------------------------------------------------------
(* The bridge as a sequence.                                                 *)

Tasks == {"data", "end", "error"}

LEMMA DataCount ==
  ASSUME NEW b \in Seq(Tasks)
  PROVE  IsFiniteSet(DataOn(b)) /\ Cardinality(DataOn(b)) \in Nat
<1>1. DataOn(b) \subseteq 1..Len(b) /\ Len(b) \in Nat
  BY LenProperties DEF DataOn
<1>2. IsFiniteSet(1..Len(b))
  BY <1>1, FS_Interval
<1>. QED
  BY <1>1, <1>2, FS_Subset, FS_CardinalityType

\* A task is posted.
LEMMA Posted ==
  ASSUME NEW b \in Seq(Tasks), NEW e \in Tasks
  PROVE  /\ Append(b, e) \in Seq(Tasks)
         /\ e # "data" => Cardinality(DataOn(Append(b, e))) = Cardinality(DataOn(b))
         /\ e = "data" => Cardinality(DataOn(Append(b, e))) = Cardinality(DataOn(b)) + 1
<1>. DEFINE p == Append(b, e)
<1>1. /\ p \in Seq(Tasks) /\ Len(p) = Len(b) + 1 /\ Len(b) \in Nat
      /\ \A i \in 1..Len(b) : p[i] = b[i]
      /\ p[Len(b) + 1] = e
      /\ \A i : i \in 1..Len(p) <=> i \in 1..Len(b) \/ i = Len(b) + 1
  BY AppendProperties, LenProperties
<1>. HIDE DEF p
<1>2. DOMAIN p = 1..Len(p) /\ DOMAIN b = 1..Len(b)
  BY <1>1, LenProperties
<1>3. ASSUME e # "data"
      PROVE  DataOn(p) = DataOn(b)
  BY <1>1, <1>2, <1>3 DEF DataOn
<1>4. ASSUME e = "data"
      PROVE  Cardinality(DataOn(p)) = Cardinality(DataOn(b)) + 1
  <2>1. DataOn(p) = DataOn(b) \cup {Len(b) + 1}
    BY <1>1, <1>2, <1>4 DEF DataOn
  <2>2. Len(b) + 1 \notin DataOn(b)
    BY <1>1, <1>2 DEF DataOn
  <2>. QED
    BY <2>1, <2>2, DataCount, FS_AddElement
<1>. QED
  BY <1>1, <1>3, <1>4 DEF p

\* A task is taken.
LEMMA TakenOff ==
  ASSUME NEW b \in Seq(Tasks), b # << >>
  PROVE  /\ Tail(b) \in Seq(Tasks)
         /\ Head(b) # "data" => Cardinality(DataOn(Tail(b))) = Cardinality(DataOn(b))
         /\ Head(b) = "data" => Cardinality(DataOn(Tail(b))) = Cardinality(DataOn(b)) - 1
<1>. DEFINE p == Tail(b)
<1>1. /\ p \in Seq(Tasks) /\ Len(p) = Len(b) - 1 /\ Len(b) \in Nat
      /\ \A i \in 1..Len(p) : p[i] = b[i + 1]
      /\ Head(b) = b[1] /\ 1 \in 1..Len(b)
  BY HeadTailProperties, LenProperties, EmptySeq
<1>. HIDE DEF p
<1>2. DOMAIN p = 1..Len(p) /\ DOMAIN b = 1..Len(b)
  BY <1>1, LenProperties
<1>3. Cardinality(DataOn(p)) = Cardinality(DataOn(b) \ {1})
  <2>. DEFINE S == DataOn(p)
              T == DataOn(b) \ {1}
              f == [i \in S |-> i + 1]
  <2>1. \A i \in S : i \in Nat /\ i + 1 \in T
    BY <1>1, <1>2 DEF DataOn
  <2>2. \A j \in T : j \in Nat /\ j - 1 \in S
    BY <1>1, <1>2 DEF DataOn
  <2>. HIDE DEF S, T
  <2>3. f \in [S -> T] /\ \A i \in S : f[i] = i + 1
    BY <2>1
  <2>4. \A i, j \in S : f[i] = f[j] => i = j
    BY <2>1
  <2>5. \A j \in T : \E i \in S : f[i] = j
    <3>1. ASSUME NEW j \in T
          PROVE  j - 1 \in S /\ f[j - 1] = j
      BY <2>2
    <3>. QED
      BY <3>1
  <2>6. f \in Bijection(S, T)
    BY <2>3, <2>4, <2>5, Fun_IsBij
  <2>7. IsFiniteSet(S)
    BY <1>1, DataCount DEF S
  <2>. QED
    BY <2>6, <2>7, FS_Bijection DEF ExistsBijection, S, T
<1>4. IsFiniteSet(DataOn(b)) /\ Cardinality(DataOn(b)) \in Nat
  BY DataCount
<1>5. 1 \in DataOn(b) <=> Head(b) = "data"
  BY <1>1, <1>2 DEF DataOn
<1>. QED
  BY <1>1, <1>3, <1>4, <1>5, FS_RemoveElement DEF p

LEMMA EmptyBridge == Cardinality(DataOn(<< >>)) = 0 /\ << >> \in Seq(Tasks)
<1>1. DataOn(<< >>) = {}
  BY DEF DataOn
<1>. QED
  BY <1>1, FS_EmptySet

LEMMA TypedIsTypeOK == StreamTypeOK <=> Typed
<1>1. <<byPeer, broken, registered>> \in BOOLEAN \X BOOLEAN \X BOOLEAN
        <=> byPeer \in BOOLEAN /\ broken \in BOOLEAN /\ registered \in BOOLEAN
  OBVIOUS
<1>. QED
  BY <1>1 DEF StreamTypeOK, Typed, DataOn
-------------------------------------------------------------------------------
(* Whatever happens to the stream, its queue takes its own step or none.     *)
LEMMA StreamStepsQueue == [StreamNext]_vars => [Next]_queueVars
<1>. SUFFICES ASSUME [StreamNext]_vars PROVE [Next]_queueVars
  OBVIOUS
<1>1. CASE OnData
  BY <1>1 DEF OnData, Next, Push
<1>2. \A end \in {"done", "error"} : ChunksClose(end) => [Next]_queueVars
  BY DEF ChunksClose, Next
<1>4. CASE \E end \in {"done", "error"} : OnClose(end)
  BY <1>2, <1>4 DEF OnClose
<1>5. CASE StreamCloses \/ ConsumerBreaks
  BY <1>2, <1>5 DEF StreamCloses, ConsumerBreaks
<1>6. CASE ConsumerNext
  BY <1>6 DEF ConsumerNext, Next
<1>7. CASE PeerSends \/ \E how \in {"finished", "closed", "failed"} : PeerEnds(how)
  BY <1>7 DEF PeerSends, PeerEnds
<1>8. CASE Reads \/ ReaderEnds \/ AbortLands
  BY <1>8 DEF Reads, ReaderEnds, AbortLands
<1>9. CASE UNCHANGED vars
  BY <1>9 DEF vars
<1>. QED
  BY <1>1, <1>4, <1>5, <1>6, <1>7, <1>8, <1>9 DEF StreamNext

LEMMA QueueInv == StreamIInv /\ [StreamNext]_vars => IInv'
BY StreamStepsQueue, StepInv DEF StreamIInv
-------------------------------------------------------------------------------
(* Types, and the count of chunks.                                           *)
LEMMA TypeStep == StreamIInv /\ [StreamNext]_vars => Typed'
<1>. SUFFICES ASSUME StreamIInv, [StreamNext]_vars PROVE Typed'
  OBVIOUS
<1>1. Typed /\ IInv
  BY DEF StreamIInv
<1>2. TypeOK' /\ pushes' \in Nat /\ pushes \in Nat
  <2>1. TypeOK'
    BY QueueInv DEF IInv
  <2>. QED
    BY <2>1, <1>1, BoundsAssumption DEF Typed, TypeOK
<1>3. bridge \in Seq(Tasks) /\ Cardinality(DataOn(bridge)) \in Nat
  BY <1>1, DataCount DEF Typed, Tasks
<1>S. ASSUME settlement' \in {"open", "resolved", "rejected"}, byPeer' \in BOOLEAN,
             broken' \in BOOLEAN, registered' \in BOOLEAN,
             reader' \in {"running", "aborting", "ended", "stopped"},
             UNCHANGED <<bridge, sent, arrived, peerEnd>>, pushes' = pushes
      PROVE  Typed'
  BY <1>1, <1>2, <1>S DEF Typed
<1>T. ASSUME NEW type \in Tasks, TakeTask(type), UNCHANGED <<sent, arrived, peerEnd, broken>>,
             pushes' = IF type = "data" THEN pushes + 1 ELSE pushes,
             settlement' \in {"open", "resolved", "rejected"}, byPeer' \in BOOLEAN,
             registered' \in BOOLEAN,
             reader' \in {"running", "aborting", "ended", "stopped"}
      PROVE  Typed'
  <2>1. bridge' \in Seq(Tasks)
    BY <1>3, <1>T, TakenOff DEF TakeTask
  <2>2. Cardinality(DataOn(bridge')) =
          IF type = "data" THEN Cardinality(DataOn(bridge)) - 1 ELSE Cardinality(DataOn(bridge))
    BY <1>3, <1>T, TakenOff DEF TakeTask
  <2>3. arrived' = pushes' + Cardinality(DataOn(bridge'))
    BY <2>2, <1>1, <1>2, <1>3, <1>T DEF Typed
  <2>. QED
    BY <2>1, <2>3, <1>1, <1>2, <1>T DEF Typed, Tasks
<1>F. \A end : Finish(end) \/ Finished =>
        /\ settlement' \in {"open", "resolved", "rejected"} /\ registered' \in BOOLEAN
        /\ reader' \in {"running", "aborting", "ended", "stopped"}
  BY <1>1 DEF Finish, Finished, CloseStream, Typed
<1>K. /\ settlement \in {"open", "resolved", "rejected"} /\ byPeer \in BOOLEAN
      /\ broken \in BOOLEAN /\ registered \in BOOLEAN
      /\ reader \in {"running", "aborting", "ended", "stopped"}
      /\ sent \in 0..MaxPush /\ arrived \in 0..sent
      /\ peerEnd \in {"no", "finished", "closed", "failed"}
      /\ arrived = pushes + Cardinality(DataOn(bridge))
  BY <1>1 DEF Typed
<1>C. \A end : ChunksClose(end) => pushes' = pushes
  BY QueueMoves DEF ChunksClose, queueVars
<1>4. CASE OnData
  <2>1. TakeTask("data") /\ pushes' = pushes + 1 /\ UNCHANGED <<sent, arrived, peerEnd, broken, byPeer>>
    BY <1>4, QueueMoves DEF OnData
  <2>2. /\ settlement' \in {"open", "resolved", "rejected"} /\ registered' \in BOOLEAN
        /\ reader' \in {"running", "aborting", "ended", "stopped"}
    BY <1>4, <1>F, <1>K DEF OnData
  <2>3. "data" \in Tasks
    BY DEF Tasks
  <2>. QED
    BY <2>1, <2>2, <2>3, <1>T, <1>K
<1>5. ASSUME NEW end \in {"done", "error"}, OnClose(end)
      PROVE  Typed'
  <2>. DEFINE type == IF end = "error" THEN "error" ELSE "end"
  <2>1. type \in Tasks /\ type # "data" /\ TakeTask(type)
    BY <1>5 DEF OnClose, Tasks
  <2>2. UNCHANGED <<sent, arrived, peerEnd, broken>> /\ pushes' = pushes /\ byPeer' \in BOOLEAN
    BY <1>5, <1>C, <1>K DEF OnClose, queueVars
  <2>3. /\ settlement' \in {"open", "resolved", "rejected"} /\ registered' \in BOOLEAN
        /\ reader' \in {"running", "aborting", "ended", "stopped"}
    BY <1>5, <1>F DEF OnClose
  <2>. HIDE DEF type
  <2>. QED
    BY <2>1, <2>2, <2>3, <1>T
<1>6. CASE StreamCloses
  BY <1>6, <1>S, <1>F, <1>K, <1>C DEF StreamCloses
<1>7. CASE ConsumerNext
  <2>1. UNCHANGED <<settlement, byPeer, broken, bridge, registered, reader, sent, arrived, peerEnd>>
        /\ pushes' = pushes
    BY <1>7, QueueMoves DEF ConsumerNext, nativeVars
  <2>. QED
    BY <2>1, <1>S, <1>K
<1>8. CASE ConsumerBreaks
  <2>1. UNCHANGED <<settlement, byPeer, bridge, registered, reader, sent, arrived, peerEnd>>
        /\ pushes' = pushes /\ broken' = TRUE
    BY <1>8, <1>C DEF ConsumerBreaks, nativeVars
  <2>. QED
    BY <2>1, <1>S, <1>K
<1>9. CASE PeerSends
  <2>1. sent' = sent + 1 /\ sent < MaxPush /\ pushes' = pushes
        /\ UNCHANGED <<settlement, byPeer, broken, bridge, registered, reader, arrived, peerEnd>>
    BY <1>9 DEF PeerSends, queueVars
  <2>2. sent' \in 0..MaxPush /\ arrived' \in 0..sent'
    BY <2>1, <1>K, BoundsAssumption
  <2>. QED
    BY <2>1, <2>2, <1>1, <1>2 DEF Typed
<1>10. ASSUME NEW how \in {"finished", "closed", "failed"}, PeerEnds(how)
       PROVE  Typed'
  BY <1>10, <1>1, <1>2 DEF Typed, PeerEnds, queueVars
<1>11. CASE Reads
  <2>1. arrived' = arrived + 1 /\ arrived < sent /\ bridge' = Append(bridge, "data")
        /\ UNCHANGED <<settlement, byPeer, broken, registered, reader, sent, peerEnd>>
        /\ pushes' = pushes
    BY <1>11 DEF Reads, queueVars
  <2>2. bridge' \in Seq(Tasks)
        /\ Cardinality(DataOn(bridge')) = Cardinality(DataOn(bridge)) + 1
    BY <2>1, <1>3, Posted DEF Tasks
  <2>3. arrived' \in 0..sent /\ arrived' = pushes' + Cardinality(DataOn(bridge'))
    BY <2>1, <2>2, <1>2, <1>3, <1>K, BoundsAssumption
  <2>. QED
    BY <2>1, <2>2, <2>3, <1>1, <1>2 DEF Typed, Tasks
<1>12. CASE ReaderEnds
  <2>. DEFINE e == IF peerEnd = "failed" THEN "error" ELSE "end"
  <2>1. bridge' = Append(bridge, e) /\ reader' = "ended" /\ pushes' = pushes
        /\ UNCHANGED <<settlement, byPeer, broken, registered, sent, arrived, peerEnd>>
    BY <1>12 DEF ReaderEnds, queueVars
  <2>2. e \in Tasks /\ e # "data"
    BY DEF Tasks
  <2>. HIDE DEF e
  <2>3. bridge' \in Seq(Tasks)
        /\ Cardinality(DataOn(bridge')) = Cardinality(DataOn(bridge))
    BY <2>1, <2>2, <1>3, Posted
  <2>. QED
    BY <2>1, <2>3, <1>1, <1>2 DEF Typed, Tasks
<1>13. CASE AbortLands
  BY <1>13, <1>S, <1>K DEF AbortLands, queueVars
<1>14. CASE UNCHANGED vars
  BY <1>14, <1>S, <1>K DEF vars, queueVars, nativeVars
<1>. QED
  BY <1>4, <1>5, <1>6, <1>7, <1>8, <1>9, <1>10, <1>11, <1>12, <1>13, <1>14 DEF StreamNext
-------------------------------------------------------------------------------
(* The three ends keep together.                                             *)
LEMMA EndStep == StreamIInv /\ [StreamNext]_vars => EndInv'
<1>. SUFFICES ASSUME StreamIInv, [StreamNext]_vars PROVE EndInv'
  OBVIOUS
<1>1. EndInv /\ settlement \in {"open", "resolved", "rejected"} /\ TypeOK
      /\ terminal \in {"open", "done", "error"}
  BY DEF StreamIInv, Typed, TypeOK
<1>C. \A end : ChunksClose(end) =>
        terminal' = IF terminal = "open" THEN end ELSE terminal
  BY QueueMoves DEF ChunksClose, queueVars, isClosed
<1>K. ASSUME UNCHANGED <<settlement, registered, broken, terminal>>,
             reader' = "running" => reader = "running"
      PROVE  EndInv'
  BY <1>1, <1>K DEF EndInv, isClosed
\* The stream settles and its queue ends in the same way, if it has not ended.
<1>F. ASSUME NEW end \in {"done", "error"}, Finish(end), UNCHANGED broken,
             terminal' = IF terminal = "open" THEN end ELSE terminal
      PROVE  EndInv'
  <2>1. settlement = "open" /\ registered /\ terminal # "error"
    BY <1>1, <1>F DEF EndInv, Finish
  <2>2. registered' = FALSE /\ reader' # "running"
        /\ settlement' = IF end = "error" THEN "rejected" ELSE "resolved"
    BY <1>F, <2>1 DEF Finish, CloseStream
  <2>3. terminal' # "open" /\ (terminal' = "error" => end = "error")
        /\ (terminal = "open" => terminal' = end)
    BY <1>F, <2>1
  <2>4. ~broken => terminal = "open"
    BY <1>1, <2>1 DEF EndInv, isClosed
  <2>. QED
    BY <1>F, <2>1, <2>2, <2>3, <2>4 DEF EndInv, isClosed
<1>2. CASE OnData
  <2>1. CASE PushEvicts /\ Finish("error")
    BY <1>2, <2>1, <1>F, QueueMoves DEF OnData
  <2>2. CASE ~(PushEvicts /\ Finish("error"))
    BY <1>2, <2>2, <1>K, QueueMoves DEF OnData
  <2>. QED
    BY <2>1, <2>2
<1>3. ASSUME NEW end \in {"done", "error"}, OnClose(end)
      PROVE  EndInv'
  <2>1. CASE Finish(end) /\ ChunksClose(end)
    BY <1>3, <2>1, <1>F, <1>C DEF OnClose
  <2>2. CASE Finished /\ UNCHANGED queueVars
    BY <1>3, <2>2, <1>K DEF OnClose, Finished, queueVars
  <2>. QED
    BY <1>3, <2>1, <2>2 DEF OnClose
<1>4. CASE StreamCloses
  BY <1>4, <1>F, <1>C DEF StreamCloses
<1>5. CASE ConsumerNext
  BY <1>5, <1>K, QueueMoves DEF ConsumerNext, nativeVars
<1>6. CASE ConsumerBreaks
  <2>1. UNCHANGED <<settlement, registered, reader>> /\ broken'
        /\ terminal' = IF terminal = "open" THEN "done" ELSE terminal
    BY <1>6, <1>C DEF ConsumerBreaks, nativeVars
  <2>2. (terminal' = "error" <=> terminal = "error") /\ terminal' # "open"
    BY <2>1, <1>1
  <2>. QED
    BY <2>1, <2>2, <1>1 DEF EndInv, isClosed
<1>7. CASE PeerSends
  BY <1>7, <1>K DEF PeerSends, queueVars
<1>8. ASSUME NEW how \in {"finished", "closed", "failed"}, PeerEnds(how)
      PROVE  EndInv'
  BY <1>8, <1>K DEF PeerEnds, queueVars
<1>9. CASE Reads
  BY <1>9, <1>K DEF Reads, queueVars
<1>10. CASE ReaderEnds
  BY <1>10, <1>K DEF ReaderEnds, queueVars
<1>11. CASE AbortLands
  BY <1>11, <1>K DEF AbortLands, queueVars
<1>12. CASE UNCHANGED vars
  BY <1>12, <1>K DEF vars, queueVars, nativeVars
<1>. QED
  BY <1>2, <1>3, <1>4, <1>5, <1>6, <1>7, <1>8, <1>9, <1>10, <1>11, <1>12 DEF StreamNext
-------------------------------------------------------------------------------
LEMMA StreamInitInv == StreamInit => StreamIInv
<1>. SUFFICES ASSUME StreamInit PROVE StreamIInv
  OBVIOUS
<1>1. IInv
  BY InitInv DEF StreamInit
<1>2. Typed
  <2>1. pushes = 0 /\ 0 \in 0..MaxPush /\ 0 \in 0..0
    BY BoundsAssumption DEF StreamInit, Init
  <2>2. TypeOK
    BY <1>1 DEF IInv
  <2>3. TRUE \in BOOLEAN /\ FALSE \in BOOLEAN
    OBVIOUS
  <2>4. bridge \in Seq({"data", "end", "error"}) /\ Cardinality(DataOn(bridge)) = 0
    BY EmptyBridge DEF StreamInit, Tasks
  <2>5. arrived = pushes + Cardinality(DataOn(bridge))
    BY <2>1, <2>4 DEF StreamInit
  <2>. QED
    BY <2>1, <2>2, <2>3, <2>4, <2>5 DEF StreamInit, Typed
<1>3. EndInv
  BY DEF StreamInit, Init, EndInv, isClosed
<1>. QED
  BY <1>1, <1>2, <1>3 DEF StreamIInv, StreamInit

LEMMA StreamStepInv == StreamIInv /\ [StreamNext]_vars => StreamIInv'
BY QueueInv, TypeStep, EndStep DEF StreamIInv

(* `closed` and the loop over `data` tell one story, for every capacity.     *)
THEOREM ClosedAndDataAgree == StreamSpec => []OneStory
<1>1. StreamIInv => OneStory
  <2>. SUFFICES ASSUME StreamIInv PROVE OneStory
    OBVIOUS
  <2>1. StreamTypeOK
    BY TypedIsTypeOK DEF StreamIInv
  <2>2. ASSUME settlement = "rejected", ~broken, NEW d \in Calls,
               result[d] = Done
        PROVE  \E c \in 1..(d - 1) : result[c] = Error
    <3>1. PICK c \in Calls : c < d /\ result[c] = Error
      BY <2>2, QueueKeeps DEF StreamIInv, EndInv
    <3>2. c \in 1..(d - 1)
      BY <3>1, BoundsAssumption DEF Calls
    <3>. QED
      BY <3>1, <3>2
  <2>3. settlement # "rejected" => \A c \in Calls : result[c] # Error
    BY QueueKeeps DEF StreamIInv, EndInv
  <2>. QED
    BY <2>1, <2>2, <2>3 DEF OneStory
<1>. QED
  BY <1>1, StreamInitInv, StreamStepInv, PTL DEF StreamSpec

(* A settled stream has released its handle, its read task and its consumers. *)
THEOREM SettledIsReleased == StreamSpec => []SettledReleases
<1>1. StreamIInv => SettledReleases
  BY QueueKeeps DEF StreamIInv, EndInv, SettledReleases
<1>. QED
  BY <1>1, StreamInitInv, StreamStepInv, PTL DEF StreamSpec

(* What the application reads is a prefix of what the peer sent.             *)
THEOREM ReadsPrefix == StreamSpec => []PrefixRead
<1>1. StreamIInv => PrefixRead
  <2>. SUFFICES ASSUME StreamIInv PROVE PrefixRead
    OBVIOUS
  <2>1. \A w \in 1..sent : w \in Values
    BY BoundsAssumption DEF StreamIInv, Typed, Values
  <2>. QED
    BY <2>1, QueueKeeps DEF StreamIInv, PrefixRead
<1>. QED
  BY <1>1, StreamInitInv, StreamStepInv, PTL DEF StreamSpec

(* Stream.data is a MessageQueue whose lag is fatal, however the stream ends. *)
THEOREM DataIsAQueue == StreamSpec => FatalLag /\ Spec
<1>1. StreamInit => FatalLag /\ Init
  BY DEF StreamInit
<1>. QED
  BY <1>1, StreamStepsQueue, PTL DEF StreamSpec, Spec
===============================================================================
