--------------------------- MODULE StreamSendProofs ---------------------------
(***************************************************************************)
(* One direction of a stream delivers whole frames in order, for every     *)
(* number and size of sends, every frame limit and every window.           *)
(*                                                                         *)
(* The argument is about the last unit of the wire.  If its frame is not   *)
(* complete then its send still holds the lock, or nothing more can be     *)
(* written at all; so frames follow one another, and since close() finishes *)
(* the stream as a holder of the lock, FIN never cuts one.                 *)
(***************************************************************************)
EXTENDS StreamSend, SequenceTheorems, TLAPS

Tasks == 0..MaxSend
Units == [send : Sends, unit : Nat]

\* The last byte of a frame.
Complete(u) == u.unit = Length(u.send)

\* TypeOK, a conjunct per variable, and the sequences'.
Typed ==
  /\ framing \in {"framed", "raw"} /\ open \in BOOLEAN /\ finished \in BOOLEAN
  /\ task \in [Tasks -> {"none", "spawned", "locking", "done", "failed"}]
  /\ size \in [Sends -> 0..MaxSize]
  /\ written \in [Sends -> Nat] /\ \A i \in Sends : written[i] <= Length(i)
  /\ connection \in {"up", "closed", "lost"} /\ reader \in {"reading", "gone"}
  /\ outcome \in {"none", "orderly", "failed"}
  /\ wire \in Seq(Units) /\ taken \in 0..Len(wire)
  /\ partial \in Seq(Units)
  /\ lock \in Seq(Tasks)

\* The lock is held by, and waited for by, those who asked for it, each once; the
\* task of close() is spawned when the stream settles.
LockInv ==
  /\ open => task[Closer] = "none"
  /\ \A t \in Tasks : task[t] = "locking" <=> \E p \in 1..Len(lock) : lock[p] = t
  /\ \A p, q \in 1..Len(lock) : lock[p] = lock[q] => p = q

\* A send writes while it holds the lock, all of it or a part.
SendInv ==
  \A i \in Sends :
    /\ task[i] \in {"none", "spawned"} => written[i] = 0
    /\ task[i] = "locking" /\ ~Holds(i) => written[i] = 0
    /\ task[i] = "done" => written[i] = Length(i)
    /\ framing = "framed" /\ size[i] > MaxFrame =>
         written[i] = 0 /\ task[i] \in {"none", "failed"}

\* The wire holds what each send has written, each unit once, and the units of a
\* frame one after another.
WireInv ==
  /\ \A p \in 1..Len(wire) : wire[p].unit \in 1..written[wire[p].send]
  /\ \A i \in Sends : \A k \in 1..written[i] : \E p \in 1..Len(wire) : wire[p] = Unit(i, k)
  /\ \A p, q \in 1..Len(wire) : wire[p] = wire[q] => p = q
  /\ \A p \in 1..Len(wire) :
       /\ wire[p].unit = 1 => p = 1 \/ Complete(wire[p - 1])
       /\ wire[p].unit > 1 => p > 1 /\ wire[p - 1] = Unit(wire[p].send, wire[p].unit - 1)

\* The end of the wire.
TornInv ==
  /\ \A i \in Sends : Holds(i) /\ written[i] > 0 =>
       wire # << >> /\ wire[Len(wire)] = Unit(i, written[i])
  /\ wire # << >> /\ ~Complete(wire[Len(wire)]) =>
       /\ ~finished
       /\ Holds(wire[Len(wire)].send) \/ reader = "gone" \/ connection # "up"

\* What the peer is assembling is the frame that the last unit it read is of.
PartialInv ==
  /\ partial = << >> => taken = 0 \/ EndsItem(wire[taken])
  /\ partial # << >> =>
       /\ framing = "framed" /\ taken > 0
       /\ \E i \in Sends :
            /\ Len(partial) < Length(i) /\ wire[taken] = Unit(i, Len(partial))
            /\ \A k \in 1..Len(partial) : partial[k] = Unit(i, k)

\* What it has delivered is what has ended in the part of the wire it has read.
ChunkInv ==
  /\ chunks \in Seq(Seq(Units))
  /\ \A j \in 1..Len(chunks) :
       /\ chunks[j] # << >> /\ Whole(chunks[j]) /\ EndsItem(Last(chunks[j]))
       /\ \E p \in 1..taken : Last(chunks[j]) = wire[p]
  /\ \A p \in 1..taken : EndsItem(wire[p]) =>
       \E j \in 1..Len(chunks) : Last(chunks[j]) = wire[p]

\* What it was told at the end.
OutcomeInv ==
  /\ reader = "reading" => outcome = "none"
  /\ outcome = "failed" => connection = "lost"
  /\ outcome = "orderly" /\ connection # "closed" => finished /\ taken = Len(wire)

IInv ==
  /\ Typed
  /\ LockInv
  /\ SendInv
  /\ WireInv
  /\ TornInv
  /\ PartialInv
  /\ ChunkInv
  /\ OutcomeInv
-------------------------------------------------------------------------------
(* Units, tasks and the lock.                                                *)

LEMMA UnitFacts ==
  /\ \A i \in Sends, k \in Nat :
       Unit(i, k) \in Units /\ Unit(i, k).send = i /\ Unit(i, k).unit = k
  /\ \A u \in Units : u.send \in Sends /\ u.unit \in Nat /\ u = Unit(u.send, u.unit)
BY DEF Unit, Units

LEMMA TaskFacts ==
  /\ Sends \subseteq Tasks /\ Closer \in Tasks /\ Closer \notin Sends
  /\ \A i \in Sends : i \in Nat
BY SizesAssumption DEF Sends, Tasks, Closer

LEMMA LengthFacts ==
  ASSUME Typed
  PROVE  /\ Header \in Nat /\ (framing = "framed" => Header = 2) /\ (framing = "raw" => Header = 0)
         /\ \A i \in Sends : Length(i) \in Nat /\ Length(i) = Header + size[i]
BY SizesAssumption DEF Typed, Length, Header, HeaderSize

LEMMA AppendFacts ==
  ASSUME NEW S, NEW b \in Seq(S), NEW e \in S
  PROVE  /\ Append(b, e) \in Seq(S) /\ Len(Append(b, e)) = Len(b) + 1 /\ Len(b) \in Nat
         /\ \A i \in 1..Len(b) : Append(b, e)[i] = b[i]
         /\ Append(b, e)[Len(b) + 1] = e
         /\ \A i : i \in 1..Len(Append(b, e)) <=> i \in 1..Len(b) \/ i = Len(b) + 1
BY AppendProperties, LenProperties

LEMMA TailFacts ==
  ASSUME NEW S, NEW b \in Seq(S), b # << >>
  PROVE  /\ Tail(b) \in Seq(S) /\ Len(Tail(b)) = Len(b) - 1 /\ Len(b) \in Nat
         /\ Head(b) \in S /\ Head(b) = b[1] /\ 1 \in 1..Len(b)
         /\ \A i \in 1..Len(Tail(b)) :
              i \in Nat /\ i + 1 \in 1..Len(b) /\ i + 1 # 1 /\ Tail(b)[i] = b[i + 1]
         /\ \A i \in 1..Len(b) :
              i = 1 \/ (i - 1 \in 1..Len(Tail(b)) /\ Tail(b)[i - 1] = b[i])
<1>. DEFINE p == Tail(b)
<1>1. /\ p \in Seq(S) /\ Len(p) = Len(b) - 1 /\ Len(b) \in Nat
      /\ \A i \in 1..Len(p) : p[i] = b[i + 1]
      /\ Head(b) = b[1] /\ Head(b) \in S /\ 1 \in 1..Len(b)
  BY HeadTailProperties, LenProperties, EmptySeq
<1>. HIDE DEF p
<1>2. /\ \A i \in 1..Len(p) : i \in Nat /\ i + 1 \in 1..Len(b) /\ i + 1 # 1
      /\ \A i \in 1..Len(b) : i = 1 \/ (i - 1 \in 1..Len(p) /\ p[i - 1] = b[i])
  BY <1>1
<1>. QED
  BY <1>1, <1>2 DEF p

LEMMA TypedIsTypeOK == IInv => TypeOK
<1>. SUFFICES ASSUME IInv PROVE TypeOK
  OBVIOUS
<1>1. \A t \in Tasks : t \in Range(lock) <=> \E p \in 1..Len(lock) : lock[p] = t
  BY LenProperties DEF IInv, Typed, Range
<1>2. \A i \in Sends : written[i] \in 0..Length(i)
  BY LengthFacts DEF IInv, Typed
<1>. QED
  BY <1>1, <1>2 DEF IInv, Typed, LockInv, TypeOK, Tasks

\* Who holds the lock asked for it.
LEMMA Holder ==
  ASSUME Typed, LockInv, NEW t, Holds(t)
  PROVE  /\ t \in Tasks /\ task[t] = "locking" /\ lock # << >> /\ lock[1] = t /\ 1 \in 1..Len(lock)
         /\ \A s : Holds(s) => s = t
<1>1. lock # << >> /\ lock \in Seq(Tasks) /\ Head(lock) = t
  BY DEF Holds, Typed
<1>2. Head(lock) = lock[1] /\ 1 \in 1..Len(lock) /\ Head(lock) \in Tasks
  BY <1>1, TailFacts
<1>. QED
  BY <1>1, <1>2 DEF LockInv, Holds

\* Once it is let go, whoever holds it had not held it before.
LEMMA Released ==
  ASSUME Typed, LockInv, NEW t, Holds(t), lock' = Tail(lock)
  PROVE  /\ lock' \in Seq(Tasks)
         /\ \A s \in Tasks : (\E p \in 1..Len(lock') : lock'[p] = s)
                               <=> s # t /\ \E p \in 1..Len(lock) : lock[p] = s
         /\ \A p, q \in 1..Len(lock') : lock'[p] = lock'[q] => p = q
         /\ \A s : Holds(s)' => s \in Tasks /\ s # t /\ task[s] = "locking" /\ ~Holds(s)
<1>1. t \in Tasks /\ lock # << >> /\ lock[1] = t /\ lock \in Seq(Tasks) /\ 1 \in 1..Len(lock)
  BY Holder DEF Typed
<1>. DEFINE p == Tail(lock)
<1>2. /\ p \in Seq(Tasks) /\ Len(p) = Len(lock) - 1 /\ Len(lock) \in Nat
      /\ \A i \in 1..Len(p) :
           i \in Nat /\ i + 1 \in 1..Len(lock) /\ i + 1 # 1 /\ p[i] = lock[i + 1]
      /\ \A i \in 1..Len(lock) : i = 1 \/ (i - 1 \in 1..Len(p) /\ p[i - 1] = lock[i])
  BY <1>1, TailFacts
<1>. HIDE DEF p
<1>3. lock' = p
  BY DEF p
<1>4. \A q, r \in 1..Len(lock) : lock[q] = lock[r] => q = r
  BY DEF LockInv
<1>5. ASSUME NEW s \in Tasks
      PROVE  (\E q \in 1..Len(p) : p[q] = s) <=> s # t /\ \E q \in 1..Len(lock) : lock[q] = s
  <2>1. ASSUME NEW q \in 1..Len(p), p[q] = s
        PROVE  s # t /\ \E r \in 1..Len(lock) : lock[r] = s
    BY <2>1, <1>1, <1>2, <1>4
  <2>2. ASSUME s # t, NEW q \in 1..Len(lock), lock[q] = s
        PROVE  \E r \in 1..Len(p) : p[r] = s
    BY <2>2, <1>1, <1>2
  <2>. QED
    BY <2>1, <2>2
<1>6. ASSUME NEW q \in 1..Len(p), NEW r \in 1..Len(p), p[q] = p[r]
      PROVE  q = r
  <2>1. q + 1 = r + 1 /\ q \in Nat /\ r \in Nat
    BY <1>6, <1>2, <1>4
  <2>. QED
    BY <2>1
<1>7. ASSUME NEW s, p # << >>, Head(p) = s
      PROVE  s \in Tasks /\ s # t /\ task[s] = "locking" /\ ~Holds(s)
  <2>1. Head(p) = p[1] /\ 1 \in 1..Len(p) /\ s \in Tasks
    BY <1>7, <1>2, TailFacts
  <2>2. s # t /\ \E q \in 1..Len(lock) : lock[q] = s
    BY <2>1, <1>5, <1>7
  <2>. QED
    BY <2>1, <2>2, Holder DEF LockInv
<1>. QED
  BY <1>2, <1>3, <1>5, <1>6, <1>7 DEF Holds
-------------------------------------------------------------------------------
LEMMA NextCases ==
  ASSUME [Next]_vars
  PROVE  \/ \E i \in Sends, n \in 0..MaxSize : stream_send(i, n)
         \/ stream_close
         \/ \E t \in Tasks : Locks(t)
         \/ \E i \in Sends : Writes(i)
         \/ \E i \in Sends : WriteFails(i)
         \/ \E i \in Sends : Sent(i)
         \/ Finishes
         \/ Reads
         \/ ReadsEnd \/ ReadsConnectionEnd \/ PeerCloses
         \/ \E how \in {"closed", "lost"} : ConnectionEnds(how)
         \/ UNCHANGED vars
BY DEF Next, Tasks

\* A send's size is set before it writes, so what is on the wire keeps its meaning.
LEMMA UnitsKeepMeaning ==
  ASSUME IInv, [Next]_vars
  PROVE  /\ framing' = framing
         /\ \A i \in Sends : written[i] > 0 => size'[i] = size[i] /\ Length(i)' = Length(i)
         /\ \A u \in Units : u.unit \in 1..written[u.send] =>
              (Complete(u)' <=> Complete(u)) /\ (EndsItem(u)' <=> EndsItem(u))
<1>1. framing' = framing /\ \A i \in Sends : written[i] > 0 => size'[i] = size[i]
  <2>1. CASE \E i \in Sends, n \in 0..MaxSize : stream_send(i, n)
    BY <2>1 DEF stream_send, IInv, Typed, SendInv
  <2>2. CASE ~\E i \in Sends, n \in 0..MaxSize : stream_send(i, n)
    <3>1. UNCHANGED <<framing, size>>
      BY <2>2, NextCases DEF stream_close, Locks, Writes, WriteFails, Sent, Finishes, Unlocks,
         Reads, ReadsEnd, ReadsConnectionEnd, PeerCloses, ConnectionEnds, vars, ourVars
    <3>. QED
      BY <3>1
  <2>. QED
    BY <2>1, <2>2
<1>2. \A i \in Sends : written[i] > 0 => Length(i)' = Length(i)
  BY <1>1 DEF Length, Header
<1>3. ASSUME NEW u \in Units, u.unit \in 1..written[u.send]
      PROVE  (Complete(u)' <=> Complete(u)) /\ (EndsItem(u)' <=> EndsItem(u))
  <2>1. u.send \in Sends /\ written[u.send] > 0
    BY <1>3, UnitFacts DEF IInv, Typed
  <2>. QED
    BY <2>1, <1>1, <1>2 DEF Complete, EndsItem
<1>. QED
  BY <1>1, <1>2, <1>3

\* The units of the wire.
LEMMA WireUnits ==
  ASSUME IInv, NEW p \in 1..Len(wire)
  PROVE  /\ wire[p] \in Units /\ wire[p].send \in Sends /\ wire[p].unit \in Nat /\ p \in Nat
         /\ wire[p] = Unit(wire[p].send, wire[p].unit)
         /\ 1 <= wire[p].unit /\ wire[p].unit <= written[wire[p].send]
         /\ wire[p].unit <= Length(wire[p].send)
         /\ written[wire[p].send] > 0
<1>1. wire[p] \in Units
  BY ElementOfSeq DEF IInv, Typed
<1>2. wire[p].unit \in 1..written[wire[p].send]
  BY DEF IInv, WireInv
<1>3. wire[p].send \in Sends /\ wire[p].unit \in Nat
      /\ wire[p] = Unit(wire[p].send, wire[p].unit)
  BY <1>1, UnitFacts
<1>. QED
  BY <1>1, <1>2, <1>3, LengthFacts DEF IInv, Typed
-------------------------------------------------------------------------------
(* The next unit to be read goes on with the frame being assembled, or begins *)
(* the next one; no frame is too large, for none such was written.           *)
LEMMA NextUnit ==
  ASSUME IInv, taken < Len(wire)
  PROVE  LET u == wire[taken + 1]
             read == Append(partial, u)
         IN /\ taken + 1 \in 1..Len(wire) /\ u \in Units
            /\ read \in Seq(Units) /\ Len(read) = Len(partial) + 1 /\ Len(partial) \in Nat
            /\ framing = "framed" =>
                 /\ u = Unit(u.send, Len(partial) + 1)
                 /\ Len(partial) + 1 <= Length(u.send) /\ size[u.send] <= MaxFrame
                 /\ \A k \in 1..Len(read) : read[k] = Unit(u.send, k)
            /\ framing = "raw" => partial = << >>
            /\ read[Len(read)] = u /\ read[1].send = u.send
<1>. DEFINE u == wire[taken + 1]
            read == Append(partial, u)
<1>1. taken \in Nat /\ taken + 1 \in 1..Len(wire) /\ Len(wire) \in Nat
      /\ (taken > 0 => taken \in 1..Len(wire))
  BY LenProperties DEF IInv, Typed
<1>2. /\ u \in Units /\ u.send \in Sends /\ u.unit \in Nat /\ u = Unit(u.send, u.unit)
      /\ 1 <= u.unit /\ u.unit <= Length(u.send) /\ written[u.send] > 0
  BY <1>1, WireUnits
<1>3. /\ u.unit = 1 => taken + 1 = 1 \/ Complete(wire[(taken + 1) - 1])
      /\ u.unit > 1 => taken + 1 > 1 /\ wire[(taken + 1) - 1] = Unit(u.send, u.unit - 1)
  BY <1>1 DEF IInv, WireInv
<1>4. (taken + 1) - 1 = taken
  BY <1>1
<1>5. partial \in Seq(Units) /\ Len(partial) \in Nat
  BY LenProperties DEF IInv, Typed
<1>. HIDE DEF u
<1>6. /\ read \in Seq(Units) /\ Len(read) = Len(partial) + 1
      /\ \A k \in 1..Len(partial) : read[k] = partial[k]
      /\ read[Len(partial) + 1] = u
      /\ \A k : k \in 1..Len(read) <=> k \in 1..Len(partial) \/ k = Len(partial) + 1
  BY <1>2, <1>5, AppendFacts
<1>. HIDE DEF read
<1>7. framing = "raw" => partial = << >>
  BY DEF IInv, PartialInv
<1>8. framing = "framed" => size[u.send] <= MaxFrame
  <2>1. size[u.send] \in Nat /\ MaxFrame \in Nat
    BY <1>2, SizesAssumption DEF IInv, Typed
  <2>2. framing = "framed" /\ size[u.send] > MaxFrame => written[u.send] = 0
    BY <1>2 DEF IInv, SendInv
  <2>. QED
    BY <1>2, <2>1, <2>2
<1>9. CASE partial = << >>
  <2>1. Len(partial) = 0
    BY <1>9
  <2>2. framing = "framed" => u.unit = 1
    <3>. SUFFICES ASSUME framing = "framed", u.unit > 1 PROVE FALSE
      BY <1>2
    <3>1. taken > 0 /\ wire[taken] = Unit(u.send, u.unit - 1) /\ u.unit - 1 \in Nat
      BY <1>1, <1>2, <1>3, <1>4
    <3>2. wire[taken].send = u.send /\ wire[taken].unit = u.unit - 1
      BY <3>1, <1>2, UnitFacts
    <3>3. wire[taken].unit = Length(wire[taken].send)
      BY <3>1, <1>9 DEF IInv, PartialInv, EndsItem
    <3>. QED
      BY <3>2, <3>3, <1>2, LengthFacts DEF IInv
  <2>3. read[1] = u /\ \A k \in 1..Len(read) : k = 1
    BY <2>1, <1>6
  <2>. QED
    BY <1>1, <1>2, <1>5, <1>6, <1>7, <1>8, <2>1, <2>2, <2>3 DEF u, read
<1>10. CASE partial # << >>
  <2>1. framing = "framed" /\ taken > 0
    BY <1>10 DEF IInv, PartialInv
  <2>2. PICK i \in Sends :
          /\ Len(partial) < Length(i) /\ wire[taken] = Unit(i, Len(partial))
          /\ \A k \in 1..Len(partial) : partial[k] = Unit(i, k)
    BY <1>10 DEF IInv, PartialInv
  <2>3. wire[taken].send = i /\ wire[taken].unit = Len(partial) /\ ~Complete(wire[taken])
    BY <2>2, <1>5, UnitFacts, LengthFacts DEF IInv, Complete
  <2>4. u.unit > 1
    BY <2>1, <2>3, <1>1, <1>2, <1>3, <1>4
  <2>5. wire[taken] = Unit(u.send, u.unit - 1) /\ u.unit - 1 \in Nat
    BY <2>4, <1>2, <1>3, <1>4
  <2>6. i = u.send /\ Len(partial) = u.unit - 1
    BY <2>3, <2>5, <1>2, UnitFacts
  <2>7. u.unit = Len(partial) + 1
    BY <2>6, <1>2
  <2>8. \A k \in 1..Len(read) : read[k] = Unit(u.send, k)
    BY <2>2, <2>6, <2>7, <1>2, <1>6
  <2>9. 1 \in 1..Len(read) /\ Unit(u.send, 1).send = u.send
    BY <1>5, <1>6, <1>2, UnitFacts
  <2>. QED
    BY <1>1, <1>2, <1>5, <1>6, <1>7, <1>8, <2>7, <2>8, <2>9 DEF u, read
<1>. QED
  BY <1>9, <1>10

\* What reading it comes to.
LEMMA ReadsWell ==
  ASSUME IInv, Reads
  PROVE  LET u == wire[taken + 1]
             read == Append(partial, u)
         IN /\ taken' = taken + 1 /\ UNCHANGED <<ourVars, connection, reader, outcome>>
            /\ EndsItem(u) => /\ chunks' = Append(chunks, read) /\ partial' = << >>
                              /\ Whole(read) /\ Last(read) = u
            /\ ~EndsItem(u) => chunks' = chunks /\ partial' = read
<1>. DEFINE u == wire[taken + 1]
            read == Append(partial, u)
            announced == size[read[1].send]
            tooLarge == framing = "framed" /\ Len(read) = Header /\ announced > MaxFrame
            whole == framing = "raw" \/ (Len(read) >= Header /\ Len(read) = Header + announced)
<1>1. /\ taken < Len(wire) /\ taken' = taken + 1 /\ reader = "reading"
      /\ chunks' = IF whole THEN Append(chunks, read) ELSE chunks
      /\ partial' = IF whole THEN << >> ELSE read
      /\ reader' = IF tooLarge THEN "gone" ELSE "reading"
      /\ outcome' = IF tooLarge THEN "failed" ELSE outcome
      /\ UNCHANGED <<ourVars, connection>>
  BY DEF Reads
<1>2. /\ u \in Units /\ read \in Seq(Units) /\ Len(read) = Len(partial) + 1 /\ Len(partial) \in Nat
      /\ framing = "framed" =>
           /\ u = Unit(u.send, Len(partial) + 1)
           /\ Len(partial) + 1 <= Length(u.send) /\ size[u.send] <= MaxFrame
           /\ \A k \in 1..Len(read) : read[k] = Unit(u.send, k)
      /\ framing = "raw" => partial = << >>
      /\ read[Len(read)] = u /\ read[1].send = u.send
  BY <1>1, NextUnit
<1>3. u.send \in Sends /\ Length(u.send) = Header + size[u.send] /\ Length(u.send) \in Nat
      /\ Header \in Nat /\ size[u.send] \in Nat /\ framing \in {"framed", "raw"}
  BY <1>2, UnitFacts, LengthFacts, SizesAssumption DEF IInv, Typed
<1>. HIDE DEF u, read
<1>4. ~tooLarge
  BY <1>2, <1>3, SizesAssumption
<1>5. whole <=> EndsItem(u)
  <2>1. CASE framing = "raw"
    BY <2>1 DEF EndsItem
  <2>2. CASE framing = "framed"
    <3>1. u.unit = Len(read)
      BY <1>2, <1>3, <2>2, UnitFacts
    <3>. QED
      BY <3>1, <2>2, <1>2, <1>3 DEF EndsItem
  <2>. QED
    BY <2>1, <2>2, <1>3
<1>6. Last(read) = u
  BY <1>2 DEF Last
<1>7. ASSUME EndsItem(u) PROVE Whole(read)
  <2>1. CASE framing = "raw"
    BY <2>1 DEF Whole
  <2>2. CASE framing = "framed"
    <3>1. u.unit = Len(read) /\ u.unit = Length(u.send)
      BY <1>2, <1>3, <1>7, <2>2, UnitFacts DEF EndsItem
    <3>2. read = [k \in 1..Length(u.send) |-> Unit(u.send, k)]
      <4>1. read = [k \in 1..Len(read) |-> read[k]]
        BY <1>2, LenProperties
      <4>. QED
        BY <3>1, <4>1, <1>2, <2>2
    <3>. QED
      BY <3>2, <1>6 DEF Whole
  <2>. QED
    BY <2>1, <2>2, <1>3
<1>. HIDE DEF whole, tooLarge
<1>. QED
  BY <1>1, <1>4, <1>5, <1>6, <1>7 DEF u, read
-------------------------------------------------------------------------------
(* The steps, each invariant in turn.                                        *)

LEMMA TypeStep == ASSUME IInv, [Next]_vars PROVE Typed'
<1>1. Typed /\ LockInv /\ SendInv
  BY DEF IInv
<1>2. /\ taken \in 0..Len(wire) /\ Len(wire) \in Nat /\ TRUE \in BOOLEAN /\ FALSE \in BOOLEAN
      /\ << >> \in Seq(Units)
  BY <1>1, LenProperties DEF Typed
\* What only some of it touches.
<1>L. ASSUME UNCHANGED <<framing, size, written>>
      PROVE  \A i \in Sends : written'[i] <= Length(i)'
  BY <1>1, <1>L DEF Typed, Length, Header
<1>U. ASSUME NEW t \in Tasks, NEW how \in {"failed", "done"}, Holds(t), Unlocks(t, how),
             finished' \in BOOLEAN
      PROVE  Typed'
  <2>1. lock' \in Seq(Tasks)
    BY <1>1, <1>U, Released DEF Unlocks
  <2>2. task' \in [Tasks -> {"none", "spawned", "locking", "done", "failed"}]
    BY <1>1, <1>U DEF Unlocks, Typed
  <2>3. UNCHANGED <<framing, open, size, written, wire, connection, reader, taken, partial,
                    chunks, outcome>>
    BY <1>U DEF Unlocks, peerVars
  <2>. QED
    BY <2>1, <2>2, <2>3, <1>1, <1>L, <1>U DEF Typed
<1>3. ASSUME NEW i \in Sends, NEW n \in 0..MaxSize, stream_send(i, n)
      PROVE  Typed'
  <2>1. /\ size' = [size EXCEPT ![i] = n]
        /\ task' = [task EXCEPT ![i] = IF framing = "framed" /\ n > MaxFrame
                                       THEN "failed" ELSE "spawned"]
        /\ UNCHANGED <<framing, open, written, lock, wire, finished, connection, reader, taken,
                       partial, chunks, outcome>>
        /\ task[i] = "none"
    BY <1>3 DEF stream_send, peerVars
  <2>2. size' \in [Sends -> 0..MaxSize]
    BY <1>1, <2>1 DEF Typed
  <2>3. task' \in [Tasks -> {"none", "spawned", "locking", "done", "failed"}]
    BY <1>1, <2>1, TaskFacts DEF Typed
  <2>4. written[i] = 0
    BY <1>1, <2>1 DEF SendInv
  <2>5. \A j \in Sends : written'[j] <= Length(j)'
    <3>. SUFFICES ASSUME NEW j \in Sends PROVE written'[j] <= Length(j)'
      OBVIOUS
    <3>1. CASE j = i
      <4>1. Length(j)' = Header + n /\ Header \in Nat
        BY <2>1, <3>1, <1>1, LengthFacts DEF Length, Header, Typed
      <4>. QED
        BY <4>1, <3>1, <2>1, <2>4, SizesAssumption
    <3>2. CASE j # i
      BY <1>1, <2>1, <3>2 DEF Typed, Length, Header
    <3>. QED
      BY <3>1, <3>2
  <2>. QED
    BY <1>1, <2>1, <2>2, <2>3, <2>5 DEF Typed
<1>4. CASE stream_close
  <2>1. task' \in [Tasks -> {"none", "spawned", "locking", "done", "failed"}]
    BY <1>1, <1>4, TaskFacts DEF Typed, stream_close
  <2>. QED
    BY <1>1, <1>2, <1>4, <2>1, <1>L DEF Typed, stream_close, peerVars
<1>5. ASSUME NEW t \in Tasks, Locks(t)
      PROVE  Typed'
  <2>1. task' \in [Tasks -> {"none", "spawned", "locking", "done", "failed"}]
    BY <1>1, <1>5 DEF Typed, Locks
  <2>2. lock' \in Seq(Tasks)
    BY <1>1, <1>5, AppendFacts DEF Typed, Locks
  <2>. QED
    BY <1>1, <1>5, <2>1, <2>2, <1>L DEF Typed, Locks, peerVars
<1>6. ASSUME NEW i \in Sends, Writes(i)
      PROVE  Typed'
  <2>1. /\ written[i] < Length(i) /\ written' = [written EXCEPT ![i] = written[i] + 1]
        /\ wire' = Append(wire, Unit(i, written[i] + 1))
        /\ UNCHANGED <<framing, open, task, size, lock, finished, connection, reader, taken,
                       partial, chunks, outcome>>
    BY <1>6 DEF Writes, peerVars
  <2>2. written[i] \in Nat /\ Unit(i, written[i] + 1) \in Units
    BY <1>1, UnitFacts DEF Typed
  <2>3. wire' \in Seq(Units) /\ Len(wire') = Len(wire) + 1
    BY <1>1, <2>1, <2>2, AppendFacts DEF Typed
  <2>4. written' \in [Sends -> Nat] /\ \A j \in Sends : written'[j] <= Length(j)'
    <3>1. \A j \in Sends : Length(j)' = Length(j) /\ Length(j) \in Nat
      BY <1>1, <2>1, LengthFacts DEF Length, Header
    <3>. QED
      BY <1>1, <2>1, <2>2, <3>1 DEF Typed
  <2>5. taken' \in 0..Len(wire')
    BY <1>2, <2>1, <2>3
  <2>. QED
    BY <1>1, <2>1, <2>3, <2>4, <2>5 DEF Typed
<1>7. ASSUME NEW i \in Sends, WriteFails(i)
      PROVE  Typed'
  BY <1>1, <1>7, <1>U, TaskFacts DEF WriteFails, Typed
<1>8. ASSUME NEW i \in Sends, Sent(i)
      PROVE  Typed'
  BY <1>1, <1>8, <1>U, TaskFacts DEF Sent, Typed
<1>9. CASE Finishes
  <2>1. finished' \in BOOLEAN
    <3>1. finished' = TRUE \/ finished' = FALSE
      BY <1>9 DEF Finishes
    <3>. QED
      BY <3>1
  <2>. QED
    BY <1>9, <2>1, <1>U, TaskFacts DEF Finishes
<1>10. CASE Reads
  <2>1. taken < Len(wire)
    BY <1>10 DEF Reads
  <2>2. partial' \in Seq(Units)
    <3>. DEFINE u == wire[taken + 1]
    <3>1. Append(partial, u) \in Seq(Units)
      BY <2>1, NextUnit
    <3>2. partial' = << >> \/ partial' = Append(partial, u)
      BY <1>10, ReadsWell
    <3>. QED
      BY <3>1, <3>2, <1>2
  <2>3. taken' = taken + 1 /\ taken + 1 \in 0..Len(wire)
        /\ UNCHANGED <<ourVars, connection, reader, outcome>>
    BY <1>2, <1>10, <2>1, ReadsWell
  <2>. QED
    BY <1>1, <2>2, <2>3, <1>L DEF Typed, ourVars
<1>11. CASE ReadsEnd \/ ReadsConnectionEnd \/ PeerCloses
  <2>1. UNCHANGED <<ourVars, connection, taken, partial, chunks>> /\ reader' = "gone"
        /\ outcome' \in {"none", "orderly", "failed"}
    BY <1>1, <1>11 DEF ReadsEnd, ReadsConnectionEnd, PeerCloses, Typed
  <2>. QED
    BY <1>1, <2>1, <1>L DEF Typed, ourVars
<1>12. ASSUME NEW how \in {"closed", "lost"}, ConnectionEnds(how)
       PROVE  Typed'
  BY <1>1, <1>12, <1>L DEF Typed, ConnectionEnds, ourVars, peerVars
<1>13. CASE UNCHANGED vars
  BY <1>1, <1>13, <1>L DEF Typed, vars, ourVars, peerVars
<1>. QED
  BY <1>3, <1>4, <1>5, <1>6, <1>7, <1>8, <1>9, <1>10, <1>11, <1>12, <1>13, NextCases

LEMMA LockStep == ASSUME IInv, [Next]_vars PROVE LockInv'
<1>1. Typed /\ LockInv /\ SendInv
  BY DEF IInv
<1>K. ASSUME UNCHANGED lock, open' => task'[Closer] = "none",
             \A t \in Tasks : task'[t] = "locking" <=> task[t] = "locking"
      PROVE  LockInv'
  BY <1>1, <1>K DEF LockInv
<1>C. open => task[Closer] = "none"
  BY <1>1 DEF LockInv
<1>U. ASSUME NEW t \in Tasks, NEW how \in {"failed", "done"}, Holds(t), Unlocks(t, how)
      PROVE  LockInv'
  <2>1. lock' = Tail(lock) /\ \A s \in Tasks : task'[s] = IF s = t THEN how ELSE task[s]
    BY <1>1, <1>U DEF Unlocks, Typed
  <2>2. task[t] = "locking" /\ open' = open
    BY <1>1, <1>U, Holder DEF Unlocks
  <2>3. open' => task'[Closer] = "none"
    BY <1>C, <2>1, <2>2, TaskFacts
  <2>. QED
    BY <1>1, <1>U, <2>1, <2>3, Released DEF LockInv
<1>2. ASSUME NEW i \in Sends, NEW n \in 0..MaxSize, stream_send(i, n)
      PROVE  LockInv'
  BY <1>1, <1>2, <1>C, <1>K, TaskFacts DEF stream_send, Typed
<1>3. CASE stream_close
  <2>1. task[Closer] # "locking"
    BY <1>C, <1>3 DEF stream_close
  <2>. QED
    BY <1>1, <1>3, <2>1, <1>K, TaskFacts DEF stream_close, Typed
<1>4. ASSUME NEW t \in Tasks, Locks(t)
      PROVE  LockInv'
  <2>1. /\ \A s \in Tasks : task'[s] = IF s = t THEN "locking" ELSE task[s]
        /\ task[t] = "spawned" /\ lock' = Append(lock, t)
    BY <1>1, <1>4 DEF Locks, Typed
  <2>2. /\ Len(lock') = Len(lock) + 1 /\ Len(lock) \in Nat
        /\ \A i \in 1..Len(lock) : lock'[i] = lock[i]
        /\ lock'[Len(lock) + 1] = t
        /\ \A i : i \in 1..Len(lock') <=> i \in 1..Len(lock) \/ i = Len(lock) + 1
    BY <1>1, <2>1, AppendFacts DEF Typed
  <2>3. \A p \in 1..Len(lock) : lock[p] # t
    BY <1>1, <2>1 DEF LockInv
  <2>4. \A s \in Tasks : task'[s] = "locking" <=> \E p \in 1..Len(lock') : lock'[p] = s
    <3>. SUFFICES ASSUME NEW s \in Tasks
                  PROVE  task'[s] = "locking" <=> \E p \in 1..Len(lock') : lock'[p] = s
      OBVIOUS
    <3>1. CASE s = t
      BY <2>1, <2>2, <3>1
    <3>2. CASE s # t
      BY <1>1, <2>1, <2>2, <3>2 DEF LockInv
    <3>. QED
      BY <3>1, <3>2
  <2>5. \A p, q \in 1..Len(lock') : lock'[p] = lock'[q] => p = q
    BY <1>1, <2>2, <2>3 DEF LockInv
  <2>6. open' => task'[Closer] = "none"
    BY <1>4, <1>C, <2>1, TaskFacts DEF Locks
  <2>. QED
    BY <2>4, <2>5, <2>6 DEF LockInv
<1>5. ASSUME NEW i \in Sends, Writes(i)
      PROVE  LockInv'
  BY <1>5, <1>C, <1>K DEF Writes
<1>6. ASSUME NEW i \in Sends, WriteFails(i) \/ Sent(i)
      PROVE  LockInv'
  BY <1>6, <1>U, TaskFacts DEF WriteFails, Sent
<1>7. CASE Finishes
  BY <1>7, <1>U, TaskFacts DEF Finishes
<1>8. CASE Reads
  BY <1>8, <1>C, <1>K DEF Reads, ourVars
<1>9. CASE ReadsEnd \/ ReadsConnectionEnd \/ PeerCloses
  BY <1>9, <1>C, <1>K DEF ReadsEnd, ReadsConnectionEnd, PeerCloses, ourVars
<1>10. ASSUME NEW how \in {"closed", "lost"}, ConnectionEnds(how)
       PROVE  LockInv'
  BY <1>10, <1>C, <1>K DEF ConnectionEnds, ourVars
<1>11. CASE UNCHANGED vars
  BY <1>11, <1>C, <1>K DEF vars, ourVars
<1>. QED
  BY <1>2, <1>3, <1>4, <1>5, <1>6, <1>7, <1>8, <1>9, <1>10, <1>11, NextCases

LEMMA SendStep == ASSUME IInv, [Next]_vars PROVE SendInv'
<1>1. Typed /\ LockInv /\ SendInv
  BY DEF IInv
<1>K. ASSUME UNCHANGED <<framing, size, written, lock>>, \A i \in Sends : task'[i] = task[i]
      PROVE  SendInv'
  BY <1>1, <1>K DEF SendInv, Length, Header, Holds
<1>U. ASSUME NEW t \in Tasks, NEW how \in {"failed", "done"}, Holds(t), Unlocks(t, how),
             t \in Sends => task[t] = "locking" /\ (how = "done" => written[t] = Length(t))
      PROVE  SendInv'
  <2>1. /\ lock' = Tail(lock) /\ \A s \in Tasks : task'[s] = IF s = t THEN how ELSE task[s]
        /\ UNCHANGED <<framing, size, written>>
    BY <1>1, <1>U DEF Unlocks, Typed
  <2>2. /\ \A s \in Sends : ~Holds(s) \/ s = t
    BY <1>1, <1>U, Holder
  <2>3. ASSUME NEW i \in Sends
        PROVE  /\ task'[i] \in {"none", "spawned"} => written'[i] = 0
               /\ task'[i] = "locking" /\ ~Holds(i)' => written'[i] = 0
               /\ task'[i] = "done" => written'[i] = Length(i)'
               /\ framing' = "framed" /\ size'[i] > MaxFrame =>
                    written'[i] = 0 /\ task'[i] \in {"none", "failed"}
    <3>1. Length(i)' = Length(i)
      BY <2>1 DEF Length, Header
    <3>2. CASE i = t
      BY <1>1, <1>U, <2>1, <3>1, <3>2 DEF SendInv
    <3>3. CASE i # t
      BY <1>1, <2>1, <2>2, <3>1, <3>3, TaskFacts DEF SendInv
    <3>. QED
      BY <3>2, <3>3
  <2>. QED
    BY <2>3 DEF SendInv
<1>2. ASSUME NEW i \in Sends, NEW n \in 0..MaxSize, stream_send(i, n)
      PROVE  SendInv'
  <2>1. /\ task[i] = "none" /\ UNCHANGED <<framing, written, lock>>
        /\ size' = [size EXCEPT ![i] = n]
        /\ task' = [task EXCEPT ![i] = IF framing = "framed" /\ n > MaxFrame
                                       THEN "failed" ELSE "spawned"]
    BY <1>2 DEF stream_send
  <2>2. written'[i] = 0 /\ size'[i] = n
        /\ task'[i] = IF framing = "framed" /\ n > MaxFrame THEN "failed" ELSE "spawned"
    BY <1>1, <2>1, TaskFacts DEF SendInv, Typed
  <2>3. \A j \in Sends : j # i =>
          task'[j] = task[j] /\ size'[j] = size[j] /\ Length(j)' = Length(j)
    BY <1>1, <2>1, TaskFacts DEF Typed, Length, Header
  <2>4. \A j : Holds(j)' <=> Holds(j)
    BY <2>1 DEF Holds
  <2>5. ASSUME NEW j \in Sends
        PROVE  /\ task'[j] \in {"none", "spawned"} => written'[j] = 0
               /\ task'[j] = "locking" /\ ~Holds(j)' => written'[j] = 0
               /\ task'[j] = "done" => written'[j] = Length(j)'
               /\ framing' = "framed" /\ size'[j] > MaxFrame =>
                    written'[j] = 0 /\ task'[j] \in {"none", "failed"}
    <3>1. CASE j = i
      BY <2>1, <2>2, <3>1
    <3>2. CASE j # i
      BY <1>1, <2>1, <2>3, <2>4, <3>2 DEF SendInv
    <3>. QED
      BY <3>1, <3>2
  <2>. QED
    BY <2>5 DEF SendInv
<1>3. CASE stream_close
  <2>1. UNCHANGED <<framing, size, written, lock>> /\ task' = [task EXCEPT ![Closer] = "spawned"]
    BY <1>3 DEF stream_close
  <2>2. \A i \in Sends : task'[i] = task[i]
    BY <1>1, <2>1, TaskFacts DEF Typed
  <2>. QED
    BY <2>1, <2>2, <1>K
<1>4. ASSUME NEW t \in Tasks, Locks(t)
      PROVE  SendInv'
  <2>1. /\ task[t] = "spawned" /\ task' = [task EXCEPT ![t] = "locking"]
        /\ lock' = Append(lock, t) /\ UNCHANGED <<framing, size, written>>
    BY <1>4 DEF Locks
  <2>2. \A s : Holds(s) => Holds(s)'
    <3>1. ASSUME lock # << >> PROVE Head(Append(lock, t)) = Head(lock) /\ Append(lock, t) # << >>
      BY <1>1, <3>1, AppendFacts, TailFacts DEF Typed
    <3>. QED
      BY <2>1, <3>1 DEF Holds
  <2>3. ASSUME NEW i \in Sends
        PROVE  /\ task'[i] \in {"none", "spawned"} => written'[i] = 0
               /\ task'[i] = "locking" /\ ~Holds(i)' => written'[i] = 0
               /\ task'[i] = "done" => written'[i] = Length(i)'
               /\ framing' = "framed" /\ size'[i] > MaxFrame =>
                    written'[i] = 0 /\ task'[i] \in {"none", "failed"}
    <3>1. Length(i)' = Length(i)
      BY <2>1 DEF Length, Header
    <3>2. CASE i = t
      BY <1>1, <2>1, <3>2 DEF SendInv, Typed
    <3>3. CASE i # t
      <4>1. task'[i] = task[i]
        BY <1>1, <2>1, <3>3, TaskFacts DEF Typed
      <4>. QED
        BY <1>1, <2>1, <2>2, <3>1, <4>1 DEF SendInv
    <3>. QED
      BY <3>2, <3>3
  <2>. QED
    BY <2>3 DEF SendInv
<1>5. ASSUME NEW i \in Sends, Writes(i)
      PROVE  SendInv'
  <2>1. /\ Holds(i) /\ written' = [written EXCEPT ![i] = written[i] + 1]
        /\ UNCHANGED <<framing, size, task, lock>> /\ task[i] = "locking"
    BY <1>1, <1>5, Holder DEF Writes
  <2>2. ASSUME NEW j \in Sends
        PROVE  /\ task'[j] \in {"none", "spawned"} => written'[j] = 0
               /\ task'[j] = "locking" /\ ~Holds(j)' => written'[j] = 0
               /\ task'[j] = "done" => written'[j] = Length(j)'
               /\ framing' = "framed" /\ size'[j] > MaxFrame =>
                    written'[j] = 0 /\ task'[j] \in {"none", "failed"}
    <3>1. Length(j)' = Length(j) /\ (Holds(j)' <=> Holds(j))
      BY <2>1 DEF Length, Header, Holds
    <3>2. CASE j = i
      BY <1>1, <2>1, <3>1, <3>2 DEF SendInv
    <3>3. CASE j # i
      BY <1>1, <2>1, <3>1, <3>3 DEF SendInv, Typed
    <3>. QED
      BY <3>2, <3>3
  <2>. QED
    BY <2>2 DEF SendInv
<1>6. ASSUME NEW i \in Sends, WriteFails(i)
      PROVE  SendInv'
  BY <1>6, <1>U, TaskFacts DEF WriteFails
<1>7. ASSUME NEW i \in Sends, Sent(i)
      PROVE  SendInv'
  <2>1. task[i] = "locking"
    BY <1>1, <1>7, Holder DEF Sent
  <2>. QED
    BY <1>7, <2>1, <1>U, TaskFacts DEF Sent
<1>8. CASE Finishes
  BY <1>8, <1>U, TaskFacts DEF Finishes
<1>9. CASE Reads \/ ReadsEnd \/ ReadsConnectionEnd \/ PeerCloses
  BY <1>9, <1>K DEF Reads, ReadsEnd, ReadsConnectionEnd, PeerCloses, ourVars
<1>10. ASSUME NEW how \in {"closed", "lost"}, ConnectionEnds(how)
       PROVE  SendInv'
  BY <1>10, <1>K DEF ConnectionEnds, ourVars
<1>11. CASE UNCHANGED vars
  BY <1>11, <1>K DEF vars, ourVars
<1>. QED
  BY <1>2, <1>3, <1>4, <1>5, <1>6, <1>7, <1>8, <1>9, <1>10, <1>11, NextCases

\* Only Writes adds to the wire.
LEMMA WireStays ==
  ASSUME [Next]_vars, ~\E i \in Sends : Writes(i)
  PROVE  UNCHANGED <<wire, written>>
BY NextCases DEF stream_send, stream_close, Locks, WriteFails, Sent, Finishes, Unlocks,
   Reads, ReadsEnd, ReadsConnectionEnd, PeerCloses, ConnectionEnds, vars, ourVars

LEMMA WireGrows ==
  ASSUME IInv, NEW i \in Sends, Writes(i)
  PROVE  /\ Unit(i, written[i] + 1) \in Units /\ written[i] \in Nat
         /\ Len(wire') = Len(wire) + 1 /\ Len(wire) \in Nat
         /\ \A p \in 1..Len(wire) : wire'[p] = wire[p]
         /\ wire'[Len(wire) + 1] = Unit(i, written[i] + 1)
         /\ \A p : p \in 1..Len(wire') <=> p \in 1..Len(wire) \/ p = Len(wire) + 1
         /\ wire' # << >>
         /\ \A j \in Sends : written'[j] = IF j = i THEN written[i] + 1 ELSE written[j]
         /\ UNCHANGED <<framing, open, task, size, lock, finished, connection, peerVars>>
<1>1. /\ written[i] \in Nat /\ wire' = Append(wire, Unit(i, written[i] + 1))
      /\ written' = [written EXCEPT ![i] = written[i] + 1]
      /\ UNCHANGED <<framing, open, task, size, lock, finished, connection, peerVars>>
  BY DEF Writes, IInv, Typed
<1>2. Unit(i, written[i] + 1) \in Units
  BY <1>1, UnitFacts
<1>3. /\ Len(wire') = Len(wire) + 1 /\ Len(wire) \in Nat
      /\ \A p \in 1..Len(wire) : wire'[p] = wire[p]
      /\ wire'[Len(wire) + 1] = Unit(i, written[i] + 1)
      /\ \A p : p \in 1..Len(wire') <=> p \in 1..Len(wire) \/ p = Len(wire) + 1
  BY <1>1, <1>2, AppendFacts DEF IInv, Typed
<1>4. wire' # << >>
  BY <1>3
<1>5. \A j \in Sends : written'[j] = IF j = i THEN written[i] + 1 ELSE written[j]
  BY <1>1 DEF IInv, Typed
<1>. QED
  BY <1>1, <1>2, <1>3, <1>4, <1>5

\* The frame that Writes goes on with, or begins, is where the wire ends.
LEMMA FramesFollow ==
  ASSUME IInv, NEW i \in Sends, Writes(i)
  PROVE  /\ wire # << >> =>
              /\ written[i] = 0 => Complete(wire[Len(wire)])
              /\ written[i] > 0 => wire[Len(wire)] = Unit(i, written[i])
         /\ written[i] > 0 => wire # << >>
<1>1. Holds(i) /\ ~Unwritable /\ written[i] \in Nat
  BY DEF Writes, IInv, Typed
<1>2. written[i] > 0 => wire # << >> /\ wire[Len(wire)] = Unit(i, written[i])
  BY <1>1 DEF IInv, TornInv
<1>3. ASSUME wire # << >>, ~Complete(wire[Len(wire)])
      PROVE  written[i] > 0
  <2>1. Holds(wire[Len(wire)].send)
    BY <1>1, <1>3 DEF IInv, TornInv, Unwritable
  <2>2. wire[Len(wire)].send = i
    BY <1>1, <2>1 DEF Holds
  <2>3. Len(wire) \in 1..Len(wire)
    BY <1>3, EmptySeq, LenProperties DEF IInv, Typed
  <2>. QED
    BY <2>2, <2>3, WireUnits
<1>. QED
  BY <1>1, <1>2, <1>3

LEMMA WireStep == ASSUME IInv, [Next]_vars PROVE WireInv'
<1>1. WireInv
  BY DEF IInv
<1>3. CASE ~\E i \in Sends : Writes(i)
  <2>1. UNCHANGED <<wire, written>>
    BY <1>3, WireStays
  <2>2. \A p \in 1..Len(wire) : Complete(wire[p]) => Complete(wire[p])'
    <3>1. ASSUME NEW p \in 1..Len(wire), NEW u \in Units, u = wire[p], Complete(u)
          PROVE  Complete(wire[p])'
      <4>1. u.unit \in 1..written[u.send]
        BY <1>1, <3>1 DEF WireInv
      <4>2. Complete(u)' /\ wire'[p] = u
        BY <2>1, <3>1, <4>1, UnitsKeepMeaning
      <4>. QED
        BY <4>2 DEF Complete
    <3>2. \A p \in 1..Len(wire) : wire[p] \in Units
      BY WireUnits
    <3>. QED
      BY <3>1, <3>2
  <2>3. \A p \in 1..Len(wire) : p # 1 => p - 1 \in 1..Len(wire)
    BY LenProperties DEF IInv, Typed
  <2>4. \A p \in 1..Len(wire) :
          /\ wire[p].unit = 1 => p = 1 \/ Complete(wire[p - 1])'
          /\ wire[p].unit > 1 => p > 1 /\ wire[p - 1] = Unit(wire[p].send, wire[p].unit - 1)
    BY <1>1, <2>2, <2>3 DEF WireInv
  <2>. QED
    BY <1>1, <2>1, <2>4 DEF WireInv
<1>4. ASSUME NEW i \in Sends, Writes(i)
      PROVE  WireInv'
  <2>. DEFINE n == Len(wire)
              k0 == written[i] + 1
  <2>1. /\ Unit(i, k0) \in Units /\ written[i] \in Nat
        /\ Len(wire') = n + 1 /\ n \in Nat
        /\ \A p \in 1..n : wire'[p] = wire[p]
        /\ wire'[n + 1] = Unit(i, k0)
        /\ \A p : p \in 1..Len(wire') <=> p \in 1..n \/ p = n + 1
        /\ \A j \in Sends : written'[j] = IF j = i THEN k0 ELSE written[j]
        /\ UNCHANGED <<framing, size>>
    BY <1>4, WireGrows
  <2>2. \A u : Complete(u)' <=> Complete(u)
    BY <2>1 DEF Complete, Length, Header
  <2>3. Unit(i, k0).send = i /\ Unit(i, k0).unit = k0 /\ k0 \in Nat /\ k0 > 0
    BY <2>1, UnitFacts
  <2>4. \A p \in 1..n : /\ wire[p].send \in Sends /\ wire[p].unit \in Nat /\ wire[p].unit >= 1
                        /\ wire[p].unit <= written[wire[p].send] /\ p \in Nat
    BY WireUnits
  <2>5. \A j \in Sends : written[j] \in Nat
    BY DEF IInv, Typed
  <2>. HIDE DEF n, k0
  <2>6. \A p \in 1..Len(wire') : wire'[p].unit \in 1..written'[wire'[p].send]
    <3>. SUFFICES ASSUME NEW p \in 1..Len(wire') PROVE wire'[p].unit \in 1..written'[wire'[p].send]
      OBVIOUS
    <3>1. CASE p = n + 1
      BY <2>1, <2>3, <3>1
    <3>2. CASE p \in 1..n
      <4>1. wire[p].unit <= written'[wire[p].send] /\ written'[wire[p].send] \in Nat
        BY <2>1, <2>3, <2>4, <2>5, <3>2 DEF k0
      <4>. QED
        BY <2>1, <2>4, <3>2, <4>1
    <3>. QED
      BY <2>1, <3>1, <3>2
  <2>7. \A j \in Sends : \A k \in 1..written'[j] : \E p \in 1..Len(wire') : wire'[p] = Unit(j, k)
    <3>. SUFFICES ASSUME NEW j \in Sends, NEW k \in 1..written'[j]
                  PROVE  \E p \in 1..Len(wire') : wire'[p] = Unit(j, k)
      OBVIOUS
    <3>1. CASE j = i /\ k = k0
      BY <2>1, <3>1
    <3>2. CASE ~(j = i /\ k = k0)
      <4>1. k \in 1..written[j]
        BY <2>1, <2>3, <2>5, <3>2 DEF k0
      <4>2. PICK p \in 1..n : wire[p] = Unit(j, k)
        BY <1>1, <4>1 DEF WireInv, n
      <4>. QED
        BY <2>1, <4>2
    <3>. QED
      BY <3>1, <3>2
  <2>8. \A p \in 1..n : wire[p] # Unit(i, k0)
    BY <2>1, <2>3, <2>4 DEF k0
  <2>9. \A p, q \in 1..Len(wire') : wire'[p] = wire'[q] => p = q
    <3>1. \A p, q \in 1..n : wire[p] = wire[q] => p = q
      BY <1>1 DEF WireInv, n
    <3>. QED
      BY <2>1, <2>8, <3>1
  <2>10. ASSUME NEW p \in 1..Len(wire')
         PROVE  /\ wire'[p].unit = 1 => p = 1 \/ Complete(wire'[p - 1])
                /\ wire'[p].unit > 1 =>
                     p > 1 /\ wire'[p - 1] = Unit(wire'[p].send, wire'[p].unit - 1)
    <3>1. CASE p \in 1..n
      <4>1. /\ wire[p].unit = 1 => p = 1 \/ Complete(wire[p - 1])
            /\ wire[p].unit > 1 => p > 1 /\ wire[p - 1] = Unit(wire[p].send, wire[p].unit - 1)
        BY <1>1, <3>1 DEF WireInv, n
      <4>2. wire'[p] = wire[p] /\ (p # 1 => wire'[p - 1] = wire[p - 1])
        BY <2>1, <3>1
      <4>. QED
        BY <4>1, <4>2
    <3>2. CASE p = n + 1
      <4>1. wire'[p] = Unit(i, k0) /\ p - 1 = n
        BY <2>1, <3>2
      <4>2. CASE wire = << >>
        <5>1. n = 0 /\ written[i] = 0
          BY <4>2, <1>4, <2>1, FramesFollow DEF n
        <5>. QED
          BY <5>1, <4>1, <2>3, <3>2 DEF k0
      <4>3. CASE wire # << >>
        <5>1. n > 0 /\ n \in 1..n /\ wire'[n] = wire[n]
          BY <4>3, <2>1, EmptySeq, LenProperties DEF IInv, Typed, n
        <5>2. /\ written[i] = 0 => Complete(wire[n])
              /\ written[i] > 0 => wire[n] = Unit(i, written[i])
          BY <4>3, <1>4, FramesFollow DEF n
        <5>3. wire'[p - 1] = wire[n] /\ wire'[p].unit = k0 /\ wire'[p].send = i /\ p > 1
          BY <4>1, <5>1, <2>3, <3>2, <2>1
        <5>4. k0 = 1 => written[i] = 0
          BY <2>1 DEF k0
        <5>5. k0 > 1 => written[i] > 0 /\ k0 - 1 = written[i]
          BY <2>1 DEF k0
        <5>. QED
          BY <5>2, <5>3, <5>4, <5>5
      <4>. QED
        BY <4>2, <4>3
    <3>. QED
      BY <2>1, <3>1, <3>2
  <2>11. \A p \in 1..Len(wire') :
           /\ wire'[p].unit = 1 => p = 1 \/ Complete(wire[p - 1])'
           /\ wire'[p].unit > 1 =>
                p > 1 /\ wire'[p - 1] = Unit(wire'[p].send, wire'[p].unit - 1)
    <3>1. \A p : Complete(wire[p - 1])' <=> Complete(wire'[p - 1])
      BY <2>1 DEF Complete, Length, Header
    <3>. QED
      BY <2>10, <3>1
  <2>. QED
    BY <2>6, <2>7, <2>9, <2>11 DEF WireInv
<1>. QED
  BY <1>3, <1>4

\* What is on the wire stays there, and means what it meant.
LEMMA UnitsStay ==
  ASSUME IInv, [Next]_vars, NEW p \in 1..Len(wire)
  PROVE  /\ p \in 1..Len(wire') /\ wire'[p] = wire[p]
         /\ Complete(wire[p])' <=> Complete(wire[p])
         /\ EndsItem(wire[p])' <=> EndsItem(wire[p])
<1>1. p \in 1..Len(wire') /\ wire'[p] = wire[p]
  <2>1. CASE \E i \in Sends : Writes(i)
    BY <2>1, WireGrows
  <2>2. CASE ~\E i \in Sends : Writes(i)
    BY <2>2, WireStays
  <2>. QED
    BY <2>1, <2>2
<1>2. ASSUME NEW u \in Units, u = wire[p]
      PROVE  /\ Complete(wire[p])' <=> Complete(wire[p])
             /\ EndsItem(wire[p])' <=> EndsItem(wire[p])
  <2>1. u.unit \in 1..written[u.send]
    BY <1>2 DEF IInv, WireInv
  <2>2. (Complete(u)' <=> Complete(u)) /\ (EndsItem(u)' <=> EndsItem(u))
    BY <2>1, UnitsKeepMeaning
  <2>. QED
    BY <1>1, <1>2, <2>2 DEF Complete, EndsItem
<1>. QED
  BY <1>1, <1>2, WireUnits

LEMMA TornStep == ASSUME IInv, [Next]_vars PROVE TornInv'
<1>1. Typed /\ LockInv /\ SendInv /\ TornInv
  BY DEF IInv
<1>2. wire # << >> => Len(wire) \in 1..Len(wire)
  BY EmptySeq, LenProperties DEF IInv, Typed
<1>4. ASSUME UNCHANGED wire, wire # << >>
      PROVE  Complete(wire[Len(wire)])' <=> Complete(wire[Len(wire)])
  <2>1. PICK p \in 1..Len(wire) : p = Len(wire)
    BY <1>2, <1>4
  <2>2. Complete(wire[p])' <=> Complete(wire[p])
    BY UnitsStay
  <2>. QED
    BY <1>4, <2>1, <2>2 DEF Complete
\* The lock stays as it is.
<1>K. ASSUME UNCHANGED <<wire, written, lock, finished>>,
             reader = "gone" => reader' = "gone", connection # "up" => connection' # "up"
      PROVE  TornInv'
  <2>1. \A s : Holds(s)' <=> Holds(s)
    BY <1>K DEF Holds
  <2>2. \A i \in Sends : Holds(i)' /\ written'[i] > 0 =>
          wire' # << >> /\ wire'[Len(wire')] = Unit(i, written'[i])
    BY <1>1, <1>K, <2>1 DEF TornInv
  <2>3. ASSUME wire' # << >>, ~Complete(wire[Len(wire)])'
        PROVE  /\ ~finished'
               /\ Holds(wire[Len(wire)].send)' \/ reader' = "gone" \/ connection' # "up"
    <3>1. /\ ~finished
          /\ Holds(wire[Len(wire)].send) \/ reader = "gone" \/ connection # "up"
      BY <1>1, <1>4, <1>K, <2>3 DEF TornInv
    <3>2. Holds(wire[Len(wire)].send) => Holds(wire[Len(wire)].send)'
      BY <1>K DEF Holds
    <3>. QED
      BY <1>K, <3>1, <3>2
  <2>. QED
    BY <2>2, <2>3 DEF TornInv
\* The lock is let go.
<1>U. ASSUME NEW t \in Tasks, NEW how \in {"failed", "done"}, Holds(t), Unlocks(t, how),
             UNCHANGED reader,
             finished' => finished \/ ~Unwritable,
             wire # << >> /\ ~Complete(wire[Len(wire)]) /\ Holds(wire[Len(wire)].send) =>
               reader = "gone" \/ connection # "up"
      PROVE  TornInv'
  <2>1. lock' = Tail(lock) /\ UNCHANGED <<wire, written, connection, reader>>
    BY <1>U DEF Unlocks
  <2>2. \A s : Holds(s)' => s \in Tasks /\ s # t /\ task[s] = "locking" /\ ~Holds(s)
    BY <1>1, <1>U, <2>1, Released
  <2>3. \A i \in Sends : ~(Holds(i)' /\ written'[i] > 0)
    BY <1>1, <2>1, <2>2 DEF SendInv, Typed
  <2>4. ASSUME wire' # << >>, ~Complete(wire[Len(wire)])'
        PROVE  ~finished' /\ (reader' = "gone" \/ connection' # "up")
    <3>1. /\ ~finished
          /\ Holds(wire[Len(wire)].send) \/ reader = "gone" \/ connection # "up"
          /\ wire # << >> /\ ~Complete(wire[Len(wire)])
      BY <1>1, <1>4, <2>1, <2>4 DEF TornInv
    <3>2. reader = "gone" \/ connection # "up"
      BY <1>U, <3>1
    <3>. QED
      BY <1>U, <2>1, <3>1, <3>2 DEF Unwritable
  <2>. QED
    BY <2>3, <2>4 DEF TornInv
<1>5. ASSUME NEW i \in Sends, NEW n \in 0..MaxSize, stream_send(i, n)
      PROVE  TornInv'
  BY <1>5, <1>K DEF stream_send, peerVars
<1>6. CASE stream_close
  BY <1>6, <1>K DEF stream_close, peerVars
<1>7. ASSUME NEW t \in Tasks, Locks(t)
      PROVE  TornInv'
  <2>1. /\ task[t] = "spawned" /\ lock' = Append(lock, t)
        /\ UNCHANGED <<wire, written, finished, reader, connection>>
    BY <1>7 DEF Locks, peerVars
  <2>2. lock # << >> => Head(Append(lock, t)) = Head(lock) /\ Append(lock, t) # << >>
    BY <1>1, AppendFacts, TailFacts DEF Typed
  <2>3. lock = << >> => Append(lock, t) # << >> /\ Head(Append(lock, t)) = t
    BY <1>1, AppendFacts, TailFacts DEF Typed
  <2>4. \A s : Holds(s) => Holds(s)'
    BY <2>1, <2>2 DEF Holds
  <2>5. \A s : Holds(s)' => Holds(s) \/ s = t
    BY <2>1, <2>2, <2>3 DEF Holds
  <2>6. ASSUME NEW i \in Sends, Holds(i)', written'[i] > 0
        PROVE  wire' # << >> /\ wire'[Len(wire')] = Unit(i, written'[i])
    <3>1. i # t
      BY <1>1, <2>1, <2>6 DEF SendInv, Typed
    <3>. QED
      BY <1>1, <2>1, <2>5, <2>6, <3>1 DEF TornInv
  <2>7. ASSUME wire' # << >>, ~Complete(wire[Len(wire)])'
        PROVE  /\ ~finished'
               /\ Holds(wire[Len(wire)].send)' \/ reader' = "gone" \/ connection' # "up"
    <3>1. /\ ~finished
          /\ Holds(wire[Len(wire)].send) \/ reader = "gone" \/ connection # "up"
      BY <1>1, <1>4, <2>1, <2>7 DEF TornInv
    <3>2. Holds(wire[Len(wire)].send) => Holds(wire[Len(wire)].send)'
      BY <2>1, <2>2 DEF Holds
    <3>. QED
      BY <2>1, <3>1, <3>2
  <2>. QED
    BY <2>6, <2>7 DEF TornInv
<1>8. ASSUME NEW i \in Sends, Writes(i)
      PROVE  TornInv'
  <2>1. /\ wire' # << >> /\ wire'[Len(wire')] = Unit(i, written[i] + 1)
        /\ written'[i] = written[i] + 1 /\ UNCHANGED <<lock, finished>>
    BY <1>8, WireGrows
  <2>2. Holds(i) /\ ~finished
    BY <1>8 DEF Writes, Unwritable
  <2>3. \A s : Holds(s)' <=> s = i
    BY <2>1, <2>2 DEF Holds
  <2>4. Unit(i, written[i] + 1).send = i
    BY <1>8, WireGrows, UnitFacts
  <2>5. Holds(wire[Len(wire)].send)'
    BY <2>1, <2>2, <2>4 DEF Holds
  <2>. QED
    BY <2>1, <2>2, <2>3, <2>5 DEF TornInv
<1>9. ASSUME NEW i \in Sends, WriteFails(i)
      PROVE  TornInv'
  <2>1. wire # << >> /\ ~Complete(wire[Len(wire)]) => ~finished
    BY <1>1 DEF TornInv
  <2>. QED
    BY <1>9, <2>1, <1>U, TaskFacts DEF WriteFails, Unwritable, Unlocks, peerVars
<1>10. ASSUME NEW i \in Sends, Sent(i)
       PROVE  TornInv'
  <2>1. Holds(i) /\ written[i] = Length(i) /\ Unlocks(i, "done") /\ UNCHANGED <<finished, reader>>
    BY <1>10 DEF Sent, Unlocks, peerVars
  <2>2. ASSUME wire # << >>, ~Complete(wire[Len(wire)]), Holds(wire[Len(wire)].send)
        PROVE  FALSE
    <3>1. wire[Len(wire)].send = i
      BY <2>1, <2>2 DEF Holds
    <3>2. written[i] > 0
      BY <1>2, <2>2, <3>1, WireUnits
    <3>3. wire[Len(wire)] = Unit(i, written[i]) /\ written[i] \in Nat
      BY <1>1, <2>1, <3>2 DEF TornInv, Typed
    <3>. QED
      BY <2>1, <2>2, <3>1, <3>3, UnitFacts DEF Complete
  <2>. QED
    BY <2>1, <2>2, <1>U, TaskFacts
<1>11. CASE Finishes
  <2>1. Holds(Closer) /\ Unlocks(Closer, "done") /\ finished' = (finished \/ ~Unwritable)
        /\ UNCHANGED reader
    BY <1>11 DEF Finishes, Unlocks, peerVars
  <2>2. ASSUME wire # << >>, Holds(wire[Len(wire)].send)
        PROVE  FALSE
    <3>1. wire[Len(wire)].send \in Sends
      BY <1>2, <2>2, WireUnits
    <3>2. wire[Len(wire)].send = Closer
      BY <2>1, <2>2 DEF Holds
    <3>. QED
      BY <3>1, <3>2, TaskFacts
  <2>3. finished' => finished \/ ~Unwritable
    BY <2>1
  <2>. QED
    BY <2>1, <2>2, <2>3, <1>U, TaskFacts
<1>12. CASE Reads
  BY <1>12, <1>K, ReadsWell DEF ourVars
<1>13. CASE ReadsEnd \/ ReadsConnectionEnd \/ PeerCloses
  BY <1>13, <1>K DEF ReadsEnd, ReadsConnectionEnd, PeerCloses, ourVars
<1>14. ASSUME NEW how \in {"closed", "lost"}, ConnectionEnds(how)
       PROVE  TornInv'
  BY <1>14, <1>K DEF ConnectionEnds, ourVars, peerVars
<1>15. CASE UNCHANGED vars
  BY <1>15, <1>K DEF vars, ourVars, peerVars
<1>. QED
  BY <1>5, <1>6, <1>7, <1>8, <1>9, <1>10, <1>11, <1>12, <1>13, <1>14, <1>15, NextCases

LEMMA PartialStep == ASSUME IInv, [Next]_vars PROVE PartialInv'
<1>1. PartialInv /\ taken \in Nat /\ (taken > 0 => taken \in 1..Len(wire)) /\ Len(partial) \in Nat
  BY LenProperties DEF IInv, Typed
\* The reader stands still.
<1>K. ASSUME UNCHANGED <<partial, taken>>
      PROVE  PartialInv'
  <2>1. CASE partial = << >>
    <3>1. CASE taken = 0
      BY <1>K, <2>1, <3>1 DEF PartialInv
    <3>2. CASE taken > 0
      <4>1. PICK p \in 1..Len(wire) : p = taken
        BY <1>1, <3>2
      <4>2. EndsItem(wire[p])' <=> EndsItem(wire[p])
        BY UnitsStay
      <4>3. EndsItem(wire[taken])
        BY <1>1, <2>1, <3>2 DEF PartialInv
      <4>4. EndsItem(wire[taken])'
        BY <1>K, <4>1, <4>2, <4>3 DEF EndsItem
      <4>. QED
        BY <1>K, <2>1, <4>4 DEF PartialInv
    <3>. QED
      BY <1>1, <3>1, <3>2
  <2>2. CASE partial # << >>
    <3>1. framing = "framed" /\ taken > 0 /\ taken \in 1..Len(wire)
      BY <1>1, <2>2 DEF PartialInv
    <3>2. PICK i \in Sends :
            /\ Len(partial) < Length(i) /\ wire[taken] = Unit(i, Len(partial))
            /\ \A k \in 1..Len(partial) : partial[k] = Unit(i, k)
      BY <2>2 DEF IInv, PartialInv
    <3>3. wire[taken].send = i /\ written[i] > 0
      BY <1>1, <3>1, <3>2, UnitFacts, WireUnits
    <3>4. framing' = framing /\ Length(i)' = Length(i)
      BY <3>3, UnitsKeepMeaning
    <3>5. wire'[taken] = wire[taken]
      BY <3>1, UnitsStay
    <3>6. Len(partial') < Length(i)' /\ wire'[taken'] = Unit(i, Len(partial'))
          /\ \A k \in 1..Len(partial') : partial'[k] = Unit(i, k)
      BY <1>K, <3>2, <3>4, <3>5
    <3>. QED
      BY <1>K, <2>2, <3>1, <3>4, <3>6 DEF PartialInv
  <2>. QED
    BY <2>1, <2>2
<1>2. CASE Reads
  <2>. DEFINE u == wire[taken + 1]
              read == Append(partial, u)
  <2>1. /\ taken' = taken + 1 /\ UNCHANGED <<framing, size, wire>> /\ taken < Len(wire)
        /\ EndsItem(u) => partial' = << >>
        /\ ~EndsItem(u) => partial' = read
    BY <1>2, ReadsWell DEF ourVars, Reads
  <2>2. /\ taken + 1 \in 1..Len(wire) /\ u \in Units /\ Len(read) = Len(partial) + 1
        /\ framing = "framed" =>
             /\ u = Unit(u.send, Len(partial) + 1)
             /\ Len(partial) + 1 <= Length(u.send)
             /\ \A k \in 1..Len(read) : read[k] = Unit(u.send, k)
    BY <2>1, NextUnit
  <2>4. wire'[taken'] = u
    BY <2>1
  <2>. HIDE DEF u, read
  <2>3. /\ u.send \in Sends /\ Length(u.send) \in Nat /\ framing \in {"framed", "raw"}
        /\ read # << >> /\ taken + 1 > 0
    <3>1. Typed
      BY DEF IInv
    <3>2. Len(read) # 0
      BY <1>1, <2>2
    <3>. QED
      BY <1>1, <2>2, <3>1, <3>2, UnitFacts, LengthFacts DEF Typed
  <2>5. CASE EndsItem(u)
    <3>1. EndsItem(wire[taken])'
      BY <2>1, <2>4, <2>5 DEF EndsItem, Length, Header
    <3>. QED
      BY <2>1, <2>5, <3>1 DEF PartialInv
  <2>6. CASE ~EndsItem(u)
    <3>1. framing = "framed" /\ u.unit # Length(u.send)
      BY <2>3, <2>6 DEF EndsItem
    <3>2. u = Unit(u.send, Len(read)) /\ u.unit = Len(read)
      BY <1>1, <2>2, <2>3, <3>1, UnitFacts
    <3>3. Len(read) < Length(u.send) /\ \A i \in Sends : Length(i)' = Length(i)
      BY <1>1, <2>1, <2>2, <2>3, <3>1, <3>2 DEF Length, Header
    <3>. QED
      BY <2>1, <2>2, <2>3, <2>4, <2>6, <3>1, <3>2, <3>3 DEF PartialInv
  <2>. QED
    BY <2>5, <2>6
<1>3. CASE ~Reads
  <2>1. UNCHANGED <<partial, taken>>
    BY <1>3, NextCases DEF stream_send, stream_close, Locks, Writes, WriteFails, Sent, Finishes,
       Unlocks, ReadsEnd, ReadsConnectionEnd, PeerCloses, ConnectionEnds, vars, peerVars
  <2>. QED
    BY <2>1, <1>K
<1>. QED
  BY <1>2, <1>3

\* A delivered chunk is not touched again.
LEMMA ChunksStay ==
  ASSUME IInv, [Next]_vars, NEW j \in 1..Len(chunks), chunks'[j] = chunks[j]
  PROVE  /\ chunks[j] # << >> /\ chunks[j] \in Seq(Units)
         /\ Whole(chunks[j])' /\ EndsItem(Last(chunks[j]))'
         /\ Last(chunks[j])' = Last(chunks[j])
         /\ Last(chunks[j]) \in Units
<1>1. /\ chunks[j] # << >> /\ chunks[j] \in Seq(Units)
      /\ Whole(chunks[j]) /\ EndsItem(Last(chunks[j]))
      /\ \E p \in 1..taken : Last(chunks[j]) = wire[p]
  BY ElementOfSeq DEF IInv, ChunkInv
<1>2. PICK p \in 1..Len(wire) : Last(chunks[j]) = wire[p]
  <2>1. \A p \in 1..taken : p \in 1..Len(wire)
    BY LenProperties DEF IInv, Typed
  <2>. QED
    BY <1>1, <2>1
<1>3. ASSUME NEW c, c = chunks[j], NEW u \in Units, u = wire[p]
      PROVE  Whole(chunks[j])' /\ EndsItem(Last(chunks[j]))' /\ Last(chunks[j])' = Last(chunks[j])
  <2>1. u = Last(c) /\ c = chunks'[j] /\ Whole(c) /\ EndsItem(u)
    BY <1>1, <1>2, <1>3
  <2>2. u.unit \in 1..written[u.send] /\ u.send \in Sends /\ written[u.send] > 0
    BY <1>3, WireUnits DEF IInv, WireInv
  <2>3. EndsItem(u)' /\ framing' = framing /\ Length(u.send)' = Length(u.send)
    BY <2>1, <2>2, UnitsKeepMeaning
  <2>4. Whole(c)'
    BY <2>1, <2>3 DEF Whole
  <2>5. Last(chunks[j])' = u
    BY <2>1 DEF Last
  <2>. QED
    BY <2>1, <2>3, <2>4, <2>5 DEF Whole, EndsItem, Last
<1>. QED
  BY <1>1, <1>2, <1>3, WireUnits

LEMMA ChunkStep == ASSUME IInv, [Next]_vars PROVE ChunkInv'
<1>1. /\ ChunkInv /\ taken \in Nat /\ \A p \in 1..taken : p \in 1..Len(wire)
      /\ chunks \in Seq(Seq(Units))
  <2>1. wire \in Seq(Units) /\ taken \in 0..Len(wire) /\ ChunkInv
    BY DEF IInv, Typed
  <2>2. Len(wire) \in Nat
    BY <2>1, LenProperties
  <2>3. taken \in Nat /\ \A p \in 1..taken : p \in 1..Len(wire)
    BY <2>1, <2>2
  <2>4. chunks \in Seq(Seq(Units))
    BY <2>1 DEF ChunkInv
  <2>. QED
    BY <2>1, <2>3, <2>4
<1>2. \A p \in 1..taken : /\ wire'[p] = wire[p]
                          /\ EndsItem(wire[p])' <=> EndsItem(wire[p])
  BY <1>1, UnitsStay
<1>3. CASE Reads
  <2>. DEFINE u == wire[taken + 1]
              read == Append(partial, u)
  <2>1. /\ taken' = taken + 1 /\ UNCHANGED <<framing, size, wire>> /\ taken < Len(wire)
        /\ EndsItem(u) => chunks' = Append(chunks, read) /\ Whole(read) /\ Last(read) = u
        /\ ~EndsItem(u) => chunks' = chunks
    BY <1>3, ReadsWell DEF ourVars, Reads
  <2>2. /\ taken + 1 \in 1..Len(wire) /\ read \in Seq(Units) /\ read # << >>
    <3>1. read \in Seq(Units) /\ Len(read) = Len(partial) + 1 /\ Len(partial) \in Nat
          /\ taken + 1 \in 1..Len(wire)
      BY <2>1, NextUnit
    <3>. QED
      BY <3>1, EmptySeq
  <2>3. wire'[taken + 1] = u /\ \A p : p \in 1..taken' <=> p \in 1..taken \/ p = taken + 1
    BY <1>1, <2>1
  <2>4. \A p \in 1..Len(wire) : p = taken + 1 => (EndsItem(wire[p])' <=> EndsItem(u))
    BY UnitsStay
  <2>. HIDE DEF u, read
  <2>5. CASE EndsItem(u)
    <3>1. /\ chunks' \in Seq(Seq(Units)) /\ Len(chunks') = Len(chunks) + 1 /\ Len(chunks) \in Nat
          /\ \A j \in 1..Len(chunks) : chunks'[j] = chunks[j]
          /\ chunks'[Len(chunks) + 1] = read
          /\ \A j : j \in 1..Len(chunks') <=> j \in 1..Len(chunks) \/ j = Len(chunks) + 1
      <4>1. chunks' = Append(chunks, read) /\ chunks \in Seq(Seq(Units)) /\ read \in Seq(Units)
        BY <1>1, <2>1, <2>2, <2>5
      <4>. QED
        BY <4>1, AppendFacts
    <3>2. \A j \in 1..Len(chunks') :
            /\ chunks'[j] # << >> /\ Whole(chunks[j])' /\ EndsItem(Last(chunks[j]))'
            /\ \E p \in 1..taken' : Last(chunks[j])' = wire'[p]
      <4>. SUFFICES ASSUME NEW j \in 1..Len(chunks')
                    PROVE  /\ chunks'[j] # << >> /\ Whole(chunks[j])' /\ EndsItem(Last(chunks[j]))'
                           /\ \E p \in 1..taken' : Last(chunks[j])' = wire'[p]
        OBVIOUS
      <4>1. CASE j \in 1..Len(chunks)
        <5>1. /\ chunks[j] # << >> /\ Whole(chunks[j])' /\ EndsItem(Last(chunks[j]))'
              /\ Last(chunks[j])' = Last(chunks[j]) /\ chunks'[j] = chunks[j]
          BY <3>1, <4>1, ChunksStay
        <5>2. \E p \in 1..taken : Last(chunks[j]) = wire[p]
          BY <1>1, <4>1 DEF ChunkInv
        <5>. QED
          BY <5>1, <5>2, <1>2, <2>3
      <4>2. CASE j = Len(chunks) + 1
        <5>1. chunks'[j] = read /\ Last(chunks[j])' = u
          BY <2>1, <2>5, <3>1, <4>2 DEF Last
        <5>2. Whole(chunks[j])' /\ EndsItem(Last(chunks[j]))'
          BY <2>1, <2>5, <5>1 DEF Whole, EndsItem, Length, Header, Last
        <5>. QED
          BY <2>2, <2>3, <5>1, <5>2
      <4>. QED
        BY <3>1, <4>1, <4>2
    <3>3. ASSUME NEW p \in 1..taken', EndsItem(wire[p])'
          PROVE  \E j \in 1..Len(chunks') : Last(chunks[j])' = wire'[p]
      <4>1. CASE p = taken + 1
        <5>1. PICK j \in 1..Len(chunks') : j = Len(chunks) + 1
          BY <3>1
        <5>2. Last(chunks[j])' = u
          BY <2>1, <2>5, <3>1, <5>1 DEF Last
        <5>. QED
          BY <2>3, <4>1, <5>2
      <4>2. CASE p \in 1..taken
        <5>1. PICK j \in 1..Len(chunks) : Last(chunks[j]) = wire[p]
          BY <1>1, <1>2, <3>3, <4>2 DEF ChunkInv
        <5>2. Last(chunks[j])' = Last(chunks[j])
          BY <3>1, ChunksStay
        <5>. QED
          BY <1>2, <3>1, <4>2, <5>1, <5>2
      <4>. QED
        BY <2>3, <4>1, <4>2
    <3>. QED
      BY <3>1, <3>2, <3>3 DEF ChunkInv
  <2>6. CASE ~EndsItem(u)
    <3>1. \A j \in 1..Len(chunks') :
            /\ chunks'[j] # << >> /\ Whole(chunks[j])' /\ EndsItem(Last(chunks[j]))'
            /\ Last(chunks[j])' = Last(chunks[j])
      BY <2>1, <2>6, ChunksStay
    <3>2. ASSUME NEW p \in 1..taken', EndsItem(wire[p])'
          PROVE  p \in 1..taken /\ EndsItem(wire[p])
      BY <1>2, <2>2, <2>3, <2>4, <2>6, <3>2
    <3>3. \A p \in 1..taken : p \in 1..taken' /\ wire'[p] = wire[p]
      BY <1>2, <2>3
    <3>. QED
      BY <1>1, <2>1, <2>6, <3>1, <3>2, <3>3 DEF ChunkInv
  <2>. QED
    BY <2>5, <2>6
<1>4. CASE ~Reads
  <2>1. UNCHANGED <<chunks, taken>>
    BY <1>4, NextCases DEF stream_send, stream_close, Locks, Writes, WriteFails, Sent, Finishes,
       Unlocks, ReadsEnd, ReadsConnectionEnd, PeerCloses, ConnectionEnds, vars, peerVars
  <2>2. \A j \in 1..Len(chunks') :
          /\ chunks'[j] # << >> /\ Whole(chunks[j])' /\ EndsItem(Last(chunks[j]))'
          /\ Last(chunks[j])' = Last(chunks[j])
    BY <2>1, ChunksStay
  <2>. QED
    BY <1>1, <1>2, <2>1, <2>2 DEF ChunkInv
<1>. QED
  BY <1>3, <1>4

LEMMA OutcomeStep == ASSUME IInv, [Next]_vars PROVE OutcomeInv'
<1>1. OutcomeInv /\ Typed /\ TornInv /\ PartialInv
  BY DEF IInv
<1>K. ASSUME UNCHANGED <<reader, outcome, connection, taken, wire>>, finished => finished'
      PROVE  OutcomeInv'
  BY <1>1, <1>K DEF OutcomeInv
<1>2. CASE \/ \E i \in Sends, n \in 0..MaxSize : stream_send(i, n)
           \/ stream_close \/ \E t \in Tasks : Locks(t)
           \/ \E i \in Sends : WriteFails(i) \/ Sent(i)
  BY <1>2, <1>K DEF stream_send, stream_close, Locks, WriteFails, Sent, Unlocks, peerVars
<1>3. CASE Finishes
  BY <1>3, <1>K DEF Finishes, Unlocks, peerVars
<1>4. ASSUME NEW i \in Sends, Writes(i)
      PROVE  OutcomeInv'
  <2>1. reader = "reading" /\ UNCHANGED <<reader, outcome, connection>>
    BY <1>1, <1>4 DEF Writes, Unwritable, peerVars, Typed
  <2>. QED
    BY <1>1, <2>1 DEF OutcomeInv
<1>5. CASE Reads
  BY <1>1, <1>5, ReadsWell DEF OutcomeInv, ourVars, Reads
<1>6. CASE ReadsEnd
  <2>1. /\ finished /\ taken = Len(wire) /\ reader' = "gone"
        /\ outcome' = IF partial = << >> THEN "orderly" ELSE "failed"
        /\ UNCHANGED <<finished, wire, connection, taken>>
    BY <1>6 DEF ReadsEnd, ourVars
  <2>2. partial = << >>
    <3>. SUFFICES ASSUME partial # << >> PROVE FALSE
      OBVIOUS
    <3>1. PICK i \in Sends : Len(partial) < Length(i) /\ wire[taken] = Unit(i, Len(partial))
      BY <1>1 DEF PartialInv
    <3>2. taken > 0
      BY <1>1 DEF PartialInv
    <3>3. wire # << >>
      BY <2>1, <3>2
    <3>4. Complete(wire[Len(wire)])
      BY <1>1, <2>1, <3>3 DEF TornInv
    <3>5. Len(partial) = Length(i)
      <4>1. Len(partial) \in Nat
        BY <1>1, LenProperties DEF Typed
      <4>2. wire[taken].send = i /\ wire[taken].unit = Len(partial)
        BY <3>1, <4>1, UnitFacts
      <4>. QED
        BY <2>1, <3>4, <4>2 DEF Complete
    <3>. QED
      BY <3>1, <3>5, LengthFacts, <1>1
  <2>. QED
    BY <2>1, <2>2 DEF OutcomeInv
<1>7. CASE ReadsConnectionEnd
  BY <1>1, <1>7 DEF ReadsConnectionEnd, OutcomeInv, Typed
<1>8. CASE PeerCloses
  BY <1>1, <1>8 DEF PeerCloses, OutcomeInv
<1>9. ASSUME NEW how \in {"closed", "lost"}, ConnectionEnds(how)
      PROVE  OutcomeInv'
  BY <1>1, <1>9 DEF ConnectionEnds, ourVars, peerVars, OutcomeInv
<1>10. CASE UNCHANGED vars
  BY <1>10, <1>K DEF vars, ourVars, peerVars
<1>. QED
  BY <1>2, <1>3, <1>4, <1>5, <1>6, <1>7, <1>8, <1>9, <1>10, NextCases
-------------------------------------------------------------------------------
LEMMA InitIInv == Init => IInv
<1>. SUFFICES ASSUME Init PROVE IInv
  OBVIOUS
<1>. USE SizesAssumption DEF Init
<1>1. << >> \in Seq(Units) /\ << >> \in Seq(Tasks) /\ << >> \in Seq(Seq(Units))
      /\ Len(<< >>) = 0 /\ TRUE \in BOOLEAN /\ FALSE \in BOOLEAN /\ 0 \in 0..0
  OBVIOUS
<1>2. Typed
  <2>1. task \in [Tasks -> {"none", "spawned", "locking", "done", "failed"}]
    BY DEF Tasks
  <2>2. size \in [Sends -> 0..MaxSize] /\ written \in [Sends -> Nat]
    OBVIOUS
  <2>3. \A i \in Sends : written[i] <= Length(i)
    BY DEF Length, Header, HeaderSize
  <2>4. taken \in 0..Len(wire)
    BY <1>1
  <2>. QED
    BY <1>1, <2>1, <2>2, <2>3, <2>4 DEF Typed
<1>3. LockInv
  <2>1. 1..Len(lock) = {}
    BY <1>1
  <2>. QED
    BY <2>1, TaskFacts DEF LockInv, Tasks
<1>4. SendInv
  <2>1. \A i \in Sends : task[i] = "none" /\ written[i] = 0
    BY TaskFacts DEF Tasks
  <2>. QED
    BY <2>1 DEF SendInv
<1>5. WireInv
  <2>1. 1..Len(wire) = {} /\ \A i \in Sends : 1..written[i] = {}
    BY <1>1
  <2>. QED
    BY <2>1 DEF WireInv
<1>6. TornInv
  BY DEF TornInv, Holds
<1>7. PartialInv
  BY DEF PartialInv
<1>8. ChunkInv
  <2>1. 1..Len(chunks) = {} /\ 1..taken = {}
    BY <1>1
  <2>2. chunks \in Seq(Seq(Units))
    BY <1>1
  <2>. QED
    BY <2>1, <2>2 DEF ChunkInv
<1>9. OutcomeInv
  BY DEF OutcomeInv
<1>. QED
  BY <1>2, <1>3, <1>4, <1>5, <1>6, <1>7, <1>8, <1>9 DEF IInv

LEMMA NextIInv == ASSUME IInv, [Next]_vars PROVE IInv'
BY TypeStep, LockStep, SendStep, WireStep, TornStep, PartialStep, ChunkStep, OutcomeStep
DEF IInv

(* The inductive invariant: what the wire, its lock and the reader say of    *)
(* each other.                                                               *)
THEOREM Inductive == Spec => []IInv
BY InitIInv, NextIInv, PTL DEF Spec

(* The peer is told of a truncated frame only when the connection was lost,  *)
(* and of an orderly end only after every send that resolved.                *)
THEOREM FramesNeverTruncated == Spec => []NeverTruncated
<1>1. IInv => NeverTruncated
  <2>. SUFFICES ASSUME IInv PROVE NeverTruncated
    OBVIOUS
  <2>1. TypeOK
    BY TypedIsTypeOK
  <2>2. outcome = "failed" => connection = "lost"
    BY DEF IInv, OutcomeInv
  <2>3. ASSUME outcome = "orderly", connection # "closed",
               NEW i \in Sends, task[i] = "done", Length(i) > 0
        PROVE  \E j \in DOMAIN chunks : Last(chunks[j]) = Unit(i, Length(i))
    <3>1. taken = Len(wire) /\ Len(wire) \in Nat /\ DOMAIN chunks = 1..Len(chunks)
      BY <2>3, LenProperties DEF IInv, OutcomeInv, Typed, ChunkInv
    <3>2. written[i] = Length(i) /\ Length(i) \in Nat
      BY <2>3, LengthFacts DEF IInv, SendInv
    <3>3. Length(i) \in 1..written[i]
      BY <2>3, <3>2
    <3>4. PICK p \in 1..Len(wire) : wire[p] = Unit(i, Length(i))
      BY <3>3 DEF IInv, WireInv
    <3>5. EndsItem(wire[p])
      BY <3>2, <3>4, UnitFacts DEF EndsItem
    <3>. QED
      BY <3>1, <3>4, <3>5 DEF IInv, ChunkInv
  <2>. QED
    BY <2>1, <2>2, <2>3 DEF NeverTruncated
<1>. QED
  BY <1>1, Inductive, PTL
-------------------------------------------------------------------------------
(* The abstract channel.                                                     *)

Put == {[item |-> wire[p], time |-> p] : p \in {q \in DOMAIN wire : EndsItem(wire[q])}}
Got == [j \in DOMAIN chunks |-> IF Whole(chunks[j]) THEN Last(chunks[j]) ELSE "torn"]
End == IF reader = "reading" THEN "open"
       ELSE IF outcome = "orderly" /\ finished /\ taken = Len(wire) THEN "orderly" ELSE "cut"

Stamped(p) == [item |-> wire[p], time |-> p]

PutIs == \A m : m \in Put <=> \E p \in 1..Len(wire) : EndsItem(wire[p]) /\ m = Stamped(p)

GotIs ==
  /\ Got \in Seq(Units) /\ Len(Got) = Len(chunks) /\ Len(chunks) \in Nat
  /\ \A j \in 1..Len(chunks) : Got[j] = Last(chunks[j])
  /\ \A x : x \in Range(Got) <=> \E p \in 1..taken : EndsItem(wire[p]) /\ x = wire[p]

LEMMA PutFacts == IInv => PutIs
BY LenProperties DEF PutIs, Put, Stamped, IInv, Typed

LEMMA GotFacts == IInv => GotIs
<1>. SUFFICES ASSUME IInv PROVE GotIs
  OBVIOUS
<1>1. /\ chunks \in Seq(Seq(Units))
      /\ \A j \in 1..Len(chunks) :
           /\ Whole(chunks[j]) /\ EndsItem(Last(chunks[j]))
           /\ \E p \in 1..taken : Last(chunks[j]) = wire[p]
      /\ \A p \in 1..taken : EndsItem(wire[p]) =>
           \E j \in 1..Len(chunks) : Last(chunks[j]) = wire[p]
  BY DEF IInv, ChunkInv
<1>2. DOMAIN chunks = 1..Len(chunks) /\ Len(chunks) \in Nat
  BY <1>1, LenProperties
<1>3. Got = [j \in 1..Len(chunks) |-> Last(chunks[j])]
  BY <1>1, <1>2 DEF Got
<1>4. \A p \in 1..taken : wire[p] \in Units
  BY LenProperties, ElementOfSeq DEF IInv, Typed
<1>5. \A j \in 1..Len(chunks) : Last(chunks[j]) \in Units
  BY <1>1, <1>4
<1>6. Got \in [1..Len(chunks) -> Units]
  BY <1>3, <1>5
<1>7. Got \in Seq(Units) /\ Len(Got) = Len(chunks)
  BY <1>2, <1>6, SeqDef, LenProperties
<1>8. DOMAIN Got = 1..Len(chunks) /\ \A j \in 1..Len(chunks) : Got[j] = Last(chunks[j])
  BY <1>3
<1>9. ASSUME NEW x
      PROVE  x \in Range(Got) <=> \E p \in 1..taken : EndsItem(wire[p]) /\ x = wire[p]
  <2>1. x \in Range(Got) <=> \E j \in 1..Len(chunks) : x = Last(chunks[j])
    BY <1>8 DEF Range
  <2>2. ASSUME NEW j \in 1..Len(chunks), x = Last(chunks[j])
        PROVE  \E p \in 1..taken : EndsItem(wire[p]) /\ x = wire[p]
    BY <1>1, <2>2
  <2>3. ASSUME NEW p \in 1..taken, EndsItem(wire[p]), x = wire[p]
        PROVE  \E j \in 1..Len(chunks) : x = Last(chunks[j])
    BY <1>1, <2>3
  <2>. QED
    BY <2>1, <2>2, <2>3
<1>. QED
  BY <1>2, <1>7, <1>8, <1>9 DEF GotIs

LEMMA PutFactsNext == IInv' => PutIs'
BY PutFacts, PTL

LEMMA GotFactsNext == IInv' => GotIs'
BY GotFacts, PTL

\* An item is out when the reader has passed it.
LEMMA OutFacts ==
  ASSUME IInv, NEW p \in 1..Len(wire), EndsItem(wire[p])
  PROVE  wire[p] \in Range(Got) <=> p <= taken
<1>1. taken \in Nat /\ Len(wire) \in Nat /\ taken <= Len(wire)
  BY LenProperties DEF IInv, Typed
<1>2. ASSUME p <= taken
      PROVE  wire[p] \in Range(Got)
  <2>1. p \in 1..taken
    BY <1>1, <1>2
  <2>. QED
    BY <2>1, GotFacts DEF GotIs
<1>3. ASSUME wire[p] \in Range(Got)
      PROVE  p <= taken
  <2>1. PICK q \in 1..taken : wire[p] = wire[q]
    BY <1>3, GotFacts DEF GotIs
  <2>2. q \in 1..Len(wire)
    BY <1>1
  <2>3. p = q
    BY <2>1, <2>2 DEF IInv, WireInv
  <2>. QED
    BY <1>1, <2>3
<1>. QED
  BY <1>2, <1>3

\* Its steps, in the terms above.
LEMMA ChannelSteps ==
  /\ Put = {} /\ Got = << >> /\ End = "open" => Channel!Init
  /\ UNCHANGED <<Put, Got, End>> => UNCHANGED Channel!vars
  /\ \A new : /\ End # "orderly"
              /\ new.item \in {Unit(i, k) : i \in Sends, k \in 1..(HeaderSize + MaxSize)}
              /\ \A m \in Put : m.item # new.item /\ m.time < new.time
              /\ new \notin Put /\ Put' = Put \cup {new}
              /\ UNCHANGED <<Got, End>>
              => Channel!Next
  /\ \A m \in Put : /\ End = "open"
                    /\ m.item \notin Range(Got)
                    /\ \A k \in Put : k.time < m.time => k.item \in Range(Got)
                    /\ Got' = Append(Got, m.item)
                    /\ UNCHANGED <<Put, End>>
                    => Channel!Next
  /\ /\ End = "open"
     /\ End' = "cut" \/ (End' = "orderly" /\ \A m \in Put : m.item \in Range(Got))
     /\ UNCHANGED <<Put, Got>>
     => Channel!Next
<1>1. Put = {} /\ Got = << >> /\ End = "open" => Channel!Init
  BY DEF Channel!Init, Put, Got, End
<1>2. UNCHANGED <<Put, Got, End>> => UNCHANGED Channel!vars
  BY DEF Channel!vars, Put, Got, End
<1>3. ASSUME NEW new,
             /\ End # "orderly"
             /\ new.item \in {Unit(i, k) : i \in Sends, k \in 1..(HeaderSize + MaxSize)}
             /\ \A m \in Put : m.item # new.item /\ m.time < new.time
             /\ new \notin Put /\ Put' = Put \cup {new}
             /\ UNCHANGED <<Got, End>>
      PROVE  Channel!Next
  <2>1. Channel!Put(new)
    BY <1>3 DEF Channel!Put, Put, Got, End
  <2>2. new \in Put' \ Put
    BY <1>3
  <2>. QED
    BY <2>1, <2>2 DEF Channel!Next, Put
<1>4. ASSUME NEW m \in Put,
             /\ End = "open"
             /\ m.item \notin Range(Got)
             /\ \A k \in Put : k.time < m.time => k.item \in Range(Got)
             /\ Got' = Append(Got, m.item)
             /\ UNCHANGED <<Put, End>>
      PROVE  Channel!Next
  <2>1. \A k : Channel!IsOut(k) <=> k.item \in Range(Got)
    BY DEF Channel!IsOut, Channel!Range, Range, Got
  <2>2. Channel!Get(m)
    BY <1>4, <2>1 DEF Channel!Get, Put, Got, End
  <2>. QED
    BY <2>2 DEF Channel!Next, Put
<1>5. ASSUME /\ End = "open"
             /\ End' = "cut" \/ (End' = "orderly" /\ \A m \in Put : m.item \in Range(Got))
             /\ UNCHANGED <<Put, Got>>
      PROVE  Channel!Next
  <2>1. \A k : Channel!IsOut(k) <=> k.item \in Range(Got)
    BY DEF Channel!IsOut, Channel!Range, Range, Got
  <2>2. Channel!End
    BY <1>5, <2>1 DEF Channel!End, Put, Got, End
  <2>. QED
    BY <2>2 DEF Channel!Next
<1>. QED
  BY <1>1, <1>2, <1>3, <1>4, <1>5

LEMMA SamePut ==
  ASSUME IInv, IInv', [Next]_vars, UNCHANGED wire
  PROVE  Put' = Put
<1>1. \A m : m \in Put <=> \E p \in 1..Len(wire) : EndsItem(wire[p]) /\ m = Stamped(p)
  BY PutFacts DEF PutIs
<1>2. \A m : m \in Put' <=> \E p \in 1..Len(wire') : EndsItem(wire[p])' /\ m = Stamped(p)'
  BY PutFactsNext DEF PutIs
<1>3. \A p \in 1..Len(wire) : (EndsItem(wire[p])' <=> EndsItem(wire[p])) /\ Stamped(p)' = Stamped(p)
  BY UnitsStay DEF Stamped
<1>. QED
  BY <1>1, <1>2, <1>3

LEMMA SameGot ==
  ASSUME IInv, IInv', UNCHANGED chunks
  PROVE  Got' = Got
<1>1. Got \in Seq(Units) /\ Len(Got) = Len(chunks) /\ \A j \in 1..Len(chunks) : Got[j] = Last(chunks[j])
  BY GotFacts DEF GotIs
<1>2. /\ Got' \in Seq(Units) /\ Len(Got') = Len(chunks')
      /\ \A j \in 1..Len(chunks') : Got'[j] = Last(chunks[j])'
  BY GotFactsNext DEF GotIs
<1>3. \A j : Last(chunks[j])' = Last(chunks[j])
  BY DEF Last
<1>. QED
  BY <1>1, <1>2, <1>3, SeqEqual

LEMMA WritesPuts ==
  ASSUME IInv, IInv', NEW i \in Sends, Writes(i)
  PROVE  [Channel!Next]_(Channel!vars)
<1>. [Next]_vars
  BY DEF Next
<1>. DEFINE n == Len(wire) + 1
            u == Unit(i, written[i] + 1)
            new == [item |-> u, time |-> n]
<1>1. /\ u \in Units /\ written[i] \in Nat /\ Len(wire') = n /\ Len(wire) \in Nat
      /\ \A p \in 1..Len(wire) : wire'[p] = wire[p]
      /\ wire'[n] = u
      /\ \A p : p \in 1..Len(wire') <=> p \in 1..Len(wire) \/ p = n
      /\ UNCHANGED <<framing, size, peerVars, finished>>
  BY WireGrows
<1>2. reader = "reading" /\ written[i] < Length(i)
  BY DEF Writes, Unwritable, IInv, Typed
<1>3. End = "open" /\ UNCHANGED End
  BY <1>1, <1>2 DEF End, peerVars
<1>4. Got' = Got
  BY <1>1, SameGot DEF peerVars
<1>5. u.send = i /\ u.unit = written[i] + 1
  BY <1>1, UnitFacts
<1>6. \A p \in 1..Len(wire) : wire[p] # u
  BY <1>1, <1>5, WireUnits
<1>. HIDE DEF n, u
<1>7. \A m : m \in Put <=> \E p \in 1..Len(wire) : EndsItem(wire[p]) /\ m = Stamped(p)
  BY PutFacts DEF PutIs
<1>8. \A m : m \in Put' <=> \E p \in 1..Len(wire') : EndsItem(wire[p])' /\ m = Stamped(p)'
  BY PutFactsNext DEF PutIs
<1>9. \A p \in 1..Len(wire) : (EndsItem(wire[p])' <=> EndsItem(wire[p])) /\ Stamped(p)' = Stamped(p)
  BY <1>1, UnitsStay DEF Stamped
<1>10. /\ \A p : p = n => (EndsItem(wire[p])' <=> EndsItem(u))
       /\ \A p : p = n => Stamped(p)' = new
  BY <1>1 DEF EndsItem, Length, Header, Stamped
<1>11. CASE EndsItem(u)
  <2>1. Put' = Put \cup {new}
    BY <1>1, <1>7, <1>8, <1>9, <1>10, <1>11
  <2>2. \A m \in Put : m.item # u /\ m.time < n
    <3>1. ASSUME NEW p \in 1..Len(wire)
          PROVE  Stamped(p).item # u /\ Stamped(p).time < n
      BY <1>1, <1>6 DEF Stamped, n
    <3>. QED
      BY <1>7, <3>1
  <2>3. new \notin Put
    BY <2>2
  <2>4. u \in {Unit(j, k) : j \in Sends, k \in 1..(HeaderSize + MaxSize)}
    <3>1. Length(i) \in Nat /\ Length(i) <= HeaderSize + MaxSize /\ HeaderSize + MaxSize \in Nat
      <4>1. Length(i) = Header + size[i] /\ size[i] \in 0..MaxSize /\ Header \in {0, HeaderSize}
        BY LengthFacts DEF IInv, Typed, Header
      <4>. QED
        BY <4>1, SizesAssumption DEF HeaderSize
    <3>2. written[i] + 1 \in 1..(HeaderSize + MaxSize)
      BY <1>1, <1>2, <3>1
    <3>. QED
      BY <3>2 DEF u
  <2>. QED
    BY <1>3, <1>4, <2>1, <2>2, <2>3, <2>4, ChannelSteps
<1>12. CASE ~EndsItem(u)
  <2>1. ASSUME NEW m
        PROVE  m \in Put' <=> m \in Put
    <3>1. ASSUME m \in Put
          PROVE  m \in Put'
      BY <1>1, <1>7, <1>8, <1>9, <3>1
    <3>2. ASSUME m \in Put'
          PROVE  m \in Put
      <4>1. PICK p \in 1..Len(wire') : EndsItem(wire[p])' /\ m = Stamped(p)'
        BY <1>8, <3>2
      <4>2. p \in 1..Len(wire)
        BY <1>1, <1>10, <1>12, <4>1
      <4>. QED
        BY <1>7, <1>9, <4>1, <4>2
    <3>. QED
      BY <3>1, <3>2
  <2>2. Put' = Put
    BY <2>1 DEF Put
  <2>. QED
    BY <1>3, <1>4, <2>2, ChannelSteps
<1>. QED
  BY <1>11, <1>12

LEMMA ReadsGets ==
  ASSUME IInv, IInv', Reads
  PROVE  [Channel!Next]_(Channel!vars)
<1>. [Next]_vars
  BY DEF Next
<1>. DEFINE n == taken + 1
            u == wire[n]
            read == Append(partial, u)
<1>1. /\ taken' = n /\ UNCHANGED <<ourVars, connection, reader, outcome>>
      /\ EndsItem(u) => chunks' = Append(chunks, read) /\ Last(read) = u
      /\ ~EndsItem(u) => chunks' = chunks
      /\ taken < Len(wire) /\ reader = "reading"
  BY ReadsWell DEF Reads
<1>2. n \in 1..Len(wire) /\ u \in Units /\ read \in Seq(Units) /\ taken \in Nat
  BY <1>1, NextUnit DEF IInv, Typed
<1>3. End = "open" /\ UNCHANGED End
  BY <1>1 DEF End
<1>4. Put' = Put
  BY <1>1, SamePut DEF ourVars
<1>5. taken < n /\ \A p \in 1..Len(wire) : p < n => p <= taken
  BY <1>2
<1>. HIDE DEF n, u, read
<1>6. CASE EndsItem(u)
  <2>. DEFINE m == Stamped(n)
  <2>1. m \in Put /\ m.item = u /\ m.time = n
    BY <1>2, <1>6, PutFacts DEF PutIs, Stamped, u
  <2>2. u \notin Range(Got)
    <3>1. EndsItem(wire[n]) /\ ~(n <= taken)
      BY <1>2, <1>5, <1>6 DEF u
    <3>. QED
      BY <1>2, <3>1, OutFacts DEF u
  <2>3. ASSUME NEW k \in Put, k.time < n
        PROVE  k.item \in Range(Got)
    <3>1. PICK p \in 1..Len(wire) : EndsItem(wire[p]) /\ k = Stamped(p)
      BY PutFacts DEF PutIs
    <3>2. k.item = wire[p] /\ k.time = p
      BY <3>1 DEF Stamped
    <3>. QED
      BY <1>5, <2>3, <3>1, <3>2, OutFacts
  <2>4. Got' = Append(Got, u)
    <3>1. /\ Got \in Seq(Units) /\ Len(Got) = Len(chunks) /\ Len(chunks) \in Nat
          /\ \A j \in 1..Len(chunks) : Got[j] = Last(chunks[j])
      BY GotFacts DEF GotIs
    <3>2. /\ Got' \in Seq(Units) /\ Len(Got') = Len(chunks')
          /\ \A j \in 1..Len(chunks') : Got'[j] = Last(chunks[j])'
      BY GotFactsNext DEF GotIs
    <3>3. /\ Append(Got, u) \in Seq(Units) /\ Len(Append(Got, u)) = Len(Got) + 1
          /\ \A j \in 1..Len(Got) : Append(Got, u)[j] = Got[j]
          /\ Append(Got, u)[Len(Got) + 1] = u
      BY <1>2, <3>1, AppendFacts
    <3>4. /\ chunks \in Seq(Seq(Units)) /\ read \in Seq(Units)
      BY <1>2 DEF IInv, ChunkInv
    <3>5. /\ Len(chunks') = Len(chunks) + 1
          /\ \A j \in 1..Len(chunks) : chunks'[j] = chunks[j]
          /\ chunks'[Len(chunks) + 1] = read
          /\ \A j : j \in 1..Len(chunks') <=> j \in 1..Len(chunks) \/ j = Len(chunks) + 1
      <4>1. chunks' = Append(chunks, read)
        BY <1>1, <1>6
      <4>. QED
        BY <3>4, <4>1, AppendFacts
    <3>6. ASSUME NEW j \in 1..Len(chunks')
          PROVE  Got'[j] = Append(Got, u)[j]
      <4>1. CASE j \in 1..Len(chunks)
        <5>1. Last(chunks[j])' = Last(chunks[j])
          BY <3>5, <4>1 DEF Last
        <5>. QED
          BY <3>1, <3>2, <3>3, <4>1, <5>1
      <4>2. CASE j = Len(chunks) + 1
        <5>1. Last(chunks[j])' = u
          BY <1>1, <1>6, <3>5, <4>2 DEF Last
        <5>. QED
          BY <3>1, <3>2, <3>3, <4>2, <5>1
      <4>. QED
        BY <3>5, <4>1, <4>2
    <3>7. Len(Got') = Len(Append(Got, u)) /\ \A j \in 1..Len(Got') : Got'[j] = Append(Got, u)[j]
      BY <3>1, <3>2, <3>3, <3>5, <3>6
    <3>. QED
      BY <3>2, <3>3, <3>7, SeqEqual
  <2>. HIDE DEF m
  <2>. QED
    BY <1>3, <1>4, <2>1, <2>2, <2>3, <2>4, ChannelSteps
<1>7. CASE ~EndsItem(u)
  BY <1>1, <1>3, <1>4, <1>7, SameGot, ChannelSteps
<1>. QED
  BY <1>6, <1>7

LEMMA EndingEnds ==
  ASSUME IInv, IInv', ReadsEnd \/ ReadsConnectionEnd \/ PeerCloses
  PROVE  [Channel!Next]_(Channel!vars)
<1>. [Next]_vars
  BY DEF Next
<1>1. UNCHANGED <<ourVars, taken, chunks>> /\ reader = "reading" /\ reader' = "gone"
  BY DEF ReadsEnd, ReadsConnectionEnd, PeerCloses
<1>2. Put' = Put /\ Got' = Got
  BY <1>1, SamePut, SameGot DEF ourVars
<1>3. End = "open" /\ End' \in {"orderly", "cut"}
  BY <1>1 DEF End
<1>4. ASSUME End' = "orderly", NEW m \in Put
      PROVE  m.item \in Range(Got)
  <2>1. taken = Len(wire)
    BY <1>1, <1>4 DEF End, ourVars
  <2>2. PICK p \in 1..Len(wire) : EndsItem(wire[p]) /\ m = Stamped(p)
    BY PutFacts DEF PutIs
  <2>3. p <= taken /\ m.item = wire[p]
    BY <2>1, <2>2 DEF Stamped
  <2>. QED
    BY <2>2, <2>3, OutFacts
<1>. QED
  BY <1>2, <1>3, <1>4, ChannelSteps

LEMMA ChannelStep == IInv /\ [Next]_vars => [Channel!Next]_(Channel!vars)
<1>. SUFFICES ASSUME IInv, [Next]_vars PROVE [Channel!Next]_(Channel!vars)
  OBVIOUS
<1>. IInv'
  BY NextIInv
<1>1. CASE \E i \in Sends : Writes(i)
  BY <1>1, WritesPuts
<1>2. CASE Reads
  BY <1>2, ReadsGets
<1>3. CASE ReadsEnd \/ ReadsConnectionEnd \/ PeerCloses
  BY <1>3, EndingEnds
<1>S. ASSUME UNCHANGED <<wire, chunks, End>>
      PROVE  [Channel!Next]_(Channel!vars)
  BY <1>S, SamePut, SameGot, ChannelSteps
<1>4. CASE Finishes
  <2>1. UNCHANGED <<wire, connection, reader, taken, chunks, outcome>>
        /\ finished' = (finished \/ ~Unwritable)
    BY <1>4 DEF Finishes, Unlocks, peerVars
  <2>2. reader # "reading" => finished' = finished
    <3>1. reader # "reading" => Unwritable
      BY DEF Unwritable, IInv, Typed
    <3>2. finished \in BOOLEAN
      BY DEF IInv, Typed
    <3>. QED
      BY <2>1, <3>1, <3>2
  <2>3. End' = End
    BY <2>1, <2>2 DEF End
  <2>. QED
    BY <2>1, <2>3, <1>S
<1>5. CASE \/ \E i \in Sends, n \in 0..MaxSize : stream_send(i, n)
           \/ stream_close \/ \E t \in Tasks : Locks(t)
           \/ \E i \in Sends : WriteFails(i) \/ Sent(i)
           \/ \E how \in {"closed", "lost"} : ConnectionEnds(how)
           \/ UNCHANGED vars
  <2>1. UNCHANGED <<wire, finished, reader, taken, chunks, outcome>>
    BY <1>5 DEF stream_send, stream_close, Locks, WriteFails, Sent, Unlocks, ConnectionEnds,
       vars, ourVars, peerVars
  <2>2. End' = End
    BY <2>1 DEF End
  <2>. QED
    BY <2>1, <2>2, <1>S
<1>. QED
  BY <1>1, <1>2, <1>3, <1>4, <1>5, NextCases

(* One direction of a stream is a channel: whole items, once and in order,   *)
(* and an orderly end after the last of them.                                *)
THEOREM ChannelImplemented == Spec => ImplementsChannel
<1>1. Init => Channel!Init
  <2>. SUFFICES ASSUME Init PROVE Channel!Init
    OBVIOUS
  <2>1. Put = {} /\ Got = << >> /\ End = "open"
    BY DEF Init, Put, Got, End
  <2>. QED
    BY <2>1, ChannelSteps
<1>. QED
  BY <1>1, ChannelStep, Inductive, PTL DEF Spec, ImplementsChannel, Channel!Spec
===============================================================================
