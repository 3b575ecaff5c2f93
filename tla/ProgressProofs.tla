----------------------------- MODULE ProgressProofs -----------------------------
(***************************************************************************)
(* Proofs about Progress, for any payload and any number of intervals.     *)
(*                                                                         *)
(* The counts JavaScript is to hear of are on a way with five stations:    *)
(* suppressed, taken by one of the two threads, on the bridge, seen.  What *)
(* the properties need is that they increase along it while nobody has     *)
(* cancelled, that the newest offered is at one of its stations, and that  *)
(* the settlement is behind all of them.                                   *)
(***************************************************************************)
EXTENDS Progress, FiniteSetTheorems, SequenceTheorems, TLAPS

Tasks == {Start} \cup {Report(n) : n \in Counts} \cup {Finish(o) : o \in Outcomes}

IsReport(m) == m.type = "progress"
IsFinish(m) == m.type = "settle"

\* A listener was called with n, or will be.
Seen(n) == \E i \in 1..Len(seen) : seen[i] = n
Coming(n) == \E i \in 1..Len(bridge) : IsReport(bridge[i]) /\ bridge[i].count = n

\* Which thread is where: the completion follows the task, or a cancel.
PhaseInv ==
  /\ taskEmits # 0 => task = "fetching" /\ suppressed = 0
  /\ completion = "waiting" <=> result = "none"
  /\ flushEmits # 0 => completion = "completing"
  /\ result = "success" => task = "succeeded"
  /\ result = "error" => task = "failed"
  /\ result \in {"success", "error"} /\ completion # "flushing" => suppressed = 0

\* The settlement is posted last, and says how the download ended.
SettleInv ==
  /\ \A i \in 1..Len(bridge) : IsFinish(bridge[i]) =>
       bridge[i].outcome = result /\ completion = "finished"
  /\ settled # "none" => settled = result /\ completion = "finished"
  /\ result # "cancelled" =>
       /\ \A i, j \in 1..Len(bridge) :
            i < j /\ IsFinish(bridge[i]) => ~IsReport(bridge[j])
       /\ settled # "none" => \A i \in 1..Len(bridge) : ~IsReport(bridge[i])

\* The counts increase on their way, and none exceeds the newest offered.
OrderInv ==
  result # "cancelled" =>
    /\ \A i, j \in 1..Len(seen) : i < j => seen[i] < seen[j]
    /\ \A i \in 1..Len(seen), j \in 1..Len(bridge) :
         IsReport(bridge[j]) => seen[i] < bridge[j].count
    /\ \A i, j \in 1..Len(bridge) :
         i < j /\ IsReport(bridge[i]) /\ IsReport(bridge[j]) => bridge[i].count < bridge[j].count
    /\ \A n \in {taskEmits, flushEmits, suppressed} \ {0} : n <= offered
    /\ \A i \in 1..Len(seen) :
         /\ seen[i] <= offered
         /\ \A n \in {taskEmits, flushEmits, suppressed} \ {0} : seen[i] < n
    /\ \A i \in 1..Len(bridge) : IsReport(bridge[i]) =>
         /\ bridge[i].count <= offered
         /\ \A n \in {taskEmits, flushEmits, suppressed} \ {0} : bridge[i].count < n

\* The newest offered is on its way.
NewestInv ==
  result # "cancelled" /\ offered # 0 =>
    offered \in {taskEmits, flushEmits, suppressed} \/ Coming(offered) \/ Seen(offered)

LastSeen == IF seen = << >> THEN 0 ELSE seen[Len(seen)]

\* The loop has what the listener saw last, or it is kept for it.
LoopInv ==
  /\ IF kept # 0 THEN kept = LastSeen ELSE read = LastSeen
  /\ loop = "parked" => kept = 0
  /\ loop \in {"ended", "threw"} => settled # "none"
  /\ loop = "ended" => settled = "success" /\ kept = 0

\* One emission for the interval under way and one for each that has elapsed, beside
\* the flushed one.
One(b) == IF b THEN 1 ELSE 0
RateInv ==
  emissions + One(taskEmits # 0) + One(flushEmits # 0) + One(due)
    <= intervals + 1 + One(completion \in {"completing", "finished"})

\* What the destination holds at each stage, as long as nobody meddles.
DiskInv ==
  /\ task \in {"replacing", "cleared", "exporting", "succeeded", "fetched"} \/ export # "none"
       => fetched
  /\ fetched => task # "fetching"
  /\ export # "none" => task \in {"exporting", "succeeded", "failed", "stopped"}
  /\ task = "succeeded" => export = "done"
  /\ ~meddled =>
       /\ ~fetched \/ initial = "dir" => target = initial
       /\ task \in {"replacing", "cleared", "exporting", "succeeded"} \/ export # "none"
            => initial # "dir"
       /\ export = "writing" => target = "partial"
       /\ export = "done" => target = "whole"

IInv ==
  /\ TypeOK
  /\ PhaseInv
  /\ SettleInv
  /\ OrderInv
  /\ NewestInv
  /\ LoopInv
  /\ RateInv
  /\ DiskInv
-------------------------------------------------------------------------------
(* Types, and the bridge as a sequence.                                      *)

\* TypeOK, a conjunct per variable.
Typed ==
  /\ calling \in BOOLEAN /\ due \in BOOLEAN /\ cancelSent \in BOOLEAN /\ transferId \in BOOLEAN
  /\ offered \in 0..MaxBytes /\ taskEmits \in 0..MaxBytes /\ suppressed \in 0..MaxBytes
  /\ flushEmits \in 0..MaxBytes /\ kept \in 0..MaxBytes /\ read \in 0..MaxBytes
  /\ task \in {"fetching", "fetched", "replacing", "cleared", "exporting", "succeeded",
               "failed", "stopped"}
  /\ target \in {"absent", "file", "dir", "partial", "whole"}
  /\ export \in {"none", "asked", "writing", "done", "failed"}
  /\ intervals \in 0..MaxIntervals
  /\ completion \in {"waiting", "flushing", "completing", "finished"}
  /\ emissions \in Nat
  /\ result \in Outcomes \cup {"none"} /\ settled \in Outcomes \cup {"none"}
  /\ bridge \in Seq(Tasks)
  /\ seen \in Seq(Counts)
  /\ loop \in {"body", "parked", "ended", "threw"}

LEMMA TypedIsTypeOK == TypeOK <=> Typed
<1>1. <<calling, due, cancelSent, transferId>> \in BOOLEAN \X BOOLEAN \X BOOLEAN \X BOOLEAN
        <=> /\ calling \in BOOLEAN /\ due \in BOOLEAN
            /\ cancelSent \in BOOLEAN /\ transferId \in BOOLEAN
  OBVIOUS
<1>2. TaskAlive \/ task \in {"succeeded", "failed", "stopped"}
        <=> task \in {"fetching", "fetched", "replacing", "cleared", "exporting", "succeeded",
                     "failed", "stopped"}
  BY DEF TaskAlive
<1>3. {offered, taskEmits, suppressed, flushEmits, kept, read} \subseteq 0..MaxBytes
        <=> /\ offered \in 0..MaxBytes /\ taskEmits \in 0..MaxBytes
            /\ suppressed \in 0..MaxBytes /\ flushEmits \in 0..MaxBytes
            /\ kept \in 0..MaxBytes /\ read \in 0..MaxBytes
  OBVIOUS
<1>4. {result, settled} \subseteq Outcomes \cup {"none"}
        <=> result \in Outcomes \cup {"none"} /\ settled \in Outcomes \cup {"none"}
  OBVIOUS
<1>5. ASSUME TypeOK PROVE Typed
  BY <1>1, <1>2, <1>3, <1>4, <1>5 DEF TypeOK, Typed, Tasks
<1>6. ASSUME Typed PROVE TypeOK
  BY <1>1, <1>2, <1>3, <1>4, <1>6 DEF TypeOK, Typed, Tasks
<1>7. QED
  BY <1>5, <1>6

LEMMA TaskFields ==
  /\ Start \in Tasks /\ ~IsReport(Start) /\ ~IsFinish(Start)
  /\ \A n \in Counts : /\ Report(n) \in Tasks /\ IsReport(Report(n)) /\ ~IsFinish(Report(n))
                       /\ Report(n).count = n
  /\ \A o \in Outcomes : /\ Finish(o) \in Tasks /\ IsFinish(Finish(o)) /\ ~IsReport(Finish(o))
                         /\ Finish(o).outcome = o
  /\ \A m \in Tasks : /\ IsReport(m) => m.count \in Counts
                      /\ IsFinish(m) => m.outcome \in Outcomes
<1>1. Start \in Tasks /\ ~IsReport(Start) /\ ~IsFinish(Start)
  BY DEF Tasks, Start, IsReport, IsFinish
<1>2. ASSUME NEW n \in Counts
      PROVE  /\ Report(n) \in Tasks /\ IsReport(Report(n)) /\ ~IsFinish(Report(n))
             /\ Report(n).count = n
  <2>1. Report(n) \in Tasks
    BY DEF Tasks
  <2>2. QED
    BY <2>1 DEF Report, IsReport, IsFinish
<1>3. ASSUME NEW o \in Outcomes
      PROVE  /\ Finish(o) \in Tasks /\ IsFinish(Finish(o)) /\ ~IsReport(Finish(o))
             /\ Finish(o).outcome = o
  <2>1. Finish(o) \in Tasks
    BY DEF Tasks
  <2>2. QED
    BY <2>1 DEF Finish, IsReport, IsFinish
<1>4. ASSUME NEW m \in Tasks
      PROVE  /\ IsReport(m) => m.count \in Counts
             /\ IsFinish(m) => m.outcome \in Outcomes
  <2>1. CASE m = Start
    BY <1>1, <2>1
  <2>2. ASSUME NEW n \in Counts, m = Report(n)
        PROVE  m.count \in Counts /\ ~IsFinish(m)
    BY <1>2, <2>2
  <2>3. ASSUME NEW o \in Outcomes, m = Finish(o)
        PROVE  m.outcome \in Outcomes /\ ~IsReport(m)
    BY <1>3, <2>3
  <2>4. QED
    BY <2>1, <2>2, <2>3 DEF Tasks
<1>5. QED
  BY <1>1, <1>2, <1>3, <1>4

LEMMA Bounds == /\ MaxBytes \in Nat /\ MaxIntervals \in Nat
                /\ Counts \subseteq 0..MaxBytes /\ 0 \notin Counts /\ 0 \in 0..MaxBytes
                /\ 0..MaxBytes \subseteq Nat
                /\ \A n \in 0..MaxBytes : n # 0 => n \in Counts
BY BoundsAssumption DEF Counts

LEMMA AppendFacts ==
  ASSUME NEW S, NEW b \in Seq(S), NEW e \in S
  PROVE  /\ Append(b, e) \in Seq(S) /\ Len(Append(b, e)) = Len(b) + 1 /\ Len(b) \in Nat
         /\ \A i \in 1..Len(b) : Append(b, e)[i] = b[i]
         /\ Append(b, e)[Len(b) + 1] = e
         /\ \A i : i \in 1..Len(Append(b, e)) <=> i \in 1..Len(b) \/ i = Len(b) + 1
BY AppendProperties, LenProperties

LEMMA TailFacts ==
  ASSUME NEW S, NEW b \in Seq(S), b # << >>
  PROVE  /\ Tail(b) \in Seq(S) /\ Len(Tail(b)) = Len(b) - 1 /\ Len(b) \in Nat
         /\ Head(b) \in S /\ Head(b) = b[1] /\ 1 \in 1..Len(b)
         /\ \A i \in 1..Len(Tail(b)) : i + 1 \in 1..Len(b) /\ Tail(b)[i] = b[i + 1]
         /\ \A i \in 1..Len(b) :
              i = 1 \/ (i - 1 \in 1..Len(Tail(b)) /\ Tail(b)[i - 1] = b[i])
<1> DEFINE p == Tail(b)
<1>1. /\ p \in Seq(S) /\ Len(p) = Len(b) - 1 /\ Len(b) \in Nat
      /\ \A i \in 1..Len(p) : p[i] = b[i + 1]
      /\ Head(b) = b[1] /\ Head(b) \in S /\ 1 \in 1..Len(b)
  BY HeadTailProperties, LenProperties, EmptySeq
<1> HIDE DEF p
<1>2. /\ \A i \in 1..Len(p) : i + 1 \in 1..Len(b)
      /\ \A i \in 1..Len(b) : i = 1 \/ (i - 1 \in 1..Len(p) /\ p[i - 1] = b[i])
  BY <1>1
<1>3. QED
  BY <1>1, <1>2 DEF p

\* The counts along a task taken from the bridge.
LEMMA Taken ==
  ASSUME Typed, NEW type, TakeTask(type)
  PROVE  /\ bridge # << >> /\ bridge' = Tail(bridge) /\ bridge' \in Seq(Tasks)
         /\ Head(bridge) \in Tasks /\ Head(bridge).type = type
         /\ Head(bridge) = bridge[1] /\ 1 \in 1..Len(bridge) /\ Len(bridge) \in Nat
         /\ Len(bridge') = Len(bridge) - 1
         /\ \A i \in 1..Len(bridge') : i + 1 \in 1..Len(bridge) /\ bridge'[i] = bridge[i + 1]
         /\ \A i \in 1..Len(bridge) :
              i = 1 \/ (i - 1 \in 1..Len(bridge') /\ bridge'[i - 1] = bridge[i])
BY TailFacts DEF TakeTask, Typed
-------------------------------------------------------------------------------
(* The steps of the task and of the disk, but for the counts.                *)

DiskMove == TaskFails \/ FetchEnds \/ AbortLands \/ Export \/ Store \/ Meddle

LEMMA DiskMoves ==
  ASSUME Typed, PhaseInv, DiskMove
  PROVE  /\ UNCHANGED <<calling, offered, aborted, taskEmits, due, intervals, suppressed,
                        completion, flushEmits, emissions, cancelSent, result, bridge, hubVars,
                        initial>>
         /\ \/ task' = task
            \/ /\ TaskAlive /\ taskEmits = 0
               /\ task' \in {"fetched", "replacing", "cleared", "exporting", "succeeded",
                             "failed", "stopped"}
<1> SUFFICES
      /\ OthersUnchanged
      /\ \/ task' = task
         \/ /\ TaskAlive /\ taskEmits = 0
            /\ task' \in {"fetched", "replacing", "cleared", "exporting", "succeeded",
                          "failed", "stopped"}
  BY DEF OthersUnchanged
<1>1. CASE TaskFails \/ FetchEnds \/ AbortLands
  BY <1>1 DEF TaskFails, FetchEnds, AbortLands, Fetching, TaskAlive, PhaseInv
<1>2. CASE InspectTarget
  BY <1>2 DEF InspectTarget, TaskAlive, PhaseInv
<1>3. CASE RemoveTarget \/ ExportStarts \/ ExportEnds
  BY <1>3 DEF RemoveTarget, ExportStarts, ExportEnds, TaskAlive, PhaseInv
<1>4. CASE Store \/ Meddle
  BY <1>4 DEF Store, StoreCreates, StoreWrites, Meddle
<1>5. QED
  BY <1>1, <1>2, <1>3, <1>4 DEF DiskMove, Export

LEMMA NextCases ==
  ASSUME [Next]_vars
  PROVE  \/ \E n \in (offered + 1)..MaxBytes : OfferSuppressed(n) \/ OfferTaken(n)
         \/ TaskPosts \/ DiskMove \/ IntervalElapses
         \/ SelectCancel \/ SelectJoin \/ FlushTakes \/ FlushPosts \/ Completes
         \/ CallReturns \/ OnStart \/ OnProgress \/ OnSettle \/ LoopNext \/ Cancel
         \/ UNCHANGED vars
BY DEF Next, Fetch, Completion, JsThread, DiskMove

LEMMA TypeStep == IInv /\ [Next]_vars => Typed'
<1> SUFFICES ASSUME IInv, [Next]_vars PROVE Typed'
  OBVIOUS
<1>T. Typed /\ PhaseInv
  BY TypedIsTypeOK DEF IInv
<1>P. \A m \in Tasks : Append(bridge, m) \in Seq(Tasks)
  BY <1>T, AppendFacts DEF Typed
<1>1. ASSUME NEW n \in (offered + 1)..MaxBytes, OfferSuppressed(n) \/ OfferTaken(n)
      PROVE  Typed'
  <2>1. n \in 0..MaxBytes
    BY <1>T, Bounds DEF Typed
  <2>2. CASE OfferSuppressed(n)
    BY <2>1, <2>2, <1>T DEF OfferSuppressed, Typed, diskVars, hubVars
  <2>3. CASE OfferTaken(n)
    <3>1. /\ suppressed' \in 0..MaxBytes /\ taskEmits' \in 0..MaxBytes
          /\ offered' \in 0..MaxBytes /\ due' \in BOOLEAN
      BY <2>1, <2>3, Bounds DEF OfferTaken
    <3>2. QED
      BY <2>3, <3>1, <1>T DEF OfferTaken, Typed, diskVars, hubVars
  <2>4. QED
    BY <1>1, <2>2, <2>3
<1>2. CASE TaskPosts \/ FlushPosts
  <2>1. 0 \in 0..MaxBytes /\ emissions + 1 \in Nat
    BY <1>T, Bounds DEF Typed
  <2>2. CASE TaskPosts
    <3>1. bridge' \in Seq(Tasks)
      BY <2>2, <1>P, <1>T, Bounds, TaskFields DEF TaskPosts, Typed
    <3>2. QED
      BY <2>1, <2>2, <3>1, <1>T DEF TaskPosts, Typed, diskVars, hubVars
  <2>3. CASE FlushPosts
    <3>1. bridge' \in Seq(Tasks)
      BY <2>3, <1>P, <1>T, Bounds, TaskFields DEF FlushPosts, Typed
    <3>2. QED
      BY <2>1, <2>3, <3>1, <1>T DEF FlushPosts, Typed, diskVars, hubVars
  <2>4. QED
    BY <1>2, <2>2, <2>3
<1>3. CASE DiskMove
  <2>1. task' \in {"fetching", "fetched", "replacing", "cleared", "exporting", "succeeded",
                   "failed", "stopped"}
    BY <1>3, <1>T, DiskMoves DEF Typed
  <2>2. target' \in {"absent", "file", "dir", "partial", "whole"}
    BY <1>3, <1>T
    DEF DiskMove, Export, Store, TaskFails, FetchEnds, AbortLands, InspectTarget, RemoveTarget,
        ExportStarts, ExportEnds, StoreCreates, StoreWrites, Meddle, Typed
  <2>3. export' \in {"none", "asked", "writing", "done", "failed"}
    BY <1>3, <1>T
    DEF DiskMove, Export, Store, TaskFails, FetchEnds, AbortLands, InspectTarget, RemoveTarget,
        ExportStarts, ExportEnds, StoreCreates, StoreWrites, Meddle, Typed
  <2>4. UNCHANGED <<calling, offered, aborted, taskEmits, due, intervals, suppressed,
                    completion, flushEmits, emissions, cancelSent, result, bridge, hubVars,
                    initial>>
    BY <1>3, <1>T, DiskMoves
  <2>5. QED
    BY <2>1, <2>2, <2>3, <2>4, <1>T DEF Typed, hubVars
<1>4. CASE IntervalElapses
  <2>1. intervals' \in 0..MaxIntervals
    BY <1>4, <1>T, Bounds DEF IntervalElapses, Typed
  <2>2. QED
    BY <2>1, <1>4, <1>T DEF IntervalElapses, Typed, diskVars, hubVars
<1>5. CASE SelectCancel \/ SelectJoin
  BY <1>5, <1>T DEF SelectCancel, SelectJoin, Typed, Outcomes, diskVars, hubVars
<1>6. CASE FlushTakes
  BY <1>6, <1>T, Bounds DEF FlushTakes, Typed, diskVars, hubVars
<1>7. CASE Completes
  <2>1. result \in Outcomes
    BY <1>7, <1>T DEF Completes, PhaseInv, Typed
  <2>2. bridge' \in Seq(Tasks)
    BY <2>1, <1>7, <1>P, TaskFields DEF Completes
  <2>3. QED
    BY <2>2, <1>7, <1>T DEF Completes, Typed, diskVars, hubVars
<1>8. CASE CallReturns
  <2>1. bridge' \in Seq(Tasks) /\ calling' \in BOOLEAN
    BY <1>8, <1>P, TaskFields DEF CallReturns
  <2>2. QED
    BY <2>1, <1>8, <1>T DEF CallReturns, Typed, nativeVars, diskVars, hubVars
<1>9. CASE OnStart
  BY <1>9, <1>T, Taken DEF OnStart, Typed, nativeVars, diskVars
<1>10. CASE OnProgress
  <2>1. bridge' \in Seq(Tasks) /\ Head(bridge).count \in Counts
    BY <1>10, <1>T, Taken, TaskFields DEF OnProgress, IsReport
  <2>2. Append(seen, Head(bridge).count) \in Seq(Counts)
    BY <2>1, <1>T, AppendFacts DEF Typed
  <2>3. /\ seen' \in Seq(Counts) /\ kept' \in 0..MaxBytes /\ read' \in 0..MaxBytes
        /\ loop' \in {"body", "parked", "ended", "threw"}
    BY <2>1, <2>2, <1>10, <1>T, Bounds DEF OnProgress, Typed
  <2>4. QED
    BY <2>1, <2>3, <1>10, <1>T DEF OnProgress, Typed, nativeVars, diskVars
<1>11. CASE OnSettle
  <2>1. bridge' \in Seq(Tasks) /\ Head(bridge).outcome \in Outcomes
    BY <1>11, <1>T, Taken, TaskFields DEF OnSettle, IsFinish
  <2>2. QED
    BY <2>1, <1>11, <1>T DEF OnSettle, LoopEnd, Typed, nativeVars, diskVars
<1>12. CASE LoopNext
  BY <1>12, <1>T, Bounds DEF LoopNext, LoopEnd, Typed, nativeVars, diskVars
<1>13. CASE Cancel
  BY <1>13, <1>T DEF Cancel, Typed, diskVars, hubVars
<1>14. CASE UNCHANGED vars
  BY <1>14, <1>T DEF vars, Typed, nativeVars, diskVars, hubVars
<1>15. QED
  BY <1>1, <1>2, <1>3, <1>4, <1>5, <1>6, <1>7, <1>8, <1>9, <1>10, <1>11, <1>12, <1>13,
     <1>14, NextCases

LEMMA PhaseStep == IInv /\ [Next]_vars => PhaseInv'
<1> SUFFICES ASSUME IInv, [Next]_vars PROVE PhaseInv'
  OBVIOUS
<1>T. Typed /\ PhaseInv
  BY TypedIsTypeOK DEF IInv
<1>1. ASSUME NEW n \in (offered + 1)..MaxBytes, OfferSuppressed(n) \/ OfferTaken(n)
      PROVE  PhaseInv'
  BY <1>1, <1>T DEF OfferSuppressed, OfferTaken, Fetching, PhaseInv
<1>2. CASE TaskPosts \/ FlushPosts \/ IntervalElapses \/ Cancel
  BY <1>2, <1>T DEF TaskPosts, FlushPosts, IntervalElapses, Cancel, PhaseInv, diskVars
<1>3. CASE DiskMove
  BY <1>3, <1>T, DiskMoves DEF PhaseInv, TaskAlive
<1>4. CASE SelectCancel \/ SelectJoin
  BY <1>4, <1>T DEF SelectCancel, SelectJoin, PhaseInv, Typed, diskVars
<1>5. CASE FlushTakes
  BY <1>5, <1>T DEF FlushTakes, PhaseInv, Typed
<1>6. CASE Completes
  BY <1>6, <1>T DEF Completes, PhaseInv, Typed
<1>7. CASE CallReturns \/ OnStart \/ OnProgress \/ OnSettle \/ LoopNext \/ UNCHANGED vars
  BY <1>7, <1>T
  DEF CallReturns, OnStart, OnProgress, OnSettle, LoopNext, PhaseInv, vars, nativeVars
<1>8. QED
  BY <1>1, <1>2, <1>3, <1>4, <1>5, <1>6, <1>7, NextCases

\* A thread that posts a count does so before any settlement is posted.
LEMMA PostsBeforeFinish ==
  ASSUME Typed, PhaseInv, SettleInv, taskEmits # 0 \/ flushEmits # 0, result # "cancelled"
  PROVE  /\ settled = "none" /\ \A i \in 1..Len(bridge) : ~IsFinish(bridge[i])
         /\ taskEmits # 0 => flushEmits = 0 /\ suppressed = 0
         /\ flushEmits # 0 => taskEmits = 0 /\ suppressed = 0
<1>1. completion # "finished"
  BY DEF PhaseInv, Typed, Outcomes
<1>2. QED
  BY <1>1 DEF PhaseInv, SettleInv, Typed, Outcomes

LEMMA SettleStep == IInv /\ [Next]_vars => SettleInv'
<1> SUFFICES ASSUME IInv, [Next]_vars PROVE SettleInv'
  OBVIOUS
<1>T. Typed /\ PhaseInv /\ SettleInv
  BY TypedIsTypeOK DEF IInv
<1>U. ASSUME UNCHANGED <<bridge, result, settled>>, completion = "finished" => completion' = "finished"
      PROVE  SettleInv'
  BY <1>U, <1>T DEF SettleInv
\* A report or the start is posted.
<1>P. ASSUME NEW m \in Tasks, bridge' = Append(bridge, m), ~IsFinish(m),
             UNCHANGED <<result, settled, completion>>,
             IsReport(m) /\ result # "cancelled" =>
               settled = "none" /\ \A i \in 1..Len(bridge) : ~IsFinish(bridge[i])
      PROVE  SettleInv'
  <2>1. /\ Len(bridge) \in Nat
        /\ \A i \in 1..Len(bridge) : bridge'[i] = bridge[i]
        /\ bridge'[Len(bridge) + 1] = m
        /\ \A i : i \in 1..Len(bridge') <=> i \in 1..Len(bridge) \/ i = Len(bridge) + 1
    BY <1>P, <1>T, AppendFacts DEF Typed
  <2>2. QED
    BY <2>1, <1>P, <1>T DEF SettleInv
\* A task is taken.
<1>K. ASSUME NEW type, TakeTask(type), UNCHANGED <<result, completion>>,
             \/ settled' = settled
             \/ /\ IsFinish(Head(bridge)) /\ settled' = Head(bridge).outcome
      PROVE  SettleInv'
  <2>1. /\ Head(bridge) = bridge[1] /\ 1 \in 1..Len(bridge) /\ Len(bridge) \in Nat
        /\ \A i \in 1..Len(bridge') : i + 1 \in 1..Len(bridge) /\ bridge'[i] = bridge[i + 1]
    BY <1>K, <1>T, Taken
  <2>2. \A i \in 1..Len(bridge') : 1 < i + 1
    BY <2>1
  <2>3. \A i \in 1..Len(bridge') : IsFinish(bridge'[i]) =>
          bridge'[i].outcome = result' /\ completion' = "finished"
    BY <2>1, <1>K, <1>T DEF SettleInv
  <2>4. settled' # "none" => settled' = result' /\ completion' = "finished"
    BY <2>1, <1>K, <1>T DEF SettleInv
  <2>5. ASSUME result' # "cancelled", NEW i \in 1..Len(bridge'), NEW j \in 1..Len(bridge'),
               i < j, IsFinish(bridge'[i])
        PROVE  ~IsReport(bridge'[j])
    <3>1. i + 1 < j + 1
      BY <2>5
    <3>2. QED
      BY <3>1, <2>1, <2>5, <1>K, <1>T DEF SettleInv
  <2>6. ASSUME result' # "cancelled", settled' # "none", NEW i \in 1..Len(bridge')
        PROVE  ~IsReport(bridge'[i])
    BY <2>1, <2>2, <2>6, <1>K, <1>T DEF SettleInv
  <2>7. QED
    BY <2>3, <2>4, <2>5, <2>6 DEF SettleInv
<1>1. ASSUME NEW n \in (offered + 1)..MaxBytes, OfferSuppressed(n) \/ OfferTaken(n)
      PROVE  SettleInv'
  BY <1>1, <1>U DEF OfferSuppressed, OfferTaken, hubVars
<1>2. CASE TaskPosts
  BY <1>2, <1>T, <1>P, PostsBeforeFinish, TaskFields, Bounds DEF TaskPosts, Typed, hubVars
<1>3. CASE FlushPosts
  BY <1>3, <1>T, <1>P, PostsBeforeFinish, TaskFields, Bounds DEF FlushPosts, Typed, hubVars
<1>4. CASE DiskMove
  BY <1>4, <1>U, <1>T, DiskMoves DEF hubVars
<1>5. CASE IntervalElapses \/ FlushTakes \/ Cancel
  BY <1>5, <1>U DEF IntervalElapses, FlushTakes, Cancel, hubVars
<1>6. CASE SelectCancel \/ SelectJoin
  <2>1. /\ completion = "waiting" /\ completion' # "waiting" /\ UNCHANGED <<bridge, settled>>
    BY <1>6 DEF SelectCancel, SelectJoin, hubVars
  <2>2. settled = "none" /\ \A i \in 1..Len(bridge) : ~IsFinish(bridge[i])
    BY <2>1, <1>T DEF SettleInv
  <2>3. QED
    BY <2>1, <2>2 DEF SettleInv
<1>7. CASE Completes
  <2>1. /\ completion = "completing" /\ completion' = "finished"
        /\ bridge' = Append(bridge, Finish(result)) /\ UNCHANGED <<result, settled>>
    BY <1>7 DEF Completes, hubVars
  <2>2. result \in Outcomes
    BY <2>1, <1>T DEF PhaseInv, Typed
  <2>3. settled = "none" /\ \A i \in 1..Len(bridge) : ~IsFinish(bridge[i])
    BY <2>1, <1>T DEF SettleInv
  <2>4. /\ Len(bridge) \in Nat
        /\ \A i \in 1..Len(bridge) : bridge'[i] = bridge[i]
        /\ bridge'[Len(bridge) + 1] = Finish(result)
        /\ \A i : i \in 1..Len(bridge') <=> i \in 1..Len(bridge) \/ i = Len(bridge) + 1
    BY <2>1, <2>2, <1>T, AppendFacts, TaskFields DEF Typed
  <2>5. \A i \in 1..Len(bridge) : ~(Len(bridge) + 1 < i)
    BY <2>4
  <2>6. QED
    BY <2>1, <2>2, <2>3, <2>4, <2>5, TaskFields DEF SettleInv
<1>8. CASE CallReturns
  BY <1>8, <1>P, TaskFields DEF CallReturns, nativeVars, hubVars
<1>9. CASE OnStart
  BY <1>9, <1>K DEF OnStart, nativeVars
<1>10. CASE OnProgress
  BY <1>10, <1>K DEF OnProgress, nativeVars
<1>11. CASE OnSettle
  <2>1. IsFinish(Head(bridge))
    BY <1>11 DEF OnSettle, TakeTask, IsFinish
  <2>2. QED
    BY <2>1, <1>11, <1>K DEF OnSettle, nativeVars
<1>12. CASE LoopNext \/ UNCHANGED vars
  BY <1>12, <1>U DEF LoopNext, vars, nativeVars, hubVars
<1>13. QED
  BY <1>1, <1>2, <1>3, <1>4, <1>5, <1>6, <1>7, <1>8, <1>9, <1>10, <1>11, <1>12, NextCases
-------------------------------------------------------------------------------
(* The order of the counts.                                                  *)

\* The counts on their way to the bridge.
Held == {taskEmits, flushEmits, suppressed} \ {0}

LEMMA HeldTyped ==
  ASSUME Typed
  PROVE  /\ Held \subseteq Counts /\ Counts \subseteq Nat
         /\ \A i \in 1..Len(seen) : seen[i] \in Counts
         /\ \A i \in 1..Len(bridge) : bridge[i] \in Tasks
         /\ \A i \in 1..Len(bridge) : IsReport(bridge[i]) => bridge[i].count \in Counts
         /\ offered \in Nat
<1>1. /\ \A i \in 1..Len(seen) : seen[i] \in Counts
      /\ \A i \in 1..Len(bridge) : bridge[i] \in Tasks
  BY ElementOfSeq DEF Typed
<1>2. \A i \in 1..Len(bridge) : IsReport(bridge[i]) => bridge[i].count \in Counts
  BY <1>1, TaskFields
<1>3. Held \subseteq Counts /\ Counts \subseteq Nat /\ offered \in Nat
  BY Bounds DEF Held, Typed
<1>4. QED
  BY <1>1, <1>2, <1>3

\* A cancelled download stays cancelled.
LEMMA CancelStays ==
  ASSUME IInv, [Next]_vars, result' # "cancelled"
  PROVE  result # "cancelled"
<1>1. Typed /\ PhaseInv
  BY TypedIsTypeOK DEF IInv
<1>2. ASSUME result' # result
      PROVE  result = "none"
  BY <1>1, <1>2, NextCases, DiskMoves
  DEF OfferSuppressed, OfferTaken, TaskPosts, IntervalElapses, SelectCancel, SelectJoin,
      FlushTakes, FlushPosts, Completes, CallReturns, OnStart, OnProgress, OnSettle,
      LoopNext, Cancel, vars, nativeVars, PhaseInv
<1>3. QED
  BY <1>2

LEMMA OrderStep == IInv /\ [Next]_vars => OrderInv'
<1> SUFFICES ASSUME IInv, [Next]_vars, result' # "cancelled"
             PROVE  OrderInv'
  BY DEF OrderInv
<1>T. Typed /\ PhaseInv /\ SettleInv /\ OrderInv
  BY TypedIsTypeOK DEF IInv
<1>H. /\ Held \subseteq Counts /\ Counts \subseteq Nat
      /\ \A i \in 1..Len(seen) : seen[i] \in Counts
      /\ \A i \in 1..Len(bridge) : IsReport(bridge[i]) => bridge[i].count \in Counts
      /\ offered \in Nat
  BY <1>T, HeldTyped
<1>C. result # "cancelled"
  BY CancelStays DEF IInv
<1>O. /\ \A n \in Held : n <= offered
      /\ \A i \in 1..Len(seen) : seen[i] <= offered /\ \A n \in Held : seen[i] < n
      /\ \A i \in 1..Len(bridge) :
           IsReport(bridge[i]) =>
             bridge[i].count <= offered /\ \A n \in Held : bridge[i].count < n
  BY <1>T, <1>C DEF OrderInv, Held
\* Nothing is posted or seen, and what is held is what was held, or offered now.
<1>U. ASSUME UNCHANGED <<bridge, seen>>, offered' \in Nat, offered <= offered',
             \A n \in Held' : n \in Held \/ (n = offered' /\ offered < n)
      PROVE  OrderInv'
  <2>1. \A n \in Held' : n <= offered'
    <3> SUFFICES ASSUME NEW n \in Held' PROVE n <= offered'
      OBVIOUS
    <3>1. CASE n = offered'
      BY <3>1, <1>U
    <3>2. CASE n \in Held
      <4>1. n \in Nat /\ n <= offered /\ offered \in Nat
        BY <3>2, <1>H, <1>O
      <4>2. QED
        BY <4>1, <1>U
    <3>3. QED
      BY <3>1, <3>2, <1>U
  <2>0. ASSUME NEW x \in Nat, x <= offered, \A n \in Held : x < n
        PROVE  x <= offered' /\ \A n \in Held' : x < n
    <3>1. x <= offered'
      BY <2>0, <1>U, <1>H
    <3>2. ASSUME NEW n \in Held' PROVE x < n
      <4>1. CASE n \in Held
        BY <4>1, <2>0
      <4>2. CASE n = offered' /\ offered < n
        BY <4>2, <2>0, <1>U, <1>H
      <4>3. QED
        BY <4>1, <4>2, <1>U
    <3>3. QED
      BY <3>1, <3>2
  <2>2. ASSUME NEW i \in 1..Len(seen)
        PROVE  seen[i] <= offered' /\ \A n \in Held' : seen[i] < n
    <3>1. seen[i] \in Nat
      BY <1>H
    <3>2. QED
      BY <3>1, <2>0, <1>O
  <2>3. ASSUME NEW i \in 1..Len(bridge), IsReport(bridge[i])
        PROVE  bridge[i].count <= offered' /\ \A n \in Held' : bridge[i].count < n
    <3>1. bridge[i].count \in Nat
      BY <1>H, <2>3
    <3>2. QED
      BY <3>1, <2>0, <2>3, <1>O
  <2>4. QED
    BY <2>1, <2>2, <2>3, <1>U, <1>T, <1>C DEF OrderInv, Held
\* The one count that is held is posted.
<1>P. ASSUME NEW c \in Held, bridge' = Append(bridge, Report(c)), UNCHANGED <<seen, offered>>,
             Held' = {}
      PROVE  OrderInv'
  <2>1. Report(c) \in Tasks /\ Report(c).count = c /\ IsReport(Report(c)) /\ c \in Nat
    BY <1>H, TaskFields
  <2>2. /\ Len(bridge) \in Nat
        /\ \A i \in 1..Len(bridge) : bridge'[i] = bridge[i]
        /\ bridge'[Len(bridge) + 1] = Report(c)
        /\ \A i : i \in 1..Len(bridge') <=> i \in 1..Len(bridge) \/ i = Len(bridge) + 1
    BY <2>1, <1>P, <1>T, AppendFacts DEF Typed
  <2>3. /\ \A i \in 1..Len(seen) : seen[i] < c /\ seen[i] <= offered
        /\ \A i \in 1..Len(bridge) :
             IsReport(bridge[i]) => bridge[i].count < c /\ bridge[i].count <= offered
        /\ c <= offered
    BY <1>P, <1>T, <1>C DEF OrderInv, Held
  <2>4. \A i \in 1..Len(seen), j \in 1..Len(bridge') :
          IsReport(bridge'[j]) => seen[i] < bridge'[j].count
    BY <2>1, <2>2, <2>3, <1>T, <1>C DEF OrderInv
  <2>5. ASSUME NEW i \in 1..Len(bridge'), NEW j \in 1..Len(bridge'),
               i < j, IsReport(bridge'[i]), IsReport(bridge'[j])
        PROVE  bridge'[i].count < bridge'[j].count
    <3>1. i \in 1..Len(bridge)
      BY <2>2, <2>5
    <3>2. QED
      BY <3>1, <2>1, <2>2, <2>3, <2>5, <1>T, <1>C DEF OrderInv
  <2>6. \A i \in 1..Len(bridge') : IsReport(bridge'[i]) => bridge'[i].count <= offered'
    BY <2>1, <2>2, <2>3, <1>P
  <2>7. QED
    BY <2>3, <2>4, <2>5, <2>6, <1>P, <1>T, <1>C DEF OrderInv, Held
\* Something that is no report is posted.
<1>Q. ASSUME NEW m \in Tasks, ~IsReport(m), bridge' = Append(bridge, m),
             UNCHANGED <<seen, offered, taskEmits, flushEmits, suppressed>>
      PROVE  OrderInv'
  <2>1. /\ Len(bridge) \in Nat
        /\ \A i \in 1..Len(bridge) : bridge'[i] = bridge[i]
        /\ bridge'[Len(bridge) + 1] = m
        /\ \A i : i \in 1..Len(bridge') <=> i \in 1..Len(bridge) \/ i = Len(bridge) + 1
    BY <1>Q, <1>T, AppendFacts DEF Typed
  <2>2. \A i \in 1..Len(bridge') :
          IsReport(bridge'[i]) => i \in 1..Len(bridge) /\ bridge'[i] = bridge[i]
    BY <2>1, <1>Q
  <2>3. QED
    BY <2>2, <1>Q, <1>T, <1>C DEF OrderInv
\* A task is taken, and its count, if it has one, is dropped or seen.
<1>K. ASSUME NEW type, TakeTask(type), UNCHANGED <<offered, taskEmits, flushEmits, suppressed>>,
             seen' = seen
      PROVE  OrderInv'
  <2>1. /\ Len(bridge) \in Nat
        /\ \A i \in 1..Len(bridge') : i + 1 \in 1..Len(bridge) /\ bridge'[i] = bridge[i + 1]
    BY <1>K, <1>T, Taken
  <2>2. ASSUME NEW i \in 1..Len(bridge'), NEW j \in 1..Len(bridge'),
               i < j, IsReport(bridge'[i]), IsReport(bridge'[j])
        PROVE  bridge'[i].count < bridge'[j].count
    <3>1. i + 1 < j + 1
      BY <2>2
    <3>2. QED
      BY <3>1, <2>1, <2>2, <1>T, <1>C DEF OrderInv
  <2>3. QED
    BY <2>1, <2>2, <1>K, <1>T, <1>C DEF OrderInv
<1>1. ASSUME NEW n \in (offered + 1)..MaxBytes, OfferSuppressed(n) \/ OfferTaken(n)
      PROVE  OrderInv'
  <2>1. n \in Nat /\ offered < n
    BY <1>H, Bounds
  <2>2. UNCHANGED <<bridge, seen>> /\ offered' = n
    BY <1>1 DEF OfferSuppressed, OfferTaken, hubVars
  <2>3. taskEmits = 0 /\ flushEmits' = flushEmits
    BY <1>1 DEF OfferSuppressed, OfferTaken, Fetching
  <2>4. (suppressed' = n /\ taskEmits' = 0) \/ (suppressed' = 0 /\ taskEmits' = n)
    BY <1>1, <2>3 DEF OfferSuppressed, OfferTaken
  <2>5. \A k \in Held' : k \in Held \/ (k = offered' /\ offered < k)
    BY <2>1, <2>2, <2>3, <2>4 DEF Held
  <2>6. QED
    BY <2>1, <2>2, <2>5, <1>H, <1>U
<1>2. CASE TaskPosts
  <2>1. /\ taskEmits # 0 /\ taskEmits' = 0 /\ bridge' = Append(bridge, Report(taskEmits))
        /\ UNCHANGED <<seen, offered, flushEmits, suppressed>>
    BY <1>2 DEF TaskPosts, hubVars
  <2>2. flushEmits = 0 /\ suppressed = 0
    BY <2>1, <1>T, <1>C, PostsBeforeFinish
  <2>3. taskEmits \in Held /\ Held' = {}
    BY <2>1, <2>2 DEF Held
  <2>4. QED
    BY <2>1, <2>3, <1>P
<1>3. CASE FlushPosts
  <2>1. /\ flushEmits # 0 /\ flushEmits' = 0 /\ bridge' = Append(bridge, Report(flushEmits))
        /\ UNCHANGED <<seen, offered, taskEmits, suppressed>>
    BY <1>3 DEF FlushPosts, hubVars
  <2>2. taskEmits = 0 /\ suppressed = 0
    BY <2>1, <1>T, <1>C, PostsBeforeFinish
  <2>3. flushEmits \in Held /\ Held' = {}
    BY <2>1, <2>2 DEF Held
  <2>4. QED
    BY <2>1, <2>3, <1>P
<1>4. CASE DiskMove
  BY <1>4, <1>U, <1>T, <1>H, DiskMoves DEF hubVars, Held
<1>5. CASE IntervalElapses \/ SelectJoin \/ SelectCancel \/ Cancel \/ LoopNext \/ UNCHANGED vars
  <2>1. UNCHANGED <<bridge, seen, offered, taskEmits, flushEmits, suppressed>>
    BY <1>5
    DEF IntervalElapses, SelectJoin, SelectCancel, Cancel, LoopNext, vars, hubVars, nativeVars
  <2>2. Held' = Held
    BY <2>1 DEF Held
  <2>3. QED
    BY <2>1, <2>2, <1>H, <1>U
<1>6. CASE FlushTakes
  <2>1. /\ flushEmits' = suppressed /\ suppressed' = 0
        /\ UNCHANGED <<bridge, seen, offered, taskEmits>>
    BY <1>6 DEF FlushTakes, hubVars
  <2>2. Held' \subseteq Held
    BY <2>1 DEF Held
  <2>3. QED
    BY <2>1, <2>2, <1>H, <1>U
<1>7. CASE Completes
  <2>1. result \in Outcomes
    BY <1>7, <1>T DEF Completes, PhaseInv, Typed
  <2>2. QED
    BY <2>1, <1>7, <1>Q, TaskFields DEF Completes, hubVars
<1>8. CASE CallReturns
  BY <1>8, <1>Q, TaskFields DEF CallReturns, nativeVars, hubVars
<1>9. CASE OnStart
  BY <1>9, <1>K DEF OnStart, nativeVars
<1>10. CASE OnSettle
  BY <1>10, <1>K DEF OnSettle, nativeVars
<1>11. CASE OnProgress
  <2>1. CASE settled # "none"
    BY <1>11, <2>1, <1>K DEF OnProgress, nativeVars
  <2>2. CASE settled = "none"
    <3> DEFINE c == Head(bridge).count
    <3>1. /\ IsReport(bridge[1]) /\ c = bridge[1].count /\ c \in Counts
          /\ 1 \in 1..Len(bridge) /\ Len(bridge) \in Nat
          /\ \A i \in 1..Len(bridge') : i + 1 \in 1..Len(bridge) /\ bridge'[i] = bridge[i + 1]
      BY <1>11, <1>T, <1>H, Taken DEF OnProgress, TakeTask, IsReport
    <3>2. /\ seen' = Append(seen, c)
          /\ UNCHANGED <<offered, taskEmits, flushEmits, suppressed>>
      BY <1>11, <2>2 DEF OnProgress, nativeVars
    <3> HIDE DEF c
    <3>3. /\ Len(seen) \in Nat
          /\ \A i \in 1..Len(seen) : seen'[i] = seen[i]
          /\ seen'[Len(seen) + 1] = c
          /\ \A i : i \in 1..Len(seen') <=> i \in 1..Len(seen) \/ i = Len(seen) + 1
      BY <3>1, <3>2, <1>T, AppendFacts DEF Typed
    <3>4. \A i \in 1..Len(bridge') : 1 < i + 1
      BY <3>1
    <3>5. /\ \A i \in 1..Len(seen) : seen[i] < c
          /\ \A j \in 1..Len(bridge') : IsReport(bridge'[j]) => c < bridge'[j].count
          /\ c <= offered /\ \A n \in Held : c < n
      BY <3>1, <3>4, <1>T, <1>C DEF OrderInv, Held
    <3>6. ASSUME NEW i \in 1..Len(seen'), NEW j \in 1..Len(seen'), i < j
          PROVE  seen'[i] < seen'[j]
      <4>1. i \in 1..Len(seen)
        BY <3>3, <3>6
      <4>2. QED
        BY <4>1, <3>3, <3>5, <3>6, <1>T, <1>C DEF OrderInv
    <3>7. \A i \in 1..Len(seen'), j \in 1..Len(bridge') :
            IsReport(bridge'[j]) => seen'[i] < bridge'[j].count
      BY <3>1, <3>3, <3>5, <1>T, <1>C DEF OrderInv
    <3>8. ASSUME NEW i \in 1..Len(bridge'), NEW j \in 1..Len(bridge'),
                 i < j, IsReport(bridge'[i]), IsReport(bridge'[j])
          PROVE  bridge'[i].count < bridge'[j].count
      <4>1. i + 1 < j + 1
        BY <3>8
      <4>2. QED
        BY <4>1, <3>1, <3>8, <1>T, <1>C DEF OrderInv
    <3>9. \A i \in 1..Len(seen') : seen'[i] <= offered' /\ \A n \in Held : seen'[i] < n
      BY <3>2, <3>3, <3>5, <1>T, <1>C DEF OrderInv, Held
    <3>10. \A i \in 1..Len(bridge') : IsReport(bridge'[i]) =>
             bridge'[i].count <= offered' /\ \A n \in Held : bridge'[i].count < n
      BY <3>1, <3>2, <1>T, <1>C DEF OrderInv, Held
    <3>11. QED
      BY <3>2, <3>6, <3>7, <3>8, <3>9, <3>10, <1>T, <1>C DEF OrderInv, Held
  <2>3. QED
    BY <2>1, <2>2
<1>12. QED
  BY <1>1, <1>2, <1>3, <1>4, <1>5, <1>6, <1>7, <1>8, <1>9, <1>10, <1>11, NextCases

LEMMA NewestStep == IInv /\ [Next]_vars => NewestInv'
<1> SUFFICES ASSUME IInv, [Next]_vars, result' # "cancelled", offered' # 0
             PROVE  NewestInv'
  BY DEF NewestInv
<1>T. Typed /\ PhaseInv /\ NewestInv /\ result # "cancelled"
  BY TypedIsTypeOK, CancelStays DEF IInv
<1>N. offered # 0 => offered \in Held \/ Coming(offered) \/ Seen(offered)
  BY <1>T DEF NewestInv, Held
<1>G. ASSUME offered' \in Held' \/ Coming(offered)' \/ Seen(offered)'
      PROVE  NewestInv'
  BY <1>G DEF NewestInv, Held
\* Nothing is posted or seen.
<1>U. ASSUME UNCHANGED <<offered, bridge, seen>>, Held \subseteq Held'
      PROVE  NewestInv'
  <2>1. Coming(offered)' = Coming(offered) /\ Seen(offered)' = Seen(offered)
    BY <1>U DEF Coming, Seen
  <2>2. QED
    BY <2>1, <1>U, <1>N, <1>G
\* A task is posted, with a count that was held.
<1>A. ASSUME NEW m \in Tasks, bridge' = Append(bridge, m), UNCHANGED <<seen, offered>>,
             \A n \in Held : n \in Held' \/ (IsReport(m) /\ m.count = n)
      PROVE  NewestInv'
  <2>1. /\ \A i \in 1..Len(bridge) : i \in 1..Len(bridge') /\ bridge'[i] = bridge[i]
        /\ bridge'[Len(bridge) + 1] = m /\ Len(bridge) + 1 \in 1..Len(bridge')
    BY <1>A, <1>T, AppendFacts DEF Typed
  <2>2. \A n \in Held : n \in Held' \/ Coming(n)'
    BY <2>1, <1>A DEF Coming
  <2>3. Coming(offered) => Coming(offered)'
    BY <2>1, <1>A DEF Coming
  <2>4. Seen(offered)' = Seen(offered)
    BY <1>A DEF Seen
  <2>5. QED
    BY <2>2, <2>3, <2>4, <1>A, <1>N, <1>G
\* A task is taken, and its count, if it has one, is seen.
<1>K. ASSUME NEW type, TakeTask(type), UNCHANGED <<offered, taskEmits, flushEmits, suppressed>>,
             Seen(offered) => Seen(offered)',
             IsReport(bridge[1]) /\ bridge[1].count = offered => Seen(offered)'
      PROVE  NewestInv'
  <2>1. \A i \in 1..Len(bridge) :
          i = 1 \/ (i - 1 \in 1..Len(bridge') /\ bridge'[i - 1] = bridge[i])
    BY <1>K, <1>T, Taken
  <2>2. Coming(offered) => Coming(offered)' \/ Seen(offered)'
    BY <2>1, <1>K DEF Coming
  <2>3. Held' = Held
    BY <1>K DEF Held
  <2>4. QED
    BY <2>2, <2>3, <1>K, <1>N, <1>G
<1>1. ASSUME NEW n \in (offered + 1)..MaxBytes, OfferSuppressed(n) \/ OfferTaken(n)
      PROVE  NewestInv'
  <2>1. n # 0 /\ offered' = n
    BY <1>1, <1>T DEF OfferSuppressed, OfferTaken, Typed
  <2>2. n \in Held'
    BY <1>1, <2>1 DEF OfferSuppressed, OfferTaken, Held
  <2>3. QED
    BY <2>1, <2>2, <1>G
<1>2. CASE TaskPosts
  <2>1. /\ taskEmits # 0 /\ taskEmits' = 0 /\ bridge' = Append(bridge, Report(taskEmits))
        /\ UNCHANGED <<seen, offered, flushEmits, suppressed>>
    BY <1>2 DEF TaskPosts, hubVars
  <2>2. taskEmits \in Counts
    BY <2>1, <1>T, Bounds DEF Typed
  <2>3. \A n \in Held : n \in Held' \/ n = taskEmits
    BY <2>1 DEF Held
  <2>4. QED
    BY <2>1, <2>2, <2>3, <1>A, TaskFields
<1>3. CASE FlushPosts
  <2>1. /\ flushEmits # 0 /\ flushEmits' = 0 /\ bridge' = Append(bridge, Report(flushEmits))
        /\ UNCHANGED <<seen, offered, taskEmits, suppressed>>
    BY <1>3 DEF FlushPosts, hubVars
  <2>2. flushEmits \in Counts
    BY <2>1, <1>T, Bounds DEF Typed
  <2>3. \A n \in Held : n \in Held' \/ n = flushEmits
    BY <2>1 DEF Held
  <2>4. QED
    BY <2>1, <2>2, <2>3, <1>A, TaskFields
<1>4. CASE DiskMove
  BY <1>4, <1>U, <1>T, DiskMoves DEF hubVars, Held
<1>5. CASE IntervalElapses \/ SelectJoin \/ SelectCancel \/ Cancel \/ LoopNext \/ UNCHANGED vars
  <2>1. UNCHANGED <<bridge, seen, offered, taskEmits, flushEmits, suppressed>>
    BY <1>5
    DEF IntervalElapses, SelectJoin, SelectCancel, Cancel, LoopNext, vars, hubVars, nativeVars
  <2>2. QED
    BY <2>1, <1>U DEF Held
<1>6. CASE FlushTakes
  <2>1. /\ flushEmits = 0 /\ flushEmits' = suppressed
        /\ UNCHANGED <<bridge, seen, offered, taskEmits>>
    BY <1>6, <1>T DEF FlushTakes, hubVars, PhaseInv
  <2>2. QED
    BY <2>1, <1>U DEF Held
<1>7. CASE Completes
  <2>1. result \in Outcomes
    BY <1>7, <1>T DEF Completes, PhaseInv, Typed
  <2>2. UNCHANGED <<seen, offered, taskEmits, flushEmits, suppressed>>
        /\ bridge' = Append(bridge, Finish(result))
    BY <1>7 DEF Completes, hubVars
  <2>3. Held' = Held
    BY <2>2 DEF Held
  <2>4. QED
    BY <2>1, <2>2, <2>3, <1>A, TaskFields
<1>8. CASE CallReturns
  <2>1. UNCHANGED <<seen, offered, taskEmits, flushEmits, suppressed>>
        /\ bridge' = Append(bridge, Start)
    BY <1>8 DEF CallReturns, nativeVars, hubVars
  <2>2. Held' = Held
    BY <2>1 DEF Held
  <2>3. QED
    BY <2>1, <2>2, <1>A, TaskFields
<1>9. CASE OnStart \/ OnSettle
  <2>1. UNCHANGED <<seen, offered, taskEmits, flushEmits, suppressed>>
    BY <1>9 DEF OnStart, OnSettle, nativeVars
  <2>2. Seen(offered)' = Seen(offered)
    BY <2>1 DEF Seen
  <2>3. PICK type \in {"start", "settle"} : TakeTask(type)
    BY <1>9 DEF OnStart, OnSettle
  <2>4. ~IsReport(bridge[1])
    BY <2>3, <1>T, Taken DEF IsReport
  <2>5. QED
    BY <2>1, <2>2, <2>3, <2>4, <1>K
<1>10. CASE OnProgress
  <2>1. /\ TakeTask("progress") /\ IsReport(bridge[1]) /\ Head(bridge) = bridge[1]
        /\ bridge[1].count \in Counts /\ 1 \in 1..Len(bridge)
        /\ UNCHANGED <<offered, taskEmits, flushEmits, suppressed>>
    BY <1>10, <1>T, Taken, TaskFields DEF OnProgress, IsReport, nativeVars
  <2>2. settled = "none"
    <3>1. SettleInv
      BY DEF IInv
    <3>2. QED
      BY <3>1, <2>1, <1>T DEF SettleInv
  <2>3. seen' = Append(seen, bridge[1].count)
    BY <1>10, <2>1, <2>2 DEF OnProgress
  <2>4. /\ \A i \in 1..Len(seen) : i \in 1..Len(seen') /\ seen'[i] = seen[i]
        /\ Len(seen) + 1 \in 1..Len(seen') /\ seen'[Len(seen) + 1] = bridge[1].count
    BY <2>1, <2>3, <1>T, AppendFacts DEF Typed
  <2>5. Seen(offered) => Seen(offered)'
    BY <2>1, <2>4 DEF Seen
  <2>6. bridge[1].count = offered => Seen(offered)'
    BY <2>1, <2>4 DEF Seen
  <2>7. QED
    BY <2>1, <2>5, <2>6, <1>K
<1>11. QED
  BY <1>1, <1>2, <1>3, <1>4, <1>5, <1>6, <1>7, <1>8, <1>9, <1>10, NextCases
-------------------------------------------------------------------------------
(* The loop, the rate and the destination.                                   *)

LEMMA LoopStep == IInv /\ [Next]_vars => LoopInv'
<1> SUFFICES ASSUME IInv, [Next]_vars PROVE LoopInv'
  OBVIOUS
<1>T. Typed /\ PhaseInv /\ SettleInv /\ LoopInv
  BY TypedIsTypeOK DEF IInv
<1>U. ASSUME UNCHANGED <<settled, seen, kept, loop, read>>
      PROVE  LoopInv'
  BY <1>U, <1>T DEF LoopInv, LastSeen
<1>1. CASE \E n \in (offered + 1)..MaxBytes : OfferSuppressed(n) \/ OfferTaken(n)
  BY <1>1, <1>U DEF OfferSuppressed, OfferTaken, hubVars
<1>2. CASE \/ TaskPosts \/ IntervalElapses \/ SelectCancel \/ SelectJoin \/ FlushTakes
           \/ FlushPosts \/ Completes \/ Cancel
  BY <1>2, <1>U
  DEF TaskPosts, IntervalElapses, SelectCancel, SelectJoin, FlushTakes, FlushPosts, Completes,
      Cancel, hubVars
<1>3. CASE DiskMove
  BY <1>3, <1>U, <1>T, DiskMoves DEF hubVars
<1>4. CASE CallReturns \/ OnStart \/ UNCHANGED vars
  BY <1>4, <1>U DEF CallReturns, OnStart, vars, hubVars
<1>5. CASE OnProgress
  <2>1. CASE settled # "none"
    BY <2>1, <1>5, <1>U DEF OnProgress
  <2>2. CASE settled = "none"
    <3> DEFINE c == Head(bridge).count
    <3>1. c \in Counts /\ c # 0
      <4>1. TakeTask("progress")
        BY <1>5 DEF OnProgress
      <4>2. Head(bridge) \in Tasks /\ IsReport(Head(bridge))
        BY <4>1, <1>T, Taken DEF IsReport
      <4>3. QED
        BY <4>2, TaskFields, Bounds
    <3>2. /\ seen' = Append(seen, c) /\ settled' = settled
          /\ IF loop = "parked"
             THEN read' = c /\ loop' = "body" /\ kept' = kept
             ELSE kept' = c /\ loop' = loop /\ read' = read
      BY <1>5, <2>2 DEF OnProgress
    <3> HIDE DEF c
    <3>3. LastSeen' = c
      <4>1. seen' # << >> /\ seen'[Len(seen')] = c
        BY <3>1, <3>2, <1>T, AppendProperties, LenProperties DEF Typed
      <4>2. QED
        BY <4>1 DEF LastSeen
    <3>4. loop \in {"body", "parked"}
      BY <2>2, <1>T DEF LoopInv, Typed
    <3>5. CASE loop = "parked"
      <4>1. kept' = 0 /\ read' = c /\ loop' = "body"
        BY <3>2, <3>5, <1>T DEF LoopInv
      <4>2. QED
        BY <4>1, <3>3 DEF LoopInv
    <3>6. CASE loop = "body"
      <4>1. kept' = c /\ loop' = "body"
        BY <3>2, <3>6
      <4>2. QED
        BY <4>1, <3>1, <3>3 DEF LoopInv
    <3>7. QED
      BY <3>4, <3>5, <3>6
  <2>3. QED
    BY <2>1, <2>2
<1>6. CASE OnSettle
  <2>1. Head(bridge).outcome = result /\ result \in Outcomes
    <3>1. IsFinish(bridge[1]) /\ 1 \in 1..Len(bridge) /\ Head(bridge) = bridge[1]
          /\ bridge[1] \in Tasks
      BY <1>6, <1>T, Taken DEF OnSettle, IsFinish
    <3>2. QED
      BY <3>1, <1>T, TaskFields DEF SettleInv
  <2>2. /\ settled' = result /\ settled' # "none" /\ UNCHANGED <<seen, kept, read>>
        /\ loop' = IF loop = "parked" THEN LoopEnd(result) ELSE loop
    BY <1>6, <2>1 DEF OnSettle, Outcomes
  <2>3. LastSeen' = LastSeen
    BY <2>2 DEF LastSeen
  <2>4. loop = "ended" => settled' = "success"
    BY <2>2, <1>T DEF LoopInv, SettleInv
  <2>5. QED
    BY <2>2, <2>3, <2>4, <1>T DEF LoopInv, LoopEnd
<1>7. CASE LoopNext
  <2>1. LastSeen' = LastSeen
    BY <1>7 DEF LoopNext, LastSeen
  <2>2. QED
    BY <2>1, <1>7, <1>T DEF LoopNext, LoopInv, LoopEnd
<1>8. QED
  BY <1>1, <1>2, <1>3, <1>4, <1>5, <1>6, <1>7, NextCases

LEMMA RateStep == IInv /\ [Next]_vars => RateInv'
<1> SUFFICES ASSUME IInv, [Next]_vars PROVE RateInv'
  OBVIOUS
<1>T. Typed /\ PhaseInv /\ RateInv /\ emissions \in Nat /\ intervals \in Nat
  BY TypedIsTypeOK, Bounds DEF IInv, Typed
<1>U. ASSUME UNCHANGED <<emissions, taskEmits, flushEmits, due, intervals, completion>>
      PROVE  RateInv'
  BY <1>U, <1>T DEF RateInv, One
<1>1. CASE \E n \in (offered + 1)..MaxBytes : OfferSuppressed(n)
  BY <1>1, <1>U DEF OfferSuppressed
<1>2. ASSUME NEW n \in (offered + 1)..MaxBytes, OfferTaken(n)
      PROVE  RateInv'
  BY <1>2, <1>T DEF OfferTaken, Fetching, RateInv, One
<1>3. CASE TaskPosts
  BY <1>3, <1>T DEF TaskPosts, RateInv, One
<1>4. CASE IntervalElapses
  BY <1>4, <1>T DEF IntervalElapses, RateInv, One
<1>5. CASE SelectCancel \/ SelectJoin
  BY <1>5, <1>T DEF SelectCancel, SelectJoin, RateInv, One
<1>6. CASE FlushTakes
  <2>1. flushEmits = 0
    BY <1>6, <1>T DEF FlushTakes, PhaseInv
  <2>2. One(due') <= One(due) /\ One(due') \in Nat /\ One(due) \in Nat
    <3>1. due' => due
      BY <1>6 DEF FlushTakes
    <3>2. QED
      BY <3>1 DEF One
  <2>3. One(flushEmits' # 0) <= 1 /\ One(flushEmits' # 0) \in Nat
    BY DEF One
  <2>4. /\ One(completion' \in {"completing", "finished"}) = 1
        /\ One(completion \in {"completing", "finished"}) = 0
        /\ One(flushEmits # 0) = 0
        /\ UNCHANGED <<emissions, taskEmits, intervals>>
    BY <1>6, <2>1 DEF FlushTakes, One
  <2>5. One(taskEmits # 0) \in Nat
    BY DEF One
  <2>6. QED
    BY <2>2, <2>3, <2>4, <2>5, <1>T DEF RateInv
<1>7. CASE FlushPosts
  BY <1>7, <1>T DEF FlushPosts, RateInv, One
<1>8. CASE Completes
  BY <1>8, <1>T DEF Completes, RateInv, One
<1>9. CASE DiskMove
  BY <1>9, <1>U, <1>T, DiskMoves
<1>10. CASE CallReturns \/ OnStart \/ OnProgress \/ OnSettle \/ LoopNext \/ Cancel \/ UNCHANGED vars
  BY <1>10, <1>U
  DEF CallReturns, OnStart, OnProgress, OnSettle, LoopNext, Cancel, vars, nativeVars
<1>11. QED
  BY <1>1, <1>2, <1>3, <1>4, <1>5, <1>6, <1>7, <1>8, <1>9, <1>10, NextCases

LEMMA DiskStep == IInv /\ [Next]_vars => DiskInv'
<1> SUFFICES ASSUME IInv, [Next]_vars PROVE DiskInv'
  OBVIOUS
<1>T. Typed /\ PhaseInv /\ DiskInv
  BY TypedIsTypeOK DEF IInv
<1>U. ASSUME UNCHANGED <<task, diskVars>>
      PROVE  DiskInv'
  BY <1>U, <1>T DEF DiskInv, diskVars
<1>1. CASE \E n \in (offered + 1)..MaxBytes : OfferSuppressed(n) \/ OfferTaken(n)
  BY <1>1, <1>U DEF OfferSuppressed, OfferTaken
<1>2. CASE \/ TaskPosts \/ IntervalElapses \/ SelectCancel \/ SelectJoin \/ FlushTakes
           \/ FlushPosts \/ Completes \/ Cancel
  BY <1>2, <1>U
  DEF TaskPosts, IntervalElapses, SelectCancel, SelectJoin, FlushTakes, FlushPosts, Completes,
      Cancel
<1>3. CASE CallReturns \/ OnStart \/ OnProgress \/ OnSettle \/ LoopNext \/ UNCHANGED vars
  BY <1>3, <1>U DEF CallReturns, OnStart, OnProgress, OnSettle, LoopNext, vars, nativeVars
<1>4. CASE TaskFails \/ AbortLands
  BY <1>4, <1>T
  DEF TaskFails, AbortLands, Fetching, TaskAlive, OthersUnchanged, DiskInv
<1>5. CASE FetchEnds
  BY <1>5, <1>T DEF FetchEnds, Fetching, OthersUnchanged, DiskInv
<1>6. CASE InspectTarget
  BY <1>6, <1>T DEF InspectTarget, OthersUnchanged, DiskInv, Typed
<1>7. CASE RemoveTarget
  BY <1>7, <1>T DEF RemoveTarget, OthersUnchanged, DiskInv
<1>8. CASE ExportStarts
  BY <1>8, <1>T DEF ExportStarts, OthersUnchanged, DiskInv
<1>9. CASE ExportEnds
  BY <1>9, <1>T DEF ExportEnds, OthersUnchanged, DiskInv
<1>10. CASE StoreCreates
  BY <1>10, <1>T DEF StoreCreates, OthersUnchanged, DiskInv
<1>11. CASE StoreWrites
  BY <1>11, <1>T DEF StoreWrites, OthersUnchanged, DiskInv
<1>12. CASE Meddle
  BY <1>12, <1>T DEF Meddle, OthersUnchanged, DiskInv
<1>13. QED
  BY <1>1, <1>2, <1>3, <1>4, <1>5, <1>6, <1>7, <1>8, <1>9, <1>10, <1>11, <1>12, NextCases
  DEF DiskMove, Export, Store

LEMMA InitIInv == Init => IInv
<1> SUFFICES ASSUME Init PROVE IInv
  OBVIOUS
<1>1. bridge \in Seq(Tasks) /\ seen \in Seq(Counts) /\ Len(bridge) = 0 /\ Len(seen) = 0
  BY DEF Init
<1>2. Typed
  <2>1. 0 \in 0..MaxBytes /\ 0 \in 0..MaxIntervals
    BY BoundsAssumption
  <2>2. TRUE \in BOOLEAN /\ FALSE \in BOOLEAN
    OBVIOUS
  <2>3. target \in {"absent", "file", "dir", "partial", "whole"}
    BY DEF Init
  <2>4. QED
    BY <1>1, <2>1, <2>2, <2>3 DEF Init, Typed
<1>3. \A i \in 1..0 : FALSE
  OBVIOUS
<1>4. PhaseInv /\ RateInv /\ LoopInv /\ NewestInv /\ DiskInv
  BY Bounds DEF Init, PhaseInv, RateInv, LoopInv, NewestInv, DiskInv, LastSeen, One
<1>5. SettleInv /\ OrderInv
  BY <1>1, <1>3 DEF Init, SettleInv, OrderInv
<1>6. QED
  BY <1>2, <1>4, <1>5, TypedIsTypeOK DEF IInv

LEMMA NextIInv == IInv /\ [Next]_vars => IInv'
<1>1. Typed' => TypeOK'
  BY TypedIsTypeOK, PTL
<1>2. QED
  BY <1>1, TypeStep, PhaseStep, SettleStep, OrderStep, NewestStep, LoopStep, RateStep, DiskStep
  DEF IInv
-------------------------------------------------------------------------------
\* A download that succeeds was seen to its end by the listener, and by the loop:
\* dispatch and settle (transfer.ts) pass on what flush (hybrid_iroh.rs) pushed out.
THEOREM FinalProgress == Spec => []FinalProgressSeen
<1>1. IInv => FinalProgressSeen
  <2> SUFFICES ASSUME IInv PROVE FinalProgressSeen
    OBVIOUS
  <2>T. Typed /\ PhaseInv /\ SettleInv /\ OrderInv /\ NewestInv /\ LoopInv
    BY TypedIsTypeOK DEF IInv
  <2>S. Len(seen) \in Nat /\ (seen = << >> <=> Len(seen) = 0)
    BY <2>T, LenProperties, EmptySeq DEF Typed
  <2>1. ASSUME settled = "success"
        PROVE  IF offered = 0 THEN seen = << >> ELSE seen # << >> /\ seen[Len(seen)] = offered
    <3>1. /\ result = "success" /\ completion = "finished" /\ task = "succeeded"
          /\ taskEmits = 0 /\ flushEmits = 0 /\ suppressed = 0
          /\ \A i \in 1..Len(bridge) : ~IsReport(bridge[i])
      BY <2>1, <2>T DEF SettleInv, PhaseInv
    <3>2. \A i \in 1..Len(seen) : seen[i] \in Counts /\ seen[i] <= offered
      BY <3>1, <2>T, HeldTyped DEF OrderInv
    <3>3. CASE offered = 0
      <4>1. \A i \in 1..Len(seen) : FALSE
        BY <3>2, <3>3, Bounds DEF Counts
      <4>2. QED
        BY <4>1, <3>3, <2>S
    <3>4. CASE offered # 0
      <4>1. PICK i \in 1..Len(seen) : seen[i] = offered
        BY <3>1, <3>4, <2>T DEF NewestInv, Coming, Seen
      <4>2. Len(seen) \in 1..Len(seen) /\ Len(seen) \in Nat
        BY <4>1, <2>S
      <4>3. seen[Len(seen)] \in Nat /\ seen[Len(seen)] <= offered /\ offered \in Nat
        BY <4>2, <3>2, <2>T, HeldTyped
      <4>4. i < Len(seen) => seen[i] < seen[Len(seen)]
        BY <4>2, <3>1, <2>T DEF OrderInv
      <4>5. i = Len(seen)
        BY <4>1, <4>2, <4>3, <4>4
      <4>6. QED
        BY <4>1, <4>2, <4>5, <3>4, <2>S
    <3>5. QED
      BY <3>3, <3>4
  <2>2. ASSUME loop = "ended"
        PROVE  read = offered
    <3>1. settled = "success" /\ read = LastSeen
      BY <2>2, <2>T DEF LoopInv
    <3>2. QED
      BY <3>1, <2>1 DEF LastSeen
  <2>3. QED
    BY <2>1, <2>2 DEF FinalProgressSeen
<1>2. QED
  BY <1>1, InitIInv, NextIInv, PTL DEF Spec

\* Two pairs with different first components, of which those with a count are counted.
LEMMA TwoThreads ==
  ASSUME NEW m, NEW n
  PROVE  Cardinality({e \in {<<"task", m>>, <<"flush", n>>} : e[2] # 0})
           = One(m # 0) + One(n # 0)
<1> DEFINE t == <<"task", m>>
           f == <<"flush", n>>
           S == {e \in {t, f} : e[2] # 0}
<1>0. t # f /\ t[2] = m /\ f[2] = n
  OBVIOUS
<1> HIDE DEF t, f
<1>1. CASE m = 0 /\ n = 0
  <2>1. S = {}
    BY <1>0, <1>1
  <2>2. QED
    BY <1>1, <2>1, FS_EmptySet DEF One, t, f
<1>2. CASE m # 0 /\ n = 0
  <2>1. S = {t}
    BY <1>0, <1>2
  <2>2. Cardinality(S) = 1
    BY <2>1, FS_Singleton
  <2>3. QED
    BY <1>2, <2>2 DEF One, t, f
<1>3. CASE m = 0 /\ n # 0
  <2>1. S = {f}
    BY <1>0, <1>3
  <2>2. Cardinality(S) = 1
    BY <2>1, FS_Singleton
  <2>3. QED
    BY <1>3, <2>2 DEF One, t, f
<1>4. CASE m # 0 /\ n # 0
  <2>1. S = {t} \cup {f} /\ f \notin {t}
    BY <1>0, <1>4
  <2>2. IsFiniteSet({t}) /\ Cardinality({t}) = 1
    BY FS_Singleton
  <2>3. Cardinality({t} \cup {f}) = 1 + 1
    BY <2>1, <2>2, FS_AddElement
  <2>4. Cardinality(S) = 2
    BY <2>1, <2>3
  <2>5. QED
    BY <1>4, <2>4 DEF One, t, f
<1>5. QED
  BY <1>1, <1>2, <1>3, <1>4

\* Until a cancel what a listener sees increases, and no more reports cross the bridge
\* than intervals have elapsed, beside the first and the flushed one: the lock of the
\* Coalescer (coalesce.rs) is enough although the sink is called outside it.
THEOREM ReportsCoalesced == Spec => []Coalesced
<1>1. IInv => Coalesced
  <2> SUFFICES ASSUME IInv PROVE Coalesced
    OBVIOUS
  <2>T. Typed /\ OrderInv /\ RateInv /\ emissions \in Nat /\ intervals \in Nat
    BY TypedIsTypeOK, Bounds DEF IInv, Typed
  <2>1. result # "cancelled" => \A i, j \in 1..Len(seen) : i < j => seen[i] < seen[j]
    BY <2>T DEF OrderInv
  <2>2. emissions + (One(taskEmits # 0) + One(flushEmits # 0)) <= intervals + 2
    BY <2>T DEF RateInv, One
  <2>3. QED
    BY <2>1, <2>2, TwoThreads DEF Coalesced, IInv
<1>2. QED
  BY <1>1, InitIInv, NextIInv, PTL DEF Spec

\* The destination is in good hands (clear_export_target, blobs.rs), whatever the payload
\* and whenever the task is aborted.
THEOREM DestinationInGoodHands == Spec => []DestinationSafe
<1>1. IInv => DestinationSafe
  <2> SUFFICES ASSUME IInv PROVE DestinationSafe
    OBVIOUS
  <2>1. PhaseInv /\ SettleInv /\ DiskInv
    BY DEF IInv
  <2>2. settled = "success" => export = "done"
    BY <2>1 DEF SettleInv, PhaseInv, DiskInv
  <2>3. QED
    BY <2>1, <2>2 DEF DiskInv, DestinationSafe
<1>2. QED
  BY <1>1, InitIInv, NextIInv, PTL DEF Spec
===============================================================================
