---------------------------- MODULE DownloadsProofs ----------------------------
(***************************************************************************)
(* Proofs about Downloads, and Collections on top of it, for any set of    *)
(* transfers and any limit.                                                *)
(*                                                                         *)
(* SlotsAccounted and OneCompletionOwed are not inductive by themselves.   *)
(* The inductive invariant IInv adds where a transfer can be: in the queue *)
(* (not begun), with a live native task, or with its completion on the     *)
(* bridge, and that the three exclude each other.                          *)
(***************************************************************************)
EXTENDS Collections, FiniteSetTheorems, SequenceTheorems, TLAPS

LiveTasks == {"spawned", "fetching", "ok", "failed", "aborted"}

Live(t) == task[t] \in LiveTasks

DoneAt(t, i) == bridge[i].type = "done" /\ bridge[i].transfer = t
StartAt(t, i) == bridge[i].type = "start" /\ bridge[i].transfer = t

\* The queue holds transfers that were created and not begun, each once.
QueueInv ==
  /\ \A i \in 1..Len(queue) : queue[i] \in created /\ ~started[queue[i]]
  /\ \A i, j \in 1..Len(queue) : queue[i] = queue[j] => i = j

\* What each transfer's JS and native state say about each other.
LifeInv ==
  \A t \in Transfer :
    /\ started[t] \/ Settled(t) => t \in created
    /\ t \in releasing => started[t] /\ Settled(t)
    /\ Live(t) => started[t] /\ ~Settled(t)
    /\ task[t] = "completed" => started[t]
    /\ verdict[t] # None => task[t] \in {"ok", "failed", "aborted", "completed"}
    /\ t \in transfers => verdict[t] = None
                          /\ task[t] \in {"spawned", "fetching", "ok", "failed"}

\* A completion on the bridge belongs to a begun, unsettled transfer whose task
\* is over, and there is one per transfer.
BridgeInv ==
  /\ \A i \in 1..Len(bridge), t \in Transfer :
       DoneAt(t, i) => started[t] /\ ~Settled(t) /\ ~Live(t)
  /\ \A i, j \in 1..Len(bridge), t \in Transfer :
       DoneAt(t, i) /\ DoneAt(t, j) => i = j

\* A begun, unsettled transfer has a live task or a completion on the bridge.
OwedInv ==
  \A t \in Transfer :
    started[t] /\ ~Settled(t) => Live(t) \/ \E i \in 1..Len(bridge) : DoneAt(t, i)

\* Until JavaScript has heard of a registered transfer's id, its onStart is on
\* the way.
StartInv ==
  \A t \in transfers :
    ~nativeId[t] \/ (cancelRequested[t] /\ ~cancelSent[t]) =>
      inCall = t \/ \E i \in 1..Len(bridge) : StartAt(t, i)

\* Native calls are only made from the loop of pumpDownloads.
CallInv == inCall # None => pumping

IInv ==
  /\ TypeOK
  /\ CallInv
  /\ SlotsAccounted
  /\ QueueInv
  /\ LifeInv
  /\ BridgeInv
  /\ OwedInv
  /\ StartInv
  /\ NoIdleSlot
-------------------------------------------------------------------------------
(* Steps of the three kinds on the bridge, and on the set of slots.          *)

LEMMA TasksType ==
  /\ \A t \in Transfer : StartTask(t) \in Tasks
  /\ \A t \in Transfer, r \in Verdicts : DoneTask(t, r) \in Tasks
  /\ ClosedTask \in Tasks
BY DEF Tasks

LEMMA TaskFields ==
  ASSUME NEW m \in Tasks
  PROVE  /\ m.type \in {"start", "done", "closed"}
         /\ m.type = "start" => m.transfer \in Transfer
         /\ m.type = "done" => m.transfer \in Transfer /\ m.result \in Verdicts
BY DEF Tasks, StartTask, DoneTask, ClosedTask

LEMMA SlotsFinite ==
  ASSUME NEW S \in SUBSET Transfer
  PROVE  IsFiniteSet(S) /\ Cardinality(S) \in Nat
BY TransferAssumption, FS_Subset, FS_CardinalityType

\* A slot given back belongs to a transfer that holds one, so the counter the
\* code decrements is not zero.
LEMMA ReleasedSlotCounted ==
  ASSUME TypeOK, SlotsAccounted, LifeInv, NEW t \in releasing
  PROVE  active - 1 \in Nat
<1>1. t \in Slots
  BY DEF TypeOK, LifeInv, Slots
<1>2. Slots \in SUBSET Transfer
  BY DEF Slots
<1>3. Cardinality(Slots) # 0
  BY <1>1, <1>2, SlotsFinite, FS_EmptySet
<1>4. QED
  BY <1>2, <1>3, SlotsFinite DEF SlotsAccounted, TypeOK

LEMMA TypeStep == IInv /\ [Next]_vars => TypeOK'
<1> SUFFICES ASSUME IInv, [Next]_vars PROVE TypeOK'
  OBVIOUS
<1> USE NoneAssumption
<1>T. TypeOK /\ SlotsAccounted /\ LifeInv /\ MaxConcurrent \in Nat
  BY MaxConcurrentAssumption DEF IInv
<1>H. ASSUME NEW type, TakeTask(type)
      PROVE  Head(bridge) \in Tasks /\ bridge' \in Seq(Tasks) /\ Head(bridge).type = type
  BY <1>T, <1>H, HeadTailProperties DEF TypeOK, TakeTask
<1>Q. ASSUME NEW t \in Transfer, TakeSlot(t)
      PROVE  queue' \in Seq(Transfer) /\ active' \in Nat
             /\ started' \in [Transfer -> BOOLEAN]
  BY <1>T, <1>Q, HeadTailProperties DEF TypeOK, TakeSlot
<1>1. ASSUME NEW t \in Transfer, NEW aborted \in BOOLEAN, Download(t, aborted)
      PROVE  TypeOK'
  <2>1. queue' \in Seq(Transfer) /\ created' \subseteq Transfer /\ pumping' \in BOOLEAN
    BY <1>1, <1>T, AppendProperties DEF TypeOK, Download, WireAbortSignal, EnqueueDownload
  <2>2. /\ outcome' \in [Transfer -> Outcomes]
        /\ cancelRequested' \in [Transfer -> BOOLEAN]
    BY <1>1, <1>T DEF TypeOK, Download, WireAbortSignal, EnqueueDownload, Outcomes, Verdicts
  <2>3. QED
    BY <2>1, <2>2, <1>1, <1>T DEF TypeOK, Download, WireAbortSignal, EnqueueDownload, nativeVars
<1>2. ASSUME NEW t \in Transfer, Cancel(t)
      PROVE  TypeOK'
  BY <1>2, <1>T DEF TypeOK, Cancel, CancelDownload, BlobDownloadCancel, Outcomes, Verdicts
<1>3. CASE Close
  BY <1>3, <1>T DEF TypeOK, Close, EndpointClose
<1>4. CASE PumpSkip
  BY <1>4, <1>T, HeadTailProperties DEF TypeOK, PumpSkip, nativeVars
<1>5. ASSUME NEW t \in Transfer, BeginThrows(t)
      PROVE  TypeOK'
  BY <1>5, <1>Q, <1>T DEF TypeOK, BeginThrows, nativeVars, Outcomes, Verdicts
<1>6. ASSUME NEW t \in Transfer, BeginRefused(t)
      PROVE  TypeOK'
  BY <1>6, <1>Q, <1>T, AppendProperties, TasksType
  DEF TypeOK, BeginRefused, nativeVars, Verdicts
<1>7. ASSUME NEW t \in Transfer, BeginSpawns(t)
      PROVE  TypeOK'
  BY <1>7, <1>Q, <1>T DEF TypeOK, BeginSpawns
<1>8. CASE CallReturns
  BY <1>8, <1>T, AppendProperties, TasksType DEF TypeOK, CallReturns, nativeVars
<1>9. CASE PumpStops
  BY <1>9, <1>T DEF TypeOK, PumpStops, nativeVars
<1>10. ASSUME NEW t \in Transfer, ReleaseSlot(t)
       PROVE  TypeOK'
  <2>1. active' \in Nat
    BY <1>10, <1>T, ReleasedSlotCounted DEF ReleaseSlot
  <2>2. QED
    BY <2>1, <1>10, <1>T DEF TypeOK, ReleaseSlot, nativeVars
<1>11. CASE OnStart
  BY <1>11, <1>H, <1>T, TaskFields DEF TypeOK, OnStart, CancelDownload, BlobDownloadCancel
<1>12. CASE OnDone
  BY <1>12, <1>H, <1>T, TaskFields DEF TypeOK, OnDone, Settle, nativeVars, Outcomes
<1>13. CASE OnClosed
  BY <1>13, <1>H, <1>T, EmptySeq
  DEF TypeOK, OnClosed, nativeVars, Outcomes, Verdicts
<1>14. ASSUME NEW t \in Transfer, TaskLooksUp(t) \/ SelectCancel(t) \/ SelectJoin(t)
       PROVE  TypeOK'
  <2>1. CASE TaskLooksUp(t)
    BY <2>1, <1>T DEF TypeOK, TaskLooksUp, jsVars
  <2>2. CASE SelectCancel(t)
    BY <2>2, <1>T DEF TypeOK, SelectCancel, jsVars, Verdicts
  <2>3. CASE SelectJoin(t)
    BY <2>3, <1>T DEF TypeOK, SelectJoin, jsVars, Verdicts
  <2>4. QED
    BY <1>14, <2>1, <2>2, <2>3
<1>15. ASSUME NEW t \in Transfer, Complete(t)
       PROVE  TypeOK'
  BY <1>15, <1>T, AppendProperties, TasksType DEF TypeOK, Complete, jsVars
<1>16. ASSUME NEW t \in Transfer, NEW r \in {"ok", "failed"}, TaskEnds(t, r)
       PROVE  TypeOK'
  BY <1>16, <1>T DEF TypeOK, TaskEnds, jsVars
<1>17. CASE ShutdownCompletes
  BY <1>17, <1>T, AppendProperties, TasksType DEF TypeOK, ShutdownCompletes, nativeVars
<1>18. CASE UNCHANGED vars
  BY <1>18, <1>T DEF TypeOK, vars
<1>19. QED
  BY <1>1, <1>2, <1>3, <1>4, <1>5, <1>6, <1>7, <1>8, <1>9, <1>10, <1>11, <1>12,
     <1>13, <1>14, <1>15, <1>16, <1>17, <1>18
  DEF Next, Application, JsThread, Native
-------------------------------------------------------------------------------
(* The queue.                                                                *)

\* The steps that leave the queue, the created and the begun transfers alone.
LEMMA QueueUntouched ==
  ASSUME QueueInv, UNCHANGED <<created, queue, started>>
  PROVE  QueueInv'
BY DEF QueueInv

LEMMA QueueShrinks ==
  ASSUME TypeOK, QueueInv, queue # << >>, queue' = Tail(queue), created' = created,
         \A u \in Transfer : started'[u] => started[u] \/ u = Head(queue)
  PROVE  QueueInv'
<1>1. /\ Len(queue') = Len(queue) - 1
      /\ \A i \in 1..Len(queue') : queue'[i] = queue[i + 1]
      /\ Head(queue) = queue[1]
      /\ Len(queue) \in Nat
  BY HeadTailProperties, LenProperties DEF TypeOK
<1>2. \A i \in 1..Len(queue') : i + 1 \in 1..Len(queue) /\ 1 \in 1..Len(queue)
  BY <1>1
<1>3. \A i \in 1..Len(queue') : queue'[i] \in Transfer /\ queue'[i] # Head(queue)
  BY <1>1, <1>2, ElementOfSeq DEF QueueInv, TypeOK
<1>4. QED
  BY <1>1, <1>2, <1>3 DEF QueueInv

LEMMA QueueStep == IInv /\ [Next]_vars => QueueInv'
<1> SUFFICES ASSUME IInv, [Next]_vars PROVE QueueInv'
  OBVIOUS
<1>T. TypeOK /\ QueueInv /\ LifeInv
  BY DEF IInv
<1>1. ASSUME NEW t \in Transfer, NEW aborted \in BOOLEAN, Download(t, aborted)
      PROVE  QueueInv'
  <2>1. /\ Len(queue') = Len(queue) + 1 /\ Len(queue) \in Nat
        /\ \A i \in 1..Len(queue) : queue'[i] = queue[i]
        /\ queue'[Len(queue) + 1] = t
    BY <1>1, <1>T, AppendProperties, LenProperties DEF TypeOK, Download, WireAbortSignal, EnqueueDownload
  <2>2. \A i \in 1..Len(queue') : i \in 1..Len(queue) \/ i = Len(queue) + 1
    BY <2>1
  <2>3. t \notin created /\ ~started[t] /\ created' = created \cup {t} /\ started' = started
    BY <1>1, <1>T DEF Download, WireAbortSignal, EnqueueDownload, LifeInv
  <2>4. QED
    BY <2>1, <2>2, <2>3, <1>T DEF QueueInv
<1>2. ASSUME NEW t \in Transfer, TakeSlot(t), created' = created
      PROVE  QueueInv'
  BY <1>2, <1>T, QueueShrinks DEF TakeSlot, TypeOK
<1>3. CASE PumpSkip
  BY <1>3, <1>T, QueueShrinks DEF PumpSkip
<1>4. CASE OnClosed
  BY <1>4 DEF OnClosed, QueueInv
<1>5. ASSUME NEW t \in Transfer, BeginThrows(t) \/ BeginRefused(t) \/ BeginSpawns(t)
      PROVE  QueueInv'
  BY <1>5, <1>2 DEF BeginThrows, BeginRefused, BeginSpawns
<1>6. ASSUME NEW t \in Transfer, Cancel(t) \/ ReleaseSlot(t) \/ TaskLooksUp(t)
                \/ SelectCancel(t) \/ SelectJoin(t) \/ Complete(t)
      PROVE  QueueInv'
  BY <1>6, <1>T, QueueUntouched
  DEF Cancel, ReleaseSlot, TaskLooksUp, SelectCancel, SelectJoin, Complete, jsVars
<1>7. CASE Close \/ CallReturns \/ PumpStops \/ OnStart \/ OnDone \/ ShutdownCompletes
  BY <1>7, <1>T, QueueUntouched
  DEF Close, EndpointClose, CallReturns, PumpStops, OnStart, OnDone, Settle, ShutdownCompletes
<1>8. ASSUME NEW t \in Transfer, NEW r \in {"ok", "failed"}, TaskEnds(t, r)
      PROVE  QueueInv'
  BY <1>8, <1>T, QueueUntouched DEF TaskEnds, jsVars
<1>9. CASE UNCHANGED vars
  BY <1>9, <1>T, QueueUntouched DEF vars
<1>10. QED
  BY <1>1, <1>3, <1>4, <1>5, <1>6, <1>7, <1>8, <1>9
  DEF Next, Application, JsThread, Native
-------------------------------------------------------------------------------
(* The life of a transfer.                                                   *)

\* The head of the queue has not begun, so nothing native is left of it.
LEMMA HeadIsFresh ==
  ASSUME TypeOK, QueueInv, LifeInv, BridgeInv, queue # << >>
  PROVE  /\ Head(queue) \in created /\ ~started[Head(queue)]
         /\ task[Head(queue)] = "none" /\ verdict[Head(queue)] = None
         /\ Head(queue) \notin transfers /\ Head(queue) \notin releasing
         /\ \A i \in 1..Len(bridge) : ~DoneAt(Head(queue), i)
<1>1. 1 \in 1..Len(queue) /\ Head(queue) = queue[1] /\ Head(queue) \in Transfer
  BY HeadTailProperties, EmptySeq, LenProperties DEF TypeOK
<1>2. Head(queue) \in created /\ ~started[Head(queue)]
  BY <1>1 DEF QueueInv
<1>3. QED
  BY <1>1, <1>2 DEF TypeOK, LifeInv, BridgeInv, Live, LiveTasks

\* What the task at the head of the bridge is about.
LEMMA HeadOfBridge ==
  ASSUME TypeOK, BridgeInv, bridge # << >>
  PROVE  /\ Head(bridge) = bridge[1] /\ 1 \in 1..Len(bridge)
         /\ Head(bridge).type \in {"start", "done"} => Head(bridge).transfer \in Transfer
         /\ Head(bridge).type = "done" =>
              LET t == Head(bridge).transfer IN
                started[t] /\ ~Settled(t) /\ ~Live(t) /\ Head(bridge).result \in Verdicts
<1>1. 1 \in 1..Len(bridge) /\ Head(bridge) = bridge[1] /\ Head(bridge) \in Tasks
  BY HeadTailProperties, EmptySeq, LenProperties DEF TypeOK
<1>2. QED
  BY <1>1, TaskFields DEF BridgeInv, DoneAt

LEMMA LifeStep == IInv /\ [Next]_vars => LifeInv'
<1> SUFFICES ASSUME IInv, [Next]_vars PROVE LifeInv'
  OBVIOUS
<1>T. TypeOK /\ QueueInv /\ LifeInv /\ BridgeInv
  BY DEF IInv
<1> USE NoneAssumption
<1>1. ASSUME NEW t \in Transfer, NEW aborted \in BOOLEAN, Download(t, aborted)
      PROVE  LifeInv'
  <2>1. t \notin created /\ ~started[t] /\ ~Live(t) /\ t \notin releasing
    BY <1>1, <1>T DEF Download, WireAbortSignal, EnqueueDownload, LifeInv
  <2>2. \A u \in Transfer : u # t => outcome'[u] = outcome[u]
    BY <1>1, <1>T DEF Download, WireAbortSignal, EnqueueDownload, TypeOK
  <2>3. QED
    BY <1>1, <1>T, <2>1, <2>2
    DEF Download, WireAbortSignal, EnqueueDownload, LifeInv, TypeOK, Settled, Live, nativeVars
<1>2. ASSUME NEW t \in Transfer, Cancel(t)
      PROVE  LifeInv'
  <2>1. \A u \in Transfer : outcome'[u] = outcome[u] \/ (u = t /\ ~started[t])
    BY <1>2, <1>T DEF Cancel, TypeOK
  <2>2. QED
    BY <1>2, <1>T, <2>1 DEF Cancel, LifeInv, TypeOK, Settled, Live
<1>3. CASE Close \/ PumpSkip \/ CallReturns \/ PumpStops \/ OnStart \/ ShutdownCompletes
  BY <1>3, <1>T
  DEF Close, EndpointClose, PumpSkip, CallReturns, PumpStops, OnStart, ShutdownCompletes, LifeInv,
      Settled, Live, nativeVars
<1>4. ASSUME NEW t \in Transfer, BeginThrows(t) \/ BeginRefused(t) \/ BeginSpawns(t)
      PROVE  LifeInv'
  <2>1. t \in created /\ task[t] = "none" /\ verdict[t] = None /\ t \notin transfers
        /\ t \notin releasing /\ ~Settled(t)
    BY <1>4, <1>T, HeadIsFresh DEF BeginThrows, BeginRefused, BeginSpawns, TakeSlot
  <2>2. CASE BeginThrows(t)
    BY <2>1, <2>2, <1>T
    DEF BeginThrows, TakeSlot, LifeInv, TypeOK, Settled, Live, LiveTasks, nativeVars
  <2>3. CASE BeginRefused(t)
    BY <2>1, <2>3, <1>T
    DEF BeginRefused, TakeSlot, LifeInv, TypeOK, Settled, Live, LiveTasks, nativeVars
  <2>4. CASE BeginSpawns(t)
    BY <2>1, <2>4, <1>T
    DEF BeginSpawns, TakeSlot, LifeInv, TypeOK, Settled, Live, LiveTasks
  <2>5. QED
    BY <1>4, <2>2, <2>3, <2>4
<1>5. ASSUME NEW t \in Transfer, ReleaseSlot(t)
      PROVE  LifeInv'
  BY <1>5, <1>T DEF ReleaseSlot, LifeInv, Settled, Live, nativeVars
<1>6. CASE OnDone
  <2>1. LET t == Head(bridge).transfer IN t \in Transfer /\ started[t] /\ ~Live(t)
    BY <1>6, <1>T, HeadOfBridge DEF OnDone, Settle, TakeTask
  <2>2. Head(bridge).result \in Verdicts
    BY <1>6, <1>T, HeadOfBridge DEF OnDone, Settle, TakeTask
  <2>3. QED
    BY <1>6, <1>T, <2>1, <2>2
    DEF OnDone, Settle, LifeInv, TypeOK, Settled, Live, Verdicts, nativeVars
<1>7. CASE OnClosed
  <2>1. \A t \in Transfer : Queued(t) => ~started[t] /\ t \in created
    BY <1>T DEF QueueInv, Queued
  <2>2. \A t \in Transfer : outcome'[t] = outcome[t] \/ (~started[t] /\ t \in created)
    BY <1>7, <2>1 DEF OnClosed
  <2>3. QED
    BY <1>7, <1>T, <2>2 DEF OnClosed, LifeInv, TypeOK, Settled, Live, nativeVars
<1>8. ASSUME NEW t \in Transfer, TaskLooksUp(t)
      PROVE  LifeInv'
  BY <1>8, <1>T DEF TaskLooksUp, LifeInv, TypeOK, Settled, Live, LiveTasks, jsVars
<1>9. ASSUME NEW t \in Transfer, NEW r \in {"ok", "failed"}, TaskEnds(t, r)
      PROVE  LifeInv'
  BY <1>9, <1>T DEF TaskEnds, LifeInv, TypeOK, Settled, Live, LiveTasks, jsVars
<1>10. ASSUME NEW t \in Transfer, SelectCancel(t)
       PROVE  LifeInv'
  BY <1>10, <1>T
  DEF SelectCancel, LifeInv, TypeOK, Settled, Live, LiveTasks, jsVars
<1>11. ASSUME NEW t \in Transfer, SelectJoin(t)
       PROVE  LifeInv'
  BY <1>11, <1>T DEF SelectJoin, LifeInv, TypeOK, Settled, Live, LiveTasks, jsVars
<1>12. ASSUME NEW t \in Transfer, Complete(t)
       PROVE  LifeInv'
  BY <1>12, <1>T DEF Complete, LifeInv, TypeOK, Settled, Live, LiveTasks, jsVars
<1>13. CASE UNCHANGED vars
  BY <1>13, <1>T DEF vars, LifeInv, Settled, Live
<1>14. QED
  BY <1>1, <1>2, <1>3, <1>4, <1>5, <1>6, <1>7, <1>8, <1>9, <1>10, <1>11, <1>12, <1>13
  DEF Next, Application, JsThread, Native
-------------------------------------------------------------------------------
(* The bridge.                                                               *)

LEMMA BridgeAppend ==
  ASSUME TypeOK, NEW m \in Tasks, bridge' = Append(bridge, m)
  PROVE  /\ Len(bridge) \in Nat /\ Len(bridge') = Len(bridge) + 1
         /\ \A i \in 1..Len(bridge) : i \in 1..Len(bridge') /\ bridge'[i] = bridge[i]
         /\ Len(bridge) + 1 \in 1..Len(bridge')
         /\ bridge'[Len(bridge) + 1] = m
         /\ \A i \in 1..Len(bridge') : i \in 1..Len(bridge) \/ i = Len(bridge) + 1
<1>1. /\ Len(bridge) \in Nat /\ Len(bridge') = Len(bridge) + 1
      /\ \A i \in 1..Len(bridge) : bridge'[i] = bridge[i]
      /\ bridge'[Len(bridge) + 1] = m
  BY AppendProperties, LenProperties DEF TypeOK
<1>2. QED
  BY <1>1

LEMMA BridgeTail ==
  ASSUME TypeOK, bridge # << >>, bridge' = Tail(bridge)
  PROVE  /\ \A i \in 1..Len(bridge') : i + 1 \in 1..Len(bridge) /\ i + 1 # 1
                                       /\ bridge'[i] = bridge[i + 1]
         /\ \A i \in 1..Len(bridge) : i # 1 =>
              i - 1 \in 1..Len(bridge') /\ bridge'[i - 1] = bridge[i]
<1>1. /\ Len(bridge) \in Nat /\ Len(bridge') = Len(bridge) - 1
      /\ \A i \in 1..Len(bridge') : bridge'[i] = bridge[i + 1]
  BY HeadTailProperties, LenProperties DEF TypeOK
<1>2. ASSUME NEW i \in 1..Len(bridge), i # 1
      PROVE  i - 1 \in 1..Len(bridge') /\ bridge'[i - 1] = bridge[i]
  <2>1. i - 1 \in 1..Len(bridge') /\ (i - 1) + 1 = i
    BY <1>1, <1>2
  <2>2. QED
    BY <2>1, <1>1
<1>3. QED
  BY <1>1, <1>2

CompletionInv == BridgeInv /\ OwedInv

\* Steps that neither touch the bridge nor a begun transfer's outcome, and that
\* neither end nor begin a task's life.
LEMMA CompletionUntouched ==
  ASSUME TypeOK, CompletionInv, UNCHANGED <<bridge, started>>,
         \A t \in Transfer : started[t] => (Settled(t)' <=> Settled(t)),
         \A t \in Transfer : Live(t)' <=> Live(t)
  PROVE  CompletionInv'
BY DEF CompletionInv, BridgeInv, OwedInv, DoneAt, TypeOK

LEMMA CompletionStep == IInv /\ [Next]_vars => CompletionInv'
<1> SUFFICES ASSUME IInv, [Next]_vars PROVE CompletionInv'
  OBVIOUS
<1>T. TypeOK /\ QueueInv /\ LifeInv /\ BridgeInv /\ OwedInv /\ CompletionInv
  BY DEF IInv, CompletionInv
<1>1. ASSUME NEW t \in Transfer, NEW aborted \in BOOLEAN, Download(t, aborted)
      PROVE  CompletionInv'
  <2>1. ~started[t] /\ \A u \in Transfer : u # t => outcome'[u] = outcome[u]
    BY <1>1, <1>T DEF Download, WireAbortSignal, EnqueueDownload, TypeOK, LifeInv
  <2>2. QED
    BY <1>1, <2>1, <1>T, CompletionUntouched DEF Download, WireAbortSignal, EnqueueDownload, Settled, Live, nativeVars
<1>2. ASSUME NEW t \in Transfer, Cancel(t)
      PROVE  CompletionInv'
  <2>1. \A u \in Transfer : outcome'[u] = outcome[u] \/ (u = t /\ ~started[t])
    BY <1>2, <1>T DEF Cancel, TypeOK
  <2>2. QED
    BY <1>2, <2>1, <1>T, CompletionUntouched DEF Cancel, Settled, Live
<1>3. CASE Close \/ PumpSkip \/ PumpStops
  BY <1>3, <1>T, CompletionUntouched
  DEF Close, EndpointClose, PumpSkip, PumpStops, Settled, Live, nativeVars
<1>4. ASSUME NEW t \in Transfer, BeginThrows(t) \/ BeginRefused(t) \/ BeginSpawns(t)
      PROVE  CompletionInv'
  <2>1. /\ ~started[t] /\ task[t] = "none" /\ ~Settled(t)
        /\ \A i \in 1..Len(bridge) : ~DoneAt(t, i)
    BY <1>4, <1>T, HeadIsFresh DEF BeginThrows, BeginRefused, BeginSpawns, TakeSlot
  <2>2. CASE BeginThrows(t)
    BY <2>1, <2>2, <1>T
    DEF BeginThrows, TakeSlot, CompletionInv, BridgeInv, OwedInv, DoneAt, TypeOK,
        Settled, Live, LiveTasks, nativeVars
  <2>3. CASE BeginRefused(t)
    <3>1. DoneTask(t, "failed") \in Tasks /\ "failed" \in Verdicts
      BY TasksType DEF Verdicts
    <3>2. /\ DoneTask(t, "failed").type = "done"
          /\ DoneTask(t, "failed").transfer = t
      BY DEF DoneTask
    <3>3. /\ bridge' = Append(bridge, DoneTask(t, "failed"))
          /\ UNCHANGED <<outcome, task>>
          /\ started' = [started EXCEPT ![t] = TRUE]
      BY <2>3 DEF BeginRefused, TakeSlot, nativeVars
    <3>4. BridgeInv'
      BY <2>1, <3>1, <3>2, <3>3, <1>T, BridgeAppend
      DEF BridgeInv, DoneAt, TypeOK, Settled, Live, LiveTasks
    <3>5. OwedInv'
      BY <2>1, <3>1, <3>2, <3>3, <1>T, BridgeAppend
      DEF OwedInv, DoneAt, TypeOK, Settled, Live, LiveTasks
    <3>6. QED
      BY <3>4, <3>5 DEF CompletionInv
  <2>4. CASE BeginSpawns(t)
    BY <2>1, <2>4, <1>T
    DEF BeginSpawns, TakeSlot, CompletionInv, BridgeInv, OwedInv, DoneAt, TypeOK,
        Settled, Live, LiveTasks
  <2>5. QED
    BY <1>4, <2>2, <2>3, <2>4
<1>5. ASSUME NEW m \in Tasks, m.type # "done", bridge' = Append(bridge, m),
             UNCHANGED <<started, outcome, task>>
      PROVE  CompletionInv'
  BY <1>5, <1>T, BridgeAppend DEF CompletionInv, BridgeInv, OwedInv, DoneAt, Settled, Live
<1>6. CASE CallReturns
  <2>1. StartTask(inCall) \in Tasks /\ StartTask(inCall).type = "start"
    BY <1>6, <1>T, TasksType DEF CallReturns, TypeOK, StartTask
  <2>2. QED
    BY <2>1, <1>5, <1>6 DEF CallReturns, nativeVars
<1>7. CASE ShutdownCompletes
  BY <1>5, <1>7, TasksType DEF ShutdownCompletes, ClosedTask, nativeVars
<1>8. ASSUME bridge # << >>, bridge' = Tail(bridge), Head(bridge).type # "done",
             UNCHANGED <<started, task>>,
             \A t \in Transfer : started[t] => (Settled(t)' <=> Settled(t))
      PROVE  CompletionInv'
  <2>1. \A t \in Transfer : ~DoneAt(t, 1)
    BY <1>8, <1>T, HeadOfBridge DEF DoneAt
  <2>2. BridgeInv'
    BY <1>8, <1>T, BridgeTail DEF BridgeInv, DoneAt, Live
  <2>3. OwedInv'
    BY <1>8, <2>1, <1>T, BridgeTail DEF OwedInv, DoneAt, Live
  <2>4. QED
    BY <2>2, <2>3 DEF CompletionInv
<1>9. CASE OnStart
  BY <1>8, <1>9 DEF OnStart, TakeTask, Settled
<1>10. CASE OnClosed
  <2>1. \A t \in Transfer : Queued(t) => ~started[t]
    BY <1>T DEF QueueInv, Queued
  <2>2. \A t \in Transfer : started[t] => outcome'[t] = outcome[t]
    BY <1>10, <2>1 DEF OnClosed
  <2>3. QED
    BY <1>8, <1>10, <2>2 DEF OnClosed, TakeTask, Settled, nativeVars
<1>11. CASE OnDone
  <2>0. PICK t \in Transfer : t = Head(bridge).transfer
    BY <1>11, <1>T, HeadOfBridge DEF OnDone, Settle, TakeTask
  <2>1. /\ bridge # << >> /\ bridge' = Tail(bridge)
        /\ UNCHANGED <<started, task>>
        /\ started[t] /\ ~Settled(t) /\ DoneAt(t, 1)
        /\ 1 \in 1..Len(bridge) /\ Head(bridge).result \in Verdicts
    BY <1>11, <2>0, <1>T, HeadOfBridge DEF OnDone, Settle, TakeTask, DoneAt, nativeVars
  <2>2. \A u \in Transfer : u # t => outcome'[u] = outcome[u] /\ ~DoneAt(u, 1)
    BY <1>11, <2>0, <2>1, <1>T DEF OnDone, Settle, TypeOK, DoneAt
  <2>3. \A i \in 1..Len(bridge) : i # 1 => ~DoneAt(t, i)
    BY <2>1, <1>T DEF BridgeInv
  <2>4. Settled(t)'
    <3>1. outcome' = [outcome EXCEPT ![t] = Head(bridge).result]
      BY <1>11, <2>0, <2>1 DEF OnDone, Settle
    <3>2. outcome'[t] \in Verdicts
      BY <3>1, <2>1, <1>T DEF TypeOK
    <3>3. QED
      BY <3>2 DEF Settled, Verdicts
  <2>5. BridgeInv'
    <3>1. ASSUME NEW u \in Transfer, NEW i \in 1..Len(bridge'), DoneAt(u, i)'
          PROVE  i + 1 \in 1..Len(bridge) /\ DoneAt(u, i + 1) /\ u # t
      <4>1. i + 1 \in 1..Len(bridge) /\ i + 1 # 1 /\ bridge'[i] = bridge[i + 1]
        BY <2>1, <1>T, BridgeTail
      <4>2. DoneAt(u, i + 1)
        BY <3>1, <4>1 DEF DoneAt
      <4>3. QED
        BY <4>1, <4>2, <2>3
    <3>2. ASSUME NEW u \in Transfer, NEW i \in 1..Len(bridge'), DoneAt(u, i)'
          PROVE  (started[u] /\ ~Settled(u) /\ ~Live(u))'
      BY <3>1, <3>2, <2>1, <2>2, <1>T DEF BridgeInv, Settled, Live
    <3>3. ASSUME NEW u \in Transfer, NEW i \in 1..Len(bridge'), DoneAt(u, i)',
                 NEW j \in 1..Len(bridge'), DoneAt(u, j)'
          PROVE  i = j
      <4>1. i + 1 = j + 1
        BY <3>1, <3>3, <1>T DEF BridgeInv
      <4>2. QED
        BY <4>1
    <3>4. QED
      BY <3>2, <3>3 DEF BridgeInv
  <2>6. OwedInv'
    <3>1. ASSUME NEW u \in Transfer, (started[u] /\ ~Settled(u))', ~Live(u)'
          PROVE  \E i \in 1..Len(bridge') : DoneAt(u, i)'
      <4>1. u # t /\ started[u] /\ ~Settled(u) /\ ~Live(u)
        BY <3>1, <2>1, <2>2, <2>4 DEF Settled, Live
      <4>2. PICK i \in 1..Len(bridge) : DoneAt(u, i)
        BY <4>1, <1>T DEF OwedInv
      <4>3. i # 1
        BY <4>1, <4>2, <2>2
      <4>4. i - 1 \in 1..Len(bridge') /\ bridge'[i - 1] = bridge[i]
        BY <4>3, <2>1, <1>T, BridgeTail
      <4>5. QED
        BY <4>2, <4>4 DEF DoneAt
    <3>2. QED
      BY <3>1 DEF OwedInv
  <2>7. QED
    BY <2>5, <2>6 DEF CompletionInv
<1>12. ASSUME NEW t \in Transfer, ReleaseSlot(t)
       PROVE  CompletionInv'
  BY <1>12, <1>T, CompletionUntouched DEF ReleaseSlot, Settled, Live, nativeVars
<1>13. ASSUME NEW t \in Transfer, TaskLooksUp(t) \/ SelectCancel(t) \/ SelectJoin(t)
       PROVE  CompletionInv'
  <2>1. \A u \in Transfer : Live(u)' <=> Live(u)
    BY <1>13, <1>T
    DEF TaskLooksUp, SelectCancel, SelectJoin, Live, LiveTasks, TypeOK, LifeInv
  <2>2. QED
    BY <1>13, <2>1, <1>T, CompletionUntouched
    DEF TaskLooksUp, SelectCancel, SelectJoin, jsVars, Settled
<1>14. ASSUME NEW t \in Transfer, NEW r \in {"ok", "failed"}, TaskEnds(t, r)
       PROVE  CompletionInv'
  <2>1. \A u \in Transfer : Live(u)' <=> Live(u)
    BY <1>14, <1>T DEF TaskEnds, Live, LiveTasks, TypeOK
  <2>2. QED
    BY <1>14, <2>1, <1>T, CompletionUntouched DEF TaskEnds, jsVars, Settled
<1>15. ASSUME NEW t \in Transfer, Complete(t)
       PROVE  CompletionInv'
  <2> DEFINE m == DoneTask(t, verdict[t])
  <2>1. Live(t) /\ verdict[t] \in Verdicts
    BY <1>15, <1>T DEF Complete, LifeInv, Live, LiveTasks, TypeOK
  <2>2. m \in Tasks /\ m.type = "done" /\ m.transfer = t
    BY <2>1, TasksType DEF DoneTask
  <2>3. started[t] /\ ~Settled(t) /\ \A i \in 1..Len(bridge) : ~DoneAt(t, i)
    BY <2>1, <1>T DEF LifeInv, BridgeInv
  <2>4. /\ bridge' = Append(bridge, m) /\ UNCHANGED <<started, outcome>>
        /\ ~Live(t)' /\ \A u \in Transfer : u # t => task'[u] = task[u]
    BY <1>15, <1>T DEF Complete, jsVars, TypeOK, Live, LiveTasks
  <2>5. BridgeInv'
    BY <2>2, <2>3, <2>4, <1>T, BridgeAppend DEF BridgeInv, DoneAt, Settled, Live
  <2>6. OwedInv'
    BY <2>2, <2>4, <1>T, BridgeAppend DEF OwedInv, DoneAt, Settled, Live
  <2>7. QED
    BY <2>5, <2>6 DEF CompletionInv
<1>16. CASE UNCHANGED vars
  BY <1>16, <1>T, CompletionUntouched DEF vars, Settled, Live
<1>17. QED
  BY <1>1, <1>2, <1>3, <1>4, <1>6, <1>7, <1>9, <1>10, <1>11, <1>12, <1>13, <1>14,
     <1>15, <1>16
  DEF Next, Application, JsThread, Native
-------------------------------------------------------------------------------
(* onStart and the cancel that waits for it.                                 *)

LEMMA StartStep == IInv /\ [Next]_vars => StartInv'
<1> SUFFICES ASSUME IInv, [Next]_vars PROVE StartInv'
  OBVIOUS
<1> USE NoneAssumption
<1>T. TypeOK /\ QueueInv /\ LifeInv /\ BridgeInv /\ StartInv
  BY DEF IInv
<1>R. \A t \in transfers : t \in Transfer /\ started[t] /\ t \in created
  BY <1>T DEF TypeOK, LifeInv, Live, LiveTasks
<1>1. ASSUME NEW t \in Transfer, NEW aborted \in BOOLEAN, Download(t, aborted)
      PROVE  StartInv'
  <2>1. t \notin transfers /\ \A u \in transfers : cancelRequested'[u] = cancelRequested[u]
    BY <1>1, <1>R, <1>T DEF Download, WireAbortSignal, EnqueueDownload, TypeOK
  <2>2. QED
    BY <1>1, <2>1, <1>T DEF Download, WireAbortSignal, EnqueueDownload, StartInv, StartAt, nativeVars
<1>2. ASSUME NEW t \in Transfer, Cancel(t)
      PROVE  StartInv'
  <2>1. ASSUME NEW u \in transfers, nativeId[u], cancelRequested'[u], ~cancelSent'[u]
        PROVE  cancelRequested[u] /\ ~cancelSent[u]
    BY <1>2, <2>1, <1>R, <1>T DEF Cancel, CancelDownload, BlobDownloadCancel, TypeOK
  <2>2. QED
    BY <1>2, <2>1, <1>T DEF Cancel, StartInv, StartAt
<1>3. CASE Close \/ PumpSkip \/ PumpStops
  BY <1>3, <1>T DEF Close, EndpointClose, PumpSkip, PumpStops, StartInv, StartAt, nativeVars
<1>4. ASSUME NEW t \in Transfer, BeginThrows(t)
      PROVE  StartInv'
  BY <1>4, <1>T DEF BeginThrows, TakeSlot, StartInv, StartAt, nativeVars
<1>5. ASSUME NEW m \in Tasks, bridge' = Append(bridge, m), inCall' = inCall,
             transfers' \subseteq transfers, UNCHANGED <<nativeId, cancelRequested, cancelSent>>
      PROVE  StartInv'
  BY <1>5, <1>T, BridgeAppend DEF StartInv, StartAt
<1>6. ASSUME NEW t \in Transfer, BeginRefused(t)
      PROVE  StartInv'
  BY <1>5, <1>6, TasksType DEF BeginRefused, TakeSlot, nativeVars, Verdicts
<1>7. ASSUME NEW t \in Transfer, BeginSpawns(t)
      PROVE  StartInv'
  <2>1. \A u \in transfers : inCall # u
    BY <1>7, <1>R DEF BeginSpawns, TakeSlot
  <2>2. transfers' = transfers \cup {t} /\ inCall' = t
        /\ UNCHANGED <<bridge, nativeId, cancelRequested, cancelSent>>
    BY <1>7 DEF BeginSpawns, TakeSlot
  <2>3. QED
    BY <2>1, <2>2, <1>T DEF StartInv, StartAt
<1>8. CASE CallReturns
  <2>1. inCall \in Transfer /\ StartTask(inCall) \in Tasks
    BY <1>8, <1>T, TasksType DEF CallReturns, TypeOK
  <2>2. StartTask(inCall).type = "start" /\ StartTask(inCall).transfer = inCall
    BY DEF StartTask
  <2>3. bridge' = Append(bridge, StartTask(inCall))
        /\ UNCHANGED <<transfers, nativeId, cancelRequested, cancelSent>>
    BY <1>8 DEF CallReturns, nativeVars
  <2>4. QED
    BY <2>1, <2>2, <2>3, <1>T, BridgeAppend DEF StartInv, StartAt
<1>9. ASSUME NEW t \in Transfer, ReleaseSlot(t)
      PROVE  StartInv'
  BY <1>9, <1>T DEF ReleaseSlot, StartInv, StartAt, nativeVars
<1>10. ASSUME bridge # << >>, bridge' = Tail(bridge), inCall' = inCall,
              transfers' \subseteq transfers,
              NEW u \in transfers', ~StartAt(u, 1),
              ~nativeId[u] \/ (cancelRequested[u] /\ ~cancelSent[u])
       PROVE  inCall' = u \/ \E i \in 1..Len(bridge') : StartAt(u, i)'
  <2>1. CASE inCall = u
    BY <2>1, <1>10
  <2>2. CASE \E i \in 1..Len(bridge) : StartAt(u, i)
    <3>1. PICK i \in 1..Len(bridge) : StartAt(u, i)
      BY <2>2
    <3>2. i # 1
      BY <3>1, <1>10
    <3>3. i - 1 \in 1..Len(bridge') /\ bridge'[i - 1] = bridge[i]
      BY <3>2, <1>10, <1>T, BridgeTail
    <3>4. QED
      BY <3>1, <3>3 DEF StartAt
  <2>3. QED
    BY <2>1, <2>2, <1>10, <1>T DEF StartInv
<1>11. CASE OnStart
  <2>0. PICK t \in Transfer : t = Head(bridge).transfer
    BY <1>11, <1>T, HeadOfBridge DEF OnStart, TakeTask
  <2>1. bridge # << >> /\ bridge' = Tail(bridge) /\ inCall' = inCall
        /\ transfers' = transfers /\ cancelRequested' = cancelRequested
        /\ nativeId' = [nativeId EXCEPT ![t] = TRUE]
    BY <1>11, <2>0 DEF OnStart, TakeTask
  <2>2. t \in transfers /\ cancelRequested[t] => cancelSent'[t]
    BY <1>11, <2>0, <1>T DEF OnStart, CancelDownload, BlobDownloadCancel, TypeOK
  <2>3. \A u \in Transfer : u # t => nativeId'[u] = nativeId[u] /\ cancelSent'[u] = cancelSent[u]
    BY <1>11, <2>0, <1>T DEF OnStart, CancelDownload, BlobDownloadCancel, TypeOK
  <2>4. \A u \in Transfer : u # t => ~StartAt(u, 1)
    BY <1>11, <2>0, <2>1, <1>T, HeadOfBridge DEF StartAt
  <2>5. nativeId'[t]
    BY <2>1, <1>T DEF TypeOK
  <2>6. ASSUME NEW u \in transfers',
               ~nativeId'[u] \/ (cancelRequested'[u] /\ ~cancelSent'[u])
        PROVE  inCall' = u \/ \E i \in 1..Len(bridge') : StartAt(u, i)'
    <3>1. u \in transfers /\ u # t
      BY <2>1, <2>2, <2>5, <2>6
    <3>2. ~nativeId[u] \/ (cancelRequested[u] /\ ~cancelSent[u])
      BY <2>1, <2>3, <2>6, <3>1, <1>R
    <3>3. QED
      BY <1>10, <2>1, <2>4, <2>6, <3>1, <3>2, <1>R
  <2>7. QED
    BY <2>6 DEF StartInv
<1>12. CASE OnDone \/ OnClosed
  <2>1. bridge # << >> /\ bridge' = Tail(bridge) /\ Head(bridge).type # "start"
        /\ UNCHANGED <<inCall, transfers, nativeId, cancelSent>>
    BY <1>12 DEF OnDone, Settle, OnClosed, TakeTask, nativeVars
  <2>2. \A u \in Transfer : ~StartAt(u, 1)
    BY <2>1, <1>T, HeadOfBridge DEF StartAt
  <2>3. \A u \in transfers : cancelRequested'[u] = cancelRequested[u]
    <3>1. \A u \in Transfer : Queued(u) => ~started[u]
      BY <1>T DEF QueueInv, Queued
    <3>2. QED
      BY <1>12, <3>1, <1>R, <1>T DEF OnDone, Settle, OnClosed, TypeOK
  <2>4. ASSUME NEW u \in transfers',
               ~nativeId'[u] \/ (cancelRequested'[u] /\ ~cancelSent'[u])
        PROVE  inCall' = u \/ \E i \in 1..Len(bridge') : StartAt(u, i)'
    BY <1>10, <2>1, <2>2, <2>3, <2>4, <1>R
  <2>5. QED
    BY <2>4 DEF StartInv
<1>13. ASSUME NEW t \in Transfer, TaskLooksUp(t) \/ SelectCancel(t) \/ SelectJoin(t)
       PROVE  StartInv'
  BY <1>13, <1>T DEF TaskLooksUp, SelectCancel, SelectJoin, StartInv, StartAt, jsVars
<1>14. ASSUME NEW t \in Transfer, NEW r \in {"ok", "failed"}, TaskEnds(t, r)
       PROVE  StartInv'
  BY <1>14, <1>T DEF TaskEnds, StartInv, StartAt, jsVars
<1>15. ASSUME NEW t \in Transfer, Complete(t)
       PROVE  StartInv'
  <2>1. verdict[t] \in Verdicts
    BY <1>15, <1>T DEF Complete, TypeOK
  <2>2. QED
    BY <2>1, <1>5, <1>15, TasksType DEF Complete, jsVars
<1>16. CASE ShutdownCompletes
  BY <1>5, <1>16, TasksType DEF ShutdownCompletes, nativeVars
<1>17. CASE UNCHANGED vars
  BY <1>17, <1>T DEF vars, StartInv, StartAt
<1>18. QED
  BY <1>1, <1>2, <1>3, <1>4, <1>6, <1>7, <1>8, <1>9, <1>11, <1>12, <1>13, <1>14,
     <1>15, <1>16, <1>17
  DEF Next, Application, JsThread, Native
-------------------------------------------------------------------------------
(* The slots.                                                                *)

LEMMA SlotsUntouched ==
  ASSUME SlotsAccounted, active' = active, Slots' = Slots
  PROVE  SlotsAccounted'
BY DEF SlotsAccounted

LEMMA SlotTaken ==
  ASSUME TypeOK, SlotsAccounted, NEW t \in Transfer, TakeSlot(t), t \notin Slots,
         Slots' = Slots \cup {t}
  PROVE  SlotsAccounted'
<1>1. IsFiniteSet(Slots)
  BY SlotsFinite DEF Slots
<1>2. Cardinality(Slots') = Cardinality(Slots) + 1
  BY <1>1, FS_AddElement
<1>3. active' = active + 1 /\ active < MaxConcurrent /\ active \in Nat
  BY DEF TakeSlot, SlotFree, TypeOK
<1>4. QED
  BY <1>2, <1>3, MaxConcurrentAssumption DEF SlotsAccounted

LEMMA SlotReturned ==
  ASSUME TypeOK, SlotsAccounted, LifeInv, NEW t \in Transfer, ReleaseSlot(t)
  PROVE  SlotsAccounted'
<1>1. IsFiniteSet(Slots) /\ t \in Slots /\ Slots' = Slots \ {t}
  BY SlotsFinite DEF ReleaseSlot, Slots, LifeInv, Settled, nativeVars
<1>2. Cardinality(Slots') = Cardinality(Slots) - 1
  BY <1>1, FS_RemoveElement
<1>3. active' = active - 1 /\ active \in Nat
  BY DEF ReleaseSlot, TypeOK
<1>4. QED
  BY <1>2, <1>3, MaxConcurrentAssumption DEF SlotsAccounted

LEMMA SlotStep == IInv /\ [Next]_vars => SlotsAccounted'
<1> SUFFICES ASSUME IInv, [Next]_vars PROVE SlotsAccounted'
  OBVIOUS
<1>T. TypeOK /\ QueueInv /\ LifeInv /\ BridgeInv /\ SlotsAccounted
  BY DEF IInv
<1>1. ASSUME NEW t \in Transfer, NEW aborted \in BOOLEAN, Download(t, aborted)
      PROVE  SlotsAccounted'
  <2>1. ~started[t] /\ \A u \in Transfer : u # t => outcome'[u] = outcome[u]
    BY <1>1, <1>T DEF Download, WireAbortSignal, EnqueueDownload, LifeInv, TypeOK
  <2>2. QED
    BY <2>1, <1>1, <1>T, SlotsUntouched DEF Download, WireAbortSignal, EnqueueDownload, Slots, Settled
<1>2. ASSUME NEW t \in Transfer, Cancel(t)
      PROVE  SlotsAccounted'
  <2>1. \A u \in Transfer : outcome'[u] = outcome[u] \/ (u = t /\ ~started[t])
    BY <1>2, <1>T DEF Cancel, TypeOK
  <2>2. QED
    BY <2>1, <1>2, <1>T, SlotsUntouched DEF Cancel, Slots, Settled
<1>3. CASE Close \/ PumpSkip \/ CallReturns \/ PumpStops \/ OnStart \/ ShutdownCompletes
  BY <1>3, <1>T, SlotsUntouched
  DEF Close, EndpointClose, PumpSkip, CallReturns, PumpStops, OnStart, ShutdownCompletes, Slots, Settled
<1>4. ASSUME NEW t \in Transfer, BeginThrows(t) \/ BeginRefused(t) \/ BeginSpawns(t)
      PROVE  SlotsAccounted'
  <2>1. TakeSlot(t) /\ ~started[t] /\ t \notin releasing
    BY <1>4, <1>T, HeadIsFresh DEF BeginThrows, BeginRefused, BeginSpawns, TakeSlot
  <2>2. /\ started' = [started EXCEPT ![t] = TRUE]
        /\ \A u \in Transfer : u # t => outcome'[u] = outcome[u]
        /\ \A u \in Transfer : u # t => (u \in releasing' <=> u \in releasing)
        /\ t \in releasing' \/ ~Settled(t)'
    BY <1>4, <1>T DEF BeginThrows, BeginRefused, BeginSpawns, TakeSlot, Settled, TypeOK
  <2>3. t \notin Slots /\ Slots' = Slots \cup {t}
    BY <2>1, <2>2, <1>T DEF Slots, Settled, TypeOK
  <2>4. QED
    BY <2>1, <2>3, <1>T, SlotTaken
<1>5. ASSUME NEW t \in Transfer, ReleaseSlot(t)
      PROVE  SlotsAccounted'
  BY <1>5, <1>T, SlotReturned
<1>6. CASE OnDone
  <2>0. PICK t \in Transfer : t = Head(bridge).transfer
    BY <1>6, <1>T, HeadOfBridge DEF OnDone, Settle, TakeTask
  <2>1. started[t] /\ ~Settled(t)
    BY <1>6, <2>0, <1>T, HeadOfBridge DEF OnDone, Settle, TakeTask
  <2>2. /\ UNCHANGED <<active, started>> /\ releasing' = releasing \cup {t}
        /\ \A u \in Transfer : u # t => outcome'[u] = outcome[u]
    BY <1>6, <2>0, <1>T DEF OnDone, Settle, TypeOK
  <2>3. Slots' = Slots
    BY <2>1, <2>2 DEF Slots, Settled
  <2>4. QED
    BY <2>2, <2>3, <1>T, SlotsUntouched
<1>7. CASE OnClosed
  <2>1. \A t \in Transfer : Queued(t) => ~started[t]
    BY <1>T DEF QueueInv, Queued
  <2>2. \A t \in Transfer : outcome'[t] = outcome[t] \/ ~started[t]
    BY <1>7, <2>1 DEF OnClosed
  <2>3. QED
    BY <1>7, <2>2, <1>T, SlotsUntouched DEF OnClosed, Slots, Settled
<1>8. ASSUME NEW t \in Transfer,
             TaskLooksUp(t) \/ SelectCancel(t) \/ SelectJoin(t) \/ Complete(t)
      PROVE  SlotsAccounted'
  BY <1>8, <1>T, SlotsUntouched
  DEF TaskLooksUp, SelectCancel, SelectJoin, Complete, jsVars, Slots, Settled
<1>9. ASSUME NEW t \in Transfer, NEW r \in {"ok", "failed"}, TaskEnds(t, r)
      PROVE  SlotsAccounted'
  BY <1>9, <1>T, SlotsUntouched DEF TaskEnds, jsVars, Slots, Settled
<1>10. CASE UNCHANGED vars
  BY <1>10, <1>T, SlotsUntouched DEF vars, Slots, Settled
<1>11. QED
  BY <1>1, <1>2, <1>3, <1>4, <1>5, <1>6, <1>7, <1>8, <1>9, <1>10
  DEF Next, Application, JsThread, Native

LEMMA CallStep == IInv /\ [Next]_vars => CallInv'
<1> SUFFICES ASSUME IInv, [Next]_vars PROVE CallInv'
  OBVIOUS
<1>T. CallInv
  BY DEF IInv
<1>1. CASE Application
  BY <1>1, <1>T DEF Application, Download, WireAbortSignal, EnqueueDownload, Cancel, Close, EndpointClose, CallInv
<1>2. CASE JsThread
  BY <1>2, <1>T
  DEF JsThread, PumpSkip, BeginThrows, BeginRefused, BeginSpawns, TakeSlot, CallReturns,
      PumpStops, ReleaseSlot, OnStart, OnDone, Settle, OnClosed, TakeTask, JsIdle, CallInv
<1>3. CASE Native
  BY <1>3, <1>T
  DEF Native, TaskLooksUp, SelectCancel, SelectJoin, Complete, TaskEnds,
      ShutdownCompletes, jsVars, CallInv
<1>4. CASE UNCHANGED vars
  BY <1>4, <1>T DEF vars, CallInv
<1>5. QED
  BY <1>1, <1>2, <1>3, <1>4 DEF Next

\* No slot stays idle while a live transfer waits.
LEMMA IdleStep == IInv /\ [Next]_vars => NoIdleSlot'
<1> SUFFICES ASSUME IInv, [Next]_vars PROVE NoIdleSlot'
  OBVIOUS
<1>T. TypeOK /\ NoIdleSlot /\ SlotsAccounted /\ CallInv
  BY DEF IInv
<1>1. ASSUME NEW t \in Transfer, NEW aborted \in BOOLEAN, Download(t, aborted)
      PROVE  NoIdleSlot'
  BY <1>1 DEF Download, WireAbortSignal, EnqueueDownload, NoIdleSlot, JsIdle
<1>2. ASSUME NEW t \in Transfer, Cancel(t)
      PROVE  NoIdleSlot'
  <2>1. \A u \in Transfer : outcome'[u] = outcome[u] \/ Settled(u)'
    BY <1>2, <1>T DEF Cancel, TypeOK, Settled
  <2>2. QED
    BY <2>1, <1>2, <1>T DEF Cancel, NoIdleSlot, JsIdle, Queued, Settled
<1>3. CASE PumpStops
  BY <1>3, <1>T, MaxConcurrentAssumption
  DEF PumpStops, SlotFree, NoIdleSlot, SlotsAccounted, Queued, JsIdle, TypeOK
<1>4. CASE PumpSkip \/ CallReturns
  BY <1>4, <1>T DEF PumpSkip, CallReturns, NoIdleSlot, JsIdle, CallInv
<1>5. ASSUME NEW t \in Transfer, BeginThrows(t) \/ BeginRefused(t) \/ BeginSpawns(t)
      PROVE  NoIdleSlot'
  BY <1>5 DEF BeginThrows, BeginRefused, BeginSpawns, TakeSlot, NoIdleSlot, JsIdle
<1>6. ASSUME NEW t \in Transfer, ReleaseSlot(t)
      PROVE  NoIdleSlot'
  BY <1>6 DEF ReleaseSlot, NoIdleSlot, JsIdle
<1>7. CASE OnDone
  BY <1>7 DEF OnDone, Settle, NoIdleSlot, JsIdle
<1>8. CASE OnClosed
  BY <1>8 DEF OnClosed, NoIdleSlot, Queued
<1>9. CASE Close \/ OnStart \/ ShutdownCompletes \/ UNCHANGED vars
  BY <1>9, <1>T
  DEF Close, EndpointClose, OnStart, ShutdownCompletes, vars, NoIdleSlot, JsIdle, Queued, Settled
<1>10. ASSUME NEW t \in Transfer,
              TaskLooksUp(t) \/ SelectCancel(t) \/ SelectJoin(t) \/ Complete(t)
       PROVE  NoIdleSlot'
  BY <1>10, <1>T
  DEF TaskLooksUp, SelectCancel, SelectJoin, Complete, jsVars, NoIdleSlot, JsIdle,
      Queued, Settled
<1>11. ASSUME NEW t \in Transfer, NEW r \in {"ok", "failed"}, TaskEnds(t, r)
       PROVE  NoIdleSlot'
  BY <1>11, <1>T DEF TaskEnds, jsVars, NoIdleSlot, JsIdle, Queued, Settled
<1>12. QED
  BY <1>1, <1>2, <1>3, <1>4, <1>5, <1>6, <1>7, <1>8, <1>9, <1>10, <1>11
  DEF Next, Application, JsThread, Native
-------------------------------------------------------------------------------
(* The theorems.                                                             *)

LEMMA InitIInv == Init => IInv
<1> SUFFICES ASSUME Init PROVE IInv
  OBVIOUS
<1>1. TypeOK
  BY EmptySeq DEF Init, TypeOK, Outcomes, Verdicts
<1>2. QueueInv /\ LifeInv /\ BridgeInv /\ OwedInv /\ StartInv /\ NoIdleSlot /\ CallInv
  BY DEF Init, QueueInv, LifeInv, BridgeInv, OwedInv, StartInv, NoIdleSlot, CallInv,
     JsIdle, Queued, Live, LiveTasks, Settled
<1>3. SlotsAccounted
  <2>1. Slots = {}
    BY DEF Init, Slots
  <2>2. QED
    BY <2>1, FS_EmptySet, MaxConcurrentAssumption DEF Init, SlotsAccounted
<1>4. QED
  BY <1>1, <1>2, <1>3 DEF IInv

LEMMA NextIInv == IInv /\ [Next]_vars => IInv'
BY TypeStep, QueueStep, LifeStep, CompletionStep, StartStep, SlotStep, IdleStep, CallStep
DEF IInv, CompletionInv

\* The strengthening holds in every reachable state.
THEOREM Inductive == Spec => []IInv
<1>1. QED
  BY InitIInv, NextIInv, PTL DEF Spec

\* TypeOK (see Downloads): in particular activeDownloads never goes negative.
THEOREM TypeCorrect == Spec => []TypeOK
<1>1. IInv => TypeOK
  BY DEF IInv
<1>2. QED
  BY <1>1, Inductive, PTL

\* The concurrency gate (endpoint.ts:984-1000): activeDownloads counts exactly
\* the transfers that hold a slot and never exceeds maxConcurrentDownloads.
THEOREM SlotsCorrect == Spec => []SlotsAccounted
<1>1. IInv => SlotsAccounted
  BY DEF IInv
<1>2. QED
  BY <1>1, Inductive, PTL

\* The gate is work-conserving: pumpDownloads leaves no slot idle while a live
\* transfer is in the queue.
THEOREM WorkConserving == Spec => []NoIdleSlot
<1>1. IInv => NoIdleSlot
  BY DEF IInv
<1>2. QED
  BY <1>1, Inductive, PTL

\* A cancel requested between begin() and onStart (transfer.ts:228-233, 252-267)
\* is never lost.
THEOREM CancelRemembered == Spec => []CancelNotForgotten
<1>1. ASSUME IInv PROVE CancelNotForgotten
  <2>1. ASSUME NEW t \in transfers, NEW i \in 1..Len(bridge), StartAt(t, i)
        PROVE  bridge[i] = StartTask(t)
    <3>1. bridge[i] \in Tasks
      BY <1>1, ElementOfSeq DEF IInv, TypeOK
    <3>2. QED
      BY <2>1, <3>1 DEF Tasks, StartAt, StartTask, DoneTask, ClosedTask
  <2>2. QED
    BY <1>1, <2>1 DEF IInv, StartInv, CancelNotForgotten
<1>2. QED
  BY <1>1, Inductive, PTL

\* The TRANSFERS registry holds nothing that has settled (blobs.rs:359).
THEOREM RegistryReleased == Spec => []SettledNotRegistered
<1>1. IInv => SettledNotRegistered
  BY DEF IInv, TypeOK, LifeInv, Live, LiveTasks, SettledNotRegistered
<1>2. QED
  BY <1>1, Inductive, PTL

\* Every begun transfer is owed exactly one completion until it settles, and no
\* other is owed one: none hangs and none is settled twice.
THEOREM OneCompletion == Spec => []OneCompletionOwed
<1>1. ASSUME IInv, NEW t \in Transfer
      PROVE  CompletionsOwed(t) = IF started[t] /\ ~Settled(t) THEN 1 ELSE 0
  <2> DEFINE D == {i \in 1..Len(bridge) : bridge[i] = DoneTask(t, bridge[i].result)}
  <2>1. \A i \in 1..Len(bridge) : i \in D <=> DoneAt(t, i)
    <3>1. ASSUME NEW i \in 1..Len(bridge)
          PROVE  i \in D <=> DoneAt(t, i)
      <4>1. bridge[i] \in Tasks
        BY <1>1, ElementOfSeq DEF IInv, TypeOK
      <4>2. QED
        BY <4>1 DEF Tasks, DoneAt, StartTask, DoneTask, ClosedTask
    <3>2. QED
      BY <3>1
  <2>2. CASE Live(t)
    <3>1. D = {}
      BY <2>1, <2>2, <1>1 DEF IInv, BridgeInv
    <3>2. started[t] /\ ~Settled(t)
      BY <2>2, <1>1 DEF IInv, LifeInv
    <3>3. Cardinality(D) = 0
      BY <3>1, FS_EmptySet
    <3>4. QED
      BY <2>2, <3>2, <3>3 DEF CompletionsOwed, Live, LiveTasks
  <2>3. CASE ~Live(t) /\ \E i \in 1..Len(bridge) : DoneAt(t, i)
    <3>1. PICK i \in 1..Len(bridge) : DoneAt(t, i)
      BY <2>3
    <3>2. \A j \in D : j = i
      BY <2>1, <3>1, <1>1 DEF IInv, BridgeInv
    <3>3. D = {i}
      BY <2>1, <3>1, <3>2
    <3>4. Cardinality(D) = 1
      BY <3>3, FS_Singleton
    <3>5. started[t] /\ ~Settled(t)
      BY <3>1, <1>1 DEF IInv, BridgeInv
    <3>6. QED
      BY <2>3, <3>4, <3>5 DEF CompletionsOwed, Live, LiveTasks
  <2>4. CASE ~Live(t) /\ ~\E i \in 1..Len(bridge) : DoneAt(t, i)
    <3>1. Cardinality(D) = 0
      BY <2>1, <2>4, FS_EmptySet
    <3>2. ~(started[t] /\ ~Settled(t))
      BY <2>4, <1>1 DEF IInv, OwedInv
    <3>3. QED
      BY <2>4, <3>1, <3>2 DEF CompletionsOwed, Live, LiveTasks
  <2>5. QED
    BY <2>2, <2>3, <2>4
<1>2. IInv => OneCompletionOwed
  BY <1>1 DEF OneCompletionOwed
<1>3. QED
  BY <1>2, Inductive, PTL

\* A transfer that settled before it started is out for good (transfer.ts:257-261
\* and endpoint.ts:990-993): no step begins it, creates anything native for it or
\* changes its outcome.
THEOREM SettledStaysOut == Spec => SettledNeverStarts
<1>1. ASSUME IInv, [Next]_vars, NEW t \in Transfer, Settled(t), ~started[t]
      PROVE  ~started'[t] /\ task'[t] = "none" /\ outcome'[t] = outcome[t]
  <2>T. TypeOK /\ QueueInv /\ LifeInv /\ BridgeInv
    BY <1>1 DEF IInv
  <2>1. t \in created /\ task[t] = "none" /\ t \notin transfers /\ verdict[t] = None
    BY <2>T, <1>1, NoneAssumption DEF TypeOK, LifeInv, Live, LiveTasks
  <2>2. CASE Application
    BY <2>1, <2>2, <2>T, <1>1
    DEF Application, Download, WireAbortSignal, EnqueueDownload, Cancel, Close, EndpointClose, Settled, TypeOK, nativeVars
  <2>3. ASSUME NEW u \in Transfer, BeginThrows(u) \/ BeginRefused(u) \/ BeginSpawns(u)
        PROVE  ~started'[t] /\ task'[t] = "none" /\ outcome'[t] = outcome[t]
    <3>1. u # t
      BY <2>3, <1>1 DEF BeginThrows, BeginRefused, BeginSpawns, TakeSlot
    <3>2. QED
      BY <3>1, <2>1, <2>3, <2>T, <1>1
      DEF BeginThrows, BeginRefused, BeginSpawns, TakeSlot, TypeOK, nativeVars
  <2>4. CASE OnDone
    <3>1. started[Head(bridge).transfer] /\ Head(bridge).transfer \in Transfer
      BY <2>4, <2>T, HeadOfBridge DEF OnDone, Settle, TakeTask
    <3>2. QED
      BY <3>1, <2>1, <2>4, <2>T, <1>1 DEF OnDone, Settle, TypeOK, nativeVars
  <2>5. CASE OnClosed
    BY <2>1, <2>5, <1>1 DEF OnClosed, nativeVars
  <2>6. CASE PumpSkip \/ CallReturns \/ PumpStops \/ OnStart \/ UNCHANGED vars
    BY <2>1, <2>6, <1>1
    DEF PumpSkip, CallReturns, PumpStops, OnStart, vars, nativeVars
  <2>7. ASSUME NEW u \in Transfer, ReleaseSlot(u)
        PROVE  ~started'[t] /\ task'[t] = "none" /\ outcome'[t] = outcome[t]
    BY <2>1, <2>7, <1>1 DEF ReleaseSlot, nativeVars
  <2>8. CASE Native
    BY <2>1, <2>8, <2>T, <1>1
    DEF Native, TaskLooksUp, SelectCancel, SelectJoin, Complete, TaskEnds,
        ShutdownCompletes, TypeOK, jsVars, nativeVars
  <2>9. QED
    BY <1>1, <2>2, <2>3, <2>4, <2>5, <2>6, <2>7, <2>8 DEF Next, JsThread
<1>2. IInv /\ [Next]_vars =>
        [\A t \in Transfer : Settled(t) /\ ~started[t] =>
           ~started'[t] /\ task'[t] = "none" /\ outcome'[t] = outcome[t]]_vars
  BY <1>1
<1>3. QED
  BY <1>2, Inductive, PTL DEF Spec, SettledNeverStarts
-------------------------------------------------------------------------------
(* The refinement of DownloadPool.  The line of the pool is the queue       *)
(* without what settled while it waited, and a step of the code is one step *)
(* of the pool or none.                                                     *)

InQueue(q, t) == \E i \in 1..Len(q) : q[i] = t

OnceEach(q) == \A i, j \in 1..Len(q) : q[i] = q[j] => i = j

\* A created transfer that is neither begun nor settled is in the queue.
WaitsInQueue == \A t \in created : started[t] \/ Settled(t) \/ Queued(t)

\* Appending a newcomer puts everyone in front of it.
LEMMA AppendOrder ==
  ASSUME NEW q \in Seq(Transfer), NEW n \in Transfer, ~InQueue(q, n)
  PROVE  /\ \A t \in Transfer : InQueue(Append(q, n), t) <=> InQueue(q, t) \/ t = n
         /\ \A u, t \in Transfer :
              InFront(Append(q, n), u, t) <=>
                InFront(q, u, t) \/ (t = n /\ InQueue(q, u))
<1> DEFINE p == Append(q, n)
<1>1. /\ Len(p) = Len(q) + 1 /\ Len(q) \in Nat
      /\ \A i \in 1..Len(q) : p[i] = q[i]
      /\ p[Len(q) + 1] = n
  BY AppendProperties, LenProperties
<1> HIDE DEF p
<1>2. \A i : i \in 1..Len(p) <=> i \in 1..Len(q) \/ i = Len(q) + 1
  BY <1>1
<1>3. \A t \in Transfer : InQueue(p, t) <=> InQueue(q, t) \/ t = n
  BY <1>1, <1>2 DEF InQueue
<1>4. ASSUME NEW u \in Transfer, NEW t \in Transfer, InFront(p, u, t)
      PROVE  InFront(q, u, t) \/ (t = n /\ InQueue(q, u))
  <2>1. PICK i, j \in 1..Len(p) : i < j /\ p[i] = u /\ p[j] = t
    BY <1>4 DEF InFront
  <2>2. i \in 1..Len(q)
    BY <2>1, <1>1, <1>2
  <2>3. CASE j \in 1..Len(q)
    BY <2>1, <2>2, <2>3, <1>1 DEF InFront
  <2>4. CASE j = Len(q) + 1
    BY <2>1, <2>2, <2>4, <1>1 DEF InQueue
  <2>5. QED
    BY <2>3, <2>4, <1>2
<1>5. ASSUME NEW u \in Transfer, NEW t \in Transfer, InFront(q, u, t)
      PROVE  InFront(p, u, t)
  <2>1. PICK i, j \in 1..Len(q) : i < j /\ q[i] = u /\ q[j] = t
    BY <1>5 DEF InFront
  <2>2. QED
    BY <2>1, <1>1, <1>2 DEF InFront
<1>6. ASSUME NEW u \in Transfer, InQueue(q, u)
      PROVE  InFront(p, u, n)
  <2>1. PICK i \in 1..Len(q) : q[i] = u
    BY <1>6 DEF InQueue
  <2>2. i < Len(q) + 1 /\ i \in 1..Len(p) /\ Len(q) + 1 \in 1..Len(p)
    BY <1>1, <1>2
  <2>3. QED
    BY <2>1, <2>2, <1>1 DEF InFront
<1>7. QED
  BY <1>3, <1>4, <1>5, <1>6 DEF p

\* Taking the head away leaves the order of the others.
LEMMA TailOrder ==
  ASSUME NEW q \in Seq(Transfer), q # << >>, OnceEach(q)
  PROVE  /\ Head(q) \in Transfer /\ InQueue(q, Head(q))
         /\ \A t \in Transfer : InQueue(Tail(q), t) <=> InQueue(q, t) /\ t # Head(q)
         /\ \A u, t \in Transfer :
              InFront(Tail(q), u, t) <=> InFront(q, u, t) /\ u # Head(q)
         /\ \A u \in Transfer : ~InFront(q, u, Head(q))
<1> DEFINE p == Tail(q)
<1>1. /\ Len(p) = Len(q) - 1 /\ Len(q) \in Nat /\ 1 \in 1..Len(q)
      /\ \A i \in 1..Len(p) : p[i] = q[i + 1]
      /\ Head(q) = q[1] /\ Head(q) \in Transfer
  BY HeadTailProperties, LenProperties, EmptySeq
<1> HIDE DEF p
<1>2. /\ \A i \in 1..Len(p) : i + 1 \in 1..Len(q)
      /\ \A i \in 1..Len(q) : i = 1 \/ (i - 1 \in 1..Len(p) /\ p[i - 1] = q[i])
      /\ \A i \in 1..Len(q) : q[i] = Head(q) <=> i = 1
  BY <1>1 DEF OnceEach
<1>3. \A t \in Transfer : InQueue(p, t) <=> InQueue(q, t) /\ t # Head(q)
  BY <1>1, <1>2 DEF InQueue
<1>4. ASSUME NEW u \in Transfer, NEW t \in Transfer, InFront(p, u, t)
      PROVE  InFront(q, u, t) /\ u # Head(q)
  <2>1. PICK i, j \in 1..Len(p) : i < j /\ p[i] = u /\ p[j] = t
    BY <1>4 DEF InFront
  <2>2. /\ i + 1 \in 1..Len(q) /\ j + 1 \in 1..Len(q) /\ i + 1 < j + 1 /\ i + 1 # 1
        /\ q[i + 1] = u /\ q[j + 1] = t
    BY <2>1, <1>1, <1>2
  <2>3. QED
    BY <2>2, <1>2 DEF InFront
<1>5. ASSUME NEW u \in Transfer, NEW t \in Transfer, InFront(q, u, t), u # Head(q)
      PROVE  InFront(p, u, t)
  <2>1. PICK i, j \in 1..Len(q) : i < j /\ q[i] = u /\ q[j] = t
    BY <1>5 DEF InFront
  <2>2. i # 1 /\ j # 1
    BY <2>1, <1>1, <1>2, <1>5
  <2>3. /\ i - 1 \in 1..Len(p) /\ j - 1 \in 1..Len(p) /\ i - 1 < j - 1
        /\ p[i - 1] = u /\ p[j - 1] = t
    BY <2>1, <2>2, <1>2
  <2>4. QED
    BY <2>3 DEF InFront
<1>6. ASSUME NEW u \in Transfer, InFront(q, u, Head(q))
      PROVE  FALSE
  <2>1. PICK i, j \in 1..Len(q) : i < j /\ q[i] = u /\ q[j] = Head(q)
    BY <1>6 DEF InFront
  <2>2. QED
    BY <2>1, <1>2
<1>7. QED
  BY <1>1, <1>3, <1>4, <1>5, <1>6 DEF p, InQueue

\* Whoever is in front is in the queue.
LEMMA FrontQueued ==
  ASSUME NEW q, NEW u, NEW t, InFront(q, u, t)
  PROVE  InQueue(q, u) /\ InQueue(q, t)
BY DEF InFront, InQueue

LEMMA WaitsStep == IInv /\ WaitsInQueue /\ [Next]_vars => WaitsInQueue'
<1> SUFFICES ASSUME IInv, WaitsInQueue, [Next]_vars PROVE WaitsInQueue'
  OBVIOUS
<1>T. TypeOK /\ QueueInv /\ LifeInv /\ BridgeInv
  BY DEF IInv
<1>W. \A t \in created : t \in Transfer /\ (started[t] \/ Settled(t) \/ InQueue(queue, t))
  BY <1>T DEF WaitsInQueue, Queued, InQueue, TypeOK
<1> SUFFICES \A t \in created' : started'[t] \/ outcome'[t] # "pending" \/ InQueue(queue', t)
  BY DEF WaitsInQueue, Queued, InQueue, Settled
<1>U. ASSUME UNCHANGED <<created, queue, outcome, started>>
      PROVE  \A t \in created' : started'[t] \/ outcome'[t] # "pending" \/ InQueue(queue', t)
  BY <1>U, <1>W DEF Settled
<1>1. ASSUME NEW t \in Transfer, NEW aborted \in BOOLEAN, Download(t, aborted)
      PROVE  \A u \in created' : started'[u] \/ outcome'[u] # "pending" \/ InQueue(queue', u)
  <2>1. t \notin created /\ ~InQueue(queue, t) /\ queue \in Seq(Transfer)
    BY <1>1, <1>T DEF Download, QueueInv, InQueue, TypeOK
  <2>2. /\ queue' = Append(queue, t) /\ created' = created \cup {t} /\ started' = started
        /\ \A u \in Transfer : u # t => outcome'[u] = outcome[u]
    BY <1>1, <1>T DEF Download, WireAbortSignal, EnqueueDownload, TypeOK
  <2>3. \A u \in Transfer : InQueue(queue', u) <=> InQueue(queue, u) \/ u = t
    BY <2>1, <2>2, AppendOrder
  <2>4. QED
    BY <2>2, <2>3, <1>W DEF Settled
<1>2. ASSUME NEW t \in Transfer, Cancel(t)
      PROVE  \A u \in created' : started'[u] \/ outcome'[u] # "pending" \/ InQueue(queue', u)
  BY <1>2, <1>W, <1>T DEF Cancel, Settled, TypeOK
<1>3. CASE PumpSkip
  <2>1. queue \in Seq(Transfer) /\ queue # << >> /\ OnceEach(queue)
    BY <1>3, <1>T DEF PumpSkip, TypeOK, QueueInv, OnceEach
  <2>2. \A u \in Transfer : InQueue(Tail(queue), u) <=> InQueue(queue, u) /\ u # Head(queue)
    BY <2>1, TailOrder
  <2>3. QED
    BY <1>3, <2>2, <1>W DEF PumpSkip, Settled
<1>4. ASSUME NEW t \in Transfer, BeginThrows(t) \/ BeginRefused(t) \/ BeginSpawns(t)
      PROVE  \A u \in created' : started'[u] \/ outcome'[u] # "pending" \/ InQueue(queue', u)
  <2>1. /\ queue # << >> /\ Head(queue) = t /\ queue' = Tail(queue)
        /\ started' = [started EXCEPT ![t] = TRUE] /\ created' = created
        /\ outcome' = outcome \/ outcome' = [outcome EXCEPT ![t] = "failed"]
    BY <1>4 DEF BeginThrows, BeginRefused, BeginSpawns, TakeSlot
  <2>2. queue \in Seq(Transfer) /\ OnceEach(queue)
    BY <1>T DEF TypeOK, QueueInv, OnceEach
  <2>3. \A u \in Transfer : InQueue(Tail(queue), u) <=> InQueue(queue, u) /\ u # Head(queue)
    BY <2>1, <2>2, TailOrder
  <2>4. QED
    BY <2>1, <2>3, <1>W, <1>T DEF Settled, TypeOK
<1>5. CASE OnDone
  BY <1>5, <1>W, <1>T, HeadOfBridge DEF OnDone, TakeTask, Settle, Settled, TypeOK
<1>6. CASE OnClosed
  BY <1>6, <1>W, <1>T DEF OnClosed, Settled, TypeOK, Queued, InQueue
<1>7. CASE Close \/ CallReturns \/ PumpStops \/ OnStart \/ ShutdownCompletes
  BY <1>7, <1>U DEF Close, CallReturns, PumpStops, OnStart, ShutdownCompletes
<1>8. ASSUME NEW t \in Transfer, ReleaseSlot(t) \/ TaskLooksUp(t) \/ SelectCancel(t)
                \/ SelectJoin(t) \/ Complete(t)
      PROVE  \A u \in created' : started'[u] \/ outcome'[u] # "pending" \/ InQueue(queue', u)
  BY <1>8, <1>U DEF ReleaseSlot, TaskLooksUp, SelectCancel, SelectJoin, Complete, jsVars
<1>9. ASSUME NEW t \in Transfer, NEW r \in {"ok", "failed"}, TaskEnds(t, r)
      PROVE  \A u \in created' : started'[u] \/ outcome'[u] # "pending" \/ InQueue(queue', u)
  BY <1>9, <1>U DEF TaskEnds, jsVars
<1>10. CASE UNCHANGED vars
  BY <1>10, <1>U DEF vars
<1>11. QED
  BY <1>1, <1>2, <1>3, <1>4, <1>5, <1>6, <1>7, <1>8, <1>9, <1>10
  DEF Next, Application, JsThread, Native

\* The steps that move nothing the pool sees.
LEMMA PoolUntouched ==
  ASSUME UNCHANGED <<created, queue, outcome, started>>
  PROVE  UNCHANGED Pool!poolVars
BY DEF Pool!poolVars, Waiting, Ahead, Running, Result, Queued, Settled

\* What the mapped state says of each transfer, without its set constructors.
LEMMA PoolView ==
  /\ \A t \in Transfer : t \in Waiting <=> InQueue(queue, t) /\ ~Settled(t)
  /\ \A t \in Transfer : t \in Running <=> started[t] /\ ~Settled(t)
  /\ \A t \in Transfer :
       Ahead[t] = {u \in Waiting : t \in Waiting /\ InFront(queue, u, t)}
BY DEF Waiting, Running, Ahead, Queued, InQueue

\* The head of the queue leaves it, and if it was live, leaves the line.
LEMMA HeadLeaves ==
  ASSUME TypeOK, QueueInv, queue # << >>, queue' = Tail(queue),
         \A t \in Transfer : t # Head(queue) => outcome'[t] = outcome[t]
  PROVE  /\ Waiting' = Waiting \ {Head(queue)}
         /\ Ahead' = [t \in Transfer |->
                        IF t = Head(queue) THEN {} ELSE Ahead[t] \ {Head(queue)}]
         /\ Ahead[Head(queue)] = {}
<1> DEFINE h == Head(queue)
<1>1. queue \in Seq(Transfer) /\ OnceEach(queue)
  BY DEF TypeOK, QueueInv, OnceEach
<1>2. /\ h \in Transfer /\ InQueue(queue, h)
      /\ \A t \in Transfer : InQueue(queue', t) <=> InQueue(queue, t) /\ t # h
      /\ \A u, t \in Transfer : InFront(queue', u, t) <=> InFront(queue, u, t) /\ u # h
      /\ \A u \in Transfer : ~InFront(queue, u, h)
  BY <1>1, TailOrder
<1> HIDE DEF h
<1>3. \A t \in Transfer : t \in Waiting' <=> t \in Waiting /\ t # h
  BY <1>2 DEF Waiting, Queued, InQueue, Settled, h
<1>4. Waiting \subseteq Transfer /\ Waiting' \subseteq Transfer
  BY DEF Waiting
<1>5. Waiting' = Waiting \ {h}
  BY <1>3, <1>4
<1>6. ASSUME NEW t \in Transfer
      PROVE  {u \in Waiting' : t \in Waiting' /\ InFront(queue', u, t)}
               = IF t = h THEN {} ELSE {u \in Waiting : t \in Waiting /\ InFront(queue, u, t)} \ {h}
  BY <1>2, <1>4, <1>5
<1>7. Ahead' = [t \in Transfer |->
                  {u \in Waiting' : t \in Waiting' /\ InFront(queue', u, t)}]
  BY DEF Ahead
<1>8. \A t \in Transfer : Ahead[t] = {u \in Waiting : t \in Waiting /\ InFront(queue, u, t)}
  BY DEF Ahead
<1>9. Ahead' = [t \in Transfer |-> IF t = h THEN {} ELSE Ahead[t] \ {h}]
  BY <1>6, <1>7, <1>8
<1>10. Ahead[h] = {}
  BY <1>2, <1>4, <1>8
<1>11. QED
  BY <1>5, <1>9, <1>10 DEF h

\* A settled head was not in line to begin with.
LEMMA PoolSkips ==
  ASSUME TypeOK, QueueInv, PumpSkip
  PROVE  UNCHANGED Pool!poolVars
<1>1. /\ queue # << >> /\ queue' = Tail(queue) /\ Settled(Head(queue))
      /\ UNCHANGED <<created, outcome, started>>
  BY DEF PumpSkip
<1>2. /\ Waiting' = Waiting \ {Head(queue)}
      /\ Ahead' = [t \in Transfer |->
                     IF t = Head(queue) THEN {} ELSE Ahead[t] \ {Head(queue)}]
      /\ Ahead[Head(queue)] = {}
  BY <1>1, HeadLeaves
<1>3. Head(queue) \notin Waiting
  BY <1>1 DEF Waiting
<1>4. \A t \in Transfer : Ahead[t] \subseteq Waiting
  BY DEF Ahead
<1>5. Ahead = [t \in Transfer |-> Ahead[t]]
  BY DEF Ahead
<1>6. Waiting' = Waiting /\ Ahead' = Ahead
  BY <1>2, <1>3, <1>4, <1>5
<1>7. Running' = Running /\ Result' = Result
  BY <1>1 DEF Running, Result, Settled
<1>8. QED
  BY <1>6, <1>7 DEF Pool!poolVars

\* An iteration of the pump that takes a slot: the head is first in line and
\* fewer than MaxConcurrent transfers run.
LEMMA PoolAdmits ==
  ASSUME IInv, NEW t \in Transfer, TakeSlot(t), created' = created,
         \A u \in Transfer : u # t => outcome'[u] = outcome[u]
  PROVE  Pool!Admissible(t) /\ Pool!LeaveLine(t) /\ ~Settled(t) /\ t \in created
<1>T. TypeOK /\ QueueInv /\ SlotsAccounted
  BY DEF IInv
<1>1. /\ queue # << >> /\ queue' = Tail(queue) /\ Head(queue) = t /\ ~Settled(t)
      /\ active < MaxConcurrent
  BY DEF TakeSlot, SlotFree
<1>2. /\ Waiting' = Waiting \ {t}
      /\ Ahead' = [u \in Transfer |-> IF u = t THEN {} ELSE Ahead[u] \ {t}]
      /\ Ahead[t] = {}
  BY <1>1, <1>T, HeadLeaves
<1>3. InQueue(queue, t)
  <2>1. queue \in Seq(Transfer) /\ OnceEach(queue)
    BY <1>T DEF TypeOK, QueueInv, OnceEach
  <2>2. QED
    BY <2>1, <1>1, TailOrder
<1>4. t \in Waiting /\ t \in created
  BY <1>1, <1>3, <1>T DEF Waiting, Queued, InQueue, QueueInv
<1>5. Cardinality(Running) < MaxConcurrent
  <2>1. Running \in SUBSET Slots /\ Slots \in SUBSET Transfer
    BY DEF Running, Slots
  <2>2. Cardinality(Running) <= Cardinality(Slots) /\ Cardinality(Running) \in Nat
        /\ Cardinality(Slots) \in Nat
    BY <2>1, SlotsFinite, FS_Subset
  <2>3. QED
    BY <2>2, <1>1, <1>T, MaxConcurrentAssumption DEF SlotsAccounted
<1>6. Pool!Cardinality(Running) = Cardinality(Running)
  BY DEF Pool!Cardinality, Cardinality
<1>7. QED
  BY <1>1, <1>2, <1>4, <1>5, <1>6 DEF Pool!Admissible, Pool!LeaveLine

LEMMA PoolInitial == Init => Pool!PoolInit /\ WaitsInQueue
<1> SUFFICES ASSUME Init PROVE Pool!PoolInit /\ WaitsInQueue
  OBVIOUS
<1>1. Waiting = {} /\ Running = {}
  BY DEF Init, Waiting, Running, Queued
<1>2. Ahead = [t \in Transfer |-> {}] /\ Result = [t \in Transfer |-> "absent"]
  BY <1>1 DEF Init, Ahead, Result
<1>3. QED
  BY <1>1, <1>2 DEF Pool!PoolInit, Init, WaitsInQueue

\* A newcomer goes to the end of the line, or nowhere if its signal is aborted.
LEMMA PoolAccepts ==
  ASSUME IInv, NEW t \in Transfer, NEW aborted \in BOOLEAN, Download(t, aborted)
  PROVE  Pool!Submit(t) \/ Pool!SubmitCancelled(t)
<1>T. TypeOK /\ QueueInv /\ LifeInv
  BY DEF IInv
<1>1. t \notin created /\ ~InQueue(queue, t) /\ queue \in Seq(Transfer) /\ ~Settled(t)
      /\ ~started[t]
  BY <1>T DEF Download, QueueInv, InQueue, TypeOK, LifeInv
<1>2. /\ queue' = Append(queue, t) /\ created' = created \cup {t} /\ started' = started
      /\ outcome' = IF aborted THEN [outcome EXCEPT ![t] = "cancelled"] ELSE outcome
  BY DEF Download, WireAbortSignal, EnqueueDownload
<1>3. /\ \A u \in Transfer : InQueue(queue', u) <=> InQueue(queue, u) \/ u = t
      /\ \A u, v \in Transfer :
           InFront(queue', u, v) <=> InFront(queue, u, v) \/ (v = t /\ InQueue(queue, u))
  BY <1>1, <1>2, AppendOrder
<1>4. \A u \in Transfer : ~InFront(queue, u, t) /\ ~InFront(queue, t, u)
  BY <1>1, FrontQueued
<1>5. Result[t] = "absent" /\ DOMAIN Result = Transfer
  BY <1>1 DEF Result
<1>6. Running' = Running
  BY <1>1, <1>2, <1>T DEF Running, Settled, TypeOK
<1>7. \A u \in Transfer : /\ u \in Waiting <=> InQueue(queue, u) /\ outcome[u] = "pending"
                          /\ u \in Waiting' <=> InQueue(queue', u) /\ outcome'[u] = "pending"
  BY DEF Waiting, Queued, InQueue, Settled
<1>8. Waiting \subseteq Transfer /\ Waiting' \subseteq Transfer
  BY DEF Waiting
<1>9. Ahead' = [v \in Transfer |-> {u \in Waiting' : v \in Waiting' /\ InFront(queue', u, v)}]
  BY DEF Ahead
<1>10. \A v \in Transfer : Ahead[v] = {u \in Waiting : v \in Waiting /\ InFront(queue, u, v)}
  BY DEF Ahead
<1>11. Ahead = [v \in Transfer |-> Ahead[v]]
  BY DEF Ahead
<1>12. CASE aborted
  <2>1. outcome'[t] = "cancelled" /\ \A u \in Transfer : u # t => outcome'[u] = outcome[u]
    BY <1>2, <1>12, <1>T DEF TypeOK
  <2>2. Waiting' = Waiting
    BY <1>1, <1>3, <1>7, <1>8, <2>1
  <2>3. ASSUME NEW v \in Transfer
        PROVE  {u \in Waiting' : v \in Waiting' /\ InFront(queue', u, v)} = Ahead[v]
    BY <2>2, <1>1, <1>3, <1>7, <1>8, <1>10
  <2>4. Ahead' = Ahead
    BY <2>3, <1>9, <1>11
  <2>5. Result' = [Result EXCEPT ![t] = "cancelled"]
    BY <1>2, <2>1 DEF Result
  <2>6. QED
    BY <1>5, <1>6, <2>2, <2>4, <2>5 DEF Pool!SubmitCancelled
<1>13. CASE ~aborted
  <2>1. outcome' = outcome /\ outcome[t] = "pending"
    BY <1>1, <1>2, <1>13 DEF Settled
  <2>2. Waiting' = Waiting \cup {t}
    BY <1>3, <1>7, <1>8, <2>1
  <2>3. ASSUME NEW v \in Transfer
        PROVE  {u \in Waiting' : v \in Waiting' /\ InFront(queue', u, v)}
                 = IF v = t THEN Waiting ELSE Ahead[v]
    BY <2>1, <2>2, <1>1, <1>3, <1>4, <1>7, <1>8, <1>10
  <2>4. Ahead' = [Ahead EXCEPT ![t] = Waiting]
    BY <2>3, <1>9, <1>11
  <2>5. Result' = [Result EXCEPT ![t] = "pending"]
    BY <1>2, <2>1 DEF Result
  <2>6. QED
    BY <1>5, <1>6, <2>2, <2>4, <2>5 DEF Pool!Submit, Pool!JoinLine
<1>14. QED
  BY <1>12, <1>13

\* A cancel takes a waiting transfer out of the line and leaves a running one.
LEMMA PoolCancels ==
  ASSUME IInv, WaitsInQueue, NEW t \in Transfer, Cancel(t)
  PROVE  Pool!Leave(t) \/ UNCHANGED Pool!poolVars
<1>T. TypeOK
  BY DEF IInv
<1>1. UNCHANGED <<created, queue, started>> /\ t \in created /\ ~Settled(t)
  BY DEF Cancel
<1>2. CASE started[t]
  BY <1>1, <1>2, PoolUntouched DEF Cancel
<1>3. CASE ~started[t]
  <2>1. outcome' = [outcome EXCEPT ![t] = "cancelled"]
    BY <1>3 DEF Cancel
  <2>2. outcome'[t] = "cancelled" /\ \A u \in Transfer : u # t => outcome'[u] = outcome[u]
    BY <2>1, <1>T DEF TypeOK
  <2>3. t \in Waiting
    BY <1>1, <1>3 DEF WaitsInQueue, Waiting
  <2>4. Waiting' = Waiting \ {t}
    BY <1>1, <2>2 DEF Waiting, Queued, Settled
  <2>5. Running' = Running
    BY <1>1, <1>3, <2>2 DEF Running, Settled
  <2>6. Result' = [Result EXCEPT ![t] = "cancelled"]
    BY <1>1, <2>2 DEF Result
  <2>7. ASSUME NEW v \in Transfer
        PROVE  {u \in Waiting' : v \in Waiting' /\ InFront(queue, u, v)}
                 = IF v = t THEN {}
                   ELSE {u \in Waiting : v \in Waiting /\ InFront(queue, u, v)} \ {t}
    BY <2>4
  <2>8. Ahead' = [v \in Transfer |-> {u \in Waiting' : v \in Waiting' /\ InFront(queue, u, v)}]
    BY <1>1 DEF Ahead
  <2>9. Ahead' = [v \in Transfer |-> IF v = t THEN {} ELSE Ahead[v] \ {t}]
    BY <2>7, <2>8 DEF Ahead
  <2>10. QED
    BY <2>3, <2>4, <2>5, <2>6, <2>9 DEF Pool!Leave, Pool!LeaveLine
<1>4. QED
  BY <1>2, <1>3

\* Closing the endpoint settles everyone in the queue and empties it.
LEMMA PoolDismisses ==
  ASSUME IInv, OnClosed
  PROVE  Pool!DismissAll \/ UNCHANGED Pool!poolVars
<1>T. TypeOK /\ QueueInv /\ LifeInv
  BY DEF IInv
<1>1. /\ queue' = << >> /\ UNCHANGED <<created, started>>
      /\ outcome' = [t \in Transfer |->
                       IF Queued(t) /\ ~Settled(t) THEN "cancelled" ELSE outcome[t]]
  BY DEF OnClosed
<1>2. /\ \A t \in Transfer : outcome'[t] = IF t \in Waiting THEN "cancelled" ELSE outcome[t]
      /\ \A t \in Waiting : t \in Transfer /\ outcome[t] = "pending"
      /\ \A t \in Waiting : t \in created /\ ~started[t]
  BY <1>1, <1>T DEF Waiting, Queued, Settled, QueueInv
<1>3. Waiting' = {}
  BY <1>1 DEF Waiting, Queued
<1>4. Ahead' = [t \in Transfer |-> {}]
  BY <1>3 DEF Ahead
<1>5. Running' = Running
  BY <1>1, <1>2 DEF Running, Settled
<1>6. Result' = [t \in Transfer |-> IF t \in Waiting THEN "cancelled" ELSE Result[t]]
  BY <1>1, <1>2 DEF Result
<1>7. CASE Waiting = {}
  <2>1. Ahead = [t \in Transfer |-> {}]
    BY <1>7 DEF Ahead
  <2>2. Result' = Result
    BY <1>6, <1>7 DEF Result
  <2>3. QED
    BY <1>3, <1>4, <1>5, <1>7, <2>1, <2>2 DEF Pool!poolVars
<1>8. CASE Waiting # {}
  BY <1>3, <1>4, <1>5, <1>6, <1>8 DEF Pool!DismissAll
<1>9. QED
  BY <1>7, <1>8

\* The settlement of the downloadBlob promise settles a running transfer.
LEMMA PoolSettles ==
  ASSUME IInv, OnDone
  PROVE  \E t \in Transfer, r \in {"ok", "failed", "cancelled"} : Pool!Settle(t, r)
<1>T. TypeOK /\ QueueInv /\ LifeInv /\ BridgeInv
  BY DEF IInv
<1> DEFINE t == Head(bridge).transfer
           r == Head(bridge).result
<1>1. t \in Transfer /\ started[t] /\ ~Settled(t) /\ r \in Verdicts
  BY <1>T, HeadOfBridge DEF OnDone, TakeTask
<1>2. outcome' = [outcome EXCEPT ![t] = r] /\ UNCHANGED <<created, queue, started>>
  BY <1>1 DEF OnDone, Settle
<1> HIDE DEF t, r
<1>3. outcome'[t] = r /\ \A u \in Transfer : u # t => outcome'[u] = outcome[u]
  BY <1>1, <1>2, <1>T DEF TypeOK
<1>4. t \in Running /\ Running' = Running \ {t}
  BY <1>1, <1>2, <1>3 DEF Running, Settled, Verdicts
<1>5. t \in created /\ Result' = [Result EXCEPT ![t] = r]
  BY <1>1, <1>2, <1>3, <1>T DEF Result, LifeInv
<1>6. t \notin Waiting
  BY <1>1, <1>T DEF Waiting, Queued, QueueInv
<1>7. Waiting' = Waiting
  BY <1>1, <1>2, <1>3, <1>T DEF QueueInv, Waiting, Queued, Settled
<1>8. Ahead' = Ahead
  BY <1>2, <1>7 DEF Ahead
<1>9. QED
  BY <1>1, <1>4, <1>5, <1>7, <1>8 DEF Pool!Settle, Verdicts

\* Every step of the code is a step of the pool, or invisible to it.
LEMMA PoolStep == IInv /\ WaitsInQueue /\ [Next]_vars => [Pool!PoolNext]_Pool!poolVars
<1> SUFFICES ASSUME IInv, WaitsInQueue, [Next]_vars
             PROVE  Pool!PoolNext \/ UNCHANGED Pool!poolVars
  OBVIOUS
<1>T. TypeOK /\ QueueInv /\ LifeInv /\ BridgeInv
  BY DEF IInv
<1>1. ASSUME NEW t \in Transfer, NEW aborted \in BOOLEAN, Download(t, aborted)
      PROVE  Pool!PoolNext
  BY <1>1, PoolAccepts DEF Pool!PoolNext
<1>2. ASSUME NEW t \in Transfer, Cancel(t)
      PROVE  Pool!PoolNext \/ UNCHANGED Pool!poolVars
  BY <1>2, PoolCancels DEF Pool!PoolNext
<1>3. CASE PumpSkip
  BY <1>3, <1>T, PoolSkips
<1>4. ASSUME NEW t \in Transfer, BeginThrows(t)
      PROVE  Pool!FailToStart(t)
  <2>1. /\ TakeSlot(t) /\ created' = created /\ outcome' = [outcome EXCEPT ![t] = "failed"]
        /\ started' = [started EXCEPT ![t] = TRUE]
    BY <1>4 DEF BeginThrows, TakeSlot
  <2>2. outcome'[t] = "failed" /\ \A u \in Transfer : u # t => outcome'[u] = outcome[u]
    BY <2>1, <1>T DEF TypeOK
  <2>3. Pool!Admissible(t) /\ Pool!LeaveLine(t) /\ ~Settled(t) /\ t \in created
    BY <2>1, <2>2, PoolAdmits
  <2>4. t \notin Running /\ Running' = Running
    BY <2>1, <2>2, <2>3, <1>T, HeadIsFresh DEF Running, Settled, TypeOK, TakeSlot
  <2>5. Result' = [Result EXCEPT ![t] = "failed"]
    BY <2>1, <2>2, <2>3 DEF Result
  <2>6. QED
    BY <2>3, <2>4, <2>5 DEF Pool!FailToStart
<1>5. ASSUME NEW t \in Transfer, BeginRefused(t) \/ BeginSpawns(t)
      PROVE  Pool!Start(t)
  <2>1. /\ TakeSlot(t) /\ created' = created /\ outcome' = outcome
        /\ started' = [started EXCEPT ![t] = TRUE]
    BY <1>5 DEF BeginRefused, BeginSpawns, TakeSlot
  <2>2. Pool!Admissible(t) /\ Pool!LeaveLine(t) /\ ~Settled(t) /\ t \in created
    BY <2>1, PoolAdmits
  <2>3. Running' = Running \cup {t}
    BY <2>1, <2>2, <1>T DEF Running, Settled, TypeOK
  <2>4. Result' = Result
    BY <2>1 DEF Result
  <2>5. QED
    BY <2>2, <2>3, <2>4 DEF Pool!Start
<1>6. CASE OnDone
  BY <1>6, PoolSettles DEF Pool!PoolNext
<1>7. CASE OnClosed
  BY <1>7, PoolDismisses DEF Pool!PoolNext
<1>8. CASE Close \/ CallReturns \/ PumpStops \/ OnStart \/ ShutdownCompletes
  BY <1>8, PoolUntouched DEF Close, CallReturns, PumpStops, OnStart, ShutdownCompletes
<1>9. ASSUME NEW t \in Transfer, ReleaseSlot(t) \/ TaskLooksUp(t) \/ SelectCancel(t)
                \/ SelectJoin(t) \/ Complete(t)
      PROVE  UNCHANGED Pool!poolVars
  BY <1>9, PoolUntouched DEF ReleaseSlot, TaskLooksUp, SelectCancel, SelectJoin, Complete, jsVars
<1>10. ASSUME NEW t \in Transfer, NEW r \in {"ok", "failed"}, TaskEnds(t, r)
       PROVE  UNCHANGED Pool!poolVars
  BY <1>10, PoolUntouched DEF TaskEnds, jsVars
<1>11. CASE UNCHANGED vars
  BY <1>11, PoolUntouched DEF vars
<1>12. ASSUME NEW t \in Transfer, BeginThrows(t) \/ BeginRefused(t) \/ BeginSpawns(t)
       PROVE  Pool!PoolNext
  BY <1>12, <1>4, <1>5 DEF Pool!PoolNext
<1>13. QED
  BY <1>1, <1>2, <1>3, <1>6, <1>7, <1>8, <1>9, <1>10, <1>11, <1>12
  DEF Next, Application, JsThread, Native

\* The refinement (endpoint.ts:929-940 and 983-1001, transfer.ts:34-66), for any
\* set of transfers and any limit: transfers start in the order they were
\* created, at most MaxConcurrent run, one that waits leaves on cancel or close
\* without ever running, and an outcome never changes.
THEOREM PoolImplemented == Spec => ImplementsPool
<1>1. Init => Pool!PoolInit /\ WaitsInQueue
  BY PoolInitial
<1>2. IInv /\ WaitsInQueue /\ [Next]_vars => WaitsInQueue'
  BY WaitsStep
<1>3. IInv /\ WaitsInQueue /\ [Next]_vars => [Pool!PoolNext]_Pool!poolVars
  BY PoolStep
<1>4. QED
  BY <1>1, <1>2, <1>3, Inductive, PTL DEF Spec, ImplementsPool, Pool!PoolSpec
-------------------------------------------------------------------------------
(* Collections.  A step of the collection may cancel several transfers at    *)
(* once, which no step of a download does; all it needs of them is that they *)
(* keep what they settled on and that nobody takes a cancel back.            *)

\* What the collection reads of a download has its type, and so has what that
\* comes from.
TransfersTyped ==
  /\ created \subseteq Transfer
  /\ cancelRequested \in [Transfer -> BOOLEAN]
  /\ outcome \in [Transfer -> Outcomes]
  /\ inCall \in Transfer \cup {None}
  /\ bridge \in Seq(Tasks)
  /\ task \in [Transfer -> {"none", "spawned", "fetching", "ok", "failed",
                            "aborted", "completed"}]
  /\ verdict \in [Transfer -> Verdicts \cup {None}]

\* How far the collection is says what there can be of it.
CollectionStages ==
  /\ manifest \in {"fetching", "ok", "failed"} => collection = "manifest"
  /\ collection \in {"none", "manifest", "over"} => children = {}
  /\ due \cup fileDone \subseteq children
  /\ entries # {} => collection = "starting"
  /\ collection = "starting" \/ (collection = "manifest" /\ ~collCancelled) =>
       ~CollSettled
  /\ collection = "none" => ~collCancelled /\ ~CollSettled

\* Its verdict comes from its children.
CollectionVerdict ==
  /\ \A t \in fileDone : outcome[t] = "ok"
  /\ collOutcome = "ok" => collection = "started" /\ children \subseteq fileDone
  /\ collOutcome \in {"failed", "cancelled"} =>
       \A t \in children : Settled(t) \/ cancelRequested[t]

CollectionInv ==
  /\ TransfersTyped
  /\ CollectionTypeOK
  /\ CollectionStages
  /\ CollectionVerdict

\* What a step never takes back.
Kept ==
  /\ created \subseteq created'
  /\ \A t \in created :
       /\ Settled(t) => outcome'[t] = outcome[t]
       /\ cancelRequested[t] => cancelRequested'[t]

\* No step of a download takes back an outcome or a cancel.
LEMMA DownloadKeeps ==
  ASSUME TransfersTyped, Next
  PROVE  TransfersTyped' /\ Kept
<1>. USE DEF TransfersTyped, Kept, Settled
<1>1. ASSUME NEW t \in Transfer, NEW aborted \in BOOLEAN, Download(t, aborted)
      PROVE  TransfersTyped' /\ Kept
  <2>1. "cancelled" \in Outcomes
    BY DEF Outcomes, Verdicts
  <2>. QED
    BY <1>1, <2>1 DEF Download, WireAbortSignal, EnqueueDownload, nativeVars
<1>2. ASSUME NEW t \in Transfer, Cancel(t)
      PROVE  TransfersTyped' /\ Kept
  <2>1. "cancelled" \in Outcomes
    BY DEF Outcomes, Verdicts
  <2>. QED
    BY <1>2, <2>1 DEF Cancel
<1>3. CASE Close
  BY <1>3 DEF Close
<1>4. ASSUME NEW t \in Transfer, BeginThrows(t)
      PROVE  TransfersTyped' /\ Kept
  <2>1. "failed" \in Outcomes
    BY DEF Outcomes, Verdicts
  <2>. QED
    BY <1>4, <2>1 DEF BeginThrows, TakeSlot, nativeVars
<1>5. ASSUME NEW t \in Transfer, BeginRefused(t)
      PROVE  TransfersTyped' /\ Kept
  <2>1. DoneTask(t, "failed") \in Tasks
    BY TasksType DEF Verdicts
  <2>. QED
    BY <1>5, <2>1 DEF BeginRefused, nativeVars
<1>6. ASSUME NEW t \in Transfer, BeginSpawns(t)
      PROVE  TransfersTyped' /\ Kept
  BY <1>6 DEF BeginSpawns
<1>7. CASE CallReturns
  <2>1. StartTask(inCall) \in Tasks
    BY <1>7, TasksType DEF CallReturns
  <2>. QED
    BY <1>7, <2>1 DEF CallReturns, nativeVars
<1>8. CASE PumpSkip \/ PumpStops \/ \E t \in Transfer : ReleaseSlot(t)
  BY <1>8 DEF PumpSkip, PumpStops, ReleaseSlot, nativeVars
<1>9. CASE OnStart
  <2>1. bridge' \in Seq(Tasks)
    BY <1>9 DEF OnStart, TakeTask
  <2>. QED
    BY <1>9, <2>1 DEF OnStart
<1>10. CASE OnDone
  <2>. DEFINE t == Head(bridge).transfer
              r == Head(bridge).result
  <2>1. bridge' \in Seq(Tasks) /\ Head(bridge) \in Tasks /\ Head(bridge).type = "done"
    BY <1>10 DEF OnDone, TakeTask
  <2>2. t \in Transfer /\ r \in Outcomes
    BY <2>1, TaskFields DEF Outcomes
  <2>3. /\ outcome' = [outcome EXCEPT ![t] = IF Settled(t) THEN @ ELSE r]
        /\ UNCHANGED <<created, cancelRequested, inCall, task, verdict>>
    BY <1>10 DEF OnDone, Settle, nativeVars
  <2>. HIDE DEF t, r
  <2>. QED
    BY <2>1, <2>2, <2>3
<1>11. CASE OnClosed
  <2>1. bridge' \in Seq(Tasks) /\ "cancelled" \in Outcomes
    BY <1>11 DEF OnClosed, TakeTask, Outcomes, Verdicts
  <2>2. /\ cancelRequested' = [t \in Transfer |->
                                 cancelRequested[t] \/ (Queued(t) /\ ~Settled(t))]
        /\ outcome' = [t \in Transfer |->
                         IF Queued(t) /\ ~Settled(t) THEN "cancelled" ELSE outcome[t]]
        /\ UNCHANGED <<created, inCall, task, verdict>>
    BY <1>11 DEF OnClosed, nativeVars
  <2>3. \A t \in Transfer : Queued(t) \in BOOLEAN
    BY DEF Queued
  <2>. HIDE DEF Settled
  <2>4. cancelRequested' \in [Transfer -> BOOLEAN] /\ outcome' \in [Transfer -> Outcomes]
    BY <2>1, <2>2, <2>3 DEF Settled
  <2>. QED
    BY <2>1, <2>2, <2>4
<1>12. ASSUME NEW t \in Transfer, TaskLooksUp(t) \/ SelectCancel(t)
                                  \/ \E r \in {"ok", "failed"} : TaskEnds(t, r)
       PROVE  TransfersTyped' /\ Kept
  BY <1>12 DEF TaskLooksUp, SelectCancel, TaskEnds, jsVars, Verdicts
<1>13. ASSUME NEW t \in Transfer, SelectJoin(t)
       PROVE  TransfersTyped' /\ Kept
  BY <1>13 DEF SelectJoin, jsVars, Verdicts
<1>14. ASSUME NEW t \in Transfer, Complete(t)
       PROVE  TransfersTyped' /\ Kept
  <2>1. DoneTask(t, verdict[t]) \in Tasks
    BY <1>14, TasksType DEF Complete
  <2>. QED
    BY <1>14, <2>1 DEF Complete, jsVars
<1>15. CASE ShutdownCompletes
  <2>1. ClosedTask \in Tasks
    BY TasksType
  <2>. QED
    BY <1>15, <2>1 DEF ShutdownCompletes, nativeVars
<1>. QED
  BY <1>1, <1>2, <1>3, <1>4, <1>5, <1>6, <1>7, <1>8, <1>9, <1>10, <1>11, <1>12, <1>13,
     <1>14, <1>15 DEF Next, Application, JsThread, Native

\* Nor does cancelling several.
LEMMA CancelAllKeeps ==
  ASSUME TransfersTyped, NEW set \in SUBSET created, CancelAll(set)
  PROVE  /\ TransfersTyped' /\ Kept
         /\ \A t \in set : Settled(t)' \/ cancelRequested'[t]
<1>. DEFINE live == {t \in set : ~Settled(t)}
<1>1. /\ cancelRequested' = [t \in Transfer |-> cancelRequested[t] \/ t \in live]
      /\ outcome' = [t \in Transfer |-> IF t \in live /\ ~started[t] THEN "cancelled"
                                        ELSE outcome[t]]
      /\ UNCHANGED <<created, inCall, bridge, task, verdict>>
  BY DEF CancelAll
<1>2. \A t \in Transfer : t \in live <=> t \in set /\ ~Settled(t)
  OBVIOUS
<1>. HIDE DEF live
<1>3. "cancelled" \in Outcomes
  BY DEF Outcomes, Verdicts
<1>4. cancelRequested' \in [Transfer -> BOOLEAN] /\ outcome' \in [Transfer -> Outcomes]
  BY <1>1, <1>3 DEF TransfersTyped
<1>5. TransfersTyped'
  BY <1>1, <1>4 DEF TransfersTyped
<1>6. Kept
  BY <1>1, <1>2 DEF Kept, TransfersTyped
<1>7. ASSUME NEW t \in set
      PROVE  Settled(t)' \/ cancelRequested'[t]
  <2>0. t \in created /\ t \in Transfer
    BY DEF TransfersTyped
  <2>1. CASE t \in live
    BY <1>1, <2>0, <2>1
  <2>2. CASE Settled(t)
    BY <1>6, <2>0, <2>2 DEF Kept, Settled
  <2>. QED
    BY <1>2, <2>0, <2>1, <2>2
<1>. QED
  BY <1>5, <1>6, <1>7

\* A step of a download that leaves the collection alone.
LEMMA DownloadsStepKeeps ==
  ASSUME CollectionInv, Next, DueGrows,
         UNCHANGED <<collection, manifest, entries, children, fileDone, collCancelled,
                     collOutcome>>
  PROVE  CollectionInv'
<1>1. TransfersTyped' /\ Kept
  BY DownloadKeeps DEF CollectionInv
<1>2. CollectionTypeOK'
  <2>1. children \subseteq created' \cap Children
    BY <1>1 DEF Kept, CollectionInv, CollectionTypeOK
  <2>2. due' \subseteq Children
    BY <2>1 DEF DueGrows, SettlesNow, CollectionInv, CollectionTypeOK
  <2>. QED
    BY <2>1, <2>2 DEF CollectionInv, CollectionTypeOK
<1>3. CollectionStages'
  <2>1. due' \subseteq children
    BY DEF DueGrows, SettlesNow, CollectionInv, CollectionStages
  <2>. QED
    BY <2>1 DEF CollectionInv, CollectionStages, CollSettled
<1>4. children \subseteq created /\ fileDone \subseteq created
  BY DEF CollectionInv, CollectionTypeOK, CollectionStages
<1>5. \A t \in fileDone : outcome'[t] = "ok"
  BY <1>1, <1>4 DEF Kept, Settled, CollectionInv, CollectionVerdict
<1>6. ASSUME collOutcome \in {"failed", "cancelled"}, NEW t \in children
      PROVE  Settled(t)' \/ cancelRequested'[t]
  BY <1>1, <1>4, <1>6 DEF Kept, Settled, CollectionInv, CollectionVerdict
<1>7. CollectionVerdict'
  BY <1>5, <1>6 DEF CollectionInv, CollectionVerdict
<1>. QED
  BY <1>1, <1>2, <1>3, <1>7 DEF CollectionInv

\* A step of the collection that leaves the downloads alone.
LEMMA UnchangedKeeps ==
  ASSUME TransfersTyped, UNCHANGED vars
  PROVE  TransfersTyped' /\ Kept
BY DEF TransfersTyped, Kept, vars

LEMMA CollectionInvInit == CollectionInit => CollectionInv
<1>. SUFFICES ASSUME CollectionInit PROVE CollectionInv
  OBVIOUS
<1>1. TransfersTyped
  <2>1. FALSE \in BOOLEAN /\ "pending" \in Outcomes /\ << >> \in Seq(Tasks)
    BY DEF Outcomes
  <2>. QED
    BY <2>1 DEF CollectionInit, Init, TransfersTyped
<1>2. CollectionTypeOK /\ CollectionStages /\ CollectionVerdict
  BY DEF CollectionInit, CollectionTypeOK, CollectionStages, CollectionVerdict, CollSettled,
     Outcomes
<1>. QED
  BY <1>1, <1>2 DEF CollectionInv

LEMMA CollectionInvStep ==
  ASSUME CollectionInv, [CollectionNext]_allVars
  PROVE  CollectionInv'
<1>. USE DEF CollectionInv
<1>0. /\ children \subseteq created /\ fileDone \subseteq created
      /\ children \subseteq Transfer
  BY ChildrenAssumption DEF CollectionTypeOK, CollectionStages
<1>1. CASE \/ DownloadsStep(Pumping) \/ DownloadsStep(LoopIdle /\ TasksAndReleases)
           \/ DownloadsStep(LoopIdle /\ Alone) \/ DownloadsStep(Native)
  <2>1. Pumping \/ TasksAndReleases \/ Alone \/ Native => Next
    BY DEF Pumping, TasksAndReleases, Alone, Next, Application, JsThread
  <2>. QED
    BY <1>1, <2>1, DownloadsStepKeeps DEF DownloadsStep
<1>V. ASSUME UNCHANGED vars
      PROVE  TransfersTyped' /\ Kept /\ created' = created /\ outcome' = outcome
             /\ cancelRequested' = cancelRequested
  BY <1>V, UnchangedKeeps DEF vars
<1>2. CASE DownloadCollection
  BY <1>2, <1>V DEF DownloadCollection, CollectionTypeOK, CollectionStages,
     CollectionVerdict, CollSettled, Settled
<1>3. ASSUME NEW result \in {"ok", "failed"}, collection_manifest(result)
      PROVE  CollectionInv'
  BY <1>3, <1>V DEF collection_manifest, CollectionTypeOK, CollectionStages,
     CollectionVerdict, CollSettled, Settled
<1>4. CASE ManifestUnused
  BY <1>4, <1>V DEF ManifestUnused, TakeManifest, CollectionTypeOK, CollectionStages,
     CollectionVerdict, CollSettled, Settled, Outcomes, Verdicts
<1>5. ASSUME NEW names \in SUBSET Children, ManifestRead(names)
      PROVE  CollectionInv'
  BY <1>5, <1>V DEF ManifestRead, TakeManifest, CollectionTypeOK, CollectionStages,
     CollectionVerdict, CollSettled, Settled
<1>6. ASSUME NEW t \in Children, StartChild(t)
      PROVE  CollectionInv'
  <2>1. t \in Transfer /\ Download(t, FALSE)
    BY <1>6, ChildrenAssumption DEF StartChild
  <2>2. TransfersTyped' /\ Kept
    BY <2>1, DownloadKeeps DEF Next, Application
  <2>3. /\ created' = created \cup {t} /\ children' = children \cup {t}
        /\ entries' = entries \ {t}
        /\ UNCHANGED <<collection, manifest, fileDone, collCancelled, collOutcome, outcome>>
        /\ collection = "starting"
    BY <1>6, <2>1 DEF StartChild, Download, WireAbortSignal
  <2>4. collOutcome = "pending"
    BY <2>3 DEF CollectionStages, CollSettled
  <2>5. CollectionTypeOK'
    BY <1>6, <2>3 DEF StartChild, DueGrows, SettlesNow, CollectionTypeOK
  <2>6. CollectionStages' /\ CollectionVerdict'
    BY <1>6, <2>3, <2>4 DEF StartChild, DueGrows, SettlesNow, CollectionStages,
       CollectionVerdict, CollSettled
  <2>. QED
    BY <2>2, <2>5, <2>6
<1>7. CASE LoopEnds
  <2>1. /\ collection = "starting" /\ collection' = "started" /\ entries = {}
        /\ collOutcome' = IF ~CollSettled /\ children \subseteq fileDone
                          THEN "ok" ELSE collOutcome
        /\ UNCHANGED <<vars, manifest, entries, children, fileDone, due, collCancelled>>
    BY <1>7 DEF LoopEnds, CheckAllDone
  <2>2. collOutcome = "pending"
    BY <2>1 DEF CollectionStages, CollSettled
  <2>. QED
    BY <1>V, <2>1, <2>2 DEF CollectionTypeOK, CollectionStages, CollectionVerdict, CollSettled,
       Settled, Outcomes, Verdicts
<1>8. ASSUME NEW t \in Children, OnChildError(t)
      PROVE  CollectionInv'
  <2>. DEFINE set == IF CollSettled THEN {} ELSE children
  <2>1. /\ CancelAll(set) /\ set \in SUBSET created
        /\ collOutcome' = IF CollSettled THEN collOutcome ELSE outcome[t]
        /\ outcome[t] # "ok" /\ collection # "starting" /\ t \in Transfer
        /\ due' = (due \ {t}) \cup {s \in children : ~Settled(s) /\ outcome'[s] # "pending"}
        /\ UNCHANGED <<collection, manifest, entries, children, fileDone, collCancelled>>
    BY <1>0, <1>8, ChildrenAssumption DEF OnChildError, LoopIdle
  <2>2. ~CollSettled => set = children
    OBVIOUS
  <2>. HIDE DEF set
  <2>3. /\ TransfersTyped' /\ Kept
        /\ \A s \in set : Settled(s)' \/ cancelRequested'[s]
    BY <2>1, CancelAllKeeps
  <2>4. CollectionTypeOK'
    BY <2>1, <2>3 DEF Kept, TransfersTyped, CollectionTypeOK
  <2>5. CollectionStages'
    <3>1. due' \subseteq children
      BY <2>1 DEF CollectionStages
    <3>2. collection = "manifest" => children = {}
      BY DEF CollectionStages
    <3>3. t \in children
      BY <1>8 DEF OnChildError, CollectionStages
    <3>. QED
      BY <2>1, <3>1, <3>2, <3>3 DEF CollectionStages, CollSettled
  <2>6. CollectionVerdict'
    <3>1. \A s \in fileDone : outcome'[s] = "ok"
      BY <1>0, <2>3 DEF Kept, Settled, CollectionVerdict
    <3>2. CASE CollSettled
      BY <1>0, <2>1, <2>3, <3>1, <3>2 DEF Kept, Settled, CollectionVerdict
    <3>3. CASE ~CollSettled
      BY <2>1, <2>2, <2>3, <3>1, <3>3 DEF CollectionVerdict
    <3>. QED
      BY <3>2, <3>3
  <2>. QED
    BY <2>3, <2>4, <2>5, <2>6
<1>9. ASSUME NEW t \in Children, OnChildDone(t)
      PROVE  CollectionInv'
  <2>1. /\ fileDone' = fileDone \cup {t} /\ outcome[t] = "ok" /\ due' = due \ {t}
        /\ collOutcome' = IF ~CollSettled /\ collection = "started" /\ children \subseteq fileDone'
                          THEN "ok" ELSE collOutcome
        /\ UNCHANGED <<vars, collection, manifest, entries, children, collCancelled>>
        /\ collection # "starting" /\ t \in due
    BY <1>9 DEF OnChildDone, CheckAllDone, LoopIdle
  <2>2. CollectionTypeOK'
    BY <1>V, <2>1 DEF CollectionTypeOK, Outcomes, Verdicts
  <2>3. CollectionStages'
    BY <2>1 DEF CollectionStages, CollSettled
  <2>4. CollectionVerdict'
    BY <1>V, <2>1 DEF CollectionVerdict, CollSettled, Settled
  <2>. QED
    BY <1>V, <2>1, <2>2, <2>3, <2>4
<1>10. CASE CollectionCancel
  <2>1. /\ CancelAll(children) /\ collection # "starting" /\ collection # "none" /\ ~CollSettled
        /\ collCancelled' = TRUE
        /\ collOutcome' = IF collection # "started" THEN "cancelled" ELSE collOutcome
        /\ UNCHANGED <<collection, manifest, entries, children, fileDone>>
        /\ DueGrows
    BY <1>10 DEF CollectionCancel, LoopIdle
  <2>2. /\ TransfersTyped' /\ Kept
        /\ \A s \in children : Settled(s)' \/ cancelRequested'[s]
    BY <1>0, <2>1, CancelAllKeeps
  <2>3. CollectionTypeOK'
    <3>1. due' \subseteq Children
      BY <2>1 DEF DueGrows, SettlesNow, CollectionTypeOK
    <3>2. collOutcome' \in Outcomes
      BY <2>1 DEF CollectionTypeOK, Outcomes, Verdicts
    <3>. QED
      BY <2>1, <2>2, <3>1, <3>2 DEF Kept, CollectionTypeOK
  <2>4. CollectionStages'
    <3>1. due' \subseteq children
      BY <2>1 DEF DueGrows, SettlesNow, CollectionStages
    <3>. QED
      BY <2>1, <3>1 DEF CollectionStages, CollSettled
  <2>5. CollectionVerdict'
    BY <1>0, <2>1, <2>2 DEF Kept, Settled, CollectionVerdict, CollSettled
  <2>. QED
    BY <2>2, <2>3, <2>4, <2>5
<1>11. CASE UNCHANGED allVars
  <2>1. UNCHANGED <<vars, collVars>>
    BY <1>11 DEF allVars
  <2>. QED
    BY <1>V, <2>1 DEF collVars, CollectionTypeOK, CollectionStages, CollectionVerdict,
       CollSettled, Settled
<1>. QED
  BY <1>1, <1>2, <1>3, <1>4, <1>5, <1>6, <1>7, <1>8, <1>9, <1>10, <1>11
  DEF CollectionNext, CollectionJs, Continuations

(* A collection resolves only when every file is there, and once it has      *)
(* failed no child of it goes on untold, for any set of children.            *)
THEOREM ChildrenTold == CollectionSpec => []NoOrphans
<1>1. CollectionInv => NoOrphans
  BY DEF CollectionInv, CollectionTypeOK, CollectionStages, CollectionVerdict, NoOrphans,
     CollSettled
<1>. QED
  BY <1>1, CollectionInvInit, CollectionInvStep, PTL DEF CollectionSpec
===============================================================================
