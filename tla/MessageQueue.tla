----------------------------- MODULE MessageQueue -----------------------------
(***************************************************************************)
(* MessageQueue of src/src/message-queue.ts with the WaiterQueue of        *)
(* src/src/waiter-queue.ts inside it: a bounded FIFO that native callbacks *)
(* push into and any number of `for await` loops take from.                *)
(*                                                                         *)
(* Every operation is synchronous on the JavaScript thread, so each is one *)
(* step, the hooks it calls included.  Values are numbered in the order    *)
(* they are pushed and calls of next() in the order they are made.         *)
(***************************************************************************)
EXTENDS Naturals, Sequences, FiniteSets, Functions

CONSTANTS Capacity,   \* the capacity after clamping
          FatalLag,   \* onLagged closes the queue with an error, as a Stream's does
          MaxPush,    \* bound: pushes
          MaxNext     \* bound: calls of next()

ASSUME CapacityAssumption == Capacity \in Nat \ {0}
ASSUME FatalLagAssumption == FatalLag \in BOOLEAN
ASSUME BoundsAssumption == MaxPush \in Nat /\ MaxNext \in Nat

VARIABLES buffer,          \* MessageQueue.buffer
          waiters,         \* WaiterQueue.waiters: the calls that are parked
          terminal,        \* WaiterQueue.terminal: "open", "done" or "error"
          errorDelivered,  \* WaiterQueue.errorDelivered
          droppedCount,    \* MessageQueue.droppedCount
          pushes,          \* the values pushed so far are 1..pushes
          accepted,        \* those pushed while the queue was open are 1..accepted
          nexts,           \* the calls made so far are 1..nexts
          result,          \* what each call of next() was answered
          discarded        \* the values handed to onDropped

queueVars == <<buffer, waiters, terminal, errorDelivered, droppedCount, pushes,
               accepted, nexts, result, discarded>>

Values == 1..MaxPush
Calls  == 1..MaxNext

NotCalled == [type |-> "none", value |-> 0]
Parked    == [type |-> "parked", value |-> 0]
Done      == [type |-> "done", value |-> 0]
Error     == [type |-> "error", value |-> 0]
Value(v)  == [type |-> "value", value |-> v]
Answers   == {NotCalled, Parked, Done, Error} \cup {Value(v) : v \in Values}

isClosed == terminal # "open"
-------------------------------------------------------------------------------
(* The parts of WaiterQueue.                                                 *)

\* Mutant: every parked consumer is rejected.
SettledRejectsAll(end) ==
  [c \in Calls |-> IF c \in Range(waiters) THEN (IF end = "error" THEN Error ELSE Done)
                   ELSE result[c]]

\* settle: the first parked consumer gets the error, the others end.
Settled(end) ==
  [c \in Calls |->
     IF c \notin Range(waiters) THEN result[c]
     ELSE IF end = "error" /\ c = Head(waiters) THEN Error ELSE Done]

\* settledResult: what a late call is told.
LateAnswer == IF terminal = "error" /\ ~errorDelivered THEN Error ELSE Done

\* Terminating with the values of `left` still buffered.
CloseDiscarding(end, left) ==
  /\ terminal' = end
  /\ discarded' = discarded \cup Range(left)
  /\ buffer' = << >>
  /\ result' = Settled(end)
  /\ errorDelivered' = (errorDelivered \/ (end = "error" /\ waiters # << >>))
  /\ waiters' = << >>
-------------------------------------------------------------------------------
\* push on a closed queue: a no-op, the hook included.
PushIgnored ==
  /\ pushes < MaxPush
  /\ isClosed
  /\ pushes' = pushes + 1
  /\ UNCHANGED <<buffer, waiters, terminal, errorDelivered, droppedCount, accepted,
                 nexts, result, discarded>>

Accept ==
  /\ pushes < MaxPush
  /\ ~isClosed
  /\ pushes' = pushes + 1
  /\ accepted' = pushes + 1

\* Mutant: the newest waiter is served.
PushHandsOffNewest ==
  /\ Accept
  /\ waiters # << >>
  /\ result' = [result EXCEPT ![waiters[Len(waiters)]] = Value(pushes + 1)]
  /\ waiters' = SubSeq(waiters, 1, Len(waiters) - 1)
  /\ UNCHANGED <<buffer, terminal, errorDelivered, droppedCount, nexts, discarded>>

\* push with a consumer parked: the oldest one takes the value.
PushHandsOff ==
  /\ Accept
  /\ waiters # << >>
  /\ result' = [result EXCEPT ![Head(waiters)] = Value(pushes + 1)]
  /\ waiters' = Tail(waiters)
  /\ UNCHANGED <<buffer, terminal, errorDelivered, droppedCount, nexts, discarded>>

PushBuffers ==
  /\ Accept
  /\ waiters = << >>
  /\ Len(buffer) < Capacity
  /\ buffer' = Append(buffer, pushes + 1)
  /\ UNCHANGED <<waiters, terminal, errorDelivered, droppedCount, nexts, result,
                 discarded>>

\* Mutant: an evicted value is not given to onDropped.
PushEvictsForgetting ==
  /\ Accept
  /\ waiters = << >>
  /\ Len(buffer) >= Capacity
  /\ droppedCount' = droppedCount + 1
  /\ buffer' = Tail(Append(buffer, pushes + 1))
  /\ UNCHANGED <<waiters, terminal, errorDelivered, nexts, result, discarded>>

\* Mutant: an overflow is not recorded.
PushEvictsSilently ==
  /\ Accept
  /\ waiters = << >>
  /\ Len(buffer) >= Capacity
  /\ buffer' = Tail(Append(buffer, pushes + 1))
  /\ discarded' = discarded \cup {Head(buffer)}
  /\ UNCHANGED <<waiters, terminal, errorDelivered, droppedCount, nexts, result>>

\* push on a full buffer: the oldest value goes to onDropped and the lag is
\* recorded; where onLagged closes the queue, all the others go there too.
PushEvicts ==
  /\ Accept
  /\ waiters = << >>
  /\ Len(buffer) >= Capacity
  /\ droppedCount' = droppedCount + 1
  /\ IF FatalLag
     THEN CloseDiscarding("error", Append(buffer, pushes + 1))
     ELSE /\ buffer' = Tail(Append(buffer, pushes + 1))
          /\ discarded' = discarded \cup {Head(buffer)}
          /\ UNCHANGED <<waiters, terminal, errorDelivered, result>>
  /\ UNCHANGED nexts

Push == PushIgnored \/ PushHandsOff \/ PushBuffers \/ PushEvicts

\* An upstream source dropped a value that never came here.
markLagged ==
  /\ ~isClosed
  /\ droppedCount < MaxPush
  /\ droppedCount' = droppedCount + 1
  /\ IF FatalLag
     THEN CloseDiscarding("error", buffer)
     ELSE UNCHANGED <<buffer, waiters, terminal, errorDelivered, result, discarded>>
  /\ UNCHANGED <<pushes, accepted, nexts>>

\* Mutant: parked consumers are forgotten.
CloseForgetsWaiters(end) ==
  /\ ~isClosed
  /\ terminal' = end
  /\ discarded' = discarded \cup Range(buffer)
  /\ buffer' = << >>
  /\ UNCHANGED <<waiters, errorDelivered, droppedCount, pushes, accepted, nexts, result>>

\* close(null) for "done", close(error) for "error"; also return(), gracefully.
close(end) ==
  /\ ~isClosed
  /\ CloseDiscarding(end, buffer)
  /\ UNCHANGED <<droppedCount, pushes, accepted, nexts>>

Call ==
  /\ nexts < MaxNext
  /\ nexts' = nexts + 1

NextTakes ==
  /\ Call
  /\ buffer # << >>
  /\ result' = [result EXCEPT ![nexts + 1] = Value(Head(buffer))]
  /\ buffer' = Tail(buffer)
  /\ UNCHANGED <<waiters, terminal, errorDelivered, droppedCount, pushes, accepted,
                 discarded>>

NextTold ==
  /\ Call
  /\ buffer = << >>
  /\ isClosed
  /\ result' = [result EXCEPT ![nexts + 1] = LateAnswer]
  /\ errorDelivered' = (errorDelivered \/ terminal = "error")
  /\ UNCHANGED <<buffer, waiters, terminal, droppedCount, pushes, accepted, discarded>>

NextParks ==
  /\ Call
  /\ buffer = << >>
  /\ ~isClosed
  /\ result' = [result EXCEPT ![nexts + 1] = Parked]
  /\ waiters' = Append(waiters, nexts + 1)
  /\ UNCHANGED <<buffer, terminal, errorDelivered, droppedCount, pushes, accepted,
                 discarded>>

next == NextTakes \/ NextTold \/ NextParks

Init ==
  /\ buffer = << >>
  /\ waiters = << >>
  /\ terminal = "open"
  /\ errorDelivered = FALSE
  /\ droppedCount = 0
  /\ pushes = 0
  /\ accepted = 0
  /\ nexts = 0
  /\ result = [c \in Calls |-> NotCalled]
  /\ discarded = {}

Next ==
  \/ Push
  \/ markLagged
  \/ \E end \in {"done", "error"} : close(end)
  \/ next

Spec == Init /\ [][Next]_queueVars
-------------------------------------------------------------------------------
Delivered(v) == \E c \in Calls : result[c] = Value(v)
Buffered(v) == v \in Range(buffer)

\* Every variable keeps its shape, and the buffer never exceeds its capacity.
TypeOK ==
  /\ buffer \in Seq(Values) /\ Len(buffer) <= Capacity
  /\ waiters \in Seq(Calls)
  /\ terminal \in {"open", "done", "error"}
  /\ errorDelivered \in BOOLEAN
  /\ droppedCount \in Nat
  /\ pushes \in 0..MaxPush
  /\ accepted \in 0..pushes
  /\ nexts \in 0..MaxNext
  /\ result \in [Calls -> Answers]
  /\ discarded \subseteq Values

\* A value pushed while the queue is open is in exactly one place: buffered,
\* delivered to exactly one call, or given to onDropped (message-queue.ts:44-48).
EveryValueAccounted ==
  /\ \A v \in 1..accepted :
       /\ Buffered(v) \/ Delivered(v) \/ v \in discarded
       /\ ~(Buffered(v) /\ (Delivered(v) \/ v \in discarded))
       /\ ~(Delivered(v) /\ v \in discarded)
  /\ \A c, d \in Calls :
       result[c].type = "value" /\ result[c] = result[d] => c = d

\* Values reach the calls of next() in order, however many loops share the queue:
\* a later call never gets an older value, nor a value after an end was announced.
InOrder ==
  \A c, d \in 1..nexts :
    c < d /\ result[d].type = "value" =>
      /\ result[c].type = "value"
      /\ result[c].value < result[d].value

\* No call hangs beside something it could be answered with: a parked consumer
\* means that the queue is open and has nothing to deliver.
NobodyHangs ==
  (\E c \in Calls : result[c] = Parked) => ~isClosed /\ buffer = << >>

\* The terminal error reaches one consumer, and the first that hears of the end:
\* nobody takes a failed stream for a finished one unless somebody got the error.
ErrorReachesOne ==
  /\ \A c, d \in Calls : result[c] = Error /\ result[d] = Error => c = d
  /\ terminal = "error" =>
       \A d \in Calls : result[d] = Done =>
         \E c \in Calls : c < d /\ result[c] = Error

\* What a consumer misses it is told of: the values missing before one it got
\* are no more than the dropped count, onLagged's argument, says.
HolesAreTold ==
  \A w \in 1..accepted :
    Delivered(w) => Cardinality({v \in 1..w : ~Delivered(v)}) <= droppedCount

\* Where a lag is fatal (a Stream's chunks) nothing is missing: the delivered
\* values are a prefix of the pushed ones ("a byte stream with a hole in it is
\* worse than no stream at all", streams.ts:271).
NoHole ==
  FatalLag => \A w \in 1..accepted : Delivered(w) => \A v \in 1..w : Delivered(v)
===============================================================================
