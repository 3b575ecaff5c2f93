------------------------------- MODULE Progress -------------------------------
(***************************************************************************)
(* One running download: the task of blob_download, which fetches, clears  *)
(* the destination and exports to it (blobs.rs), the Coalescer that thins  *)
(* the byte counts it reports (coalesce.rs), the completion that flushes   *)
(* it (hybrid_iroh.rs), the bridge, and the TransferController with its    *)
(* ProgressHub (transfer.ts), observed by one listener and one `for await` *)
(* loop (watchable.ts).                                                    *)
(*                                                                         *)
(* The task and the completion run on two worker threads.  The Coalescer   *)
(* decides under its lock and calls the sink after releasing it, so each   *)
(* emission is two steps: taking it, and posting it on the bridge.         *)
(*                                                                         *)
(* The blob store writes the destination in a job of its own, which an     *)
(* abort of the task may leave running.  It fails if something is there    *)
(* already.  Others may touch the destination too: another download to the *)
(* same path, or the application.                                          *)
(***************************************************************************)
EXTENDS Naturals, Sequences, FiniteSets

CONSTANTS MaxBytes,     \* bound: the payload has so many bytes, 0 when unused
          MaxIntervals  \* bound: how often PROGRESS_MIN_INTERVAL elapses

ASSUME BoundsAssumption == MaxBytes \in Nat \ {0} /\ MaxIntervals \in Nat

VARIABLES calling,     \* JavaScript is still inside the native downloadBlob
          offered,     \* the newest count the task has offered
          task,        \* download_inner: "fetching", "fetched", "replacing", "cleared",
                       \* "exporting", and its ends "succeeded", "failed", "stopped"
          aborted,     \* its task was aborted, which takes effect when it awaits
          taskEmits,   \* a count the task took and has not posted, or 0
          due,         \* no emission yet, or PROGRESS_MIN_INTERVAL has elapsed since
          intervals,   \* how often it elapsed
          suppressed,  \* Coalescer.state.pending, or 0
          completion,  \* "waiting", "flushing", "completing", "finished"
          flushEmits,  \* a count flush took and has not posted, or 0
          emissions,   \* how many counts were posted
          cancelSent,  \* the oneshot sender of TransferState.cancel was used
          result,      \* what the download ended with, "none" before
          bridge       \* JS tasks

VARIABLES initial,  \* what was at the destination: "absent", "file" or "dir"
          target,   \* what is there now: also "partial" and "whole", this export's
          export,   \* the store's job: "none", "asked", "writing", "done", "failed"
          fetched,  \* the blob has arrived, verified, in the store
          meddled   \* somebody else has touched the destination

diskVars == <<initial, target, export, fetched, meddled>>

nativeVars == <<diskVars, offered, task, aborted, taskEmits, due, intervals, suppressed, completion,
                flushEmits, emissions, cancelSent, result>>

VARIABLES transferId,  \* TransferController.nativeTransferId is known
          settled,     \* ProgressHub.settled, with the outcome; "none" before
          seen,        \* the counts the listener was called with
          kept,        \* ConflatingIterator.pending, or 0
          loop,        \* the loop: "body", "parked", "ended", "threw"
          read         \* the newest count the loop got

hubVars == <<transferId, settled, seen, kept, loop, read>>

vars == <<calling, nativeVars, bridge, hubVars>>

Counts == 1..MaxBytes
Outcomes == {"success", "error", "cancelled"}
Start == [type |-> "start"]
Report(n) == [type |-> "progress", count |-> n]
Finish(o) == [type |-> "settle", outcome |-> o]
-------------------------------------------------------------------------------
(* The worker that runs the download.  Aborted, it goes on until it awaits.  *)

TaskAlive == task \in {"fetching", "fetched", "replacing", "cleared", "exporting"}
Fetching == task = "fetching" /\ taskEmits = 0

OfferSuppressed(n) ==
  /\ Fetching
  /\ ~due
  /\ offered' = n
  /\ suppressed' = n
  /\ UNCHANGED <<calling, task, aborted, diskVars, taskEmits, due, intervals, completion, flushEmits,
                 emissions, cancelSent, result, bridge, hubVars>>

\* Mutant: an older suppressed count stays behind.
OfferTakenKeepsOld(n) ==
  /\ Fetching
  /\ due
  /\ offered' = n
  /\ due' = FALSE
  /\ taskEmits' = n
  /\ UNCHANGED <<calling, task, aborted, diskVars, suppressed, intervals, completion, flushEmits,
                 emissions, cancelSent, result, bridge, hubVars>>

OfferTaken(n) ==
  /\ Fetching
  /\ due
  /\ offered' = n
  /\ due' = FALSE
  /\ suppressed' = 0
  /\ taskEmits' = n
  /\ UNCHANGED <<calling, task, aborted, diskVars, intervals, completion, flushEmits, emissions,
                 cancelSent, result, bridge, hubVars>>

TaskPosts ==
  /\ taskEmits # 0
  /\ bridge' = Append(bridge, Report(taskEmits))
  /\ taskEmits' = 0
  /\ emissions' = emissions + 1
  /\ UNCHANGED <<calling, offered, task, aborted, diskVars, due, intervals, suppressed, completion,
                 flushEmits, cancelSent, result, hubVars>>

\* Everything but how far the task and the destination are.
OthersUnchanged ==
  UNCHANGED <<calling, offered, aborted, taskEmits, due, intervals, suppressed, completion,
              flushEmits, emissions, cancelSent, result, bridge, hubVars, initial>>

\* An error of connecting, fetching or inspecting the destination.
TaskFails ==
  /\ Fetching \/ task = "fetched"
  /\ task' = "failed"
  /\ UNCHANGED <<target, export, fetched, meddled>> /\ OthersUnchanged

\* GetProgressItem::Done, and the end of the stream.
FetchEnds ==
  /\ Fetching
  /\ task' = "fetched"
  /\ fetched' = TRUE
  /\ UNCHANGED <<target, export, meddled>> /\ OthersUnchanged

\* clear_export_target, symlink_metadata: a directory is refused.
InspectTarget ==
  /\ task = "fetched"
  /\ task' = CASE target = "absent" -> "cleared"
               [] target = "dir" -> "failed"
               [] OTHER -> "replacing"
  /\ UNCHANGED <<target, export, fetched, meddled>> /\ OthersUnchanged

\* clear_export_target, remove_file: it may fail, as when the file is gone by now.
RemoveTarget ==
  /\ task = "replacing"
  /\ \/ /\ target # "absent"
        /\ task' = "cleared"
        /\ target' = "absent"
     \/ /\ task' = "failed"
        /\ UNCHANGED target
  /\ UNCHANGED <<export, fetched, meddled>> /\ OthersUnchanged

\* export_with_opts hands the job to the store, and waits for it.
ExportStarts ==
  /\ task = "cleared"
  /\ task' = "exporting"
  /\ export' = "asked"
  /\ UNCHANGED <<target, fetched, meddled>> /\ OthersUnchanged

\* Mutant: an error of the export is not passed on.
ExportEndsWell ==
  /\ task = "exporting"
  /\ export \in {"done", "failed"}
  /\ task' = "succeeded"
  /\ UNCHANGED <<target, export, fetched, meddled>> /\ OthersUnchanged

ExportEnds ==
  /\ task = "exporting"
  /\ export \in {"done", "failed"}
  /\ task' = IF export = "done" THEN "succeeded" ELSE "failed"
  /\ UNCHANGED <<target, export, fetched, meddled>> /\ OthersUnchanged

\* The store creates the file, unless something is there.
StoreCreates ==
  /\ export = "asked"
  /\ \/ /\ target = "absent"
        /\ target' = "partial"
        /\ export' = "writing"
     \/ /\ export' = "failed"
        /\ UNCHANGED target
  /\ UNCHANGED <<task, fetched, meddled>> /\ OthersUnchanged

\* It writes the bytes; what others have put in the file's place is left alone.
StoreWrites ==
  /\ export = "writing"
  /\ \/ /\ export' = "done"
        /\ target' = IF target = "partial" THEN "whole" ELSE target
     \/ /\ export' = "failed"
        /\ UNCHANGED target
  /\ UNCHANGED <<task, fetched, meddled>> /\ OthersUnchanged

\* Somebody else removes or replaces what is at the destination, once.
Meddle ==
  /\ ~meddled /\ target # "dir"
  /\ meddled' = TRUE
  /\ target' \in {"absent", "file"}
  /\ UNCHANGED <<task, export, fetched>> /\ OthersUnchanged

AbortLands ==
  /\ TaskAlive /\ aborted /\ taskEmits = 0
  /\ task' = "stopped"
  /\ UNCHANGED <<target, export, fetched, meddled>> /\ OthersUnchanged

IntervalElapses ==
  /\ ~due
  /\ intervals < MaxIntervals
  /\ intervals' = intervals + 1
  /\ due' = TRUE
  /\ UNCHANGED <<calling, offered, task, aborted, diskVars, taskEmits, suppressed, completion,
                 flushEmits, emissions, cancelSent, result, bridge, hubVars>>

(* The worker that completes it: select!, flush, promise.                    *)

SelectCancel ==
  /\ completion = "waiting"
  /\ cancelSent
  /\ aborted' = TRUE
  /\ result' = "cancelled"
  /\ completion' = "flushing"
  /\ UNCHANGED <<calling, offered, task, diskVars, taskEmits, due, intervals, suppressed, flushEmits,
                 emissions, cancelSent, bridge, hubVars>>

SelectJoin ==
  /\ completion = "waiting"
  /\ task \in {"succeeded", "failed"}
  /\ result' = IF task = "succeeded" THEN "success" ELSE "error"
  /\ completion' = "flushing"
  /\ UNCHANGED <<calling, offered, task, aborted, diskVars, taskEmits, due, intervals, suppressed,
                 flushEmits, emissions, cancelSent, bridge, hubVars>>

\* Mutant: nothing is flushed.
FlushNothing ==
  /\ completion = "flushing"
  /\ completion' = "completing"
  /\ UNCHANGED <<calling, offered, task, aborted, diskVars, taskEmits, due, intervals, suppressed,
                 flushEmits, emissions, cancelSent, result, bridge, hubVars>>

\* flush, under the lock.
FlushTakes ==
  /\ completion = "flushing"
  /\ flushEmits' = suppressed
  /\ suppressed' = 0
  /\ due' = (due /\ suppressed = 0)
  /\ completion' = "completing"
  /\ UNCHANGED <<calling, offered, task, aborted, diskVars, taskEmits, intervals, emissions, cancelSent,
                 result, bridge, hubVars>>

FlushPosts ==
  /\ flushEmits # 0
  /\ bridge' = Append(bridge, Report(flushEmits))
  /\ flushEmits' = 0
  /\ emissions' = emissions + 1
  /\ UNCHANGED <<calling, offered, task, aborted, diskVars, taskEmits, due, intervals, suppressed,
                 completion, cancelSent, result, hubVars>>

\* Mutant: the promise is not settled after a cancel.
CompletesUnlessCancelled ==
  /\ completion = "completing"
  /\ flushEmits = 0
  /\ completion' = "finished"
  /\ bridge' = IF result = "cancelled" THEN bridge ELSE Append(bridge, Finish(result))
  /\ UNCHANGED <<calling, offered, task, aborted, diskVars, taskEmits, due, intervals, suppressed,
                 flushEmits, emissions, cancelSent, result, hubVars>>

Completes ==
  /\ completion = "completing"
  /\ flushEmits = 0
  /\ completion' = "finished"
  /\ bridge' = Append(bridge, Finish(result))
  /\ UNCHANGED <<calling, offered, task, aborted, diskVars, taskEmits, due, intervals, suppressed,
                 flushEmits, emissions, cancelSent, result, hubVars>>
-------------------------------------------------------------------------------
(* The JavaScript thread.                                                    *)

\* downloadBlob calls on_start and returns; the workers are already running.
CallReturns ==
  /\ calling
  /\ calling' = FALSE
  /\ bridge' = Append(bridge, Start)
  /\ UNCHANGED <<nativeVars, hubVars>>

TakeTask(type) ==
  /\ ~calling
  /\ bridge # << >>
  /\ Head(bridge).type = type
  /\ bridge' = Tail(bridge)

OnStart ==
  /\ TakeTask("start")
  /\ transferId' = TRUE
  /\ UNCHANGED <<calling, nativeVars, settled, seen, kept, loop, read>>

\* dispatch: the listener, then the loop, parked or conflating.
OnProgress ==
  /\ TakeTask("progress")
  /\ IF settled # "none"
     THEN UNCHANGED <<seen, kept, loop, read>>
     ELSE /\ seen' = Append(seen, Head(bridge).count)
          /\ IF loop = "parked"
             THEN /\ read' = Head(bridge).count
                  /\ loop' = "body"
                  /\ UNCHANGED kept
             ELSE /\ kept' = Head(bridge).count
                  /\ UNCHANGED <<loop, read>>
  /\ UNCHANGED <<calling, nativeVars, transferId, settled>>

LoopEnd(outcome) == IF outcome = "success" THEN "ended" ELSE "threw"

\* settle: the watchable ends a parked loop and leaves a value kept for a slow one.
OnSettle ==
  /\ TakeTask("settle")
  /\ settled' = Head(bridge).outcome
  /\ loop' = IF loop = "parked" THEN LoopEnd(Head(bridge).outcome) ELSE loop
  /\ UNCHANGED <<calling, nativeVars, transferId, seen, kept, read>>

\* The loop asks for more: the kept value, the end, or it parks.
LoopNext ==
  /\ ~calling
  /\ loop = "body"
  /\ IF kept # 0
     THEN /\ read' = kept
          /\ kept' = 0
          /\ UNCHANGED loop
     ELSE /\ loop' = IF settled = "none" THEN "parked" ELSE LoopEnd(settled)
          /\ UNCHANGED <<read, kept>>
  /\ UNCHANGED <<calling, nativeVars, bridge, transferId, settled, seen>>

\* cancel, once the id is known.  One that comes earlier is made up for in onStart,
\* one that comes after the select! finds no sender.
Cancel ==
  /\ ~calling
  /\ transferId /\ settled = "none"
  /\ completion = "waiting"
  /\ ~cancelSent
  /\ cancelSent' = TRUE
  /\ UNCHANGED <<calling, offered, task, aborted, diskVars, taskEmits, due, intervals, suppressed,
                 completion, flushEmits, emissions, result, bridge, hubVars>>
-------------------------------------------------------------------------------
Init ==
  /\ calling = TRUE
  /\ offered = 0
  /\ task = "fetching"
  /\ aborted = FALSE
  /\ initial \in {"absent", "file", "dir"}
  /\ target = initial
  /\ export = "none"
  /\ fetched = FALSE
  /\ meddled = FALSE
  /\ taskEmits = 0
  /\ due = TRUE
  /\ intervals = 0
  /\ suppressed = 0
  /\ completion = "waiting"
  /\ flushEmits = 0
  /\ emissions = 0
  /\ cancelSent = FALSE
  /\ result = "none"
  /\ bridge = << >>
  /\ transferId = FALSE
  /\ settled = "none"
  /\ seen = << >>
  /\ kept = 0
  /\ loop = "body"
  /\ read = 0

Fetch ==
  \/ \E n \in (offered + 1)..MaxBytes : OfferSuppressed(n) \/ OfferTaken(n)
  \/ TaskPosts
  \/ TaskFails
  \/ FetchEnds
  \/ AbortLands

Export == InspectTarget \/ RemoveTarget \/ ExportStarts \/ ExportEnds

Store == StoreCreates \/ StoreWrites

Completion == SelectCancel \/ SelectJoin \/ FlushTakes \/ FlushPosts \/ Completes

JsThread == CallReturns \/ OnStart \/ OnProgress \/ OnSettle

Next ==
  \/ Fetch \/ Export \/ Store \/ Meddle
  \/ IntervalElapses \/ Completion \/ JsThread \/ LoopNext \/ Cancel

Spec == Init /\ [][Next]_vars

(* Threads keep running, the disk answers, and the loop's body returns; a     *)
(* fetch may hang, and time need not pass.                                   *)
FairSpec ==
  /\ Spec
  /\ WF_vars(TaskPosts) /\ WF_vars(Export) /\ WF_vars(Store)
  /\ WF_vars(Completion) /\ WF_vars(JsThread) /\ WF_vars(LoopNext)
-------------------------------------------------------------------------------
\* Every variable keeps its type.
TypeOK ==
  /\ <<calling, due, cancelSent, transferId>> \in BOOLEAN \X BOOLEAN \X BOOLEAN \X BOOLEAN
  /\ {offered, taskEmits, suppressed, flushEmits, kept, read} \subseteq 0..MaxBytes
  /\ TaskAlive \/ task \in {"succeeded", "failed", "stopped"}
  /\ target \in {"absent", "file", "dir", "partial", "whole"}
  /\ export \in {"none", "asked", "writing", "done", "failed"}
  /\ intervals \in 0..MaxIntervals
  /\ completion \in {"waiting", "flushing", "completing", "finished"}
  /\ emissions \in Nat
  /\ {result, settled} \subseteq Outcomes \cup {"none"}
  /\ bridge \in Seq({Start} \cup {Report(n) : n \in Counts} \cup {Finish(o) : o \in Outcomes})
  /\ seen \in Seq(Counts)
  /\ loop \in {"body", "parked", "ended", "threw"}

\* A download that succeeds was seen to its end, whatever was suppressed, by the
\* listener and by the loop, however slow: "so the last progress state always reaches
\* JS before the terminal event" (coalesce.rs:7).
FinalProgressSeen ==
  /\ settled = "success" =>
       IF offered = 0 THEN seen = << >> ELSE seen # << >> /\ seen[Len(seen)] = offered
  /\ loop = "ended" => read = offered

\* Every variable keeps its type, and the coalescer keeps its word although two threads
\* report through it: until a cancel what a listener sees increases, and beside the first
\* and the flushed one at most one report per PROGRESS_MIN_INTERVAL crosses the bridge
\* (coalesce.rs:4, "rate-limits that stream").
Coalesced ==
  /\ TypeOK
  /\ result # "cancelled" => \A i, j \in 1..Len(seen) : i < j => seen[i] < seen[j]
  /\ emissions + Cardinality({e \in {<<"task", taskEmits>>, <<"flush", flushEmits>>} :
                                e[2] # 0}) <= intervals + 2

\* A cancel that beats the end of a hanging fetch, and a blob that has arrived, settle
\* the transfer, and a loop over its progress ends.
SettlesAndEndsTheLoop ==
  cancelSent \/ fetched \/ task = "failed" ~>
    settled # "none" /\ loop \in {"ended", "threw"}

\* The destination is in good hands as long as nobody else meddles with it: "Removes an
\* existing file at the export target" (blobs.rs:447) happens only when every byte of
\* its replacement has arrived, however the download ends; a directory is left alone;
\* and a download that succeeds has left the whole file there.
DestinationSafe ==
  ~meddled =>
    /\ ~fetched \/ initial = "dir" => target = initial
    /\ settled = "success" => target = "whole"
===============================================================================
