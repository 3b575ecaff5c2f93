------------------------------ MODULE Collections ------------------------------
(***************************************************************************)
(* A CollectionTransferController of src/src/transfer.ts over the download *)
(* queue of one endpoint: the manifest it fetches, the children it starts  *)
(* through the queue like any download, and what it makes of their ends.   *)
(*                                                                         *)
(* The loop that starts the children runs on the JavaScript thread in one  *)
(* piece, but every child it queues pumps the gate, and native workers go  *)
(* on beside it; it is a step per child.                                   *)
(***************************************************************************)
EXTENDS Downloads

CONSTANT Children   \* the transfers that may be children of the collection

ASSUME ChildrenAssumption == Children \subseteq Transfer

VARIABLES
  collection,       \* "none", "manifest" (in flight), "starting", "started"
                    \* (childrenStarted), or "over" before any child
  manifest,         \* collection_manifest: "none", "fetching", "ok", "failed", "read"
  entries,          \* the children the manifest names and that are still to start
  children,         \* CollectionTransferController.children
  fileDone,         \* FileProgress.done
  due,              \* children whose `done` continuation is due
  collCancelled,    \* its cancelRequested
  collOutcome       \* the settlement of its hub

collVars == <<collection, manifest, entries, children, fileDone, due, collCancelled,
              collOutcome>>
allVars == <<vars, collVars>>

CollSettled == collOutcome # "pending"

\* The continuation of a child is due once it has settled, or at once if it had.
SettlesNow == {t \in children' : outcome'[t] # "pending" /\ t \notin fileDone /\
                 (t \notin children \/ ~Settled(t))}
DueGrows == due' = due \cup SettlesNow

\* Between the children of the loop nothing else runs on the JavaScript thread.
LoopIdle == collection # "starting"
-------------------------------------------------------------------------------
\* A step of the download path that leaves the collection alone.
DownloadsStep(A) ==
  /\ A
  /\ UNCHANGED <<collection, manifest, entries, children, fileDone, collCancelled,
                 collOutcome>>
  /\ DueGrows

\* The application has no hold of the children.
Alone ==
  \/ \E t \in Transfer \ Children, aborted \in BOOLEAN : Download(t, aborted)
  \/ \E t \in Transfer \ Children : Cancel(t)
  \/ Close

Pumping ==
  \/ PumpSkip
  \/ \E t \in Transfer : BeginThrows(t) \/ BeginRefused(t) \/ BeginSpawns(t)
  \/ CallReturns
  \/ PumpStops

\* A task starts when the continuations of the one before it have run.
TasksAndReleases ==
  \/ \E t \in Transfer : ReleaseSlot(t)
  \/ due = {} /\ (OnStart \/ OnDone \/ OnClosed)
-------------------------------------------------------------------------------
(* The collection.                                                           *)

\* Blobs.downloadCollection: begin() calls fetchManifest at once.
DownloadCollection ==
  /\ JsIdle
  /\ collection = "none"
  /\ collection' = "manifest"
  /\ manifest' = "fetching"
  /\ UNCHANGED <<vars, entries, children, fileDone, due, collCancelled, collOutcome>>

\* collection_manifest_inner: the endpoint must be open when it is looked up, and
\* connecting, fetching or reading may fail.
collection_manifest(result) ==
  /\ manifest = "fetching"
  /\ manifest' = result
  /\ UNCHANGED <<vars, collection, entries, children, fileDone, due, collCancelled,
                 collOutcome>>

TakeManifest ==
  /\ JsIdle /\ releasing = {} /\ due = {}
  /\ manifest \in {"ok", "failed"}
  /\ manifest' = "read"

\* The manifest comes too late, or not at all.
ManifestUnused ==
  /\ TakeManifest
  /\ manifest = "failed" \/ collCancelled
  /\ collection' = "over"
  /\ collOutcome' = IF CollSettled THEN collOutcome ELSE "failed"
  /\ UNCHANGED <<vars, entries, children, fileDone, due, collCancelled>>

ManifestRead(names) ==
  /\ TakeManifest
  /\ manifest = "ok" /\ ~collCancelled
  /\ collection' = "starting"
  /\ entries' = names
  /\ UNCHANGED <<vars, children, fileDone, due, collCancelled, collOutcome>>

\* One turn of its loop: createDownload, enqueueDownload (which pumps), children.push.
StartChild(t) ==
  /\ collection = "starting"
  /\ t \in entries
  /\ Download(t, FALSE)
  /\ entries' = entries \ {t}
  /\ children' = children \cup {t}
  /\ DueGrows
  /\ UNCHANGED <<collection, manifest, fileDone, collCancelled, collOutcome>>

\* checkAllDone.
CheckAllDone(done) ==
  collOutcome' = IF ~CollSettled /\ collection' = "started" /\ children \subseteq done
                 THEN "ok" ELSE collOutcome

\* childrenStarted = true; an empty collection is complete here.
LoopEnds ==
  /\ JsIdle
  /\ collection = "starting"
  /\ entries = {}
  /\ collection' = "started"
  /\ CheckAllDone(fileDone)
  /\ UNCHANGED <<vars, manifest, entries, children, fileDone, due, collCancelled>>

\* cancel() of each of them: those in the queue settle on the spot.
CancelAll(set) ==
  LET live == {t \in set : ~Settled(t)} IN
  /\ cancelRequested' = [t \in Transfer |-> cancelRequested[t] \/ t \in live]
  /\ outcome' = [t \in Transfer |-> IF t \in live /\ ~started[t] THEN "cancelled"
                                    ELSE outcome[t]]
  /\ cancelSent' = [t \in Transfer |->
                      cancelSent[t] \/ (t \in live \cap transfers /\ nativeId[t])]
  /\ UNCHANGED <<created, queue, active, started, nativeId, releasing, pumping, inCall,
                 closing, bridge, endpointOpen, transfers, task, verdict>>

\* Mutant: the first error settles the collection and no child is cancelled.
OnChildErrorOrphans(t) ==
  /\ JsIdle /\ LoopIdle
  /\ t \in due /\ outcome[t] # "ok"
  /\ due' = due \ {t}
  /\ collOutcome' = IF CollSettled THEN collOutcome ELSE outcome[t]
  /\ UNCHANGED <<vars, collection, manifest, entries, children, fileDone, collCancelled>>

\* onChildError: the first error cancels the rest and is the collection's; those that
\* settle on the spot get here again and find it settled.
OnChildError(t) ==
  /\ JsIdle /\ LoopIdle
  /\ t \in due
  /\ outcome[t] # "ok"
  /\ collOutcome' = IF CollSettled THEN collOutcome ELSE outcome[t]
  /\ CancelAll(IF CollSettled THEN {} ELSE children)
  /\ due' = (due \ {t}) \cup {s \in children : ~Settled(s) /\ outcome'[s] # "pending"}
  /\ UNCHANGED <<collection, manifest, entries, children, fileDone, collCancelled>>

OnChildDone(t) ==
  /\ JsIdle /\ LoopIdle
  /\ t \in due
  /\ outcome[t] = "ok"
  /\ due' = due \ {t}
  /\ fileDone' = fileDone \cup {t}
  /\ UNCHANGED collection
  /\ CheckAllDone(fileDone')
  /\ UNCHANGED <<vars, manifest, entries, children, collCancelled>>

\* Mutant: an unstarted collection waits for its manifest before it settles, and
\* then nobody settles it.
CollectionCancelWaits ==
  /\ JsIdle /\ LoopIdle
  /\ collection \notin {"none", "over"} /\ ~CollSettled
  /\ collCancelled' = TRUE
  /\ CancelAll(IF collection = "started" THEN children ELSE {})
  /\ UNCHANGED <<collection, manifest, entries, children, fileDone, collOutcome>>
  /\ DueGrows

\* cancel of the collection, by the application or an abort signal.
CollectionCancel ==
  /\ JsIdle /\ LoopIdle
  /\ collection # "none"
  /\ ~CollSettled
  /\ collCancelled' = TRUE
  /\ collOutcome' = IF collection # "started" THEN "cancelled" ELSE collOutcome
  /\ CancelAll(children)
  /\ UNCHANGED <<collection, manifest, entries, children, fileDone>>
  /\ DueGrows
-------------------------------------------------------------------------------
CollectionInit ==
  /\ Init
  /\ collection = "none"
  /\ manifest = "none"
  /\ entries = {}
  /\ children = {}
  /\ fileDone = {}
  /\ due = {}
  /\ collCancelled = FALSE
  /\ collOutcome = "pending"

Continuations == \E t \in Children : OnChildError(t) \/ OnChildDone(t)

CollectionJs ==
  \/ DownloadsStep(Pumping)
  \/ DownloadsStep(LoopIdle /\ TasksAndReleases)
  \/ ManifestUnused
  \/ \E names \in SUBSET Children : ManifestRead(names)
  \/ \E t \in Children : StartChild(t)
  \/ LoopEnds
  \/ Continuations

CollectionNext ==
  \/ DownloadsStep(LoopIdle /\ Alone)
  \/ LoopIdle /\ DownloadCollection
  \/ CollectionCancel
  \/ CollectionJs
  \/ DownloadsStep(Native)
  \/ endpointOpen /\ collection_manifest("ok")
  \/ collection_manifest("failed")

CollectionSpec == CollectionInit /\ [][CollectionNext]_allVars

(* The fairness of Downloads, and in addition that the JavaScript thread gets  *)
(* through the collection's work and closing ends the fetch of a manifest.   *)
CollectionFairSpec ==
  /\ CollectionSpec
  /\ Fairness
  /\ WF_allVars(CollectionJs)
  /\ WF_allVars(~endpointOpen /\ collection_manifest("failed"))
-------------------------------------------------------------------------------
\* Types, and that the children of the collection are distinct downloads.
CollectionTypeOK ==
  /\ collection \in {"none", "manifest", "starting", "started", "over"}
  /\ manifest \in {"none", "fetching", "ok", "failed", "read"}
  /\ children \subseteq created \cap Children
  /\ entries \cup fileDone \cup due \subseteq Children
  /\ collCancelled \in BOOLEAN
  /\ collOutcome \in Outcomes

\* Every variable keeps its type, and the verdict of a collection is that of its
\* children: it resolves only when every file is there, and "One child failing fails
\* the whole collection: cancel the rest so no orphaned downloads keep running"
\* (transfer.ts:413-414): once it has failed, every child is over or told to be, the
\* ones its manifest named later too.
NoOrphans ==
  /\ CollectionTypeOK
  /\ collOutcome = "ok" => entries = {} /\ \A t \in children : outcome[t] = "ok"
  /\ collOutcome \in {"failed", "cancelled"} =>
       /\ entries = {}
       /\ \A t \in children : Settled(t) \/ cancelRequested[t]

\* "Otherwise each child's cancellation drives the aggregate to settle"
\* (transfer.ts:340): a collection that is cancelled, one of whose children failed,
\* or whose endpoint is closed, settles and so does every child of it, on a network
\* that never answers.
CollectionSettles ==
  \/ collCancelled \/ (\E t \in children : outcome[t] \in {"failed", "cancelled"})
  \/ closing # "no" /\ collection # "none"
  ~> CollSettled /\ \A t \in children : Settled(t)
===============================================================================
