# A TLA+ model of react-native-iroh

This directory models the concurrent core of the library: the TypeScript
objects an application holds (`src/src/`), the Rust core behind them
(`src/rust/iroh-rn-core/src/`) and the bridge between the two.  TLC checks the
models on small instances; TLAPS proves every safety property the runs check, and
three refinements, for every size.

## 1. The system

### Threads and the bridge

There is one JavaScript thread.  It runs a task (a native callback, a promise
settlement, a call from the application) and the promise continuations it made
due, to completion, before it takes the next.  Native work runs on the tokio
runtime's worker threads.  A call from JavaScript into native code is
synchronous; what native code says back (callbacks, promise settlements) is
posted, in order, on one queue of JavaScript tasks, even when it is said during
a call.  The code relies on this: `transfer.ts:265` ("the native download has
not reported its transfer id yet"), `streams.ts:427-431`.  The bridge library
(Nitro) is not in the repository; it is modelled from these uses.

### Components

| component | state | operations | hard behaviour |
|---|---|---|---|
| download gate (`endpoint.ts`) | `downloadQueue`, `activeDownloads`, `closePromise` | download, pump, release, close | slots given back from promise continuations, re-entrant downloads, close while queued |
| `TransferController` (`transfer.ts`) | `started`, `cancelRequested`, `nativeTransferId`, settlement | begin, onStart, cancel, settle | cancel in every phase, also between begin and onStart |
| collections (`transfer.ts`) | manifest, children, aggregate | begin, cancel, child settles | a child that fails cancels the others re-entrantly; a cancel against the manifest |
| native download (`blobs.rs`) | `TRANSFERS`, a task and a oneshot cancel per transfer, the destination file | start, fetch, clear, export, cancel, `select!`, complete | cancel against completion, endpoint closed underneath, other writers at the destination |
| progress (`coalesce.rs`, `hybrid_iroh.rs`) | last sent time, pending value | offer, flush | emitter and flush on different threads |
| `MessageQueue`, `WaiterQueue` (`message-queue.ts`, `waiter-queue.ts`) | buffer, waiters, lagged mark, settlement | push, markLagged, close, next, return | order and conservation of values, error delivered once, overflow |
| `Watchable` and the address watch (`watchable.ts`, `endpoint.ts`, `endpoint.rs`) | subscriber count, watch id, native watch task | listen, iterate, release, start, stop | the watch id arrives after the call |
| `Endpoint` life cycle and `useEndpoint` | `ENDPOINTS` registry, router, the hook's effect | create, mount, tear down, close | torn down while it is being created |
| gossip and `useGossip` (`gossip.ts`, `gossip.rs`) | join state, queues, native subscription, the hook's status | subscribe, broadcast, unsubscribe, clean up | messages before onStart, unsubscribe before onStart, three signals for one status |
| streams (`streams.ts`, `streams.rs`) | listener, connections, streams and their registries, a lock on the send half | listen, connect, accept, open, send, read, finish, close | answers after the asker has closed, torn frames, native objects owned by nobody |
| native calls (`hybrid_iroh_spec.rs`, `hybrid_iroh.rs`, `lib.rs`) | completers and boxed callbacks with their owners, tasks, the runtime | 27 methods, their tasks, stops and panics | who still owns a completer or a callback when something fails |

What makes each correct: the gate never leaks or double-books a slot and never
idles beside a waiting transfer; a transfer settles exactly once, and a cancel
is honoured whatever phase it meets; a collection resolves only with all its
files and leaves no child behind; a queue delivers every value once, in order,
or says that it dropped it; a frame arrives whole; a watch serves everyone who
listens; a native object whose JavaScript owner is closed is closed too; a
promise settles once, and what JavaScript handed to native code is released; a
closed endpoint leaves nothing running and nobody waiting.

## 2. Plan

1. `DownloadPool` (abstract) and `Downloads` (gate, controller, native download,
   bridge), refinement, proofs in `DownloadsProofs`: done.
2. `MessageQueue` with `MessageQueueProofs`: done.
3. `ByteStream`, the receiving side of a stream, over `MessageQueue`: done.
4. `Progress`, `AddrWatch`, `GossipSubscription`, `StreamListener`: done.
5. `FrameChannel` (abstract) and `StreamSend`; `Connections`: done.
6. `Collections` over `Downloads`; exports to a destination in `Progress`: done.
7. `EndpointHook` over `AddrWatch`, `GossipHook` over `GossipSubscription`: done.
8. `BridgeCalls`, every native call, and `BridgeCallsProofs`: done.
9. Proofs of the rest: `ConnectionsProofs`, `ProgressProofs`, `GossipProofs`,
   `ByteStream` on top of its queue, `StreamSendProofs`, `StreamListenerProofs`, the
   address watch and `EndpointHook`; that `Downloads` implements `DownloadPool` and
   `StreamSend` implements `FrameChannel`: done.
10. Open: `useTransfer`; one closing cascade over all objects of an endpoint at once.

## 3. Modules and the code

In every module a call from JavaScript and the promise continuations it makes
due are one step, a native worker's step is what it does between two points
where another thread can see it, and `bridge` is the queue of JavaScript tasks.
A task handle dropped natively (`AbortOnDropHandle`, `abort()`) makes the task
"aborting": it may take further steps until it next awaits (`AbortLands`).
A definition that a comment calls a mutant is a deliberately wrong variant of
the one after it; it is used by no specification, only to show that a property
can fail.  The MC modules hold nothing but what an instance needs.

**Downloads** (`endpoint.ts`, `transfer.ts`, `blobs.rs`, `hybrid_iroh.rs`,
`lib.rs`).  The state is named as in the code: `queue` is `downloadQueue`,
`active` is `activeDownloads`, `started`, `cancelRequested`, `nativeId` and
`outcome` are the controller's, `task` and `verdict` are the native transfer,
`endpointOpen` is the entry in `ENDPOINTS`.  `pumpDownloads` is a loop that calls into
native code, so it is several steps (`PumpSkip`, `TakeSlot` with one of
`BeginThrows`, `BeginRefused`, `BeginSpawns`, then `CallReturns`, `PumpStops`)
between which native threads move but no other JavaScript runs.  The
continuation that gives a slot back is `ReleaseSlot`, apart from the settlement
(`OnDone`): the application's own continuations come between.
`DownloadPool` is what this promises: `Waiting`, `Ahead`, `Running` and `Result` map
the state to those that wait, who of them came before whom, a bounded set and the
outcomes.  The pool's line is a set with an order and not a sequence: a transfer
cancelled in the queue leaves the line at once but `downloadQueue` only when the
loop comes to it, and to filter a sequence takes a recursive operator, which is
out of the provers' reach.

**Collections** (`transfer.ts`, `endpoint.ts`, `blobs.rs`) extends `Downloads`: the
children of the collection go through the same queue as the application's own
downloads.  The loop of `begin` is a step per child (`StartChild`), since each
one pumps the gate; `due` are the continuations on the children's `done`, which
run before the next JavaScript task.  `OnChildError` cancels the others in the
same step, and those that settle by it come due behind it.

**MessageQueue** (`message-queue.ts`, `waiter-queue.ts`).  One action per branch
of `push`, `next`, `markLagged` and `close`/`return`; `result` records what each
call of `next()` was answered, `discarded` what went to `onDropped`.  `FatalLag`
says whether `onLagged` closes the queue, as `StreamController`'s does.

**ByteStream** (`streams.ts`, `streams.rs`).  Extends `MessageQueue`, which is its
queue of chunks, with a fatal lag (`StreamInit`).  `OnData` and `OnClose` are the
two native callbacks, `StreamCloses` is the application's `close` or the
cascade's, `ConsumerBreaks` is `return()`; `Reads`,
`ReaderEnds` and `AbortLands` are the read task, `PeerSends` and `PeerEnds` what
arrives.  A stream that ends with its connection may lose chunks on the way.

**StreamSend** (`streams.rs`, `streams.ts`).  Each send is a task, `close()` spawns
one more, and `lock` is the fair mutex before the send half: its holder and
then those who wait.  Payloads are counted in units behind a header of
`HeaderSize` units, so that a write can be held up or fail inside either.  The
reader is the peer's `read_framed` or `read_raw`.  `FrameChannel` is what one
direction of a stream promises: each item is put in at a time later than those
before it, and the oldest that is not out is the next to come out.  `Channel`
maps the last unit of each item on the wire, with its place there, to it.

**Connections** (`streams.rs`, `streams.ts`, `endpoint.ts`).  One connection the
endpoint dials, and the streams either side opens on it.  `registered` is
`CONNECTIONS` and `STREAMS`; `openStreams`, `incoming` and the controllers are
JavaScript's; `held` is what the application got.  `Adopt`, `FinishStreams` and
`FinishConnection` are the effects that callbacks, answers and the cascade share.
A queue whose loop was left swallows what is pushed (`late`): those streams
stay live until the connection ends.

**StreamListener** (`streams.rs`, `streams.ts`, `endpoint.ts`).  The ALPN's
channel, the claim on its receiver, the listener tasks, and for every connection
whether it waits, is registered, has its controller or is closed; `CloseListener`,
`LoopBreaks`, `OnEnd` and `OnClosed` are the four ways a listener stops.

**Progress** (`coalesce.rs`, `blobs.rs`, `hybrid_iroh.rs`, `transfer.ts`,
`watchable.ts`).  Two native threads, the download task (`Offer...`, `TaskPosts`)
and the completion (`Select...`, `Flush...`, `Completes`).  The coalescer decides
under its lock and calls the sink after it, so an emission is two steps.  Time
is the single fact `due`.  The JavaScript side is the hub, one listener (`seen`)
and one conflating loop (`kept`, `loop`, `read`).  After the fetch the task looks
at the destination, removes what is there and asks the store to export
(`InspectTarget`, `RemoveTarget`, `ExportStarts`, `ExportEnds`); the store's own
job goes on although the task is aborted (`StoreCreates`, `StoreWrites`), and
`Meddle` is anybody else at that path, a second download included.

**AddrWatch** (`watchable.ts`, `endpoint.ts`, `endpoint.rs`, `hybrid_iroh.rs`).
`Subscribe` and `Unsubscribe` are `listen`/`createIterator` and their release,
with the hooks that start and stop the native watch.  The id comes back through
`onStart`, which the bridge delivers as a task of its own (`CallReturns`, then
`OnStart`).  A watch task takes an address from its stream (`Observes`) and then
posts it (`Reports`): others move in between, but an abort does not land there.
`heard` is the last address a subscriber was told, `newest` the newest.  **EndpointHook** (`endpoint.rs`, `endpoint.ts`, `useEndpoint.ts`) puts the
life of the endpoint around it: `create_inner` in its stages, each of which may
fail, and one effect of `useEndpoint`, which may be torn down at any point.  The
run checks it under the hook (`HookSpec`); `WatchSpec` is the watch alone.

**GossipSubscription** (`gossip.ts`, `gossip.rs`).  The join runs on a worker
(`Joins`, `JoinFails`, `Starts`), the forwarding task after it; `sending` are
the broadcasts in flight, each of which holds a reference to the subscription
beside the registry's, and the last reference to go aborts the forwarding task.
**GossipHook** (`useGossip.ts`) adds one run of the effect of `useGossip`, if
`hooked`: `due` are its continuations on `joined` and on its two loops, which
all set one status.  Of the events, a message or a neighbour that comes up marks
the hook joined; others do not, and the model does not tell which one it is.

**BridgeCalls** (`hybrid_iroh_spec.rs`, `hybrid_iroh.rs`, `lib.rs`, `runtime.rs`).
Every method of the native interface: its shim says what it brings in (a
completer, callbacks), its method what becomes of it (`kind`).  A call is
`Enter`ed, then refused, answered, spawned or panics in place; the task it
spawned completes, panics, ends, or is aborted by the call that stops it.
`owners` says which places (the frame of the call, its task, the worker inside)
still own each completer and callback; `LetGo` is what dropping them does, as
`Drop` of the completer and of the boxed functions has it.  `using` is the
reference that a broadcast, or an opening stream, holds to the registration it
looked up: `Stops` aborts what it removes only if nobody else uses it, and
otherwise the last of these tasks does as it ends (`TaskEnds`).

## 4. What the runs show

| run | shows |
|---|---|
| `downloads` | slots, completions, registrations and children are accounted for in every interleaving of a collection and a download over one slot; cancelling and closing settle everything although the network never answers; the gate implements a first-come first-served pool |
| `message_queue` | conservation, order, no hanging consumer, one error, told losses |
| `byte_stream` | one verdict on a stream, nothing left behind, reads are a prefix, every end is heard |
| `stream_send` | no torn frame, items in order and an orderly end behind them (refinement of `FrameChannel`), every send and the close answered |
| `connections` | every live stream has an owner; answers after a close lead to objects that are on their way out; nothing native survives a connection or an endpoint |
| `stream_listener` | one owner of the receiver, live connections have an owner, closing the endpoint releases all |
| `progress` | the last count is seen before success, by listener and loop; counts increase until a cancel and are rate-limited; the destination is replaced only by a whole file; everything ends |
| `endpoint` | a running watch for everyone attached, the newest address arrives and is the last word unless a stopped watch had an older one in hand, an endpoint whose effect is torn down is closed |
| `gossip` | no lost events, no subscription without owner, a status that claims neither more nor less than there is, leaving and broadcasting complete |
| `bridge_calls` | every completer and callback has a living owner until used or released, every promise settles once, stops release callbacks, be it by the last task that used the registration |
| `stream_finish_drops`, `listener_unconsumed` | disagreements with the doc comments, section 7 |

All runs disable the deadlock check: an endpoint that is closed, a stream that
is finished and a transfer that is settled really stop.

### Bounds

Each bound is a CONSTANT named in the module.  Three downloads over one slot, of
which up to two are a collection's, give a holder, a waiter and one between
them (cancelled in the queue, or begun while another releases), and a child that
fails beside one that runs and one that waits.  A queue of capacity 2 with five
pushes and five calls overflows twice and parks several consumers; what a queue
does depends on its length and its waiters only.  Two sends of up to two units
with a frame limit of one, a window of two units and a header of two fill the
window inside a header, refuse a frame, and leave one send waiting behind
another and the close behind both.  Two streams and a backlog of one evict, and
let an open race an accept.  Two subscribers and two watches give a watch stopped
before its id and one started after it, with both ids on the bridge.  Three
counts and two intervals let the coalescer suppress, replace, flush and let two
emissions overlap.  Two connections with room for one each in the backlog and
the queue refuse, evict and strand; two listeners follow one another.  Three
calls, made in any order, are a subscription, a broadcast that uses it and the
unsubscribe that removes it meanwhile; calls interact through registrations and
the shared runtime only.  `bridge_calls` takes one method of every shape (12 of the
27): each of the others differs from one of these in the names of the method and
of its callbacks, or cannot refuse where this one can.  The proofs are of all 27.  What section 5 lists is also proved for
every size; for liveness these bounds are all there is.

### Fairness

Weak fairness of a thread stands for: the operating system runs it.  The
JavaScript thread takes its tasks and leaves its calls (`JsThread`, `CollectionJs`,
`HookJs`, `Continuations`), the runtime polls a ready future (`SelectCancel`,
`SelectJoin`, `Complete`, `Reads`, `Observes`, `Reports`, `Locks`, `AbortLands`, ...), a task of the
blob store runs (`Store`), creating an endpoint ends (`create_inner`), and
shutdown of iroh completes (`ShutdownCompletes`, `NativeClosed`, `EndpointCloses`)
and with it the fetches on that endpoint.  The application owes nothing, except
that the body of its progress loop returns (`LoopNext`).  A network owes nothing:
in `downloads`, `progress` and `gossip` a fetch, a manifest or a join may hang for
ever.  In `stream_send` the peer's read task runs until its application closes the
stream.  A dial or an open that was asked for is answered in some way
(`Connections`), as QUIC's timeouts see to, and the work behind a promise other
than a download ends, be it by a panic (`BridgeCalls`).

## 5. What is proved

`DownloadsProofs`, for every finite set of transfers and every limit: `TypeOK`,
`SlotsAccounted`, `NoIdleSlot`, `CancelNotForgotten`, `SettledNotRegistered`,
`OneCompletionOwed`, the action property `SettledNeverStarts`, the refinement
`ImplementsPool`, and `NoOrphans` of `Collections`.  Assumptions: `MaxConcurrent` is a
positive natural number (`endpoint.ts` normalises it), `Transfer` is finite,
`None` is no transfer.  `SlotsAccounted` alone is not inductive: that a release
finds its slot needs to know that a transfer is queued, natively live or owed a
completion, and only one of these.  `IInv` adds this: `QueueInv` (the queue
holds transfers not begun, once each), `LifeInv` (what the controller's and the
native state say about each other), `BridgeInv` (start and completion tasks are
unique and in order), `OwedInv` (each begun, unsettled transfer has a live task
or a completion on the bridge) and `StartInv` (until JavaScript has heard of a
registered transfer's id, its `onStart` is on the way).  The refinement needs
one more fact, `WaitsInQueue` (whoever waits is in the queue), and one lemma per
kind of step: the loop skipping a settled head is a stutter (`PoolSkips`), taking
the head admits the first in line (`PoolAdmits`), and so on.  A step of a
collection can cancel several downloads at once and is then no step of
`Downloads`; `NoOrphans` rests on less, that no step takes back an outcome or a
cancel (`DownloadKeeps`, `CancelAllKeeps`), and on how far the collection is
(`CollectionStages`).  Besides, `Children` are transfers.

`MessageQueueProofs`, for every capacity and both meanings of a lag, with the
numbers of pushes and calls bounded by arbitrary naturals: `TypeOK`,
`EveryValueAccounted`, `InOrder`, `NobodyHangs`, `ErrorReachesOne`, `HolesAreTold` and
`NoHole`.
The invariant is arithmetic: the buffer holds the newest accepted values and the
waiters are the newest calls, so that what has left the buffer and what was
answered are prefixes, and one of the two sequences is always empty.  For
`HolesAreTold`, `HolesInv` adds that an open queue has discarded no more than it
counted; what closing discards is newer than anything delivered.

The same module carries this over to `ByteStream`, for every capacity, chunks and
calls bounded by arbitrary naturals: `OneStory`, `SettledReleases`, `PrefixRead`, and
that `StreamSpec` implements the specification of `MessageQueue` with a fatal lag
(`DataIsAQueue`).  Every step of the stream is one of the queue's operations or
leaves it alone, so the queue's invariant is carried by the queue's lemmas.  What
is new counts the chunks on the bridge (`Typed`) and relates the queue's end, the
settlement of `closed`, the registry and the read task (`EndInv`).

`StreamSendProofs`, for any numbers and sizes of sends, any frame limit and any
positive window: `NeverTruncated` and the refinement `ImplementsChannel`.  The
invariant follows a unit from the sender to the application.  `LockInv` and
`SendInv` say who may be writing; `WireInv` that the wire is what was written, in
runs, one per frame; `TornInv` that a frame not complete at the end of the wire is
still being written by the lock's holder, or that nobody reads or the connection
is gone; `PartialInv` that the reader is assembling the frame of the last unit it
took; `ChunkInv` and `OutcomeInv` what it has delivered and was told.  So FIN, which
`close()` sends as a holder of the lock, never cuts a frame.  Over this each
write of a frame's last unit is a `Put`, each read of it a `Get`, each end of the
reader an `End`, and every other step a stutter.

`ConnectionsProofs`, for every finite set of streams and every backlog:
`StreamHasOwner`, `LateStreamsAreEnding` and, behind them, `HandleInv`: a native
handle is registered exactly while its JavaScript controller lives or its single
announcement is on the bridge.  `OwnerInv` says in whose hands a live stream is,
`ReadInv` that a live stream whose read task is over has its end on the bridge,
`DialInv` how far the dial is.  Assumption: `"connection"` is not a stream.

`StreamListenerProofs`, for every finite set of connections and any number of
listeners, backlog and capacity: `LiveHasOwner`.  It needs to know that closing a
listener's queue closes live connections only, and that what is announced was
never live before, or an eviction or a late announcement could bring a closed
connection back.  So a connection is at one station at a time (`Stations`): in the
channel once while it waits, announced on the bridge once while the registry has
it without a controller; and what a queue holds has had its controller
(`QueuedInv`).  Hence `ClosedStayClosed`, an action property.  `ReleaseOwed` is the
safety core of `CloseReleasesAll`: after the endpoint has closed QUIC has no
connection open, and a live one that was reported ended has that report on the
bridge; with `Stations` nothing native is left that no task or report is owed.

`ProgressProofs`, for any payload and number of intervals: `FinalProgressSeen`,
`Coalesced` and `DestinationSafe`.  The counts increase along their way (suppressed,
taken by one of two threads, on the bridge, seen) until somebody cancels
(`OrderInv`), the newest offered is at one of its stations (`NewestInv`), the
settlement is behind all of them (`SettleInv`), the loop is at the last one seen
or has it kept (`LoopInv`), emissions are paid for by intervals (`RateInv`), and the
disk follows the task's phase (`PhaseInv`, `DiskInv`).

`GossipProofs`, for any numbers of broadcasts and events: `NothingLostWhileLive`
and `EndedOnceKnown`, of the subscription and under the hook, and `StatusIsTrue`.
The start task carries the id: it is on the bridge once, after the registry has
the subscription, and until it is taken nobody can have removed that entry
(`StartInv`, `ReadyInv`); events are counted where they are (`EventsInv`).  The hook
follows: what its status does not say yet is among its continuations (`DueInv`,
`StatusInv`).

`BridgeCallsProofs`, for every set of calls and every subset of the 27 methods:
`EverythingIsOwned`, that is, `TypeOK` with at most one settlement of each
promise, an owner for each unsettled promise, a living place for each owner, and
nothing left of a call that failed in place.  Assumptions: `Methods` are methods
of the interface, `None` is neither a call nor a method.  The property does not
carry itself over a step: that a join settles no promise and that a stop owns
nothing follows from the table of methods (`MethodFacts`), provided that a call owns
only what its method brought in (`OwnedWasBrought`); that a call which fails in
its frame is left with nothing needs that, without a task, there is no worker and
no announcement (`TaskComesFirst`); and a new call starts clean because an unmade
one has left no trace (`UnmadeIsBlank`, `FrameIsOpen`).  `LetGoKeeps` is the step
all actions share: dropping places shrinks ownership and settles the promise
exactly when its completer's last owner goes.  `StoppedIsFreed` is the safety core
of `StoppedLetsGo`: what a stop has removed runs on only while the task of another
call uses it.  Behind it are that a task which uses a registration runs
(`UsersRun`), and that what was stopped is not found again, so that it gets no new
users (`StoppedIsGone`).

The same module holds the other side of the interface, `EndpointHook` over
`AddrWatch`, for any finite set of subscribers and any number of watches and
addresses: `ServedWhileAttached`, for the watch alone and under the hook.
`IdsRun` strengthens it: an id is at one place only (in the call that is
returning it, on the bridge once, or on record), and its watch runs, wherever it
is.  Only the id on record can be stopped, so an id that comes late never names
a stopped watch.  `Owed` follows the endpoint: its announcement is on the bridge
at most once, while the endpoint is open and nobody has it.  With it goes
`NothingForgotten`, the safety core of `TornDownIsClosed`: after the effect was
torn down an open endpoint is announced yet, and closed on arrival; a closed one
has ended its fan-out, or that task is on the bridge.  That no state is set after
tear-down is an action property (`QuietOnceTorn`).

Proofs stay away from recursion over data, which the provers cannot induct on:
the abstract specifications say with sets and orders what a fold over a sequence
would compute, and the invariants say with quantifiers what is where.

Left to TLC: everything about liveness and fairness (`CollectionSettles`,
`CancelAndCloseSettle`, `EndIsHeard`, `SendsSettle`, `CloseIsHeard`, `NothingSurvives`,
`CloseReleasesAll`, `SettlesAndEndsTheLoop`, `ChangesArrive`, `TornDownIsClosed`,
`LeavesTheTopic`, `BroadcastsSettle`, `EveryPromiseSettles`, `StoppedLetsGo`), which
is out of the prover's reach.

## 6. Not modelled

Contents (bytes, tickets, addresses, error codes), logging, parsing and
formatting, among them the details of `relayMode` and of ALPN names; what sharing
and importing do to the blob store; `memory_size`.  A shim panics on an enum value
its type does not have (`hybrid_iroh_spec.rs:234` and `:1389`): the TypeScript types
exclude it, so `BridgeCalls` has panics of the runtime and of the work, not of
conversions.  `useTransfer` and what the hooks keep for rendering: React state
with no protocol behind it.  `online`, `remoteInfo` and `addr` are calls without
state of their own.  iroh itself, the blob store and the bridge library are
external: they deliver, fail or hang.

## 7. Disagreements with the documentation

Two are kept as runs that TLC must find violated.

- `stream_finish_drops`: a peer's orderly finish closes the queue of chunks, which
  discards what a slow consumer has not read (`streams.ts:331`,
  `message-queue.ts:128`), although `Stream.data` promises the chunks received.
- `listener_unconsumed`: a connection announced while its listener closes is
  wrapped, subscribed and then pushed into a closed queue, which ignores it
  without `onDropped` (`message-queue.ts:91`): it stays open without an owner.

Others were met on the way and follow from the same models:

- `endpoint.ts:598-612` promises the current address on each change and a consumer
  that observes "only the newest".  A watch task that has taken an address when it
  is stopped posts it all the same (`endpoint.rs:441`), possibly after the watch
  started in its place has posted a newer one: the older address is then the last
  that listeners hear.  `ChangesArrive` says so: the newest arrives, and what is
  heard after it can only come from a stopped watch.
- Leaving, or closing the endpoint, before the address watch's id has come finds
  `addressWatchId` null and stops nothing (`endpoint.ts:685`); the native watch,
  with its clone of the endpoint, runs on, although `endpoint.ts:601` says that it
  "runs only while at least one subscriber" is attached.  The comment in
  `hybrid_iroh.rs:265` expects `onStart` to be synchronous; its type in the native
  interface is a plain callback, which the bridge posts.
- "Removes an existing file ... so a download overwrites it" (`blobs.rs:447`) holds
  for downloads one after the other: of two that overlap on one path, one may
  fail with `EEXIST`, or remove what the other has just written.
- `download_blob` enters its transfer in `TRANSFERS` before it spawns
  (`blobs.rs:338`).  If spawning panics, the promise is rejected and the entry stays,
  under an id that nobody was told.
- An endpoint that closes while `useGossip` is joining leaves the hook in "error",
  although `useGossip.ts:36-39` promises "closed": `unsubscribe` rejects `joined`, the
  effect is still active (`useGossip.ts:145-147` thinks of a cleanup only), and
  `useGossip.ts:124` keeps errors.  `StatusIsTrue` does not take sides: it asks for
  "error" when a join fails and for "closed" when a joined subscription ends, and
  accepts either here.
- Streams and connections pushed into a queue whose loop was left are kept by
  nobody and stay open until their connection, or the endpoint, closes.
- `return()` of a `MessageQueue` closes the queue only.  `streams.ts:60`
  ("breaking out of a loop closes the stream") and `gossip.ts:68` ("`break`ing
  out of a loop ends the subscription") promise more; the native stream or
  subscription lives on.
- `transfer.ts:9` calls `bytesReceived` "Monotonically non-decreasing": after a
  cancel, the flushed count and one that the aborted task has taken and not
  posted can cross (`coalesce.rs:60`).
- `iroh.nitro.ts:150` promises `onStart` "before any progress is reported": the
  task is spawned before `on_start` is called (`hybrid_iroh.rs:347`).
- `endpoint.ts:598` promises the current address "soon after subscribing": the
  native watch reports it once, when it starts, and `Watchable` keeps nothing for
  whoever joins later.
