------------------------------ MODULE StreamSend ------------------------------
(***************************************************************************)
(* The sending side of one QUIC stream: StreamController.send and close of *)
(* src/src/streams.ts, the tasks stream_send and stream_close spawn, which *)
(* queue for the send half behind a fair async mutex, and the peer's       *)
(* read_framed or read_raw (streams.rs).                                   *)
(*                                                                         *)
(* Bytes are counted in units: a header of HeaderSize of them announces a  *)
(* payload, and write_all may be held up or fail after any of them.        *)
(***************************************************************************)
EXTENDS Naturals, Sequences, SequencesExt

CONSTANTS MaxSend,   \* bound: calls of send()
          MaxSize,   \* bound: the size of a payload
          MaxFrame,  \* MAX_FRAME_SIZE
          Window     \* what QUIC takes in ahead of the reader

ASSUME SizesAssumption ==
  MaxSend \in Nat /\ MaxSize \in Nat /\ MaxFrame \in Nat /\ Window \in Nat \ {0}

VARIABLES
  framing,     \* RawStream.framing: "framed" or "raw", the same at both ends
  open,        \* not settled, and its handle in STREAMS
  task,        \* the task of each send, and that of close()
  size,        \* the payload of each send
  written,     \* how much each has written, its header included
  lock,        \* RawStream.send: who holds it, then who waits for it
  wire,        \* what was written
  finished,    \* FIN follows it
  connection,  \* "up", "closed" (by either side, on purpose) or "lost"
  reader,      \* the peer's read task: "reading" or "gone"
  taken,       \* how much of the wire it has read
  partial,     \* what it has read of the item it is assembling
  chunks,      \* what it has delivered
  outcome      \* what it told on_close: "none", "orderly" or "failed"

ourVars == <<framing, open, task, size, written, lock, wire, finished>>
peerVars == <<reader, taken, partial, chunks, outcome>>
vars == <<ourVars, connection, peerVars>>

Sends == 1..MaxSend
Closer == 0
HeaderSize == 2

Header == IF framing = "framed" THEN HeaderSize ELSE 0
Length(i) == Header + size[i]
Unit(i, k) == [send |-> i, unit |-> k]
Holds(t) == lock # << >> /\ Head(lock) = t
-------------------------------------------------------------------------------
(* The JavaScript thread.                                                    *)

\* stream_send, of a stream that is not settled; too large a frame is refused.
stream_send(i, n) ==
  /\ open
  /\ task[i] = "none" /\ \A j \in 1..(i - 1) : task[j] # "none"
  /\ size' = [size EXCEPT ![i] = n]
  /\ task' = [task EXCEPT ![i] = IF framing = "framed" /\ n > MaxFrame
                                 THEN "failed" ELSE "spawned"]
  /\ UNCHANGED <<framing, open, written, lock, wire, finished, connection, peerVars>>

\* Mutant: close() finishes the stream without waiting for the lock.
StreamCloseUnlocked ==
  /\ open
  /\ open' = FALSE
  /\ finished' = TRUE
  /\ task' = [task EXCEPT ![Closer] = "done"]
  /\ UNCHANGED <<framing, size, written, lock, wire, connection, peerVars>>

\* Mutant: close() gives up when a send holds the lock.
StreamCloseTries ==
  /\ open
  /\ open' = FALSE
  /\ task' = [task EXCEPT ![Closer] = IF lock = << >> THEN "spawned" ELSE "done"]
  /\ UNCHANGED <<framing, size, written, lock, wire, finished, connection, peerVars>>

\* StreamController.finish, by close() or by an end of the other direction, down
\* to stream_close: the handle goes at once, the finish is a task.
stream_close ==
  /\ open
  /\ open' = FALSE
  /\ task' = [task EXCEPT ![Closer] = "spawned"]
  /\ UNCHANGED <<framing, size, written, lock, wire, finished, connection, peerVars>>
-------------------------------------------------------------------------------
(* The tasks, in any order until they have asked for the lock.               *)

Locks(t) ==
  /\ task[t] = "spawned"
  /\ task' = [task EXCEPT ![t] = "locking"]
  /\ lock' = Append(lock, t)
  /\ UNCHANGED <<framing, open, size, written, wire, finished, connection, peerVars>>

\* WriteError: the stream is finished, the peer has stopped it, or the connection
\* is gone.
Unwritable == finished \/ reader = "gone" \/ connection # "up"

\* Mutant: the lock is dropped after the header and taken again.
WritesUnlockedBetween(i) ==
  /\ Holds(i) /\ written[i] < Length(i) /\ ~Unwritable /\ Len(wire) - taken < Window
  /\ written' = [written EXCEPT ![i] = @ + 1]
  /\ wire' = Append(wire, Unit(i, written[i] + 1))
  /\ lock' = IF written[i] + 1 = Header THEN Append(Tail(lock), i) ELSE lock
  /\ UNCHANGED <<framing, open, task, size, finished, connection, peerVars>>

\* write_all, of the header and then of the payload, as far as QUIC takes it.
Writes(i) ==
  /\ Holds(i)
  /\ written[i] < Length(i)
  /\ ~Unwritable
  /\ Len(wire) - taken < Window
  /\ written' = [written EXCEPT ![i] = @ + 1]
  /\ wire' = Append(wire, Unit(i, written[i] + 1))
  /\ UNCHANGED <<framing, open, task, size, lock, finished, connection, peerVars>>

Unlocks(t, result) ==
  /\ task' = [task EXCEPT ![t] = result]
  /\ lock' = Tail(lock)
  /\ UNCHANGED <<framing, open, size, written, wire, connection, peerVars>>

\* Mutant: a failed write leaves without the guard being dropped.
WriteFailsLocked(i) ==
  /\ Holds(i) /\ written[i] < Length(i) /\ Unwritable
  /\ task' = [task EXCEPT ![i] = "failed"]
  /\ UNCHANGED <<framing, open, size, written, lock, wire, finished, connection, peerVars>>

WriteFails(i) ==
  /\ Holds(i)
  /\ task[i] = "locking"
  /\ written[i] < Length(i)
  /\ Unwritable
  /\ Unlocks(i, "failed")
  /\ UNCHANGED finished

Sent(i) ==
  /\ Holds(i)
  /\ written[i] = Length(i)
  /\ Unlocks(i, "done")
  /\ UNCHANGED finished

\* finish().ok(), behind every send that has asked for the lock before.
Finishes ==
  /\ Holds(Closer)
  /\ finished' = (finished \/ ~Unwritable)
  /\ Unlocks(Closer, "done")
-------------------------------------------------------------------------------
(* The peer's end of it, and the network between.                            *)

\* read_exact and read: one unit more; a whole item is delivered.  A header that
\* announces too much ends the reading.
Reads ==
  /\ reader = "reading"
  /\ taken < Len(wire)
  /\ taken' = taken + 1
  /\ LET read == Append(partial, wire[taken + 1])
         announced == size[read[1].send]
         tooLarge == framing = "framed" /\ Len(read) = Header /\ announced > MaxFrame
         whole == framing = "raw" \/ (Len(read) >= Header /\ Len(read) = Header + announced)
     IN /\ chunks' = IF whole THEN Append(chunks, read) ELSE chunks
        /\ partial' = IF whole THEN << >> ELSE read
        /\ reader' = IF tooLarge THEN "gone" ELSE "reading"
        /\ outcome' = IF tooLarge THEN "failed" ELSE outcome
  /\ UNCHANGED <<ourVars, connection>>

\* FIN: orderly between two frames, an error within one.
ReadsEnd ==
  /\ reader = "reading"
  /\ finished /\ taken = Len(wire)
  /\ reader' = "gone"
  /\ outcome' = IF partial = << >> THEN "orderly" ELSE "failed"
  /\ UNCHANGED <<ourVars, connection, taken, partial, chunks>>

\* read_close_reason: a connection closed on purpose counts as an orderly end,
\* whatever it cuts off.
ReadsConnectionEnd ==
  /\ reader = "reading"
  /\ connection # "up"
  /\ reader' = "gone"
  /\ outcome' = IF connection = "closed" THEN "orderly" ELSE "failed"
  /\ UNCHANGED <<ourVars, connection, taken, partial, chunks>>

\* The peer's application closes its stream: the read task is aborted, which drops
\* the receive half and stops the sender.
PeerCloses ==
  /\ reader = "reading"
  /\ reader' = "gone"
  /\ UNCHANGED <<ourVars, connection, taken, partial, chunks, outcome>>

ConnectionEnds(how) ==
  /\ connection = "up"
  /\ connection' = how
  /\ UNCHANGED <<ourVars, peerVars>>
-------------------------------------------------------------------------------
Init ==
  /\ framing \in {"framed", "raw"}
  /\ open = TRUE
  /\ task = [t \in 0..MaxSend |-> "none"]
  /\ size = [i \in Sends |-> 0]
  /\ written = [i \in Sends |-> 0]
  /\ lock = << >>
  /\ wire = << >>
  /\ finished = FALSE
  /\ connection = "up"
  /\ reader = "reading"
  /\ taken = 0
  /\ partial = << >>
  /\ chunks = << >>
  /\ outcome = "none"

Next ==
  \/ \E i \in Sends, n \in 0..MaxSize : stream_send(i, n)
  \/ stream_close
  \/ \E t \in 0..MaxSend : Locks(t)
  \/ \E i \in Sends : Writes(i) \/ WriteFails(i) \/ Sent(i)
  \/ Finishes
  \/ Reads \/ ReadsEnd \/ ReadsConnectionEnd \/ PeerCloses
  \/ \E how \in {"closed", "lost"} : ConnectionEnds(how)

(* Both runtimes poll what is ready; nobody has to send, close or disconnect. *)
Spec ==
  /\ Init /\ [][Next]_vars
  /\ \A t \in 0..MaxSend : WF_vars(Locks(t))
  /\ WF_vars(Finishes \/ \E i \in Sends : Writes(i) \/ WriteFails(i) \/ Sent(i))
  /\ WF_vars(Reads \/ ReadsEnd \/ ReadsConnectionEnd)
-------------------------------------------------------------------------------
\* Every variable keeps its type.
TypeOK ==
  /\ framing \in {"framed", "raw"} /\ open \in BOOLEAN /\ finished \in BOOLEAN
  /\ task \in [0..MaxSend -> {"none", "spawned", "locking", "done", "failed"}]
  /\ size \in [Sends -> 0..MaxSize]
  /\ \A i \in Sends : written[i] \in 0..Length(i)
  /\ \A t \in 0..MaxSend : task[t] = "locking" <=> t \in Range(lock)
  /\ connection \in {"up", "closed", "lost"} /\ reader \in {"reading", "gone"}
  /\ taken \in 0..Len(wire)
  /\ outcome \in {"none", "orderly", "failed"}

\* The abstract channel: a frame is in it once its last byte is written, and out
\* of it once it is delivered as it was sent.
Whole(chunk) ==
  LET i == Last(chunk).send IN
  framing = "raw" \/ chunk = [k \in 1..Length(i) |-> Unit(i, k)]
EndsItem(u) == framing = "raw" \/ u.unit = Length(u.send)

Channel == INSTANCE FrameChannel WITH
  Items <- {Unit(i, k) : i \in Sends, k \in 1..(HeaderSize + MaxSize)},
  put   <- {[item |-> wire[p], time |-> p] : p \in {q \in DOMAIN wire : EndsItem(wire[q])}},
  got   <- [j \in DOMAIN chunks |-> IF Whole(chunks[j]) THEN Last(chunks[j]) ELSE "torn"],
  end   <- IF reader = "reading" THEN "open"
           ELSE IF outcome = "orderly" /\ finished /\ taken = Len(wire) THEN "orderly" ELSE "cut"

\* "Concurrent sends serialize" (streams.rs:400): whatever sends overlap, fail
\* half-way or race close(), the peer gets whole frames, each once, in the order
\* they were written, and an orderly end only after the last one.
ImplementsChannel == Channel!Spec

\* Every variable keeps its type, and what the peer is told at the end is true.  It is
\* told of a truncated or oversized frame only when the connection was lost, also when
\* close() comes in the middle of one ("`finish` needs the send half exclusively",
\* streams.rs:443); and an orderly end that no closing connection forged comes after
\* every send that resolved.
NeverTruncated ==
  /\ TypeOK
  /\ outcome = "failed" => connection = "lost"
  /\ outcome = "orderly" /\ connection # "closed" =>
       \A i \in Sends : task[i] = "done" /\ Length(i) > 0 =>
         \E j \in DOMAIN chunks : Last(chunks[j]) = Unit(i, Length(i))

\* Every send settles, although the peer stops reading or the stream is closed,
\* and whatever failed before it.
SendsSettle ==
  \A i \in Sends : task[i] = "spawned" ~> task[i] \in {"done", "failed"}

\* close(): "The peer sees an orderly end of stream" (streams.ts), if it stays and
\* the connection does.
CloseIsHeard ==
  ~open ~> outcome = "orderly" \/ reader = "gone" \/ connection # "up"
===============================================================================
