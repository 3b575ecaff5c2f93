----------------------------- MODULE FrameChannel -----------------------------
(***************************************************************************)
(* What one direction of a stream promises: items put in at one end come   *)
(* out at the other whole, once and in the order they went in; an orderly  *)
(* end comes after the last of them, and anything else is a cut.           *)
(*                                                                         *)
(* An item is put in at some time, later than all before it, and what      *)
(* comes out next is the oldest that is not out yet.                       *)
(***************************************************************************)
EXTENDS Naturals, Sequences, SequencesExt

CONSTANT Items   \* what may be put in: sends under "framed", bytes under "raw"

VARIABLES put,   \* the items put in, each with its time
          got,   \* those that have come out, in order
          end    \* "open", "orderly" or "cut"

vars == <<put, got, end>>

IsOut(m) == m.item \in Range(got)

Init == put = {} /\ got = << >> /\ end = "open"

Put(new) ==
  /\ end # "orderly"
  /\ new.item \in Items
  /\ \A m \in put : m.item # new.item /\ m.time < new.time
  /\ put' = put \cup {new}
  /\ UNCHANGED <<got, end>>

Get(m) ==
  /\ end = "open"
  /\ ~IsOut(m)
  /\ \A k \in put : k.time < m.time => IsOut(k)
  /\ got' = Append(got, m.item)
  /\ UNCHANGED <<put, end>>

End ==
  /\ end = "open"
  /\ end' \in IF \A m \in put : IsOut(m) THEN {"orderly", "cut"} ELSE {"cut"}
  /\ UNCHANGED <<put, got>>

Next ==
  \/ \E new \in put' \ put : Put(new)
  \/ \E m \in put : Get(m)
  \/ End

Spec == Init /\ [][Next]_vars
===============================================================================
