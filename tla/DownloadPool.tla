----------------------------- MODULE DownloadPool -----------------------------
(***************************************************************************)
(* What an endpoint promises about its downloads, without saying how: a    *)
(* first-come first-served pool of at most Capacity running transfers.  A  *)
(* transfer that is still waiting can be cancelled on the spot and then    *)
(* never runs; a running one ends in exactly one outcome; closing the      *)
(* endpoint cancels everyone who is still waiting.                         *)
(*                                                                         *)
(* The promise is the one the doc comments of src/src/transfer.ts (lines   *)
(* 34-66) and src/src/endpoint.ts (lines 929-940, 983-1001) make; module   *)
(* Downloads, translated from the code, is shown to implement it.          *)
(***************************************************************************)
EXTENDS Naturals, FiniteSets

CONSTANTS Transfer,     \* the transfers an application may create
          Capacity      \* how many of them may run at once

VARIABLES waiting,      \* the live transfers in line
          ahead,        \* who is ahead in line of each transfer
          running,      \* the transfers that hold a slot and have no outcome
          result        \* what the application sees of each transfer

poolVars == <<waiting, ahead, running, result>>

Results == {"absent", "pending", "ok", "failed", "cancelled"}

PoolInit ==
  /\ waiting = {}
  /\ ahead = [t \in Transfer |-> {}]
  /\ running = {}
  /\ result = [t \in Transfer |-> "absent"]

JoinLine(t) ==
  /\ waiting' = waiting \cup {t}
  /\ ahead' = [ahead EXCEPT ![t] = waiting]

LeaveLine(t) ==
  /\ t \in waiting
  /\ waiting' = waiting \ {t}
  /\ ahead' = [u \in Transfer |-> IF u = t THEN {} ELSE ahead[u] \ {t}]

Submit(t) ==
  /\ result[t] = "absent"
  /\ result' = [result EXCEPT ![t] = "pending"]
  /\ JoinLine(t)
  /\ UNCHANGED running

\* Submitted with a signal that is already aborted: it never gets in line.
SubmitCancelled(t) ==
  /\ result[t] = "absent"
  /\ result' = [result EXCEPT ![t] = "cancelled"]
  /\ UNCHANGED <<waiting, ahead, running>>

\* The transfer nobody is ahead of, and there is a slot for it.
Admissible(t) ==
  /\ t \in waiting
  /\ ahead[t] = {}
  /\ Cardinality(running) < Capacity

Start(t) ==
  /\ Admissible(t)
  /\ LeaveLine(t)
  /\ running' = running \cup {t}
  /\ UNCHANGED result

FailToStart(t) ==
  /\ Admissible(t)
  /\ LeaveLine(t)
  /\ result' = [result EXCEPT ![t] = "failed"]
  /\ UNCHANGED running

Settle(t, r) ==
  /\ t \in running
  /\ running' = running \ {t}
  /\ result' = [result EXCEPT ![t] = r]
  /\ UNCHANGED <<waiting, ahead>>

Leave(t) ==
  /\ LeaveLine(t)
  /\ result' = [result EXCEPT ![t] = "cancelled"]
  /\ UNCHANGED running

DismissAll ==
  /\ waiting # {}
  /\ waiting' = {}
  /\ ahead' = [t \in Transfer |-> {}]
  /\ result' = [t \in Transfer |->
                  IF t \in waiting THEN "cancelled" ELSE result[t]]
  /\ UNCHANGED running

PoolNext ==
  \/ \E t \in Transfer : Submit(t) \/ SubmitCancelled(t) \/ Leave(t)
                           \/ Start(t) \/ FailToStart(t)
  \/ \E t \in Transfer, r \in {"ok", "failed", "cancelled"} : Settle(t, r)
  \/ DismissAll

PoolSpec == PoolInit /\ [][PoolNext]_poolVars
===============================================================================
