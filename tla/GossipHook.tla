------------------------------- MODULE GossipHook ------------------------------
(***************************************************************************)
(* useGossip (src/src/hooks/useGossip.ts): one run of its effect over the  *)
(* GossipSubscription it makes, from mount to cleanup.  The status follows *)
(* three signals, `joined`, the loop over the messages and the loop over   *)
(* the neighbours, whose continuations run between two JS tasks.           *)
(*                                                                         *)
(* Without the hook, the application drives the subscription itself.       *)
(***************************************************************************)
EXTENDS GossipSubscription

VARIABLES
  hooked,      \* the subscription is a hook's
  active,      \* the effect's `active`: it has not been cleaned up
  joinedOnce,  \* the effect's `joinedOnce`
  status,      \* the hook's status
  subscriptionRef,  \* subscriptionRef.current is not null
  due          \* continuations of the hook that are due

hookVars == <<active, joinedOnce, status, subscriptionRef>>
allVars == <<vars, hooked, hookVars, due>>

\* The continuations a step makes due: of `joined`, and of a loop's pending next().
NewlyDue ==
  {c \in {"joined", "rejected", "event", "loopEnds", "loopThrows"} :
     hooked /\
     CASE c = "joined"     -> ready # "resolved" /\ ready' = "resolved"
       [] c = "rejected"   -> ready # "rejected" /\ ready' = "rejected"
       [] c = "event"      -> heard' > heard
       [] c = "loopEnds"   -> messages = "open" /\ messages' = "done"
       [] c = "loopThrows" -> messages = "open" /\ messages' = "error"}

\* A step of the subscription, which runs when no continuation is due.
SubscriptionStep(A) ==
  /\ due = {}
  /\ A
  /\ due' = NewlyDue
  /\ UNCHANGED <<hooked, hookVars>>

NativeStep ==
  /\ Native
  /\ UNCHANGED <<hooked, hookVars, due>>
-------------------------------------------------------------------------------
\* markJoined.
MarkJoined ==
  /\ joinedOnce' = TRUE
  /\ status' = IF joinedOnce \/ status = "error" THEN status ELSE "joined"
  /\ UNCHANGED subscriptionRef

\* fail.
Fail ==
  /\ status' = "error"
  /\ UNCHANGED <<joinedOnce, subscriptionRef>>

\* Mutant: a loop that ends says nothing.
MarkClosedNot ==
  UNCHANGED <<joinedOnce, subscriptionRef, status>>

\* markClosed.
MarkClosed ==
  /\ subscriptionRef' = FALSE
  /\ status' = IF status = "error" THEN status ELSE "closed"
  /\ UNCHANGED joinedOnce

\* A continuation runs; once the effect is cleaned up it does nothing.  A message marks the
\* hook joined, of the other events only a neighbour that comes up.
Continue(c) ==
  /\ c \in due
  /\ due' = due \ {c}
  /\ \/ ~active /\ UNCHANGED <<joinedOnce, status, subscriptionRef>>
     \/ active /\ c \in {"joined", "event"} /\ MarkJoined
     \/ active /\ c = "event" /\ UNCHANGED <<joinedOnce, status, subscriptionRef>>
     \/ active /\ c \in {"rejected", "loopThrows"} /\ Fail
     \/ active /\ c = "loopEnds" /\ MarkClosed
  /\ UNCHANGED <<vars, hooked, active>>

\* The effect's cleanup: unmount, or other arguments.
CleanUp ==
  /\ hooked /\ active
  /\ due = {}
  /\ active' = FALSE
  /\ subscriptionRef' = FALSE
  /\ \/ Unsubscribe
     \/ disposed /\ UNCHANGED vars
  /\ due' = NewlyDue
  /\ UNCHANGED <<hooked, joinedOnce, status>>
-------------------------------------------------------------------------------
HookInit ==
  /\ Init
  /\ hooked \in BOOLEAN
  /\ active = hooked
  /\ joinedOnce = FALSE
  /\ status = "joining"
  /\ subscriptionRef = hooked
  /\ due = {}

Continuations == \E c \in due : Continue(c)

\* The endpoint's cascade unsubscribes in either case; broadcast() of the hook reaches
\* the subscription through subscriptionRef.
HookNext ==
  \/ SubscriptionStep(JsThread \/ Unsubscribe)
  \/ SubscriptionStep((hooked => subscriptionRef) /\ \E b \in Broadcasts : Broadcast(b))
  \/ SubscriptionStep(~hooked /\ LoopBreaks)
  \/ NativeStep
  \/ CleanUp
  \/ Continuations

HookSpec == HookInit /\ [][HookNext]_allVars

HookFairSpec ==
  /\ HookSpec
  /\ WF_allVars(SubscriptionStep(JsThread)) /\ WF_allVars(Continuations)
  /\ NativeFairness
-------------------------------------------------------------------------------
\* The hook never claims more than there is: it is "joined" only once the topic was
\* joined or traffic came, and not later than the join; "the hook must stop claiming to be joined and stop
\* routing broadcasts" (useGossip.ts:117-118) when the subscription ends underneath it,
\* which is "closed" unless something failed; a join that fails is an "error", which the
\* loops that end with it do not overwrite.  What a subscription that ends while it is
\* still joining should be called is left open here.
StatusIsTrue ==
  active /\ due = {} =>
    /\ status = "joined" => ~disposed /\ (subIdKnown \/ heard > 0)
    /\ messages = "error" => status = "error"
    /\ ready = "resolved" /\ ~disposed => status = "joined"
    /\ disposed => status \in {"closed", "error"}
    /\ disposed /\ messages = "done" => ~subscriptionRef
    /\ disposed /\ ready = "resolved" => status = "closed"
===============================================================================
