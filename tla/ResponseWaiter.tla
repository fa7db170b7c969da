--------------------------- MODULE ResponseWaiter ---------------------------
(***************************************************************************)
(* BrokerManager.AwaitResponse (internal/coordinator/broker/response.go):  *)
(* concurrent calls that wait for a live reply on one response topic.      *)
(*                                                                         *)
(* Calls share the topic's routing entry, its MQTT subscription and a lock *)
(* (topicLock) that serialises SUBSCRIBE and UNSUBSCRIBE.  The receiving   *)
(* goroutine of the MQTT client fans every message out to the calls; the   *)
(* connection may drop, and what was live is subscribed again when it is   *)
(* back.  Topics are independent of each other, so one is enough.          *)
(***************************************************************************)
EXTENDS Naturals, Sequences

CONSTANTS
  Waiters,         \* calls of AwaitResponse on this topic
  None,            \* nobody, as the holder of the lock
  BufferSize,      \* pendingWaiterBuffer
  MaxMessages,     \* bound: messages received on the topic
  MaxDrops         \* bound: times the connection drops

ASSUME NoneAssumption == None \notin Waiters
ASSUME BoundsAssumption ==
  BufferSize \in Nat \ {0} /\ MaxMessages \in Nat /\ MaxDrops \in Nat

VARIABLES
  pc,          \* pc[w]: where w stands in AwaitResponse
  result,      \* result[w]: what it returns
  routing,     \* respTopics: the registered waiters
  lock,        \* topicLock: its holder
  buffer,      \* buffer[w]: the deliveries queued for w
  connected,   \* the connection to the broker is up
  subscribed,  \* the broker sends this client what arrives on the topic
  resubscribe, \* onConnectionUp: what it has still to do
  unserved,    \* the last onConnectionUp failed to subscribe
  leftover,    \* a subscription was knowingly left to the next reconnect
  replay,      \* the broker is to replay the topic's retained message
  dispatch,    \* the message being fanned out
  kept,        \* calls a message has reached that counts for them
  messages, drops

connectionVars == <<connected, resubscribe, unserved, drops>>
dispatchVars == <<dispatch, messages>>
vars == <<pc, result, routing, lock, buffer, connected, subscribed,
          resubscribe, unserved, leftover, replay, dispatch, kept, messages, drops>>

Steps == {"idle", "register", "subscribe", "rollback", "publish", "publishing",
          "wait", "release", "relock", "recheck", "unsubscribe", "done"}
Results == {"none", "reply", "noReply", "failedBeforePublish"}

\* A queued delivery: was it live, and was it received at or after publishedAt.
Delivery == [live : BOOLEAN, fresh : BOOLEAN]
NoDispatch == [pc |-> "idle", live |-> TRUE, to |-> {}, fresh |-> {}]

TypeOK ==
  /\ pc \in [Waiters -> Steps]
  /\ result \in [Waiters -> [why : Results, delivery : Delivery]]
  /\ routing \subseteq Waiters
  /\ lock \in Waiters \cup {None}
  /\ buffer \in [Waiters -> Seq(Delivery)]
  /\ \A w \in Waiters : Len(buffer[w]) <= BufferSize
  /\ connected \in BOOLEAN /\ subscribed \in BOOLEAN /\ unserved \in BOOLEAN
  /\ resubscribe \in {"none", "list", "send"}
  /\ leftover \in BOOLEAN /\ replay \in BOOLEAN
  /\ dispatch \in [pc : {"idle", "handled", "fanout"}, live : BOOLEAN,
                   to : SUBSET Waiters, fresh : SUBSET Waiters]
  /\ kept \subseteq Waiters
  /\ messages \in 0..MaxMessages
  /\ drops \in 0..MaxDrops

NoResult == [why |-> "none", delivery |-> [live |-> TRUE, fresh |-> TRUE]]

Init ==
  /\ pc = [w \in Waiters |-> "idle"]
  /\ result = [w \in Waiters |-> NoResult]
  /\ routing = {} /\ kept = {}
  /\ lock = None
  /\ buffer = [w \in Waiters |-> <<>>]
  /\ connected = TRUE /\ subscribed = FALSE /\ unserved = FALSE
  /\ resubscribe = "none"
  /\ leftover = FALSE /\ replay = FALSE
  /\ dispatch = NoDispatch
  /\ messages = 0 /\ drops = 0

At(w, step) == pc[w] = step
GoTo(w, step) == pc' = [pc EXCEPT ![w] = step]
Return(w, why, delivery) ==
  result' = [result EXCEPT ![w] = [why |-> why, delivery |-> delivery]]

-----------------------------------------------------------------------------
(***************************************************************************)
(* registerResponseWaiter.                                                 *)
(***************************************************************************)

Call(w) ==
  /\ At(w, "idle")
  /\ GoTo(w, "register")
  /\ UNCHANGED <<result, routing, lock, buffer, subscribed, leftover,
                 replay, kept, connectionVars, dispatchVars>>

\* Under the topic's lock, the routing entry comes before the SUBSCRIBE.
Register(w) ==
  /\ At(w, "register")
  /\ lock = None
  /\ lock' = w
  /\ routing' = routing \cup {w}
  /\ GoTo(w, "subscribe")
  /\ UNCHANGED <<result, buffer, subscribed, leftover, replay,
                 kept, connectionVars, dispatchVars>>

\* A new subscription makes the broker replay what it retains on the topic.
Subscribe(w) ==
  /\ At(w, "subscribe")
  /\ connected
  /\ subscribed' = TRUE
  /\ replay' = TRUE
  /\ lock' = None
  /\ GoTo(w, "publish")
  /\ UNCHANGED <<result, routing, buffer, leftover, kept,
                 connectionVars, dispatchVars>>

\* A SUBSCRIBE that fails, though the broker may have taken it, is rolled back
\* by its own caller, inline: the lock is held and not reentrant.
SubscribeFails(w) ==
  /\ At(w, "subscribe")
  /\ IF connected THEN subscribed' \in {subscribed, TRUE} ELSE UNCHANGED subscribed
  /\ replay' = (replay \/ subscribed' # subscribed)
  /\ routing' = routing \ {w}
  /\ Return(w, "failedBeforePublish", NoResult.delivery)
  /\ IF routing' = {}
       THEN GoTo(w, "rollback") /\ UNCHANGED lock
       ELSE GoTo(w, "done") /\ lock' = None
  /\ UNCHANGED <<buffer, leftover, kept, connectionVars,
                 dispatchVars>>

\* unsubscribeNow: best effort.  When it fails the broker goes on delivering
\* until the next reconnect.
UnsubscribeNow ==
  \/ subscribed' = FALSE /\ UNCHANGED leftover
  \/ UNCHANGED subscribed /\ leftover' = (leftover \/ subscribed)

\* Mutations of RollBack: it takes the path of an ordinary release, or does
\* nothing about the broker.
RollBackByRelease(w) ==
  /\ At(w, "rollback")
  /\ GoTo(w, "relock")
  /\ UNCHANGED <<result, routing, lock, buffer, subscribed, leftover,
                 replay, kept, connectionVars, dispatchVars>>
RollBackLocally(w) ==
  /\ At(w, "rollback")
  /\ lock' = None
  /\ GoTo(w, "done")
  /\ UNCHANGED <<result, routing, buffer, subscribed, leftover,
                 replay, kept, connectionVars, dispatchVars>>
RollBack(w) ==
  /\ At(w, "rollback")
  /\ UnsubscribeNow
  /\ lock' = None
  /\ GoTo(w, "done")
  /\ UNCHANGED <<result, routing, buffer, replay, kept,
                 connectionVars, dispatchVars>>

-----------------------------------------------------------------------------
(***************************************************************************)
(* Publish, wait, release.                                                 *)
(***************************************************************************)

\* publishedAt is stamped before the publish call.
Published == {w \in Waiters : pc[w] \in {"publishing", "wait", "release"}}
Stamp(w) ==
  /\ At(w, "publish")
  /\ GoTo(w, "publishing")
  /\ UNCHANGED <<result, routing, lock, buffer, subscribed, leftover, replay,
                 kept, connectionVars, dispatchVars>>

\* Publish returns an error when the connection is down, when the broker
\* refuses the message, and when the acknowledgement of a message that was
\* sent does not come back.
Publish(w) ==
  /\ At(w, "publishing")
  /\ \/ /\ connected
        /\ GoTo(w, "wait")
        /\ UNCHANGED result
     \/ /\ GoTo(w, "release")
        /\ Return(w, "failedBeforePublish", NoResult.delivery)
  /\ UNCHANGED <<routing, lock, buffer, subscribed, leftover, replay, kept,
                 connectionVars, dispatchVars>>

\* Only a delivery at or after publishedAt is evidence about this publish.
Counts(delivery) == delivery.fresh

Receive(w) ==
  /\ At(w, "wait")
  /\ buffer[w] # <<>>
  /\ buffer' = [buffer EXCEPT ![w] = Tail(@)]
  /\ IF Counts(Head(buffer[w]))
       THEN Return(w, "reply", Head(buffer[w])) /\ GoTo(w, "release")
       ELSE UNCHANGED <<result, pc>>
  /\ UNCHANGED <<routing, lock, subscribed, leftover, replay, kept,
                 connectionVars, dispatchVars>>

\* The deadline passes, or the caller's context ends.
GiveUp(w) ==
  /\ At(w, "wait")
  /\ Return(w, "noReply", NoResult.delivery)
  /\ GoTo(w, "release")
  /\ UNCHANGED <<routing, lock, buffer, subscribed, leftover, replay,
                 kept, connectionVars, dispatchVars>>

\* releaseResponseWaiter: the last waiter to go also unsubscribes.
Release(w) ==
  /\ At(w, "release")
  /\ routing' = routing \ {w}
  /\ buffer' = [buffer EXCEPT ![w] = <<>>]
  /\ kept' = kept \ {w}
  /\ GoTo(w, IF routing' = {} THEN "relock" ELSE "done")
  /\ UNCHANGED <<result, lock, subscribed, leftover, replay, connectionVars,
                 dispatchVars>>

Relock(w) ==
  /\ At(w, "relock")
  /\ lock = None
  /\ lock' = w
  /\ GoTo(w, "recheck")
  /\ UNCHANGED <<result, routing, buffer, subscribed, leftover,
                 replay, kept, connectionVars, dispatchVars>>

\* Mutation of StillWanted: the decision made before the lock stands.
NotWanted == FALSE
StillWanted == routing # {}

\* With the lock held, the routing table is looked at again.
Recheck(w) ==
  /\ At(w, "recheck")
  /\ IF StillWanted THEN GoTo(w, "done") /\ lock' = None
                    ELSE GoTo(w, "unsubscribe") /\ UNCHANGED lock
  /\ UNCHANGED <<result, routing, buffer, subscribed, leftover,
                 replay, kept, connectionVars, dispatchVars>>

Unsubscribe(w) ==
  /\ At(w, "unsubscribe")
  /\ UnsubscribeNow
  /\ lock' = None
  /\ GoTo(w, "done")
  /\ UNCHANGED <<result, routing, buffer, replay, kept,
                 connectionVars, dispatchVars>>

-----------------------------------------------------------------------------
(***************************************************************************)
(* Incoming messages: combinedHandler on the client's receiving goroutine. *)
(***************************************************************************)

\* A message arrives: a replay of the retained one, or a live one.  Another
\* handler sees it first.
Arrive ==
  /\ connected /\ subscribed
  /\ dispatch.pc = "idle"
  /\ messages < MaxMessages
  /\ messages' = messages + 1
  /\ \E live \in BOOLEAN :
       /\ live \/ replay
       /\ replay' = (replay /\ live)
       /\ dispatch' = [NoDispatch EXCEPT !.pc = "handled", !.live = live]
  /\ UNCHANGED <<pc, result, routing, lock, buffer, subscribed,
                 leftover, kept, connectionVars>>

\* Mutation of Discarded: the matcher alone decides.
NothingDiscarded == FALSE
\* The RETAIN check.
Discarded == ~dispatch.live

\* dispatchToWaiters: a snapshot of the waiters, of which some have a matcher
\* that accepts the message, and one receive time for all of them.
TakeSnapshot ==
  /\ dispatch.pc = "handled"
  /\ \E accepting \in SUBSET routing :
       dispatch' = IF Discarded \/ accepting = {}
                     THEN NoDispatch
                     ELSE [dispatch EXCEPT !.pc = "fanout", !.to = accepting,
                                           !.fresh = accepting \cap Published]
  /\ UNCHANGED <<pc, result, routing, lock, buffer, subscribed,
                 leftover, replay, kept, messages, connectionVars>>

\* Mutation of Enqueued: a full buffer turns the newest delivery away.
EnqueuedIfRoom(queue, delivery) ==
  IF Len(queue) < BufferSize THEN Append(queue, delivery) ELSE queue

\* A full buffer makes room by dropping its oldest delivery.
Enqueued(queue, delivery) ==
  IF Len(queue) < BufferSize THEN Append(queue, delivery)
                             ELSE Append(Tail(queue), delivery)

\* Delivered to one waiter of the snapshot, which may have left by now.
FanOut(w) ==
  /\ dispatch.pc = "fanout"
  /\ w \in dispatch.to
  /\ dispatch' = IF dispatch.to = {w}
                   THEN NoDispatch
                   ELSE [dispatch EXCEPT !.to = @ \ {w}, !.fresh = @ \ {w}]
  /\ IF w \in routing
       THEN /\ buffer' = [buffer EXCEPT ![w] = Enqueued(@,
                 [live |-> dispatch.live, fresh |-> w \in dispatch.fresh])]
            /\ kept' = IF w \in dispatch.fresh THEN kept \cup {w} ELSE kept
       ELSE UNCHANGED <<buffer, kept>>
  /\ UNCHANGED <<pc, result, routing, lock, subscribed, leftover,
                 replay, messages, connectionVars>>

-----------------------------------------------------------------------------
(***************************************************************************)
(* The connection.                                                         *)
(***************************************************************************)

\* The session ends with the connection, and its subscriptions with it.
Drop ==
  /\ connected
  /\ drops < MaxDrops
  /\ drops' = drops + 1
  /\ connected' = FALSE
  /\ subscribed' = FALSE /\ leftover' = FALSE /\ replay' = FALSE
  /\ resubscribe' = "none"
  /\ UNCHANGED <<pc, result, routing, lock, buffer, unserved, kept,
                 dispatchVars>>

Reconnect ==
  /\ ~connected
  /\ connected' = TRUE
  /\ resubscribe' = "list"
  /\ unserved' = FALSE
  /\ UNCHANGED <<pc, result, routing, lock, buffer, subscribed,
                 leftover, replay, kept, drops, dispatchVars>>

\* subscriptionsToResubscribe: the topics that have a waiter right now.
ListTopics ==
  /\ resubscribe = "list"
  /\ resubscribe' = IF routing = {} THEN "none" ELSE "send"
  /\ UNCHANGED <<pc, result, routing, lock, buffer, connected,
                 subscribed, unserved, leftover, replay, kept, drops, dispatchVars>>

\* subscribeAll does not take the lock: a release may overtake it, and leave the
\* subscription to the next reconnect.  A failure is logged.
Resubscribe ==
  /\ resubscribe = "send"
  /\ resubscribe' = "none"
  /\ \/ /\ subscribed' = TRUE /\ replay' = TRUE
        /\ leftover' = (leftover \/ routing = {})
        /\ UNCHANGED unserved
     \/ /\ unserved' = TRUE
        /\ UNCHANGED <<subscribed, replay, leftover>>
  /\ UNCHANGED <<pc, result, routing, lock, buffer, connected, kept,
                 drops, dispatchVars>>

-----------------------------------------------------------------------------
Acquire(w) == Register(w) \/ Relock(w)
Advance(w) ==
  \/ Subscribe(w) \/ SubscribeFails(w) \/ RollBack(w)
  \/ Stamp(w) \/ Publish(w) \/ Receive(w) \/ GiveUp(w)
  \/ Release(w) \/ Recheck(w) \/ Unsubscribe(w)

Next ==
  \/ \E w \in Waiters : Call(w) \/ Acquire(w) \/ Advance(w) \/ FanOut(w)
  \/ Arrive \/ TakeSnapshot
  \/ Drop \/ Reconnect \/ ListTopics \/ Resubscribe

\* Each call is a goroutine; its network calls return, its wait has a deadline,
\* and a free mutex is taken.  Calls, messages and outages are never owed.
Fairness == \A w \in Waiters : WF_vars(Acquire(w)) /\ WF_vars(Advance(w))

Spec == Init /\ [][Next]_vars
FairSpec == Spec /\ Fairness

-----------------------------------------------------------------------------
(***************************************************************************)
(* Properties.                                                             *)
(***************************************************************************)

\* A call that is about to publish or waits for its reply has a subscription at
\* the broker whenever the connection is up and has caught up: another call's
\* late UNSUBSCRIBE never tears it down ("review finding 3", response.go:494-511)
\* and a reconnect restores it (subscriptionsToResubscribe).
WaiterIsSubscribed ==
  connected /\ resubscribe = "none" /\ ~unserved =>
    \A w \in Waiters : pc[w] \in {"publish", "publishing", "wait"} => subscribed

\* Only a live message, received at or after the call's own publish, is ever
\* returned as the reply: never last night's retained value and never what
\* arrived before the publish (dispatchToWaiters, AwaitResponse step 5).
ReplyIsLive ==
  \A w \in Waiters :
    result[w].why = "reply" => result[w].delivery.live /\ result[w].delivery.fresh

\* A reply that reached a waiting call is not lost to a burst of older ones: it
\* or a later one that counts is still queued (dispatchToWaiters).
ReplyIsKept ==
  \A w \in Waiters :
    w \in kept /\ pc[w] \in {"publishing", "wait"} =>
      \E i \in 1..Len(buffer[w]) : buffer[w][i].fresh

\* Once no call is in progress nothing is held for one: no waiter, no lock, and
\* no subscription, except one a failed UNSUBSCRIBE or a reconnect that a release
\* overtook has left (releaseResponseWaiter).
NothingLeaks ==
  (\A w \in Waiters : pc[w] \in {"idle", "done"}) /\ resubscribe = "none" =>
    routing = {} /\ lock = None /\ (subscribed => leftover)

\* Every call returns, whoever else holds the topic's lock.
EveryCallReturns == \A w \in Waiters : pc[w] # "idle" ~> pc[w] = "done"
=============================================================================
