------------------------ MODULE ResponseWaiterProofs ------------------------
(***************************************************************************)
(* Proofs about ResponseWaiter, for any number of calls, any size of their *)
(* buffers, any number of messages and outages.                            *)
(*                                                                         *)
(* The routing table and the lock follow from where the calls stand        *)
(* (TableInv).  A call unsubscribes only under the lock and with an empty  *)
(* table, hence never under a waiter (SubscriptionInv), and some call is   *)
(* still to unsubscribe what is subscribed (LeakInv).  One message is      *)
(* fanned out at a time, so that for one call what counts never comes      *)
(* before what does not (KeptInv).                                         *)
(***************************************************************************)
EXTENDS ResponseWaiter, TLAPS

Registered == {"subscribe", "publish", "publishing", "wait", "release"}
Locking == {"subscribe", "rollback", "recheck", "unsubscribe"}

\* A call is in the routing table, and holds the lock, by where it stands.
TableInv ==
  /\ routing = {w \in Waiters : pc[w] \in Registered}
  /\ \A w \in Waiters : pc[w] \in Locking <=> lock = w

\* The table is empty while a call unsubscribes.
SubscriptionInv ==
  /\ WaiterIsSubscribed
  /\ \A w \in Waiters : pc[w] \in {"rollback", "unsubscribe"} => routing = {}

\* What is subscribed is some call's to unsubscribe.
LeakInv ==
  subscribed => leftover \/ \E w \in Waiters : pc[w] \notin {"idle", "register", "done"}

\* What is queued, and what is being fanned out, is live.
LiveInv ==
  /\ dispatch.pc = "fanout" => dispatch.live
  /\ \A w \in Waiters : \A i \in 1..Len(buffer[w]) : buffer[w][i].live
  /\ ReplyIsLive

\* The calls that have released.
Over == {w \in Waiters : pc[w] \in {"relock", "recheck", "unsubscribe", "done"}}

\* What counts for a call was received since it published, and for a call that
\* something has reached that counts, nothing follows that does not.
KeptInv ==
  /\ kept \subseteq Published
  /\ dispatch.fresh \subseteq Published \cup Over
  /\ kept \cap dispatch.to \subseteq dispatch.fresh
  /\ ReplyIsKept

IInv == TypeOK /\ TableInv /\ SubscriptionInv /\ LeakInv /\ LiveInv /\ KeptInv

-----------------------------------------------------------------------------
\* The tuples actions leave unchanged are expanded throughout.
USE DEF connectionVars, dispatchVars, GoTo, At

Deliveries == [Waiters -> Seq(Delivery)]

\* Whatever is dropped to make room, the queue keeps its bound, and its last
\* delivery is the one that was enqueued.
LEMMA Enqueueing ==
  ASSUME NEW queue \in Seq(Delivery), NEW delivery \in Delivery,
         Len(queue) <= BufferSize
  PROVE  LET after == Enqueued(queue, delivery) IN
         /\ after \in Seq(Delivery)
         /\ Len(after) <= BufferSize /\ Len(after) >= 1
         /\ after[Len(after)] = delivery
         /\ \A i \in 1..Len(after) :
              after[i] = delivery \/ \E j \in 1..Len(queue) : after[i] = queue[j]
<1> USE BoundsAssumption
<1>1. CASE Len(queue) < BufferSize
  <2>1. Enqueued(queue, delivery) = Append(queue, delivery)
    BY <1>1 DEF Enqueued
  <2> QED
    BY <1>1, <2>1
<1>2. CASE ~(Len(queue) < BufferSize)
  <2>1. Enqueued(queue, delivery) = Append(Tail(queue), delivery)
    BY <1>2 DEF Enqueued
  <2>2. queue # <<>> /\ Len(queue) = BufferSize
    BY <1>2
  <2>3. /\ Tail(queue) \in Seq(Delivery) /\ Len(Tail(queue)) = Len(queue) - 1
        /\ \A i \in 1..Len(Tail(queue)) : Tail(queue)[i] = queue[i + 1]
    BY <2>2
  <2> DEFINE rest == Tail(queue)
  <2> HIDE DEF rest
  <2>4. /\ Append(rest, delivery) \in Seq(Delivery)
        /\ Len(Append(rest, delivery)) = Len(rest) + 1
        /\ Append(rest, delivery)[Len(rest) + 1] = delivery
        /\ \A i \in 1..Len(rest) : Append(rest, delivery)[i] = rest[i]
    BY <2>3 DEF rest
  <2> QED
    BY <2>1, <2>2, <2>3, <2>4 DEF rest
<1> QED
  BY <1>1, <1>2

\* The parts of TypeOK: the calls, their buffers, the connection, the fan-out.
CallType ==
  /\ pc \in [Waiters -> Steps]
  /\ result \in [Waiters -> [why : Results, delivery : Delivery]]
  /\ routing \subseteq Waiters /\ lock \in Waiters \cup {None} /\ kept \subseteq Waiters

BufferType == buffer \in Deliveries /\ \A w \in Waiters : Len(buffer[w]) <= BufferSize

ConnectionType ==
  /\ connected \in BOOLEAN /\ subscribed \in BOOLEAN /\ unserved \in BOOLEAN
  /\ resubscribe \in {"none", "list", "send"}
  /\ leftover \in BOOLEAN /\ replay \in BOOLEAN
  /\ drops \in 0..MaxDrops

Dispatches == [pc : {"idle", "handled", "fanout"}, live : BOOLEAN,
               to : SUBSET Waiters, fresh : SUBSET Waiters]

DispatchType == dispatch \in Dispatches /\ messages \in 0..MaxMessages

LEMMA TypeParts ==
  TypeOK <=> CallType /\ BufferType /\ ConnectionType /\ DispatchType
BY DEF TypeOK, CallType, BufferType, ConnectionType, DispatchType, Deliveries, Dispatches

LEMMA TypePartsNext ==
  CallType' /\ BufferType' /\ ConnectionType' /\ DispatchType' => TypeOK'
BY DEF TypeOK, CallType, BufferType, ConnectionType, DispatchType, Deliveries, Dispatches

\* What a queue hands out, and what is left of it.
LEMMA Dequeueing ==
  ASSUME NEW queue \in Seq(Delivery), queue # <<>>
  PROVE  /\ Head(queue) \in Delivery /\ Head(queue) = queue[1]
         /\ Tail(queue) \in Seq(Delivery) /\ Len(Tail(queue)) = Len(queue) - 1
         /\ \A i \in 1..Len(Tail(queue)) : Tail(queue)[i] = queue[i + 1]
  OBVIOUS

\* A message, and an outage, are the business of neither the calls nor their
\* buffers.
LEMMA Messages ==
  ASSUME Arrive \/ TakeSnapshot
  PROVE  UNCHANGED <<pc, result, routing, lock, buffer, subscribed, leftover, kept,
                     connected, resubscribe, unserved, drops>>
<1>1. CASE Arrive
  BY <1>1, Zenon DEF Arrive
<1>2. CASE TakeSnapshot
  BY <1>2, Zenon DEF TakeSnapshot
<1> QED
  BY <1>1, <1>2

LEMMA Connection ==
  ASSUME Drop \/ Reconnect \/ ListTopics \/ Resubscribe
  PROVE  UNCHANGED <<pc, result, routing, lock, buffer, kept, dispatch, messages>>
BY DEF Drop, Reconnect, ListTopics, Resubscribe

LEMMA CallTypeStep == CallType /\ BufferType /\ [Next]_vars => CallType'
<1> SUFFICES ASSUME CallType, BufferType, [Next]_vars PROVE CallType'
  OBVIOUS
<1> USE DEF CallType, Steps
<1>n. NoResult.delivery \in Delivery
  BY DEF NoResult, Delivery
<1>1. ASSUME NEW w \in Waiters, Call(w) \/ Acquire(w) PROVE CallType'
  BY <1>1 DEF Call, Acquire, Register, Relock
<1>2. ASSUME NEW w \in Waiters,
             Subscribe(w) \/ RollBack(w) \/ Unsubscribe(w) \/ Stamp(w) \/ Recheck(w)
      PROVE  CallType'
  BY <1>2 DEF Subscribe, RollBack, Unsubscribe, Stamp, Recheck
<1>3. ASSUME NEW w \in Waiters, SubscribeFails(w) \/ Publish(w) \/ GiveUp(w)
      PROVE  CallType'
  <2> DEFINE fails == [why |-> "failedBeforePublish", delivery |-> NoResult.delivery]
             nothing == [why |-> "noReply", delivery |-> NoResult.delivery]
  <2>1. result' \in {result, [result EXCEPT ![w] = fails], [result EXCEPT ![w] = nothing]}
    BY <1>3 DEF SubscribeFails, Publish, GiveUp, Return
  <2>2. /\ fails \in [why : Results, delivery : Delivery]
        /\ nothing \in [why : Results, delivery : Delivery]
    BY <1>n DEF Results
  <2> HIDE DEF fails, nothing
  <2>3. result' \in [Waiters -> [why : Results, delivery : Delivery]]
    BY <2>1, <2>2
  <2> QED
    BY <1>3, <2>3 DEF SubscribeFails, Publish, GiveUp
<1>4. ASSUME NEW w \in Waiters, Receive(w) PROVE CallType'
  <2>1. Head(buffer[w]) \in Delivery
    BY <1>4, Dequeueing DEF Receive, BufferType, Deliveries
  <2> DEFINE r == [why |-> "reply", delivery |-> Head(buffer[w])]
  <2>2. r \in [why : Results, delivery : Delivery]
    BY <2>1 DEF Results
  <2>3. result' = result \/ result' = [result EXCEPT ![w] = r]
    BY <1>4 DEF Receive, Return
  <2> HIDE DEF r
  <2>4. result' \in [Waiters -> [why : Results, delivery : Delivery]]
    BY <2>2, <2>3
  <2>5. pc' = pc \/ pc' = [pc EXCEPT ![w] = "release"]
    BY <1>4 DEF Receive
  <2> QED
    BY <1>4, <2>4, <2>5 DEF Receive
<1>5. ASSUME NEW w \in Waiters, Release(w) \/ FanOut(w) PROVE CallType'
  BY <1>5 DEF Release, FanOut
<1>6. CASE Arrive \/ TakeSnapshot \/ Drop \/ Reconnect \/ ListTopics \/ Resubscribe
  BY <1>6, Messages, Connection
<1>7. CASE UNCHANGED vars
  BY <1>7 DEF vars
<1> QED
  BY <1>1, <1>2, <1>3, <1>4, <1>5, <1>6, <1>7 DEF Next, Advance

\* Only these disturb the buffers.
LEMMA BufferStep ==
  ASSUME [Next]_vars
  PROVE  \/ buffer' = buffer
         \/ \E w \in Waiters :
              \/ Receive(w) /\ buffer' = [buffer EXCEPT ![w] = Tail(buffer[w])]
              \/ Release(w) /\ buffer' = [buffer EXCEPT ![w] = <<>>]
              \/ /\ FanOut(w) /\ w \in routing
                 /\ buffer' = [buffer EXCEPT ![w] = Enqueued(buffer[w],
                      [live |-> dispatch.live, fresh |-> w \in dispatch.fresh])]
<1>1. ASSUME NEW w \in Waiters, Call(w) \/ Acquire(w) PROVE buffer' = buffer
  BY <1>1 DEF Call, Acquire, Register, Relock
<1>2. ASSUME NEW w \in Waiters, Advance(w)
      PROVE  \/ buffer' = buffer
             \/ Receive(w) /\ buffer' = [buffer EXCEPT ![w] = Tail(buffer[w])]
             \/ Release(w) /\ buffer' = [buffer EXCEPT ![w] = <<>>]
  BY <1>2 DEF Advance, Subscribe, SubscribeFails, RollBack, Stamp, Publish, Receive,
     GiveUp, Release, Recheck, Unsubscribe
<1>3. ASSUME NEW w \in Waiters, FanOut(w)
      PROVE  \/ buffer' = buffer
             \/ /\ w \in routing
                /\ buffer' = [buffer EXCEPT ![w] = Enqueued(buffer[w],
                     [live |-> dispatch.live, fresh |-> w \in dispatch.fresh])]
  BY <1>3 DEF FanOut
<1>4. CASE Arrive \/ TakeSnapshot \/ Drop \/ Reconnect \/ ListTopics \/ Resubscribe
  BY <1>4, Messages, Connection
<1>5. CASE UNCHANGED vars
  BY <1>5 DEF vars
<1> QED
  BY <1>1, <1>2, <1>3, <1>4, <1>5 DEF Next

LEMMA Newest ==
  ASSUME DispatchType, NEW w
  PROVE  [live |-> dispatch.live, fresh |-> w \in dispatch.fresh] \in Delivery
BY DEF DispatchType, Dispatches, Delivery

LEMMA BufferTypeStep == BufferType /\ DispatchType /\ [Next]_vars => BufferType'
<1> SUFFICES ASSUME BufferType, DispatchType, [Next]_vars PROVE BufferType'
  OBVIOUS
<1>t. ASSUME NEW w \in Waiters, NEW queue \in Seq(Delivery), Len(queue) <= BufferSize,
             buffer' = [buffer EXCEPT ![w] = queue]
      PROVE  BufferType'
  BY <1>t DEF BufferType, Deliveries
<1>1. CASE buffer' = buffer
  BY <1>1 DEF BufferType, Deliveries
<1>2. ASSUME NEW w \in Waiters, Receive(w), buffer' = [buffer EXCEPT ![w] = Tail(buffer[w])]
      PROVE  BufferType'
  <2>1. buffer[w] \in Seq(Delivery) /\ buffer[w] # <<>> /\ Len(buffer[w]) <= BufferSize
    BY <1>2 DEF Receive, BufferType, Deliveries
  <2>2. /\ Tail(buffer[w]) \in Seq(Delivery)
        /\ Len(Tail(buffer[w])) = Len(buffer[w]) - 1
    BY <2>1, Dequeueing
  <2>3. Len(Tail(buffer[w])) <= BufferSize
    BY <2>1, <2>2, BoundsAssumption
  <2> QED
    BY <1>2, <1>t, <2>2, <2>3
<1>3. ASSUME NEW w \in Waiters, buffer' = [buffer EXCEPT ![w] = <<>>]
      PROVE  BufferType'
  <2>1. <<>> \in Seq(Delivery) /\ Len(<<>>) <= BufferSize
    BY BoundsAssumption
  <2> DEFINE empty == <<>>
  <2>2. buffer' = [buffer EXCEPT ![w] = empty]
    BY <1>3
  <2>3. empty \in Seq(Delivery) /\ Len(empty) <= BufferSize
    BY <2>1
  <2> HIDE DEF empty
  <2> QED
    BY <1>t, <2>2, <2>3
<1>4. ASSUME NEW w \in Waiters, NEW delivery \in Delivery,
             buffer' = [buffer EXCEPT ![w] = Enqueued(buffer[w], delivery)]
      PROVE  BufferType'
  <2>1. buffer[w] \in Seq(Delivery) /\ Len(buffer[w]) <= BufferSize
    BY DEF BufferType, Deliveries
  <2> QED
    BY <1>4, <1>t, <2>1, Enqueueing
<1> QED
  BY <1>1, <1>2, <1>3, <1>4, BufferStep, Newest

LEMMA ConnectionTypeStep == ConnectionType /\ [Next]_vars => ConnectionType'
<1> SUFFICES ASSUME ConnectionType, [Next]_vars PROVE ConnectionType'
  OBVIOUS
<1> USE BoundsAssumption DEF ConnectionType
<1>1. ASSUME NEW w \in Waiters, Call(w) \/ Acquire(w) \/ FanOut(w) PROVE ConnectionType'
  BY <1>1 DEF Call, Acquire, Register, Relock, FanOut
<1>2. ASSUME NEW w \in Waiters, Advance(w) PROVE ConnectionType'
  BY <1>2 DEF Advance, Subscribe, SubscribeFails, RollBack, Stamp, Publish, Receive,
     GiveUp, Release, Recheck, Unsubscribe, UnsubscribeNow
<1>3. CASE Arrive
  BY <1>3 DEF Arrive
<1>4. CASE TakeSnapshot
  <2>1. replay' = replay
    BY <1>4, Zenon DEF TakeSnapshot
  <2> QED
    BY <1>4, <2>1, Messages
<1>5. CASE Drop \/ Reconnect \/ ListTopics
  <2>1. CASE Drop
    <3>1. drops' \in 0..MaxDrops
      BY <2>1 DEF Drop
    <3>2. unserved' \in BOOLEAN
      BY <2>1, Zenon DEF Drop
    <3>3. /\ connected' = FALSE /\ subscribed' = FALSE /\ leftover' = FALSE /\ replay' = FALSE
          /\ resubscribe' = "none"
      BY <2>1 DEF Drop
    <3> QED
      BY <3>1, <3>2, <3>3
  <2>2. CASE Reconnect
    BY <2>2 DEF Reconnect
  <2>3. CASE ListTopics
    BY <2>3 DEF ListTopics
  <2> QED
    BY <1>5, <2>1, <2>2, <2>3
<1>6. CASE Resubscribe
  <2>1. leftover' \in BOOLEAN
    BY <1>6, Zenon DEF Resubscribe
  <2> QED
    BY <1>6, <2>1 DEF Resubscribe
<1>7. CASE UNCHANGED vars
  BY <1>7 DEF vars
<1> QED
  BY <1>1, <1>2, <1>3, <1>4, <1>5, <1>6, <1>7 DEF Next

LEMMA DispatchTypeStep == DispatchType /\ CallType /\ [Next]_vars => DispatchType'
<1> SUFFICES ASSUME DispatchType, CallType, [Next]_vars PROVE DispatchType'
  OBVIOUS
<1> USE BoundsAssumption DEF DispatchType
<1>0. NoDispatch \in Dispatches
  BY DEF NoDispatch, Dispatches
<1>1. ASSUME NEW w \in Waiters, Call(w) \/ Acquire(w) \/ Advance(w) PROVE DispatchType'
  BY <1>1 DEF Call, Acquire, Register, Relock, Advance, Subscribe, SubscribeFails,
     RollBack, Stamp, Publish, Receive, GiveUp, Release, Recheck, Unsubscribe
<1>2. ASSUME NEW w \in Waiters, FanOut(w) PROVE DispatchType'
  <2>1. [dispatch EXCEPT !.to = @ \ {w}, !.fresh = @ \ {w}] \in Dispatches
    BY DEF Dispatches
  <2> QED
    BY <1>0, <1>2, <2>1 DEF FanOut
<1>3. CASE Arrive
  <2>1. \A live \in BOOLEAN : [NoDispatch EXCEPT !.pc = "handled", !.live = live] \in Dispatches
    BY <1>0 DEF Dispatches
  <2>2. dispatch' \in Dispatches
    BY <1>3, <2>1, Zenon DEF Arrive
  <2>3. messages < MaxMessages /\ messages' = messages + 1
    BY <1>3, Zenon DEF Arrive
  <2> QED
    BY <2>2, <2>3
<1>4. CASE TakeSnapshot
  <2>1. \A accepting \in SUBSET routing :
          [dispatch EXCEPT !.pc = "fanout", !.to = accepting,
                           !.fresh = accepting \cap Published] \in Dispatches
    BY DEF Dispatches, CallType
  <2>2. dispatch' \in Dispatches
    BY <1>0, <1>4, <2>1, Zenon DEF TakeSnapshot
  <2>3. messages' = messages
    BY <1>4, Zenon DEF TakeSnapshot
  <2> QED
    BY <2>2, <2>3
<1>5. CASE Drop \/ Reconnect \/ ListTopics \/ Resubscribe
  BY <1>5 DEF Drop, Reconnect, ListTopics, Resubscribe
<1>6. CASE UNCHANGED vars
  BY <1>6 DEF vars
<1> QED
  BY <1>1, <1>2, <1>3, <1>4, <1>5, <1>6 DEF Next

LEMMA TypeStep == TypeOK /\ [Next]_vars => TypeOK'
BY TypeParts, TypePartsNext, CallTypeStep, BufferTypeStep, ConnectionTypeStep, DispatchTypeStep

-----------------------------------------------------------------------------
\* The table, the lock, and the subscription.

LEMMA TableStep == TypeOK /\ TableInv /\ [Next]_vars => TableInv'
<1> SUFFICES ASSUME TypeOK, TableInv, [Next]_vars PROVE TableInv'
  OBVIOUS
<1>0. pc \in [Waiters -> Steps] /\ lock \in Waiters \cup {None}
  BY DEF TypeOK
<1> USE NoneAssumption DEF TableInv, Registered, Locking
<1>1. ASSUME NEW w \in Waiters, Call(w) \/ Acquire(w) PROVE TableInv'
  BY <1>0, <1>1 DEF Call, Acquire, Register, Relock
<1>2. ASSUME NEW w \in Waiters, Subscribe(w) \/ RollBack(w) \/ Unsubscribe(w)
      PROVE  TableInv'
  BY <1>0, <1>2 DEF Subscribe, RollBack, Unsubscribe
<1>3. ASSUME NEW w \in Waiters, SubscribeFails(w) PROVE TableInv'
  BY <1>0, <1>3 DEF SubscribeFails
<1>4. ASSUME NEW w \in Waiters, Stamp(w) \/ Publish(w) \/ GiveUp(w) PROVE TableInv'
  BY <1>0, <1>4 DEF Stamp, Publish, GiveUp
<1>5. ASSUME NEW w \in Waiters, Receive(w) PROVE TableInv'
  <2>1. /\ pc[w] = "wait" /\ UNCHANGED <<routing, lock>>
        /\ pc' = pc \/ pc' = [pc EXCEPT ![w] = "release"]
    BY <1>5 DEF Receive
  <2> QED
    BY <1>0, <2>1
<1>6. ASSUME NEW w \in Waiters, Release(w) \/ Recheck(w) PROVE TableInv'
  BY <1>0, <1>6 DEF Release, Recheck
<1>7. ASSUME NEW w \in Waiters, FanOut(w) PROVE TableInv'
  BY <1>7 DEF FanOut
<1>8. CASE Arrive \/ TakeSnapshot \/ Drop \/ Reconnect \/ ListTopics \/ Resubscribe
  BY <1>8, Messages, Connection
<1>9. CASE UNCHANGED vars
  BY <1>9 DEF vars
<1> QED
  BY <1>1, <1>2, <1>3, <1>4, <1>5, <1>6, <1>7, <1>8, <1>9 DEF Next, Advance

\* WaiterIsSubscribed is disturbed by a call that comes to publish, which has
\* just subscribed; by an UNSUBSCRIBE, when nobody is in the table; and by the
\* end of onConnectionUp, which found nobody, or subscribed, or says it failed.
LEMMA SubscriptionStep ==
  TypeOK /\ TableInv /\ SubscriptionInv /\ [Next]_vars => SubscriptionInv'
<1> SUFFICES ASSUME TypeOK, TableInv, SubscriptionInv, [Next]_vars PROVE SubscriptionInv'
  OBVIOUS
<1>0. pc \in [Waiters -> Steps] /\ lock \in Waiters \cup {None}
  BY DEF TypeOK
<1> USE NoneAssumption DEF SubscriptionInv, WaiterIsSubscribed
<1>l. \A w \in Waiters : pc[w] \in {"rollback", "unsubscribe"} => lock = w
  BY DEF TableInv, Locking
<1>r. \A w \in Waiters : pc[w] \in {"subscribe", "publish", "publishing", "wait"} => w \in routing
  BY DEF TableInv, Registered
<1>1. ASSUME NEW w \in Waiters, Call(w) \/ Relock(w) PROVE SubscriptionInv'
  BY <1>0, <1>1 DEF Call, Relock
<1>2. ASSUME NEW w \in Waiters, Register(w) PROVE SubscriptionInv'
  BY <1>0, <1>l, <1>2 DEF Register
<1>3. ASSUME NEW w \in Waiters, Subscribe(w) PROVE SubscriptionInv'
  BY <1>0, <1>3, <1>r DEF Subscribe
<1>4. ASSUME NEW w \in Waiters, SubscribeFails(w) PROVE SubscriptionInv'
  <2>1. subscribed => subscribed'
    BY <1>4 DEF SubscribeFails
  <2>2. pc' = [pc EXCEPT ![w] = IF routing' = {} THEN "rollback" ELSE "done"]
    BY <1>4 DEF SubscribeFails
  <2>3. \A v \in Waiters : pc[v] \in {"rollback", "unsubscribe"} => FALSE
    BY <1>4, <1>r DEF SubscribeFails
  <2> QED
    BY <1>0, <1>4, <2>1, <2>2, <2>3 DEF SubscribeFails
<1>5. ASSUME NEW w \in Waiters, RollBack(w) \/ Unsubscribe(w) PROVE SubscriptionInv'
  <2>1. routing = {} /\ routing' = {} /\ pc' = [pc EXCEPT ![w] = "done"]
    BY <1>5 DEF RollBack, Unsubscribe
  <2> QED
    BY <1>0, <1>r, <2>1
<1>6. ASSUME NEW w \in Waiters, Stamp(w) \/ Publish(w) \/ GiveUp(w) PROVE SubscriptionInv'
  BY <1>0, <1>6 DEF Stamp, Publish, GiveUp
<1>7. ASSUME NEW w \in Waiters, Receive(w) PROVE SubscriptionInv'
  <2>1. /\ pc[w] = "wait"
        /\ UNCHANGED <<routing, connected, resubscribe, unserved, subscribed>>
        /\ pc' = pc \/ pc' = [pc EXCEPT ![w] = "release"]
    BY <1>7 DEF Receive
  <2> QED
    BY <1>0, <2>1
<1>8. ASSUME NEW w \in Waiters, Release(w) PROVE SubscriptionInv'
  <2>1. /\ routing' = routing \ {w}
        /\ UNCHANGED <<connected, resubscribe, unserved, subscribed>>
        /\ \/ pc' = [pc EXCEPT ![w] = "relock"]
           \/ pc' = [pc EXCEPT ![w] = "done"]
    BY <1>8 DEF Release
  <2> QED
    BY <1>0, <2>1
<1>9. ASSUME NEW w \in Waiters, Recheck(w) PROVE SubscriptionInv'
  BY <1>0, <1>9 DEF Recheck, StillWanted
<1>10. ASSUME NEW w \in Waiters, FanOut(w) PROVE SubscriptionInv'
  BY <1>10 DEF FanOut
<1>11. CASE Arrive \/ TakeSnapshot
  BY <1>11, Messages
<1>12. CASE Drop \/ Reconnect \/ ListTopics \/ Resubscribe
  BY <1>12, <1>r DEF Drop, Reconnect, ListTopics, Resubscribe
<1>13. CASE UNCHANGED vars
  BY <1>13 DEF vars
<1> QED
  BY <1>1, <1>2, <1>3, <1>4, <1>5, <1>6, <1>7, <1>8, <1>9, <1>10, <1>11, <1>12, <1>13
     DEF Next, Advance, Acquire

\* A call that is done without having unsubscribed left others in the table.
LEMMA LeakStep == TypeOK /\ TableInv /\ LeakInv /\ [Next]_vars => LeakInv'
<1> SUFFICES ASSUME TypeOK, TableInv, LeakInv, [Next]_vars PROVE LeakInv'
  OBVIOUS
<1>0. pc \in [Waiters -> Steps]
  BY DEF TypeOK
<1> DEFINE busy == {w \in Waiters : pc[w] \notin {"idle", "register", "done"}}
<1>b. routing \subseteq busy /\ (subscribed => leftover \/ busy # {})
  BY DEF TableInv, Registered, LeakInv
<1>t. ASSUME NEW w \in Waiters, NEW step, pc' = [pc EXCEPT ![w] = step],
             step \notin {"idle", "register", "done"}
      PROVE  LeakInv'
  BY <1>0, <1>t DEF LeakInv
<1>1. ASSUME NEW w \in Waiters, Call(w) PROVE LeakInv'
  <2>1. /\ pc[w] = "idle" /\ pc' = [pc EXCEPT ![w] = "register"]
        /\ UNCHANGED <<subscribed, leftover>>
    BY <1>1 DEF Call
  <2> QED
    BY <1>0, <2>1 DEF LeakInv
<1>2. ASSUME NEW w \in Waiters, Acquire(w) \/ Subscribe(w) \/ Stamp(w) \/ Publish(w) \/ GiveUp(w)
      PROVE  LeakInv'
  BY <1>2, <1>t DEF Acquire, Register, Relock, Subscribe, Stamp, Publish, GiveUp
<1>3. ASSUME NEW w \in Waiters, SubscribeFails(w) \/ Release(w) PROVE LeakInv'
  <2>1. routing' = routing \ {w}
    BY <1>3 DEF SubscribeFails, Release
  <2>2. CASE routing' = {}
    BY <1>3, <1>t, <2>2 DEF SubscribeFails, Release
  <2>3. CASE routing' # {}
    <3>1. PICK v \in routing : v # w
      BY <2>1, <2>3
    <3>2. v \in busy /\ v \in Waiters
      BY <1>b, <3>1
    <3>3. pc'[v] = pc[v]
      BY <1>0, <1>3, <2>3, <3>1, <3>2 DEF SubscribeFails, Release
    <3> QED
      BY <3>2, <3>3 DEF LeakInv
  <2> QED
    BY <2>2, <2>3
<1>4. ASSUME NEW w \in Waiters, RollBack(w) \/ Unsubscribe(w) PROVE LeakInv'
  BY <1>4 DEF RollBack, Unsubscribe, UnsubscribeNow, LeakInv
<1>5. ASSUME NEW w \in Waiters, Receive(w) PROVE LeakInv'
  <2>1. /\ pc[w] = "wait"
        /\ pc' = pc \/ pc' = [pc EXCEPT ![w] = "release"]
    BY <1>5 DEF Receive
  <2> QED
    BY <1>0, <2>1 DEF LeakInv
<1>6. ASSUME NEW w \in Waiters, Recheck(w) PROVE LeakInv'
  <2>1. CASE StillWanted
    <3>1. PICK v \in Waiters : pc[v] \in Registered
      BY <2>1 DEF StillWanted, TableInv
    <3>2. v # w /\ pc'[v] = pc[v]
      BY <1>0, <1>6, <2>1, <3>1 DEF Recheck, Registered
    <3> QED
      BY <3>1, <3>2 DEF LeakInv, Registered
  <2>2. CASE ~StillWanted
    BY <1>6, <1>t, <2>2 DEF Recheck
  <2> QED
    BY <2>1, <2>2
<1>7. ASSUME NEW w \in Waiters, FanOut(w) PROVE LeakInv'
  BY <1>7 DEF FanOut, LeakInv
<1>8. CASE Arrive \/ TakeSnapshot
  BY <1>8, Messages DEF LeakInv
<1>9. CASE Drop \/ Reconnect \/ ListTopics
  BY <1>9 DEF Drop, Reconnect, ListTopics, LeakInv
<1>10. CASE Resubscribe
  <2>1. /\ pc' = pc
        /\ \/ leftover' = (leftover \/ routing = {})
           \/ subscribed' = subscribed /\ leftover' = leftover
    BY <1>10 DEF Resubscribe
  <2>2. CASE leftover' = (leftover \/ routing = {})
    <3>1. routing = {} => leftover'
      BY <2>2, Zenon
    <3> QED
      BY <1>b, <2>1, <3>1 DEF LeakInv
  <2>3. CASE subscribed' = subscribed /\ leftover' = leftover
    BY <2>1, <2>3 DEF LeakInv
  <2> QED
    BY <2>1, <2>2, <2>3
<1>11. CASE UNCHANGED vars
  BY <1>11 DEF vars, LeakInv
<1> QED
  BY <1>1, <1>2, <1>3, <1>4, <1>5, <1>6, <1>7, <1>8, <1>9, <1>10, <1>11
     DEF Next, Advance

-----------------------------------------------------------------------------
\* The replies.

\* The fan-out of a message: dropped, or begun by a snapshot of the table; and
\* what is left of it after a delivery.
LEMMA Snapshot ==
  ASSUME TypeOK, TakeSnapshot
  PROVE  \/ dispatch' = NoDispatch
         \/ /\ dispatch.live /\ dispatch'.live /\ dispatch'.pc = "fanout"
            /\ dispatch'.to \subseteq routing
            /\ dispatch'.fresh = dispatch'.to \cap Published
<1>0. dispatch \in Dispatches
  BY DEF TypeOK, Dispatches
<1>1. PICK accepting \in SUBSET routing :
        dispatch' = IF Discarded \/ accepting = {}
                      THEN NoDispatch
                      ELSE [dispatch EXCEPT !.pc = "fanout", !.to = accepting,
                                            !.fresh = accepting \cap Published]
  BY Zenon DEF TakeSnapshot
<1> DEFINE begun == [dispatch EXCEPT !.pc = "fanout", !.to = accepting,
                                     !.fresh = accepting \cap Published]
<1>2. begun.pc = "fanout" /\ begun.to = accepting /\ begun.fresh = accepting \cap Published
      /\ begun.live = dispatch.live
  BY <1>0 DEF Dispatches
<1>3. dispatch' = NoDispatch \/ (dispatch.live /\ dispatch' = begun)
  BY <1>1, Zenon DEF Discarded
<1> HIDE DEF begun
<1> QED
  BY <1>2, <1>3

LEMMA Delivering ==
  ASSUME TypeOK, NEW w \in Waiters, FanOut(w)
  PROVE  /\ dispatch.pc = "fanout" /\ w \in dispatch.to
         /\ \/ dispatch' = NoDispatch
            \/ /\ dispatch'.pc = "fanout" /\ dispatch'.live = dispatch.live
               /\ dispatch'.to = dispatch.to \ {w} /\ dispatch'.fresh = dispatch.fresh \ {w}
<1>0. dispatch \in Dispatches
  BY DEF TypeOK, Dispatches
<1> DEFINE rest == [dispatch EXCEPT !.to = @ \ {w}, !.fresh = @ \ {w}]
<1>1. /\ rest.pc = dispatch.pc /\ rest.live = dispatch.live
      /\ rest.to = dispatch.to \ {w} /\ rest.fresh = dispatch.fresh \ {w}
  BY <1>0 DEF Dispatches
<1>2. dispatch' = NoDispatch \/ dispatch' = rest
  BY DEF FanOut
<1>3. dispatch.pc = "fanout" /\ w \in dispatch.to
  BY DEF FanOut
<1> HIDE DEF rest
<1> QED
  BY <1>1, <1>2, <1>3

\* Only Arrive, TakeSnapshot and FanOut concern the fan-out.
LEMMA DispatchStep ==
  ASSUME TypeOK, [Next]_vars
  PROVE  \/ dispatch' = dispatch
         \/ dispatch'.pc = "handled" /\ dispatch'.fresh = {} /\ dispatch'.to = {}
         \/ TakeSnapshot \/ \E w \in Waiters : FanOut(w)
<1>1. ASSUME NEW w \in Waiters, Call(w) \/ Acquire(w) \/ Advance(w) PROVE dispatch' = dispatch
  BY <1>1 DEF Call, Acquire, Register, Relock, Advance, Subscribe, SubscribeFails,
     RollBack, Stamp, Publish, Receive, GiveUp, Release, Recheck, Unsubscribe
<1>2. CASE Arrive
  <2>1. PICK live \in BOOLEAN : dispatch' = [NoDispatch EXCEPT !.pc = "handled", !.live = live]
    BY <1>2, Zenon DEF Arrive
  <2> QED
    BY <2>1 DEF NoDispatch
<1>3. CASE Drop \/ Reconnect \/ ListTopics \/ Resubscribe
  BY <1>3, Connection
<1>4. CASE UNCHANGED vars
  BY <1>4 DEF vars
<1> QED
  BY <1>1, <1>2, <1>3, <1>4 DEF Next

\* A step gives no call the result "reply" but Receive, which takes it from the
\* head of the queue.
LEMMA ResultStep ==
  ASSUME TypeOK, [Next]_vars, NEW v \in Waiters, result'[v].why = "reply"
  PROVE  \/ result'[v] = result[v]
         \/ /\ buffer[v] # <<>> /\ result'[v].delivery = Head(buffer[v])
            /\ Counts(Head(buffer[v]))
<1>0. result \in [Waiters -> [why : Results, delivery : Delivery]]
  BY DEF TypeOK
<1> DEFINE fails == [why |-> "failedBeforePublish", delivery |-> NoResult.delivery]
           nothing == [why |-> "noReply", delivery |-> NoResult.delivery]
           reply(w) == [why |-> "reply", delivery |-> Head(buffer[w])]
<1>1. ASSUME NEW w \in Waiters, Call(w) \/ Acquire(w) \/ FanOut(w) PROVE result' = result
  BY <1>1 DEF Call, Acquire, Register, Relock, FanOut
<1>2. ASSUME NEW w \in Waiters, Advance(w)
      PROVE  \/ result' \in {result, [result EXCEPT ![w] = fails],
                             [result EXCEPT ![w] = nothing]}
             \/ /\ buffer[w] # <<>> /\ Counts(Head(buffer[w]))
                /\ result' = [result EXCEPT ![w] = reply(w)]
  BY <1>2 DEF Advance, Subscribe, SubscribeFails, RollBack, Stamp, Publish, Receive,
     GiveUp, Release, Recheck, Unsubscribe, Return
<1>3. ASSUME Arrive \/ TakeSnapshot \/ Drop \/ Reconnect \/ ListTopics \/ Resubscribe
      PROVE  result' = result
  BY <1>3, Messages, Connection
<1>4. ASSUME UNCHANGED vars PROVE result' = result
  BY <1>4 DEF vars
<1>5. /\ fails.why # "reply" /\ nothing.why # "reply"
      /\ \A w \in Waiters : reply(w).delivery = Head(buffer[w])
  OBVIOUS
<1> HIDE DEF fails, nothing, reply
<1>6. result' = result \/ \E w \in Waiters :
        \/ result' \in {[result EXCEPT ![w] = fails], [result EXCEPT ![w] = nothing]}
        \/ /\ buffer[w] # <<>> /\ Counts(Head(buffer[w]))
           /\ result' = [result EXCEPT ![w] = reply(w)]
  BY <1>1, <1>2, <1>3, <1>4 DEF Next
<1> QED
  BY <1>0, <1>5, <1>6

LEMMA LiveStep == TypeOK /\ LiveInv /\ [Next]_vars => LiveInv'
<1> SUFFICES ASSUME TypeOK, LiveInv, [Next]_vars PROVE LiveInv'
  OBVIOUS
<1>0. BufferType /\ DispatchType
  BY TypeParts
<1>1. (dispatch.pc = "fanout" => dispatch.live)'
  <2>1. NoDispatch.pc # "fanout"
    BY DEF NoDispatch
  <2> QED
    BY <2>1, DispatchStep, Snapshot, Delivering DEF LiveInv
<1>2. ASSUME NEW v \in Waiters, NEW i \in 1..Len(buffer'[v]) PROVE buffer'[v][i].live
  <2>0. buffer[v] \in Seq(Delivery) /\ Len(buffer[v]) <= BufferSize
    BY <1>0 DEF BufferType, Deliveries
  <2>l. \A j \in 1..Len(buffer[v]) : buffer[v][j].live
    BY DEF LiveInv
  <2>1. CASE buffer'[v] = buffer[v]
    BY <1>2, <2>1, <2>l
  <2>2. CASE buffer[v] # <<>> /\ buffer'[v] = Tail(buffer[v])
    <3>1. i + 1 \in 1..Len(buffer[v]) /\ buffer'[v][i] = buffer[v][i + 1]
      BY <1>2, <2>0, <2>2, Dequeueing
    <3> QED
      BY <2>l, <3>1
  <2>3. CASE buffer'[v] = <<>>
    BY <1>2, <2>3
  <2>4. CASE /\ FanOut(v)
             /\ buffer'[v] = Enqueued(buffer[v],
                  [live |-> dispatch.live, fresh |-> v \in dispatch.fresh])
    <3> DEFINE delivery == [live |-> dispatch.live, fresh |-> v \in dispatch.fresh]
    <3>1. delivery \in Delivery
      BY <1>0, Newest
    <3>2. delivery.live
      BY <2>4, Delivering DEF LiveInv
    <3>3. buffer'[v] = Enqueued(buffer[v], delivery)
      BY <2>4
    <3> HIDE DEF delivery
    <3>4. \A k \in 1..Len(Enqueued(buffer[v], delivery)) :
            \/ Enqueued(buffer[v], delivery)[k] = delivery
            \/ \E j \in 1..Len(buffer[v]) : Enqueued(buffer[v], delivery)[k] = buffer[v][j]
      BY <2>0, <3>1, Enqueueing
    <3> QED
      BY <2>l, <3>2, <3>3, <3>4
  <2>5. \/ buffer'[v] = buffer[v]
        \/ buffer[v] # <<>> /\ buffer'[v] = Tail(buffer[v])
        \/ buffer'[v] = <<>>
        \/ /\ FanOut(v)
           /\ buffer'[v] = Enqueued(buffer[v],
                [live |-> dispatch.live, fresh |-> v \in dispatch.fresh])
    <3>1. buffer \in Deliveries
      BY <1>0 DEF BufferType
    <3>2. \A w \in Waiters : Receive(w) => buffer[w] # <<>>
      BY DEF Receive
    <3> QED
      BY <3>1, <3>2, BufferStep DEF Deliveries
  <2> QED
    BY <2>1, <2>2, <2>3, <2>4, <2>5
<1>3. ReplyIsLive'
  <2> SUFFICES ASSUME NEW v \in Waiters, result'[v].why = "reply"
               PROVE  result'[v].delivery.live /\ result'[v].delivery.fresh
    BY DEF ReplyIsLive
  <2>1. CASE result'[v] = result[v]
    BY <2>1 DEF LiveInv, ReplyIsLive
  <2>2. CASE /\ buffer[v] # <<>> /\ result'[v].delivery = Head(buffer[v])
             /\ Counts(Head(buffer[v]))
    <3>1. Head(buffer[v]) = buffer[v][1] /\ 1 \in 1..Len(buffer[v])
      BY <1>0, <2>2 DEF BufferType, Deliveries
    <3> QED
      BY <2>2, <3>1 DEF LiveInv, Counts
  <2> QED
    BY <2>1, <2>2, ResultStep
<1> QED
  BY <1>1, <1>2, <1>3 DEF LiveInv

\* A call is Published until it releases, and Over afterwards: it makes one
\* attempt.
LEMMA PublishedStep ==
  ASSUME TypeOK, [Next]_vars
  PROVE  /\ Over \subseteq Over'
         /\ \A w \in Published :
              \/ w \in Published'
              \/ w \in Over' /\ Release(w)
         /\ \A w \in Waiters : pc[w] = "release" => pc'[w] \notin {"publishing", "wait"}
<1>0. pc \in [Waiters -> Steps]
  BY DEF TypeOK
<1> USE DEF Published, Over
<1> DEFINE Returning == \A w \in Waiters : pc[w] = "release" => pc'[w] \notin {"publishing", "wait"}
<1>1. ASSUME NEW v \in Waiters, Call(v) \/ Acquire(v) \/ FanOut(v)
      PROVE  Over \subseteq Over' /\ Published \subseteq Published' /\ Returning
  BY <1>0, <1>1 DEF Call, Acquire, Register, Relock, FanOut
<1>2. ASSUME NEW v \in Waiters,
             Subscribe(v) \/ SubscribeFails(v) \/ RollBack(v) \/ Stamp(v)
      PROVE  Over \subseteq Over' /\ Published \subseteq Published' /\ Returning
  BY <1>0, <1>2 DEF Subscribe, SubscribeFails, RollBack, Stamp
<1>3. ASSUME NEW v \in Waiters, Publish(v) \/ GiveUp(v) \/ Unsubscribe(v) \/ Recheck(v)
      PROVE  Over \subseteq Over' /\ Published \subseteq Published' /\ Returning
  BY <1>0, <1>3 DEF Publish, GiveUp, Unsubscribe, Recheck
<1>4. ASSUME NEW v \in Waiters, Receive(v)
      PROVE  Over \subseteq Over' /\ Published \subseteq Published' /\ Returning
  <2>1. pc[v] = "wait" /\ (pc' = pc \/ pc' = [pc EXCEPT ![v] = "release"])
    BY <1>4 DEF Receive
  <2> QED
    BY <1>0, <2>1
<1>5. ASSUME NEW v \in Waiters, Release(v)
      PROVE  /\ Over \subseteq Over' /\ Returning
             /\ \A w \in Published : w \in Published' \/ (w \in Over' /\ w = v)
  <2>1. /\ pc[v] = "release"
        /\ pc' = [pc EXCEPT ![v] = "relock"] \/ pc' = [pc EXCEPT ![v] = "done"]
    BY <1>5 DEF Release
  <2> QED
    BY <1>0, <2>1
<1>6. ASSUME Arrive \/ TakeSnapshot \/ Drop \/ Reconnect \/ ListTopics \/ Resubscribe
      PROVE  pc' = pc
  BY <1>6, Messages, Connection
<1>7. ASSUME UNCHANGED vars PROVE pc' = pc
  BY <1>7 DEF vars
<1>8. ASSUME pc' = pc PROVE Over \subseteq Over' /\ Published \subseteq Published' /\ Returning
  BY <1>8
<1> QED
  <2> HIDE DEF Published, Over
  <2> QED
    BY <1>1, <1>2, <1>3, <1>4, <1>5, <1>6, <1>7, <1>8 DEF Next, Advance

\* A call enters kept by a delivery that counts, and leaves it by its release.
LEMMA KeptChange ==
  ASSUME [Next]_vars
  PROVE  \/ kept' = kept
         \/ \E w \in Waiters :
              \/ Release(w) /\ kept' = kept \ {w}
              \/ /\ FanOut(w) /\ w \in routing /\ w \in dispatch.fresh
                 /\ kept' = kept \cup {w}
<1>1. ASSUME NEW w \in Waiters, Call(w) \/ Acquire(w) PROVE kept' = kept
  BY <1>1 DEF Call, Acquire, Register, Relock
<1>2. ASSUME NEW w \in Waiters, Advance(w)
      PROVE  kept' = kept \/ (Release(w) /\ kept' = kept \ {w})
  BY <1>2 DEF Advance, Subscribe, SubscribeFails, RollBack, Stamp, Publish, Receive,
     GiveUp, Release, Recheck, Unsubscribe
<1>3. ASSUME NEW w \in Waiters, FanOut(w)
      PROVE  \/ kept' = kept
             \/ w \in routing /\ w \in dispatch.fresh /\ kept' = kept \cup {w}
  BY <1>3 DEF FanOut
<1>4. ASSUME Arrive \/ TakeSnapshot \/ Drop \/ Reconnect \/ ListTopics \/ Resubscribe
      PROVE  kept' = kept
  BY <1>4, Messages, Connection
<1>5. ASSUME UNCHANGED vars PROVE kept' = kept
  BY <1>5 DEF vars
<1> QED
  BY <1>1, <1>2, <1>3, <1>4, <1>5 DEF Next

\* FanOut and Release leave the calls that are Published alone, and a delivery
\* that counts goes to a call that is still in the table, hence Published.
LEMMA CountStep == TypeOK /\ TableInv /\ KeptInv /\ [Next]_vars =>
                     /\ (kept \subseteq Published)'
                     /\ (dispatch.fresh \subseteq Published \cup Over)'
                     /\ (kept \cap dispatch.to \subseteq dispatch.fresh)'
<1> SUFFICES ASSUME TypeOK, TableInv, KeptInv, [Next]_vars
             PROVE  /\ (kept \subseteq Published)'
                    /\ (dispatch.fresh \subseteq Published \cup Over)'
                    /\ (kept \cap dispatch.to \subseteq dispatch.fresh)'
  OBVIOUS
<1>k. /\ kept \subseteq Published /\ dispatch.fresh \subseteq Published \cup Over
      /\ kept \cap dispatch.to \subseteq dispatch.fresh
  BY DEF KeptInv
<1>n. NoDispatch.fresh = {} /\ NoDispatch.to = {}
  BY DEF NoDispatch
<1>o. Over \cap routing = {}
  BY DEF TableInv, Registered, Over
<1>p. /\ Over \subseteq Over' /\ Published \cup Over \subseteq Published' \cup Over'
      /\ \A w \in Published : w \in Published' \/ Release(w)
  BY PublishedStep
<1>f. ASSUME NEW w \in Waiters, FanOut(w) PROVE UNCHANGED <<pc, Published, Over>>
  BY <1>f DEF FanOut, Published, Over
<1>1. (kept \subseteq Published)'
  <2>1. ASSUME NEW w \in Waiters, Release(w)
        PROVE  kept' = kept \ {w} /\ \A v \in Published \ {w} : v \in Published'
    <3>1. /\ kept' = kept \ {w}
          /\ pc' = [pc EXCEPT ![w] = "relock"] \/ pc' = [pc EXCEPT ![w] = "done"]
      BY <2>1 DEF Release
    <3> QED
      BY <3>1 DEF TypeOK, Published
  <2>2. ASSUME NEW w \in Waiters, FanOut(w), w \in routing, w \in dispatch.fresh,
               kept' = kept \cup {w}
        PROVE  kept' \subseteq Published'
    BY <1>f, <1>k, <1>o, <2>2
  <2>3. ASSUME kept' = kept, \A w \in Waiters : ~Release(w)
        PROVE  kept' \subseteq Published'
    BY <1>k, <1>p, <2>3 DEF Published
  <2> QED
    BY <1>k, <2>1, <2>2, <2>3, KeptChange
<1>2. (dispatch.fresh \subseteq Published \cup Over)'
  <2>1. \/ dispatch'.fresh \subseteq dispatch.fresh
        \/ dispatch'.fresh \subseteq Published
    BY <1>n, DispatchStep, Snapshot, Delivering
  <2> QED
    BY <1>k, <1>p, <2>1
<1>3. (kept \cap dispatch.to \subseteq dispatch.fresh)'
  <2>1. CASE dispatch' = dispatch
    <3>1. kept' \subseteq kept \/ \E w \in Waiters : w \in dispatch.fresh /\ kept' = kept \cup {w}
      BY KeptChange
    <3> QED
      BY <1>k, <2>1, <3>1
  <2>2. CASE dispatch'.to = {}
    BY <2>2
  <2>3. CASE TakeSnapshot
    <3>1. kept' = kept
      BY <2>3, Messages
    <3> QED
      BY <1>k, <1>n, <2>3, <3>1, Snapshot
  <2>4. ASSUME NEW w \in Waiters, FanOut(w)
        PROVE  kept' \cap dispatch'.to \subseteq dispatch'.fresh
    <3>1. kept' \subseteq kept \cup {w}
      BY <2>4 DEF FanOut
    <3> QED
      BY <1>k, <1>n, <2>4, <3>1, Delivering
  <2> QED
    BY <2>1, <2>2, <2>3, <2>4, DispatchStep
<1> QED
  BY <1>1, <1>2, <1>3

\* What counts is lost only with what counts behind it: the call that drops its
\* oldest delivery to make room is given one that counts, if it had one.
LEMMA KeptStep == TypeOK /\ TableInv /\ KeptInv /\ [Next]_vars => KeptInv'
<1> SUFFICES ASSUME TypeOK, TableInv, KeptInv, [Next]_vars PROVE KeptInv'
  OBVIOUS
<1>0. BufferType /\ DispatchType
  BY TypeParts
<1> DEFINE Holds(queue) == \E i \in 1..Len(queue) : queue[i].fresh
           delivery(v) == [live |-> dispatch.live, fresh |-> v \in dispatch.fresh]
<1>1. ASSUME NEW v \in Waiters, v \in dispatch.fresh,
             buffer'[v] = Enqueued(buffer[v], delivery(v))
      PROVE  Holds(buffer'[v])
  <2>1. delivery(v) \in Delivery /\ delivery(v).fresh
    BY <1>0, <1>1, Newest
  <2>2. buffer[v] \in Seq(Delivery) /\ Len(buffer[v]) <= BufferSize
    BY <1>0 DEF BufferType, Deliveries
  <2> HIDE DEF delivery
  <2>3. LET after == Enqueued(buffer[v], delivery(v)) IN
        after \in Seq(Delivery) /\ Len(after) >= 1 /\ after[Len(after)] = delivery(v)
    BY <2>1, <2>2, Enqueueing
  <2> DEFINE last == Len(Enqueued(buffer[v], delivery(v)))
  <2>4. last \in 1..last /\ Enqueued(buffer[v], delivery(v))[last].fresh
    BY <2>1, <2>3
  <2> QED
    BY <1>1, <2>4
<1>2. ASSUME NEW v \in Waiters, v \in kept', pc'[v] \in {"publishing", "wait"}
      PROVE  Holds(buffer'[v])
  <2>1. ~Release(v)
    <3>1. ASSUME Release(v) PROVE pc'[v] \in {"relock", "done"}
      BY <3>1 DEF Release, TypeOK
    <3> QED
      BY <1>2, <3>1
  <2>2. CASE v \in kept
    <3>1. pc[v] \in {"publishing", "wait"}
      BY <1>2, <2>2, PublishedStep DEF KeptInv, Published
    <3>2. Holds(buffer[v])
      BY <2>2, <3>1 DEF KeptInv, ReplyIsKept
    <3>3. CASE buffer'[v] = buffer[v]
      BY <3>2, <3>3
    <3>4. CASE Receive(v) /\ buffer'[v] = Tail(buffer[v])
      <4>1. buffer[v] \in Seq(Delivery) /\ buffer[v] # <<>>
        BY <1>0, <3>4 DEF BufferType, Deliveries, Receive
      <4>2. ~buffer[v][1].fresh
        <5>1. ASSUME Counts(Head(buffer[v])) PROVE pc'[v] = "release"
          BY <3>4, <5>1 DEF Receive, TypeOK
        <5> QED
          BY <1>2, <4>1, <5>1, Dequeueing DEF Counts
      <4>3. PICK i \in 1..Len(buffer[v]) : buffer[v][i].fresh
        BY <3>2
      <4>4. i - 1 \in 1..Len(Tail(buffer[v])) /\ Tail(buffer[v])[i - 1] = buffer[v][i]
        <5>1. i # 1
          BY <4>2, <4>3
        <5>2. /\ Len(Tail(buffer[v])) = Len(buffer[v]) - 1 /\ Len(buffer[v]) \in Nat
              /\ \A k \in 1..Len(Tail(buffer[v])) : Tail(buffer[v])[k] = buffer[v][k + 1]
          BY <4>1, Dequeueing
        <5>3. i - 1 \in 1..Len(Tail(buffer[v])) /\ (i - 1) + 1 = i
          BY <5>1, <5>2
        <5> QED
          BY <5>2, <5>3
      <4> QED
        BY <3>4, <4>3, <4>4
    <3>5. CASE FanOut(v) /\ buffer'[v] = Enqueued(buffer[v], delivery(v))
      <4>1. v \in dispatch.fresh
        BY <2>2, <3>5, Delivering DEF KeptInv
      <4> QED
        BY <1>1, <3>5, <4>1
    <3>6. \/ buffer'[v] = buffer[v]
          \/ Receive(v) /\ buffer'[v] = Tail(buffer[v])
          \/ FanOut(v) /\ buffer'[v] = Enqueued(buffer[v], delivery(v))
      <4>1. buffer \in Deliveries
        BY <1>0 DEF BufferType
      <4> QED
        BY <2>1, <4>1, BufferStep DEF Deliveries
    <3> QED
      BY <3>3, <3>4, <3>5, <3>6
  <2>3. CASE v \notin kept
    <3>1. FanOut(v) /\ v \in routing /\ v \in dispatch.fresh
      BY <1>2, <2>3, KeptChange
    <3>2. buffer' = [buffer EXCEPT ![v] = Enqueued(buffer[v], delivery(v))]
      BY <3>1 DEF FanOut
    <3>3. buffer'[v] = Enqueued(buffer[v], delivery(v))
      BY <1>0, <3>2 DEF BufferType, Deliveries
    <3> QED
      BY <1>1, <3>1, <3>3
  <2> QED
    BY <2>2, <2>3
<1> QED
  BY <1>2, CountStep DEF KeptInv, ReplyIsKept

-----------------------------------------------------------------------------
\* The inductive invariant of the response waiters.
THEOREM Invariance == Spec => []IInv
<1>1. Init => IInv
  <2> SUFFICES ASSUME Init PROVE IInv
    OBVIOUS
  <2>1. TypeOK
    <3>1. CallType
      <4>1. NoResult \in [why : Results, delivery : Delivery]
        BY DEF NoResult, Results, Delivery
      <4> QED
        BY <4>1 DEF Init, CallType, Steps
    <3>2. BufferType
      <4> DEFINE empty == <<>>
      <4>1. empty \in Seq(Delivery) /\ Len(empty) <= BufferSize
        BY BoundsAssumption
      <4>2. buffer = [w \in Waiters |-> empty]
        BY DEF Init
      <4> HIDE DEF empty
      <4> QED
        BY <4>1, <4>2 DEF BufferType, Deliveries
    <3>3. ConnectionType
      <4>1. drops \in 0..MaxDrops
        BY BoundsAssumption DEF Init
      <4>2. /\ connected = TRUE /\ subscribed = FALSE /\ unserved = FALSE
            /\ leftover = FALSE /\ replay = FALSE /\ resubscribe = "none"
        BY DEF Init
      <4> QED
        BY <4>1, <4>2 DEF ConnectionType
    <3>4. DispatchType
      BY BoundsAssumption DEF Init, DispatchType, Dispatches, NoDispatch
    <3> QED
      BY <3>1, <3>2, <3>3, <3>4, TypeParts
  <2>2. TableInv
    BY NoneAssumption DEF Init, TableInv, Registered, Locking
  <2>3. SubscriptionInv /\ LeakInv
    BY DEF Init, SubscriptionInv, WaiterIsSubscribed, LeakInv
  <2>4. LiveInv
    BY DEF Init, LiveInv, ReplyIsLive, NoDispatch, NoResult
  <2>5. KeptInv
    BY DEF Init, KeptInv, ReplyIsKept, NoDispatch
  <2> QED
    BY <2>1, <2>2, <2>3, <2>4, <2>5 DEF IInv
<1>2. IInv /\ [Next]_vars => IInv'
  BY TypeStep, TableStep, SubscriptionStep, LeakStep, LiveStep, KeptStep DEF IInv
<1> QED
  BY <1>1, <1>2, PTL DEF Spec

\* Every buffer keeps to pendingWaiterBuffer, and the rest to its types.
THEOREM TypeCorrect == Spec => []TypeOK
<1>1. IInv => TypeOK
  BY DEF IInv
<1> QED
  BY <1>1, Invariance, PTL

\* registerResponseWaiter, releaseResponseWaiter and onConnectionUp together
\* never leave a call that waits without its subscription.
THEOREM StaysSubscribed == Spec => []WaiterIsSubscribed
<1>1. IInv => WaiterIsSubscribed
  BY DEF IInv, SubscriptionInv
<1> QED
  BY <1>1, Invariance, PTL

\* dispatchToWaiters and AwaitResponse take only a live message, received since
\* the publish, for the reply.
THEOREM RepliesAreLive == Spec => []ReplyIsLive
<1>1. IInv => ReplyIsLive
  BY DEF IInv, LiveInv
<1> QED
  BY <1>1, Invariance, PTL

\* The buffer that drops its oldest delivery never drops the last that counts.
THEOREM RepliesAreKept == Spec => []ReplyIsKept
<1>1. IInv => ReplyIsKept
  BY DEF IInv, KeptInv
<1> QED
  BY <1>1, Invariance, PTL

\* When no call is under way, releaseResponseWaiter has emptied the table, freed
\* the lock and unsubscribed, or said that it could not.
THEOREM LeaksNothing == Spec => []NothingLeaks
<1>1. IInv => NothingLeaks
  BY DEF IInv, TypeOK, TableInv, Registered, Locking, LeakInv, NothingLeaks
<1> QED
  BY <1>1, Invariance, PTL
=============================================================================
