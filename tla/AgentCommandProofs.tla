------------------------- MODULE AgentCommandProofs -------------------------
(***************************************************************************)
(* Proofs about AgentCommand, for any number of deliveries and commands,   *)
(* any assignment of keys to commands, any capacity of the cache and any   *)
(* number of restarts.                                                     *)
(*                                                                         *)
(* The safety properties hold because three pieces of state agree: where   *)
(* each delivery stands, which claims are open, and which results are      *)
(* kept.  IInv relates them.                                               *)
(***************************************************************************)
EXTENDS AgentCommand, TLAPS

\* A claim is open exactly while its owner works on it, and one key has one claim.
ClaimInv ==
  /\ \A d \in Deliveries : d \in inFlight <=> pc[d] \in Owning
  /\ \A d, e \in inFlight : Key(d) = Key(e) => d = e

\* d has received its command, so that its key no longer changes.
Begun(d) == pc[d] # "idle"
HasResult(d) == Begun(d) /\ outcome[d] # "none"

\* A result precedes the step that hands it over, and whoever kept one or closed
\* its channel has produced one.
ResultInv ==
  /\ \A d \in Deliveries : pc[d] \in {"settling", "closing"} => outcome[d] # "none"
  /\ \A d \in closed : HasResult(d)
  /\ \A d \in Kept : HasResult(d)

\* The result a delivery waits for, or answers with, belongs to its key.
SourceInv ==
  \A d \in Deliveries :
    /\ pc[d] \in {"awaiting", "responding", "answered"} =>
         source[d] \in Deliveries /\ Begun(source[d]) /\ Key(source[d]) = Key(d)
    /\ pc[d] \in {"responding", "answered"} => HasResult(source[d])

\* The cache is the end of what was settled, as long as its capacity allows, and
\* a key that is claimed has no result in it.
CacheIsTail ==
  /\ Len(cache) = IF Len(settled) < Capacity THEN Len(settled) ELSE Capacity
  /\ \A i \in 1..Len(cache) : cache[i] = settled[Len(settled) - Len(cache) + i]
ClaimedIsNotKept == \A d \in inFlight, e \in Kept : Key(e) # Key(d)
CacheInv == CacheIsTail /\ ClaimedIsNotKept

IInv ==
  /\ TypeOK
  /\ ClaimInv
  /\ ResultInv
  /\ SourceInv
  /\ WaiterHasAnOwner
  /\ CacheInv

-----------------------------------------------------------------------------
\* The tuples actions leave unchanged are expanded throughout.
USE DEF handlerVars, cacheVars

\* A claimed key has no result kept, so that completing the claim appends one,
\* and the oldest goes if the cache was full.
LEMMA KeepingAppends ==
  ASSUME TypeOK, CacheInv, NEW d \in inFlight
  PROVE  /\ Keeping(d) \in Seq(Deliveries)
         /\ Len(Keeping(d)) =
              IF Len(cache) < Capacity THEN Len(cache) + 1 ELSE Capacity
         /\ \A i \in 1..Len(Keeping(d)) :
              Keeping(d)[i] = Append(cache, d)[Len(cache) + 1 - Len(Keeping(d)) + i]
<1> DEFINE kept == Append(cache, d)
<1>1. /\ Keeping(d) = Newest(kept)
      /\ cache \in Seq(Deliveries) /\ d \in Deliveries
      /\ Len(cache) \in Nat /\ Len(cache) <= Capacity
      /\ Capacity \in Nat \ {0}
  BY BoundsAssumption DEF Keeping, KeptFor, CacheInv, ClaimedIsNotKept,
                         TypeOK
<1>2. /\ kept \in Seq(Deliveries)
      /\ Len(kept) = Len(cache) + 1
  BY <1>1
<1> HIDE DEF kept
<1>3. CASE Len(cache) < Capacity
  <2>1. Keeping(d) = kept
    BY <1>1, <1>2, <1>3 DEF Newest
  <2> QED
    BY <1>1, <1>2, <1>3, <2>1 DEF kept
<1>4. CASE Len(cache) = Capacity
  <2>1. Keeping(d) = Tail(kept)
    BY <1>1, <1>2, <1>4 DEF Newest
  <2>2. /\ Tail(kept) \in Seq(Deliveries)
        /\ Len(Tail(kept)) = Capacity
    BY <1>1, <1>2, <1>4
  <2>3. \A i \in 1..Capacity : Tail(kept)[i] = kept[1 + i]
    BY <1>1, <1>2, <1>4
  <2>4. /\ Len(Keeping(d)) = Capacity
        /\ \A i \in 1..Capacity : Keeping(d)[i] = kept[Len(cache) + 1 - Capacity + i]
    BY <1>1, <1>4, <2>1, <2>2, <2>3
  <2>5. ~(Len(cache) < Capacity) /\ Keeping(d) \in Seq(Deliveries)
    BY <1>1, <1>4, <2>1, <2>2
  <2> QED
    BY <2>4, <2>5, Zenon DEF kept
<1>5. Len(cache) < Capacity \/ Len(cache) = Capacity
  BY <1>1
<1> QED
  BY <1>3, <1>4, <1>5, Zenon

\* Every variable keeps its type in every step.
LEMMA TypeStep == TypeOK /\ ClaimInv /\ CacheInv /\ [Next]_vars => TypeOK'
<1> SUFFICES ASSUME TypeOK, ClaimInv, CacheInv, [Next]_vars PROVE TypeOK'
  OBVIOUS
<1>1. ASSUME NEW d \in Deliveries, NEW c \in Commands, Receive(d, c) PROVE TypeOK'
  BY <1>1 DEF TypeOK, Receive, GoTo, AnswerWith, Produce, Steps, Outcomes
<1>2. ASSUME NEW d \in Deliveries, Replay(d) PROVE TypeOK'
  BY <1>2 DEF TypeOK, Replay, GoTo, AnswerWith, KeptFor, Kept, Steps
<1>3. ASSUME NEW d \in Deliveries, Await(d) PROVE TypeOK'
  BY <1>3 DEF TypeOK, Await, GoTo, AnswerWith, ClaimsFor, Steps
<1>4. ASSUME NEW d \in Deliveries, Claim(d) PROVE TypeOK'
  BY <1>4 DEF TypeOK, Claim, GoTo, Steps
<1>5. ASSUME NEW d \in Deliveries, Wake(d) PROVE TypeOK'
  BY <1>5 DEF TypeOK, Wake, GoTo, Steps
<1>6. ASSUME NEW d \in Deliveries, Refuse(d) PROVE TypeOK'
  BY <1>6 DEF TypeOK, Refuse, GoTo, Produce, Steps, Outcomes
<1>7. ASSUME NEW d \in Deliveries, Execute(d) PROVE TypeOK'
  BY <1>7 DEF TypeOK, Execute, GoTo, Steps
<1>8. ASSUME NEW d \in Deliveries, NEW o \in Outcomes, Finish(d, o) PROVE TypeOK'
  BY <1>8 DEF TypeOK, Finish, GoTo, Produce, Steps
<1>9. ASSUME NEW d \in Deliveries, Complete(d) PROVE TypeOK'
  <2>1. d \in inFlight
    BY <1>9 DEF Complete, At, ClaimInv, Owning
  <2>2. cache' \in Seq(Deliveries) /\ Len(cache') <= Capacity
    BY <1>9, <2>1, KeepingAppends, BoundsAssumption DEF Complete, TypeOK
  <2> QED
    BY <1>9, <2>2 DEF TypeOK, Complete, GoTo, Steps
<1>10. ASSUME NEW d \in Deliveries, Release(d) PROVE TypeOK'
  BY <1>10 DEF TypeOK, Release, GoTo, Steps
<1>11. ASSUME NEW d \in Deliveries, CloseDone(d) PROVE TypeOK'
  BY <1>11 DEF TypeOK, CloseDone, Opened, GoTo, AnswerWith, Steps
<1>12. ASSUME NEW d \in Deliveries, PublishResult(d) PROVE TypeOK'
  BY <1>12 DEF TypeOK, PublishResult, GoTo, Steps
<1>13. ASSUME NEW c \in Commands, DeadlinePasses(c) PROVE TypeOK'
  BY <1>13 DEF TypeOK, DeadlinePasses
<1>14. CASE Restart
  <2>1. cache' = <<>> /\ settled' = <<>> /\ Len(cache') <= Capacity
    BY <1>14, BoundsAssumption DEF Restart
  <2> QED
    BY <1>14, <2>1, BoundsAssumption DEF TypeOK, Restart, At, Steps
<1>15. CASE UNCHANGED vars
  BY <1>15 DEF TypeOK, vars
<1> QED
  BY <1>1, <1>2, <1>3, <1>4, <1>5, <1>6, <1>7, <1>8, <1>9, <1>10, <1>11, <1>12,
     <1>13, <1>14, <1>15 DEF Next, Handle, FinishAny

\* Claims are opened by Claim, for a key that has none, and closed by Complete
\* and Release.
LEMMA ClaimStep == TypeOK /\ ClaimInv /\ [Next]_vars => ClaimInv'
<1> SUFFICES ASSUME TypeOK, ClaimInv, [Next]_vars PROVE ClaimInv'
  OBVIOUS
<1>1. ASSUME NEW d \in Deliveries, NEW c \in Commands,
             Receive(d, c)
      PROVE  ClaimInv'
  BY <1>1 DEF TypeOK, ClaimInv, Key, Owning, Receive, At, GoTo, AnswerWith,
              Produce
<1>2. ASSUME NEW d \in Deliveries, Replay(d) PROVE ClaimInv'
  BY <1>2 DEF TypeOK, ClaimInv, Key, Owning, Replay, At, GoTo, AnswerWith
<1>3. ASSUME NEW d \in Deliveries, Await(d) PROVE ClaimInv'
  BY <1>3 DEF TypeOK, ClaimInv, Key, Owning, Await, At, GoTo, AnswerWith
<1>4. ASSUME NEW d \in Deliveries, Claim(d) PROVE ClaimInv'
  BY <1>4 DEF TypeOK, ClaimInv, Key, Owning, Claim, ClaimsFor, At, GoTo
<1>5. ASSUME NEW d \in Deliveries, Wake(d) PROVE ClaimInv'
  BY <1>5 DEF TypeOK, ClaimInv, Key, Owning, Wake, At, GoTo
<1>6. ASSUME NEW d \in Deliveries, Refuse(d) PROVE ClaimInv'
  BY <1>6 DEF TypeOK, ClaimInv, Key, Owning, Refuse, At, GoTo, Produce
<1>7. ASSUME NEW d \in Deliveries, Execute(d) PROVE ClaimInv'
  BY <1>7 DEF TypeOK, ClaimInv, Key, Owning, Execute, At, GoTo
<1>8. ASSUME NEW d \in Deliveries, NEW o \in Outcomes \ {"none", "refused"},
             Finish(d, o)
      PROVE  ClaimInv'
  BY <1>8 DEF TypeOK, ClaimInv, Key, Owning, Finish, At, GoTo, Produce
<1>9. ASSUME NEW d \in Deliveries, Complete(d) PROVE ClaimInv'
  BY <1>9 DEF TypeOK, ClaimInv, Key, Owning, Complete, At, GoTo
<1>10. ASSUME NEW d \in Deliveries, Release(d) PROVE ClaimInv'
  BY <1>10 DEF TypeOK, ClaimInv, Key, Owning, Release, At, GoTo
<1>11. ASSUME NEW d \in Deliveries, CloseDone(d) PROVE ClaimInv'
  BY <1>11 DEF TypeOK, ClaimInv, Key, Owning, CloseDone, At, Opened, GoTo,
               AnswerWith
<1>12. ASSUME NEW d \in Deliveries, PublishResult(d) PROVE ClaimInv'
  BY <1>12 DEF TypeOK, ClaimInv, Key, Owning, PublishResult, At, GoTo
<1>13. ASSUME NEW c \in Commands, DeadlinePasses(c) PROVE ClaimInv'
  BY <1>13 DEF TypeOK, ClaimInv, Key, Owning, DeadlinePasses
<1>14. CASE Restart
  BY <1>14 DEF TypeOK, ClaimInv, Key, Owning, Restart, At
<1>15. CASE UNCHANGED vars
  BY <1>15 DEF TypeOK, ClaimInv, Key, Owning, vars
<1> QED
  BY <1>1, <1>2, <1>3, <1>4, <1>5, <1>6, <1>7, <1>8, <1>9, <1>10, <1>11, <1>12,
     <1>13, <1>14, <1>15 DEF Next, Handle, FinishAny

\* A completed result is the last of the cache, and the others in it were there.
LEMMA KeepingIsNew ==
  ASSUME TypeOK, CacheInv, NEW d \in inFlight, NEW e,
         e \in {Keeping(d)[i] : i \in 1..Len(Keeping(d))}
  PROVE  e = d \/ e \in Kept
<1> DEFINE kept == Append(cache, d)
<1>1. /\ cache \in Seq(Deliveries) /\ d \in Deliveries /\ Len(cache) \in Nat
      /\ Capacity \in Nat \ {0} /\ Len(cache) <= Capacity
  BY BoundsAssumption DEF TypeOK
<1>2. PICK i \in 1..Len(Keeping(d)) :
        e = kept[Len(cache) + 1 - Len(Keeping(d)) + i]
  BY KeepingAppends
<1>3. Len(cache) + 1 - Len(Keeping(d)) + i \in 1..(Len(cache) + 1)
  BY <1>1, KeepingAppends
<1>4. \A j \in 1..(Len(cache) + 1) : kept[j] = IF j <= Len(cache) THEN cache[j] ELSE d
  BY <1>1
<1> QED
  BY <1>1, <1>2, <1>3, <1>4 DEF Kept

\* Results are produced on the way to "settling", and never taken back.
LEMMA ResultStep ==
  TypeOK /\ ClaimInv /\ ResultInv /\ CacheInv /\ [Next]_vars => ResultInv'
<1> SUFFICES ASSUME TypeOK, ClaimInv, ResultInv, CacheInv, [Next]_vars
             PROVE  ResultInv'
  OBVIOUS
<1>1. ASSUME NEW d \in Deliveries, NEW c \in Commands,
             Receive(d, c)
      PROVE  ResultInv'
  BY <1>1 DEF TypeOK, ResultInv, Kept, HasResult, Begun, Receive, At, GoTo,
              AnswerWith, Produce
<1>2. ASSUME NEW d \in Deliveries, Replay(d) PROVE ResultInv'
  BY <1>2 DEF TypeOK, ResultInv, Kept, HasResult, Begun, Replay, At, GoTo,
              AnswerWith
<1>3. ASSUME NEW d \in Deliveries, Await(d) PROVE ResultInv'
  BY <1>3 DEF TypeOK, ResultInv, Kept, HasResult, Begun, Await, At, GoTo,
              AnswerWith
<1>4. ASSUME NEW d \in Deliveries, Claim(d) PROVE ResultInv'
  BY <1>4 DEF TypeOK, ResultInv, Kept, HasResult, Begun, Claim, At, GoTo
<1>5. ASSUME NEW d \in Deliveries, Wake(d) PROVE ResultInv'
  BY <1>5 DEF TypeOK, ResultInv, Kept, HasResult, Begun, Wake, At, GoTo
<1>6. ASSUME NEW d \in Deliveries, Refuse(d) PROVE ResultInv'
  BY <1>6 DEF TypeOK, ResultInv, Kept, HasResult, Begun, Refuse, At, GoTo,
              Produce
<1>7. ASSUME NEW d \in Deliveries, Execute(d) PROVE ResultInv'
  BY <1>7 DEF TypeOK, ResultInv, Kept, HasResult, Begun, Execute, At, GoTo
<1>8. ASSUME NEW d \in Deliveries, NEW o \in Outcomes \ {"none", "refused"},
             Finish(d, o)
      PROVE  ResultInv'
  BY <1>8 DEF TypeOK, ResultInv, Kept, HasResult, Begun, Finish, At, GoTo,
              Produce
<1>9. ASSUME NEW d \in Deliveries, Complete(d) PROVE ResultInv'
  <2>1. d \in inFlight /\ HasResult(d)
    BY <1>9 DEF Complete, At, ClaimInv, Owning, ResultInv, HasResult, Begun
  <2>2. \A e \in Kept' : e = d \/ e \in Kept
    BY <1>9, <2>1, KeepingIsNew DEF Complete, Kept
  <2>3. \A e \in Kept' : HasResult(e)'
    BY <1>9, <2>1, <2>2 DEF TypeOK, ResultInv, Complete, GoTo, HasResult, Begun
  <2> QED
    BY <1>9, <2>3 DEF TypeOK, ResultInv, Complete, At, GoTo, HasResult, Begun
<1>10. ASSUME NEW d \in Deliveries, Release(d) PROVE ResultInv'
  BY <1>10 DEF TypeOK, ResultInv, Kept, HasResult, Begun, Release, At, GoTo
<1>11. ASSUME NEW d \in Deliveries, CloseDone(d) PROVE ResultInv'
  BY <1>11 DEF TypeOK, ResultInv, Kept, HasResult, Begun, CloseDone, At,
               Opened, GoTo, AnswerWith
<1>12. ASSUME NEW d \in Deliveries, PublishResult(d) PROVE ResultInv'
  BY <1>12 DEF TypeOK, ResultInv, Kept, HasResult, Begun, PublishResult, At,
               GoTo
<1>13. ASSUME NEW c \in Commands, DeadlinePasses(c) PROVE ResultInv'
  BY <1>13 DEF TypeOK, ResultInv, Kept, HasResult, Begun, DeadlinePasses
<1>14. CASE Restart
  BY <1>14 DEF TypeOK, ResultInv, Kept, HasResult, Begun, Restart, At
<1>15. CASE UNCHANGED vars
  BY <1>15 DEF TypeOK, ResultInv, Kept, HasResult, Begun, vars
<1> QED
  BY <1>1, <1>2, <1>3, <1>4, <1>5, <1>6, <1>7, <1>8, <1>9, <1>10, <1>11, <1>12,
     <1>13, <1>14, <1>15 DEF Next, Handle, FinishAny

\* A delivery finds the result, or the claim, of another with its key.
LEMMA SourceStep ==
  TypeOK /\ ClaimInv /\ ResultInv /\ SourceInv /\ [Next]_vars => SourceInv'
<1> SUFFICES ASSUME TypeOK, ClaimInv, ResultInv, SourceInv, [Next]_vars
             PROVE  SourceInv'
  OBVIOUS
<1>1. ASSUME NEW d \in Deliveries, NEW c \in Commands,
             Receive(d, c)
      PROVE  SourceInv'
  BY <1>1 DEF TypeOK, ResultInv, SourceInv, Key, HasResult, Begun, Receive, At,
              GoTo, AnswerWith, Produce
<1>2. ASSUME NEW d \in Deliveries, Replay(d) PROVE SourceInv'
  BY <1>2 DEF TypeOK, ResultInv, SourceInv, Key, HasResult, Begun, Replay,
              KeptFor,
              Kept, At, GoTo, AnswerWith
<1>3. ASSUME NEW d \in Deliveries, Await(d) PROVE SourceInv'
  BY <1>3 DEF TypeOK, ClaimInv, Owning, SourceInv, Key, HasResult, Begun,
              Await,
              ClaimsFor, At, GoTo, AnswerWith
<1>4. ASSUME NEW d \in Deliveries, Claim(d) PROVE SourceInv'
  BY <1>4 DEF TypeOK, ResultInv, SourceInv, Key, HasResult, Begun, Claim, At,
              GoTo
<1>5. ASSUME NEW d \in Deliveries, Wake(d) PROVE SourceInv'
  BY <1>5 DEF TypeOK, ResultInv, SourceInv, Key, HasResult, Begun, Wake,
              Released,
              At, GoTo
<1>6. ASSUME NEW d \in Deliveries, Refuse(d) PROVE SourceInv'
  BY <1>6 DEF TypeOK, ResultInv, SourceInv, Key, HasResult, Begun, Refuse, At,
              GoTo, Produce
<1>7. ASSUME NEW d \in Deliveries, Execute(d) PROVE SourceInv'
  BY <1>7 DEF TypeOK, ResultInv, SourceInv, Key, HasResult, Begun, Execute, At,
              GoTo
<1>8. ASSUME NEW d \in Deliveries, NEW o \in Outcomes \ {"none", "refused"},
             Finish(d, o)
      PROVE  SourceInv'
  BY <1>8 DEF TypeOK, ResultInv, SourceInv, Key, HasResult, Begun, Finish, At,
              GoTo, Produce
<1>9. ASSUME NEW d \in Deliveries, Complete(d) PROVE SourceInv'
  BY <1>9 DEF TypeOK, ResultInv, SourceInv, Key, HasResult, Begun, Complete,
              At, GoTo
<1>10. ASSUME NEW d \in Deliveries, Release(d) PROVE SourceInv'
  BY <1>10 DEF TypeOK, ResultInv, SourceInv, Key, HasResult, Begun, Release,
               At, GoTo
<1>11. ASSUME NEW d \in Deliveries, CloseDone(d) PROVE SourceInv'
  BY <1>11 DEF TypeOK, ResultInv, SourceInv, Key, HasResult, Begun, CloseDone,
               At, Opened, GoTo, AnswerWith
<1>12. ASSUME NEW d \in Deliveries, PublishResult(d) PROVE SourceInv'
  BY <1>12 DEF TypeOK, ResultInv, SourceInv, Key, HasResult, Begun,
               PublishResult, At, GoTo
<1>13. ASSUME NEW c \in Commands, DeadlinePasses(c) PROVE SourceInv'
  BY <1>13 DEF TypeOK, ResultInv, SourceInv, Key, HasResult, Begun,
               DeadlinePasses
<1>14. CASE Restart
  BY <1>14 DEF TypeOK, ResultInv, SourceInv, Key, HasResult, Begun, Restart, At
<1>15. CASE UNCHANGED vars
  BY <1>15 DEF TypeOK, ResultInv, SourceInv, Key, HasResult, Begun, vars
<1> QED
  BY <1>1, <1>2, <1>3, <1>4, <1>5, <1>6, <1>7, <1>8, <1>9, <1>10, <1>11, <1>12,
     <1>13, <1>14, <1>15 DEF Next, Handle, FinishAny

\* An owner leaves its waiters only through "closing".
LEMMA WaiterStep ==
  TypeOK /\ ClaimInv /\ SourceInv /\ WaiterHasAnOwner /\ [Next]_vars
    => WaiterHasAnOwner'
<1> SUFFICES ASSUME TypeOK, ClaimInv, SourceInv, WaiterHasAnOwner, [Next]_vars
             PROVE  WaiterHasAnOwner'
  OBVIOUS
<1>1. ASSUME NEW d \in Deliveries, NEW c \in Commands,
             Receive(d, c)
      PROVE  WaiterHasAnOwner'
  BY <1>1 DEF TypeOK, SourceInv, WaiterHasAnOwner, Owning, Begun, Receive, At,
              GoTo, AnswerWith, Produce
<1>2. ASSUME NEW d \in Deliveries, Replay(d) PROVE WaiterHasAnOwner'
  BY <1>2 DEF TypeOK, SourceInv, WaiterHasAnOwner, Owning, Begun, Replay, At,
              GoTo, AnswerWith
<1>3. ASSUME NEW d \in Deliveries, Await(d) PROVE WaiterHasAnOwner'
  BY <1>3 DEF TypeOK, ClaimInv, WaiterHasAnOwner, Owning, Await, ClaimsFor, At,
              GoTo, AnswerWith
<1>4. ASSUME NEW d \in Deliveries, Claim(d) PROVE WaiterHasAnOwner'
  BY <1>4 DEF TypeOK, SourceInv, WaiterHasAnOwner, Owning, Begun, Claim, At,
              GoTo
<1>5. ASSUME NEW d \in Deliveries, Wake(d) PROVE WaiterHasAnOwner'
  BY <1>5 DEF TypeOK, SourceInv, WaiterHasAnOwner, Owning, Begun, Wake, At,
              GoTo
<1>6. ASSUME NEW d \in Deliveries, Refuse(d) PROVE WaiterHasAnOwner'
  BY <1>6 DEF TypeOK, SourceInv, WaiterHasAnOwner, Owning, Begun, Refuse, At,
              GoTo, Produce
<1>7. ASSUME NEW d \in Deliveries, Execute(d) PROVE WaiterHasAnOwner'
  BY <1>7 DEF TypeOK, SourceInv, WaiterHasAnOwner, Owning, Begun, Execute, At,
              GoTo
<1>8. ASSUME NEW d \in Deliveries, NEW o \in Outcomes \ {"none", "refused"},
             Finish(d, o)
      PROVE  WaiterHasAnOwner'
  BY <1>8 DEF TypeOK, SourceInv, WaiterHasAnOwner, Owning, Begun, Finish, At,
              GoTo, Produce
<1>9. ASSUME NEW d \in Deliveries, Complete(d) PROVE WaiterHasAnOwner'
  BY <1>9 DEF TypeOK, SourceInv, WaiterHasAnOwner, Owning, Begun, Complete, At,
              GoTo
<1>10. ASSUME NEW d \in Deliveries, Release(d) PROVE WaiterHasAnOwner'
  BY <1>10 DEF TypeOK, SourceInv, WaiterHasAnOwner, Owning, Begun, Release, At,
               GoTo
<1>11. ASSUME NEW d \in Deliveries, CloseDone(d) PROVE WaiterHasAnOwner'
  BY <1>11 DEF TypeOK, SourceInv, WaiterHasAnOwner, Owning, Begun, CloseDone,
               At, Opened, GoTo, AnswerWith
<1>12. ASSUME NEW d \in Deliveries, PublishResult(d) PROVE WaiterHasAnOwner'
  BY <1>12 DEF TypeOK, SourceInv, WaiterHasAnOwner, Owning, Begun,
               PublishResult, At, GoTo
<1>13. ASSUME NEW c \in Commands, DeadlinePasses(c) PROVE WaiterHasAnOwner'
  BY <1>13 DEF TypeOK, SourceInv, WaiterHasAnOwner, Owning, Begun,
               DeadlinePasses, At
<1>14. CASE Restart
  BY <1>14 DEF TypeOK, SourceInv, WaiterHasAnOwner, Owning, Begun, Restart, At
<1>15. CASE UNCHANGED vars
  BY <1>15 DEF TypeOK, SourceInv, WaiterHasAnOwner, Owning, Begun, vars, At,
               At, At
<1> QED
  BY <1>1, <1>2, <1>3, <1>4, <1>5, <1>6, <1>7, <1>8, <1>9, <1>10, <1>11, <1>12,
     <1>13, <1>14, <1>15 DEF Next, Handle, FinishAny

LEMMA AppendedAt ==
  ASSUME NEW S, NEW s \in Seq(S), NEW x \in S
  PROVE  /\ \A j \in 1..Len(s) : Append(s, x)[j] = s[j]
         /\ Append(s, x)[Len(s) + 1] = x
  OBVIOUS

\* Completing a claim appends to the cache what it appends to settled; no other
\* step but a restart touches either.
LEMMA CacheTailStep == TypeOK /\ ClaimInv /\ CacheInv /\ [Next]_vars => CacheIsTail'
<1> SUFFICES ASSUME TypeOK, ClaimInv, CacheInv, [Next]_vars PROVE CacheIsTail'
  OBVIOUS
<1>1. CASE cache' = cache /\ settled' = settled
  BY <1>1 DEF CacheInv, CacheIsTail
<1>2. ASSUME NEW d \in Deliveries, Complete(d) PROVE CacheIsTail'
  <2> DEFINE n == Len(cache)
             m == Len(settled)
             k == Len(cache')
  <2>1. d \in inFlight /\ cache' = Keeping(d) /\ settled' = Append(settled, d)
    BY <1>2 DEF Complete, At, ClaimInv, Owning
  <2>2. /\ cache \in Seq(Deliveries) /\ settled \in Seq(Deliveries)
        /\ Capacity \in Nat \ {0} /\ n \in Nat /\ m \in Nat
        /\ n = IF m < Capacity THEN m ELSE Capacity
    BY BoundsAssumption DEF TypeOK, CacheInv, CacheIsTail
  <2>3. /\ k = IF n < Capacity THEN n + 1 ELSE Capacity
        /\ Len(settled') = m + 1
        /\ \A i \in 1..k : cache'[i] = Append(cache, d)[n + 1 - k + i]
    <3>1. /\ Len(Keeping(d)) = IF n < Capacity THEN n + 1 ELSE Capacity
          /\ \A i \in 1..Len(Keeping(d)) :
               Keeping(d)[i] = Append(cache, d)[n + 1 - Len(Keeping(d)) + i]
      BY <2>1, KeepingAppends
    <3>2. Len(settled') = m + 1
      BY <2>1, <2>2
    <3> QED
      BY <2>1, <3>1, <3>2, Zenon
  <2>4. \A j \in 1..(n + 1) : Append(cache, d)[j] = settled'[m - n + j]
    <3>1. /\ \A j \in 1..n : cache[j] = settled[m - n + j]
          /\ \A j \in 1..n : m - n + j \in 1..m
      <4>1. \A j \in 1..n : cache[j] = settled[m - n + j]
        BY DEF CacheInv, CacheIsTail
      <4>2. \A j \in 1..n : m - n + j \in 1..m
        <5> HIDE DEF n, m
        <5> QED
          BY <2>2
      <4> QED
        BY <4>1, <4>2
    <3>2. /\ \A j \in 1..n : Append(cache, d)[j] = cache[j]
          /\ Append(cache, d)[n + 1] = d
      BY <2>2, AppendedAt
    <3>3. /\ \A j \in 1..m : Append(settled, d)[j] = settled[j]
          /\ Append(settled, d)[m + 1] = d
      BY <2>2, AppendedAt
    <3>4. \A j \in 1..n : Append(cache, d)[j] = Append(settled, d)[m - n + j]
      BY <3>1, <3>2, <3>3, Zenon
    <3> HIDE DEF n, m
    <3>5. m - n + (n + 1) = m + 1
      BY <2>2
    <3>6. \A j \in 1..(n + 1) : j \in 1..n \/ j = n + 1
      BY <2>2
    <3> QED
      BY <2>1, <3>2, <3>3, <3>4, <3>5, <3>6, Zenon
  <2> HIDE DEF n, m, k
  <2>5. \A i \in 1..k : /\ n + 1 - k + i \in 1..(n + 1)
                       /\ m - n + (n + 1 - k + i) = Len(settled') - k + i
    BY <2>2, <2>3
  <2>6. \A i \in 1..k : cache'[i] = settled'[Len(settled') - k + i]
    <3> SUFFICES ASSUME NEW i \in 1..k
                 PROVE  cache'[i] = settled'[Len(settled') - k + i]
      OBVIOUS
    <3>1. cache'[i] = Append(cache, d)[n + 1 - k + i]
      BY <2>3
    <3>2. Append(cache, d)[n + 1 - k + i] = settled'[m - n + (n + 1 - k + i)]
      BY <2>4, <2>5, Zenon
    <3> QED
      BY <2>5, <3>1, <3>2
  <2>7. k = IF Len(settled') < Capacity THEN Len(settled') ELSE Capacity
    BY <2>2, <2>3
  <2> QED
    BY <2>6, <2>7 DEF CacheIsTail, k
<1>3. CASE Restart
  <2>1. cache' = <<>> /\ Len(cache') = 0 /\ Len(settled') = 0
    BY <1>3 DEF Restart
  <2> QED
    BY <2>1, BoundsAssumption DEF CacheIsTail
<1> QED
  BY <1>1, <1>2, <1>3
     DEF Next, Handle, FinishAny, vars, Receive, Replay, Await, Claim, Wake, Refuse,
         Execute, Finish, Release, CloseDone, PublishResult, DeadlinePasses

\* Claim finds no result for its key; until the claim goes, only its owner could
\* keep one.
LEMMA ClaimedStep ==
  TypeOK /\ ClaimInv /\ ResultInv /\ CacheInv /\ [Next]_vars => ClaimedIsNotKept'
<1> SUFFICES ASSUME TypeOK, ClaimInv, ResultInv, CacheInv, [Next]_vars
             PROVE  ClaimedIsNotKept'
  OBVIOUS
<1>1. ASSUME NEW d \in Deliveries, NEW c \in Commands,
             Receive(d, c)
      PROVE  ClaimedIsNotKept'
  BY <1>1 DEF TypeOK, ClaimInv, ResultInv, HasResult, Begun, CacheInv,
              ClaimedIsNotKept, KeptFor, Kept, Key, Owning, Receive, At, GoTo
<1>2. ASSUME NEW d \in Deliveries, Replay(d) PROVE ClaimedIsNotKept'
  BY <1>2 DEF CacheInv, ClaimedIsNotKept, KeptFor, Kept, Key, Replay, At, GoTo,
              AnswerWith
<1>3. ASSUME NEW d \in Deliveries, Await(d) PROVE ClaimedIsNotKept'
  BY <1>3 DEF CacheInv, ClaimedIsNotKept, KeptFor, Kept, Key, Await, At, GoTo,
              AnswerWith
<1>4. ASSUME NEW d \in Deliveries, Claim(d) PROVE ClaimedIsNotKept'
  BY <1>4 DEF CacheInv, ClaimedIsNotKept, KeptFor, Kept, Key, Claim, At, GoTo
<1>5. ASSUME NEW d \in Deliveries, Wake(d) PROVE ClaimedIsNotKept'
  BY <1>5 DEF CacheInv, ClaimedIsNotKept, KeptFor, Kept, Key, Wake, At, GoTo
<1>6. ASSUME NEW d \in Deliveries, Refuse(d) PROVE ClaimedIsNotKept'
  BY <1>6 DEF CacheInv, ClaimedIsNotKept, KeptFor, Kept, Key, Refuse, At, GoTo,
              Produce
<1>7. ASSUME NEW d \in Deliveries, Execute(d) PROVE ClaimedIsNotKept'
  BY <1>7 DEF CacheInv, ClaimedIsNotKept, KeptFor, Kept, Key, Execute, At, GoTo
<1>8. ASSUME NEW d \in Deliveries, NEW o \in Outcomes \ {"none", "refused"},
             Finish(d, o)
      PROVE  ClaimedIsNotKept'
  BY <1>8 DEF CacheInv, ClaimedIsNotKept, KeptFor, Kept, Key, Finish, At, GoTo,
              Produce
<1>9. ASSUME NEW d \in Deliveries, Complete(d) PROVE ClaimedIsNotKept'
  <2>1. d \in inFlight /\ inFlight' = inFlight \ {d} /\ command' = command
    BY <1>9 DEF Complete, At, ClaimInv, Owning
  <2>2. \A x \in Kept' : x = d \/ x \in Kept
    BY <1>9, <2>1, KeepingIsNew DEF Complete, Kept
  <2> QED
    BY <2>1, <2>2 DEF ClaimInv, CacheInv, ClaimedIsNotKept, KeptFor, Key
<1>10. ASSUME NEW d \in Deliveries, Release(d) PROVE ClaimedIsNotKept'
  BY <1>10 DEF CacheInv, ClaimedIsNotKept, KeptFor, Kept, Key, Release, At,
               GoTo
<1>11. ASSUME NEW d \in Deliveries, CloseDone(d) PROVE ClaimedIsNotKept'
  BY <1>11 DEF CacheInv, ClaimedIsNotKept, KeptFor, Kept, Key, CloseDone, At,
               Opened, GoTo, AnswerWith
<1>12. ASSUME NEW d \in Deliveries, PublishResult(d) PROVE ClaimedIsNotKept'
  BY <1>12 DEF CacheInv, ClaimedIsNotKept, KeptFor, Kept, Key, PublishResult,
               At, GoTo
<1>13. ASSUME NEW c \in Commands, DeadlinePasses(c) PROVE ClaimedIsNotKept'
  BY <1>13 DEF CacheInv, ClaimedIsNotKept, KeptFor, Kept, Key, DeadlinePasses
<1>14. CASE Restart
  BY <1>14 DEF ClaimedIsNotKept, Restart
<1>15. CASE UNCHANGED vars
  BY <1>15 DEF CacheInv, ClaimedIsNotKept, KeptFor, Kept, Key, vars
<1> QED
  BY <1>1, <1>2, <1>3, <1>4, <1>5, <1>6, <1>7, <1>8, <1>9, <1>10, <1>11, <1>12,
     <1>13, <1>14, <1>15 DEF Next, Handle, FinishAny

\* IInv holds in every reachable state.
THEOREM Invariance == Spec => []IInv
<1>1. Init => IInv
  <2> SUFFICES ASSUME Init PROVE IInv
    OBVIOUS
  <2>1. cache = <<>> /\ settled = <<>> /\ Len(cache) = 0 /\ Len(settled) = 0
    BY DEF Init
  <2>2. TypeOK
    BY <2>1, CommandsAssumption, BoundsAssumption DEF Init, TypeOK, Steps,
                                                      Outcomes
  <2>3. ClaimInv /\ ResultInv /\ SourceInv /\ WaiterHasAnOwner
    BY <2>1 DEF Init, ClaimInv, ResultInv, SourceInv, WaiterHasAnOwner, Owning,
                Kept, At
  <2>4. CacheInv
    BY <2>1, BoundsAssumption DEF Init, CacheInv, CacheIsTail, ClaimedIsNotKept
  <2> QED
    BY <2>2, <2>3, <2>4 DEF IInv
<1>2. IInv /\ [Next]_vars => IInv'
  BY TypeStep, ClaimStep, ResultStep, SourceStep, WaiterStep, CacheTailStep,
     ClaimedStep
     DEF IInv, CacheInv
<1> QED
  BY <1>1, <1>2, PTL DEF Spec

\* Every variable keeps its type; the cache never outgrows its capacity.
THEOREM TypeCorrect == Spec => []TypeOK
  BY Invariance, PTL DEF IInv

\* claimOrAwait lets one delivery at a time execute a key.
THEOREM ExecutesOnePerKey == Spec => []OneExecutionPerKey
<1>1. IInv => OneExecutionPerKey
  BY DEF IInv, ClaimInv, OneExecutionPerKey
<1> QED
  BY <1>1, Invariance, PTL

\* HandleMessage answers with a result that was written, for the delivery's key.
THEOREM AnswersWithResults == Spec => []AnswerIsAResult
<1>1. IInv => AnswerIsAResult
  BY NoneAssumption DEF IInv, SourceInv, HasResult, AnswerIsAResult
<1> QED
  BY <1>1, Invariance, PTL

\* A delivery that waits on an inFlight has an owner that will close its channel.
THEOREM WaitersHaveOwners == Spec => []WaiterHasAnOwner
  BY Invariance, PTL DEF IInv

\* idempotencyCache: among the last Capacity results of one life of the agent, no
\* key executes again.
THEOREM RecentKeysAreNotRepeated == Spec => RecentKeyIsNotRepeated
<1> DEFINE NotRepeated ==
      \A d \in Deliveries :
        At(d, "received") /\ pc'[d] = "claimed" =>
          \A i \in DOMAIN settled :
            Key(settled[i]) = Key(d) => i + Capacity <= Len(settled)
<1>1. IInv /\ [Next]_vars => [NotRepeated]_vars
  <2> SUFFICES ASSUME IInv, Next,
                      NEW d \in Deliveries, At(d, "received"), pc'[d] = "claimed",
                      NEW i \in DOMAIN settled, Key(settled[i]) = Key(d)
               PROVE  i + Capacity <= Len(settled)
    OBVIOUS
  <2>1. KeptFor(d) = {}
    BY DEF IInv, TypeOK, At, GoTo, Next, Handle, FinishAny, Receive, Replay,
           Await,
           Claim, Wake, Refuse, Execute, Finish, Complete, Release, CloseDone,
           PublishResult, DeadlinePasses, Restart
  <2>2. /\ cache \in Seq(Deliveries) /\ settled \in Seq(Deliveries)
        /\ Capacity \in Nat \ {0} /\ i \in 1..Len(settled)
    BY BoundsAssumption DEF IInv, TypeOK
  <2>3. \A j \in 1..Len(cache) : settled[Len(settled) - Len(cache) + j] # settled[i]
    BY <2>1 DEF IInv, CacheInv, CacheIsTail, KeptFor, Kept
  <2>4. ~(i > Len(settled) - Len(cache))
    <3> SUFFICES ASSUME i > Len(settled) - Len(cache) PROVE FALSE
      OBVIOUS
    <3>1. i - (Len(settled) - Len(cache)) \in 1..Len(cache)
      BY <2>2
    <3>2. Len(settled) - Len(cache) + (i - (Len(settled) - Len(cache))) = i
      BY <2>2
    <3> QED
      BY <2>3, <3>1, <3>2
  <2> QED
    BY <2>2, <2>4 DEF IInv, CacheInv, CacheIsTail
<1> QED
  BY <1>1, Invariance, PTL DEF Spec, RecentKeyIsNotRepeated
=============================================================================
