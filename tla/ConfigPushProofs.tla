-------------------------- MODULE ConfigPushProofs --------------------------
(***************************************************************************)
(* Proofs about ConfigPush, for any deliveries, revisions, kinds of        *)
(* configuration, capacity of the agent's cache and number of restarts.    *)
(*                                                                         *)
(* What a node holds of the audio binding only grows while the agent lives *)
(* (a restart forgets it together with every result), and whatever is      *)
(* built, or on its way to the engine, is not newer.                       *)
(***************************************************************************)
EXTENDS ConfigPush, TLAPS

\* An operation is under way only while its delivery executes, and carries a
\* revision that has been written.
StepInv ==
  \A d \in Deliveries :
    /\ pc[d] # "executing" => step[d] = "start"
    /\ pc[d] # "idle" => Revision(d) <= written[command[d].surface]

Rebuilding(d) == Executing(d, "audio", "rebuild")

\* Nothing newer than the binding in force is built or on its way, and the
\* binding itself is built or on its way.
EngineInv ==
  /\ built <= held /\ retry <= held
  /\ \A d \in Deliveries : Rebuilding(d) => Revision(d) <= held
  /\ held \notin Unbuildable \cup {0} =>
       built = held \/ \E d \in Deliveries : Rebuilding(d) /\ Revision(d) = held
  /\ held # 0 => "audio" \in Surfaces /\ held <= written["audio"]

\* A confirmed result for the audio binding speaks of a revision no newer than the
\* one in force.
Backed(e) ==
  outcome[e] = "confirmed" /\ command[e].surface = "audio" => Revision(e) <= held

Finished == {"closing", "responding", "answered"}

\* Results, wherever they are kept or waited for, are those of deliveries of the
\* same push, and backed.
ResultInv ==
  /\ \A e \in Deliveries : pc[e] \in {"settling", "closing"} => Backed(e)
  /\ \A e \in Agent!Kept \cup closed : e \in Deliveries /\ pc[e] \in Finished /\ Backed(e)
  /\ \A d \in Deliveries : pc[d] \in {"awaiting", "responding"} =>
       source[d] \in Deliveries /\ pc[source[d]] # "idle" /\ command[source[d]] = command[d]
  /\ \A d \in Deliveries : pc[d] = "responding" =>
       pc[source[d]] \in Finished /\ Backed(source[d])
  /\ inFlight \subseteq Deliveries /\ \A e \in inFlight : pc[e] # "idle"

\* The types the argument needs.
TypeInv ==
  /\ pc \in [Deliveries -> Agent!Steps]
  /\ command \in [Deliveries -> Pushes]
  /\ source \in [Deliveries -> Deliveries \cup {None}]
  /\ outcome \in [Deliveries -> Agent!Outcomes]
  /\ cache \in Seq(Deliveries)
  /\ written \in [Surfaces -> Nat]
  /\ step \in [Deliveries -> {"start", "apply", "rebuild", "confirm"}]
  /\ held \in Nat /\ built \in Nat /\ retry \in Nat

IInv == TypeInv /\ StepInv /\ EngineInv /\ ResultInv

-----------------------------------------------------------------------------
\* The tuples actions leave unchanged are expanded throughout.
USE DEF agentVars, fppVars, engineVars, Agent!cacheVars, Agent!handlerVars, Agent!GoTo, Agent!At,
        Agent!Produce, Agent!AnswerWith

\* What the operations do to the handling of commands is to finish.
Finishes == \E d \in Deliveries, o \in Agent!Outcomes \ {"none", "refused"} : Agent!Finish(d, o)

LEMMA OperationFinishes ==
  ASSUME NEW d \in Deliveries, Operation(d)
  PROVE  UNCHANGED agentVars \/ Finishes
<1>1. CASE SaveFails(d) \/ ConfirmRanges(d) \/ RefuseOlder(d) \/ ConfirmRevision(d)
  BY <1>1 DEF SaveFails, ConfirmRanges, RefuseOlder, ConfirmRevision, Finishes, Agent!Outcomes
<1>2. CASE Save(d) \/ Apply(d) \/ KeepSame(d) \/ Accept(d) \/ RebuildAccepted(d)
  BY <1>2 DEF Save, Apply, KeepSame, Accept, RebuildAccepted
<1> QED
  BY <1>1, <1>2 DEF Operation

LEMMA OperationsFinish ==
  ASSUME [Next]_vars
  PROVE  \/ UNCHANGED agentVars
         \/ \E d \in Deliveries, p \in Pushes : Agent!Receive(d, p)
         \/ \E d \in Deliveries : Agent!Handle(d)
         \/ Finishes
         \/ Agent!Restart
<1>2. ASSUME \/ \E s \in Surfaces : Write(s)
             \/ EngineFails \/ ReadBinding \/ RetryRebuild \/ AllIsWell \/ UNCHANGED vars
      PROVE  UNCHANGED agentVars
  BY <1>2 DEF Write, EngineFails, ReadBinding, RetryRebuild, AllIsWell, vars
<1> QED
  BY OperationFinishes, <1>2 DEF Next, Deliver, Handle, Restart

\* Each delivery of a push, whatever its operation does, is handled as AgentCommand
\* has it (HandleMessage and the idempotency cache).
THEOREM HandlesAsAgent == Spec => HandlesCommands
<1>1. Init => Agent!Init
  BY DEF Init
<1>2. [Next]_vars => [Agent!Next]_(Agent!vars)
  BY OperationsFinish DEF Finishes, Agent!Next, Agent!FinishAny, Agent!vars
<1> QED
  BY <1>1, <1>2, PTL DEF Spec, HandlesCommands, Agent!Spec

-----------------------------------------------------------------------------
LEMMA PushesAreRevisions ==
  \A p \in Pushes : p.surface \in Surfaces /\ p.revision \in Nat \ {0}
                    /\ p.revision \in 1..LastRevision[p.surface]
BY RevisionsAssumption DEF Pushes

\* What is kept of results afterwards was kept before or is the new one.
LEMMA Keeping ==
  ASSUME TypeInv, NEW d \in Deliveries
  PROVE  /\ Agent!Keeping(d) \in Seq(Deliveries)
         /\ {Agent!Keeping(d)[i] : i \in 1..Len(Agent!Keeping(d))} \subseteq Agent!Kept \cup {d}
<1> DEFINE appended == Append(cache, d)
           replaced == [i \in DOMAIN cache |->
                          IF cache[i] \in Agent!KeptFor(d) THEN d ELSE cache[i]]
<1>1. cache \in Seq(Deliveries) /\ Len(cache) \in Nat /\ DOMAIN cache = 1..Len(cache)
      /\ \A i \in 1..Len(cache) : cache[i] \in Agent!Kept
  BY DEF TypeInv, Agent!Kept
<1>2. /\ appended \in Seq(Deliveries) /\ Len(appended) = Len(cache) + 1
      /\ \A i \in 1..Len(appended) : appended[i] \in Agent!Kept \cup {d}
  BY <1>1
<1>3. /\ replaced \in Seq(Deliveries) /\ Len(replaced) = Len(cache)
      /\ \A i \in 1..Len(replaced) : replaced[i] \in Agent!Kept \cup {d}
  <2> DEFINE f == [i \in 1..Len(cache) |->
                     IF cache[i] \in Agent!KeptFor(d) THEN d ELSE cache[i]]
  <2>1. replaced = f
    BY <1>1
  <2>2. \A i \in 1..Len(cache) : f[i] \in Deliveries /\ f[i] \in Agent!Kept \cup {d}
    BY <1>1
  <2>3. f \in Seq(Deliveries) /\ Len(f) = Len(cache) /\ DOMAIN f = 1..Len(cache)
    <3>1. f \in [1..Len(cache) -> Deliveries]
      BY <2>2
    <3> HIDE DEF f
    <3> QED
      BY <1>1, <3>1
  <2> HIDE DEF f, replaced
  <2> QED
    BY <2>1, <2>2, <2>3
<1>4. /\ Tail(appended) \in Seq(Deliveries) /\ Len(Tail(appended)) = Len(cache)
      /\ \A i \in 1..Len(Tail(appended)) : Tail(appended)[i] = appended[i + 1]
  BY <1>1
<1> HIDE DEF appended, replaced
<1>5. \A i \in 1..Len(Tail(appended)) : Tail(appended)[i] \in Agent!Kept \cup {d}
  BY <1>1, <1>2, <1>4
<1>6. Agent!Keeping(d) \in {appended, Tail(appended), replaced}
  BY DEF Agent!Keeping, Agent!Newest, appended, replaced
<1> QED
  BY <1>2, <1>3, <1>4, <1>5, <1>6

-----------------------------------------------------------------------------
\* What d does by itself while no operation of its is under way.
LEMMA HandleMoves ==
  ASSUME TypeInv, NEW d \in Deliveries, Agent!Handle(d)
  PROVE  /\ pc[d] \notin {"idle", "executing"} /\ UNCHANGED command
         /\ \E x \in Agent!Steps \ {"idle"} : pc' = [pc EXCEPT ![d] = x]
BY DEF Agent!Handle, Agent!Replay, Agent!Await, Agent!Claim, Agent!Wake, Agent!Refuse,
   Agent!Execute, Agent!Complete, Agent!Release, Agent!CloseDone, Agent!PublishResult, Agent!Steps

LEMMA ReceiveMoves ==
  ASSUME NEW d \in Deliveries, NEW p \in Pushes, Agent!Receive(d, p)
  PROVE  /\ pc[d] = "idle" /\ pc' = [pc EXCEPT ![d] = "received"]
         /\ command' = [command EXCEPT ![d] = p]
         /\ UNCHANGED <<source, outcome, cache, inFlight, closed>>
BY DEF Agent!Receive

\* The types of the agent's variables.
AgentType ==
  /\ pc \in [Deliveries -> Agent!Steps]
  /\ command \in [Deliveries -> Pushes]
  /\ source \in [Deliveries -> Deliveries \cup {None}]
  /\ outcome \in [Deliveries -> Agent!Outcomes]
  /\ cache \in Seq(Deliveries)

LEMMA AgentTypeStep == TypeInv /\ ResultInv /\ [Next]_vars => AgentType'
<1> SUFFICES ASSUME TypeInv, ResultInv, [Next]_vars PROVE AgentType'
  OBVIOUS
<1>0. AgentType
  BY DEF TypeInv, AgentType
<1> USE DEF AgentType
<1>1. CASE UNCHANGED agentVars
  BY <1>0, <1>1
<1>2. ASSUME NEW d \in Deliveries, NEW p \in Pushes, Agent!Receive(d, p) PROVE AgentType'
  BY <1>0, <1>2, ReceiveMoves DEF Agent!Steps
<1>3. ASSUME NEW d \in Deliveries, Agent!Handle(d) PROVE AgentType'
  <2>1. pc' \in [Deliveries -> Agent!Steps] /\ command' = command
    BY <1>0, <1>3, HandleMoves
  <2>2. CASE Agent!Replay(d)
    <3>1. \E e \in Deliveries : source' = [source EXCEPT ![d] = e]
      BY <2>2 DEF Agent!Replay, Agent!KeptFor, ResultInv
    <3> QED
      BY <1>0, <2>1, <2>2, <3>1 DEF Agent!Replay
  <2>3. CASE Agent!Await(d)
    <3>1. \E e \in Deliveries : source' = [source EXCEPT ![d] = e]
      BY <2>3 DEF Agent!Await, Agent!ClaimsFor, ResultInv
    <3> QED
      BY <1>0, <2>1, <2>3, <3>1 DEF Agent!Await
  <2>4. CASE Agent!Refuse(d)
    BY <1>0, <2>1, <2>4 DEF Agent!Refuse, Agent!Outcomes
  <2>5. CASE Agent!Complete(d)
    BY <1>0, <2>1, <2>5, Keeping DEF Agent!Complete
  <2>6. CASE Agent!CloseDone(d)
    BY <1>0, <2>1, <2>6 DEF Agent!CloseDone
  <2>7. CASE Agent!Claim(d) \/ Agent!Wake(d) \/ Agent!Execute(d) \/ Agent!Release(d)
             \/ Agent!PublishResult(d)
    BY <1>0, <2>1, <2>7 DEF Agent!Claim, Agent!Wake, Agent!Execute, Agent!Release,
       Agent!PublishResult
  <2> QED
    BY <1>3, <2>2, <2>3, <2>4, <2>5, <2>6, <2>7 DEF Agent!Handle
<1>4. CASE Finishes
  BY <1>0, <1>4 DEF Finishes, Agent!Finish, Agent!Steps
<1>5. CASE Agent!Restart
  <2>1. cache' \in Seq(Deliveries)
    BY <1>5 DEF Agent!Restart
  <2> QED
    BY <1>0, <1>5, <2>1 DEF Agent!Restart, Agent!Steps
<1> QED
  BY <1>1, <1>2, <1>3, <1>4, <1>5, OperationsFinish

\* The types of what the operations keep.
OwnType ==
  /\ written \in [Surfaces -> Nat]
  /\ step \in [Deliveries -> {"start", "apply", "rebuild", "confirm"}]
  /\ held \in Nat /\ built \in Nat /\ retry \in Nat

LEMMA OwnTypeStep == TypeInv /\ [Next]_vars => OwnType'
<1> SUFFICES ASSUME TypeInv, [Next]_vars PROVE OwnType'
  OBVIOUS
<1>0. OwnType /\ \A d \in Deliveries : Revision(d) \in Nat
  BY PushesAreRevisions DEF TypeInv, OwnType, Revision
<1> USE DEF OwnType
<1>1. ASSUME NEW s \in Surfaces, Write(s) PROVE OwnType'
  BY <1>0, <1>1 DEF Write
<1>2. ASSUME UNCHANGED <<written, step, held, engineVars>> PROVE OwnType'
  BY <1>0, <1>2
<1>3. ASSUME NEW d \in Deliveries, Operation(d) PROVE OwnType'
  <2>1. CASE Save(d) \/ SaveFails(d) \/ Apply(d)
    BY <1>0, <2>1 DEF Save, SaveFails, Apply, Continue
  <2>2. CASE ConfirmRanges(d) \/ RefuseOlder(d) \/ KeepSame(d) \/ ConfirmRevision(d)
    BY <1>0, <2>2 DEF ConfirmRanges, RefuseOlder, KeepSame, ConfirmRevision, Continue
  <2>3. CASE Accept(d)
    BY <1>0, <2>3 DEF Accept, Continue
  <2>4. CASE RebuildAccepted(d)
    BY <1>0, <2>4 DEF RebuildAccepted, Rebuild, Continue
  <2> QED
    BY <1>3, <2>1, <2>2, <2>3, <2>4 DEF Operation
<1>4. CASE EngineFails \/ ReadBinding \/ AllIsWell
  BY <1>0, <1>4 DEF EngineFails, ReadBinding, AllIsWell
<1>5. CASE RetryRebuild
  BY <1>0, <1>5 DEF RetryRebuild, Rebuild
<1>6. CASE Restart
  BY <1>0, <1>6 DEF Restart
<1> QED
  BY <1>1, <1>2, <1>3, <1>4, <1>5, <1>6 DEF Next, Deliver, Handle, vars

LEMMA TypeStep == IInv /\ [Next]_vars => TypeInv'
BY AgentTypeStep, OwnTypeStep DEF IInv, TypeInv, AgentType, OwnType

-----------------------------------------------------------------------------
\* Operations.

LEMMA StepStep == TypeInv /\ StepInv /\ [Next]_vars => StepInv'
<1> SUFFICES ASSUME TypeInv, StepInv, [Next]_vars PROVE StepInv'
  OBVIOUS
<1> USE DEF StepInv, Revision
<1>0. \A d \in Deliveries :
        command[d] \in Pushes /\ command[d].surface \in Surfaces /\ command[d].revision \in Nat
  BY PushesAreRevisions DEF TypeInv
<1>1. ASSUME NEW s \in Surfaces, Write(s) PROVE StepInv'
  <2>1. /\ UNCHANGED <<pc, command, step>>
        /\ \A t \in Surfaces :
             written'[t] \in Nat /\ written[t] \in Nat /\ written[t] <= written'[t]
    BY <1>1 DEF Write, TypeInv
  <2> QED
    BY <1>0, <2>1
<1>2. ASSUME NEW d \in Deliveries, NEW p \in Pushes, Deliver(d, p) PROVE StepInv'
  <2>1. /\ pc[d] = "idle" /\ pc' = [pc EXCEPT ![d] = "received"]
        /\ command' = [command EXCEPT ![d] = p]
        /\ UNCHANGED <<step, written>> /\ p.revision <= written[p.surface]
    BY <1>2, ReceiveMoves DEF Deliver
  <2>2. command'[d] = p /\ \A e \in Deliveries \ {d} : command'[e] = command[e] /\ pc'[e] = pc[e]
    BY <2>1 DEF TypeInv
  <2> QED
    BY <2>1, <2>2
<1>3. ASSUME NEW d \in Deliveries, Handle(d) PROVE StepInv'
  BY <1>3, HandleMoves DEF Handle, TypeInv
<1>4. ASSUME NEW d \in Deliveries, pc[d] = "executing",
             UNCHANGED pc \/ (pc' = [pc EXCEPT ![d] = "settling"] /\ step'[d] = "start"),
             \A e \in Deliveries \ {d} : step'[e] = step[e],
             UNCHANGED <<command, written>>
      PROVE  StepInv'
  BY <1>4 DEF TypeInv
<1>5. ASSUME NEW d \in Deliveries, Operation(d) PROVE StepInv'
  <2>1. CASE Save(d) \/ Apply(d) \/ KeepSame(d) \/ Accept(d) \/ RebuildAccepted(d)
    BY <1>4, <2>1 DEF Save, Apply, KeepSame, Accept, RebuildAccepted, Continue, Executing, TypeInv
  <2>2. CASE SaveFails(d) \/ RefuseOlder(d)
    BY <1>4, <2>2 DEF SaveFails, RefuseOlder, Agent!Finish, Executing
  <2>3. CASE ConfirmRanges(d) \/ ConfirmRevision(d)
    BY <1>4, <2>3 DEF ConfirmRanges, ConfirmRevision, Agent!Finish, Executing, Continue, TypeInv
  <2> QED
    BY <1>5, <2>1, <2>2, <2>3 DEF Operation
<1>6. CASE EngineFails \/ ReadBinding \/ RetryRebuild \/ AllIsWell \/ UNCHANGED vars
  BY <1>6 DEF EngineFails, ReadBinding, RetryRebuild, AllIsWell, vars
<1>7. CASE Restart
  BY <1>7 DEF Restart, Agent!Restart
<1> QED
  BY <1>1, <1>2, <1>3, <1>5, <1>6, <1>7 DEF Next

-----------------------------------------------------------------------------
\* The engine.

\* A step that accepts, builds and begins nothing.
LEMMA EngineKept ==
  ASSUME TypeInv, EngineInv, UNCHANGED <<held, built, retry>>,
         \A d \in Deliveries : /\ Rebuilding(d)' <=> Rebuilding(d)
                               /\ Rebuilding(d) => Revision(d)' = Revision(d),
         \A s \in Surfaces : written[s] <= written'[s],
         \A s \in Surfaces : written'[s] \in Nat
  PROVE  EngineInv'
BY DEF EngineInv, TypeInv

LEMMA EngineStep == IInv /\ [Next]_vars => EngineInv'
<1> SUFFICES ASSUME IInv, [Next]_vars PROVE EngineInv'
  OBVIOUS
<1>0. /\ TypeInv /\ StepInv /\ EngineInv
      /\ \A d \in Deliveries : Revision(d) \in Nat
      /\ \A s \in Surfaces : written[s] \in Nat
  BY PushesAreRevisions DEF IInv, TypeInv, Revision
<1>1. ASSUME NEW s \in Surfaces, Write(s) PROVE EngineInv'
  <2>1. /\ \A d \in Deliveries : (Rebuilding(d)' <=> Rebuilding(d)) /\ Revision(d)' = Revision(d)
        /\ \A t \in Surfaces : written'[t] \in Nat /\ written[t] <= written'[t]
        /\ UNCHANGED <<held, built, retry>>
    BY <1>1 DEF Write, TypeInv, IInv, Rebuilding, Executing, Revision
  <2> QED
    BY <1>0, <2>1, EngineKept
<1>2. ASSUME \A d \in Deliveries : (Rebuilding(d)' <=> Rebuilding(d))
                                   /\ (Rebuilding(d) => Revision(d)' = Revision(d)),
             UNCHANGED <<held, built, retry, written>>
      PROVE  EngineInv'
  BY <1>0, <1>2, EngineKept
<1>3. ASSUME NEW d \in Deliveries, NEW p \in Pushes, Deliver(d, p) PROVE EngineInv'
  <2>1. /\ pc[d] = "idle" /\ pc' = [pc EXCEPT ![d] = "received"]
        /\ command' = [command EXCEPT ![d] = p]
        /\ UNCHANGED <<held, built, retry, written, step>>
    BY <1>3, ReceiveMoves DEF Deliver
  <2> QED
    BY <1>0, <1>2, <2>1 DEF TypeInv, Rebuilding, Executing, Revision
<1>4. ASSUME NEW d \in Deliveries, Handle(d) PROVE EngineInv'
  <2>1. /\ pc[d] # "executing" /\ UNCHANGED command
        /\ \E x \in Agent!Steps \ {"idle"} : pc' = [pc EXCEPT ![d] = x]
        /\ UNCHANGED <<held, built, retry, written, step>>
    BY <1>0, <1>4, HandleMoves DEF Handle
  <2>2. step[d] = "start"
    BY <1>0, <2>1 DEF StepInv
  <2> QED
    BY <1>0, <1>2, <2>1, <2>2 DEF TypeInv, Rebuilding, Executing, Revision
<1>5. ASSUME NEW d \in Deliveries, pc[d] = "executing", step[d] # "rebuild",
             UNCHANGED pc \/ pc' = [pc EXCEPT ![d] = "settling"],
             \/ UNCHANGED step
             \/ \E x \in {"start", "apply", "confirm"} : step' = [step EXCEPT ![d] = x],
             UNCHANGED <<command, held, built, retry, written>>
      PROVE  EngineInv'
  BY <1>0, <1>2, <1>5 DEF TypeInv, Rebuilding, Executing, Revision
<1>6. ASSUME NEW d \in Deliveries, Save(d) \/ SaveFails(d) \/ Apply(d) \/ ConfirmRanges(d)
      PROVE  EngineInv'
  BY <1>5, <1>6 DEF Save, SaveFails, Apply, ConfirmRanges, Agent!Finish, Continue, Executing
<1>7. ASSUME NEW d \in Deliveries, RefuseOlder(d) \/ KeepSame(d) \/ ConfirmRevision(d)
      PROVE  EngineInv'
  BY <1>5, <1>7 DEF RefuseOlder, KeepSame, ConfirmRevision, Agent!Finish, Continue, Executing
<1>8. ASSUME NEW d \in Deliveries, Accept(d) PROVE EngineInv'
  <2>1. /\ pc[d] = "executing" /\ command[d].surface = "audio" /\ step[d] = "start"
        /\ held <= Revision(d) /\ held' = Revision(d)
        /\ step' = [step EXCEPT ![d] = "rebuild"]
        /\ UNCHANGED <<pc, command, written, built, retry>>
    BY <1>0, <1>8 DEF Accept, Older, Continue, Executing, TypeInv
  <2>2. Rebuilding(d)' /\ Revision(d)' = Revision(d)
    BY <1>0, <2>1 DEF TypeInv, Rebuilding, Executing, Revision
  <2>3. \A e \in Deliveries \ {d} : (Rebuilding(e)' <=> Rebuilding(e)) /\ Revision(e)' = Revision(e)
    BY <1>0, <2>1 DEF TypeInv, Rebuilding, Executing, Revision
  <2>4. "audio" \in Surfaces /\ Revision(d) <= written["audio"]
    BY <1>0, <2>1, PushesAreRevisions DEF TypeInv, StepInv
  <2>5. built <= held' /\ retry <= held'
    <3>1. built \in Nat /\ retry \in Nat /\ held \in Nat /\ built <= held /\ retry <= held
      BY <1>0 DEF EngineInv, TypeInv
    <3> QED
      BY <1>0, <2>1, <3>1
  <2>6. \A e \in Deliveries : Rebuilding(e)' => Revision(e)' <= held'
    <3> SUFFICES ASSUME NEW e \in Deliveries, Rebuilding(e)' PROVE Revision(e)' <= held'
      OBVIOUS
    <3>1. CASE e = d
      BY <1>0, <2>1, <2>2, <3>1
    <3>2. CASE e # d
      <4>1. Revision(e) <= held /\ Revision(e)' = Revision(e)
        BY <1>0, <2>3, <3>2 DEF EngineInv
      <4>2. held \in Nat /\ held' \in Nat /\ Revision(e) \in Nat
        BY <1>0, <2>1 DEF TypeInv
      <4> QED
        BY <2>1, <4>1, <4>2
    <3> QED
      BY <3>1, <3>2
  <2> QED
    BY <2>1, <2>2, <2>4, <2>5, <2>6 DEF EngineInv
<1>9. ASSUME NEW r \in Nat, Rebuild(r), r <= held
      PROVE  /\ built' \in Nat /\ built' <= held /\ (built = held => built' = held)
             /\ r = held /\ held \notin Unbuildable => built' = held
  BY <1>0, <1>9 DEF Rebuild, Superseded, EngineInv, TypeInv
<1>10. ASSUME NEW d \in Deliveries, RebuildAccepted(d) PROVE EngineInv'
  <2>1. /\ Rebuilding(d) /\ Rebuild(Revision(d)) /\ step' = [step EXCEPT ![d] = "confirm"]
        /\ UNCHANGED <<pc, command, written, held, retry>>
    BY <1>10 DEF RebuildAccepted, Rebuilding, Continue
  <2>2. Revision(d) <= held
    BY <1>0, <2>1 DEF EngineInv
  <2>3. /\ built' <= held /\ (built = held => built' = held)
        /\ Revision(d) = held /\ held \notin Unbuildable => built' = held
    BY <1>0, <1>9, <2>1, <2>2
  <2>4. ~Rebuilding(d)' /\ \A e \in Deliveries \ {d} :
           (Rebuilding(e)' <=> Rebuilding(e)) /\ Revision(e)' = Revision(e)
    BY <1>0, <2>1 DEF TypeInv, Rebuilding, Executing, Revision
  <2>5. \A e \in Deliveries : Rebuilding(e)' => Revision(e)' <= held
    BY <1>0, <2>4 DEF EngineInv
  <2>6. held \notin Unbuildable \cup {0} =>
          built' = held \/ \E e \in Deliveries : Rebuilding(e)' /\ Revision(e)' = held
    BY <1>0, <2>3, <2>4 DEF EngineInv
  <2> QED
    BY <1>0, <2>1, <2>3, <2>5, <2>6 DEF EngineInv
<1>11. CASE RetryRebuild
  <2>1. /\ UNCHANGED <<pc, command, step, written, held>> /\ retry' = 0
        /\ UNCHANGED built \/ Rebuild(retry)
    BY <1>11 DEF RetryRebuild
  <2>2. built' <= held /\ (built = held => built' = held)
    BY <1>0, <1>9, <2>1 DEF EngineInv, TypeInv
  <2>3. \A e \in Deliveries : (Rebuilding(e)' <=> Rebuilding(e)) /\ Revision(e)' = Revision(e)
    BY <2>1 DEF Rebuilding, Executing, Revision
  <2>4. held \notin Unbuildable \cup {0} =>
          built' = held \/ \E e \in Deliveries : Rebuilding(e)' /\ Revision(e)' = held
    BY <1>0, <2>2, <2>3 DEF EngineInv
  <2>5. \A e \in Deliveries : Rebuilding(e)' => Revision(e)' <= held
    BY <1>0, <2>3 DEF EngineInv
  <2>6. retry' <= held /\ (held # 0 => "audio" \in Surfaces /\ held <= written["audio"])
    BY <1>0, <2>1 DEF EngineInv, TypeInv
  <2> QED
    BY <2>1, <2>2, <2>4, <2>5, <2>6 DEF EngineInv
<1>12. CASE ReadBinding
  <2>1. /\ UNCHANGED <<pc, command, step, written, held, built>> /\ retry' = held
    BY <1>12 DEF ReadBinding
  <2>2. \A e \in Deliveries : (Rebuilding(e)' <=> Rebuilding(e)) /\ Revision(e)' = Revision(e)
    BY <2>1 DEF Rebuilding, Executing, Revision
  <2> QED
    BY <1>0, <2>1, <2>2 DEF EngineInv, TypeInv
<1>13. CASE EngineFails \/ AllIsWell \/ UNCHANGED vars
  BY <1>2, <1>13 DEF EngineFails, AllIsWell, vars, Rebuilding, Executing, Revision
<1>14. CASE Restart
  <2>1. held' = 0 /\ built' = 0 /\ retry' = 0 /\ \A d \in Deliveries : step'[d] = "start"
    BY <1>14 DEF Restart
  <2> QED
    BY <2>1 DEF EngineInv, Rebuilding, Executing
<1> QED
  BY <1>1, <1>3, <1>4, <1>6, <1>7, <1>8, <1>10, <1>11, <1>12, <1>13, <1>14 DEF Next, Operation

-----------------------------------------------------------------------------
\* Results.

\* What a result says stays true while the agent lives.
LEMMA BackedKept ==
  ASSUME TypeInv, NEW e \in Deliveries, outcome'[e] = outcome[e], command'[e] = command[e],
         held' \in Nat, held <= held', Backed(e)
  PROVE  Backed(e)'
<1>1. Revision(e) \in Nat /\ Revision(e)' = Revision(e)
  BY PushesAreRevisions DEF TypeInv, Revision
<1> QED
  BY <1>1 DEF TypeInv, Backed

\* Only Accept and Restart change the binding.
LEMMA HeldGrows ==
  ASSUME TypeInv, [Next]_vars, ~Restart
  PROVE  held' \in Nat /\ held <= held' /\ (~UNCHANGED held => UNCHANGED agentVars)
<1>0. held \in Nat /\ \A d \in Deliveries : Revision(d) \in Nat
  BY PushesAreRevisions DEF TypeInv, Revision
<1>1. ASSUME NEW d \in Deliveries, Accept(d)
      PROVE  held' \in Nat /\ held <= held' /\ UNCHANGED agentVars
  BY <1>0, <1>1 DEF Accept, Older
<1>2. ASSUME NEW d \in Deliveries, Operation(d), ~Accept(d) PROVE UNCHANGED held
  BY <1>2 DEF Operation, Save, SaveFails, Apply, ConfirmRanges, RefuseOlder, KeepSame,
     RebuildAccepted, ConfirmRevision
<1>3. ASSUME \/ \E s \in Surfaces : Write(s)
             \/ \E d \in Deliveries, p \in Pushes : Deliver(d, p)
             \/ \E d \in Deliveries : Handle(d)
             \/ EngineFails \/ ReadBinding \/ RetryRebuild \/ AllIsWell \/ UNCHANGED vars
      PROVE  UNCHANGED held
  BY <1>3 DEF Write, Deliver, Handle, EngineFails, ReadBinding, RetryRebuild, AllIsWell, vars
<1> QED
  BY <1>0, <1>1, <1>2, <1>3 DEF Next

\* A result that an operation confirms for the audio binding is the binding's.
LEMMA FinishIsBacked ==
  ASSUME TypeInv, NEW d \in Deliveries, Operation(d), pc'[d] = "settling"
  PROVE  Backed(d)'
<1>0. pc \in [Deliveries -> Agent!Steps] /\ outcome \in [Deliveries -> Agent!Outcomes]
      /\ Revision(d) \in Nat
  BY PushesAreRevisions DEF TypeInv, Revision
<1>1. CASE SaveFails(d) \/ RefuseOlder(d)
  BY <1>0, <1>1 DEF SaveFails, RefuseOlder, Agent!Finish, Backed
<1>2. CASE ConfirmRanges(d)
  BY <1>0, <1>2 DEF ConfirmRanges, Agent!Finish, Executing, Backed
<1>3. CASE ConfirmRevision(d)
  BY <1>0, <1>3 DEF ConfirmRevision, Agent!Finish, Backed, Revision, TypeInv
<1>4. CASE Save(d) \/ Apply(d) \/ KeepSame(d) \/ Accept(d) \/ RebuildAccepted(d)
  <2>1. pc'[d] = "executing"
    BY <1>4 DEF Save, Apply, KeepSame, Accept, RebuildAccepted, Executing
  <2> QED
    BY <2>1
<1> QED
  BY <1>1, <1>2, <1>3, <1>4 DEF Operation

\* The parts of ResultInv.
SettlingInv == \A e \in Deliveries : pc[e] \in {"settling", "closing"} => Backed(e)
KeptInv ==
  \A e \in Agent!Kept \cup closed : e \in Deliveries /\ pc[e] \in Finished /\ Backed(e)
SourceInv ==
  \A d \in Deliveries : pc[d] \in {"awaiting", "responding"} =>
    source[d] \in Deliveries /\ pc[source[d]] # "idle" /\ command[source[d]] = command[d]
AnswerInv ==
  \A d \in Deliveries : pc[d] = "responding" =>
    pc[source[d]] \in Finished /\ Backed(source[d])
ClaimInv == inFlight \subseteq Deliveries /\ \A e \in inFlight : pc[e] # "idle"

LEMMA ResultParts ==
  ResultInv <=> SettlingInv /\ KeptInv /\ SourceInv /\ AnswerInv /\ ClaimInv
BY DEF ResultInv, SettlingInv, KeptInv, SourceInv, AnswerInv, ClaimInv

LEMMA ResultPartsNext ==
  SettlingInv' /\ KeptInv' /\ SourceInv' /\ AnswerInv' /\ ClaimInv' => ResultInv'
BY DEF ResultInv, SettlingInv, KeptInv, SourceInv, AnswerInv, ClaimInv

\* The steps while the agent lives, as far as the handling of commands goes.
LEMMA AgentSteps ==
  ASSUME [Next]_vars, ~Restart
  PROVE  \/ UNCHANGED agentVars
         \/ \E d \in Deliveries, p \in Pushes : Deliver(d, p)
         \/ \E d \in Deliveries : Agent!Handle(d)
         \/ \E d \in Deliveries : Operation(d)
BY DEF Next, Handle, Write, EngineFails, ReadBinding, RetryRebuild, AllIsWell, vars

\* A delivery that gets on keeps its place among the others.
LEMMA Moving ==
  ASSUME TypeInv, [Next]_vars, ~Restart
  PROVE  \A e \in Deliveries :
           /\ pc[e] # "idle" => pc'[e] # "idle" /\ command'[e] = command[e]
           /\ pc[e] \in Finished => pc'[e] \in Finished /\ outcome'[e] = outcome[e]
           /\ pc[e] = "settling" => outcome'[e] = outcome[e]
<1> SUFFICES ASSUME NEW e \in Deliveries
             PROVE  /\ pc[e] # "idle" => pc'[e] # "idle" /\ command'[e] = command[e]
                    /\ pc[e] \in Finished => pc'[e] \in Finished /\ outcome'[e] = outcome[e]
                    /\ pc[e] = "settling" => outcome'[e] = outcome[e]
  OBVIOUS
<1>0. pc \in [Deliveries -> Agent!Steps] /\ command \in [Deliveries -> Pushes]
      /\ outcome \in [Deliveries -> Agent!Outcomes]
  BY DEF TypeInv
<1> USE DEF Finished
<1>1. CASE UNCHANGED agentVars
  BY <1>1
<1>2. ASSUME NEW d \in Deliveries, NEW p \in Pushes, Deliver(d, p)
      PROVE  /\ pc[e] # "idle" => pc'[e] # "idle" /\ command'[e] = command[e]
             /\ pc[e] \in Finished => pc'[e] \in Finished /\ outcome'[e] = outcome[e]
             /\ pc[e] = "settling" => outcome'[e] = outcome[e]
  BY <1>0, <1>2, ReceiveMoves DEF Deliver
<1>3. ASSUME NEW d \in Deliveries, Agent!Handle(d)
      PROVE  /\ pc[e] # "idle" => pc'[e] # "idle" /\ command'[e] = command[e]
             /\ pc[e] \in Finished => pc'[e] \in Finished /\ outcome'[e] = outcome[e]
             /\ pc[e] = "settling" => outcome'[e] = outcome[e]
  <2>1. /\ UNCHANGED command
        /\ \E x \in Agent!Steps \ {"idle"} : pc' = [pc EXCEPT ![d] = x]
    BY <1>3, HandleMoves
  <2>2. CASE Agent!Refuse(d)
    BY <1>0, <2>1, <2>2 DEF Agent!Refuse
  <2>3. CASE Agent!CloseDone(d) \/ Agent!PublishResult(d)
    BY <1>0, <2>1, <2>3 DEF Agent!CloseDone, Agent!PublishResult
  <2>4. CASE Agent!Replay(d) \/ Agent!Await(d) \/ Agent!Claim(d) \/ Agent!Wake(d)
    BY <1>0, <2>1, <2>4 DEF Agent!Replay, Agent!Await, Agent!Claim, Agent!Wake
  <2>5. CASE Agent!Execute(d) \/ Agent!Complete(d) \/ Agent!Release(d)
    BY <1>0, <2>1, <2>5 DEF Agent!Execute, Agent!Complete, Agent!Release
  <2> QED
    BY <1>3, <2>2, <2>3, <2>4, <2>5 DEF Agent!Handle
<1>4. CASE Finishes
  BY <1>0, <1>4 DEF Finishes, Agent!Finish
<1> QED
  BY <1>1, <1>2, <1>3, <1>4, OperationFinishes, AgentSteps

LEMMA StillBacked ==
  ASSUME TypeInv, [Next]_vars, ~Restart, NEW e \in Deliveries,
         pc[e] \in Finished \cup {"settling"}, Backed(e)
  PROVE  Backed(e)'
BY Moving, HeldGrows, BackedKept DEF Finished

\* A delivery begins to settle refused, or with what its operation has confirmed.
LEMMA SettlingStep == IInv /\ [Next]_vars /\ ~Restart => SettlingInv'
<1> SUFFICES ASSUME IInv, [Next]_vars, ~Restart, NEW e \in Deliveries,
                    pc'[e] \in {"settling", "closing"}
             PROVE  Backed(e)'
  BY DEF SettlingInv
<1>0. TypeInv /\ SettlingInv /\ pc \in [Deliveries -> Agent!Steps]
      /\ outcome \in [Deliveries -> Agent!Outcomes]
  BY ResultParts DEF IInv, TypeInv
<1>1. CASE pc[e] \in {"settling", "closing"}
  BY <1>0, <1>1, StillBacked DEF SettlingInv, Finished
<1>2. ASSUME pc[e] \notin {"settling", "closing"}, NEW d \in Deliveries, Agent!Handle(d)
      PROVE  Backed(e)'
  <2>1. e = d
    BY <1>0, <1>2, HandleMoves
  <2>2. pc' # [pc EXCEPT ![d] = "received"] /\ Agent!Refuse(d)
    BY <1>0, <1>2, <2>1 DEF Agent!Handle, Agent!Replay, Agent!Await, Agent!Claim, Agent!Wake,
       Agent!Execute, Agent!Complete, Agent!Release, Agent!CloseDone, Agent!PublishResult
  <2>3. outcome'[e] = "refused"
    BY <1>0, <2>1, <2>2 DEF Agent!Refuse
  <2> QED
    BY <2>3 DEF Backed
<1>3. ASSUME pc[e] \notin {"settling", "closing"}, NEW d \in Deliveries, Operation(d)
      PROVE  Backed(e)'
  <2>1. UNCHANGED agentVars \/ pc' = [pc EXCEPT ![d] = "settling"]
    BY <1>3 DEF Operation, Save, SaveFails, Apply, ConfirmRanges, RefuseOlder, KeepSame,
       Accept, RebuildAccepted, ConfirmRevision, Agent!Finish
  <2>2. e = d /\ pc'[d] = "settling"
    BY <1>0, <1>3, <2>1
  <2> QED
    BY <1>0, <1>3, <2>2, FinishIsBacked
<1>4. ASSUME NEW d \in Deliveries, NEW p \in Pushes, Deliver(d, p)
      PROVE  pc[e] \in {"settling", "closing"}
  BY <1>0, <1>4, ReceiveMoves DEF Deliver
<1>5. CASE UNCHANGED agentVars
  BY <1>1, <1>5
<1> QED
  BY <1>1, <1>2, <1>3, <1>4, <1>5, AgentSteps

\* What is kept, waited for or answered is a result of a finished delivery.
LEMMA KeptGrows ==
  ASSUME TypeInv, [Next]_vars, ~Restart, NEW e \in Deliveries,
         e \in (Agent!Kept \cup closed)' , e \notin Agent!Kept \cup closed
  PROVE  (Agent!Complete(e) \/ Agent!CloseDone(e))
<1>1. CASE UNCHANGED <<cache, closed>>
  BY <1>1 DEF Agent!Kept
<1>2. ASSUME NEW d \in Deliveries, Agent!Handle(d), ~UNCHANGED <<cache, closed>>
      PROVE  d = e /\ (Agent!Complete(d) \/ Agent!CloseDone(d))
  <2>1. Agent!Complete(d) \/ Agent!CloseDone(d)
    BY <1>2 DEF Agent!Handle, Agent!Replay, Agent!Await, Agent!Claim, Agent!Wake, Agent!Refuse,
       Agent!Execute, Agent!Release, Agent!PublishResult
  <2>2. CASE Agent!Complete(d)
    <3>1. cache' = Agent!Keeping(d) /\ closed' = closed
      BY <2>2 DEF Agent!Complete
    <3>2. \A i \in 1..Len(cache') : cache'[i] \in Agent!Kept \cup {d}
      BY <3>1, Keeping
    <3>3. cache' \in Seq(Deliveries)
      BY <3>1, Keeping
    <3> QED
      BY <2>2, <3>1, <3>2, <3>3 DEF Agent!Kept
  <2>3. CASE Agent!CloseDone(d)
    BY <2>3 DEF Agent!CloseDone, Agent!Opened, Agent!Kept
  <2> QED
    BY <2>1, <2>2, <2>3
<1>3. Finishes => UNCHANGED <<cache, closed>>
  BY DEF Finishes, Agent!Finish
<1>4. UNCHANGED agentVars => UNCHANGED <<cache, closed>>
  OBVIOUS
<1>5. \A d \in Deliveries, p \in Pushes : Deliver(d, p) => UNCHANGED <<cache, closed>>
  BY ReceiveMoves DEF Deliver
<1> QED
  BY <1>1, <1>2, <1>3, <1>4, <1>5, AgentSteps, OperationFinishes

LEMMA KeptStays ==
  ASSUME TypeInv, [Next]_vars, ~Restart
  PROVE  (Agent!Kept \cup closed)' \subseteq Deliveries \cup Agent!Kept \cup closed
<1>1. CASE UNCHANGED <<cache, closed>>
  BY <1>1 DEF Agent!Kept
<1>2. ASSUME NEW d \in Deliveries, Agent!Handle(d)
      PROVE  (Agent!Kept \cup closed)' \subseteq Deliveries \cup Agent!Kept \cup closed
  <2>1. CASE Agent!Complete(d)
    <3>1. cache' = Agent!Keeping(d) /\ closed' = closed /\ cache' \in Seq(Deliveries)
      BY <2>1, Keeping DEF Agent!Complete
    <3> QED
      BY <3>1 DEF Agent!Kept
  <2>2. CASE Agent!CloseDone(d)
    BY <2>2 DEF Agent!CloseDone, Agent!Opened, Agent!Kept
  <2>3. CASE ~Agent!Complete(d) /\ ~Agent!CloseDone(d)
    BY <1>1, <1>2, <2>3 DEF Agent!Handle, Agent!Replay, Agent!Await, Agent!Claim, Agent!Wake,
       Agent!Refuse, Agent!Execute, Agent!Release, Agent!PublishResult
  <2> QED
    BY <2>1, <2>2, <2>3
<1>3. Finishes => UNCHANGED <<cache, closed>>
  BY DEF Finishes, Agent!Finish
<1>4. UNCHANGED agentVars => UNCHANGED <<cache, closed>>
  OBVIOUS
<1>5. \A d \in Deliveries, p \in Pushes : Deliver(d, p) => UNCHANGED <<cache, closed>>
  BY ReceiveMoves DEF Deliver
<1> QED
  BY <1>1, <1>2, <1>3, <1>4, <1>5, AgentSteps, OperationFinishes

LEMMA KeptStep == IInv /\ [Next]_vars /\ ~Restart => KeptInv'
<1> SUFFICES ASSUME IInv, [Next]_vars, ~Restart, NEW e \in (Agent!Kept \cup closed)'
             PROVE  e \in Deliveries /\ pc'[e] \in Finished /\ Backed(e)'
  BY DEF KeptInv
<1>0. TypeInv /\ SettlingInv /\ KeptInv /\ pc \in [Deliveries -> Agent!Steps]
  BY ResultParts DEF IInv, TypeInv
<1>1. e \in Deliveries
  BY <1>0, KeptStays DEF KeptInv
<1>2. CASE e \in Agent!Kept \cup closed
  BY <1>0, <1>2, StillBacked, Moving DEF KeptInv
<1>3. CASE e \notin Agent!Kept \cup closed
  <2>1. Agent!Complete(e) \/ Agent!CloseDone(e)
    BY <1>0, <1>1, <1>3, KeptGrows
  <2>2. pc[e] \in {"settling", "closing"} /\ pc'[e] \in Finished
    BY <1>0, <1>1, <2>1 DEF Agent!Complete, Agent!CloseDone, Finished
  <2> QED
    BY <1>0, <1>1, <2>2, StillBacked DEF SettlingInv, Finished
<1> QED
  BY <1>1, <1>2, <1>3

LEMMA ClaimStep == IInv /\ [Next]_vars /\ ~Restart => ClaimInv'
<1> SUFFICES ASSUME IInv, [Next]_vars, ~Restart PROVE ClaimInv'
  OBVIOUS
<1>0. TypeInv /\ ClaimInv /\ pc \in [Deliveries -> Agent!Steps]
  BY ResultParts DEF IInv, TypeInv
<1>1. ASSUME NEW d \in Deliveries, Agent!Handle(d)
      PROVE  inFlight' \subseteq inFlight \cup {d} /\ pc'[d] # "idle"
  <2>1. pc'[d] # "idle"
    BY <1>0, <1>1, HandleMoves
  <2> QED
    BY <1>1, <2>1 DEF Agent!Handle, Agent!Replay, Agent!Await, Agent!Claim, Agent!Wake,
       Agent!Refuse, Agent!Execute, Agent!Complete, Agent!Release, Agent!CloseDone, Agent!PublishResult
<1>2. Finishes => UNCHANGED inFlight
  BY DEF Finishes, Agent!Finish
<1>3. UNCHANGED agentVars => UNCHANGED inFlight
  OBVIOUS
<1>4. \A d \in Deliveries, p \in Pushes : Deliver(d, p) => UNCHANGED inFlight
  BY ReceiveMoves DEF Deliver
<1>5. inFlight' \subseteq {d \in Deliveries : d \in inFlight \/ pc'[d] # "idle"}
  BY <1>0, <1>1, <1>2, <1>3, <1>4, AgentSteps, OperationFinishes DEF ClaimInv
<1> QED
  BY <1>0, <1>5, Moving DEF ClaimInv


\* How a delivery comes to wait or to answer.
LEMMA WaitingMoves ==
  ASSUME TypeInv, [Next]_vars, ~Restart, NEW d \in Deliveries,
         pc'[d] \in {"awaiting", "responding"}
  PROVE  \/ pc'[d] = pc[d] /\ source'[d] = source[d]
         \/ Agent!Replay(d) \/ Agent!Await(d) \/ Agent!Wake(d) \/ Agent!CloseDone(d)
<1>0. pc \in [Deliveries -> Agent!Steps] /\ source \in [Deliveries -> Deliveries \cup {None}]
  BY DEF TypeInv
<1>1. ASSUME Agent!Handle(d)
      PROVE  Agent!Replay(d) \/ Agent!Await(d) \/ Agent!Wake(d) \/ Agent!CloseDone(d)
  BY <1>0, <1>1 DEF Agent!Handle, Agent!Claim, Agent!Refuse, Agent!Execute, Agent!Complete,
     Agent!Release, Agent!PublishResult
<1>2. ASSUME NEW e \in Deliveries \ {d}, Agent!Handle(e)
      PROVE  pc'[d] = pc[d] /\ source'[d] = source[d]
  <2>1. pc'[d] = pc[d]
    BY <1>0, <1>2, HandleMoves
  <2>2. CASE Agent!Replay(e) \/ Agent!Await(e) \/ Agent!CloseDone(e)
    BY <1>0, <2>1, <2>2 DEF Agent!Replay, Agent!Await, Agent!CloseDone
  <2> QED
    BY <1>2, <2>1, <2>2 DEF Agent!Handle, Agent!Claim, Agent!Wake, Agent!Refuse, Agent!Execute,
       Agent!Complete, Agent!Release, Agent!PublishResult
<1>3. CASE Finishes
  BY <1>0, <1>3 DEF Finishes, Agent!Finish
<1>4. ASSUME NEW e \in Deliveries, NEW p \in Pushes, Deliver(e, p)
      PROVE  pc'[d] = pc[d] /\ source'[d] = source[d]
  BY <1>0, <1>4, ReceiveMoves DEF Deliver
<1>5. UNCHANGED agentVars => pc'[d] = pc[d] /\ source'[d] = source[d]
  OBVIOUS
<1> QED
  BY <1>1, <1>2, <1>3, <1>4, <1>5, AgentSteps, OperationFinishes

\* Who is found under the key of d has been delivered the same push.
LEMMA FindsSamePush ==
  ASSUME IInv, NEW d \in Deliveries
  PROVE  /\ \A e \in Agent!KeptFor(d) :
              e \in Deliveries /\ pc[e] \in Finished /\ Backed(e) /\ command[e] = command[d]
         /\ \A e \in Agent!ClaimsFor(d) :
              e \in Deliveries /\ pc[e] # "idle" /\ command[e] = command[d]
<1>0. KeptInv /\ ClaimInv /\ command \in [Deliveries -> Pushes]
  BY ResultParts DEF IInv, TypeInv
<1>1. \A e \in Deliveries : Agent!Key(e) = command[e]
  BY <1>0 DEF Agent!Key
<1> QED
  BY <1>0, <1>1 DEF KeptInv, ClaimInv, Agent!KeptFor, Agent!ClaimsFor

LEMMA SourceStep == IInv /\ [Next]_vars /\ ~Restart => SourceInv'
<1> SUFFICES ASSUME IInv, [Next]_vars, ~Restart, NEW d \in Deliveries,
                    pc'[d] \in {"awaiting", "responding"}
             PROVE  source'[d] \in Deliveries /\ pc'[source'[d]] # "idle"
                    /\ command'[source'[d]] = command'[d]
  BY DEF SourceInv
<1>0. TypeInv /\ SourceInv /\ pc \in [Deliveries -> Agent!Steps]
      /\ source \in [Deliveries -> Deliveries \cup {None}]
  BY ResultParts DEF IInv, TypeInv
<1>1. SUFFICES pc[d] # "idle" /\ source'[d] \in Deliveries /\ pc[source'[d]] # "idle"
               /\ command[source'[d]] = command[d]
  BY <1>0, <1>1, Moving
<1>2. CASE pc'[d] = pc[d] /\ source'[d] = source[d]
  BY <1>0, <1>2 DEF SourceInv
<1>3. CASE Agent!Replay(d)
  <2>1. pc[d] = "received" /\ \E e \in Agent!KeptFor(d) : source'[d] = e
    BY <1>0, <1>3 DEF Agent!Replay
  <2> QED
    BY <2>1, FindsSamePush DEF Finished
<1>4. CASE Agent!Await(d)
  <2>1. pc[d] = "received" /\ \E e \in Agent!ClaimsFor(d) : source'[d] = e
    BY <1>0, <1>4 DEF Agent!Await
  <2> QED
    BY <2>1, FindsSamePush
<1>5. CASE Agent!Wake(d)
  BY <1>0, <1>5 DEF Agent!Wake, SourceInv
<1>6. CASE Agent!CloseDone(d)
  BY <1>0, <1>6 DEF Agent!CloseDone
<1> QED
  BY <1>0, <1>2, <1>3, <1>4, <1>5, <1>6, WaitingMoves

LEMMA AnswerStep == IInv /\ [Next]_vars /\ ~Restart => AnswerInv'
<1> SUFFICES ASSUME IInv, [Next]_vars, ~Restart, NEW d \in Deliveries, pc'[d] = "responding"
             PROVE  pc'[source'[d]] \in Finished /\ Backed(source[d])'
  BY DEF AnswerInv
<1>0. TypeInv /\ SettlingInv /\ KeptInv /\ SourceInv /\ AnswerInv
      /\ pc \in [Deliveries -> Agent!Steps] /\ source \in [Deliveries -> Deliveries \cup {None}]
  BY ResultParts DEF IInv, TypeInv
<1>1. ASSUME NEW e \in Deliveries, source'[d] = e, pc[e] \in Finished, Backed(e)
      PROVE  pc'[source'[d]] \in Finished /\ Backed(source[d])'
  <2>1. pc'[e] \in Finished /\ Backed(e)'
    BY <1>0, <1>1, Moving, StillBacked
  <2> QED
    BY <1>1, <2>1 DEF Backed, Revision
<1>2. CASE pc'[d] = pc[d] /\ source'[d] = source[d]
  BY <1>0, <1>1, <1>2 DEF SourceInv, AnswerInv
<1>3. CASE Agent!Replay(d)
  <2>1. \E e \in Agent!KeptFor(d) : source'[d] = e
    BY <1>0, <1>3 DEF Agent!Replay
  <2> QED
    BY <1>1, <2>1, FindsSamePush
<1>4. CASE Agent!Await(d)
  BY <1>0, <1>4 DEF Agent!Await
<1>5. CASE Agent!Wake(d)
  <2>1. source'[d] = source[d] /\ source[d] \in closed
    BY <1>5 DEF Agent!Wake, Agent!Released
  <2> QED
    BY <1>0, <1>1, <2>1 DEF KeptInv
<1>6. CASE Agent!CloseDone(d)
  <2>1. source'[d] = d /\ pc[d] = "closing"
    BY <1>0, <1>6 DEF Agent!CloseDone
  <2> QED
    BY <1>0, <1>1, <2>1 DEF SettlingInv, Finished
<1> QED
  BY <1>0, <1>2, <1>3, <1>4, <1>5, <1>6, WaitingMoves

\* A restart keeps no result, and leaves no one settling, waiting or answering.
LEMMA RestartStep == IInv /\ Restart => ResultInv'
<1> SUFFICES ASSUME IInv, Restart PROVE ResultInv'
  OBVIOUS
<1>1. /\ \A d \in Deliveries : pc'[d] \in {"idle", "answered", "lost"}
      /\ cache' = <<>> /\ inFlight' = {} /\ closed' = {}
  BY DEF Restart, Agent!Restart
<1>2. (Agent!Kept \cup closed)' = {}
  BY <1>1 DEF Agent!Kept
<1> QED
  BY <1>1, <1>2 DEF ResultInv

LEMMA ResultStep == IInv /\ [Next]_vars => ResultInv'
<1>1. CASE Restart
  BY <1>1, RestartStep
<1>2. CASE ~Restart
  BY <1>2, SettlingStep, KeptStep, SourceStep, AnswerStep, ClaimStep, ResultPartsNext
<1> QED
  BY <1>1, <1>2

-----------------------------------------------------------------------------
LEMMA Initially == Init => IInv
<1> SUFFICES ASSUME Init PROVE IInv
  OBVIOUS
<1>0. /\ pc = [d \in Deliveries |-> "idle"]
      /\ command = [d \in Deliveries |-> CHOOSE p \in Pushes : TRUE]
      /\ source = [d \in Deliveries |-> None] /\ outcome = [d \in Deliveries |-> "none"]
      /\ cache = <<>> /\ inFlight = {} /\ closed = {}
  BY DEF Init, Agent!Init
<1>1. Agent!Kept \cup closed = {}
  BY <1>0 DEF Agent!Kept
<1>2. \E p : p \in Pushes
  <2>1. PICK s \in Surfaces : TRUE
    BY SurfacesAssumption
  <2>2. [surface |-> s, revision |-> 1] \in [surface : {s}, revision : 1..LastRevision[s]]
    BY RevisionsAssumption
  <2> QED
    BY <2>2 DEF Pushes
<1>3. AgentType
  <2>1. (CHOOSE p \in Pushes : TRUE) \in Pushes
    BY <1>2
  <2>2. cache \in Seq(Deliveries)
    BY <1>0
  <2> QED
    BY <1>0, <2>1, <2>2 DEF AgentType, Agent!Steps, Agent!Outcomes
<1>4. OwnType
  BY DEF Init, OwnType
<1>5. TypeInv
  BY <1>3, <1>4 DEF TypeInv, AgentType, OwnType
<1>6. StepInv
  <2>1. \A d \in Deliveries : pc[d] = "idle" /\ step[d] = "start"
    BY <1>0, Zenon DEF Init
  <2> QED
    BY <2>1, Zenon DEF StepInv
<1>7. EngineInv
  BY DEF Init, EngineInv, Rebuilding, Executing
<1>8. ResultInv
  BY <1>0, <1>1 DEF ResultInv
<1> QED
  BY <1>5, <1>6, <1>7, <1>8 DEF IInv

\* What a node holds, builds and answers stays consistent, however deliveries
\* overtake each other (HandleMessage, applyNode and the rebuilder).
THEOREM Invariance == Spec => []IInv
<1>1. IInv /\ [Next]_vars => IInv'
  BY TypeStep, StepStep, EngineStep, ResultStep DEF IInv
<1> QED
  BY <1>1, Initially, PTL DEF Spec

\* A slow rebuild never replaces the engine of a newer binding (rebuildLocked's
\* comparison with builtRevision).
THEOREM EngineKeepsUp == Spec => []EngineFollowsBinding
<1>1. IInv => EngineFollowsBinding
  BY DEF IInv, EngineInv, Rebuilding, EngineFollowsBinding
<1> QED
  BY <1>1, Invariance, PTL

\* A confirmed push of the current binding is in force on the node, be it answered
\* by its own work or with another delivery's kept result (claimOrAwait).
THEOREM ConfirmsWhatIsHeld == Spec => AudioConverges
<1>1. ASSUME IInv PROVE \A d \in Deliveries : Confirms(d) => held = written["audio"]
  <2> SUFFICES ASSUME NEW d \in Deliveries, pc[d] = "responding",
                      command[d].surface = "audio", Revision(d) = written["audio"],
                      outcome[source[d]] = "confirmed"
               PROVE  held = written["audio"]
    BY DEF Confirms
  <2>0. /\ TypeInv /\ StepInv /\ EngineInv /\ SourceInv /\ AnswerInv
        /\ held \in Nat /\ Revision(d) \in Nat \ {0} /\ "audio" \in Surfaces
        /\ written["audio"] \in Nat
    BY <1>1, ResultParts, PushesAreRevisions DEF IInv, TypeInv, Revision
  <2>1. source[d] \in Deliveries /\ command[source[d]] = command[d] /\ Backed(source[d])
    BY <2>0 DEF SourceInv, AnswerInv
  <2>2. Revision(d) <= held
    BY <2>1 DEF Backed, Revision
  <2>3. held <= written["audio"]
    BY <2>0, <2>2 DEF EngineInv
  <2> QED
    BY <2>0, <2>2, <2>3
<1> QED
  BY <1>1, Invariance, PTL DEF AudioConverges
=============================================================================
