---------------------- MODULE PipelineSupervisorProofs ----------------------
(***************************************************************************)
(* Proofs about PipelineSupervisor, for any number of operations, any      *)
(* capacity of the queue, any lockout and any number of crashes.           *)
(*                                                                         *)
(* The loop owns the child, the timer and the counts, and says where it    *)
(* stands with them (ChildInv, LoopInv, BoundInv); what it shares with the *)
(* watchers of the child is right because a child is not forgotten while   *)
(* one of them is still at work (MarkerInv).  That generations stay within *)
(* the attempts of the model is counted from the commands not yet taken    *)
(* (TypeInv).                                                              *)
(***************************************************************************)
EXTENDS PipelineSupervisor, FiniteSetTheorems, TLAPS

\* A child that runs, or whose exit waits to be read, is the one the loop holds,
\* and was started under the current generation.
ChildInv ==
  /\ proc \in Nat /\ procGen \in Nat
  /\ alive \subseteq {proc} /\ exited \subseteq {proc}
  /\ 0 \notin alive /\ 0 \notin exited /\ alive \cap exited = {}
  /\ proc # 0 => proc = procGen

\* Where the loop stands says whether it may hold a child or a timer.
LoopInv ==
  /\ haveSpec => ~cleared
  /\ timer => loop = "select" /\ proc = 0 /\ haveSpec
  /\ loop \in {"starting", "launching"} => proc = 0 /\ haveSpec
  /\ loop = "select" /\ ~haveSpec => proc = 0
  /\ loop = "ended" => proc = 0

\* While the callback of a marker runs its child is still held.
MarkerInv ==
  /\ marker \in [Attempts -> Markers]
  /\ \A g \in Attempts :
       marker[g] \in {"seen", "current"} => g # 0 /\ g = proc /\ g \notin exited
  /\ RunningIsBacked
  /\ loop = "launching" => snap.state # "running"

\* Each attempt since the last command has been counted as a failure, or is the
\* one under way.
BoundInv ==
  /\ fails \in Nat /\ tries \in Nat
  /\ tries <= MaxFailures
  /\ loop = "stopping" => tries = 0
  /\ loop = "select" /\ proc # 0 => fails < MaxFailures /\ tries <= fails + 1
  /\ timer \/ loop \in {"starting", "launching"} => fails < MaxFailures /\ tries <= fails

IInv == ChildInv /\ LoopInv /\ MarkerInv /\ BoundInv

\* What the loop owns, and what it shares with the watchers.
owned == <<loop, policyVars, proc, snap, procGen, childVars>>

-----------------------------------------------------------------------------
\* The tuples actions leave unchanged are expanded throughout.
USE DEF childVars, shared, policyVars, requestVars

\* The boot's resume and the operations only fill the queue and read the snapshot.
LEMMA Bystanders ==
  ASSUME \/ ResumeAssignment \/ BootDone
         \/ \E r \in Requests : Operation(r)
         \/ UNCHANGED vars
  PROVE  UNCHANGED owned
<1>1. CASE ResumeAssignment \/ BootDone
  BY <1>1 DEF ResumeAssignment, BootDone, owned
<1>2. ASSUME NEW r \in Requests, Operation(r) PROVE UNCHANGED owned
  BY <1>2 DEF Operation, Begin, Send, Poll, GiveUp, Return, owned
<1>3. CASE UNCHANGED vars
  BY <1>3 DEF vars, owned
<1> QED
  BY <1>1, <1>2, <1>3

LEMMA ChildStep == ChildInv /\ LoopInv /\ [Next]_vars => ChildInv'
<1> SUFFICES ASSUME ChildInv, LoopInv, [Next]_vars PROVE ChildInv'
  OBVIOUS
<1> USE DEF ChildInv
<1>1. CASE UNCHANGED owned
  BY <1>1 DEF owned
<1>2. CASE MarkResumeFailed
  BY <1>2 DEF MarkResumeFailed
<1>3. ASSUME NEW g \in Attempts, Crash(g) \/ Watch(g) PROVE ChildInv'
  BY <1>3 DEF Crash, Watch, ReadMarker, CompareGeneration, SetRunning, Exit
<1>4. CASE TakeCommand \/ Shutdown
  BY <1>4 DEF TakeCommand, Shutdown, Killed
<1>5. CASE Execute \/ EndLoop
  <2>1. StopCurrent /\ alive' = alive
    BY <1>5 DEF Execute, DoApply, DoClear, DoRestart, EndLoop
  <2>2. /\ proc' = 0 /\ exited' = exited \ {proc}
        /\ procGen' = IF proc = 0 THEN procGen ELSE procGen + 1
        /\ proc = 0 \/ proc \in exited
    BY <2>1 DEF StopCurrent, Forget
  <2>3. alive = {}
    BY <2>2
  <2> QED
    BY <2>1, <2>2, <2>3
<1>6. CASE CannotStart \/ ReportStarting \/ TimerFires
  BY <1>6 DEF CannotStart, ReportStarting, TimerFires
<1>7. CASE Launch \/ LaunchFails
  <2>1. proc = 0 /\ alive = {} /\ exited = {}
    BY <1>7 DEF Launch, LaunchFails, LoopInv
  <2>2. CASE Launch
    BY <2>1, <2>2 DEF Launch, BumpProcGen
  <2>3. CASE LaunchFails
    BY <2>1, <2>3 DEF LaunchFails, BumpProcGen
  <2> QED
    BY <1>7, <2>2, <2>3
<1>8. CASE HandleExit
  BY <1>8 DEF HandleExit, BumpProcGen, Forget
<1> QED
  BY <1>1, <1>2, <1>3, <1>4, <1>5, <1>6, <1>7, <1>8, Bystanders DEF Next, Attempt

LEMMA LoopStep == ChildInv /\ LoopInv /\ [Next]_vars => LoopInv'
<1> SUFFICES ASSUME ChildInv, LoopInv, [Next]_vars PROVE LoopInv'
  OBVIOUS
<1> USE DEF LoopInv
<1>1. CASE UNCHANGED owned
  BY <1>1 DEF owned
<1>2. CASE MarkResumeFailed
  BY <1>2 DEF MarkResumeFailed
<1>3. ASSUME NEW g \in Attempts, Crash(g) \/ Watch(g) PROVE LoopInv'
  BY <1>3 DEF Crash, Watch, ReadMarker, CompareGeneration, SetRunning, Exit
<1>4. CASE TakeCommand \/ Shutdown
  BY <1>4 DEF TakeCommand, Shutdown, TimerAfterCommand
<1>5. CASE Execute \/ EndLoop
  BY <1>5 DEF Execute, DoApply, DoClear, DoRestart, EndLoop, StopCurrent
<1>6. CASE CannotStart \/ ReportStarting \/ TimerFires
  BY <1>6 DEF CannotStart, ReportStarting, TimerFires
<1>7. CASE Launch \/ LaunchFails
  BY <1>7 DEF Launch, LaunchFails
<1>8. CASE HandleExit
  BY <1>8 DEF HandleExit, ChildInv
<1> QED
  BY <1>1, <1>2, <1>3, <1>4, <1>5, <1>6, <1>7, <1>8, Bystanders DEF Next, Attempt

\* RunningIsBacked is disturbed by a new snapshot and by the end of a hold on a
\* child; the first names another state, except in SetRunning, where the child
\* whose marker was seen is still held; the second comes with a new snapshot,
\* or leaves the loop where no word of the surface counts.
LEMMA MarkerStep == ChildInv /\ LoopInv /\ MarkerInv /\ [Next]_vars => MarkerInv'
<1> SUFFICES ASSUME ChildInv, LoopInv, MarkerInv, [Next]_vars PROVE MarkerInv'
  OBVIOUS
<1> USE DEF MarkerInv, RunningIsBacked, ChildInv, LoopInv
<1>1. CASE UNCHANGED owned
  BY <1>1 DEF owned
<1>2. CASE MarkResumeFailed
  BY <1>2 DEF MarkResumeFailed, SetState, SetStateAt
<1>3. ASSUME NEW g \in Attempts, Crash(g) PROVE MarkerInv'
  BY <1>3 DEF Crash
<1>4. ASSUME NEW g \in Attempts, ReadMarker(g) PROVE MarkerInv'
  BY <1>4 DEF ReadMarker, Markers
<1>5. ASSUME NEW g \in Attempts, CompareGeneration(g) PROVE MarkerInv'
  BY <1>5 DEF CompareGeneration, Markers
<1>6. ASSUME NEW g \in Attempts, SetRunning(g) PROVE MarkerInv'
  BY <1>6 DEF SetRunning, SetState, SetStateAt, Markers
<1>7. ASSUME NEW g \in Attempts, Exit(g) PROVE MarkerInv'
  BY <1>7 DEF Exit, Drained
<1>8. CASE TakeCommand \/ Shutdown
  BY <1>8 DEF TakeCommand, Shutdown
<1>9. ASSUME NEW g, g = proc, Forget(g), g = 0 \/ g \in exited
      PROVE  /\ marker' \in [Attempts -> Markers]
             /\ \A h \in Attempts : marker'[h] \notin {"seen", "current"}
  BY <1>9 DEF Forget, Markers
<1>10. CASE DoApply \/ DoClear \/ DoRestart \/ EndLoop
  <2>1. Forget(proc) /\ (proc = 0 \/ proc \in exited)
    BY <1>10 DEF DoApply, DoClear, DoRestart, EndLoop, StopCurrent
  <2>2. /\ marker' \in [Attempts -> Markers]
        /\ \A h \in Attempts : marker'[h] \notin {"seen", "current"}
    BY <1>9, <2>1
  <2>3. RunningIsBacked' /\ loop' # "launching"
    BY <1>10 DEF DoApply, DoClear, DoRestart, EndLoop, SetStateAt
  <2> QED
    BY <2>2, <2>3
<1>11. CASE CannotStart \/ ReportStarting
  BY <1>11 DEF CannotStart, ReportStarting, SetState, SetStateAt
<1>12. CASE TimerFires
  BY <1>12 DEF TimerFires
<1>13. CASE Launch
  <2>1. /\ proc = 0 /\ marker' = marker /\ loop' = "select" /\ snap' = snap
        /\ \A g \in Attempts : marker[g] \notin {"seen", "current"}
    BY <1>13 DEF Launch
  <2>2. snap.state # "running"
    BY <1>13 DEF Launch
  <2> QED
    BY <2>1, <2>2
<1>14. CASE LaunchFails
  BY <1>14 DEF LaunchFails, SetStateAt
<1>15. CASE HandleExit
  <2>1. /\ marker' \in [Attempts -> Markers]
        /\ \A h \in Attempts : marker'[h] \notin {"seen", "current"}
    BY <1>9, <1>15 DEF HandleExit
  <2>2. RunningIsBacked' /\ loop' # "launching"
    BY <1>15 DEF HandleExit, SetStateAt
  <2> QED
    BY <2>1, <2>2
<1> QED
  BY <1>1, <1>2, <1>3, <1>4, <1>5, <1>6, <1>7, <1>8, <1>10, <1>11, <1>12, <1>13,
     <1>14, <1>15, Bystanders DEF Next, Attempt, Execute, Watch

LEMMA BoundStep == ChildInv /\ LoopInv /\ BoundInv /\ [Next]_vars => BoundInv'
<1> SUFFICES ASSUME ChildInv, LoopInv, BoundInv, [Next]_vars PROVE BoundInv'
  OBVIOUS
<1> USE BoundsAssumption DEF BoundInv
<1>1. CASE UNCHANGED owned
  BY <1>1 DEF owned
<1>2. CASE MarkResumeFailed
  BY <1>2 DEF MarkResumeFailed
<1>3. ASSUME NEW g \in Attempts, Crash(g) \/ Watch(g) PROVE BoundInv'
  BY <1>3 DEF Crash, Watch, ReadMarker, CompareGeneration, SetRunning, Exit
<1>4. CASE TakeCommand \/ Shutdown
  BY <1>4 DEF TakeCommand, Shutdown, TimerAfterCommand, LoopInv
<1>5. CASE Execute \/ EndLoop
  <2>1. CASE DoApply \/ DoRestart
    <3>1. fails' = 0 /\ tries' = tries /\ proc' = 0 /\ timer' = timer
      BY <2>1 DEF DoApply, DoRestart, StopCurrent
    <3> QED
      BY <2>1, <3>1 DEF DoApply, DoRestart, LoopInv
  <2>2. CASE DoClear \/ EndLoop
    BY <2>2 DEF DoClear, EndLoop, StopCurrent, LoopInv
  <2> QED
    BY <1>5, <2>1, <2>2 DEF Execute
<1>6. CASE CannotStart \/ ReportStarting \/ TimerFires
  BY <1>6 DEF CannotStart, ReportStarting, TimerFires, LoopInv
<1>7. CASE Launch \/ LaunchFails
  BY <1>7 DEF Launch, LaunchFails, BumpProcGen, LoopInv
<1>8. CASE HandleExit
  BY <1>8 DEF HandleExit, LockedOut, ChildInv, LoopInv
<1> QED
  BY <1>1, <1>2, <1>3, <1>4, <1>5, <1>6, <1>7, <1>8, Bystanders DEF Next, Attempt

\* The inductive invariant of the supervisor.
THEOREM Invariance == Spec => []IInv
<1>1. Init => IInv
  BY BoundsAssumption DEF Init, IInv, ChildInv, LoopInv, MarkerInv, BoundInv,
     RunningIsBacked, Markers
<1>2. IInv /\ [Next]_vars => IInv'
  BY ChildStep, LoopStep, MarkerStep, BoundStep DEF IInv
<1> QED
  BY <1>1, <1>2, PTL DEF Spec

\* runner.loop has one child at most, and none beside a backoff timer, of a
\* cleared surface, or after its end.
THEOREM HasOneChild == Spec => []OneChild
<1>1. IInv => OneChild
  BY DEF IInv, ChildInv, LoopInv, OneChild
<1> QED
  BY <1>1, Invariance, PTL

\* setRunningIfCurrent, with its two holds of the lock, never reports a child
\* that has ended or was replaced as running.
THEOREM RunningHasChild == Spec => []RunningIsBacked
<1>1. IInv => RunningIsBacked
  BY DEF IInv, MarkerInv
<1> QED
  BY <1>1, Invariance, PTL

\* maxConsecutiveFastFailures bounds the attempts of a pipeline that never plays.
THEOREM RestartsEnd == Spec => []RestartsAreBounded
<1>1. IInv => RestartsAreBounded
  BY BoundsAssumption DEF IInv, BoundInv, RestartsAreBounded
<1> QED
  BY <1>1, Invariance, PTL

-----------------------------------------------------------------------------
(***************************************************************************)
(* The type invariant.  Attempts bounds the generations: a command costs   *)
(* two of them at most, the start of a child and its end, and so does a    *)
(* child that ends by itself, its end and the start of the next.           *)
(***************************************************************************)

\* The commands that the loop may yet take.
Queued == {cmds[i] : i \in 1..Len(cmds)}
Untaken ==
  {r \in Requests : stage[r] \in {"idle", "ready"}} \cup Queued
    \cup (IF boot = "pending" THEN {Boot} ELSE {})

\* Every sender has one command, in one place.
QueueInv ==
  /\ cmds \in Seq(Senders) /\ Len(cmds) <= QueueCap
  /\ \A i, j \in 1..Len(cmds) : cmds[i] = cmds[j] => i = j
  /\ \A i \in 1..Len(cmds) :
       IF cmds[i] = Boot THEN boot # "pending" ELSE stage[cmds[i]] \in {"waiting", "returned"}
  /\ boot = "pending" => cmds = <<>>
  /\ boot # "done" => \A r \in Requests : stage[r] = "idle"
  /\ stage \in [Requests -> {"idle", "ready", "waiting", "returned"}]
  /\ boot \in {"pending", "applied", "done"}

\* The generations that what the loop is about to do still costs.
Held == IF proc # 0 THEN 1 ELSE 0
Pending ==
  IF loop = "select"
    THEN IF timer THEN 2
           ELSE IF proc = 0 THEN 0 ELSE IF proc \in alive THEN 1 ELSE 3
    ELSE IF loop = "stopping" THEN 2 + Held
           ELSE IF loop \in {"starting", "launching"} THEN 2
                  ELSE IF loop = "ending" THEN Held ELSE 0

BudgetInv ==
  /\ crashes \in 0..MaxCrashes
  /\ alive # {} => loop = "select"
  /\ procGen + Pending + 2 * (MaxCrashes - crashes) + 2 * Cardinality(Untaken)
       <= 2 * (Cardinality(Requests) + MaxCrashes + 1)

\* What is left of TypeOK.
RestInv ==
  /\ loop \in {"select", "stopping", "starting", "launching", "ending", "ended"}
  /\ taken \in Senders \cup {None}
  /\ fails <= MaxFailures
  /\ snap \in [state : States, gen : Nat] /\ snap.gen <= procGen
  /\ kind \in [Requests -> Kinds]
  /\ baseline \in [Requests -> Nat] /\ \A r \in Requests : baseline[r] <= procGen
  /\ fresh \subseteq Requests
FlagInv == haveSpec \in BOOLEAN /\ timer \in BOOLEAN /\ cleared \in BOOLEAN /\ exists \in BOOLEAN

TypeInv == QueueInv /\ BudgetInv /\ RestInv /\ FlagInv

\* The queue and the requests, for the steps that leave them alone.
queueVars == <<cmds, boot, stage>>

LEMMA LoopLeavesQueue ==
  ASSUME \/ \E g \in Attempts : Crash(g) \/ Watch(g)
         \/ Execute \/ Attempt \/ HandleExit \/ TimerFires \/ Shutdown \/ EndLoop
         \/ UNCHANGED vars
  PROVE  UNCHANGED queueVars
<1> USE DEF queueVars
<1>1. ASSUME NEW g \in Attempts, Crash(g) \/ Watch(g) PROVE UNCHANGED queueVars
  BY <1>1 DEF Crash, Watch, ReadMarker, CompareGeneration, SetRunning, Exit
<1>2. CASE Execute
  BY <1>2 DEF Execute, DoApply, DoClear, DoRestart
<1>3. CASE Attempt
  BY <1>3 DEF Attempt, CannotStart, ReportStarting, Launch, LaunchFails
<1>4. CASE HandleExit \/ TimerFires \/ Shutdown \/ EndLoop
  BY <1>4 DEF HandleExit, TimerFires, Shutdown, EndLoop
<1>5. CASE UNCHANGED vars
  BY <1>5 DEF vars
<1>6. QED
  BY <1>1, <1>2, <1>3, <1>4, <1>5

\* A step takes the command at the head of the queue, or none, and adds none.
LEMMA QueueStep ==
  ASSUME QueueInv, [Next]_vars
  PROVE  /\ QueueInv' /\ Untaken' \subseteq Untaken
         /\ TakeCommand => Head(cmds) \in Untaken /\ Head(cmds) \notin Untaken'
<1> USE DEF QueueInv
<1>1. CASE UNCHANGED queueVars /\ ~TakeCommand
  BY <1>1 DEF queueVars, Untaken, Queued
<1>2. CASE ResumeAssignment
  <2>1. /\ boot = "pending" /\ boot' = "applied" /\ cmds' = <<Boot>> /\ stage' = stage
        /\ loop' = loop
    BY <1>2 DEF ResumeAssignment
  <2>2. Boot \in Senders /\ <<Boot>> \in Seq(Senders) /\ Len(<<Boot>>) = 1
    BY DEF Senders
  <2>3. QueueInv'
    BY <2>1, <2>2, BoundsAssumption
  <2>4. Untaken' \subseteq Untaken
    BY <2>1 DEF Untaken, Queued
  <2>5. ~TakeCommand
    BY <2>1 DEF TakeCommand
  <2>6. QED
    BY <2>3, <2>4, <2>5
<1>3. CASE MarkResumeFailed \/ BootDone
  <2>1. boot # "done" /\ boot' = "done" /\ cmds' = cmds /\ stage' = stage /\ loop' = loop
    BY <1>3 DEF MarkResumeFailed, BootDone
  <2>2. ~TakeCommand
    BY <2>1 DEF TakeCommand
  <2>3. QED
    BY <2>1, <2>2 DEF Untaken, Queued
<1>4. ASSUME NEW r \in Requests, Operation(r)
      PROVE  /\ QueueInv' /\ Untaken' \subseteq Untaken
             /\ ~TakeCommand
  <2>1. r # Boot /\ r \in Senders
    BY NamesAssumption DEF Senders
  <2>2. ASSUME NEW k \in Offered[r], Begin(r, k)
        PROVE  QueueInv' /\ Untaken' \subseteq Untaken /\ loop' = loop
    <3>1. /\ boot = "done" /\ boot' = boot /\ cmds' = cmds /\ stage[r] = "idle"
          /\ stage' = [stage EXCEPT ![r] = "returned"] \/ stage' = [stage EXCEPT ![r] = "ready"]
          /\ loop' = loop
      BY <2>2 DEF Begin
    <3>2. \A i \in 1..Len(cmds) : cmds[i] # r
      BY <2>1, <3>1
    <3>3. stage' \in [Requests -> {"idle", "ready", "waiting", "returned"}]
      BY <3>1
    <3>4. ASSUME NEW i \in 1..Len(cmds)
          PROVE  IF cmds[i] = Boot THEN boot # "pending"
                                   ELSE stage'[cmds[i]] \in {"waiting", "returned"}
      <4>1. cmds[i] # r
        BY <3>2
      <4>2. cmds[i] \in Senders
        OBVIOUS
      <4>3. cmds[i] # Boot => stage'[cmds[i]] = stage[cmds[i]]
        BY <3>1, <4>1, <4>2 DEF Senders
      <4>4. QED
        BY <4>3
    <3>5. QueueInv'
      BY <3>1, <3>3, <3>4
    <3>6. QED
      BY <3>1, <3>5 DEF Untaken, Queued
  <2>3. CASE Send(r)
    <3>1. /\ stage[r] = "ready" /\ Len(cmds) < QueueCap /\ cmds' = Append(cmds, r)
          /\ stage' = [stage EXCEPT ![r] = "waiting"] \/ stage' = [stage EXCEPT ![r] = "returned"]
          /\ boot' = boot /\ loop' = loop
      BY <2>3 DEF Send
    <3>2. boot = "done" /\ \A i \in 1..Len(cmds) : cmds[i] # r
      BY <2>1, <3>1
    <3>3. /\ cmds' \in Seq(Senders) /\ Len(cmds') = Len(cmds) + 1 /\ cmds'[Len(cmds')] = r
          /\ \A i \in 1..Len(cmds) : cmds'[i] = cmds[i]
      BY <2>1, <3>1
    <3>4. \A i \in 1..Len(cmds') : i \in 1..Len(cmds) \/ i = Len(cmds')
      BY <3>3
    <3>5. stage' \in [Requests -> {"idle", "ready", "waiting", "returned"}]
      BY <3>1
    <3>6. ASSUME NEW i \in 1..Len(cmds')
          PROVE  IF cmds'[i] = Boot THEN boot # "pending"
                                    ELSE stage'[cmds'[i]] \in {"waiting", "returned"}
      <4>1. CASE i = Len(cmds')
        BY <2>1, <3>1, <3>3, <4>1
      <4>2. CASE i \in 1..Len(cmds)
        <5>1. cmds'[i] = cmds[i] /\ cmds[i] # r /\ cmds[i] \in Senders
          BY <3>2, <3>3, <4>2
        <5>2. cmds[i] # Boot => stage'[cmds[i]] = stage[cmds[i]]
          BY <3>1, <5>1 DEF Senders
        <5>3. QED
          BY <4>2, <5>1, <5>2
      <4>3. QED
        BY <3>4, <4>1, <4>2
    <3>7. ASSUME NEW i \in 1..Len(cmds'), NEW j \in 1..Len(cmds'), cmds'[i] = cmds'[j]
           PROVE  i = j
      BY <3>2, <3>3, <3>4, <3>7
    <3>8. QueueInv'
      BY <3>1, <3>2, <3>3, <3>5, <3>6, <3>7, BoundsAssumption
    <3>9. Untaken' \subseteq Untaken
      BY <2>1, <3>1, <3>2, <3>3, <3>4 DEF Untaken, Queued
    <3>10. QED
      BY <3>1, <3>8, <3>9 DEF TakeCommand
  <2>4. CASE Poll(r) \/ GiveUp(r)
    <3>1. /\ stage[r] = "waiting" /\ stage' = [stage EXCEPT ![r] = "returned"]
          /\ boot' = boot /\ cmds' = cmds /\ loop' = loop
      BY <2>4 DEF Poll, GiveUp, Return
    <3>2. QueueInv'
      BY <3>1
    <3>3. QED
      BY <3>1, <3>2 DEF Untaken, Queued, TakeCommand
  <2>5. QED
    BY <1>4, <2>2, <2>3, <2>4 DEF Operation, TakeCommand
<1>5. CASE TakeCommand
  <2>1. cmds # <<>> /\ cmds' = Tail(cmds) /\ boot' = boot /\ stage' = stage
    BY <1>5 DEF TakeCommand
  <2>2. /\ Len(cmds) \in Nat \ {0} /\ Head(cmds) = cmds[1] /\ cmds' \in Seq(Senders)
        /\ Len(cmds') = Len(cmds) - 1
        /\ \A i \in 1..Len(cmds') : i + 1 \in 1..Len(cmds) /\ cmds'[i] = cmds[i + 1]
    BY <2>1
  <2>3. Len(cmds') <= QueueCap
    BY <2>2, BoundsAssumption
  <2>4. ASSUME NEW i \in 1..Len(cmds')
        PROVE  IF cmds'[i] = Boot THEN boot # "pending"
                                  ELSE stage[cmds'[i]] \in {"waiting", "returned"}
    BY <2>2
  <2>5. ASSUME NEW i \in 1..Len(cmds'), NEW j \in 1..Len(cmds'), cmds'[i] = cmds'[j]
         PROVE  i = j
    BY <2>2, <2>5
  <2>6. QueueInv'
    BY <2>1, <2>2, <2>3, <2>4, <2>5
  <2>7. Head(cmds) \in Queued /\ Head(cmds) \notin Queued' /\ Queued' \subseteq Queued
    BY <2>1, <2>2 DEF Queued
  <2>8. Untaken' \subseteq Untaken
    BY <2>1, <2>7 DEF Untaken
  <2>9. Head(cmds) \notin Untaken'
    BY <2>1, <2>2, <2>7, NamesAssumption DEF Untaken
  <2>10. QED
    BY <2>6, <2>7, <2>8, <2>9 DEF Untaken
<1>6. CASE /\ \/ \E g \in Attempts : Crash(g) \/ Watch(g)
              \/ Execute \/ Attempt \/ HandleExit \/ TimerFires \/ Shutdown \/ EndLoop
              \/ UNCHANGED vars
           /\ ~TakeCommand
  BY <1>1, <1>6, LoopLeavesQueue
<1>7. QED
  BY <1>2, <1>3, <1>4, <1>5, <1>6 DEF Next

\* Apart from commands, a step spends what it has put aside.
LEMMA Spent ==
  ASSUME IInv, TypeInv, [Next]_vars
  PROVE  /\ crashes' \in 0..MaxCrashes
         /\ alive' # {} => loop' = "select"
         /\ procGen' + Pending' + 2 * (MaxCrashes - crashes')
              <= procGen + Pending + 2 * (MaxCrashes - crashes)
                   + (IF TakeCommand THEN 2 ELSE 0)
<1> USE BoundsAssumption DEF IInv, ChildInv, LoopInv, TypeInv, BudgetInv, Pending, Held
<1>1. CASE UNCHANGED <<owned, crashes>>
  BY <1>1 DEF owned
<1>2. ASSUME \/ ResumeAssignment \/ BootDone
             \/ \E r \in Requests : Operation(r)
             \/ UNCHANGED vars
      PROVE  UNCHANGED <<owned, crashes>>
  <2>1. UNCHANGED owned
    BY <1>2, Bystanders
  <2>2. ASSUME ResumeAssignment \/ BootDone \/ UNCHANGED vars PROVE UNCHANGED crashes
    BY <2>2 DEF ResumeAssignment, BootDone, vars
  <2>3. ASSUME NEW r \in Requests, Operation(r) PROVE UNCHANGED crashes
    BY <2>3 DEF Operation, Begin, Send, Poll, GiveUp, Return
  <2>4. QED
    BY <1>2, <2>1, <2>2, <2>3
<1>3. CASE MarkResumeFailed
  BY <1>3 DEF MarkResumeFailed
<1>4. ASSUME NEW g \in Attempts, Crash(g)
      PROVE  /\ crashes' \in 0..MaxCrashes
             /\ alive' # {} => loop' = "select"
             /\ procGen' + Pending' + 2 * (MaxCrashes - crashes')
                  <= procGen + Pending + 2 * (MaxCrashes - crashes)
  BY <1>4 DEF Crash
<1>5. ASSUME NEW g \in Attempts, Watch(g)
      PROVE  UNCHANGED <<crashes, alive, loop, proc, procGen, timer>>
  BY <1>5 DEF Watch, ReadMarker, CompareGeneration, SetRunning, Exit
<1>6. CASE TakeCommand
  <2>1. /\ loop = "select" /\ loop' = "stopping" /\ alive' = {}
        /\ proc' = proc /\ procGen' = procGen /\ crashes' = crashes
    BY <1>6 DEF TakeCommand, Killed
  <2>2. Pending' <= Pending + 2
    BY <2>1
  <2>3. QED
    BY <1>6, <2>1, <2>2
<1>7. CASE Shutdown
  <2>1. /\ loop = "select" /\ loop' = "ending" /\ alive' = {} /\ ~TakeCommand
        /\ proc' = proc /\ procGen' = procGen /\ crashes' = crashes
    BY <1>7 DEF Shutdown, Killed, TakeCommand
  <2>2. Pending' <= Pending
    BY <2>1
  <2>3. QED
    BY <2>1, <2>2
<1>8. CASE Execute \/ EndLoop
  <2>1. StopCurrent /\ alive' = alive /\ crashes' = crashes /\ timer' = timer
    BY <1>8 DEF Execute, DoApply, DoClear, DoRestart, EndLoop
  <2>2. /\ proc' = 0 /\ procGen' = IF proc = 0 THEN procGen ELSE procGen + 1
    BY <2>1 DEF StopCurrent
  <2>3. \/ loop = "stopping" /\ loop' \in {"starting", "select"}
        \/ loop = "ending" /\ loop' = "ended"
    BY <1>8 DEF Execute, DoApply, DoClear, DoRestart, EndLoop
  <2>4. QED
    BY <2>1, <2>2, <2>3
<1>9. CASE CannotStart \/ ReportStarting \/ TimerFires
  <2>1. /\ proc' = proc /\ procGen' = procGen /\ crashes' = crashes /\ alive' = alive
        /\ \/ loop = "starting" /\ loop' \in {"select", "launching"} /\ timer' = timer
           \/ loop = "select" /\ timer /\ loop' = "starting"
    BY <1>9 DEF CannotStart, ReportStarting, TimerFires
  <2>2. alive = {}
    BY <2>1
  <2>3. Pending' <= Pending
    BY <2>1
  <2>4. QED
    BY <2>1, <2>2, <2>3
<1>10. CASE Launch
  BY <1>10 DEF Launch, BumpProcGen
<1>11. CASE LaunchFails
  BY <1>11 DEF LaunchFails, BumpProcGen
<1>12. CASE HandleExit
  BY <1>12 DEF HandleExit, BumpProcGen
<1>13. QED
  BY <1>1, <1>2, <1>3, <1>4, <1>5, <1>6, <1>7, <1>8, <1>9, <1>10, <1>11, <1>12
  DEF Next, Attempt

LEMMA UntakenFinite == QueueInv => IsFiniteSet(Untaken) /\ Cardinality(Untaken) \in Nat
<1> SUFFICES ASSUME QueueInv PROVE IsFiniteSet(Untaken)
  BY FS_CardinalityType
<1>1. IsFiniteSet(Senders)
  BY NamesAssumption, FS_AddElement, FS_Union, FS_Singleton DEF Senders
<1>2. Untaken \subseteq Senders
  BY DEF QueueInv, Untaken, Queued, Senders
<1>3. QED
  BY <1>1, <1>2, FS_Subset

\* The sum that BudgetInv bounds, before and after a step.
LEMMA SumsUp ==
  ASSUME NEW g \in Nat, NEW h \in Nat, NEW c \in Int, NEW d \in Int,
         NEW u \in Nat, NEW v \in Nat, NEW bound \in Nat,
         g + 2 * c + 2 * u <= bound,
         \/ h + 2 * d <= g + 2 * c + 2 /\ v <= u - 1
         \/ h + 2 * d <= g + 2 * c /\ v <= u
  PROVE  h + 2 * d + 2 * v <= bound
OBVIOUS

LEMMA BudgetStep == IInv /\ TypeInv /\ [Next]_vars => BudgetInv'
<1> SUFFICES ASSUME IInv, TypeInv, [Next]_vars PROVE BudgetInv'
  OBVIOUS
<1>1. /\ QueueInv' /\ Untaken' \subseteq Untaken
      /\ TakeCommand => Head(cmds) \in Untaken /\ Head(cmds) \notin Untaken'
  BY QueueStep DEF TypeInv
<1>2. IsFiniteSet(Untaken) /\ Cardinality(Untaken) \in Nat
  BY UntakenFinite DEF TypeInv
<1>3. Cardinality(Untaken') \in Nat /\ Cardinality(Untaken') <= Cardinality(Untaken)
  BY <1>1, <1>2, FS_Subset, FS_CardinalityType
<1>4. TakeCommand => Cardinality(Untaken') <= Cardinality(Untaken) - 1
  <2> SUFFICES ASSUME TakeCommand PROVE Cardinality(Untaken') <= Cardinality(Untaken) - 1
    OBVIOUS
  <2> DEFINE others == Untaken \ {Head(cmds)}
  <2>1. IsFiniteSet(others) /\ Cardinality(others) = Cardinality(Untaken) - 1
    BY <1>1, <1>2, FS_RemoveElement
  <2>2. Untaken' \subseteq others
    BY <1>1
  <2>3. QED
    BY <2>1, <2>2, FS_Subset
<1>5. /\ procGen \in Nat /\ procGen' \in Nat /\ Pending \in Nat /\ Pending' \in Nat
      /\ Cardinality(Requests) \in Nat
  <2>1. procGen \in Nat /\ procGen' \in Nat
    BY ChildStep DEF IInv, ChildInv
  <2>2. Cardinality(Requests) \in Nat
    BY NamesAssumption, FS_CardinalityType
  <2>3. QED
    BY <2>1, <2>2 DEF Pending, Held
<1>6. /\ crashes' \in 0..MaxCrashes /\ crashes \in 0..MaxCrashes
      /\ alive' # {} => loop' = "select"
      /\ procGen' + Pending' + 2 * (MaxCrashes - crashes')
           <= procGen + Pending + 2 * (MaxCrashes - crashes)
                + (IF TakeCommand THEN 2 ELSE 0)
  BY Spent DEF TypeInv, BudgetInv
<1>7. procGen' + Pending' + 2 * (MaxCrashes - crashes') + 2 * Cardinality(Untaken')
        <= 2 * (Cardinality(Requests) + MaxCrashes + 1)
  <2>1. procGen + Pending + 2 * (MaxCrashes - crashes) + 2 * Cardinality(Untaken)
          <= 2 * (Cardinality(Requests) + MaxCrashes + 1)
    BY DEF TypeInv, BudgetInv
  <2>2. /\ MaxCrashes - crashes \in Int /\ MaxCrashes - crashes' \in Int
        /\ procGen + Pending \in Nat /\ procGen' + Pending' \in Nat
        /\ 2 * (Cardinality(Requests) + MaxCrashes + 1) \in Nat
    <3>1. MaxCrashes - crashes \in Int /\ MaxCrashes - crashes' \in Int
      BY <1>6, BoundsAssumption
    <3>2. procGen + Pending \in Nat
      BY <1>5
    <3>3. procGen' + Pending' \in Nat
      <4>1. \A m, n \in Nat : m + n \in Nat
        OBVIOUS
      <4>2. QED
        BY <1>5, <4>1, Zenon
    <3>4. 2 * (Cardinality(Requests) + MaxCrashes + 1) \in Nat
      BY <1>5, BoundsAssumption
    <3>5. QED
      BY <3>1, <3>2, <3>4, <3>3
  <2>3. \/ /\ procGen' + Pending' + 2 * (MaxCrashes - crashes')
                <= procGen + Pending + 2 * (MaxCrashes - crashes) + 2
           /\ Cardinality(Untaken') <= Cardinality(Untaken) - 1
        \/ /\ procGen' + Pending' + 2 * (MaxCrashes - crashes')
                <= procGen + Pending + 2 * (MaxCrashes - crashes)
           /\ Cardinality(Untaken') <= Cardinality(Untaken)
    <3>1. CASE TakeCommand
      BY <1>4, <1>6, <3>1
    <3>2. CASE ~TakeCommand
      <4> DEFINE sum == procGen + Pending + 2 * (MaxCrashes - crashes)
      <4>1. procGen' + Pending' + 2 * (MaxCrashes - crashes') <= sum + 0
        BY <1>6, <3>2
      <4>2. sum \in Int
        BY <2>2
      <4>3. QED
        BY <1>3, <4>1, <4>2
    <3>3. QED
      BY <3>1, <3>2
  <2>4. QED
    BY <1>2, <1>3, <2>1, <2>2, <2>3, SumsUp
<1>8. QED
  BY <1>6, <1>7 DEF BudgetInv

\* Generations only grow.
LEMMA GenerationsGrow ==
  ASSUME IInv, [Next]_vars
  PROVE  procGen \in Nat /\ procGen' \in Nat /\ procGen <= procGen'
<1>1. procGen \in Nat
  BY DEF IInv, ChildInv
<1>2. CASE UNCHANGED owned
  BY <1>1, <1>2 DEF owned
<1>3. CASE MarkResumeFailed
  BY <1>1, <1>3 DEF MarkResumeFailed
<1>4. ASSUME NEW g \in Attempts, Crash(g) \/ Watch(g) PROVE procGen' = procGen
  BY <1>4 DEF Crash, Watch, ReadMarker, CompareGeneration, SetRunning, Exit
<1>5. CASE TakeCommand \/ TimerFires \/ Shutdown
  BY <1>1, <1>5 DEF TakeCommand, TimerFires, Shutdown
<1>6. CASE Execute \/ EndLoop
  BY <1>1, <1>6 DEF Execute, DoApply, DoClear, DoRestart, EndLoop, StopCurrent
<1>7. CASE Attempt
  BY <1>1, <1>7 DEF Attempt, CannotStart, ReportStarting, Launch, LaunchFails, BumpProcGen
<1>8. CASE HandleExit
  BY <1>1, <1>8 DEF HandleExit, BumpProcGen
<1>9. QED
  BY <1>1, <1>2, <1>3, <1>4, <1>5, <1>6, <1>7, <1>8, Bystanders DEF Next

\* The snapshot, and the requests that it is news for.
SnapOK == snap \in [state : States, gen : Nat] /\ snap.gen <= procGen /\ fresh \subseteq Requests

LEMMA SnapSet ==
  ASSUME NEW state \in States, NEW gen \in Nat, SetStateAt(state, gen), gen <= procGen'
  PROVE  SnapOK'
<1>1. snap' = [state |-> state, gen |-> gen]
  BY DEF SetStateAt
<1>2. fresh' \subseteq Requests
  BY NamesAssumption DEF SetStateAt
<1>3. QED
  BY <1>1, <1>2 DEF SnapOK

LEMMA SnapStep ==
  ASSUME IInv, TypeInv, [Next]_vars
  PROVE  SnapOK'
<1>1. procGen \in Nat /\ procGen' \in Nat /\ procGen <= procGen' /\ procGen' <= procGen'
  BY GenerationsGrow
<1>2. SnapOK
  BY DEF TypeInv, RestInv, SnapOK
<1>3. ASSUME snap' = snap, fresh' \subseteq fresh PROVE SnapOK'
  BY <1>1, <1>2, <1>3 DEF SnapOK
<1>4. ASSUME NEW state \in States,
             \/ SetState(state) /\ procGen' = procGen
             \/ SetStateAt(state, procGen')
      PROVE  SnapOK'
  BY <1>1, <1>4, SnapSet DEF SetState
<1>5. /\ "stopped" \in States /\ "starting" \in States /\ "running" \in States
      /\ "restarting" \in States /\ "failed" \in States /\ "unsupported" \in States
  BY DEF States
<1>6. CASE ResumeAssignment \/ BootDone \/ UNCHANGED vars
  BY <1>3, <1>6 DEF ResumeAssignment, BootDone, vars
<1>7. CASE MarkResumeFailed
  BY <1>4, <1>5, <1>7 DEF MarkResumeFailed
<1>8. ASSUME NEW r \in Requests, Operation(r) PROVE SnapOK'
  BY <1>3, <1>8 DEF Operation, Begin, Send, Poll, GiveUp, Return
<1>9. ASSUME NEW g \in Attempts, Crash(g) \/ Watch(g) PROVE SnapOK'
  <2>1. CASE SetRunning(g)
    BY <1>4, <1>5, <2>1 DEF SetRunning
  <2>2. CASE Crash(g) \/ ReadMarker(g) \/ CompareGeneration(g) \/ Exit(g)
    BY <1>3, <2>2 DEF Crash, ReadMarker, CompareGeneration, Exit
  <2>3. QED
    BY <1>9, <2>1, <2>2 DEF Watch
<1>10. CASE TakeCommand \/ TimerFires \/ Shutdown \/ EndLoop \/ Launch \/ DoApply
  BY <1>3, <1>10 DEF TakeCommand, TimerFires, Shutdown, EndLoop, Launch, DoApply
<1>11. CASE DoClear
  BY <1>4, <1>5, <1>11 DEF DoClear
<1>12. CASE DoRestart
  BY <1>3, <1>4, <1>5, <1>12 DEF DoRestart
<1>13. CASE CannotStart
  BY <1>4, <1>5, <1>13 DEF CannotStart
<1>14. CASE ReportStarting
  BY <1>4, <1>5, <1>14 DEF ReportStarting
<1>15. CASE LaunchFails
  BY <1>4, <1>5, <1>15 DEF LaunchFails
<1>16. CASE HandleExit
  BY <1>3, <1>4, <1>5, <1>16 DEF HandleExit
<1>17. QED
  BY <1>6, <1>7, <1>8, <1>9, <1>10, <1>11, <1>12, <1>13, <1>14, <1>15, <1>16
  DEF Next, Execute, Attempt

\* Where the loop stands, its count, and what requests have noted.
PlaceOK ==
  /\ loop \in {"select", "stopping", "starting", "launching", "ending", "ended"}
  /\ taken \in Senders \cup {None}
  /\ fails <= MaxFailures
RequestsOK ==
  /\ kind \in [Requests -> Kinds]
  /\ baseline \in [Requests -> Nat] /\ \A r \in Requests : baseline[r] <= procGen

LEMMA PlaceStep ==
  ASSUME IInv, TypeInv, [Next]_vars
  PROVE  PlaceOK'
<1>1. PlaceOK /\ fails \in Nat
  BY DEF TypeInv, RestInv, PlaceOK, IInv, BoundInv
<1>2. ASSUME UNCHANGED <<loop, fails, taken>> PROVE PlaceOK'
  BY <1>1, <1>2 DEF PlaceOK
<1>3. CASE ResumeAssignment \/ MarkResumeFailed \/ BootDone \/ UNCHANGED vars
  BY <1>2, <1>3 DEF ResumeAssignment, MarkResumeFailed, BootDone, vars
<1>4. ASSUME NEW r \in Requests, Operation(r) PROVE PlaceOK'
  BY <1>2, <1>4 DEF Operation, Begin, Send, Poll, GiveUp, Return
<1>5. ASSUME NEW g \in Attempts, Crash(g) \/ Watch(g) PROVE PlaceOK'
  BY <1>2, <1>5 DEF Crash, Watch, ReadMarker, CompareGeneration, SetRunning, Exit
<1>6. CASE TakeCommand
  <2>1. Head(cmds) \in Senders
    BY <1>6 DEF TakeCommand, TypeInv, QueueInv
  <2>2. QED
    BY <1>1, <1>6, <2>1 DEF TakeCommand, PlaceOK
<1>7. CASE Execute
  BY <1>1, <1>7, BoundsAssumption DEF Execute, DoApply, DoClear, DoRestart, PlaceOK
<1>8. CASE CannotStart \/ ReportStarting \/ Launch
  BY <1>1, <1>8 DEF CannotStart, ReportStarting, Launch, PlaceOK
<1>9. CASE LaunchFails
  BY <1>1, <1>9, BoundsAssumption DEF LaunchFails, PlaceOK, IInv, BoundInv
<1>10. CASE HandleExit
  <2>1. proc # 0
    BY <1>10 DEF HandleExit, IInv, ChildInv
  <2>2. fails < MaxFailures
    BY <1>10, <2>1 DEF HandleExit, IInv, BoundInv
  <2>3. fails' = fails + 1 \/ fails' = 0
    BY <1>10 DEF HandleExit
  <2>4. fails' <= MaxFailures
    BY <1>1, <2>2, <2>3, BoundsAssumption
  <2>5. QED
    BY <1>1, <1>10, <2>4 DEF HandleExit, PlaceOK
<1>11. CASE TimerFires \/ Shutdown \/ EndLoop
  BY <1>1, <1>11 DEF TimerFires, Shutdown, EndLoop, PlaceOK
<1>12. QED
  BY <1>3, <1>4, <1>5, <1>6, <1>7, <1>8, <1>9, <1>10, <1>11 DEF Next, Attempt

LEMMA RequestsStep ==
  ASSUME IInv, TypeInv, [Next]_vars
  PROVE  RequestsOK'
<1>1. procGen \in Nat /\ procGen' \in Nat /\ procGen <= procGen'
  BY GenerationsGrow
<1>2. RequestsOK /\ snap.gen \in Nat /\ snap.gen <= procGen
  BY DEF TypeInv, RestInv, RequestsOK
<1>3. ASSUME UNCHANGED <<kind, baseline>> PROVE RequestsOK'
  BY <1>1, <1>2, <1>3 DEF RequestsOK
<1>4. ASSUME NEW r \in Requests, NEW k \in Offered[r], Begin(r, k) PROVE RequestsOK'
  <2>1. k \in Kinds
    BY NamesAssumption DEF Kinds
  <2>2. /\ kind' = [kind EXCEPT ![r] = k] /\ procGen' = procGen
        /\ baseline' = baseline \/ baseline' = [baseline EXCEPT ![r] = snap.gen]
    BY <1>4 DEF Begin
  <2>3. QED
    BY <1>1, <1>2, <2>1, <2>2 DEF RequestsOK
<1>5. ASSUME NEW r \in Requests, Poll(r) \/ GiveUp(r) PROVE RequestsOK'
  BY <1>1, <1>2, <1>5 DEF Poll, GiveUp, Return, RequestsOK
<1>6. ASSUME NEW r \in Requests, Operation(r) PROVE RequestsOK'
  BY <1>3, <1>4, <1>5, <1>6 DEF Operation, Send
<1>7. CASE ResumeAssignment \/ MarkResumeFailed \/ BootDone \/ UNCHANGED vars
  BY <1>3, <1>7 DEF ResumeAssignment, MarkResumeFailed, BootDone, vars
<1>8. ASSUME NEW g \in Attempts, Crash(g) \/ Watch(g) PROVE RequestsOK'
  BY <1>3, <1>8 DEF Crash, Watch, ReadMarker, CompareGeneration, SetRunning, Exit
<1>9. CASE TakeCommand \/ TimerFires \/ Shutdown \/ EndLoop \/ HandleExit
  BY <1>3, <1>9 DEF TakeCommand, TimerFires, Shutdown, EndLoop, HandleExit
<1>10. CASE Execute \/ Attempt
  BY <1>3, <1>10
  DEF Execute, DoApply, DoClear, DoRestart, Attempt, CannotStart, ReportStarting, Launch,
      LaunchFails
<1>11. QED
  BY <1>6, <1>7, <1>8, <1>9, <1>10 DEF Next

LEMMA FlagStep == FlagInv /\ [Next]_vars => FlagInv'
<1> SUFFICES ASSUME FlagInv, [Next]_vars PROVE FlagInv'
  OBVIOUS
<1> USE DEF FlagInv
<1>1. CASE ResumeAssignment \/ MarkResumeFailed \/ BootDone \/ UNCHANGED vars
  BY <1>1, Zenon DEF ResumeAssignment, MarkResumeFailed, BootDone, vars
<1>2. ASSUME NEW r \in Requests, Operation(r) PROVE FlagInv'
  BY <1>2, Zenon DEF Operation, Begin, Send, Poll, GiveUp, Return
<1>3. ASSUME NEW g \in Attempts, Crash(g) \/ Watch(g) PROVE FlagInv'
  BY <1>3, Zenon DEF Crash, Watch, ReadMarker, CompareGeneration, SetRunning, Exit
<1>4. CASE TakeCommand \/ TimerFires \/ Shutdown \/ EndLoop
  BY <1>4, Zenon DEF TakeCommand, TimerAfterCommand, TimerFires, Shutdown, EndLoop
<1>5. CASE Execute
  BY <1>5, Zenon DEF Execute, DoApply, DoClear, DoRestart
<1>6. CASE Attempt
  BY <1>6, Zenon DEF Attempt, CannotStart, ReportStarting, Launch, LaunchFails
<1>7. CASE HandleExit
  BY <1>7, Zenon DEF HandleExit
<1>8. QED
  BY <1>1, <1>2, <1>3, <1>4, <1>5, <1>6, <1>7, Zenon DEF Next

\* TypeInv is inductive beside IInv.
LEMMA TypesHold == Spec => []TypeInv
<1>1. Init => TypeInv
  <2> SUFFICES ASSUME Init PROVE TypeInv
    OBVIOUS
  <2>1. QueueInv
    BY BoundsAssumption DEF Init, QueueInv
  <2>2. Untaken = Requests \cup {Boot}
    BY DEF Init, Untaken, Queued
  <2>3. Cardinality(Untaken) = Cardinality(Requests) + 1 /\ Cardinality(Requests) \in Nat
    BY <2>2, NamesAssumption, FS_AddElement, FS_CardinalityType
  <2>4. Pending = 0 /\ procGen = 0 /\ crashes = 0 /\ alive = {}
    BY DEF Init, Pending
  <2>5. BudgetInv
    BY <2>3, <2>4, BoundsAssumption DEF BudgetInv
  <2>6. RestInv
    BY BoundsAssumption DEF Init, RestInv, States, Kinds
  <2>7. FlagInv
    BY Zenon DEF Init, FlagInv
  <2>8. QED
    BY <2>1, <2>5, <2>6, <2>7 DEF TypeInv
<1>2. IInv /\ TypeInv /\ [Next]_vars => TypeInv'
  <2> SUFFICES ASSUME IInv, TypeInv, [Next]_vars PROVE TypeInv'
    OBVIOUS
  <2>1. QueueInv'
    BY QueueStep DEF TypeInv
  <2>2. BudgetInv' /\ FlagInv'
    BY BudgetStep, FlagStep DEF TypeInv
  <2>3. RestInv'
    BY SnapStep, PlaceStep, RequestsStep DEF SnapOK, PlaceOK, RequestsOK, RestInv
  <2>4. QED
    BY <2>1, <2>2, <2>3 DEF TypeInv
<1>3. QED
  BY <1>1, <1>2, Invariance, PTL DEF Spec

\* The loop, the queue, the requests and the generations are what the code's
\* types and the bounds of the model allow; a command or a child that ends by
\* itself costs two generations, so that 2 * (commands + crashes) bounds them.
THEOREM TypeCorrect == Spec => []TypeOK
<1>1. IInv /\ TypeInv => TypeOK
  <2> SUFFICES ASSUME IInv, TypeInv PROVE TypeOK
    OBVIOUS
  <2> DEFINE last == 2 * (Cardinality(Requests) + MaxCrashes + 1)
  <2>1. last \in Nat /\ Cardinality(Untaken) \in Nat
    BY NamesAssumption, BoundsAssumption, FS_CardinalityType, UntakenFinite DEF TypeInv
  <2>2. procGen \in Nat /\ Pending \in Nat
    BY DEF IInv, ChildInv, Pending, Held
  <2>3. procGen <= last
    BY <2>1, <2>2, BoundsAssumption DEF TypeInv, BudgetInv
  <2>4. \A g \in Nat : g <= procGen => g \in Attempts \cup {0}
    BY <2>1, <2>2, <2>3 DEF Attempts
  <2>5. /\ {proc, procGen} \subseteq Attempts \cup {0}
        /\ alive \subseteq Attempts /\ exited \subseteq Attempts
    BY <2>2, <2>4 DEF IInv, ChildInv
  <2>6. snap \in [state : States, gen : Attempts \cup {0}]
    BY <2>4 DEF TypeInv, RestInv
  <2>7. baseline \in [Requests -> Attempts \cup {0}]
    BY <2>4 DEF TypeInv, RestInv
  <2>8. fails \in 0..MaxFailures /\ tries \in Nat /\ crashes \in 0..MaxCrashes
    BY BoundsAssumption DEF TypeInv, RestInv, BudgetInv, IInv, BoundInv
  <2>9. {haveSpec, timer, cleared, exists} \subseteq BOOLEAN
    BY Zenon DEF TypeInv, FlagInv
  <2>10. QED
    BY <2>5, <2>6, <2>7, <2>8, <2>9
    DEF TypeOK, TypeInv, QueueInv, RestInv, IInv, MarkerInv
<1>2. QED
  BY <1>1, Invariance, TypesHold, PTL

-----------------------------------------------------------------------------
(***************************************************************************)
(* What an operation waits for.  An operation counts as awaited from the   *)
(* end of its command on: then the snapshot is newer than the operation,   *)
(* and a child that the loop holds, or that is reported running, is newer  *)
(* than the baseline, as the command ended the child that was held before. *)
(***************************************************************************)
Awaited(r) == stage[r] = "waiting" /\ Executed(r)

\* A command is in hand only while the child before it is stopped.
TakenInv == loop # "stopping" => taken = None

Newer(r) ==
  /\ loop # "starting" => r \in fresh
  /\ kind[r] # "clear" =>
       /\ proc # 0 => baseline[r] < procGen
       /\ loop # "starting" /\ snap.state = "running" => baseline[r] < snap.gen
ConfirmInv == \A r \in Followed : Awaited(r) => Newer(r)

LEMMA TakenStep == TakenInv /\ [Next]_vars => TakenInv'
<1> SUFFICES ASSUME TakenInv, [Next]_vars PROVE TakenInv'
  OBVIOUS
<1> USE DEF TakenInv
<1>1. CASE ResumeAssignment \/ MarkResumeFailed \/ BootDone \/ UNCHANGED vars
  BY <1>1 DEF ResumeAssignment, MarkResumeFailed, BootDone, vars
<1>2. ASSUME NEW r \in Requests, Operation(r) PROVE TakenInv'
  BY <1>2 DEF Operation, Begin, Send, Poll, GiveUp, Return
<1>3. ASSUME NEW g \in Attempts, Crash(g) \/ Watch(g) PROVE TakenInv'
  BY <1>3 DEF Crash, Watch, ReadMarker, CompareGeneration, SetRunning, Exit
<1>4. CASE TakeCommand
  BY <1>4 DEF TakeCommand
<1>5. CASE Execute
  BY <1>5 DEF Execute, DoApply, DoClear, DoRestart
<1>6. CASE Attempt \/ HandleExit
  BY <1>6 DEF Attempt, CannotStart, ReportStarting, Launch, LaunchFails, HandleExit
<1>7. CASE TimerFires \/ Shutdown \/ EndLoop
  BY <1>7 DEF TimerFires, Shutdown, EndLoop
<1>8. QED
  BY <1>1, <1>2, <1>3, <1>4, <1>5, <1>6, <1>7 DEF Next

\* An operation comes to be awaited by the execution of its command alone.
LEMMA Awaits ==
  ASSUME TypeInv, TakenInv, [Next]_vars, NEW r \in Followed, Awaited(r)'
  PROVE  /\ stage[r] = "waiting" /\ kind'[r] = kind[r] /\ baseline'[r] = baseline[r]
         /\ Awaited(r) \/ (Execute /\ taken = r)
<1> DEFINE Kept == stage[r] = "waiting" /\ kind'[r] = kind[r] /\ baseline'[r] = baseline[r]
<1>1. /\ r \in Requests /\ r # None /\ r # Boot
      /\ stage \in [Requests -> {"idle", "ready", "waiting", "returned"}]
      /\ kind \in [Requests -> Kinds] /\ baseline \in [Requests -> Nat]
      /\ cmds \in Seq(Senders)
  BY NamesAssumption DEF TypeInv, QueueInv, RestInv
<1>2. stage'[r] = "waiting" /\ taken' # r /\ \A i \in 1..Len(cmds') : cmds'[i] # r
  BY DEF Awaited, Executed
<1>3. ASSUME UNCHANGED <<cmds, taken, stage, kind, baseline>> PROVE Kept /\ Awaited(r)
  BY <1>2, <1>3 DEF Awaited, Executed
<1>4. ~ResumeAssignment
  <2> SUFFICES ASSUME ResumeAssignment PROVE FALSE
    OBVIOUS
  <2>1. boot = "pending" /\ stage' = stage
    BY DEF ResumeAssignment, requestVars
  <2>2. QED
    BY <1>1, <1>2, <2>1 DEF TypeInv, QueueInv
<1>5. ASSUME MarkResumeFailed \/ BootDone \/ UNCHANGED vars PROVE Kept /\ Awaited(r)
  BY <1>3, <1>5 DEF MarkResumeFailed, BootDone, vars
<1>6. ASSUME NEW q \in Requests, Operation(q) PROVE Kept /\ Awaited(r)
  <2>1. ASSUME NEW k \in Offered[q], Begin(q, k) PROVE Kept /\ Awaited(r)
    <3>1. /\ kind' = [kind EXCEPT ![q] = k] /\ cmds' = cmds /\ taken' = taken
          /\ \/ stage' = [stage EXCEPT ![q] = "returned"]
             \/ stage' = [stage EXCEPT ![q] = "ready"]
          /\ baseline' = baseline \/ baseline' = [baseline EXCEPT ![q] = snap.gen]
      BY <2>1 DEF Begin
    <3>2. q # r
      BY <1>1, <1>2, <3>1
    <3>3. QED
      BY <1>1, <1>2, <3>1, <3>2 DEF Awaited, Executed
  <2>2. CASE Send(q)
    <3>1. /\ cmds' = Append(cmds, q) /\ taken' = taken /\ kind' = kind
          /\ baseline' = baseline
          /\ \/ stage' = [stage EXCEPT ![q] = "waiting"]
             \/ stage' = [stage EXCEPT ![q] = "returned"]
      BY <2>2 DEF Send
    <3>2. /\ Len(cmds') = Len(cmds) + 1 /\ cmds'[Len(cmds) + 1] = q /\ Len(cmds) \in Nat
          /\ \A i \in 1..Len(cmds) : cmds'[i] = cmds[i]
      BY <1>1, <3>1 DEF Senders
    <3>3. q # r
      BY <1>2, <3>2
    <3>4. \A i \in 1..Len(cmds) : cmds[i] # r
      BY <1>2, <3>2
    <3>5. QED
      BY <1>1, <1>2, <3>1, <3>3, <3>4 DEF Awaited, Executed
  <2>3. CASE Poll(q) \/ GiveUp(q)
    <3>1. /\ cmds' = cmds /\ taken' = taken /\ kind' = kind
          /\ stage' = [stage EXCEPT ![q] = "returned"]
          /\ baseline' = [baseline EXCEPT ![q] = 0]
      BY <2>3 DEF Poll, GiveUp, Return
    <3>2. q # r
      BY <1>1, <1>2, <3>1
    <3>3. QED
      BY <1>1, <1>2, <3>1, <3>2 DEF Awaited, Executed
  <2>4. QED
    BY <1>6, <2>1, <2>2, <2>3 DEF Operation
<1>7. ASSUME NEW g \in Attempts, Crash(g) \/ Watch(g) PROVE Kept /\ Awaited(r)
  BY <1>3, <1>7 DEF Crash, Watch, ReadMarker, CompareGeneration, SetRunning, Exit
<1>8. ASSUME TakeCommand PROVE Kept /\ Awaited(r)
  <2>1. /\ loop = "select" /\ cmds # <<>> /\ taken' = Head(cmds) /\ cmds' = Tail(cmds)
        /\ UNCHANGED <<stage, kind, baseline>>
    BY <1>8 DEF TakeCommand
  <2>2. taken # r
    BY <1>1, <2>1 DEF TakenInv
  <2>3. /\ Len(cmds) \in Nat \ {0} /\ Head(cmds) = cmds[1] /\ Len(cmds') = Len(cmds) - 1
        /\ \A i \in 1..Len(cmds') : cmds'[i] = cmds[i + 1]
    BY <1>1, <2>1
  <2>4. ASSUME NEW i \in 1..Len(cmds) PROVE cmds[i] # r
    <3>1. CASE i = 1
      BY <1>2, <2>1, <2>3, <3>1
    <3>2. CASE i # 1
      <4>1. i - 1 \in 1..Len(cmds') /\ cmds'[i - 1] = cmds[i]
        BY <2>3, <3>2
      <4>2. QED
        BY <1>2, <4>1
    <3>3. QED
      BY <3>1, <3>2
  <2>5. QED
    BY <1>2, <2>1, <2>2, <2>4 DEF Awaited, Executed
<1>9. ASSUME Execute PROVE Kept /\ (Awaited(r) \/ taken = r)
  <2>1. UNCHANGED <<cmds, stage, kind, baseline>>
    BY <1>9 DEF Execute, DoApply, DoClear, DoRestart
  <2>2. QED
    BY <1>2, <2>1 DEF Awaited, Executed
<1>10. ASSUME Attempt \/ HandleExit PROVE Kept /\ Awaited(r)
  BY <1>3, <1>10
  DEF Attempt, CannotStart, ReportStarting, Launch, LaunchFails, HandleExit
<1>11. ASSUME TimerFires \/ Shutdown \/ EndLoop PROVE Kept /\ Awaited(r)
  BY <1>3, <1>11 DEF TimerFires, Shutdown, EndLoop
<1>12. QED
  BY <1>4, <1>5, <1>6, <1>7, <1>8, <1>9, <1>10, <1>11 DEF Next

\* A state other than running that is new to the operations that wait.
LEMMA NewsConfirms ==
  ASSUME NEW r \in Followed, stage[r] = "waiting", proc' = 0,
         NEW state, NEW gen, SetStateAt(state, gen), state # "running"
  PROVE  Newer(r)'
<1>1. snap'.state = state /\ r \in fresh'
  BY DEF SetStateAt
<1>2. QED
  BY <1>1 DEF Newer

LEMMA ConfirmStep ==
  ASSUME IInv, TypeInv, TakenInv, ConfirmInv, [Next]_vars
  PROVE  ConfirmInv'
<1> SUFFICES ASSUME NEW r \in Followed, Awaited(r)' PROVE Newer(r)'
  BY DEF ConfirmInv
<1>1. /\ stage[r] = "waiting" /\ kind'[r] = kind[r] /\ baseline'[r] = baseline[r]
      /\ Awaited(r) \/ (Execute /\ taken = r)
  BY Awaits
<1>2. Awaited(r) => Newer(r)
  BY DEF ConfirmInv
<1>3. /\ r \in Requests /\ procGen \in Nat /\ procGen' \in Nat /\ procGen <= procGen'
      /\ baseline[r] \in Nat /\ baseline[r] <= procGen /\ snap.gen \in Nat
  BY NamesAssumption, GenerationsGrow DEF TypeInv, RestInv
<1>4. boot = "done"
  BY <1>1, <1>3 DEF TypeInv, QueueInv
<1>5. ASSUME Awaited(r), UNCHANGED <<loop, proc, procGen, snap>>, r \in fresh => r \in fresh'
      PROVE  Newer(r)'
  BY <1>1, <1>2, <1>5 DEF Newer
<1>6. CASE ResumeAssignment \/ MarkResumeFailed \/ BootDone
  BY <1>4, <1>6 DEF ResumeAssignment, MarkResumeFailed, BootDone
<1>7. CASE UNCHANGED vars
  <2>1. ~Execute \/ taken # r
    BY <1>1, <1>7 DEF Awaited, Executed, Execute, DoApply, DoClear, DoRestart, vars
  <2>2. QED
    BY <1>1, <1>5, <1>7, <2>1 DEF vars
<1>8. ASSUME NEW q \in Requests, Operation(q) PROVE Newer(r)'
  <2>1. UNCHANGED <<loop, proc, procGen, snap, taken>>
    BY <1>8 DEF Operation, Begin, Send, Poll, GiveUp, Return
  <2>2. q = r => stage'[r] # "returned"
    BY DEF Awaited
  <2>3. r \in fresh => r \in fresh'
    <3>1. CASE Poll(q) \/ GiveUp(q)
      <4>1. fresh' = fresh \ {q} /\ stage' = [stage EXCEPT ![q] = "returned"]
        BY <3>1 DEF Poll, GiveUp, Return
      <4>2. q # r
        BY <1>3, <2>2, <4>1 DEF TypeInv, QueueInv
      <4>3. QED
        BY <4>1, <4>2
    <3>2. CASE Send(q) \/ \E k \in Offered[q] : Begin(q, k)
      BY <3>2 DEF Send, Begin
    <3>3. QED
      BY <1>8, <3>1, <3>2 DEF Operation
  <2>4. Awaited(r)
    <3>1. ~Execute \/ taken # r
      <4> SUFFICES ASSUME Execute, taken = r PROVE FALSE
        OBVIOUS
      <4>1. taken' # r
        BY DEF Awaited, Executed
      <4>2. QED
        BY <2>1, <4>1
    <3>2. QED
      BY <1>1, <3>1
  <2>5. QED
    BY <1>5, <2>1, <2>3, <2>4
<1>9. ASSUME NEW g \in Attempts, Crash(g) \/ Watch(g) PROVE Newer(r)'
  <2>1. UNCHANGED <<loop, taken, proc, procGen>>
    BY <1>9 DEF Crash, Watch, ReadMarker, CompareGeneration, SetRunning, Exit
  <2>2. Awaited(r)
    BY <1>1, <2>1 DEF Awaited, Executed
  <2>3. CASE SetRunning(g)
    <3>1. g = proc /\ proc # 0 /\ proc = procGen
      BY <2>3 DEF SetRunning, IInv, MarkerInv, ChildInv
    <3>2. loop # "starting"
      BY <3>1 DEF IInv, LoopInv
    <3>3. snap' = [state |-> "running", gen |-> procGen] /\ r \in fresh'
      BY <1>1, <2>3 DEF SetRunning, SetState, SetStateAt
    <3>4. kind[r] # "clear" => baseline[r] < procGen
      BY <1>2, <2>2, <3>1 DEF Newer
    <3>5. QED
      BY <1>1, <2>1, <3>3, <3>4 DEF Newer
  <2>4. CASE Crash(g) \/ ReadMarker(g) \/ CompareGeneration(g) \/ Exit(g)
    BY <1>5, <2>2, <2>4 DEF Crash, ReadMarker, CompareGeneration, Exit
  <2>5. QED
    BY <1>9, <2>3, <2>4 DEF Watch
<1>10. CASE Execute
  <2>1. proc' = 0
    BY <1>10 DEF Execute, DoApply, DoClear, DoRestart, StopCurrent
  <2>2. CASE DoApply
    <3>1. loop' = "starting"
      BY <2>2 DEF DoApply
    <3>2. QED
      BY <2>1, <3>1 DEF Newer
  <2>3. CASE DoClear
    BY <1>1, <2>1, <2>3, NewsConfirms DEF DoClear
  <2>4. CASE DoRestart
    <3>1. CASE haveSpec
      BY <2>1, <2>4, <3>1 DEF DoRestart, Newer
    <3>2. CASE ~haveSpec
      BY <1>1, <2>1, <2>4, <3>2, NewsConfirms DEF DoRestart
    <3>3. QED
      BY <3>1, <3>2
  <2>5. QED
    BY <1>10, <2>2, <2>3, <2>4 DEF Execute
<1>11. CASE CannotStart \/ ReportStarting \/ LaunchFails
  <2>1. proc' = 0
    BY <1>11 DEF CannotStart, ReportStarting, LaunchFails, IInv, LoopInv
  <2>2. \E state \in States, gen \in Nat : state # "running" /\ SetStateAt(state, gen)
    BY <1>3, <1>11 DEF CannotStart, ReportStarting, LaunchFails, SetState, States
  <2>3. QED
    BY <1>1, <2>1, <2>2, NewsConfirms
<1>12. CASE Launch
  <2>1. /\ loop = "launching" /\ snap.state # "running" /\ snap' = snap /\ fresh' = fresh
        /\ procGen' = procGen + 1 /\ ~Execute
    BY <1>12 DEF Launch, BumpProcGen, IInv, MarkerInv, Execute, DoApply, DoClear, DoRestart
  <2>2. r \in fresh
    BY <1>1, <1>2, <2>1 DEF Newer
  <2>3. baseline'[r] < procGen'
    BY <1>1, <1>3, <2>1
  <2>4. QED
    BY <2>1, <2>2, <2>3 DEF Newer
<1>13. CASE HandleExit
  <2>1. /\ proc' = 0
        /\ SetStateAt("failed", procGen') \/ SetStateAt("restarting", procGen')
    BY <1>13 DEF HandleExit
  <2>2. QED
    BY <1>1, <2>1, NewsConfirms
<1>14. CASE TimerFires
  <2>1. loop' = "starting" /\ proc' = 0
    BY <1>14 DEF TimerFires, IInv, LoopInv
  <2>2. QED
    BY <2>1 DEF Newer
<1>15. CASE TakeCommand \/ Shutdown \/ EndLoop
  <2>1. /\ loop \notin {"stopping", "starting"} /\ loop' # "starting"
        /\ UNCHANGED <<snap, fresh>>
        /\ proc' = 0 \/ (proc' = proc /\ procGen' = procGen)
    BY <1>15 DEF TakeCommand, Shutdown, EndLoop, StopCurrent
  <2>2. Newer(r)
    BY <1>1, <1>2, <2>1 DEF Execute, DoApply, DoClear, DoRestart
  <2>3. QED
    BY <1>1, <2>1, <2>2 DEF Newer
<1>16. QED
  BY <1>6, <1>7, <1>8, <1>9, <1>10, <1>11, <1>12, <1>13, <1>14, <1>15 DEF Next, Attempt

\* AwaitState is satisfied by the state an operation waits for as soon as the loop
\* is done with the command: of a clear without a generation to exceed, and of an
\* apply or a restart because the baseline was read before the command was sent.
THEOREM ExecutedAreConfirmed == Spec => []ExecutedIsConfirmed
<1>1. Init => TakenInv /\ ConfirmInv
  BY NamesAssumption DEF Init, TakenInv, ConfirmInv, Awaited
<1>2. IInv /\ TypeInv /\ TakenInv /\ ConfirmInv /\ [Next]_vars => TakenInv' /\ ConfirmInv'
  BY TakenStep, ConfirmStep
<1>3. ConfirmInv => ExecutedIsConfirmed
  BY DEF ConfirmInv, Awaited, Newer, ExecutedIsConfirmed, Confirms, Wanted
<1>4. QED
  BY <1>1, <1>2, <1>3, Invariance, TypesHold, PTL DEF Spec

=============================================================================
