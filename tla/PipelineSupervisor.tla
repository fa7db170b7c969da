------------------------- MODULE PipelineSupervisor -------------------------
(***************************************************************************)
(* One surface of pipeline.Supervisor (internal/agent/pipeline):           *)
(* runner.loop, which starts, stops and restarts the surface's gst-launch  *)
(* child, the goroutines of realProcess that watch the child, and the      *)
(* operations of renderops.go that send a command and then poll until it   *)
(* is confirmed (AwaitState).                                              *)
(*                                                                         *)
(* The loop owns the child, the backoff timer and the failure count; what  *)
(* it shares with the watchers and the pollers is the snapshot and the     *)
(* generation, each read or written under the runner's lock.  An attempt   *)
(* to run the child is named by the generation it was started under.       *)
(***************************************************************************)
EXTENDS Naturals, Sequences, FiniteSets

CONSTANTS
  Requests,      \* operations: one goroutine each
  Offered,       \* Offered[r]: the kinds of command it can carry
  Followed,      \* bound: the operations whose polling is followed; no other
                 \* part of the program depends on how an operation ends
  Boot,          \* the apply that resumes a persisted assignment at boot
  None,          \* no request
  QueueCap,      \* capacity of runner.cmds
  MaxFailures,   \* restartPolicy.maxConsecutiveFastFailures
  MaxCrashes     \* bound: times a child ends on its own

ASSUME NamesAssumption ==
  /\ Boot \notin Requests /\ None \notin Requests /\ None # Boot
  /\ IsFiniteSet(Requests) /\ Followed \subseteq Requests
  /\ Offered \in [Requests -> SUBSET {"apply", "clear", "restart"}]
ASSUME BoundsAssumption ==
  QueueCap \in Nat \ {0} /\ MaxFailures \in Nat \ {0} /\ MaxCrashes \in Nat

VARIABLES
  loop,        \* where runner.loop stands
  taken,       \* the request whose command it is executing
  cmds,        \* runner.cmds
  haveSpec, timer, fails,         \* the loop's locals: spec, backoffTimer, consecFails
  proc,        \* the attempt whose child the loop holds, 0 for none
  snap,        \* state and generation of the last setState
  procGen,     \* runner.procGen
  cleared,     \* runner.cleared: the surface is left out of the reports
  alive,       \* attempts whose child runs
  marker,      \* marker[g]: what became of the PLAYING marker of attempt g
  exited,      \* attempts whose ExitResult is in the channel
  exists,      \* the surface has a runner
  boot,        \* the boot's resume of the surface
  kind, stage, baseline,  \* of a request: its command, its progress, Generation
  fresh,       \* requests that the snapshot's ObservedAt does not precede
  tries,       \* history: attempts since a command or an attempt that played
  crashes

childVars == <<alive, marker, exited>>
shared == <<snap, procGen, fresh>>
policyVars == <<haveSpec, timer, fails, cleared, tries>>
requestVars == <<kind, stage, baseline>>
vars == <<loop, taken, cmds, policyVars, proc, shared, childVars, exists, boot,
          requestVars, crashes>>

Kinds == {"apply", "clear", "restart"}
States == {"stopped", "starting", "running", "restarting", "failed", "unsupported"}
Attempts == 1..(2 * (Cardinality(Requests) + MaxCrashes + 1))
Senders == Requests \cup {Boot}
Markers == {"unseen", "seen", "current", "handled"}

TypeOK ==
  /\ loop \in {"select", "stopping", "starting", "launching", "ending", "ended"}
  /\ taken \in Senders \cup {None}
  /\ cmds \in Seq(Senders) /\ Len(cmds) <= QueueCap
  /\ {haveSpec, timer, cleared, exists} \subseteq BOOLEAN
  /\ fails \in 0..MaxFailures /\ tries \in Nat
  /\ snap \in [state : States, gen : Attempts \cup {0}]
  /\ {proc, procGen} \subseteq Attempts \cup {0}
  /\ alive \subseteq Attempts /\ exited \subseteq Attempts
  /\ marker \in [Attempts -> Markers]
  /\ boot \in {"pending", "applied", "done"}
  /\ kind \in [Requests -> Kinds]
  /\ stage \in [Requests -> {"idle", "ready", "waiting", "returned"}]
  /\ baseline \in [Requests -> Attempts \cup {0}]
  /\ fresh \subseteq Requests
  /\ crashes \in 0..MaxCrashes

Init ==
  /\ loop = "select" /\ taken = None /\ cmds = <<>>
  /\ haveSpec = FALSE /\ timer = FALSE /\ fails = 0 /\ cleared = FALSE /\ tries = 0
  /\ proc = 0 /\ procGen = 0 /\ snap = [state |-> "stopped", gen |-> 0]
  /\ alive = {} /\ exited = {} /\ marker = [g \in Attempts |-> "unseen"]
  /\ exists = FALSE /\ boot = "pending"
  /\ kind = [r \in Requests |-> "apply"] /\ stage = [r \in Requests |-> "idle"]
  /\ baseline = [r \in Requests |-> 0]
  /\ fresh = {} /\ crashes = 0

\* setState under a generation: a transition is newer evidence for every request.
SetStateAt(state, gen) ==
  /\ snap' = [state |-> state, gen |-> gen]
  /\ fresh' = {r \in Followed : stage[r] \in {"ready", "waiting"}}
SetState(state) == SetStateAt(state, procGen)
BumpProcGen == procGen' = procGen + 1

KindOf(r) == IF r = Boot THEN "apply" ELSE kind[r]

-----------------------------------------------------------------------------
(***************************************************************************)
(* The boot, before any operation: the persisted assignment is resumed,    *)
(* discarded, or resumed and then found to have no frame writer.           *)
(***************************************************************************)

ResumeAssignment ==
  /\ boot = "pending"
  /\ boot' = "applied" /\ exists' = TRUE
  /\ cmds' = Append(cmds, Boot)
  /\ UNCHANGED <<loop, taken, policyVars, proc, shared, childVars, requestVars, crashes>>

\* MarkResumeFailed writes the snapshot from the boot's own goroutine.
MarkResumeFailed ==
  /\ boot \in {"pending", "applied"}
  /\ boot' = "done" /\ exists' = TRUE
  /\ SetState("failed")
  /\ UNCHANGED <<loop, taken, cmds, policyVars, proc, procGen, childVars, requestVars, crashes>>

BootDone ==
  /\ boot \in {"pending", "applied"}
  /\ boot' = "done"
  /\ UNCHANGED <<loop, taken, cmds, policyVars, proc, shared, childVars, exists,
                 requestVars, crashes>>

-----------------------------------------------------------------------------
(***************************************************************************)
(* An operation: read the baseline, send the command, poll.                *)
(***************************************************************************)

\* executedAt, then Supervisor.Generation; a restart needs a runner.
Begin(r, k) ==
  /\ boot = "done" /\ stage[r] = "idle"
  /\ kind' = [kind EXCEPT ![r] = k]
  /\ IF k = "restart" /\ ~exists
       THEN /\ stage' = [stage EXCEPT ![r] = "returned"]
            /\ UNCHANGED <<baseline, exists>>
       ELSE /\ stage' = [stage EXCEPT ![r] = "ready"]
            /\ baseline' = IF r \in Followed THEN [baseline EXCEPT ![r] = snap.gen] ELSE baseline
            /\ exists' = TRUE
  /\ UNCHANGED <<loop, taken, cmds, policyVars, proc, shared, childVars, boot,
                 crashes>>

\* The send blocks while the channel is full.
Send(r) ==
  /\ stage[r] = "ready"
  /\ Len(cmds) < QueueCap
  /\ cmds' = Append(cmds, r)
  /\ stage' = [stage EXCEPT ![r] = IF r \in Followed THEN "waiting" ELSE "returned"]
  /\ UNCHANGED <<loop, taken, policyVars, proc, shared, childVars, exists, boot,
                 kind, baseline, crashes>>

\* The state an operation waits for.
Wanted(r) == IF kind[r] = "clear" THEN "stopped" ELSE "running"

\* Mutation of Confirms: a clear asks for a newer generation too.
ConfirmsByGeneration(r) == r \in fresh /\ snap.state = Wanted(r) /\ snap.gen > baseline[r]

\* What AwaitState asks of a snapshot; a clear asks for no generation.
Confirms(r) ==
  /\ r \in fresh /\ snap.state = Wanted(r)
  /\ kind[r] # "clear" => snap.gen > baseline[r]

\* The operation returns; what it knew is forgotten with it.
Return(r) ==
  /\ stage[r] = "waiting"
  /\ stage' = [stage EXCEPT ![r] = "returned"]
  /\ baseline' = [baseline EXCEPT ![r] = 0]
  /\ fresh' = fresh \ {r}
  /\ UNCHANGED <<loop, taken, cmds, policyVars, proc, snap, procGen, childVars, exists,
                 boot, kind, crashes>>

\* Confirmed.
Poll(r) == Confirms(r) /\ Return(r)

\* Unconfirmed: the deadline has passed.
GiveUp(r) == ~Confirms(r) /\ Return(r)

-----------------------------------------------------------------------------
(***************************************************************************)
(* The child and its watchers.                                             *)
(***************************************************************************)

\* The child ends on its own.
Crash(g) ==
  /\ g \in alive /\ crashes < MaxCrashes
  /\ alive' = alive \ {g}
  /\ crashes' = crashes + 1
  /\ UNCHANGED <<loop, taken, cmds, policyVars, proc, shared, marker, exited, exists,
                 boot, requestVars>>

\* watchStdout reads the marker, of a child that may have ended meanwhile.
ReadMarker(g) ==
  /\ g \in {proc} \cup alive /\ g # 0
  /\ g \notin exited /\ marker[g] = "unseen"
  /\ marker' = [marker EXCEPT ![g] = "seen"]
  /\ UNCHANGED <<loop, taken, cmds, policyVars, proc, shared, alive, exited, exists,
                 boot, requestVars, crashes>>

\* setRunningIfCurrent compares under the lock and sets under a second hold of it.
CompareGeneration(g) ==
  /\ marker[g] = "seen"
  /\ marker' = [marker EXCEPT ![g] = IF g = procGen THEN "current" ELSE "handled"]
  /\ UNCHANGED <<loop, taken, cmds, policyVars, proc, shared, alive, exited, exists,
                 boot, requestVars, crashes>>

SetRunning(g) ==
  /\ marker[g] = "current"
  /\ marker' = [marker EXCEPT ![g] = "handled"]
  /\ SetState("running")
  /\ UNCHANGED <<loop, taken, cmds, policyVars, proc, procGen, alive, exited, exists,
                 boot, requestVars, crashes>>

\* Mutation of Drained: the exit is reported without joining the scanners.
DrainedAtOnce(g) == TRUE

\* Both scanners have returned, and with them the callback of the marker.
Drained(g) == marker[g] \in {"unseen", "handled"}

\* realProcess.wait, and the loop's goroutine that hands on its result.
Exit(g) ==
  /\ g \in {proc} \ {0} /\ g \notin alive \cup exited
  /\ Drained(g)
  /\ exited' = exited \cup {g}
  /\ UNCHANGED <<loop, taken, cmds, policyVars, proc, shared, alive, marker, exists,
                 boot, requestVars, crashes>>

-----------------------------------------------------------------------------
(***************************************************************************)
(* runner.loop.                                                            *)
(***************************************************************************)

\* Mutation of Killed: the child is asked to end, and may not.
KilledPolitely == alive

\* Kill is SIGKILL.
Killed == alive \ {proc}

\* Mutation of TimerAfterCommand: a command leaves the backoff timer armed.
TimerAfterCommandArmed == timer

TimerAfterCommand == FALSE

TakeCommand ==
  /\ loop = "select" /\ cmds # <<>>
  /\ taken' = Head(cmds) /\ cmds' = Tail(cmds)
  /\ timer' = TimerAfterCommand
  /\ alive' = Killed
  /\ loop' = "stopping"
  /\ tries' = 0
  /\ UNCHANGED <<haveSpec, fails, cleared, proc, shared, marker, exited, exists, boot,
                 requestVars, crashes>>

\* The attempt is over; a callback of it that still runs is not forgotten.
Forget(g) ==
  /\ exited' = exited \ {g}
  /\ marker' = IF g # 0 /\ marker[g] = "handled" THEN [marker EXCEPT ![g] = "unseen"]
                                                ELSE marker

\* stopCurrent has its child's exit, or had no child; either way proc is nil.
StopCurrent ==
  /\ proc = 0 \/ proc \in exited
  /\ proc' = 0
  /\ procGen' = IF proc = 0 THEN procGen ELSE procGen + 1
  /\ Forget(proc)

DoApply ==
  /\ loop = "stopping" /\ KindOf(taken) = "apply"
  /\ StopCurrent
  /\ haveSpec' = TRUE /\ cleared' = FALSE /\ fails' = 0
  /\ loop' = "starting" /\ taken' = None
  /\ UNCHANGED <<cmds, timer, tries, snap, fresh, alive, exists, boot, requestVars, crashes>>

DoClear ==
  /\ loop = "stopping" /\ KindOf(taken) = "clear"
  /\ StopCurrent
  /\ haveSpec' = FALSE /\ cleared' = TRUE
  /\ SetStateAt("stopped", procGen')
  /\ loop' = "select" /\ taken' = None
  /\ UNCHANGED <<cmds, timer, fails, tries, alive, exists, boot, requestVars, crashes>>

DoRestart ==
  /\ loop = "stopping" /\ KindOf(taken) = "restart"
  /\ StopCurrent
  /\ fails' = 0
  /\ IF haveSpec
       THEN loop' = "starting" /\ UNCHANGED <<snap, fresh>>
       ELSE loop' = "select" /\ SetStateAt("stopped", procGen')
  /\ taken' = None
  /\ UNCHANGED <<cmds, haveSpec, timer, cleared, tries, alive, exists, boot,
                 requestVars, crashes>>

\* attemptStart: gst-launch is missing, or no command line can be built.
CannotStart ==
  /\ loop = "starting"
  /\ \E state \in {"unsupported", "failed"} : SetState(state)
  /\ loop' = "select"
  /\ UNCHANGED <<taken, cmds, policyVars, proc, procGen, childVars, exists, boot,
                 requestVars, crashes>>

\* StateStarting carries the generation that precedes the attempt's own.
ReportStarting ==
  /\ loop = "starting"
  /\ SetState("starting")
  /\ loop' = "launching"
  /\ UNCHANGED <<taken, cmds, policyVars, proc, procGen, childVars, exists, boot,
                 requestVars, crashes>>

Launch ==
  /\ loop = "launching"
  /\ BumpProcGen
  /\ proc' = procGen' /\ alive' = alive \cup {procGen'}
  /\ tries' = tries + 1
  /\ loop' = "select"
  /\ UNCHANGED <<taken, cmds, haveSpec, timer, fails, cleared, snap, fresh, marker,
                 exited, exists, boot, requestVars, crashes>>

\* The starter returns an error: a failure, and no timer.
LaunchFails ==
  /\ loop = "launching"
  /\ BumpProcGen
  /\ fails' = fails + 1 /\ tries' = tries + 1
  /\ SetStateAt("failed", procGen')
  /\ loop' = "select"
  /\ UNCHANGED <<taken, cmds, haveSpec, timer, cleared, proc, childVars, exists, boot,
                 requestVars, crashes>>

\* Mutation of LockedOut: one more failure is allowed.
LockedOutLate(n) == n > MaxFailures

LockedOut(n) == n >= MaxFailures

\* A child that nobody stopped has ended: restart it later, or give up.
HandleExit ==
  /\ loop = "select" /\ proc \in exited
  /\ BumpProcGen /\ proc' = 0 /\ Forget(proc)
  /\ IF marker[proc] = "unseen"
       THEN fails' = fails + 1 /\ UNCHANGED tries
       ELSE fails' = 0 /\ tries' = 0
  /\ IF LockedOut(fails')
       THEN SetStateAt("failed", procGen') /\ UNCHANGED timer
       ELSE SetStateAt("restarting", procGen') /\ timer' = TRUE
  /\ UNCHANGED <<loop, taken, cmds, haveSpec, cleared, alive, exists, boot,
                 requestVars, crashes>>

TimerFires ==
  /\ loop = "select" /\ timer
  /\ timer' = FALSE
  /\ loop' = "starting"
  /\ UNCHANGED <<taken, cmds, haveSpec, fails, cleared, tries, proc, shared, childVars,
                 exists, boot, requestVars, crashes>>

\* Supervisor.Shutdown: the commands that are still queued are never taken.
Shutdown ==
  /\ exists /\ boot = "done" /\ loop = "select"
  /\ loop' = "ending" /\ timer' = FALSE
  /\ alive' = Killed
  /\ UNCHANGED <<taken, cmds, haveSpec, fails, cleared, tries, proc, shared, marker,
                 exited, exists, boot, requestVars, crashes>>

EndLoop ==
  /\ loop = "ending"
  /\ StopCurrent
  /\ loop' = "ended"
  /\ UNCHANGED <<taken, cmds, policyVars, snap, fresh, alive, exists, boot,
                 requestVars, crashes>>

-----------------------------------------------------------------------------
Operation(r) == (\E k \in Offered[r] : Begin(r, k)) \/ Send(r) \/ Poll(r) \/ GiveUp(r)
Watch(g) == ReadMarker(g) \/ CompareGeneration(g) \/ SetRunning(g) \/ Exit(g)
Execute == DoApply \/ DoClear \/ DoRestart
Attempt == CannotStart \/ ReportStarting \/ Launch \/ LaunchFails

Next ==
  \/ ResumeAssignment \/ MarkResumeFailed \/ BootDone
  \/ \E r \in Requests : Operation(r)
  \/ \E g \in Attempts : Crash(g) \/ Watch(g)
  \/ TakeCommand \/ Execute \/ Attempt \/ HandleExit \/ TimerFires
  \/ Shutdown \/ EndLoop

Spec == Init /\ [][Next]_vars

\* Goroutines that can run do, and select and the senders blocked on a full
\* channel are not starved.  No fairness for what the child does by itself.
Fairness ==
  /\ WF_vars(BootDone)
  /\ WF_vars(Execute \/ Attempt \/ HandleExit \/ EndLoop)
  /\ SF_vars(TakeCommand)
  /\ \A r \in Requests : SF_vars(Send(r))
  /\ WF_vars(\E g \in Attempts : CompareGeneration(g) \/ SetRunning(g) \/ Exit(g))

FairSpec == Spec /\ Fairness

-----------------------------------------------------------------------------
(***************************************************************************)
(* Properties.                                                             *)
(***************************************************************************)

\* A surface is reported running only on the word of the child the loop holds
\* now: never of one that ended or was replaced, although the marker's callback
\* compares the generation and sets the state under two holds of the lock.
RunningIsBacked ==
  snap.state = "running" =>
    \/ loop \in {"starting", "ended"}
    \/ proc = snap.gen /\ marker[proc] = "handled"

\* No child outlives the loop's hold on it: one child at a time through stops,
\* crashes and a backoff timer armed before a command; and a surface that is
\* cleared, so absent from the reports, runs nothing and has nothing armed.
OneChild ==
  /\ alive \subseteq {proc}
  /\ timer => proc = 0
  /\ loop = "select" /\ (cleared \/ ~haveSpec) => proc = 0 /\ ~timer
  /\ loop = "ended" => alive = {} /\ ~timer

\* A pipeline that never plays is attempted MaxFailures times after a command
\* and then left failed: the restart loop always ends, or plays.
RestartsAreBounded ==
  /\ tries <= MaxFailures
  /\ timer => tries < MaxFailures

\* The loop has taken the command and is done with it.
Executed(r) == taken # r /\ \A i \in 1..Len(cmds) : cmds[i] # r

\* Once the command of an operation has been executed, the state the operation
\* waits for confirms it: a clear of a surface that had no child, and an apply or a
\* restart whose child plays, also one that was started again after a crash or by
\* another operation.  So no operation waits for its deadline on a surface that
\* does what it asked for, whatever the generation was when it read its baseline.
ExecutedIsConfirmed ==
  \A r \in Followed :
    /\ stage[r] = "waiting" /\ Executed(r)
    /\ loop # "starting" /\ snap.state = Wanted(r)
    => Confirms(r)

\* A command that an operation set out to send is executed, whatever the child
\* does, unless the supervisor shuts down.
CommandIsExecuted ==
  \A r \in Requests :
    stage[r] = "ready" ~>
      \/ stage[r] \in {"waiting", "returned"} /\ Executed(r)
      \/ loop \in {"ending", "ended"}
=============================================================================
