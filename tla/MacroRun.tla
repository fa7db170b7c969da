------------------------------ MODULE MacroRun ------------------------------
(***************************************************************************)
(* The macro executor (internal/coordinator/macro): submission of a run,   *)
(* the goroutine that executes its steps, and the startup reconciliation   *)
(* that finishes what a dead process left running.                         *)
(*                                                                         *)
(* A macro here is one pinned revision of one show.macro object: a run     *)
(* executes the revision it was submitted with.  The command under an FPP  *)
(* step is FppCommand's; this module keeps of it only what the executor    *)
(* reads back, the journal of CommandPromise, keyed by                     *)
(* stepIdempotencyKey(run, index).                                         *)
(***************************************************************************)
EXTENDS Naturals, Sequences

CONSTANTS
  Macros,          \* pinned macro revisions
  Object,          \* Object[m]: the show.macro object m is a revision of
  Script,          \* Script[m]: its steps, integration and policies
  RunIds,
  Submitters,      \* callers of SubmitRun
  Keys,            \* idempotency keys callers present
  MaxSteps,        \* bound: the length of a script
  MaxCrashes,      \* bound: crashes of the process
  MaxWriteFaults   \* bound: failed writes to the store

Integrations == {"fpp", "mqtt", "resolume", "audio"}
StepDef == [integration : Integrations,
            onFailure : {"continue", "abort"},
            onUnconfirmed : {"continue", "abort"}]

ASSUME ScriptAssumption ==
  /\ MaxSteps \in Nat
  /\ \A m \in Macros :
       Script[m] \in Seq(StepDef) /\ Len(Script[m]) \in 1..MaxSteps
ASSUME NamesAssumption == Macros # {} /\ Keys # {}
ASSUME BoundsAssumption == MaxCrashes \in Nat /\ MaxWriteFaults \in Nat

VARIABLES
  process,      \* "up", "down", or the two startup phases before it listens
  submitter,    \* submitter[c]: where a call of SubmitRun stands
  runs,         \* the macro_runs table
  steps,        \* the macro_run_steps table: outcome of step <<run, index>>
  exec,         \* exec[r]: the executeRun goroutine of run r
  journal,      \* the commands table, under the keys of FPP steps
  dispatchAudit,\* steps with a dispatch entry in the audit log
  sent,         \* sent[k]: how often step k went out
  toReconcile,  \* runs the startup reconciliation has listed and not handled
  lostSteps,    \* history: steps whose outcome could not be written
  lostCommands, \* history: steps whose command could not be settled in the journal
  lostRuns,     \* runs this process left "running" by a failed write or scan
  crashes, faults

lostWrites == <<lostSteps, lostCommands>>
tableVars == <<runs, steps, journal, dispatchAudit, lostWrites, lostRuns>>
vars == <<process, submitter, runs, steps, exec, journal, dispatchAudit, sent,
          toReconcile, lostWrites, lostRuns, crashes, faults>>

Index == 1..MaxSteps
StepKeys == RunIds \X Index      \* stepIdempotencyKey
Terminal == {"confirmed", "unconfirmed", "unconfirmable", "failed", "skipped"}

Run == [state : {"absent", "running", "finished"}, macro : Macros, key : Keys,
        completed : BOOLEAN, confirmed : BOOLEAN, degraded : BOOLEAN,
        restarted : BOOLEAN]
Goroutine == [pc : {"none", "step", "send", "await", "persist", "skip", "finish"},
              at : 1..MaxSteps + 1,
              reply : {"none", "notSent", "error", "ok"},
              outcome : Terminal \cup {"none"},
              completed : BOOLEAN, confirmed : BOOLEAN, degraded : BOOLEAN]

AnyMacro == CHOOSE m \in Macros : TRUE
AnyKey == CHOOSE k \in Keys : TRUE
NoRun == [state |-> "absent", macro |-> AnyMacro, key |-> AnyKey,
          completed |-> FALSE, confirmed |-> FALSE, degraded |-> FALSE,
          restarted |-> FALSE]
NoGoroutine == [pc |-> "none", at |-> 1, reply |-> "none", outcome |-> "none",
                completed |-> TRUE, confirmed |-> TRUE, degraded |-> FALSE]
NoCall == [pc |-> "idle", macro |-> AnyMacro, key |-> AnyKey]

TypeOK ==
  /\ process \in {"up", "down", "sweeping", "reconciling"}
  /\ submitter \in [Submitters -> [pc : {"idle", "create", "degradedCreate"},
                                   macro : Macros, key : Keys]]
  /\ runs \in [RunIds -> Run]
  /\ steps \in [StepKeys -> Terminal \cup {"pending"}]
  /\ exec \in [RunIds -> Goroutine]
  /\ journal \in [StepKeys -> {"absent", "open", "confirmed", "unconfirmed"}]
  /\ dispatchAudit \subseteq StepKeys
  /\ sent \in [StepKeys -> Nat]
  /\ toReconcile \subseteq RunIds
  /\ lostSteps \subseteq StepKeys /\ lostCommands \subseteq StepKeys
  /\ lostRuns \subseteq RunIds
  /\ crashes \in 0..MaxCrashes
  /\ faults \in 0..MaxWriteFaults

Init ==
  /\ process = "up"
  /\ submitter = [c \in Submitters |-> NoCall]
  /\ runs = [r \in RunIds |-> NoRun]
  /\ steps = [k \in StepKeys |-> "pending"]
  /\ exec = [r \in RunIds |-> NoGoroutine]
  /\ journal = [k \in StepKeys |-> "absent"]
  /\ dispatchAudit = {}
  /\ sent = [k \in StepKeys |-> 0]
  /\ toReconcile = {}
  /\ lostSteps = {} /\ lostCommands = {}
  /\ lostRuns = {}
  /\ crashes = 0
  /\ faults = 0

Length(r) == Len(Script[runs[r].macro])
Running(r) == runs[r].state = "running"
Fault == faults < MaxWriteFaults /\ faults' = faults + 1

-----------------------------------------------------------------------------
(***************************************************************************)
(* SubmitRun.                                                              *)
(***************************************************************************)

Call(c, pc, m, k) == submitter' = [submitter EXCEPT ![c] = [pc |-> pc, macro |-> m, key |-> k]]
Reply(c) == submitter' = [submitter EXCEPT ![c] = NoCall]

\* The macro and its actions are resolved, at whatever revision is current.
Submit(c) ==
  /\ process = "up"
  /\ submitter[c].pc = "idle"
  /\ \E m \in Macros, k \in Keys : Call(c, "create", m, k)
  /\ UNCHANGED <<process, tableVars, exec, sent, toReconcile, crashes, faults>>

\* createMacroRun: the idempotency key is looked up first, then the overlap
\* guard; both tables are filled in one transaction, and the goroutine starts.
KeyIsTaken(k) == \E r \in RunIds : runs[r].state # "absent" /\ runs[r].key = k
\* Mutation of InFlight: the overlap guard compares revisions, not macros.
InFlightRevision(m) == \E r \in RunIds : Running(r) /\ runs[r].macro = m
InFlight(m) ==
  \E r \in RunIds : Running(r) /\ Object[runs[r].macro] = Object[m]

Create(m, k, isDegraded) ==
  /\ ~KeyIsTaken(k)
  /\ ~InFlight(m)
  /\ \E r \in RunIds :
       /\ runs[r].state = "absent"
       /\ runs' = [runs EXCEPT ![r] = [NoRun EXCEPT !.state = "running", !.macro = m,
                                                   !.key = k, !.degraded = isDegraded]]
       /\ exec' = [exec EXCEPT ![r] = [NoGoroutine EXCEPT !.pc = "step",
                                                         !.degraded = isDegraded]]

\* conflictResult: a replay of the key's run, or a refusal; nothing is created.
Conflict(m, k) == KeyIsTaken(k) \/ InFlight(m)

CreateRun(c) ==
  LET m == submitter[c].macro
      k == submitter[c].key
  IN /\ process = "up"
     /\ submitter[c].pc = "create"
     /\ \/ Conflict(m, k) /\ Reply(c) /\ UNCHANGED <<runs, exec>>
        \/ Create(m, k, FALSE) /\ Reply(c)
        \/ \* the audit entry cannot be written and the run is rolled back
           ~Conflict(m, k) /\ Call(c, "degradedCreate", m, k) /\ UNCHANGED <<runs, exec>>
     /\ UNCHANGED <<process, steps, journal, dispatchAudit, lostWrites, lostRuns,
                    sent, toReconcile, crashes, faults>>

\* The plain CreateMacroRun that follows an audit failure, conflicts included.
CreateDegradedRun(c) ==
  LET m == submitter[c].macro
      k == submitter[c].key
  IN /\ process = "up"
     /\ submitter[c].pc = "degradedCreate"
     /\ \/ Conflict(m, k) /\ UNCHANGED <<runs, exec>>
        \/ Create(m, k, TRUE)
     /\ Reply(c)
     /\ UNCHANGED <<process, steps, journal, dispatchAudit, lostWrites, lostRuns,
                    sent, toReconcile, crashes, faults>>

\* The macro does not resolve, or a write fails otherwise: no run.
Withdraw(c) ==
  /\ submitter[c].pc \in {"create", "degradedCreate"}
  /\ Reply(c)
  /\ UNCHANGED <<process, tableVars, exec, sent, toReconcile, crashes, faults>>

-----------------------------------------------------------------------------
(***************************************************************************)
(* executeRun: one step at a time, on a goroutine nothing cancels.         *)
(***************************************************************************)

CurrentKey(r) == <<r, exec[r].at>>
CurrentStep(r) == Script[runs[r].macro][exec[r].at]
At(r, pc) == process = "up" /\ exec[r].pc = pc
Continue(r, g) == exec' = [exec EXCEPT ![r] = g]

\* An audit entry that cannot be written degrades attribution, never more.
MayDegrade(g) == {g, [g EXCEPT !.degraded = TRUE]}

\* The step's durable trace before it is sent: a commands row for an FPP step
\* (FppCommand), a dispatch audit entry for an MQTT or Resolume step, nothing
\* this executor reads back for an audio step.  Any of them may be refused here.
RecordStep(r) ==
  LET k == CurrentKey(r)
      sending == [exec[r] EXCEPT !.pc = "send"]
  IN /\ At(r, "step")
     /\ \/ /\ Continue(r, [exec[r] EXCEPT !.pc = "persist", !.outcome = "failed"])
           /\ UNCHANGED <<journal, dispatchAudit, faults>>
        \/ /\ CurrentStep(r).integration = "fpp"
           /\ journal' = [journal EXCEPT ![k] = "open"]
           /\ \E g \in MayDegrade(sending) : Continue(r, g)
           /\ UNCHANGED <<dispatchAudit, faults>>
        \/ \* the row is inserted, then the pruning that insert triggers fails
           /\ CurrentStep(r).integration = "fpp"
           /\ Fault
           /\ journal' = [journal EXCEPT ![k] = "open"]
           /\ Continue(r, [exec[r] EXCEPT !.pc = "persist", !.outcome = "failed"])
           /\ UNCHANGED dispatchAudit
        \/ /\ CurrentStep(r).integration \in {"mqtt", "resolume"}
           /\ Continue(r, sending)
           /\ dispatchAudit' = dispatchAudit \cup {k}
           /\ UNCHANGED <<journal, faults>>
        \/ /\ CurrentStep(r).integration \in {"mqtt", "resolume"}
           /\ Continue(r, [sending EXCEPT !.degraded = TRUE])
           /\ UNCHANGED <<journal, dispatchAudit, faults>>
        \/ /\ CurrentStep(r).integration = "audio"
           /\ \E g \in MayDegrade(sending) : Continue(r, g)
           /\ UNCHANGED <<journal, dispatchAudit, faults>>
     /\ UNCHANGED <<process, submitter, runs, steps, lostWrites, lostRuns, sent,
                    toReconcile, crashes>>

\* The command leaves the coordinator, unless there is no client or connection.
SendStep(r) ==
  /\ At(r, "send")
  /\ \E reply \in {"notSent", "error", "ok"} :
       /\ Continue(r, [exec[r] EXCEPT !.pc = "await", !.reply = reply])
       /\ sent' = IF reply = "notSent" THEN sent
                                       ELSE [sent EXCEPT ![CurrentKey(r)] = @ + 1]
  /\ UNCHANGED <<process, submitter, tableVars, toReconcile, crashes, faults>>

\* What the wait for evidence or for a response may return.
Answers(integration) ==
  CASE integration = "fpp" -> {"confirmed", "unconfirmed"}
    [] integration = "audio" -> {"confirmed", "unconfirmable", "failed"}
    [] OTHER -> {"confirmed", "unconfirmed", "unconfirmable", "failed"}
Results(r) ==
  IF exec[r].reply = "ok" THEN Answers(CurrentStep(r).integration) ELSE {"failed"}

\* An FPP command is settled in the journal first; a failed request is
\* unconfirmed there and failed here.
AwaitStep(r) ==
  LET k == CurrentKey(r)
  IN /\ At(r, "await")
     /\ \E outcome \in Results(r) :
          /\ \E g \in MayDegrade([exec[r] EXCEPT !.pc = "persist", !.reply = "none",
                                                 !.outcome = outcome]) : Continue(r, g)
          /\ IF CurrentStep(r).integration = "fpp"
               THEN \/ /\ journal' = [journal EXCEPT ![k] =
                            IF outcome = "confirmed" THEN "confirmed" ELSE "unconfirmed"]
                       /\ UNCHANGED <<lostCommands, faults>>
                    \/ /\ Fault
                       /\ lostCommands' = lostCommands \cup {k}
                       /\ UNCHANGED journal
               ELSE UNCHANGED <<journal, lostCommands, faults>>
     /\ UNCHANGED <<process, submitter, runs, steps, dispatchAudit, lostSteps, lostRuns,
                    sent, toReconcile, crashes>>

\* Mutation of Aborts: one policy for both axes.
AbortsOnFailureOnly(step, outcome) ==
  outcome \in {"failed", "unconfirmed"} /\ step.onFailure = "abort"
\* The two policy axes.
Aborts(step, outcome) ==
  \/ outcome = "unconfirmed" /\ step.onUnconfirmed = "abort"
  \/ outcome = "failed" /\ step.onFailure = "abort"
\* Mutation of Completes: completed means only that the run did not stop.
CompletesUnlessAborted(step, outcome) == ~Aborts(step, outcome)
Completes(step, outcome) == outcome # "failed" /\ ~Aborts(step, outcome)

WriteStep(k, outcome) ==
  \/ /\ steps' = [steps EXCEPT ![k] = outcome]
     /\ UNCHANGED <<lostSteps, faults>>
  \/ /\ Fault
     /\ lostSteps' = lostSteps \cup {k}
     /\ UNCHANGED steps

\* persistStepOutcome, the attribution flags, then the policy decides whether
\* to go on, to skip the rest, or to finish.
PersistStep(r) ==
  LET g == exec[r]
      step == CurrentStep(r)
      next == IF Aborts(step, g.outcome) THEN "skip" ELSE "step"
  IN /\ At(r, "persist")
     /\ WriteStep(CurrentKey(r), g.outcome)
     /\ runs' = [runs EXCEPT ![r].degraded = @ \/ g.degraded]
     /\ Continue(r, [g EXCEPT
          !.pc = IF g.at = Length(r) THEN "finish" ELSE next,
          !.at = g.at + 1,
          !.outcome = "none",
          !.completed = @ /\ Completes(step, g.outcome),
          !.confirmed = @ /\ g.outcome = "confirmed"])
     /\ UNCHANGED <<process, submitter, journal, dispatchAudit, lostCommands,
                    lostRuns, sent, toReconcile, crashes>>

\* skipRemaining, one row at a time.
SkipStep(r) ==
  /\ At(r, "skip")
  /\ WriteStep(CurrentKey(r), "skipped")
  /\ Continue(r, [exec[r] EXCEPT !.pc = IF exec[r].at = Length(r) THEN "finish" ELSE "skip",
                                 !.at = @ + 1])
  /\ UNCHANGED <<process, submitter, runs, journal, dispatchAudit, lostCommands,
                 lostRuns, sent, toReconcile, crashes>>

FinishRow(r, completed, confirmed, isDegraded, restarted) ==
  \/ /\ runs' = [runs EXCEPT ![r] = [@ EXCEPT !.state = "finished",
                   !.completed = completed, !.confirmed = confirmed,
                   !.degraded = isDegraded, !.restarted = restarted]]
     /\ UNCHANGED <<lostRuns, faults>>
  \/ /\ Fault
     /\ lostRuns' = lostRuns \cup {r}
     /\ UNCHANGED runs

\* FinishMacroRun; when it fails the row stays "running" with nobody behind it.
FinishRun(r) ==
  LET g == exec[r]
  IN /\ At(r, "finish")
     /\ FinishRow(r, g.completed, g.confirmed, g.degraded, FALSE)
     /\ Continue(r, NoGoroutine)
     /\ UNCHANGED <<process, submitter, steps, journal, dispatchAudit, lostWrites,
                    sent, toReconcile, crashes>>

-----------------------------------------------------------------------------
(***************************************************************************)
(* Crash, and the two startup sweeps that precede listening.               *)
(***************************************************************************)

Crash ==
  /\ process # "down"
  /\ crashes < MaxCrashes
  /\ crashes' = crashes + 1
  /\ process' = "down"
  /\ submitter' = [c \in Submitters |-> NoCall]
  /\ exec' = [r \in RunIds |-> NoGoroutine]
  /\ toReconcile' = {} /\ lostRuns' = {}
  /\ UNCHANGED <<runs, steps, journal, dispatchAudit, lostWrites, sent, faults>>

Restart ==
  /\ process = "down"
  /\ process' = "sweeping"
  /\ UNCHANGED <<submitter, tableVars, exec, sent, toReconcile, crashes, faults>>

\* ReconcileStrandedFPPCommands settles the open rows, as FppCommand has it in
\* detail: a row is confirmed only on evidence since it was sent.
\* Mutation of Verdicts: FPP's own activity confirms a command never sent.
VerdictsOnAnyRow(k) == {"confirmed", "unconfirmed"}
Verdicts(k) == IF sent[k] > 0 THEN {"confirmed", "unconfirmed"} ELSE {"unconfirmed"}
OpenCommands == {k \in StepKeys : journal[k] = "open"}
SweepCommand(k) ==
  /\ process = "sweeping"
  /\ k \in OpenCommands
  /\ \E outcome \in Verdicts(k) : journal' = [journal EXCEPT ![k] = outcome]
  /\ UNCHANGED <<process, submitter, runs, steps, exec, dispatchAudit, sent,
                 toReconcile, lostWrites, lostRuns, crashes, faults>>

Pending(r) == {i \in 1..Length(r) : steps[<<r, i>>] = "pending"}

\* Mutation of Stranded: only runs with a step left to resolve.
StrandedWithPendingSteps == {r \in RunIds : Running(r) /\ Pending(r) # {}}
\* ListRunningMacroRuns.
Stranded == {r \in RunIds : Running(r)}

\* Reconcile starts once that sweep has returned, which it may do with rows it
\* could not write still open.  When its own scan fails it handles no run.
ListRuns ==
  /\ process = "sweeping"
  /\ \/ /\ OpenCommands = {}
        /\ toReconcile' = Stranded
        /\ UNCHANGED <<lostRuns, faults>>
     \/ /\ OpenCommands # {}
        /\ Fault
        /\ toReconcile' = Stranded
        /\ UNCHANGED lostRuns
     \/ /\ OpenCommands = {}
        /\ Fault
        /\ lostRuns' = lostRuns \cup Stranded
        /\ UNCHANGED toReconcile
  /\ process' = "reconciling"
  /\ UNCHANGED <<submitter, runs, steps, exec, journal, dispatchAudit, lostWrites, sent,
                 crashes>>

\* Mutation of StrandedOutcome: whatever is pending was never attempted.
StrandedIsSkipped(r, i) == "skipped"
\* resolveStrandedStep: what the durable trace of a step without an outcome says.
StrandedOutcome(r, i) ==
  LET k == <<r, i>>
      integration == Script[runs[r].macro][i].integration
  IN CASE integration = "fpp" ->
            CASE journal[k] = "absent" -> "skipped"
              [] journal[k] = "open" -> "unconfirmed"
              [] OTHER -> journal[k]
       [] integration \in {"mqtt", "resolume"} ->
            IF k \in dispatchAudit THEN "unconfirmed" ELSE "skipped"
       [] OTHER -> "failed"

\* The first pending step of a listed run is written; a write that fails leaves
\* the whole run "running" for the next restart.
ReconcileStep(r) ==
  /\ process = "reconciling"
  /\ r \in toReconcile
  /\ \E i \in Pending(r) :
       /\ \A j \in Pending(r) : i <= j
       /\ \/ /\ steps' = [steps EXCEPT ![<<r, i>>] = StrandedOutcome(r, i)]
             /\ UNCHANGED <<toReconcile, lostRuns, faults>>
          \/ /\ Fault
             /\ lostRuns' = lostRuns \cup {r}
             /\ toReconcile' = toReconcile \ {r}
             /\ UNCHANGED steps
  /\ UNCHANGED <<process, submitter, runs, exec, journal, dispatchAudit, sent,
                 lostWrites, crashes>>

RestartedConfirmed(r) == \A i \in 1..Length(r) : steps[<<r, i>>] = "confirmed"

\* The run is finished, never completed, confirmed only if every step is.
ReconcileRun(r) ==
  /\ process = "reconciling"
  /\ r \in toReconcile
  /\ Pending(r) = {}
  /\ FinishRow(r, FALSE, RestartedConfirmed(r), runs[r].degraded, TRUE)
  /\ toReconcile' = toReconcile \ {r}
  /\ UNCHANGED <<process, submitter, steps, exec, journal, dispatchAudit, sent,
                 lostWrites, crashes>>

Listen ==
  /\ process = "reconciling"
  /\ toReconcile = {}
  /\ process' = "up"
  /\ UNCHANGED <<submitter, tableVars, exec, sent, toReconcile, crashes, faults>>

-----------------------------------------------------------------------------
Execute(r) ==
  \/ RecordStep(r)
  \/ SendStep(r)
  \/ AwaitStep(r)
  \/ PersistStep(r)
  \/ SkipStep(r)
  \/ FinishRun(r)

Startup ==
  \/ Restart
  \/ \E k \in StepKeys : SweepCommand(k)
  \/ ListRuns
  \/ \E r \in RunIds : ReconcileStep(r) \/ ReconcileRun(r)
  \/ Listen

Next ==
  \/ \E c \in Submitters :
       Submit(c) \/ CreateRun(c) \/ CreateDegradedRun(c) \/ Withdraw(c)
  \/ \E r \in RunIds : Execute(r)
  \/ Crash
  \/ Startup

\* Every wait of a step has a deadline, the goroutine cannot be cancelled, and a
\* supervisor starts the process again.  Submissions are never owed.
Fairness == WF_vars(Startup) /\ \A r \in RunIds : WF_vars(Execute(r))

Spec == Init /\ [][Next]_vars
FairSpec == Spec /\ Fairness

-----------------------------------------------------------------------------
(***************************************************************************)
(* Properties.                                                             *)
(***************************************************************************)

\* Two runs of one macro never overlap, and one idempotency key never starts
\* two runs, on the audited and on the degraded path alike (createMacroRun).
RunsDoNotCollide ==
  \A r, s \in RunIds :
    /\ Running(r) /\ Running(s) /\ Object[runs[r].macro] = Object[runs[s].macro] => r = s
    /\ runs[r].state # "absent" /\ runs[s].state # "absent" /\ runs[r].key = runs[s].key
         => r = s

\* A step goes out only after every earlier one has its outcome on record, or lost
\* the write of it, and never past a step whose outcome and policy abort the run
\* (executeRun).
StepsRunInOrder ==
  \A r \in RunIds, j \in Index :
    sent[<<r, j>>] > 0 =>
      \A i \in 1..(j - 1) :
        <<r, i>> \in lostSteps \/
          /\ steps[<<r, i>>] # "pending"
          /\ LET step == Script[runs[r].macro][i]
             IN ~ \/ steps[<<r, i>>] = "failed" /\ step.onFailure = "abort"
                  \/ steps[<<r, i>>] = "unconfirmed" /\ step.onUnconfirmed = "abort"

\* What a finished run says of itself is what its steps say: completed means
\* nothing failed or was skipped, confirmed means every step was, and a run a
\* restart interrupted is never completed (ADR-031 decisions 3 and 4).  A step
\* whose outcome could not be written says nothing, and stays pending or is
\* resolved by a restart that then finishes the run by what the rows say.
FinishedRunTellsTheTruth ==
  \A r \in RunIds :
    runs[r].state = "finished" =>
      LET Silent(k) == k \in lostSteps /\ steps[k] = "pending" /\ ~runs[r].restarted
          recorded == {steps[k] : k \in {j \in {r} \X (1..Length(r)) : ~Silent(j)}}
      IN /\ runs[r].completed => recorded \cap {"failed", "skipped", "pending"} = {}
         /\ runs[r].confirmed => recorded \subseteq {"confirmed"}
         /\ runs[r].restarted => ~runs[r].completed

\* The step row of an FPP step and its commands row tell the same story, also
\* when a crash separated the two writes, or one of them failed: "skipped" only if
\* nothing was ever sent, "confirmed" only if the command was, or could not be
\* settled in the journal (resolveStrandedFPPStep).
FppStepAgreesWithJournal ==
  \A r \in RunIds : runs[r].state # "absent" =>
    \A i \in 1..Length(r) :
      LET k == <<r, i>>
      IN Script[runs[r].macro][i].integration = "fpp" =>
           /\ steps[k] = "skipped" => journal[k] = "absent" /\ sent[k] = 0
           /\ steps[k] = "confirmed" => journal[k] = "confirmed" \/ k \in lostCommands

\* Every accepted run finishes, by its goroutine or by the next startup, unless a
\* write of this process's failed: the startup after that owes it an end again.
EveryRunFinishes ==
  \A r \in RunIds : Running(r) ~> (runs[r].state = "finished" \/ r \in lostRuns)

\* The commands of FPP steps keep the promise of CommandPromise.
Promise == INSTANCE CommandPromise
  WITH Keys <- StepKeys,
       attempts <- [k \in StepKeys |-> IF journal[k] = "absent" THEN 0 ELSE sent[k]]
FppStepsKeepPromise == Promise!Spec
=============================================================================
