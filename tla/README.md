# ShowMesh in TLA+

ShowMesh runs holiday light displays: a Go *coordinator* and an *agent* on every
node drive FPP players, Resolume, audio outputs and MQTT devices. FPP stays
authoritative for timing; the coordinator commands, records and observes. What
makes it hard is not computation but what it has to say about commands that
leave it: each at most once, written down before it leaves, and reported as
confirmed, unconfirmed or never sent, truthfully, across races, failed writes
and restarts; and about what stands while it acts: a configuration in force, a
surface that is black, a show held for the weather. The models here are about that,
on the coordinator and on the nodes.

Paths below are relative to `internal/coordinator/` unless they start with
`internal/`, `pkg/`, `cmd/` or `docs/`.

## What is here

| Module | Models | Checked by | Proved in |
|---|---|---|---|
| `CommandPromise` | the abstract promise about one outward command | refinement, in the runs of the next two | |
| `FppCommand` | `dispatchFPPCommand`, the commands table, the audit log, crashes, the startup sweep | `fpp_command` | `FppCommandProofs` |
| `MacroRun` | the macro executor: submission, execution, startup reconciliation | `macro_execution`, `macro_admission` | `MacroRunProofs` |
| `ResponseWaiter` | `BrokerManager.AwaitResponse`: request and reply over MQTT | `response_waiter` | `ResponseWaiterProofs` |
| `AgentCommand` | a node's `HandleMessage` and its idempotency cache | `agent_command` | `AgentCommandProofs` |
| `ConfigPush` | configuration pushed to a node and taken into force there, on top of `AgentCommand` | `config_push` | `ConfigPushProofs` |
| `PipelineSupervisor` | one surface's pipeline process on a node: start, stop, backoff, lockout | `pipeline_supervisor` | `PipelineSupervisorProofs` |
| `RenderSurface` | the render operations of a node and the two files they keep | `render_surface` | `RenderSurfaceProofs` |
| `WeatherState` | the coordinator's weather delay state as a value: the row and its keeper | in the runs of the next two | |
| `WeatherDelay` | the delay between the coordinator and the nodes: starts, resumes, adoption, republishing | `weather_delay`, `weather_uncancelled` | `WeatherProofs` |
| `WeatherControl` | the delay inside the coordinator: questions, requests, gates, the enforcer | `weather_control`, `weather_stale_answer` | `WeatherProofs` |

`MC<Module>.tla` instantiates a module for TLC and each `.cfg` is one run;
`PROJECT.json` lists the runs, what source lines every definition models, the
hazards of the code, the theorems, and for every property a *mutant*: a plausible
bug in one definition (`... ← ...` below) that makes TLC report that property.
The operators whose comment begins "Mutation of" exist for that and nothing in
`Next` uses them.

To reproduce: `tlc -workers 2 -config MCFppCommand.cfg MCFppCommand` and the same
for the others; `tlapm FppCommandProofs.tla` and the same for the other seven
proof modules (`MacroRunProofs` and `RenderSurfaceProofs` take a few minutes each, the
others less).

## Inventory of the system

For each part: its state, its operations, what it talks to, what is hard about
it, and what makes it correct.

### Acting components of the coordinator

**FPP command dispatch** (`api/fppcommand_*.go`). State: the `commands` table
(one row per idempotency key: state pending, dispatched or resolved,
`dispatched_at`, outcome and reason) and the audit log. Operations: a request
looks its key up, inserts row and audit entry in one transaction (or the row
alone, reported as degraded attribution, when the audit log fails), sends, records
`dispatched_at`, polls evidence until a deadline, settles, audits the outcome; at
startup `ReconcileStrandedFPPCommands` settles what a dead process left. Hard:
equal keys racing past the lookup, a crash between the send and its record,
writes that fail one by one, the sweep against live requests, FPP's own activity
passing for evidence. Correct when: at most one attempt per key, nothing sent
that is not on record, one settlement by one author, never confirmed unless
attempted, no row blank forever. **Modelled: `FppCommand`.**

**Macro executor** (`macro/`, `store/macro_runs.go`). State: `macro_runs` and
`macro_run_steps`, one goroutine per run. Operations: `SubmitRun` resolves and pins
a macro revision, `createMacroRun` decides idempotency and overlap in one
transaction, `executeRun` performs the steps in order under two policy axes
(`onFailure`, `onUnconfirmed`), `Reconcile` finishes at startup what was running.
A step goes through one of four dispatchers (FPP, MQTT, Resolume, audio). Hard: two
submissions at once, a crash between any two of the writes a step makes, deciding
afterwards from scattered traces what a step did. Correct when: runs of one macro
never overlap, no step is sent twice or out of order, the run's own `completed`
and `confirmed` follow from its steps, history is never rewritten.
**Modelled: `MacroRun`.**

**Broker response waiters** (`broker/`). State: the waiters registered per response
topic, a lock per topic, a bounded buffer per waiter, the MQTT session.
Operations: `AwaitResponse` registers, subscribes, publishes, waits for a
matching live reply, releases; the receiving goroutine fans messages out;
`OnConnectionUp` subscribes again what is live. Hard: the last waiter's UNSUBSCRIBE
against a new waiter's SUBSCRIBE, retained replays, a reply that comes before the
publish, a full buffer, reconnects, roll back under a held lock. Correct when: a
waiting call is subscribed, only a live reply to its own publish is returned and
none is lost, nothing is held when nobody waits, every call returns.
**Modelled: `ResponseWaiter`** (one topic).

**Action invocations and Resolume actions** (`api/actioninvoke*.go`,
`api/resolumeaction*.go`). The same journal for two more command families; action
invocations also have a periodic sweep for rows older than a minimum age. Hard:
that age against a slow live request. Not modelled yet.

**Cue activation** (`api/cueactivation*.go`, `cueactivate/`,
`internal/agent/cueactivationops.go`). State: fences per node, the schedule of
upcoming activations, nudges. A tick reads gates (weather delay, stop hold),
decides, signs and dispatches activations that nodes execute at an instant. Hard:
gates read at the start of a tick and used after it, coalesced nudges, late
results. Planned.

**Weather delay** (`api/weatherdelay*.go`, `weatherdelay.go`,
`store/weatherdelay.go`, `weathertrigger/`, `internal/agent/weatherdelay*.go`). State:
one durable row on the coordinator and a keeper in front of it, which holds an active
state the store did not take; one pending question; a gate in every player's plugin; a
record on every node that outlives the connection and the process. Operations: a start
(a delay, or the night cancelled) or a resume reads the state, writes the next
revision, publishes it retained, sends a command to every node and writes every gate;
a warning asks a question, which an answer, its deadline or a resume settles; the
enforcer closes gates it finds open and stops playlists FPP starts on its own; a loop
republishes; a node may be started without the coordinator, which then adopts what the
node reports. Hard: requests side by side on one row, messages and commands late,
twice or never, a node that missed the resume, a gate written late, a refused
write. Correct when: coordinator and nodes agree in the end, what was resumed is not
started again, one answer settles one question, and a gate is what the state says.
**Modelled: `WeatherDelay`, `WeatherControl`** (on `WeatherState`); not the stops.

**Fallback hold** (`fallbackhold/`, `fallbackreconcile/`, `fallbackcompile/`, the
FPP plugin in `cmd/showmesh-fpp-plugin`). Decides whether the plugin, not the
coordinator, executes a show after an outage. Hard: reports of several boots of the
plugin out of order, a clear against a report, the coordinator's own restart.
Planned.

**Night session** (`api/night*.go`), **night background audio**
(`api/nightbackgroundaudio*.go`, `api/nightbed*.go`), **emergency stop**
(`api/emergencystop*.go`). The operator's evening as a state machine, its music
bed, and the fan-out of stop sequences. Large; they act through the components
above, so those come first.

### Components on the nodes

**Agent command handling** (`internal/agent/command.go`, `mqtt.go`). State: the
results kept per idempotency key (a FIFO of 512), the keys being executed, all in
memory. Operations: every PUBLISH on the node's cmd topic starts a goroutine that
checks the command, claims its key or waits for the goroutine that has it, runs the
operation, completes (or releases) the claim and publishes the result. Hard:
redelivery during the execution and after it, eviction, a failure that is not to be
cached, restart, a deadline that passes in between. Correct when: one execution of a
key at a time, none while its result is recent, every delivery answered with a
finished result. **Modelled: `AgentCommand`.**

**Configuration push** (`audioconfigpush/`, `fppconnectpush/`, `clockconfigpush/`;
`internal/agent/fppconnectops.go`, `audionodeops.go`, `audioengine.go`,
`audiorestoreretry.go`). State: the current revision on the coordinator; on the node
the FPP Connect state on disk and in memory, the audio binding, the playback engine
built from it, the retry driver. Operations: a write, or a hello of the node, starts
a goroutine that reads the current revision and publishes it under a key the
revision determines; the node's operation takes it into force. Hard: pushes that
overtake each other, a result replayed from the cache where the state has moved on,
an engine rebuilt outside of the lock that ordered the bindings, a device that comes
and goes. Correct when: what the node has in force is what was last written, once
a push of it was confirmed. **Modelled: `ConfigPush`** (FPP Connect and audio node).

**Pipeline supervisor** (`internal/agent/pipeline/supervisor.go`, `process.go`). State,
per surface: the child process, the generation of the attempt, a count of failures,
a backoff timer, a queue of commands, the reported snapshot. Operations: apply, clear,
restart, the child's PLAYING marker and exit, the timer, shutdown; an operation
polls the snapshot until it is confirmed. Hard: watchers of a child that has been
replaced, timer against command, a full queue, an attempt's end against the next
start. Correct when: one child at most, running only on the word of the current child,
an end to restarting, no command lost. **Modelled: `PipelineSupervisor`.**

**Render operations** (`internal/agent/renderops.go`, `cueactivationrender.go`,
`bootresume.go`, `pipeline/assignment.go`, `pipeline/holdblack.go`). State: two files
(what each surface is to draw, which are held black), the frame writers that draw, the
flags in memory, step times reserved for writers about to start. Operations: apply,
clear, blackout, the activation of a cue on several surfaces, each in a goroutine of
its own, and the boot's resume. Hard: no lock spans an operation, the files are read
and written whole, any step may fail. Correct when: the file names what is drawn, a
blackout holds, no reservation is left behind. **Modelled: `RenderSurface`.**

**Audio** (`internal/agent/audio/`): sessions, mixing, restore, timelines. **Clock**
(`internal/agent/clock/`): discipline and measurement. **FPP Connect and
MultiSync** (`internal/agent/fppconnect*.go`, `multisync*.go`, `pkg/multisync`).

### Supporting parts

The store (SQLite), identity and sessions, enrollment and signing keys, collectors
and inventory, FPP reconciliation, night state push and asset sync, the event
stream, wire and data packages, command line tools, previews, and the UI.
`PROJECT.json` gives each one's status and reason. Most are read paths, I/O or
cryptography; they show up in the models as nondeterministic answers (evidence, a
failed write, a rejected request).

### How they interact

Requests reach `dispatchFPPCommand` from the HTTP API and, through the
`FPPCommandDispatcher` seam, from macro steps, which derive a key from run and
index (`stepIdempotencyKey`). Both write the same journal, and the startup sweep
settles rows of both. `coordinator.go` fixes the startup order: sweep the commands
(1192), reconcile the macro runs (1208), and only then listen (1569). The macro
reconciliation reads what the sweep has written. MQTT steps wait for their reply
with `AwaitResponse`. `CommandPromise` is the contract at the first of these
interfaces: `FppCommand` implements it, and `MacroRun` keeps it for the commands
of its FPP steps. Everything the coordinator asks of a node, configuration included,
arrives at the node's `HandleMessage`: `ConfigPush` instantiates `AgentCommand`, adds
the operations' own steps, and is checked to do to the handling of commands only
what any operation does (`HandlesCommands`). `RenderSurface` and `PipelineSupervisor` are
the two layers of a node's rendering: what the operations decide and keep, and the
processes they command; the first takes every end of the second as possible. `WeatherDelay`
and `WeatherControl` are two views of one handler, towards the nodes and towards
questions and players, over the same row: both extend `WeatherState`, which declares
that row, the requests under way and their bound.

## The modules

### `CommandPromise`

For each key a journal entry (absent, open, confirmed, unconfirmed) and a number of
attempts. `Record` before `Attempt`, `Attempt` once and on an open entry only,
`Settle` once, and confirmed only after an attempt.

### `FppCommand`

One action per step of `dispatchFPPCommand`, interleaved for any number of
requests: `Receive`, `LookUp`, `AuditedInsert`, `DegradedInsert`, `Dispatch`,
`RecordDispatched`, `Settle`, `AuditOutcome`, and `Withdraw` for every early
return before there is a row. The lookup and the insert are separate actions, so
requests do race past the lookup, and the UNIQUE key of the table decides
(`Replay` in the inserts). A transaction is one action; it either happens or
leaves no trace. Every write of the commands table may fail (`WriteFault`), as may
every append to the audit log, and the code goes on as it does.

`Crash` loses the goroutines and keeps the tables. `Restart`, `SweepRow` per row
and `Listen` are the startup; the sweep may crash half way, or fail to list.
A send that fails counts as an attempt as well, since FPP may have acted on it.

`lostRows` are the rows that a failed write of this process left open with no goroutine
behind them. The code has no retry for them short of a restart, so the properties that
speak of blank rows except exactly these, and only until the process ends: `Crash` empties
the set, and the sweep of the next start owes each of them an outcome. `lostOutcomes` is
history: keys whose request audited an outcome that it could not write, which the sweep
then audits a second time.

Abstracted: validation and `PreDispatchCheck` (both are early returns, in
`Withdraw`), the evidence predicates (any verdict they may give), the text of
reasons (five classes). Left out: retention.

### `MacroRun`

`Submit`, `CreateRun`, `CreateDegradedRun` and `Withdraw` are a call of
`SubmitRun`; the check for a taken key and the overlap guard are inside the
transaction, as in `createMacroRun`. `RecordStep`, `SendStep`, `AwaitStep` and
`PersistStep` are a turn of `executeRun`'s loop, `SkipStep` one row of
`skipRemaining`, `FinishRun` its end. A macro in the model is one pinned revision,
and `Object` says which macro it revises, because the overlap guard compares
macros and not revisions.

Startup is two phases, as in `coordinator.go`: `SweepCommand` settles open rows of
FPP steps, then `ListRuns`, `ReconcileStep` and `ReconcileRun` finish the runs.
What a stranded step becomes (`StrandedOutcome`) depends on the trace its
integration leaves: a commands row, a dispatch audit entry, or none.

Of an FPP step's command only what the executor reads back is kept (`journal`),
with the steps of `dispatchFPPCommand` joined in three: row, send, settle.
`lostSteps` and `lostCommands` are history: the steps whose outcome could not be
written, and those whose command could not be settled in the journal. `lostRuns` are the
runs that a failed write of this process left "running"; `Crash` empties it, for the next
startup is to finish them.

### `ResponseWaiter`

One topic, because topics share nothing. `Register` takes the topic's lock and
enters the routing table, `Subscribe` or `SubscribeFails` (with `RollBack`, under
the same lock) release it; `Stamp`, `Publish`, `Receive` or `GiveUp` and `Release`
follow, and the last waiter to leave goes through `Relock`, `Recheck` and
`Unsubscribe`. `Arrive`, `TakeSnapshot` and `FanOut` are the receiving goroutine,
`Drop`, `Reconnect`, `ListTopics` and `Resubscribe` the connection, which does not
take the lock. Clocks are not modelled: a delivery is *fresh* for a call when it
was stamped at or after the call's publish, which is the only comparison the code
makes. The matcher is any choice of waiters.

`leftover` records that a subscription was knowingly left to the next reconnect: a
failed UNSUBSCRIBE, or a `Resubscribe` that a release overtook, which the code's
comments accept. `unserved` records a `Resubscribe` that failed; the code logs
it and waits for the next reconnect.

### `AgentCommand`

One delivery per goroutine. `Receive` decides what needs no claim; `Replay`, `Await`
and `Claim` are the three ways out of `claimOrAwait`, each under its one lock; `Refuse`
and `Execute` follow the claim, `Finish` is the operation's return in any way it can
end. `Complete` and `Release` are what happens under the lock, `CloseDone` what follows
after it, so a new delivery can come in between and claim or replay the key while
the waiters are still asleep. `Restart` forgets everything.

A result is named by the delivery that produced it (`source[d] = e`: d answers with
what e produced), which is all the properties tell apart. `settled` is history: the
results given to the cache since the start. Left out: messages that cannot be
decoded, which are dropped without a trace, and the triggers sent to the reporters
after the answer. A command is one of a small set of kinds (a key, whether it is
addressed to this node, known, and has a deadline); two kinds may share a key.

### `ConfigPush`

`Agent == INSTANCE AgentCommand` with the pushes as commands and the revision as key.
`Write` makes a revision current; `Deliver` is the arrival of a push of any revision
that has once been current, because the goroutines that read and publish them
are not ordered, may repeat one, and may fail. For FPP Connect, one revision stands for
the several objects its state is read from; `Save`, `SaveFails`, `Apply` and
`ConfirmRanges` are the operation, which writes the disk, then memory, then reads the
channel ranges back (another revision may have the same ones). For audio,
`RefuseOlder`, `KeepSame` and `Accept` are `applyNode` under the binding's lock,
`RebuildAccepted` is the rebuild under the rebuilder's, `ConfirmRevision` the read
back. `EngineFails`, and the retry driver's `ReadBinding`, `RetryRebuild` and `AllIsWell`,
go on beside them. `Restart` reloads FPP Connect from disk and forgets the audio
binding, which has to be pushed again.

Left out: the driver's clock (an attempt may come at any time) and the sessions
waiting for their restore, which can keep the driver at work while the engine is
usable; `rebuildIfUnavailable` then does nothing.

### `PipelineSupervisor`

One surface. `TakeCommand`, `DoApply`, `DoClear`, `DoRestart`, `HandleExit` and
`TimerFires` are the branches of `runner.loop`'s select, with `StopCurrent` waiting for
the killed child's exit in between, and `CannotStart`, `ReportStarting`, `Launch` and
`LaunchFails` the ends and halves of `attemptStart`. `ReadMarker`, `CompareGeneration`,
`SetRunning` and `Exit` are the goroutines that watch a child: the marker's callback
compares the generation under one hold of the runner's lock and sets the state under
another, and the exit is delivered after both scanners have ended. An attempt is named
by its generation. An operation is `Begin` (the baseline generation), `Send` and `Poll`
or `GiveUp`; `Followed` bounds whose polling is followed. The boot comes first:
`ResumeAssignment`, perhaps `MarkResumeFailed`, `BootDone`.

Abstracted: durations (a timer may fire at any time, a deadline pass at any time) and
command lines. `tries` is history: the attempts since the last command or the last
attempt that played.

### `RenderSurface`

An operation is a record: its job, the step it stands at, the surface it works on, the
surfaces it has yet to go through, and what it has read. `FirstStep`, `StepAfter` and
`LastStep` say where a job goes next; a cue's activation is three jobs, to prepare its
surfaces, to swap those validated, and to hold the others black. Operations interleave
between any two steps, and a failing one gives its surface up (`GiveUpSurface`). A step
is a read or a write of one of the files or one critical section of
`renderOperations.mu`: reading a file and writing it back are two steps, as they are
in `Upsert`, `Remove` and `Set`. A content is a sequence with a step time. `Conflict`
is the rule that all surfaces draw at one rate, `OutOfStep` what a cue holds black for
it. `Restart` keeps the files; `Resume` and `Discard` are the boot, which ends before
commands are taken.

History: `mixed` (surfaces on which two operations overlapped, after which the code
promises nothing about them), `erased` and `unsaved` (surfaces whose entry in a file was
overwritten by a save for another surface), `blacked` (surfaces whose last operation is
a confirmed blackout). Left out: idle surfaces without a sequence, fades, queued next
sequences, the diagnostic surface, the default for a corrupt held-black file, the black
forced by a weather delay, the writer that a second replacement on the same surface
leaves running.

### `WeatherState`, `WeatherDelay`, `WeatherControl`

`WeatherState` is a value with operators: the stored row, which takes increasing
revisions only, and the keeper's `unsaved` state in front of it. It declares what the
two views share, the keeper and the requests under way; the names of `WeatherDelay`'s
specification (`DelayInit`, `DelayNext`, `DelaySpec`) differ from those of
`WeatherControl` so that one module can prove things about both. `since` counts the
resumes before a state began; no code reads it, it is what "began after the last
resume" means in the properties.

`WeatherDelay`: `StartDelay`, `ResumeDelay` and `Adopt` read the state, `WriteStart` and
`WriteResume` write the one they made of it, `PublishAndSend` publishes and dispatches;
calls run side by side and may each read before the other writes. `ReadToRepublish` and
`Republish` are the loop. A node takes state messages in order (`Deliver`), commands in
any order and perhaps never (`Execute`), pre-signed starts (`StartHere`), and reports in
its heartbeat; `Reconnect` loses what was queued and brings the retained message,
`RestartNode` falls back to what the node last saved, `RestartCoordinator` to the row.
Left out: reads of the store that fail, the alert, stops and gates, the night session.

`WeatherControl`: `Warning` and `Ask` raise a question, `Answer`, `Deadline` and `Resume`
find the pending one and `Claim` it, `Read` and `Write` change the state, `SetGate` writes
a player's gate under its lock; `Look`, `LookAgain` and `Close` are the enforcer's pass
over a player, the second look and the write being under the same lock. `Unsuppress` ends
the quiet period after a dismissal, `Save` is the republish loop's retry. Left out: the
nodes, Stop Now, the stops of playlists, power groups, failed reads, restarts.

## The runs

| Run | Instance | Distinct states |
|---|---|---|
| `fpp_command` | 2 requests, 1 key, 2 intents, 2 crashes, 1 failed write | 67 555 |
| `macro_execution` | 1 run of one of 3 scripts of 2 or 3 steps, 2 crashes, 1 failed write | 156 031 |
| `macro_admission` | 2 runs, 2 callers, 2 keys, 2 revisions of 1 macro, 1 crash, 1 failed write, symmetric in runs and callers | 766 483 |
| `response_waiter` | 2 waiters, buffer of 1, 2 messages, 1 connection loss | 120 965 |
| `agent_command` | 3 deliveries of any of 4 commands (two share a key, one for another node, one unknown), cache of 1, 1 deadline, 1 restart | 480 478 |
| `config_push` | 3 pushes, 3 audio revisions (one unbuildable), 1 FPP Connect state, cache of 1, 1 retry attempt, 1 restart, symmetric in deliveries | 423 975 |
| `pipeline_supervisor` | the boot's resume and 2 operations (one polled), queue of 1, lockout after 2 failures, 2 children ending by themselves | 122 028 |
| `render_surface` | 2 surfaces, 2 sequences of different rates, any state files, 2 commands at a time, 1 failed write or writer, 1 restart, symmetric in goroutines | 1 925 507 |
| `weather_delay` | 1 node, 2 calls side by side, 2 requests, 1 message on its way, 1 trouble (failed write or publication, restart, lost session) | 295 783 |
| `weather_control` | 1 player, 2 questions, 4 requests, 2 at a time, 1 failed gate write | 388 534 |

**Why the bounds are enough.** *Requests:* the races are between a winner and a
loser of one key; since a goroutine slot is used again after it answered, two slots
give any number of requests in sequence, two at a time. *Keys:* rows of different
keys do not touch each other in any action (and the theorems do not bound them).
*Crashes:* two let the first startup die half way and the second start from what it
left. *Failed writes:* one is enough to reach every branch that handles one; each is
counted in `lost...` and excepted per row, until the next start where one can make it
good, so a second adds nothing of another kind.
*Scripts:* the three use every integration, both values of both policies, and an
FPP step first, between and last. *Submitters:* two, for the overlap guard is a
relation between two runs; scripts have one step there because nothing in admission
depends on their length. *Waiters:* one leaves while the other arrives; buffer of 1
and 2 messages is the smallest instance where a delivery is pushed out (a run
with a buffer of 2 and 3 messages, 512 000 states, passed as well). *Deliveries:* three
are one that executes, one that waits or is answered from the cache, and one that
comes after an eviction, for which a cache of one result suffices (the theorems
bound neither). *Audio revisions:* an older, a newer, and one in between that no
engine can be built from, which leaves the older engine under the newer binding.
*Retry attempts:* the schedule's length (8) matters only by its end. *Operations on a
pipeline:* the boot's resume fills the queue of one, the first operation blocks on it
and the second on the first; every pair of kinds occurs in both orders, except two
clears; two ends of a child reach the lockout, and one end and a command reset the
count. *Render commands:* two in every pair of kinds, from files in any state, so what
came before them is covered without being run; a third would be a second pair. Two
surfaces are the smallest number on which a save for one overwrites the other.
*Weather requests:* a start and a resume, or two starts, side by side, and each can be
overtaken by the loop, a node's report or the single trouble; nodes do not depend
on each other, except through the one adoption at a time. *Questions:* four requests
are a question raised, two that race to settle it, and a fourth that raises or settles
another.

**What each property says.**

`fpp_command`
- `AttemptedAtMostOnce`: one attempt per key, whatever races and restarts (fails if the duplicate check looks at settled rows only).
- `AttemptIsAccountedFor`: an attempt has a row and an audit entry or a degraded report (fails if the fallback does not report).
- `OpenRowHasOneOwner`: while listening, an open row has exactly one live request, or was lost by a write of this process (fails if the listener does not wait for the sweep).
- `EveryCommandSettles`: every open row gets an outcome; one that a failed write lost gets it from the sweep of the next start (fails if the sweep overlooks pending rows).
- `ImplementsPromise`: refinement of `CommandPromise` (fails if the sweep evaluates evidence for a row that was never sent).

`macro_execution`
- `StepsRunInOrder`: no step goes out before its predecessors are on record or past one whose policy aborts (fails if the policy on unconfirmed steps is ignored).
- `FinishedRunTellsTheTruth`: `completed` and `confirmed` follow from the recorded steps; an interrupted run is never completed. Only a step that failed to be written and was never resolved is left out (fails if completed means only that the run did not stop).
- `FppStepAgreesWithJournal`: the step row and the commands row, two writes that a crash can separate and that can fail singly, never contradict each other, except for a command the executor could not settle (fails if a pending step counts as never attempted).
- `EveryRunFinishes`: by its goroutine or by a startup; a run that a failed write left running is owed an end again by the next one (fails if the reconciliation lists only runs with a step left to resolve).
- `FppStepsKeepPromise`: the commands of FPP steps keep `CommandPromise`.

`macro_admission`
- `RunsDoNotCollide`: at most one running run per macro and one run per key.

`response_waiter`
- `WaiterIsSubscribed`: another call's late UNSUBSCRIBE and a reconnect never leave a waiting call without a subscription.
- `ReplyIsLive`, `ReplyIsKept`: no stale reply is returned and no counting reply is lost to a burst.
- `NothingLeaks`, `EveryCallReturns`: nothing is held when nobody waits, and nobody waits forever for a lock.

`agent_command`
- `OneExecutionPerKey`: two deliveries never execute one key at a time (fails if claims are looked up by command instead of by key).
- `RecentKeyIsNotRepeated`: a key with a result among the latest `Capacity` is not executed again (fails if the cache keeps one less). This is what "executes exactly once" amounts to: a key does execute again after that many other results, after a failure that is not to be cached, and after a restart.
- `EveryDeliveryIsAnswered`: on every path, unless the agent restarts.

`config_push`
- `EngineFollowsBinding`: with no accepted binding on its way to the engine, the engine is the binding's; a late rebuild of an older one, by a delivery or by the retry driver, does not replace it (fails without the guard in `rebuildLocked`).
- `AudioConverges`: when a push of the current binding is answered as confirmed, the node holds it, whatever else is under way and whoever's result it was (fails if older revisions are accepted).
- `HandlesCommands`: refinement of `AgentCommand` (fails if a failed save returns without settling its claim).

`pipeline_supervisor`
- `ExecutedIsConfirmed`: an operation whose command has been executed, on a surface that does what was asked, finds its poll satisfied; the generation it read before its command is never too new, whatever was started in between (fails if a clear, which starts nothing, asks for a newer generation too).
- `RunningIsBacked`: a surface reads running on the word of the child the loop holds now, although that word is compared and recorded under two holds of the lock (fails if an exit is reported before the scanners have ended: the callback of a dead child then speaks last).
- `OneChild`: one child at a time, a timer only without a child, nothing left by a clear or a shutdown (fails if a command leaves the backoff timer armed).
- `RestartsAreBounded`: a pipeline that never plays is attempted `MaxFailures` times after a command (fails if the lockout comes one failure late).
- `CommandIsExecuted`: whoever blocks on the queue gets through, and the command is executed, unless the supervisor shuts down (fails if the child is asked to end instead of killed: the loop then waits for it).

`render_surface`
- `DiskNamesWhatIsDrawn`: when all operations have ended, a surface draws what the file says it is to draw (fails if a stop leaves the ended writer among those that draw: a surface that has been cleared, or whose next writer does not start, then still counts as drawing what the file no longer names).
- `BlackoutHolds`: a confirmed blackout stays, in memory and on disk, until an operation that may light the surface begins (fails if a start does not read the file).
- `ReservationHasAnOwner`: a step time is reserved only while an operation is under way on the surface (fails if a failed save forgets to release).

`weather_delay`
- `AdoptedDelayIsNotResumed`: an adopted delay began after the last resume (fails if one older revision is let through). The exception is explicit: a state the store did not take may share its revision with a resume.
- `NodesConverge`: in the end a node holds what the coordinator holds, whatever was lost and whoever started it (fails if a node's cancelled night is not adopted over a delay).

`weather_control`
- `QuestionIsSettledOnce`: one answer, deadline or resume settles a question (fails if whoever finds it counts as its claimant).
- `NoQuestionIsLost`: a question that was stored is pending until it is settled; two warnings that both found none pending do not replace each other's (fails if the insert overwrites the row).
- `EnforcerYieldsToResume`: the enforcer closes a gate only under a delay, or where the resume has still to open it, so never lands after the resume's open (fails without the second look under the lock).
- `StandingDelayEndsDark`: a gate left open by a late open or a failed close is closed in the end (fails if the enforcer closes only beside a request).

`TypeOK` (`DelayTypeOK` in `WeatherDelay`) is checked where a mutant of the code can
break it: a boot that resumes unassigned surfaces (`render_surface`), a
node that forgets revisions (`weather_delay`), a cache that is never evicted
(`agent_command`), a row with outcome and reason exchanged (`fpp_command`). Those of
`MacroRun`, `ResponseWaiter`, `ConfigPush`, `PipelineSupervisor` and `WeatherControl`
document the shape of their states; those of all but `ConfigPush` are
proved. `SettledRowIsFinal` and
`OutcomeAuditedByOneAuthor` of `FppCommand`, `AnswerIsAResult` and `WaiterHasAnOwner` of
`AgentCommand` are proved, and not checked again.

**Fairness.** `FairSpec` assumes weak fairness of the startup sequence and of each
goroutine's own steps, nothing else. The code justifies it: every wait has a
deadline (HTTP client timeout, confirmation deadline, response deadline, bounded
writes on a context detached from the request), a goroutine is never cancelled,
and the coordinator runs under a supervisor that starts it again. Requests,
submissions, calls, messages, crashes and outages are never assumed to happen. A
lock is taken when free: weak fairness of `Acquire` is enough, since the number of
calls is finite. In `AgentCommand` an operation is assumed to return: the operations
bound their own I/O. `ConfigPush` and `RenderSurface` state no liveness: a push may be
lost, a command is what an operator sends, and nothing is promised then.

`PipelineSupervisor` assumes strong fairness of `TakeCommand` and of each `Send`: Go's
select chooses among the ready cases at random, and senders blocked on a channel are
served in order. Nothing is assumed of what a child does by itself, a killed one
excepted, and nothing of the timer. `WeatherDelay` assumes that a request runs to its end
(strong fairness, since its publication waits for room in the model's bounded inboxes),
that the republish loop and the heartbeat go on, and that the broker delivers to a
connected node; commands need not arrive. `WeatherControl` assumes that requests run to
their end and that the enforcer ticks.

Deadlock checking is on for `FppCommand` and `MacroRun`. It is off for the others, where
every call returns, every delivery or command is used up, and the bounds run out.

## What is proved

`FppCommandProofs.tla`, for all values of the constants (any number of requests,
keys, intents, crashes and failed writes, infinite sets included), from three
assumptions: the sweep is not a request, there is a key and an intent, and the
bounds are natural numbers.

| Theorem | Establishes |
|---|---|
| `TypeCorrect` | `Spec => []TypeOK` |
| `Invariance` | `Spec => []IInv` |
| `AttemptedOnce`, `AttemptsAccountedFor`, `OneOwner`, `OneAuthor` | the four safety invariants |
| `SettledIsFinal` | the action property `SettledRowIsFinal` |
| `Implements` | `Spec => Promise!Spec` |

None of the safety invariants is inductive. `AttemptedAtMostOnce`, for one, is kept
by `Dispatch` only because the request that dispatches is the only one past the
insert and its row is still pending, which takes the conjuncts of `IInv`:

- `TypeOK`;
- `ProcessInv`: only a listening process has requests at work, only a sweeping one a list, and that list holds exactly open rows, all of them but lost ones;
- `RowInv`: what a row's columns say of the attempts (at most one, never for an absent row, made if `dispatched_at` is set or the row is confirmed) and that an attempted command is reported;
- `OwnerInv`: what a request past the insert may rely on (before `Dispatch`, its row is open, reported and unattempted);
- `UniqueInv`: no two requests are at work on one key;
- `OwnedInv`: while the coordinator listens, an open row has an owner, unless lost;
- `AuditInv`: an audited outcome belongs to a settled row nobody is at work on, unless it could not be written, and to one author.

Each action is shown to preserve each conjunct it can disturb; `Implements` maps
the actions to `Record`, `Attempt`, `Settle` or a stutter under `IInv`. TLC checked
`IInv` as an invariant of the `fpp_command` instance before it was proved.

`AgentCommandProofs.tla`, for any deliveries, commands, assignment of keys, capacity
and number of restarts, from: `None` is not a delivery, there is a command, the subsets
of commands are subsets, the capacity is positive.

| Theorem | Establishes |
|---|---|
| `TypeCorrect` | `Spec => []TypeOK`, the bound of the cache included |
| `Invariance` | `Spec => []IInv` |
| `ExecutesOnePerKey`, `AnswersWithResults`, `WaitersHaveOwners` | the three safety invariants |
| `RecentKeysAreNotRepeated` | the action property `RecentKeyIsNotRepeated` |

`OneExecutionPerKey` needs only that open claims and working owners coincide
(`ClaimInv`). `AnswerIsAResult` needs, for waiters and kept results alike, that whoever
they point at has begun, so that its key is fixed, and has produced a result by the
time its channel is closed (`ResultInv`, `SourceInv`). `RecentKeyIsNotRepeated` is the
interesting one: `CacheInv` says that the cache is exactly the end of the history
`settled`, as long as its capacity allows, and that a claimed key has no result in it.
The second half is why the first is kept: a completion appends, and the code's branch
that overwrites a result in place is never taken. A claim is made only for a key not
in the cache, hence not in that end of the history.

`MacroRunProofs.tla`, for any macros, scripts, runs, callers, crashes and failed
writes, from: scripts are sequences of 1 to `MaxSteps` steps, there is a macro and a
key, the bounds are natural numbers.

| Theorem | Establishes |
|---|---|
| `Invariance` | `Spec => []IInv` |
| `TypeCorrect` | `Spec => []TypeOK` |
| `RunsAreApart` | `RunsDoNotCollide` |
| `StepsAreOrdered`, `FinishedRunsTellTheTruth`, `FppStepsAgree` | the three invariants of `macro_execution` |
| `KeepsPromise` | the refinement: `Spec => Promise!Spec` |

Runs meet only when they are admitted, so `IInv` is `TypeOK`, `RunsDoNotCollide`,
`ProcessInv` (goroutines belong to a process that is up, the list of the startup to
one that reconciles) and, for each run by itself, `RunInv`. An action on one run
frames the others (`Frame`), which is what keeps the proof linear in the actions.
`RunInv` has four parts: `PlaceInv`, where the goroutine stands (what is ahead of it
is untouched); `StepInv`, the step it is at (a step about to be sent is on record and
not sent); `PastInv`, the steps behind it (each recorded, or its write lost and the row pending, and what
the goroutine accumulates for the run follows from them); `TableInv`, what rows say
once no goroutine is there to ask. `FinishedRunTellsTheTruth` needs the last two: a
restart derives the run's row from the tables alone, and then without any exception.
`FppStepAgreesWithJournal` is kept by `PersistStep` because `StepInv` ties the outcome
the goroutine carries to the command's row before the step's row is written.

`ResponseWaiterProofs.tla`, for any calls, size of their buffers, messages and
outages, from: `None` is not a call, buffers hold a message, the bounds are natural
numbers.

| Theorem | Establishes |
|---|---|
| `Invariance`, `TypeCorrect` | `Spec => []IInv`, `Spec => []TypeOK` |
| `StaysSubscribed` | `WaiterIsSubscribed` |
| `RepliesAreLive`, `RepliesAreKept` | `ReplyIsLive`, `ReplyIsKept` |
| `LeaksNothing` | `NothingLeaks` |

`WaiterIsSubscribed` holds because an UNSUBSCRIBE is sent under the lock and only
when the table is empty (`TableInv`, `SubscriptionInv`); `NothingLeaks` because what is
subscribed some call is still to unsubscribe, unless an unsubscribe has failed
(`LeakInv`). `ReplyIsKept` is the deep one: an overflow drops the oldest
entry, which is harmless only because what counts for a call never stands before what
does not (`KeptInv`), and that because one message is fanned out at a time.

`PipelineSupervisorProofs.tla`, for any operations, capacity of the queue, lockout and
crashes, from: the names of requests are distinct from the others and finitely many,
and queue and lockout are positive.

| Theorem | Establishes |
|---|---|
| `Invariance` | `Spec => []IInv` |
| `TypeCorrect` | `Spec => []TypeOK` |
| `HasOneChild`, `RunningHasChild`, `RestartsEnd` | `OneChild`, `RunningIsBacked`, `RestartsAreBounded` |
| `ExecutedAreConfirmed` | `ExecutedIsConfirmed` |

A watcher compares the generation under one hold of the lock and records the state
under the next. In between the loop could have taken another child, were it not that
it waits for the watchers of the old one first: `MarkerInv` says that a watcher that
has seen its child play, or has compared its generation, belongs to the child the
loop holds, whose exit it has not been told; `ChildInv` and `LoopInv` say what the loop
holds at each point. `BoundInv` accounts for every attempt since the last command as a
failure or the one under way, against the lockout. `TypeOK` says, among other things,
that generations stay among the attempts of the model, which has to be counted from
what can still come (`TypeInv`): a command costs two generations at most, the start of
a child and its end, and so does a child that ends by itself. `QueueInv` (every sender
has one command, in one place) lets the commands not yet taken be counted, `BudgetInv`
is the sum. `ExecutedIsConfirmed` rests on `ConfirmInv`: from the execution of its command
on, the snapshot is newer than the operation, and the child the loop holds, or that is
reported running, is newer than the baseline. A baseline may be read while another
command is executed, and the generation grows with every exit as well; what keeps the
order is that a command first ends the child that was there (`Awaits`, `TakenInv`).

`RenderSurfaceProofs.tla`, for any surfaces, sequences, step times, operations, commands,
faults and restarts, from: the surfaces of the file are distinct, no sequence is `None`,
step times are positive, the bounds are natural numbers.

| Theorem | Establishes |
|---|---|
| `Invariance`, `TypeCorrect` | `Spec => []IInv`, `Spec => []TypeOK` |
| `FileNamesWhatIsDrawn` | `DiskNamesWhatIsDrawn` |
| `BlackoutStands` | `BlackoutHolds` |
| `ReservationIsOwned` | `ReservationHasAnOwner` |

No lock spans an operation, so the argument is about who may be at work on a surface.
`Formed` lists the steps each job has; `OneToucher` says that outside `mixed` a surface
is the business of one operation. That operation owns the reservation of the surface's
step time until it releases it (`ReservedOwned`, which holds on mixed surfaces too), and
it alone can leave the surface drawing what the file does not name, between its save and
its stop (`DrawnIsSaved`). `InOrder` is what an operation relies on from its earlier
steps: it has saved what it starts, stopped what it replaces, darkened what it records.
`DiskNamesWhatIsDrawn` speaks of the end of all operations only, `BlackoutHolds` of every
state; neither is kept by a step unless the order of the steps before it is known.

`WeatherProofs.tla` holds the proofs about both views of the weather delay. Of
`WeatherControl`, for any players, questions, requests at a time and failed writes, from: `None` is not a question, the bounds are natural numbers.

| Theorem | Establishes |
|---|---|
| `Invariance`, `TypeCorrect` | `Spec => []IInv`, `Spec => []TypeOK` |
| `SettledOnce`, `NoneIsLost` | `QuestionIsSettledOnce`, `NoQuestionIsLost` |
| `EnforcerYields` | the action property `EnforcerYieldsToResume` |

`QuestionInv` says which questions can be pending (asked, not settled) and that one asked
and not settled is pending, `CallInv` what
a request carries from one hold of a lock to the next, and `GateInv` why a gate whose
lock the enforcer holds may be closed: a delay still stands, or the resume that ended it
still waits for that lock and opens the gate afterwards, or the delay was never stored
(`dropped`, see the divergences).

Of `WeatherDelay`, for any nodes, requests at a time, messages on their way and troubles,
from: an inbox has room for a message, the bounds are natural numbers.

| Theorem | Establishes |
|---|---|
| `DelayInvariance`, `DelayTypeCorrect` | `DelaySpec => []DelayInv`, `DelaySpec => []DelayTypeOK` |
| `AdoptedIsNotResumed` | the action property `AdoptedDelayIsNotResumed` |
| `NightStaysCancelledWhileStored` | a cancelled night becomes a delay only after the store did not take a state |

While the store takes what it is given, the row's revision grows with every change, and
what `LastResume` infers from it never goes down, though after a change of kind it is
above the revision of the resume itself (`KnownStays`). `StatesKnown` and `RecordsKnown`
follow every state that has left the coordinator, and every record in a node's memory, on
its disk or in a report: none is newer than the row, and one that began before the last
resume held a revision below `LastResume`. So a report that passes `Fresh` began after
it. The last theorem bounds the finding of `weather_uncancelled`: `WritesInv` says that a
delay that was read before a cancellation is too old to be stored after it, so that only
a write that is refused, and kept all the same, can undo one. That the resumes taken stay
within the requests is counted from the resumes about to be written (`ResumesInv`).

`ConfigPushProofs.tla`, for any deliveries, kinds of configuration, revisions,
capacity of the cache, restarts and retries, from: the kinds are `fppconnect` and
`audio` or one of them, each has a revision, what cannot be built is a revision.

| Theorem | Establishes |
|---|---|
| `Invariance` | `Spec => []IInv` |
| `HandlesAsAgent` | the refinement: `Spec => Agent!Spec` |
| `EngineKeepsUp` | `EngineFollowsBinding` |
| `ConfirmsWhatIsHeld` | the action property `AudioConverges` |

`EngineInv`: nothing built, read by the retry driver or on its way to the engine is
newer than the binding, so that a guard against older rebuilds is enough; `StepInv`
relates an operation's place to its delivery's. `AudioConverges` speaks of answers,
many of which repeat another delivery's result. `ResultInv` therefore follows a
result to wherever it is: kept in the cache, behind a closed channel, waited for or
about to be answered, it is a finished delivery's of the same push, and if it is
confirmed, what the node holds is not older (`Backed`). Bindings only grow while the
agent lives, which keeps that; a restart forgets the binding, and the results with it.

Every `IInv` was checked by TLC, as an invariant of the instances above, before it was
proved.

**Only model-checked:** the liveness properties (`EveryCommandSettles`,
`EveryRunFinishes`, `EveryCallReturns`, `EveryDeliveryIsAnswered`, `CommandIsExecuted`,
`NodesConverge`, `StandingDelayEndsDark`): fairness is out of the prover's reach. Every
invariant, action property and refinement that a run checks is a theorem as well.

## Findings

Two statements of the repository that the models refute by a run; `PROJECT.json` quotes
them.

- `weather_stale_answer`: an answer that carries the id of an older question is not refused before it has settled the one that is pending now; the ids are compared after the answer has run. The test of that refusal has no question pending.
- `weather_uncancelled`: a delay whose write the store refuses, because a cancellation of the night got in between, is kept as if it could not be saved, and is stored above the cancellation later. A cancelled night becomes a delay, though "a cancelled night is never changed back".

### Divergences

Statements of comments that do not hold of the code, met while modelling and kept here
without a run of their own:

- A row without `dispatched_at` is reported as never sent to FPP (`api/fppcommand_reconcile.go:131`), but that column is written after the send: a crash in between leaves such a row for a command FPP acted on.
- "Never *skipped* for a step that dispatched" (`macro/run.go:260`) does not hold for an MQTT or Resolume step sent while the audit log was failing: the audit entry is the only trace reconciliation looks at.
- The branch of `resolveStrandedStep` called unreachable (`macro/reconcile_step.go:62`) is where a pending audio step ends up.
- An error of a QoS 1 publish does not mean that nothing reached the wire (`broker/response.go:91`, 609): the acknowledgement may have been lost.
- FPP Connect pushes that overtook each other do not converge on the next push or hello (`fppconnectpush/push.go:159`): the node answers it from its cache. For the same reason a push of the revision a node holds does not rebuild a broken engine (`internal/agent/agent.go:418`). A push is keyed by what it carries, so the node takes a repeated one for a redelivered one.
- Handlers of different surfaces are not serialized by the claim on their idempotency key (`internal/agent/pipeline/assignment.go:152`): two blackouts at a time can lose one of the two held-black flags, and the surface is lit after a restart; two applies can lose one assignment (`erased` and `unsaved` in `RenderSurface`).
- A confirmed apply need not describe its own attempt: `StateStarting` carries the generation that precedes it, and an attempt that was under way when the operation read its baseline has a newer one, so `AwaitState` can be satisfied by it.
- A resume whose write fails or is refused drops an unsaved delay in the process while the nodes go on holding it (`dropped` in `WeatherControl`).
- A node's cancelled night, begun on the node before it saw the coordinator's delay, is turned into that delay by its retained message (`internal/agent/weatherdelay.go:240` refuses older ones only).
- A deadline that has claimed its question and not started yet starts after a resume that came in between, although nothing is to start from it afterwards (`api/weatherdelay.go:556`).

## What is not modelled, and why

Retention and pruning (limits far beyond any bound, and their effect on idempotency
is documented as accepted); real time, other than as an order; the text of reasons
and the shape of answers; authorisation; the other topics and brokers; SQLite
itself (a transaction is atomic, a write happens or fails). The night session, its
background audio, cue scheduling, emergency stop and the fallback hold are planned or
named above; they are the largest part of the coordinator that is left. Audio and clock
on the nodes are real-time media and numeric filtering. The rest are read paths,
encodings and configuration schemas. `PROJECT.json` lists, under `hazards`, those of this
code that no property covers, each with the reason.

## Plan

In this order, most consequential first:

Done: `CommandPromise`, `FppCommand`, `MacroRun`, `ResponseWaiter`, `AgentCommand`,
`ConfigPush`, `PipelineSupervisor`, `RenderSurface`, `WeatherState`, `WeatherDelay`,
`WeatherControl`, and the proofs about all of them. Next:

1. `FallbackHold`: reports by boot and sequence, clear, hand-back, restart of the coordinator. Property: exactly one executor is believed in, and a late report does not resurrect an old hold.
2. `CueActivation`: tick, gates, nudges, dispatch, against holds that begin in between.
3. `WeatherControl` extended by the enforcer's stops, which no lock orders against a resume.
4. `NightSession`: the evening's state machine on top of cue activation and weather delay.
5. `ConfigPush` extended by `node.clock`, whose operation and manager treat a failed change of provider differently.
6. Proofs, alongside: of the divergences above, where one of them is the only way to its outcome (as for `NightStaysCancelledWhileStored`), and of the modules to come.

Every module keeps to the form of the first ones: constants with named assumptions,
one action per operation, invariants as conjunctions of named parts, and no
RECURSIVE operator, so that each can be proved about as well as checked.
