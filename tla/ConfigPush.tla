----------------------------- MODULE ConfigPush -----------------------------
(***************************************************************************)
(* Configuration on its way to a node: the coordinator's push packages     *)
(* (fppconnectpush, audioconfigpush) and the operations that receive it on *)
(* the agent (fppconnect.configure, audio.node.configure), on top of the   *)
(* command handling of AgentCommand.                                       *)
(*                                                                         *)
(* A write, and every hello of the node, starts a goroutine that reads the *)
(* current revision and publishes it under an idempotency key that the     *)
(* revision determines.  FPP Connect has no revision on the agent: what is *)
(* executed last is in force.  The audio binding refuses older revisions,  *)
(* and rebuilds the playback engine outside of its lock.                   *)
(***************************************************************************)
EXTENDS Naturals, Sequences

CONSTANTS
  Deliveries, None, Capacity, MaxRestarts,   \* as in AgentCommand
  Surfaces,      \* configuration kinds: among "fppconnect" and "audio"
  LastRevision,  \* bound: LastRevision[s], the revisions of surface s
  Unbuildable,   \* audio revisions that no engine can be built from
  MaxAttempts    \* the length of audioRestoreRetryDelays

Revisions == UNION {1..LastRevision[s] : s \in Surfaces}
Pushes ==
  UNION {[surface : {s}, revision : 1..LastRevision[s]] : s \in Surfaces}

ASSUME SurfacesAssumption == Surfaces \subseteq {"fppconnect", "audio"} /\ Surfaces # {}
ASSUME RevisionsAssumption ==
  /\ LastRevision \in [Surfaces -> Nat \ {0}] /\ Unbuildable \subseteq Revisions
  /\ MaxAttempts \in Nat

VARIABLES
  pc, command, source, outcome, cache, inFlight, closed, settled, late, restarts,
  written,     \* written[s]: the current revision in the coordinator's store
  step,        \* step[d]: where d stands in its operation
  disk,        \* FPP Connect: the revision in the state file
  served,      \* FPP Connect: the revision in memory
  held,        \* audioBinding: nodeRevision
  built,       \* audioEngineRebuilder: builtRevision
  usable,      \* the bound engine reports itself available
  retry,       \* the restore retry driver: the binding it is about to rebuild
  attempts     \* the driver's attempts since all was well

agentVars == <<pc, command, source, outcome, cache, inFlight, closed, settled,
               late, restarts>>
fppVars == <<disk, served>>
engineVars == <<built, usable, retry, attempts>>
vars == <<agentVars, written, step, fppVars, held, engineVars>>

\* Pushes carry no deadline, and the key stands for the revision.
Agent == INSTANCE AgentCommand WITH
  Commands <- Pushes, KeyOf <- [p \in Pushes |-> p],
  Acceptable <- Pushes, Known <- Pushes, Deadlined <- {}

TypeOK ==
  /\ Agent!TypeOK
  /\ written \in [Surfaces -> Revisions \cup {0}]
  /\ step \in [Deliveries -> {"start", "apply", "rebuild", "confirm"}]
  /\ disk \in Revisions \cup {0} /\ served \in Revisions \cup {0}
  /\ held \in Revisions \cup {0} /\ built \in Revisions \cup {0}
  /\ usable \in BOOLEAN
  /\ retry \in Revisions \cup {0}
  /\ attempts \in 0..MaxAttempts

\* The state of FPP Connect is pushed from the start, an audio binding once it
\* has been written.
Init ==
  /\ Agent!Init
  /\ written = [s \in Surfaces |-> IF s = "audio" THEN 0 ELSE 1]
  /\ step = [d \in Deliveries |-> "start"]
  /\ disk = 0 /\ served = 0 /\ held = 0 /\ built = 0
  /\ usable = FALSE /\ retry = 0 /\ attempts = 0

Revision(d) == command[d].revision
Executing(d, surface, at) ==
  /\ pc[d] = "executing"
  /\ command[d].surface = surface
  /\ step[d] = at
Continue(d, at) == step' = [step EXCEPT ![d] = at]

-----------------------------------------------------------------------------
(***************************************************************************)
(* The coordinator.                                                        *)
(***************************************************************************)

Write(s) ==
  /\ written[s] < LastRevision[s]
  /\ written' = [written EXCEPT ![s] = @ + 1]
  /\ UNCHANGED <<agentVars, step, fppVars, held, engineVars>>

\* ToNode, in a goroutine of a write or of a hello, publishes the revision it has
\* read.  By then others may have been written, and pushed: what arrives is a
\* push of any revision that has once been current, in any order, any number of
\* times, or never.
Deliver(d, p) ==
  /\ p.revision <= written[p.surface]
  /\ Agent!Receive(d, p)
  /\ UNCHANGED <<written, step, fppVars, held, engineVars>>

Handle(d) ==
  /\ Agent!Handle(d)
  /\ UNCHANGED <<written, step, fppVars, held, engineVars>>

-----------------------------------------------------------------------------
(***************************************************************************)
(* fppconnect.configure: to disk first, then to memory.                    *)
(***************************************************************************)

Save(d) ==
  /\ Executing(d, "fppconnect", "start")
  /\ disk' = Revision(d)
  /\ Continue(d, "apply")
  /\ UNCHANGED <<agentVars, written, served, held, engineVars>>

\* Mutation of SaveFails: the failed save answers at once and keeps its claim.
SaveFailsUnsettled(d) ==
  /\ Executing(d, "fppconnect", "start")
  /\ pc' = [pc EXCEPT ![d] = "responding"]
  /\ UNCHANGED <<command, source, outcome, cache, inFlight, closed, settled, late,
                 restarts, written, step, fppVars, held, engineVars>>

\* A failed save is marked as not to be cached, so that the next push tries again.
SaveFails(d) ==
  /\ Executing(d, "fppconnect", "start")
  /\ Agent!Finish(d, "notCached")
  /\ UNCHANGED <<written, step, fppVars, held, engineVars>>

Apply(d) ==
  /\ Executing(d, "fppconnect", "apply")
  /\ served' = Revision(d)
  /\ Continue(d, "confirm")
  /\ UNCHANGED <<agentVars, written, disk, held, engineVars>>

\* Read back are the channel ranges, which another revision may share.
ConfirmRanges(d) ==
  /\ Executing(d, "fppconnect", "confirm")
  /\ \/ Agent!Finish(d, "confirmed")
     \/ served # Revision(d) /\ Agent!Finish(d, "notConfirmed")
  /\ Continue(d, "start")
  /\ UNCHANGED <<written, fppVars, held, engineVars>>

-----------------------------------------------------------------------------
(***************************************************************************)
(* audio.node.configure: applyNode under the lock of the binding, then     *)
(* rebuild under the lock of the rebuilder.                                *)
(***************************************************************************)

\* A rebuild detaches the engine for as long as it takes.
MayLookBroken == ~usable \/ retry # 0 \/ \E e \in Deliveries : step[e] = "rebuild"

\* Mutation of Older: an older revision is taken like a newer one.
NeverOlder(d) == FALSE

Older(d) == Revision(d) < held

RefuseOlder(d) ==
  /\ Executing(d, "audio", "start")
  /\ Older(d)
  /\ Agent!Finish(d, "notConfirmed")
  /\ UNCHANGED <<written, step, fppVars, held, engineVars>>

KeepSame(d) ==
  /\ Executing(d, "audio", "start")
  /\ Revision(d) = held /\ usable
  /\ Continue(d, "confirm")
  /\ UNCHANGED <<agentVars, written, fppVars, held, engineVars>>

\* A newer revision, or the same one while the engine is broken.
Accept(d) ==
  /\ Executing(d, "audio", "start")
  /\ ~Older(d)
  /\ Revision(d) = held => MayLookBroken
  /\ held' = Revision(d)
  /\ Continue(d, "rebuild")
  /\ UNCHANGED <<agentVars, written, fppVars, engineVars>>

-----------------------------------------------------------------------------
(***************************************************************************)
(* The playback engine.                                                    *)
(***************************************************************************)

\* Mutation of Superseded: an older binding that comes late is built.
NeverSuperseded(r) == FALSE

\* applyNode orders what is accepted, not what is rebuilt.
Superseded(r) == r < built

\* rebuildLocked.  A binding that does not validate leaves the engine it found;
\* otherwise a new engine is bound, which may find its output or not.
Rebuild(r) ==
  \/ /\ Superseded(r)
     /\ UNCHANGED <<built, usable>>
  \/ /\ ~Superseded(r) /\ r \in Unbuildable
     /\ UNCHANGED <<built, usable>>
  \/ /\ ~Superseded(r) /\ r \notin Unbuildable
     /\ built' = r
     /\ usable' \in BOOLEAN

RebuildAccepted(d) ==
  /\ Executing(d, "audio", "rebuild")
  /\ Rebuild(Revision(d))
  /\ Continue(d, "confirm")
  /\ UNCHANGED <<agentVars, written, fppVars, held, retry, attempts>>

\* Read back is the revision of the binding.
ConfirmRevision(d) ==
  /\ Executing(d, "audio", "confirm")
  /\ Agent!Finish(d, IF held = Revision(d) THEN "confirmed" ELSE "notConfirmed")
  /\ Continue(d, "start")
  /\ UNCHANGED <<written, fppVars, held, engineVars>>

\* The device is unplugged, or its pipeline fails.
EngineFails ==
  /\ usable
  /\ usable' = FALSE
  /\ UNCHANGED <<agentVars, written, step, fppVars, held, built, retry,
                 attempts>>

\* runAudioRestoreRetryTick: it reads the binding, and later rebuilds it unless
\* the engine works again; its schedule is bounded.
ReadBinding ==
  /\ retry = 0 /\ MayLookBroken /\ held # 0 /\ attempts < MaxAttempts
  /\ retry' = held
  /\ UNCHANGED <<agentVars, written, step, fppVars, held, built, usable,
                 attempts>>

RetryRebuild ==
  /\ retry # 0
  /\ IF usable
       THEN UNCHANGED <<built, usable, attempts>>
       ELSE /\ Rebuild(retry)
            /\ attempts' = IF usable' THEN 0 ELSE attempts + 1
  /\ retry' = 0
  /\ UNCHANGED <<agentVars, written, step, fppVars, held>>

AllIsWell ==
  /\ retry = 0 /\ usable /\ attempts # 0
  /\ attempts' = 0
  /\ UNCHANGED <<agentVars, written, step, fppVars, held, built, usable,
                 retry>>

-----------------------------------------------------------------------------

\* FPP Connect is loaded from disk; the audio binding has to be pushed again.
Restart ==
  /\ Agent!Restart
  /\ served' = disk
  /\ held' = 0 /\ built' = 0
  /\ usable' = FALSE /\ retry' = 0 /\ attempts' = 0
  /\ step' = [d \in Deliveries |-> "start"]
  /\ UNCHANGED <<written, disk>>

Operation(d) ==
  \/ Save(d) \/ SaveFails(d) \/ Apply(d) \/ ConfirmRanges(d)
  \/ RefuseOlder(d) \/ KeepSame(d) \/ Accept(d) \/ RebuildAccepted(d)
  \/ ConfirmRevision(d)

Next ==
  \/ \E s \in Surfaces : Write(s)
  \/ \E d \in Deliveries, p \in Pushes : Deliver(d, p)
  \/ \E d \in Deliveries : Handle(d) \/ Operation(d)
  \/ EngineFails \/ ReadBinding \/ RetryRebuild \/ AllIsWell
  \/ Restart

Spec == Init /\ [][Next]_vars

-----------------------------------------------------------------------------
(***************************************************************************)
(* Properties.                                                             *)
(***************************************************************************)

\* When no accepted binding is still on its way to the engine, the engine is the
\* one of the binding in force: a slow rebuild of an older binding, of a delivery
\* or of the retry driver, never replaces it.
EngineFollowsBinding ==
  held \notin Unbuildable \cup {0} =>
    built = held \/ \E d \in Deliveries : Executing(d, "audio", "rebuild")

\* A push of the current audio binding is answered as confirmed.
Confirms(d) ==
  /\ pc[d] = "responding" /\ pc'[d] = "answered"
  /\ command[d].surface = "audio" /\ Revision(d) = written["audio"]
  /\ outcome[source[d]] = "confirmed"

\* However pushes overtake each other, are answered from the cache or cut short
\* by a restart, a confirmed push of the current audio binding means that the
\* node holds it.
AudioConverges == [][\A d \in Deliveries : Confirms(d) => held = written["audio"]]_vars

\* The surfaces do to the handling of commands only what any operation does.
HandlesCommands == Agent!Spec
=============================================================================
