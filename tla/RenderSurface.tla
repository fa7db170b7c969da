--------------------------- MODULE RenderSurface ---------------------------
(***************************************************************************)
(* The render operations of a node (internal/agent/renderops.go and        *)
(* cueactivationrender.go): what each surface draws, what is saved of it,  *)
(* and whether it is held black.                                           *)
(*                                                                         *)
(* Every command runs in a goroutine of its own and no lock spans an       *)
(* operation, so operations interleave between any two of their steps: a   *)
(* read or a write of a state file, and each critical section of           *)
(* renderOperations.mu.  An operation stands at a step, for one surface of *)
(* those it goes through.  The gst-launch children behind the surfaces are *)
(* PipelineSupervisor.                                                     *)
(***************************************************************************)
EXTENDS Naturals, Sequences

CONSTANTS
  Order,        \* the node's surfaces, in the order of the state file
  Contents,     \* sequences a surface can draw
  StepTime,     \* StepTime[c]: milliseconds per frame of sequence c
  None,         \* no sequence
  Ops,          \* goroutines that handle commands
  MaxOps,       \* bound: commands
  MaxFaults,    \* bound: writes and frame writers that fail
  MaxRestarts   \* bound: times the agent restarts

ASSUME SurfacesAssumption ==
  /\ None \notin Contents
  /\ \A i, j \in 1..Len(Order) : Order[i] = Order[j] => i = j
ASSUME StepTimeAssumption == StepTime \in [Contents -> Nat \ {0}]
ASSUME BoundsAssumption == MaxOps \in Nat /\ MaxFaults \in Nat /\ MaxRestarts \in Nat

Surfaces == {Order[i] : i \in 1..Len(Order)}

VARIABLES
  assigned,   \* the assignment file: what each surface is to draw
  heldDisk,   \* the held-black file
  held,       \* renderOperations.holdBlack
  drawing,    \* renderOperations.writers: the sequence each surface's writer draws
  reserved,   \* renderOperations.stepReserved
  op,         \* op[o]: the operation that o is in the middle of
  booting,    \* surfaces that the boot has yet to resume
  begun, faults, restarts,
  mixed,      \* history: surfaces on which operations overlapped
  erased,     \* history: surfaces whose flag a stale save has overwritten
  unsaved,    \* history: surfaces whose assignment a stale save has overwritten
  blacked     \* history: surfaces whose last operation is a confirmed blackout

fileVars == <<assigned, heldDisk>>
surfaceVars == <<held, drawing, reserved>>
historyVars == <<mixed, erased, unsaved, blacked>>
boundVars == <<begun, faults, restarts>>
vars == <<fileVars, surfaceVars, op, booting, boundVars, historyVars>>

Drawn == Contents \cup {None}
Jobs == {"none", "apply", "clear", "blackout", "prepare", "swap", "hold"}
StepNames == {"reserve", "read", "save", "remove", "stop", "start", "read held", "hold",
              "unhold", "darken", "light", "settle", "validate", "reserve all",
              "hold others", "done"}

\* An operation: its job (those of an activation are to prepare, swap and hold),
\* the step it stands at, the surface it works on and those it has yet to go
\* through, the sequence it brings, the surfaces it may change, what it last
\* read of the two files and, of an activation, the surfaces saved with its
\* sequence when it began, those validated and those switched.
Operations ==
  [job : Jobs, at : StepNames, surface : Surfaces \cup {None}, todo : SUBSET Surfaces,
   content : Drawn, touches : SUBSET Surfaces, seen : [Surfaces -> Drawn],
   seenHeld : SUBSET Surfaces, same : SUBSET Surfaces, pending : SUBSET Surfaces,
   swapped : SUBSET Surfaces]

TypeOK ==
  /\ assigned \in [Surfaces -> Drawn] /\ drawing \in [Surfaces -> Drawn]
  /\ reserved \in [Surfaces -> Drawn]
  /\ {heldDisk, held, mixed, erased, unsaved, blacked} \subseteq SUBSET Surfaces
  /\ op \in [Ops -> Operations]
  /\ booting \subseteq Surfaces
  /\ \A s \in booting : assigned[s] # None /\ drawing[s] = None
  /\ begun \in 0..MaxOps /\ faults \in 0..MaxFaults /\ restarts \in 0..MaxRestarts

Nothing == [s \in Surfaces |-> None]

NoOperation ==
  [job |-> "none", at |-> "done", surface |-> None, todo |-> {}, content |-> None,
   touches |-> {}, seen |-> Nothing, seenHeld |-> {}, same |-> {}, pending |-> {},
   swapped |-> {}]

\* The next surface: files are gone through in their order.
Position(s) == CHOOSE i \in 1..Len(Order) : Order[i] = s
First(surfaces) == {s \in surfaces : \A t \in surfaces : Position(s) <= Position(t)}

\* Mutation of Saved: the boot goes through all surfaces.
SavedOrNot(file) == Surfaces

\* The surfaces that an assignment file names.
Saved(file) == {s \in Surfaces : file[s] # None}

\* Mutation of HeldAtStart: a process starts with every surface lit.
NoneHeldAtStart == {}

\* newRenderOperations reads the held-black file.
HeldAtStart == heldDisk

\* The agent starts with whatever an earlier one has left on disk.
Init ==
  /\ assigned \in [Surfaces -> Drawn] /\ heldDisk \in SUBSET Surfaces
  /\ held = HeldAtStart /\ booting = Saved(assigned)
  /\ drawing = Nothing /\ reserved = Nothing
  /\ op = [o \in Ops |-> NoOperation]
  /\ begun = 0 /\ faults = 0 /\ restarts = 0
  /\ mixed = {} /\ erased = {} /\ unsaved = {} /\ blacked = {}

-----------------------------------------------------------------------------
(***************************************************************************)
(* The steps of each operation.                                            *)
(***************************************************************************)

\* The first step for a surface.
FirstStep(operation, s) ==
  CASE operation.job = "apply" -> "reserve"
    [] operation.job = "clear" -> "stop"
    [] operation.job = "swap" -> "read"
    [] operation.job \in {"blackout", "hold"} -> "darken"
    [] operation.job = "prepare" -> IF s \in operation.same THEN "settle" ELSE "validate"

\* The step after a step that is done; "next" is the next surface.
StepAfter(job, at) ==
  CASE at = "reserve" -> "read"
    [] at = "read" -> IF job = "clear" THEN "remove" ELSE "save"
    [] at = "save" -> IF job = "prepare" THEN "next" ELSE "stop"
    [] at = "stop" -> IF job = "clear" THEN "read" ELSE "start"
    [] at \in {"start", "remove", "darken", "settle"} -> "read held"
    [] at = "read held" -> IF job \in {"blackout", "hold"} THEN "hold" ELSE "unhold"
    [] at = "unhold" -> "light"
    [] OTHER -> "next"

\* The step after the last surface.
LastStep(job) ==
  CASE job = "prepare" -> "reserve all" [] job = "swap" -> "hold others" [] OTHER -> "done"

InProgress(o) == op[o].at # "done"
Idle == booting = {} /\ \A o \in Ops : ~InProgress(o)

\* The history of who works on what: an operation that may light a surface ends
\* the hold of a blackout, and two on one surface leave it mixed.
Touch(o, surfaces, lights) ==
  /\ mixed' = mixed \cup {s \in surfaces : \E p \in Ops \ {o} : InProgress(p) /\ s \in op[p].touches}
  /\ blacked' = IF lights THEN blacked \ surfaces ELSE blacked

Begin(o, operation, lights) ==
  /\ booting = {} /\ ~InProgress(o) /\ begun < MaxOps
  /\ begun' = begun + 1
  /\ \E s \in First(operation.touches) :
       op' = [op EXCEPT ![o] =
                [operation EXCEPT !.at = FirstStep(operation, s), !.surface = s,
                                  !.todo = operation.touches \ {s}]]
  /\ Touch(o, operation.touches, lights)
  /\ UNCHANGED <<fileVars, surfaceVars, booting, faults, restarts, erased, unsaved>>

Operation(job, c, surfaces, same) ==
  [NoOperation EXCEPT !.job = job, !.content = c, !.touches = surfaces, !.same = same]

\* applySurface, of an assignment that is valid; another changes nothing.
BeginApply(o, s, c) == Begin(o, Operation("apply", c, {s}, {}), TRUE)
BeginClear(o, s) == Begin(o, Operation("clear", None, {s}, {}), TRUE)
BeginBlackout(o, s) == Begin(o, Operation("blackout", None, {s}, {}), FALSE)

\* activateRender reads the assignments once; a surface that has one is settled
\* when it is saved with the cue's sequence, and draws, and is else validated.
BeginActivate(o, c) ==
  Begin(o, Operation("prepare", c, Saved(assigned), {s \in Surfaces : assigned[s] = c}), TRUE)

-----------------------------------------------------------------------------
(***************************************************************************)
(* One step of an operation.                                               *)
(***************************************************************************)

AtStep(o, name) == op[o].at = name
Surface(o) == op[o].surface

\* The operation is through with its surface: it goes on with the next one, or
\* to the step after the last, or ends.
NextSurface(o, operation) ==
  IF operation.todo # {}
    THEN \E s \in First(operation.todo) :
           op' = [op EXCEPT ![o] =
                    [operation EXCEPT !.at = FirstStep(operation, s), !.surface = s,
                                      !.todo = operation.todo \ {s}]]
    ELSE op' = [op EXCEPT ![o] =
                  IF LastStep(operation.job) = "done" THEN NoOperation
                    ELSE [operation EXCEPT !.at = LastStep(operation.job)]]

GoTo(o, operation, step) ==
  IF step = "next" THEN NextSurface(o, operation)
                   ELSE op' = [op EXCEPT ![o] = [operation EXCEPT !.at = step]]

\* The step is done, and has left the operation as given.
Go(o, operation) == GoTo(o, operation, StepAfter(op[o].job, op[o].at))
Continue(o) == Go(o, op[o])
End(o) == op' = [op EXCEPT ![o] = NoOperation]

\* The operation has failed for this surface: an apply, clear or blackout ends,
\* an activation goes on with the next surface.
GiveUpSurface(o) == NextSurface(o, op[o])

Fault == faults < MaxFaults /\ faults' = faults + 1

\* stepTimeConflictLocked: a surface outside skip draws, or will, at another rate.
Conflict(s, c, skip) ==
  \E t \in Surfaces \ (skip \cup {s}) :
    LET other == IF reserved[t] # None THEN reserved[t] ELSE drawing[t]
    IN other # None /\ StepTime[other] # StepTime[c]

Reserve(o) ==
  /\ AtStep(o, "reserve")
  /\ IF Conflict(Surface(o), op[o].content, {})
       THEN End(o) /\ UNCHANGED reserved
       ELSE Continue(o) /\ reserved' = [reserved EXCEPT ![Surface(o)] = op[o].content]
  /\ UNCHANGED <<fileVars, held, drawing, booting, boundVars, historyVars>>

Read(o) ==
  /\ AtStep(o, "read")
  /\ Go(o, [op[o] EXCEPT !.seen = assigned])
  /\ UNCHANGED <<fileVars, surfaceVars, booting, boundVars, historyVars>>

\* The file becomes what was read, with this surface's entry replaced.
Write(o, c) ==
  /\ assigned' = [op[o].seen EXCEPT ![Surface(o)] = c]
  /\ unsaved' = unsaved \cup {s \in Surfaces \ {Surface(o)} : op[o].seen[s] # assigned[s]}
  /\ Go(o, [op[o] EXCEPT !.seen = Nothing])
  /\ UNCHANGED <<heldDisk, surfaceVars, booting, boundVars, mixed, erased, blacked>>

SaveEntry(o) == AtStep(o, "save") /\ Write(o, op[o].content)
RemoveEntry(o) == AtStep(o, "remove") /\ Write(o, None)

\* Mutation of SaveFails: an operation that gives up forgets its reservation.
SaveFailsReserved(o) ==
  /\ AtStep(o, "save") \/ AtStep(o, "remove")
  /\ Fault
  /\ GiveUpSurface(o)
  /\ UNCHANGED <<fileVars, surfaceVars, booting, begun, restarts, historyVars>>

\* A failed Upsert releases the reservation; that of a settled surface has none.
SaveFails(o) ==
  /\ AtStep(o, "save") \/ AtStep(o, "remove")
  /\ Fault
  /\ reserved' = IF op[o].job \in {"apply", "swap"} THEN [reserved EXCEPT ![Surface(o)] = None]
                                                   ELSE reserved
  /\ GiveUpSurface(o)
  /\ UNCHANGED <<fileVars, held, drawing, booting, begun, restarts, historyVars>>

\* Mutation of Stop: the writer that has ended stays in the map.
StopUnlisted(o) ==
  /\ AtStep(o, "stop")
  /\ Continue(o)
  /\ UNCHANGED <<fileVars, surfaceVars, booting, boundVars, historyVars>>

\* stopFrameWriter takes the writer out of the map and waits for it to end.
Stop(o) ==
  /\ AtStep(o, "stop")
  /\ drawing' = [drawing EXCEPT ![Surface(o)] = None]
  /\ Continue(o)
  /\ UNCHANGED <<fileVars, held, reserved, booting, boundVars, historyVars>>

\* startFrameWriter: the new writer runs and replaces the entry, whatever it was;
\* a writer that another operation has started meanwhile runs on without one.
Start(o) ==
  LET s == Surface(o)
  IN /\ AtStep(o, "start")
     /\ drawing' = [drawing EXCEPT ![s] = op[o].content]
     /\ reserved' = [reserved EXCEPT ![s] = None]
     /\ Go(o, [op[o] EXCEPT !.swapped = op[o].swapped \cup {s}])
     /\ UNCHANGED <<fileVars, held, booting, boundVars, historyVars>>

StartFails(o) ==
  /\ AtStep(o, "start")
  /\ Fault
  /\ reserved' = [reserved EXCEPT ![Surface(o)] = None]
  /\ GiveUpSurface(o)
  /\ UNCHANGED <<fileVars, held, drawing, booting, begun, restarts, historyVars>>

ReadHeld(o) ==
  /\ AtStep(o, "read held")
  /\ Go(o, [op[o] EXCEPT !.seenHeld = heldDisk])
  /\ UNCHANGED <<fileVars, surfaceVars, booting, boundVars, historyVars>>

\* HoldBlackStore.Set; a blackout is confirmed once it is done.
WriteHeld(o) ==
  LET s == Surface(o)
      hold == AtStep(o, "hold")
  IN /\ hold \/ AtStep(o, "unhold")
     /\ heldDisk' = IF hold THEN op[o].seenHeld \cup {s} ELSE op[o].seenHeld \ {s}
     /\ erased' = (erased \ {s})
          \cup {t \in Surfaces \ {s} : (t \in op[o].seenHeld) # (t \in heldDisk)}
     /\ blacked' = IF op[o].job = "blackout" /\ s \notin mixed THEN blacked \cup {s} ELSE blacked
     /\ Go(o, [op[o] EXCEPT !.seenHeld = {}])
     /\ UNCHANGED <<assigned, surfaceVars, booting, boundVars, mixed, unsaved>>

\* What follows the update of a surface's flag: the assignment of one that was
\* settled may be saved again, under the catalog revision of the cue.
FlagDone(o) ==
  \/ GoTo(o, op[o], "next")
  \/ op[o].job = "prepare" /\ GoTo(o, op[o], "read")

\* The flag in memory stays as it is: black after a blackout, and after a clear.
WriteHeldFails(o) ==
  /\ AtStep(o, "hold") \/ AtStep(o, "unhold")
  /\ Fault
  /\ FlagDone(o)
  /\ UNCHANGED <<fileVars, surfaceVars, booting, begun, restarts, historyVars>>

Darken(o) ==
  /\ AtStep(o, "darken")
  /\ held' = held \cup {Surface(o)}
  /\ Continue(o)
  /\ UNCHANGED <<fileVars, drawing, reserved, booting, boundVars, historyVars>>

Light(o) ==
  /\ AtStep(o, "light")
  /\ held' = held \ {Surface(o)}
  /\ FlagDone(o)
  /\ UNCHANGED <<fileVars, drawing, reserved, booting, boundVars, historyVars>>

-----------------------------------------------------------------------------
(***************************************************************************)
(* The steps of an activation.                                             *)
(***************************************************************************)

\* The surface draws the cue's sequence already: only its flag, and perhaps the
\* catalog revision it is saved under, are brought up to date.
Settle(o) ==
  /\ AtStep(o, "settle")
  /\ drawing[Surface(o)] # None
  /\ Continue(o)
  /\ UNCHANGED <<fileVars, surfaceVars, booting, boundVars, historyVars>>

\* It does not, or was authorized differently, and the new file is valid for
\* it; or it is not valid, and the surface is dropped.
Validate(o) ==
  /\ AtStep(o, "validate") \/ AtStep(o, "settle")
  /\ \/ NextSurface(o, [op[o] EXCEPT !.pending = op[o].pending \cup {Surface(o)}])
     \/ NextSurface(o, op[o])
  /\ UNCHANGED <<fileVars, surfaceVars, booting, boundVars, historyVars>>

\* All step times are reserved at once, compared only with surfaces that the
\* cue does not address.
ReserveAll(o) ==
  /\ AtStep(o, "reserve all")
  /\ IF op[o].pending = {} \/ \E s \in op[o].pending : Conflict(s, op[o].content, op[o].touches)
       THEN End(o) /\ UNCHANGED reserved
       ELSE /\ reserved' = [s \in Surfaces |-> IF s \in op[o].pending THEN op[o].content ELSE reserved[s]]
            /\ NextSurface(o, [op[o] EXCEPT !.job = "swap", !.todo = op[o].pending,
                                             !.same = {}, !.pending = {}])
  /\ UNCHANGED <<fileVars, held, drawing, booting, boundVars, historyVars>>

\* holdBlackWhereTimingDiffers: the surfaces that still draw at another rate.
OutOfStep(o) ==
  {s \in Surfaces \ op[o].swapped : drawing[s] # None /\ StepTime[drawing[s]] # StepTime[op[o].content]}

HoldOthers(o) ==
  /\ AtStep(o, "hold others")
  /\ IF op[o].swapped = {}
       THEN End(o)
       ELSE NextSurface(o, [op[o] EXCEPT !.job = "hold", !.todo = OutOfStep(o)])
  /\ UNCHANGED <<fileVars, surfaceVars, booting, boundVars, historyVars>>

-----------------------------------------------------------------------------
(***************************************************************************)
(* The agent stops, and resumes its surfaces before it takes commands.     *)
(***************************************************************************)

Restart ==
  /\ restarts < MaxRestarts
  /\ restarts' = restarts + 1
  /\ held' = HeldAtStart
  /\ drawing' = Nothing /\ reserved' = Nothing
  /\ op' = [o \in Ops |-> NoOperation]
  /\ booting' = Saved(assigned)
  /\ mixed' = {}
  /\ UNCHANGED <<fileVars, begun, faults, erased, unsaved, blacked>>

\* ResumeAssignment, which may not be playable any more.
Resume ==
  \E s \in First(booting) :
    /\ booting' = booting \ {s}
    /\ \/ UNCHANGED drawing
       \/ /\ ~Conflict(s, assigned[s], {})
          /\ drawing' = [drawing EXCEPT ![s] = assigned[s]]
    /\ UNCHANGED <<fileVars, held, reserved, op, boundVars, historyVars>>

\* decideBootResume: the assignment is of another show, or a weather delay is on.
Discard ==
  \E s \in First(booting) :
    /\ assigned' = [assigned EXCEPT ![s] = None]
    /\ booting' = booting \ {s}
    /\ UNCHANGED <<heldDisk, surfaceVars, op, boundVars, historyVars>>

-----------------------------------------------------------------------------
Command(o) ==
  \/ \E s \in Surfaces : BeginClear(o, s) \/ BeginBlackout(o, s)
  \/ \E s \in Surfaces, c \in Contents : BeginApply(o, s, c)
  \/ \E c \in Contents : BeginActivate(o, c)

StepOf(o) ==
  \/ Reserve(o) \/ Read(o) \/ SaveEntry(o) \/ RemoveEntry(o) \/ SaveFails(o)
  \/ Stop(o) \/ Start(o) \/ StartFails(o)
  \/ ReadHeld(o) \/ WriteHeld(o) \/ WriteHeldFails(o) \/ Darken(o) \/ Light(o)
  \/ Settle(o) \/ Validate(o) \/ ReserveAll(o) \/ HoldOthers(o)

Next ==
  \/ \E o \in Ops : Command(o) \/ StepOf(o)
  \/ Restart \/ Resume \/ Discard

Spec == Init /\ [][Next]_vars

-----------------------------------------------------------------------------
(***************************************************************************)
(* Properties.                                                             *)
(***************************************************************************)

\* What the file says a surface is to draw is what it draws, once every
\* operation has ended: an apply that is refused, a swap that fails half-way
\* and a restart leave neither of the two behind.  The exceptions are a surface
\* that two operations changed at a time, and one whose entry was overwritten
\* by a save for another surface (Upsert rewrites the whole file).
DiskNamesWhatIsDrawn ==
  Idle => \A s \in Surfaces \ (mixed \cup unsaved) :
            drawing[s] # None => assigned[s] = drawing[s]

\* A confirmed blackout holds until an operation that may light the surface
\* begins: through restarts, activations of other surfaces and failed writes,
\* in memory and on disk, unless a save for another surface overwrote it.
BlackoutHolds == blacked \ erased \subseteq held \cap heldDisk

\* A step time stays reserved only while an operation that works on the surface
\* is under way: a reservation left behind would refuse every sequence of
\* another rate on all other surfaces until the agent restarts.
ReservationHasAnOwner ==
  \A s \in Surfaces : reserved[s] # None => \E o \in Ops : InProgress(o) /\ s \in op[o].touches
=============================================================================
