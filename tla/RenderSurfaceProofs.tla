------------------------ MODULE RenderSurfaceProofs ------------------------
(***************************************************************************)
(* Proofs about RenderSurface, for any surfaces, sequences, step times and *)
(* operations, and any number of commands, faults and restarts.            *)
(*                                                                         *)
(* Every operation stands at a step that its job has (Formed), and         *)
(* outside mixed a surface is the business of one operation at a time      *)
(* (OneToucher).  That operation owns the surface's reservation until it   *)
(* releases it (ReservedOwned), is the only one that can leave the surface *)
(* drawing what the file does not name, and only between its save and its  *)
(* stop (DrawnIsSaved, InOrder), and has ended when a blackout of the      *)
(* surface is confirmed (InOrder).                                         *)
(***************************************************************************)
EXTENDS RenderSurface, TLAPS

\* What an operation knows at all its steps, and the steps of each job.
Steady(x) ==
  /\ x.job # "none" /\ x.surface \in Surfaces
  /\ x.job # "hold" => x.surface \in x.touches /\ x.todo \subseteq x.touches
  /\ x.job \in {"apply", "clear", "blackout"} => x.todo = {}
  /\ x.job = "prepare" => x.pending \subseteq x.touches
  /\ x.job \in {"apply", "prepare", "swap"} => x.content \in Contents
AtItsStep(x) ==
  /\ x.job = "apply" =>
       x.at \in {"reserve", "read", "save", "stop", "start", "read held", "unhold", "light"}
  /\ x.job = "clear" => x.at \in {"stop", "read", "remove", "read held", "unhold", "light"}
  /\ x.job \in {"blackout", "hold"} => x.at \in {"darken", "read held", "hold"}
  /\ x.job = "swap" =>
       x.at \in {"read", "save", "stop", "start", "read held", "unhold", "light",
                 "hold others"}
  /\ x.job = "prepare" =>
       /\ x.at \in {"settle", "validate", "read held", "unhold", "light", "read", "save",
                    "reserve all"}
       /\ x.at \notin {"validate", "reserve all"} => x.surface \in x.same
  /\ x.at \in {"reserve all", "hold others"} => x.todo = {}
WellFormed(x) == x = NoOperation \/ (Steady(x) /\ AtItsStep(x))

Formed == \A o \in Ops : WellFormed(op[o])

\* The boot is over before the first operation begins.
BootAlone == booting # {} => \A o \in Ops : op[o] = NoOperation

\* A surface that is not mixed is touched by one operation at most.
OneToucher ==
  \A o, p \in Ops : \A s \in Surfaces \ mixed :
    s \in op[o].touches /\ s \in op[p].touches => o = p

\* From the reservation of a surface to the start of its writer.
Owns(x, s) ==
  \/ x.job = "swap" /\ s \in x.todo
  \/ /\ x.job \in {"apply", "swap"} /\ x.surface = s
     /\ x.at \in {"read", "save", "stop", "start"}

ReservedOwned == \A s \in Surfaces : reserved[s] # None => \E o \in Ops : Owns(op[o], s)

Switches(x) == x.job \in {"apply", "swap"}

\* Only between the save and the stop does a surface draw what is not saved.
DrawnIsSaved ==
  \A s \in Surfaces \ (mixed \cup unsaved) :
    drawing[s] # None =>
      \/ assigned[s] = drawing[s]
      \/ \E o \in Ops : Switches(op[o]) /\ op[o].surface = s /\ op[o].at = "stop"

\* What an operation relies on, of the surfaces that are its alone: it has saved
\* what it is to start; it has stopped what it is to replace or to remove; what
\* is to be settled is saved; a blackout confirmed is not another's to lift; and
\* what is about to be recorded as held black is black.
SavedFirst(x) ==
  Switches(x) /\ x.at \in {"stop", "start"} /\ x.surface \notin mixed \cup unsaved
    => assigned[x.surface] = x.content
StoppedFirst(x) ==
  /\ \/ Switches(x) /\ x.at = "start"
     \/ x.job = "clear" /\ x.at \in {"read", "remove"}
  /\ x.surface \notin mixed
  => drawing[x.surface] = None
SameIsSaved(x) ==
  \A s \in Surfaces \ (mixed \cup unsaved) :
    /\ x.job = "prepare" /\ s \in x.same
    /\ s \in x.todo \/ (s = x.surface /\ x.at # "reserve all")
    => assigned[s] = x.content
LeavesBlack(x) == \A s \in blacked : s \in x.touches => x.job = "blackout"
DarkenedFirst(x) ==
  /\ x.job \in {"blackout", "hold"} /\ x.at \in {"read held", "hold"}
  /\ x.surface \in blacked \/ (x.job = "blackout" /\ x.surface \notin mixed)
  => x.surface \in held

InOrder(x) ==
  /\ SavedFirst(x) /\ StoppedFirst(x) /\ SameIsSaved(x)
  /\ LeavesBlack(x) /\ DarkenedFirst(x)

AllInOrder == \A o \in Ops : InOrder(op[o])

IInv ==
  /\ TypeOK /\ Formed /\ BootAlone /\ OneToucher /\ ReservedOwned /\ DrawnIsSaved
  /\ AllInOrder /\ BlackoutHolds

-----------------------------------------------------------------------------
\* The tuples actions leave unchanged are expanded throughout.
USE DEF fileVars, surfaceVars, historyVars, boundVars, AtStep, Surface

LEMMA NothingType == Nothing \in [Surfaces -> Drawn]
  BY DEF Nothing, Drawn

LEMMA NoOperationType == NoOperation \in Operations
  BY NothingType DEF NoOperation, Operations, Jobs, StepNames, Drawn

LEMMA NoOperationFields ==
  /\ NoOperation.job = "none" /\ NoOperation.at = "done" /\ NoOperation.touches = {}
  /\ NoOperation.todo = {}
  BY DEF NoOperation

LEMMA NoOperationInOrder == WellFormed(NoOperation) /\ InOrder(NoOperation)
  BY NoOperationFields
  DEF WellFormed, Steady, InOrder, SavedFirst, StoppedFirst, SameIsSaved, LeavesBlack,
      DarkenedFirst, Switches

LEMMA FirstIn == ASSUME NEW surfaces, NEW s \in First(surfaces) PROVE s \in surfaces
  BY DEF First

\* Two records of one operation, at different steps.
Alike(z, y) ==
  /\ z.job = y.job /\ z.content = y.content /\ z.touches = y.touches
  /\ z.seen = y.seen /\ z.seenHeld = y.seenHeld
  /\ z.same = y.same /\ z.pending = y.pending /\ z.swapped = y.swapped

\* Where an operation stands after a step: over, after its last surface, at the
\* first step of another, or at the step named.
Over(y, z) == z = NoOperation /\ y.todo = {} /\ y.job \notin {"prepare", "swap"}
Through(y, z) ==
  /\ Alike(z, y) /\ y.todo = {} /\ y.job \in {"prepare", "swap"}
  /\ z.at = LastStep(y.job) /\ z.surface = y.surface /\ z.todo = {}
Another(y, z) ==
  /\ Alike(z, y) /\ z.surface \in y.todo /\ z.todo = y.todo \ {z.surface}
  /\ z.at = FirstStep(y, z.surface)
Onward(y, step, z) ==
  /\ Alike(z, y) /\ z.at = step /\ z.surface = y.surface /\ z.todo = y.todo
Reached(y, step, z) ==
  IF step = "next" THEN Over(y, z) \/ Through(y, z) \/ Another(y, z)
                   ELSE Onward(y, step, z)

LEMMA FirstSteps ==
  ASSUME NEW y, NEW s
  PROVE  /\ y.job = "apply" => FirstStep(y, s) = "reserve"
         /\ y.job = "clear" => FirstStep(y, s) = "stop"
         /\ y.job = "swap" => FirstStep(y, s) = "read"
         /\ y.job \in {"blackout", "hold"} => FirstStep(y, s) = "darken"
         /\ y.job = "prepare" /\ s \in y.same => FirstStep(y, s) = "settle"
         /\ y.job = "prepare" /\ s \notin y.same => FirstStep(y, s) = "validate"
  BY DEF FirstStep

\* The operation y at the first step for surface s.
Begun(y, s) == [y EXCEPT !.at = FirstStep(y, s), !.surface = s, !.todo = y.todo \ {s}]

LEMMA AtAnother ==
  ASSUME NEW y \in Operations, y.job # "none", NEW s \in y.todo
  PROVE  Begun(y, s) \in Operations /\ Another(y, Begun(y, s))
<1>1. y.job \in {"apply", "clear", "blackout", "prepare", "swap", "hold"}
  BY DEF Operations, Jobs
<1>2. FirstStep(y, s) \in {"reserve", "stop", "read", "darken", "settle", "validate"}
  BY <1>1 DEF FirstStep
<1>3. s \in Surfaces /\ y.todo \ {s} \in SUBSET Surfaces
  BY DEF Operations
<1>4. FirstStep(y, s) \in StepNames
  BY <1>2 DEF StepNames
<1>5. Begun(y, s) \in Operations
  BY <1>3, <1>4 DEF Begun, Operations
<1>6. Another(y, Begun(y, s))
  BY DEF Begun, Another, Alike, Operations
<1>7. QED
  BY <1>5, <1>6

LEMMA NextSurfaceReaches ==
  ASSUME TypeOK, NEW o \in Ops, NEW y \in Operations, y.job # "none", NextSurface(o, y)
  PROVE  \E z \in Operations : op' = [op EXCEPT ![o] = z] /\ Reached(y, "next", z)
<1>1. CASE y.todo # {}
  <2>1. PICK s \in First(y.todo) : op' = [op EXCEPT ![o] = Begun(y, s)]
    BY <1>1, Zenon DEF NextSurface, Begun
  <2>2. s \in y.todo
    BY FirstIn
  <2>3. QED
    BY <2>1, <2>2, AtAnother, Zenon DEF Reached
<1>2. CASE y.todo = {} /\ LastStep(y.job) = "done"
  <2>1. op' = [op EXCEPT ![o] = NoOperation]
    BY <1>2 DEF NextSurface
  <2>2. y.job \notin {"prepare", "swap"}
    BY <1>2 DEF LastStep
  <2>3. QED
    BY <1>2, <2>1, <2>2, NoOperationType DEF Reached, Over
<1>3. CASE y.todo = {} /\ LastStep(y.job) # "done"
  <2> DEFINE z == [y EXCEPT !.at = LastStep(y.job)]
  <2>1. op' = [op EXCEPT ![o] = z]
    BY <1>3 DEF NextSurface
  <2>2. y.job \in {"prepare", "swap"} /\ LastStep(y.job) \in StepNames
    BY <1>3 DEF LastStep, StepNames
  <2>3. z \in Operations /\ Through(y, z)
    BY <1>3, <2>2 DEF Operations, Through, Alike
  <2>4. QED
    BY <2>1, <2>3 DEF Reached
<1>4. QED
  BY <1>1, <1>2, <1>3

LEMMA GoToReaches ==
  ASSUME TypeOK, NEW o \in Ops, NEW y \in Operations, y.job # "none",
         NEW step \in StepNames \cup {"next"}, GoTo(o, y, step)
  PROVE  \E z \in Operations : op' = [op EXCEPT ![o] = z] /\ Reached(y, step, z)
<1>1. CASE step = "next"
  BY <1>1, NextSurfaceReaches DEF GoTo
<1>2. CASE step # "next"
  <2> DEFINE z == [y EXCEPT !.at = step]
  <2>1. z \in Operations /\ Onward(y, step, z)
    BY <1>2 DEF Operations, Onward, Alike
  <2>2. QED
    BY <1>2, <2>1 DEF GoTo, Reached
<1>3. QED
  BY <1>1, <1>2

LEMMA InProgressSteady ==
  ASSUME Formed, NEW o \in Ops, op[o].at # "done"
  PROVE  Steady(op[o]) /\ AtItsStep(op[o])
  BY NoOperationFields DEF Formed, WellFormed

\* The next surface, or the end, is a step of the job.
LEMMA NextFormed ==
  ASSUME NEW y \in Operations, Steady(y), NEW z \in Operations, Reached(y, "next", z)
  PROVE  WellFormed(z)
<1>1. CASE Over(y, z)
  BY <1>1 DEF Over, WellFormed
<1>2. CASE Through(y, z)
  <2>1. Steady(z)
    BY <1>2 DEF Through, Alike, Steady
  <2>2. AtItsStep(z)
    BY <1>2 DEF Through, Alike, AtItsStep, LastStep
  <2>3. QED
    BY <2>1, <2>2 DEF WellFormed
<1>3. CASE Another(y, z)
  <2>1. Steady(z)
    BY <1>3 DEF Another, Alike, Steady, Operations
  <2>2. /\ z.job = y.job /\ z.same = y.same /\ z.at = FirstStep(y, z.surface)
        /\ y.job \notin {"none", "apply", "clear", "blackout"}
    BY <1>3 DEF Another, Alike, Steady
  <2>3. z.at \notin {"reserve all", "hold others"}
    BY <2>2, FirstSteps DEF Operations, Jobs
  <2>4. /\ y.job = "swap" => z.at = "read"
        /\ y.job = "hold" => z.at = "darken"
        /\ y.job = "prepare" => z.at = IF z.surface \in y.same THEN "settle" ELSE "validate"
    BY <2>2, FirstSteps
  <2>5. AtItsStep(z)
    BY <2>2, <2>3, <2>4 DEF AtItsStep
  <2>6. QED
    BY <2>1, <2>5 DEF WellFormed
<1>4. QED
  BY <1>1, <1>2, <1>3 DEF Reached

\* There an operation relies on no more than what was true of the surfaces left.
SameLeft(y) ==
  \A s \in Surfaces \ (mixed \cup unsaved) :
    y.job = "prepare" /\ s \in y.same /\ s \in y.todo => assigned[s] = y.content

LEMMA NextInOrder ==
  ASSUME NEW y \in Operations, Steady(y), SameLeft(y), LeavesBlack(y),
         NEW z \in Operations, Reached(y, "next", z)
  PROVE  InOrder(z)
<1>1. CASE Over(y, z)
  BY <1>1, NoOperationInOrder DEF Over
<1>2. CASE Through(y, z)
  <2>1. z.at \in {"reserve all", "hold others"} /\ (z.job = "prepare" => z.at = "reserve all")
    BY <1>2 DEF Through, Alike, LastStep
  <2>2. SavedFirst(z) /\ StoppedFirst(z) /\ DarkenedFirst(z)
    BY <2>1 DEF SavedFirst, StoppedFirst, DarkenedFirst
  <2>3. SameIsSaved(z) /\ LeavesBlack(z)
    BY <1>2, <2>1 DEF SameIsSaved, LeavesBlack, Through, Alike
  <2>4. QED
    BY <2>2, <2>3 DEF InOrder
<1>3. CASE Another(y, z)
  <2>1. /\ z.at \in {"reserve", "stop", "read", "darken", "settle", "validate"}
        /\ Switches(z) => z.at # "stop"
        /\ z.job = "clear" => z.at = "stop"
    BY <1>3, FirstSteps DEF Another, Alike, Steady, Switches, Operations, Jobs
  <2>2. SavedFirst(z) /\ StoppedFirst(z) /\ DarkenedFirst(z)
    BY <2>1 DEF SavedFirst, StoppedFirst, DarkenedFirst
  <2>3. SameIsSaved(z)
    BY <1>3 DEF SameIsSaved, SameLeft, Another, Alike
  <2>4. LeavesBlack(z)
    BY <1>3 DEF LeavesBlack, Another, Alike
  <2>5. QED
    BY <2>2, <2>3, <2>4 DEF InOrder
<1>4. QED
  BY <1>1, <1>2, <1>3 DEF Reached

-----------------------------------------------------------------------------
\* What any step of one operation keeps.
LEMMA StepFrame ==
  ASSUME IInv, NEW o \in Ops, op[o].at # "done",
         NEW z \in Operations, op' = [op EXCEPT ![o] = z], WellFormed(z),
         z.touches \subseteq op[o].touches, UNCHANGED <<booting, mixed>>
  PROVE  op' \in [Ops -> Operations] /\ Formed' /\ BootAlone' /\ OneToucher'
<1> USE DEF IInv, TypeOK
<1>1. op' \in [Ops -> Operations]
  OBVIOUS
<1>2. Formed'
  <2> SUFFICES ASSUME NEW p \in Ops PROVE WellFormed(op'[p])
    BY DEF Formed, WellFormed, Steady, AtItsStep, NoOperation, Nothing
  <2>1. op'[p] = op[p] \/ op'[p] = z
    OBVIOUS
  <2>2. QED
    BY <2>1 DEF Formed
<1>3. booting = {}
  BY NoOperationFields DEF BootAlone
<1>4. BootAlone'
  BY <1>3 DEF BootAlone
<1>5. OneToucher'
  BY DEF OneToucher
<1>6. QED
  BY <1>1, <1>2, <1>4, <1>5

\* The reservations that are kept stay with their operation.
LEMMA StepOwned ==
  ASSUME IInv, NEW o \in Ops, NEW z \in Operations, op' = [op EXCEPT ![o] = z],
         \A s \in Surfaces : reserved'[s] # None =>
           \/ Owns(z, s)
           \/ reserved[s] # None /\ ~Owns(op[o], s)
  PROVE  ReservedOwned'
<1> SUFFICES ASSUME NEW s \in Surfaces, reserved'[s] # None
             PROVE  \E p \in Ops : Owns(op'[p], s)
  BY DEF ReservedOwned, Owns
<1>1. CASE Owns(z, s)
  BY <1>1 DEF IInv, TypeOK
<1>2. CASE reserved[s] # None /\ ~Owns(op[o], s)
  <2>1. PICK p \in Ops : Owns(op[p], s)
    BY <1>2 DEF IInv, ReservedOwned
  <2>2. p # o
    BY <1>2, <2>1
  <2>3. op'[p] = op[p]
    BY <2>2 DEF IInv, TypeOK
  <2>4. QED
    BY <2>1, <2>3
<1>3. QED
  BY <1>1, <1>2

\* A step that does not change what is saved or drawn, and stops no writer.
LEMMA StepDrawn ==
  ASSUME IInv, NEW o \in Ops, NEW z \in Operations, op' = [op EXCEPT ![o] = z],
         ~(Switches(op[o]) /\ op[o].at = "stop"),
         UNCHANGED <<assigned, drawing, mixed, unsaved>>
  PROVE  DrawnIsSaved'
<1> USE DEF IInv, TypeOK
<1> SUFFICES ASSUME NEW s \in Surfaces \ (mixed \cup unsaved), drawing[s] # None,
                    assigned[s] # drawing[s]
             PROVE  \E p \in Ops : /\ Switches(op'[p]) /\ op'[p].surface = s
                                   /\ op'[p].at = "stop"
  BY DEF DrawnIsSaved, Switches
<1>1. PICK p \in Ops : Switches(op[p]) /\ op[p].surface = s /\ op[p].at = "stop"
  BY DEF DrawnIsSaved
<1>2. p # o
  BY <1>1
<1>3. op'[p] = op[p]
  BY <1>2
<1>4. QED
  BY <1>1, <1>3

\* A step that changes neither file nor what is drawn or held.
LEMMA CalmStep ==
  ASSUME IInv, NEW o \in Ops, op[o].at # "done",
         NEW z \in Operations, op' = [op EXCEPT ![o] = z], WellFormed(z), InOrder(z),
         z.touches \subseteq op[o].touches, ~(Switches(op[o]) /\ op[o].at = "stop"),
         UNCHANGED <<fileVars, held, drawing, booting, historyVars>>
  PROVE  DrawnIsSaved' /\ AllInOrder' /\ BlackoutHolds'
<1> USE DEF IInv, TypeOK
<1>1. DrawnIsSaved'
  BY StepDrawn
<1>2. AllInOrder'
  <2> SUFFICES ASSUME NEW p \in Ops PROVE InOrder(op[p])'
    BY DEF AllInOrder
  <2>1. op'[p] = op[p] \/ op'[p] = z
    OBVIOUS
  <2>2. InOrder(op[p]) /\ InOrder(z)
    BY DEF AllInOrder
  <2>3. SavedFirst(op[p])' /\ StoppedFirst(op[p])'
    BY <2>1, <2>2 DEF InOrder, SavedFirst, StoppedFirst, Switches
  <2>4. SameIsSaved(op[p])'
    BY <2>1, <2>2 DEF InOrder, SameIsSaved
  <2>5. LeavesBlack(op[p])' /\ DarkenedFirst(op[p])'
    BY <2>1, <2>2 DEF InOrder, LeavesBlack, DarkenedFirst
  <2>6. QED
    BY <2>3, <2>4, <2>5 DEF InOrder
<1>3. BlackoutHolds'
  BY DEF BlackoutHolds
<1>4. QED
  BY <1>1, <1>2, <1>3

LEMMA CalmAction ==
  ASSUME IInv, NEW o \in Ops, op[o].at # "done",
         NEW z \in Operations, op' = [op EXCEPT ![o] = z], WellFormed(z), InOrder(z),
         z.touches \subseteq op[o].touches, ~(Switches(op[o]) /\ op[o].at = "stop"),
         UNCHANGED <<fileVars, held, drawing, booting, begun, restarts, historyVars>>,
         reserved' \in [Surfaces -> Drawn], faults' \in 0..MaxFaults,
         \A s \in Surfaces : reserved'[s] # None =>
           \/ Owns(z, s)
           \/ reserved[s] # None /\ ~Owns(op[o], s)
  PROVE  IInv'
<1>1. op' \in [Ops -> Operations] /\ Formed' /\ BootAlone' /\ OneToucher'
  BY StepFrame
<1>2. ReservedOwned'
  BY StepOwned
<1>3. DrawnIsSaved' /\ AllInOrder' /\ BlackoutHolds'
  BY CalmStep
<1>4. TypeOK'
  BY <1>1 DEF IInv, TypeOK
<1>5. QED
  BY <1>1, <1>2, <1>3, <1>4 DEF IInv

\* Where the steps lead that a job goes through.
LEMMA StepsAfter ==
  ASSUME NEW job
  PROVE  /\ StepAfter(job, "reserve") = "read"
         /\ StepAfter(job, "read") = IF job = "clear" THEN "remove" ELSE "save"
         /\ StepAfter(job, "save") = IF job = "prepare" THEN "next" ELSE "stop"
         /\ StepAfter(job, "stop") = IF job = "clear" THEN "read" ELSE "start"
         /\ StepAfter(job, "start") = "read held" /\ StepAfter(job, "remove") = "read held"
         /\ StepAfter(job, "darken") = "read held" /\ StepAfter(job, "settle") = "read held"
         /\ StepAfter(job, "read held") =
              IF job \in {"blackout", "hold"} THEN "hold" ELSE "unhold"
         /\ StepAfter(job, "unhold") = "light" /\ StepAfter(job, "hold") = "next"
  BY DEF StepAfter

LEMMA EndStep ==
  ASSUME IInv, NEW o \in Ops, End(o)
  PROVE  /\ NoOperation \in Operations /\ op' = [op EXCEPT ![o] = NoOperation]
         /\ WellFormed(NoOperation) /\ InOrder(NoOperation)
         /\ NoOperation.touches \subseteq op[o].touches
         /\ \A s \in Surfaces : ~Owns(NoOperation, s)
  BY NoOperationType, NoOperationInOrder, NoOperationFields DEF End, Owns

\* An operation that goes on with its next surface, in the same or another job.
LEMMA NextStep ==
  ASSUME IInv, NEW o \in Ops, op[o].at # "done",
         NEW y \in Operations, NextSurface(o, y), y.touches = op[o].touches,
         op[o].job = "blackout" => y.job = "blackout", Steady(y), SameLeft(y)
  PROVE  \E z \in Operations :
           /\ op' = [op EXCEPT ![o] = z] /\ WellFormed(z) /\ InOrder(z)
           /\ z.touches \subseteq op[o].touches
           /\ Reached(y, "next", z)
<1>1. y.job # "none"
  BY DEF Steady
<1>2. PICK z \in Operations : op' = [op EXCEPT ![o] = z] /\ Reached(y, "next", z)
  BY <1>1, NextSurfaceReaches DEF IInv
<1>3. LeavesBlack(y)
  BY DEF IInv, AllInOrder, InOrder, LeavesBlack
<1>4. WellFormed(z) /\ InOrder(z)
  BY <1>2, <1>3, NextFormed, NextInOrder
<1>5. z.touches \subseteq op[o].touches
  BY <1>2, NoOperationFields DEF Reached, Over, Through, Another, Alike
<1>6. QED
  BY <1>2, <1>4, <1>5

\* What an operation has noted of its surface does not change what it is about.
SameWork(x, y) ==
  /\ y.job = x.job /\ y.at = x.at /\ y.surface = x.surface /\ y.todo = x.todo
  /\ y.content = x.content /\ y.touches = x.touches /\ y.same = x.same

LEMMA SameWorkSteady ==
  ASSUME IInv, NEW o \in Ops, op[o].at # "done", NEW y \in Operations, SameWork(op[o], y),
         y.pending \subseteq y.touches \/ y.pending = op[o].pending
  PROVE  Steady(y) /\ SameLeft(y) /\ op[o] \in Operations /\ Steady(op[o]) /\ AtItsStep(op[o])
<1>1. Steady(op[o]) /\ AtItsStep(op[o])
  BY InProgressSteady DEF IInv
<1>2. Steady(y)
  BY <1>1 DEF Steady, SameWork
<1>3. SameIsSaved(op[o])
  BY DEF IInv, AllInOrder, InOrder
<1>4. SameLeft(y)
  BY <1>3 DEF SameIsSaved, SameLeft, SameWork
<1>5. QED
  BY <1>1, <1>2, <1>4 DEF IInv, TypeOK

\* An operation that goes on with its surface.
LEMMA OnwardStep ==
  ASSUME IInv, NEW o \in Ops, NEW y \in Operations, y.job # "none", Go(o, y),
         NEW step \in StepNames, StepAfter(op[o].job, op[o].at) = step
  PROVE  \E z \in Operations : op' = [op EXCEPT ![o] = z] /\ Onward(y, step, z)
<1>1. GoTo(o, y, step)
  BY Zenon DEF Go
<1>2. step # "next"
  BY DEF StepNames
<1>3. QED
  BY <1>1, <1>2, GoToReaches DEF IInv, Reached

-----------------------------------------------------------------------------
LEMMA ReserveStep == ASSUME IInv, NEW o \in Ops, Reserve(o) PROVE IInv'
<1> DEFINE x == op[o]
<1>1. x \in Operations /\ x.at = "reserve" /\ Steady(x) /\ AtItsStep(x) /\ InOrder(x)
  BY InProgressSteady DEF Reserve, IInv, TypeOK, AllInOrder
<1>2. x.job = "apply"
  <2>1. x.job \in {"apply", "clear", "blackout", "prepare", "swap", "hold"}
    BY <1>1 DEF Steady, Operations, Jobs
  <2>2. QED
    BY <1>1, <2>1 DEF AtItsStep
<1>3. CASE End(o) /\ UNCHANGED reserved
  BY <1>1, <1>2, <1>3, EndStep, CalmAction DEF Reserve, Switches, IInv, TypeOK, Owns
<1>4. CASE Continue(o) /\ reserved' = [reserved EXCEPT ![Surface(o)] = x.content]
  <2>1. StepAfter(x.job, x.at) = "read" /\ "read" \in StepNames
    BY <1>1, StepsAfter, ZenonT(30) DEF StepNames
  <2>2. PICK z \in Operations : op' = [op EXCEPT ![o] = z] /\ Onward(x, "read", z)
    BY <1>1, <1>4, <2>1, OnwardStep DEF Continue, Steady
  <2>3. WellFormed(z)
    BY <1>1, <1>2, <2>2 DEF Onward, Alike, WellFormed, Steady, AtItsStep
  <2>4. InOrder(z)
    BY <1>1, <1>2, <2>2
    DEF Onward, Alike, InOrder, SavedFirst, StoppedFirst, SameIsSaved, LeavesBlack,
        DarkenedFirst
  <2>5. z.touches \subseteq x.touches
    BY <2>2 DEF Onward, Alike
  <2>6. reserved' \in [Surfaces -> Drawn]
    BY <1>1, <1>4 DEF IInv, TypeOK, Operations
  <2>7. ASSUME NEW s \in Surfaces, reserved'[s] # None
        PROVE  Owns(z, s) \/ (reserved[s] # None /\ ~Owns(x, s))
    BY <1>1, <1>2, <1>4, <2>2, <2>7 DEF Owns, Onward, Alike, IInv, TypeOK
  <2>8. UNCHANGED <<fileVars, held, drawing, booting, begun, faults, restarts, historyVars>>
    BY DEF Reserve
  <2>9. QED
    BY <1>1, <2>2, <2>3, <2>4, <2>5, <2>6, <2>7, <2>8, CalmAction DEF IInv, TypeOK
<1>5. QED
  BY <1>3, <1>4 DEF Reserve

LEMMA ReadStep == ASSUME IInv, NEW o \in Ops, Read(o) PROVE IInv'
<1> DEFINE x == op[o]
           y == [x EXCEPT !.seen = assigned]
           step == IF x.job = "clear" THEN "remove" ELSE "save"
<1>1. x.at = "read"
  BY DEF Read
<1>2. x \in Operations /\ Steady(x) /\ AtItsStep(x) /\ InOrder(x)
  BY <1>1, InProgressSteady DEF IInv, TypeOK, AllInOrder
<1>3. x.job \in {"apply", "clear", "swap", "prepare"}
  BY <1>1, <1>2 DEF AtItsStep, Steady, Operations, Jobs
<1>4. y \in Operations /\ SameWork(x, y)
  BY <1>2 DEF IInv, TypeOK, Operations, SameWork
<1>5. StepAfter(x.job, x.at) = step /\ step \in StepNames
  <2>1. StepAfter(x.job, "read") = step
    BY StepsAfter, Zenon
  <2>2. step \in StepNames
    BY DEF StepNames
  <2>3. QED
    BY <1>1, <2>1, <2>2
<1>6. PICK z \in Operations : op' = [op EXCEPT ![o] = z] /\ Onward(y, step, z)
  BY <1>2, <1>4, <1>5, OnwardStep DEF Read, Steady, SameWork
<1>7. /\ z.job = x.job /\ z.at = step /\ z.surface = x.surface /\ z.todo = x.todo
      /\ z.content = x.content /\ z.touches = x.touches /\ z.same = x.same
      /\ z.pending = x.pending
  BY <1>2, <1>4, <1>6 DEF Onward, Alike, SameWork, Operations
<1>8. Steady(z)
  BY <1>2, <1>7 DEF Steady
<1>9. AtItsStep(z)
  BY <1>1, <1>2, <1>3, <1>7 DEF AtItsStep
<1>10. InOrder(z)
  BY <1>1, <1>2, <1>3, <1>7
  DEF InOrder, SavedFirst, StoppedFirst, SameIsSaved, LeavesBlack, DarkenedFirst, Switches
<1>11. \A s \in Surfaces : Owns(x, s) => Owns(z, s)
  BY <1>1, <1>3, <1>7 DEF Owns
<1>12. UNCHANGED <<fileVars, surfaceVars, booting, boundVars, historyVars>>
  BY DEF Read
<1>13. QED
  BY <1>1, <1>6, <1>7, <1>8, <1>9, <1>10, <1>11, <1>12, CalmAction
  DEF WellFormed, IInv, TypeOK

LEMMA SaveFailsStep == ASSUME IInv, NEW o \in Ops, SaveFails(o) PROVE IInv'
<1> DEFINE x == op[o]
<1>1. x.at \in {"save", "remove"}
  BY DEF SaveFails
<1>2. x \in Operations /\ Steady(x) /\ SameLeft(x) /\ AtItsStep(x)
  BY <1>1, SameWorkSteady DEF IInv, TypeOK, SameWork
<1>3. x.job \in {"apply", "clear", "swap", "prepare"}
  BY <1>1, <1>2 DEF AtItsStep, Steady, Operations, Jobs
<1>4. PICK z \in Operations :
        /\ op' = [op EXCEPT ![o] = z] /\ WellFormed(z) /\ InOrder(z)
        /\ z.touches \subseteq x.touches
        /\ Reached(x, "next", z)
  BY <1>1, <1>2, NextStep DEF SaveFails, GiveUpSurface
<1>5. /\ faults' \in 0..MaxFaults /\ reserved' \in [Surfaces -> Drawn]
      /\ UNCHANGED <<fileVars, held, drawing, booting, begun, restarts, historyVars>>
  BY <1>2, BoundsAssumption DEF SaveFails, Fault, IInv, TypeOK, Steady, Drawn
<1>6. ASSUME NEW s \in Surfaces, reserved'[s] # None
      PROVE  Owns(z, s) \/ (reserved[s] # None /\ ~Owns(x, s))
  <2>1. reserved[s] # None /\ (x.job \in {"apply", "swap"} => s # x.surface)
    BY <1>2, <1>6 DEF SaveFails, IInv, TypeOK, Steady
  <2>2. CASE s \in x.todo /\ x.job = "swap"
    BY <1>4, <2>2, FirstSteps DEF Reached, Over, Through, Another, Alike, Owns
  <2>3. CASE ~(s \in x.todo /\ x.job = "swap")
    BY <2>1, <2>3 DEF Owns
  <2>4. QED
    BY <2>2, <2>3
<1>7. QED
  BY <1>1, <1>4, <1>5, <1>6, CalmAction

LEMMA StartFailsStep == ASSUME IInv, NEW o \in Ops, StartFails(o) PROVE IInv'
<1> DEFINE x == op[o]
<1>1. x.at = "start"
  BY DEF StartFails
<1>2. x \in Operations /\ Steady(x) /\ SameLeft(x) /\ AtItsStep(x)
  BY <1>1, SameWorkSteady DEF IInv, TypeOK, SameWork
<1>3. PICK z \in Operations :
        /\ op' = [op EXCEPT ![o] = z] /\ WellFormed(z) /\ InOrder(z)
        /\ z.touches \subseteq x.touches
        /\ Reached(x, "next", z)
  BY <1>1, <1>2, NextStep DEF StartFails, GiveUpSurface
<1>4. /\ faults' \in 0..MaxFaults /\ reserved' \in [Surfaces -> Drawn]
      /\ UNCHANGED <<fileVars, held, drawing, booting, begun, restarts, historyVars>>
  BY <1>2, BoundsAssumption DEF StartFails, Fault, IInv, TypeOK, Steady, Drawn
<1>5. ASSUME NEW s \in Surfaces, reserved'[s] # None
      PROVE  Owns(z, s) \/ (reserved[s] # None /\ ~Owns(x, s))
  <2>1. reserved[s] # None /\ s # x.surface
    BY <1>2, <1>5 DEF StartFails, IInv, TypeOK, Steady
  <2>2. CASE s \in x.todo /\ x.job = "swap"
    BY <1>3, <2>2, FirstSteps DEF Reached, Over, Through, Another, Alike, Owns
  <2>3. CASE ~(s \in x.todo /\ x.job = "swap")
    BY <2>1, <2>3 DEF Owns
  <2>4. QED
    BY <2>2, <2>3
<1>6. QED
  BY <1>1, <1>3, <1>4, <1>5, CalmAction

LEMMA ReadHeldStep == ASSUME IInv, NEW o \in Ops, ReadHeld(o) PROVE IInv'
<1> DEFINE x == op[o]
           y == [x EXCEPT !.seenHeld = heldDisk]
           step == IF x.job \in {"blackout", "hold"} THEN "hold" ELSE "unhold"
<1>1. x.at = "read held"
  BY DEF ReadHeld
<1>2. x \in Operations /\ Steady(x) /\ AtItsStep(x) /\ InOrder(x)
  BY <1>1, InProgressSteady DEF IInv, TypeOK, AllInOrder
<1>3. x.job \in Jobs \ {"none"}
  BY <1>2 DEF Steady, Operations
<1>4. y \in Operations /\ SameWork(x, y)
  BY <1>2 DEF IInv, TypeOK, Operations, SameWork
<1>5. StepAfter(x.job, x.at) = step /\ step \in StepNames
  <2>1. StepAfter(x.job, "read held") = step
    BY StepsAfter, Zenon
  <2>2. step \in StepNames
    BY DEF StepNames
  <2>3. QED
    BY <1>1, <2>1, <2>2
<1>6. PICK z \in Operations : op' = [op EXCEPT ![o] = z] /\ Onward(y, step, z)
  BY <1>2, <1>4, <1>5, OnwardStep DEF ReadHeld, Steady, SameWork
<1>7. /\ z.job = x.job /\ z.at = step /\ z.surface = x.surface /\ z.todo = x.todo
      /\ z.content = x.content /\ z.touches = x.touches /\ z.same = x.same
      /\ z.pending = x.pending
  BY <1>2, <1>4, <1>6 DEF Onward, Alike, SameWork, Operations
<1>8. Steady(z)
  BY <1>2, <1>7 DEF Steady
<1>9. AtItsStep(z)
  BY <1>1, <1>2, <1>3, <1>7 DEF AtItsStep, Jobs
<1>10. InOrder(z)
  BY <1>1, <1>2, <1>3, <1>7
  DEF InOrder, SavedFirst, StoppedFirst, SameIsSaved, LeavesBlack, DarkenedFirst, Switches
<1>11. \A s \in Surfaces : Owns(x, s) => Owns(z, s)
  BY <1>1, <1>3, <1>7 DEF Owns
<1>12. UNCHANGED <<fileVars, surfaceVars, booting, boundVars, historyVars>>
  BY DEF ReadHeld
<1>13. QED
  BY <1>1, <1>6, <1>7, <1>8, <1>9, <1>10, <1>11, <1>12, CalmAction
  DEF WellFormed, IInv, TypeOK

\* What follows the update of a flag, and a failed one, changes only the operation.
LEMMA FlagDoneStep ==
  ASSUME IInv, NEW o \in Ops, FlagDone(o), op[o].at \in {"hold", "unhold", "light"}
  PROVE  \E z \in Operations :
           /\ op' = [op EXCEPT ![o] = z] /\ WellFormed(z) /\ InOrder(z)
           /\ z.touches \subseteq op[o].touches
           /\ \A s \in Surfaces : Owns(op[o], s) => Owns(z, s)
           /\ z.at \notin {"hold", "read held"}
<1> DEFINE x == op[o]
<1>1. x \in Operations /\ Steady(x) /\ SameLeft(x) /\ AtItsStep(x) /\ InOrder(x)
  BY SameWorkSteady DEF IInv, TypeOK, SameWork, AllInOrder
<1>2. CASE GoTo(o, x, "next")
  <2>1. NextSurface(o, x)
    BY <1>2 DEF GoTo
  <2>2. PICK z \in Operations :
          /\ op' = [op EXCEPT ![o] = z] /\ WellFormed(z) /\ InOrder(z)
          /\ z.touches \subseteq x.touches
          /\ Reached(x, "next", z)
    BY <1>1, <2>1, NextStep
  <2>3. \A s \in Surfaces : Owns(x, s) => Owns(z, s)
    BY <2>2, FirstSteps DEF Reached, Over, Through, Another, Alike, Owns
  <2>4. z.at \notin {"hold", "read held"}
    <3>1. CASE Over(x, z)
      BY <3>1, NoOperationFields DEF Over
    <3>2. CASE Through(x, z)
      BY <3>2 DEF Through, LastStep
    <3>3. CASE Another(x, z)
      <4>1. z.at = FirstStep(x, z.surface) /\ x.job \in Jobs \ {"none"}
        BY <1>1, <3>3 DEF Another, Steady, Operations
      <4>2. QED
        BY <4>1 DEF FirstStep, Jobs
    <3>4. QED
      BY <2>2, <3>1, <3>2, <3>3 DEF Reached
  <2>5. QED
    BY <2>2, <2>3, <2>4
<1>3. CASE x.job = "prepare" /\ GoTo(o, x, "read")
  <2>1. "read" \in StepNames
    BY DEF StepNames
  <2>2. PICK z \in Operations : op' = [op EXCEPT ![o] = z] /\ Onward(x, "read", z)
    BY <1>1, <1>3, <2>1, GoToReaches DEF IInv, Reached, Steady
  <2>3. Steady(z) /\ AtItsStep(z)
    BY <1>1, <1>3, <2>2 DEF Onward, Alike, Steady, AtItsStep
  <2>4. InOrder(z)
    BY <1>1, <1>3, <2>2
    DEF Onward, Alike, InOrder, SavedFirst, StoppedFirst, SameIsSaved, LeavesBlack,
        DarkenedFirst, Switches
  <2>5. QED
    BY <1>3, <2>2, <2>3, <2>4 DEF WellFormed, Onward, Alike, Owns
<1>4. QED
  BY <1>2, <1>3 DEF FlagDone

LEMMA WriteHeldFailsStep == ASSUME IInv, NEW o \in Ops, WriteHeldFails(o) PROVE IInv'
<1>1. op[o].at \in {"hold", "unhold"} /\ FlagDone(o)
  BY DEF WriteHeldFails
<1>2. PICK z \in Operations :
        /\ op' = [op EXCEPT ![o] = z] /\ WellFormed(z) /\ InOrder(z)
        /\ z.touches \subseteq op[o].touches
        /\ \A s \in Surfaces : Owns(op[o], s) => Owns(z, s)
  BY <1>1, FlagDoneStep
<1>3. /\ faults' \in 0..MaxFaults
      /\ UNCHANGED <<fileVars, surfaceVars, booting, begun, restarts, historyVars>>
  BY BoundsAssumption DEF WriteHeldFails, Fault, IInv, TypeOK
<1>4. QED
  BY <1>1, <1>2, <1>3, CalmAction DEF IInv, TypeOK

LEMMA SettleStep == ASSUME IInv, NEW o \in Ops, Settle(o) PROVE IInv'
<1> DEFINE x == op[o]
<1>1. x.at = "settle"
  BY DEF Settle
<1>2. x \in Operations /\ Steady(x) /\ AtItsStep(x) /\ InOrder(x)
  BY <1>1, InProgressSteady DEF IInv, TypeOK, AllInOrder
<1>3. x.job = "prepare"
  BY <1>1, <1>2 DEF AtItsStep, Steady, Operations, Jobs
<1>4. StepAfter(x.job, x.at) = "read held" /\ "read held" \in StepNames
  <2>1. StepAfter(x.job, "settle") = "read held"
    BY StepsAfter, Zenon
  <2>2. QED
    BY <1>1, <2>1 DEF StepNames
<1>5. PICK z \in Operations : op' = [op EXCEPT ![o] = z] /\ Onward(x, "read held", z)
  BY <1>2, <1>4, OnwardStep DEF Settle, Continue, Steady
<1>6. Steady(z) /\ AtItsStep(z)
  BY <1>1, <1>2, <1>3, <1>5 DEF Onward, Alike, Steady, AtItsStep
<1>7. InOrder(z)
  BY <1>1, <1>2, <1>3, <1>5
  DEF Onward, Alike, InOrder, SavedFirst, StoppedFirst, SameIsSaved, LeavesBlack,
      DarkenedFirst, Switches
<1>8. z.touches = x.touches /\ \A s \in Surfaces : ~Owns(x, s)
  BY <1>3, <1>5 DEF Onward, Alike, Owns
<1>9. UNCHANGED <<fileVars, surfaceVars, booting, boundVars, historyVars>>
  BY DEF Settle
<1>10. QED
  BY <1>1, <1>5, <1>6, <1>7, <1>8, <1>9, CalmAction DEF WellFormed, IInv, TypeOK

LEMMA ValidateStep == ASSUME IInv, NEW o \in Ops, Validate(o) PROVE IInv'
<1> DEFINE x == op[o]
           valid == [x EXCEPT !.pending = x.pending \cup {x.surface}]
<1>1. x.at \in {"validate", "settle"}
  BY DEF Validate
<1>2. x \in Operations /\ Steady(x) /\ AtItsStep(x)
  BY <1>1, InProgressSteady DEF IInv, TypeOK
<1>3. x.job = "prepare"
  BY <1>1, <1>2 DEF AtItsStep, Steady, Operations, Jobs
<1>4. PICK y \in {valid, x} : NextSurface(o, y)
  BY DEF Validate
<1>5. y \in Operations /\ SameWork(x, y) /\ y.pending \subseteq y.touches
  BY <1>2, <1>3 DEF SameWork, Operations, Steady
<1>6. Steady(y) /\ SameLeft(y) /\ y.touches = x.touches
  BY <1>1, <1>5, SameWorkSteady DEF SameWork
<1>7. PICK z \in Operations :
        /\ op' = [op EXCEPT ![o] = z] /\ WellFormed(z) /\ InOrder(z)
        /\ z.touches \subseteq x.touches
  BY <1>1, <1>3, <1>4, <1>5, <1>6, NextStep
<1>8. \A s \in Surfaces : ~Owns(x, s)
  BY <1>3 DEF Owns
<1>9. UNCHANGED <<fileVars, surfaceVars, booting, boundVars, historyVars>>
  BY DEF Validate
<1>10. QED
  BY <1>1, <1>7, <1>8, <1>9, CalmAction DEF IInv, TypeOK

LEMMA ReserveAllStep == ASSUME IInv, NEW o \in Ops, ReserveAll(o) PROVE IInv'
<1> DEFINE x == op[o]
           y == [x EXCEPT !.job = "swap", !.todo = x.pending, !.same = {}, !.pending = {}]
<1>1. x.at = "reserve all"
  BY DEF ReserveAll
<1>2. x \in Operations /\ Steady(x) /\ AtItsStep(x)
  BY <1>1, InProgressSteady DEF IInv, TypeOK
<1>3. x.job = "prepare"
  BY <1>1, <1>2 DEF AtItsStep, Steady, Operations, Jobs
<1>4. \A s \in Surfaces : ~Owns(x, s)
  BY <1>3 DEF Owns
<1>5. CASE End(o) /\ UNCHANGED reserved
  BY <1>1, <1>4, <1>5, EndStep, CalmAction DEF ReserveAll, IInv, TypeOK
<1>6. CASE /\ reserved' = [s \in Surfaces |-> IF s \in x.pending THEN x.content ELSE reserved[s]]
           /\ NextSurface(o, y)
  <2>1. y \in Operations
    BY <1>2 DEF Operations, Jobs
  <2>2. /\ y.job = "swap" /\ y.todo = x.pending /\ y.touches = x.touches
        /\ y.surface = x.surface /\ y.content = x.content
    BY <1>2 DEF Operations
  <2>3. Steady(y) /\ SameLeft(y)
    BY <1>2, <1>3, <2>2 DEF Steady, SameLeft
  <2>4. PICK z \in Operations :
          /\ op' = [op EXCEPT ![o] = z] /\ WellFormed(z) /\ InOrder(z)
          /\ z.touches \subseteq x.touches
          /\ Reached(y, "next", z)
    BY <1>1, <1>3, <1>6, <2>1, <2>2, <2>3, NextStep
  <2>5. reserved' \in [Surfaces -> Drawn]
    BY <1>2, <1>6 DEF Operations, IInv, TypeOK
  <2>6. ASSUME NEW s \in Surfaces, reserved'[s] # None
        PROVE  Owns(z, s) \/ reserved[s] # None
    <3>1. CASE s \in x.pending
      BY <2>2, <2>4, <3>1, FirstSteps DEF Reached, Over, Through, Another, Alike, Owns
    <3>2. CASE s \notin x.pending
      BY <1>6, <2>6, <3>2
    <3>3. QED
      BY <3>1, <3>2
  <2>7. UNCHANGED <<fileVars, held, drawing, booting, boundVars, historyVars>>
    BY DEF ReserveAll
  <2>8. QED
    BY <1>1, <1>4, <2>4, <2>5, <2>6, <2>7, CalmAction DEF IInv, TypeOK
<1>7. QED
  BY <1>5, <1>6 DEF ReserveAll

LEMMA HoldOthersStep == ASSUME IInv, NEW o \in Ops, HoldOthers(o) PROVE IInv'
<1> DEFINE x == op[o]
           y == [x EXCEPT !.job = "hold", !.todo = OutOfStep(o)]
<1>1. x.at = "hold others"
  BY DEF HoldOthers
<1>2. x \in Operations /\ Steady(x) /\ AtItsStep(x)
  BY <1>1, InProgressSteady DEF IInv, TypeOK
<1>3. x.job = "swap" /\ x.todo = {}
  BY <1>1, <1>2 DEF AtItsStep, Steady, Operations, Jobs
<1>4. \A s \in Surfaces : ~Owns(x, s)
  BY <1>1, <1>3 DEF Owns
<1>5. UNCHANGED <<fileVars, surfaceVars, booting, boundVars, historyVars>>
  BY DEF HoldOthers
<1>6. CASE End(o)
  BY <1>1, <1>4, <1>5, <1>6, EndStep, CalmAction DEF IInv, TypeOK
<1>7. CASE NextSurface(o, y)
  <2>1. OutOfStep(o) \in SUBSET Surfaces
    BY DEF OutOfStep
  <2>2. y \in Operations
    BY <1>2, <2>1 DEF Operations, Jobs
  <2>3. /\ y.job = "hold" /\ y.touches = x.touches /\ y.surface = x.surface
        /\ y.content = x.content
    BY <1>2 DEF Operations
  <2>4. Steady(y) /\ SameLeft(y)
    BY <1>2, <2>3 DEF Steady, SameLeft
  <2>5. PICK z \in Operations :
          /\ op' = [op EXCEPT ![o] = z] /\ WellFormed(z) /\ InOrder(z)
          /\ z.touches \subseteq x.touches
    BY <1>1, <1>3, <1>7, <2>2, <2>3, <2>4, NextStep
  <2>6. QED
    BY <1>1, <1>4, <1>5, <2>5, CalmAction DEF IInv, TypeOK
<1>8. QED
  BY <1>6, <1>7 DEF HoldOthers

-----------------------------------------------------------------------------
\* A surface that is not mixed is the business of no other operation.
LEMMA Alone ==
  ASSUME IInv, NEW o \in Ops, NEW p \in Ops, p # o, NEW s \in Surfaces \ mixed,
         s \in op[o].touches
  PROVE  /\ s \notin op[p].touches
         /\ op[p].job \notin {"none", "hold"} => op[p].surface # s /\ s \notin op[p].todo
<1>1. s \notin op[p].touches
  BY DEF IInv, OneToucher
<1>2. WellFormed(op[p])
  BY DEF IInv, Formed
<1>3. QED
  BY <1>1, <1>2, NoOperationFields DEF WellFormed, Steady

LEMMA DarkenStep == ASSUME IInv, NEW o \in Ops, Darken(o) PROVE IInv'
<1> DEFINE x == op[o]
<1>1. x.at = "darken"
  BY DEF Darken
<1>2. x \in Operations /\ Steady(x) /\ AtItsStep(x) /\ InOrder(x)
  BY <1>1, InProgressSteady DEF IInv, TypeOK, AllInOrder
<1>3. x.job \in {"blackout", "hold"}
  BY <1>1, <1>2 DEF AtItsStep, Steady, Operations, Jobs
<1>4. StepAfter(x.job, x.at) = "read held" /\ "read held" \in StepNames
  <2>1. StepAfter(x.job, "darken") = "read held"
    BY StepsAfter, Zenon
  <2>2. QED
    BY <1>1, <2>1 DEF StepNames
<1>5. PICK z \in Operations : op' = [op EXCEPT ![o] = z] /\ Onward(x, "read held", z)
  BY <1>2, <1>4, OnwardStep DEF Darken, Continue, Steady
<1>6. /\ z.job = x.job /\ z.at = "read held" /\ z.surface = x.surface /\ z.todo = x.todo
      /\ z.touches = x.touches
  BY <1>5 DEF Onward, Alike
<1>7. WellFormed(z)
  BY <1>1, <1>2, <1>3, <1>5 DEF Onward, Alike, Steady, AtItsStep, WellFormed
<1>8. /\ held' = held \cup {x.surface} /\ x.surface \in Surfaces
      /\ UNCHANGED <<fileVars, drawing, reserved, booting, boundVars, historyVars>>
  BY <1>2 DEF Darken, Steady
<1>9. op' \in [Ops -> Operations] /\ Formed' /\ BootAlone' /\ OneToucher'
  BY <1>1, <1>5, <1>6, <1>7, <1>8, StepFrame
<1>10. ReservedOwned'
  BY <1>3, <1>5, <1>8, StepOwned DEF Owns
<1>11. DrawnIsSaved'
  BY <1>1, <1>5, <1>8, StepDrawn
<1>12. AllInOrder'
  <2> SUFFICES ASSUME NEW p \in Ops PROVE InOrder(op[p])'
    BY DEF AllInOrder
  <2>1. InOrder(op[p]) /\ (op'[p] = op[p] \/ op'[p] = z)
    BY <1>5 DEF IInv, TypeOK, AllInOrder
  <2>2. SavedFirst(op[p])' /\ StoppedFirst(op[p])'
    BY <1>3, <1>6, <1>8, <2>1 DEF InOrder, SavedFirst, StoppedFirst, Switches
  <2>3. SameIsSaved(op[p])' /\ LeavesBlack(op[p])'
    BY <1>2, <1>3, <1>6, <1>8, <2>1 DEF InOrder, SameIsSaved, LeavesBlack
  <2>4. DarkenedFirst(op[p])'
    BY <1>6, <1>8, <2>1 DEF InOrder, DarkenedFirst
  <2>5. QED
    BY <2>2, <2>3, <2>4 DEF InOrder
<1>13. TypeOK' /\ BlackoutHolds'
  BY <1>8, <1>9 DEF IInv, TypeOK, BlackoutHolds
<1>14. QED
  BY <1>9, <1>10, <1>11, <1>12, <1>13 DEF IInv

LEMMA LightStep == ASSUME IInv, NEW o \in Ops, Light(o) PROVE IInv'
<1> DEFINE x == op[o]
<1>1. x.at = "light" /\ FlagDone(o)
  BY DEF Light
<1>2. x \in Operations /\ Steady(x) /\ AtItsStep(x) /\ InOrder(x)
  BY <1>1, InProgressSteady DEF IInv, TypeOK, AllInOrder
<1>3. x.job \in {"apply", "clear", "swap", "prepare"}
  BY <1>1, <1>2 DEF AtItsStep, Steady, Operations, Jobs
<1>4. PICK z \in Operations :
        /\ op' = [op EXCEPT ![o] = z] /\ WellFormed(z) /\ InOrder(z)
        /\ z.touches \subseteq x.touches
        /\ \A s \in Surfaces : Owns(x, s) => Owns(z, s)
        /\ z.at \notin {"hold", "read held"}
  BY <1>1, FlagDoneStep
<1>5. /\ held' = held \ {x.surface}
      /\ UNCHANGED <<fileVars, drawing, reserved, booting, boundVars, historyVars>>
  BY DEF Light
<1>6. x.surface \in Surfaces \ blacked /\ x.surface \in x.touches
  BY <1>2, <1>3 DEF Steady, InOrder, LeavesBlack
<1>7. op' \in [Ops -> Operations] /\ Formed' /\ BootAlone' /\ OneToucher'
  BY <1>1, <1>4, <1>5, StepFrame
<1>8. ReservedOwned'
  BY <1>4, <1>5, StepOwned
<1>9. DrawnIsSaved'
  BY <1>1, <1>4, <1>5, StepDrawn
<1>10. AllInOrder'
  <2> SUFFICES ASSUME NEW p \in Ops PROVE InOrder(op[p])'
    BY DEF AllInOrder
  <2>1. /\ InOrder(op[p]) /\ (op'[p] = op[p] \/ op'[p] = z)
        /\ p # o => op'[p] = op[p]
        /\ p = o => op'[p] = z
    BY <1>4 DEF IInv, TypeOK, AllInOrder
  <2>2. SavedFirst(op[p])' /\ StoppedFirst(op[p])'
    <3>1. SavedFirst(op[p])'
      BY <1>4, <1>5, <2>1 DEF InOrder, SavedFirst, Switches
    <3>2. StoppedFirst(op'[p])
      BY <1>4, <2>1 DEF InOrder
    <3>3. StoppedFirst(op[p])'
      BY <1>5, <3>2 DEF StoppedFirst, Switches
    <3>4. QED
      BY <3>1, <3>3
  <2>3. SameIsSaved(op[p])' /\ LeavesBlack(op[p])'
    BY <1>4, <1>5, <2>1 DEF InOrder, SameIsSaved, LeavesBlack
  <2>4. CASE p = o
    BY <1>4, <2>1, <2>2, <2>3, <2>4 DEF InOrder, DarkenedFirst
  <2>5. CASE p # o
    <3>1. x.surface \notin mixed /\ op[p].job = "blackout" => op[p].surface # x.surface
      BY <1>6, <2>5, Alone
    <3>2. DarkenedFirst(op[p])'
      BY <1>5, <1>6, <2>1, <2>5, <3>1 DEF InOrder, DarkenedFirst
    <3>3. QED
      BY <2>2, <2>3, <3>2 DEF InOrder
  <2>6. QED
    BY <2>4, <2>5
<1>11. TypeOK' /\ BlackoutHolds'
  BY <1>5, <1>6, <1>7 DEF IInv, TypeOK, BlackoutHolds
<1>12. QED
  BY <1>7, <1>8, <1>9, <1>10, <1>11 DEF IInv

LEMMA WriteHeldStep == ASSUME IInv, NEW o \in Ops, WriteHeld(o) PROVE IInv'
<1> DEFINE x == op[o]
           s == x.surface
           y == [x EXCEPT !.seenHeld = {}]
<1>1. x.at \in {"hold", "unhold"}
  BY DEF WriteHeld
<1>2. x \in Operations /\ Steady(x) /\ AtItsStep(x) /\ InOrder(x)
  BY <1>1, InProgressSteady DEF IInv, TypeOK, AllInOrder
<1>3. /\ x.at = "hold" => x.job \in {"blackout", "hold"}
      /\ x.at = "unhold" => x.job \in {"apply", "clear", "swap", "prepare"}
  BY <1>1, <1>2 DEF AtItsStep, Steady, Operations, Jobs
<1>4. /\ heldDisk' = IF x.at = "hold" THEN x.seenHeld \cup {s} ELSE x.seenHeld \ {s}
      /\ erased' = (erased \ {s})
           \cup {t \in Surfaces \ {s} : (t \in x.seenHeld) # (t \in heldDisk)}
      /\ blacked' = IF x.job = "blackout" /\ s \notin mixed THEN blacked \cup {s}
                                                         ELSE blacked
      /\ Go(o, y)
      /\ UNCHANGED <<assigned, surfaceVars, booting, boundVars, mixed, unsaved>>
  BY DEF WriteHeld
<1>5. y \in Operations /\ SameWork(x, y) /\ y.pending = x.pending
  BY <1>2 DEF Operations, SameWork
<1>6. Steady(y) /\ SameLeft(y)
  BY <1>1, <1>5, SameWorkSteady
<1>7. PICK z \in Operations :
        /\ op' = [op EXCEPT ![o] = z] /\ WellFormed(z) /\ InOrder(z)
        /\ z.touches \subseteq x.touches
        /\ z.at \notin {"hold", "read held"}
        /\ x.job = "blackout" => z = NoOperation
        /\ \A t \in Surfaces : Owns(x, t) => Owns(z, t)
  <2>1. CASE x.at = "hold"
    <3>1. StepAfter(x.job, "hold") = "next"
      BY StepsAfter, Zenon
    <3>2. NextSurface(o, y)
      BY <1>4, <2>1, <3>1 DEF Go, GoTo
    <3>3. PICK z \in Operations :
            /\ op' = [op EXCEPT ![o] = z] /\ WellFormed(z) /\ InOrder(z)
            /\ z.touches \subseteq x.touches
            /\ Reached(y, "next", z)
      BY <1>1, <1>5, <1>6, <3>2, NextStep DEF SameWork
    <3>4. z.at \notin {"hold", "read held"} /\ (x.job = "blackout" => z = NoOperation)
      <4>1. y.job \in {"blackout", "hold"} /\ (y.job = "blackout" => y.todo = {})
        BY <1>3, <1>5, <1>6, <2>1 DEF SameWork, Steady
      <4>2. CASE Over(y, z)
        BY <4>2, NoOperationFields DEF Over
      <4>3. CASE Through(y, z)
        BY <4>1, <4>3 DEF Through
      <4>4. CASE Another(y, z)
        BY <1>5, <4>1, <4>4, FirstSteps DEF Another, SameWork
      <4>5. QED
        BY <3>3, <4>2, <4>3, <4>4 DEF Reached
    <3>5. \A t \in Surfaces : ~Owns(x, t)
      BY <1>3, <2>1 DEF Owns
    <3>6. QED
      BY <3>3, <3>4, <3>5
  <2>2. CASE x.at = "unhold"
    <3>1. StepAfter(x.job, "unhold") = "light"
      BY StepsAfter, Zenon
    <3>2. "light" \in StepNames
      BY DEF StepNames
    <3>3. PICK z \in Operations : op' = [op EXCEPT ![o] = z] /\ Onward(y, "light", z)
      BY <1>4, <1>5, <1>6, <2>2, <3>1, <3>2, OnwardStep DEF Steady
    <3>4. /\ z.job = x.job /\ z.at = "light" /\ z.surface = x.surface /\ z.todo = x.todo
          /\ z.content = x.content /\ z.touches = x.touches /\ z.same = x.same
          /\ z.pending = x.pending
      BY <1>5, <3>3 DEF Onward, Alike, SameWork
    <3>5. Steady(z)
      BY <1>2, <3>4 DEF Steady
    <3>6. AtItsStep(z)
      BY <1>2, <1>3, <2>2, <3>4 DEF AtItsStep
    <3>7. InOrder(z)
      BY <1>2, <1>3, <2>2, <3>4
      DEF InOrder, SavedFirst, StoppedFirst, SameIsSaved, LeavesBlack, DarkenedFirst, Switches
    <3>8. \A t \in Surfaces : Owns(x, t) => Owns(z, t)
      BY <2>2, <3>4 DEF Owns
    <3>9. QED
      BY <1>3, <2>2, <3>3, <3>4, <3>5, <3>6, <3>7, <3>8 DEF WellFormed
  <2>3. QED
    BY <1>1, <2>1, <2>2
<1>8. op' \in [Ops -> Operations] /\ Formed' /\ BootAlone' /\ OneToucher'
  BY <1>1, <1>4, <1>7, StepFrame
<1>9. ReservedOwned'
  BY <1>1, <1>4, <1>7, StepOwned
<1>10. DrawnIsSaved'
  BY <1>1, <1>4, <1>7, StepDrawn
<1>11. s \in Surfaces /\ (x.job # "hold" => s \in x.touches)
  BY <1>2 DEF Steady
<1>12. x.job = "blackout" /\ s \notin mixed => s \in held
  BY <1>1, <1>2, <1>3 DEF InOrder, DarkenedFirst
<1>13. AllInOrder'
  <2> SUFFICES ASSUME NEW p \in Ops PROVE InOrder(op[p])'
    BY DEF AllInOrder
  <2>1. InOrder(op'[p]) /\ (p # o => op'[p] = op[p]) /\ (p = o => op'[p] = z)
    BY <1>7 DEF IInv, TypeOK, AllInOrder
  <2>2. SavedFirst(op[p])'
    BY <1>4, <2>1 DEF InOrder, SavedFirst, Switches
  <2>3. StoppedFirst(op[p])'
    BY <1>4, <2>1 DEF InOrder, StoppedFirst, Switches
  <2>4. SameIsSaved(op[p])'
    BY <1>4, <2>1 DEF InOrder, SameIsSaved
  <2>5. LeavesBlack(op[p])'
    <3>1. x.job = "blackout" /\ s \notin mixed => s \notin op'[p].touches
      BY <1>7, <1>11, <2>1, Alone, NoOperationFields
    <3>2. LeavesBlack(op'[p])
      BY <2>1 DEF InOrder
    <3>3. QED
      BY <1>4, <3>1, <3>2 DEF LeavesBlack
  <2>6. DarkenedFirst(op[p])'
    <3>1. DarkenedFirst(op'[p])
      BY <2>1 DEF InOrder
    <3>2. QED
      BY <1>4, <1>12, <3>1 DEF DarkenedFirst
  <2>7. QED
    BY <2>2, <2>3, <2>4, <2>5, <2>6 DEF InOrder
<1>14. BlackoutHolds'
  <2> SUFFICES ASSUME NEW t \in blacked', t \notin erased'
               PROVE  t \in held /\ t \in heldDisk'
    BY <1>4 DEF BlackoutHolds
  <2>1. CASE t = s
    <3>1. x.job \in {"blackout", "hold"}
      BY <1>1, <1>2, <1>3, <1>4, <1>11, <2>1 DEF InOrder, LeavesBlack
    <3>2. x.at = "hold"
      BY <1>1, <1>3, <3>1
    <3>3. s \in held
      BY <1>2, <1>4, <1>12, <2>1, <3>1, <3>2 DEF InOrder, DarkenedFirst
    <3>4. QED
      BY <1>4, <2>1, <3>2, <3>3
  <2>2. CASE t # s
    <3>1. t \in blacked /\ t \in Surfaces
      BY <1>4, <2>2 DEF IInv, TypeOK
    <3>2. t \notin erased /\ (t \in x.seenHeld <=> t \in heldDisk)
      BY <1>4, <2>2, <3>1
    <3>3. t \in held /\ t \in heldDisk
      BY <3>1, <3>2 DEF IInv, BlackoutHolds
    <3>4. QED
      BY <1>4, <2>2, <3>2, <3>3
  <2>3. QED
    BY <2>1, <2>2
<1>15. TypeOK'
  BY <1>2, <1>4, <1>8, <1>11 DEF IInv, TypeOK, Operations
<1>16. QED
  BY <1>8, <1>9, <1>10, <1>13, <1>14, <1>15 DEF IInv

\* Where an operation stands after the write of its surface's entry.
LEMMA WriteLeads ==
  ASSUME IInv, NEW o \in Ops, NEW c, Write(o, c), op[o].at \in {"save", "remove"}
  PROVE  \E z \in Operations :
           /\ op' = [op EXCEPT ![o] = z] /\ WellFormed(z) /\ z.touches \subseteq op[o].touches
           /\ LeavesBlack(z) /\ DarkenedFirst(z) /\ StoppedFirst(z) /\ SameIsSaved(z)
           /\ Switches(op[o]) => /\ Switches(z) /\ z.at = "stop" /\ z.surface = op[o].surface
                                 /\ z.content = op[o].content
           /\ ~Switches(op[o]) => ~Switches(z)
           /\ z.job = "prepare" => op[o].job = "prepare" /\ z.content = op[o].content
           /\ \A s \in Surfaces : Owns(op[o], s) => Owns(z, s)
<1> DEFINE x == op[o]
           y == [x EXCEPT !.seen = Nothing]
<1>1. x \in Operations /\ Steady(x) /\ AtItsStep(x) /\ InOrder(x)
  BY InProgressSteady DEF IInv, TypeOK, AllInOrder
<1>2. y \in Operations /\ SameWork(x, y) /\ y.pending = x.pending
  BY <1>1, NothingType DEF Operations, SameWork
<1>3. Steady(y) /\ SameLeft(y)
  BY <1>2, SameWorkSteady
<1>4. Go(o, y)
  BY DEF Write
<1>5. CASE x.at = "save" /\ x.job # "prepare"
  <2>1. Switches(x)
    BY <1>1, <1>5 DEF AtItsStep, Steady, Operations, Jobs, Switches
  <2>2. StepAfter(x.job, "save") = "stop"
    BY <1>5, StepsAfter, Zenon
  <2>3. "stop" \in StepNames
    BY DEF StepNames
  <2>4. PICK z \in Operations : op' = [op EXCEPT ![o] = z] /\ Onward(y, "stop", z)
    BY <1>3, <1>4, <1>2, <1>5, <2>2, <2>3, OnwardStep DEF Steady
  <2>5. /\ z.job = x.job /\ z.at = "stop" /\ z.surface = x.surface /\ z.todo = x.todo
        /\ z.content = x.content /\ z.touches = x.touches /\ z.same = x.same
        /\ z.pending = x.pending
    BY <1>2, <2>4 DEF Onward, Alike, SameWork
  <2>6. Steady(z)
    BY <1>1, <2>5 DEF Steady
  <2>7. AtItsStep(z)
    BY <2>1, <2>5 DEF AtItsStep, Switches
  <2>8. LeavesBlack(z) /\ DarkenedFirst(z) /\ StoppedFirst(z) /\ SameIsSaved(z)
    BY <1>1, <2>1, <2>5
    DEF InOrder, StoppedFirst, SameIsSaved, LeavesBlack, DarkenedFirst, Switches
  <2>9. \A s \in Surfaces : Owns(x, s) => Owns(z, s)
    BY <1>5, <2>1, <2>5 DEF Owns, Switches
  <2>10. QED
    BY <2>1, <2>4, <2>5, <2>6, <2>7, <2>8, <2>9 DEF WellFormed, Switches
<1>6. CASE x.at = "save" /\ x.job = "prepare"
  <2>1. StepAfter(x.job, "save") = "next"
    BY <1>6, StepsAfter, Zenon
  <2>2. NextSurface(o, y)
    BY <1>4, <1>6, <2>1 DEF Go, GoTo
  <2>3. PICK z \in Operations :
          /\ op' = [op EXCEPT ![o] = z] /\ WellFormed(z) /\ InOrder(z)
          /\ z.touches \subseteq x.touches
          /\ Reached(y, "next", z)
    BY <1>2, <1>3, <1>6, <2>2, NextStep DEF SameWork
  <2>4. ~Switches(z) /\ z.content = x.content
    BY <1>2, <1>6, <2>3, NoOperationFields
    DEF Reached, Over, Through, Another, Alike, Switches, SameWork
  <2>5. \A s \in Surfaces : ~Owns(x, s)
    BY <1>6 DEF Owns
  <2>6. QED
    BY <1>6, <2>3, <2>4, <2>5 DEF InOrder, Switches
<1>7. CASE x.at = "remove"
  <2>1. x.job = "clear"
    BY <1>1, <1>7 DEF AtItsStep, Steady, Operations, Jobs
  <2>2. StepAfter(x.job, "remove") = "read held"
    BY StepsAfter, Zenon
  <2>3. "read held" \in StepNames
    BY DEF StepNames
  <2>4. PICK z \in Operations : op' = [op EXCEPT ![o] = z] /\ Onward(y, "read held", z)
    BY <1>3, <1>4, <1>2, <1>7, <2>2, <2>3, OnwardStep DEF Steady
  <2>5. /\ z.job = x.job /\ z.at = "read held" /\ z.surface = x.surface /\ z.todo = x.todo
        /\ z.content = x.content /\ z.touches = x.touches /\ z.same = x.same
        /\ z.pending = x.pending
    BY <1>2, <2>4 DEF Onward, Alike, SameWork
  <2>6. Steady(z)
    BY <1>1, <2>5 DEF Steady
  <2>7. AtItsStep(z)
    BY <2>1, <2>5 DEF AtItsStep
  <2>8. LeavesBlack(z) /\ DarkenedFirst(z) /\ StoppedFirst(z) /\ SameIsSaved(z)
    BY <1>1, <2>1, <2>5
    DEF InOrder, StoppedFirst, SameIsSaved, LeavesBlack, DarkenedFirst, Switches
  <2>9. ~Switches(x) /\ ~Switches(z) /\ \A s \in Surfaces : ~Owns(x, s)
    BY <2>1, <2>5 DEF Owns, Switches
  <2>10. QED
    BY <2>1, <2>4, <2>5, <2>6, <2>7, <2>8, <2>9 DEF WellFormed
<1>8. QED
  BY <1>5, <1>6, <1>7

LEMMA WriteStep ==
  ASSUME IInv, NEW o \in Ops, NEW c, Write(o, c),
         \/ op[o].at = "save" /\ c = op[o].content
         \/ op[o].at = "remove" /\ c = None
  PROVE  IInv'
<1> DEFINE x == op[o]
           s == x.surface
<1>1. x.at \in {"save", "remove"}
  OBVIOUS
<1>2. x \in Operations /\ Steady(x) /\ AtItsStep(x) /\ InOrder(x) /\ s \in Surfaces
  BY <1>1, InProgressSteady DEF IInv, TypeOK, AllInOrder, Steady
<1>3. /\ x.at = "save" => x.job \in {"apply", "swap", "prepare"}
      /\ x.at = "remove" => x.job = "clear"
  BY <1>1, <1>2 DEF AtItsStep, Steady, Operations, Jobs
<1>4. s \in x.touches
  BY <1>1, <1>2, <1>3 DEF Steady
<1>5. PICK z \in Operations :
        /\ op' = [op EXCEPT ![o] = z] /\ WellFormed(z) /\ z.touches \subseteq x.touches
        /\ LeavesBlack(z) /\ DarkenedFirst(z) /\ StoppedFirst(z) /\ SameIsSaved(z)
        /\ Switches(x) => /\ Switches(z) /\ z.at = "stop" /\ z.surface = s
                          /\ z.content = x.content
        /\ ~Switches(x) => ~Switches(z)
        /\ z.job = "prepare" => x.job = "prepare" /\ z.content = x.content
        /\ \A t \in Surfaces : Owns(x, t) => Owns(z, t)
  BY <1>1, WriteLeads
<1>6. /\ assigned' = [x.seen EXCEPT ![s] = c]
      /\ unsaved' = unsaved \cup {t \in Surfaces \ {s} : x.seen[t] # assigned[t]}
      /\ UNCHANGED <<heldDisk, surfaceVars, booting, boundVars, mixed, erased, blacked>>
  BY DEF Write
<1>7. x.seen \in [Surfaces -> Drawn] /\ c \in Drawn
  BY <1>2 DEF Operations, Drawn
<1>8. assigned'[s] = c /\ assigned' \in [Surfaces -> Drawn]
  BY <1>2, <1>6, <1>7
<1>9. \A t \in Surfaces : t # s /\ t \notin unsaved' => assigned'[t] = assigned[t]
  BY <1>6, <1>7
<1>10. unsaved \subseteq unsaved'
  BY <1>6
<1>11. op' \in [Ops -> Operations] /\ Formed' /\ BootAlone' /\ OneToucher'
  BY <1>1, <1>5, <1>6, StepFrame
<1>12. ReservedOwned'
  BY <1>5, <1>6, StepOwned
<1>13. \A p \in Ops : p # o /\ s \notin mixed =>
         /\ ~(Switches(op[p]) /\ op[p].surface = s)
         /\ ~(op[p].job = "prepare" /\ (op[p].surface = s \/ s \in op[p].todo))
  BY <1>2, <1>4, Alone DEF Switches
<1>14. DrawnIsSaved'
  <2> SUFFICES ASSUME NEW t \in Surfaces \ (mixed \cup unsaved'), drawing[t] # None,
                      assigned'[t] # drawing[t]
               PROVE  \E p \in Ops : /\ Switches(op'[p]) /\ op'[p].surface = t
                                     /\ op'[p].at = "stop"
    BY <1>6 DEF DrawnIsSaved, Switches
  <2>1. t \notin mixed \cup unsaved
    BY <1>10
  <2>2. ASSUME assigned[t] # drawing[t], t # s \/ ~Switches(x)
        PROVE  /\ t # s
               /\ \E p \in Ops : /\ Switches(op'[p]) /\ op'[p].surface = t
                                 /\ op'[p].at = "stop"
    <3>1. PICK p \in Ops : Switches(op[p]) /\ op[p].surface = t /\ op[p].at = "stop"
      BY <2>1, <2>2 DEF IInv, DrawnIsSaved
    <3>2. p # o
      BY <1>1, <3>1
    <3>3. t # s
      BY <1>13, <2>1, <3>1, <3>2
    <3>4. op'[p] = op[p]
      BY <1>5, <3>2 DEF IInv, TypeOK
    <3>5. QED
      BY <3>1, <3>3, <3>4
  <2>3. CASE t # s
    BY <1>9, <2>2, <2>3
  <2>4. CASE t = s /\ Switches(x)
    BY <1>5, <2>4 DEF IInv, TypeOK
  <2>5. CASE t = s /\ x.job = "clear"
    BY <1>2, <1>3, <1>1, <2>1, <2>5 DEF InOrder, StoppedFirst
  <2>6. CASE t = s /\ x.job = "prepare"
    <3>1. x.at = "save" /\ s \in x.same
      BY <1>1, <1>2, <1>3, <2>6 DEF AtItsStep
    <3>2. assigned[s] = x.content
      BY <1>2, <2>1, <2>6, <3>1 DEF InOrder, SameIsSaved
    <3>3. assigned[t] # drawing[t]
      BY <1>8, <2>6, <3>1, <3>2
    <3>4. QED
      BY <2>2, <2>6, <3>3 DEF Switches
  <2>7. QED
    BY <1>1, <1>3, <2>3, <2>4, <2>5, <2>6 DEF Switches
<1>15. AllInOrder'
  <2> SUFFICES ASSUME NEW p \in Ops PROVE InOrder(op[p])'
    BY DEF AllInOrder
  <2>1. CASE p = o
    <3>1. op'[p] = z
      BY <1>5, <2>1 DEF IInv, TypeOK
    <3>2. Switches(z) => z.surface = s /\ z.content = c
      BY <1>1, <1>3, <1>5 DEF Switches
    <3>3. SavedFirst(op[p])'
      BY <1>8, <3>1, <3>2 DEF SavedFirst, Switches
    <3>4. z.job = "prepare" => z.content = c
      BY <1>1, <1>3, <1>5
    <3>5. SameIsSaved(op[p])'
      <4> SUFFICES ASSUME NEW t \in Surfaces \ (mixed \cup unsaved'),
                          z.job = "prepare", t \in z.same,
                          t \in z.todo \/ (t = z.surface /\ z.at # "reserve all")
                   PROVE  assigned'[t] = z.content
        BY <1>6, <3>1 DEF SameIsSaved
      <4>1. CASE t = s
        BY <1>8, <3>4, <4>1
      <4>2. CASE t # s
        BY <1>5, <1>9, <1>10, <4>2 DEF SameIsSaved
      <4>3. QED
        BY <4>1, <4>2
    <3>6. StoppedFirst(op[p])'
      BY <1>5, <1>6, <3>1 DEF StoppedFirst, Switches
    <3>7. LeavesBlack(op[p])' /\ DarkenedFirst(op[p])'
      <4>1. LeavesBlack(op'[p]) /\ DarkenedFirst(op'[p])
        BY <1>5, <3>1
      <4>2. QED
        BY <1>6, <4>1 DEF LeavesBlack, DarkenedFirst
    <3>8. QED
      BY <3>3, <3>5, <3>6, <3>7 DEF InOrder
  <2>2. CASE p # o
    <3>1. op'[p] = op[p] /\ InOrder(op[p])
      BY <1>5, <2>2 DEF IInv, TypeOK, AllInOrder
    <3>2. op[p] = NoOperation \/ op[p].surface \in Surfaces
      BY DEF IInv, Formed, WellFormed, Steady
    <3>3. SavedFirst(op[p])'
      BY <1>6, <1>9, <1>10, <1>13, <2>2, <3>1, <3>2, NoOperationFields
      DEF InOrder, SavedFirst, Switches
    <3>4. SameIsSaved(op[p])'
      <4> SUFFICES ASSUME NEW t \in Surfaces \ (mixed \cup unsaved'),
                          op[p].job = "prepare", t \in op[p].same,
                          t \in op[p].todo \/ (t = op[p].surface /\ op[p].at # "reserve all")
                   PROVE  assigned'[t] = op[p].content
        BY <1>6, <3>1 DEF SameIsSaved
      <4>1. t # s
        BY <1>13, <2>2
      <4>2. QED
        BY <1>9, <1>10, <3>1, <4>1 DEF InOrder, SameIsSaved
    <3>5. StoppedFirst(op[p])'
      BY <1>6, <3>1 DEF InOrder, StoppedFirst, Switches
    <3>6. LeavesBlack(op[p])' /\ DarkenedFirst(op[p])'
      BY <1>6, <3>1 DEF InOrder, LeavesBlack, DarkenedFirst
    <3>7. QED
      BY <3>3, <3>4, <3>5, <3>6 DEF InOrder
  <2>3. QED
    BY <2>1, <2>2
<1>16. booting = {}
  BY <1>1, NoOperationFields DEF IInv, BootAlone
<1>17. TypeOK' /\ BlackoutHolds'
  BY <1>6, <1>8, <1>11, <1>16 DEF IInv, TypeOK, BlackoutHolds
<1>18. QED
  BY <1>11, <1>12, <1>14, <1>15, <1>17 DEF IInv

LEMMA SaveEntryStep == ASSUME IInv, NEW o \in Ops, SaveEntry(o) PROVE IInv'
  BY WriteStep DEF SaveEntry

LEMMA RemoveEntryStep == ASSUME IInv, NEW o \in Ops, RemoveEntry(o) PROVE IInv'
  BY WriteStep DEF RemoveEntry

LEMMA StopStep == ASSUME IInv, NEW o \in Ops, Stop(o) PROVE IInv'
<1> DEFINE x == op[o]
           s == x.surface
           step == IF x.job = "clear" THEN "read" ELSE "start"
<1>1. x.at = "stop"
  BY DEF Stop
<1>2. x \in Operations /\ Steady(x) /\ AtItsStep(x) /\ InOrder(x) /\ s \in Surfaces
  BY <1>1, InProgressSteady DEF IInv, TypeOK, AllInOrder, Steady
<1>3. x.job \in {"apply", "clear", "swap"}
  BY <1>1, <1>2 DEF AtItsStep, Steady, Operations, Jobs
<1>4. StepAfter(x.job, x.at) = step /\ step \in StepNames
  <2>1. StepAfter(x.job, "stop") = step
    BY StepsAfter, Zenon
  <2>2. step \in StepNames
    BY DEF StepNames
  <2>3. QED
    BY <1>1, <2>1, <2>2
<1>5. PICK z \in Operations : op' = [op EXCEPT ![o] = z] /\ Onward(x, step, z)
  BY <1>2, <1>4, OnwardStep DEF Stop, Continue, Steady
<1>6. /\ z.job = x.job /\ z.at = step /\ z.surface = s /\ z.todo = x.todo
      /\ z.content = x.content /\ z.touches = x.touches /\ z.same = x.same
      /\ z.pending = x.pending
  BY <1>5 DEF Onward, Alike
<1>7. Steady(z)
  BY <1>2, <1>6 DEF Steady
<1>8. AtItsStep(z)
  BY <1>1, <1>2, <1>3, <1>6 DEF AtItsStep
<1>9. /\ drawing' = [drawing EXCEPT ![s] = None]
      /\ UNCHANGED <<fileVars, held, reserved, booting, boundVars, historyVars>>
  BY DEF Stop
<1>10. drawing' \in [Surfaces -> Drawn] /\ \A t \in Surfaces : drawing'[t] \in {None, drawing[t]}
  BY <1>9 DEF IInv, TypeOK, Drawn
<1>11. op' \in [Ops -> Operations] /\ Formed' /\ BootAlone' /\ OneToucher'
  BY <1>1, <1>5, <1>6, <1>7, <1>8, <1>9, StepFrame DEF WellFormed
<1>12. ReservedOwned'
  <2>1. \A t \in Surfaces : Owns(x, t) => Owns(z, t)
    BY <1>1, <1>3, <1>6 DEF Owns
  <2>2. QED
    BY <1>5, <1>9, <2>1, StepOwned
<1>13. DrawnIsSaved'
  <2> SUFFICES ASSUME NEW t \in Surfaces \ (mixed \cup unsaved), drawing'[t] # None,
                      assigned[t] # drawing'[t]
               PROVE  \E p \in Ops : /\ Switches(op'[p]) /\ op'[p].surface = t
                                     /\ op'[p].at = "stop"
    BY <1>9 DEF DrawnIsSaved, Switches
  <2>1. t # s /\ drawing'[t] = drawing[t]
    BY <1>2, <1>9 DEF IInv, TypeOK
  <2>2. PICK p \in Ops : Switches(op[p]) /\ op[p].surface = t /\ op[p].at = "stop"
    BY <2>1 DEF IInv, DrawnIsSaved
  <2>3. op'[p] = op[p]
    BY <1>5, <2>1, <2>2 DEF IInv, TypeOK
  <2>4. QED
    BY <2>2, <2>3
<1>14. AllInOrder'
  <2> SUFFICES ASSUME NEW p \in Ops PROVE InOrder(op[p])'
    BY DEF AllInOrder
  <2>1. CASE p = o
    <3>1. op'[p] = z
      BY <1>5, <2>1 DEF IInv, TypeOK
    <3>2. SavedFirst(z) /\ SameIsSaved(z) /\ LeavesBlack(z) /\ DarkenedFirst(z)
      BY <1>1, <1>2, <1>3, <1>6
      DEF InOrder, SavedFirst, SameIsSaved, LeavesBlack, DarkenedFirst, Switches
    <3>3. SavedFirst(op[p])' /\ SameIsSaved(op[p])'
      BY <1>9, <3>1, <3>2 DEF SavedFirst, SameIsSaved, Switches
    <3>4. LeavesBlack(op[p])' /\ DarkenedFirst(op[p])'
      BY <1>9, <3>1, <3>2 DEF LeavesBlack, DarkenedFirst
    <3>5. drawing'[s] = None
      BY <1>2, <1>9 DEF IInv, TypeOK
    <3>6. StoppedFirst(op[p])'
      BY <1>6, <3>1, <3>5 DEF StoppedFirst
    <3>7. QED
      BY <3>3, <3>4, <3>6 DEF InOrder
  <2>2. CASE p # o
    <3>1. op'[p] = op[p] /\ InOrder(op[p])
      BY <1>5, <2>2 DEF IInv, TypeOK, AllInOrder
    <3>2. SavedFirst(op[p])' /\ SameIsSaved(op[p])'
      BY <1>9, <3>1 DEF InOrder, SavedFirst, SameIsSaved, Switches
    <3>3. LeavesBlack(op[p])' /\ DarkenedFirst(op[p])'
      BY <1>9, <3>1 DEF InOrder, LeavesBlack, DarkenedFirst
    <3>4. op[p] = NoOperation \/ op[p].surface \in Surfaces
      BY DEF IInv, Formed, WellFormed, Steady
    <3>5. StoppedFirst(op[p])'
      BY <1>9, <1>10, <3>1, <3>4, NoOperationFields DEF InOrder, StoppedFirst, Switches
    <3>6. QED
      BY <3>2, <3>3, <3>5 DEF InOrder
  <2>3. QED
    BY <2>1, <2>2
<1>15. booting = {}
  BY <1>1, NoOperationFields DEF IInv, BootAlone
<1>16. TypeOK' /\ BlackoutHolds'
  BY <1>9, <1>10, <1>11, <1>15 DEF IInv, TypeOK, BlackoutHolds
<1>17. QED
  BY <1>11, <1>12, <1>13, <1>14, <1>16 DEF IInv

LEMMA StartStep == ASSUME IInv, NEW o \in Ops, Start(o) PROVE IInv'
<1> DEFINE x == op[o]
           s == x.surface
           y == [x EXCEPT !.swapped = x.swapped \cup {s}]
<1>1. x.at = "start"
  BY DEF Start
<1>2. x \in Operations /\ Steady(x) /\ AtItsStep(x) /\ InOrder(x) /\ s \in Surfaces
  BY <1>1, InProgressSteady DEF IInv, TypeOK, AllInOrder, Steady
<1>3. x.job \in {"apply", "swap"} /\ s \in x.touches /\ x.content \in Contents
  BY <1>1, <1>2 DEF AtItsStep, Steady, Operations, Jobs
<1>4. y \in Operations /\ SameWork(x, y) /\ y.pending = x.pending
  BY <1>2 DEF Operations, SameWork
<1>5. StepAfter(x.job, x.at) = "read held" /\ "read held" \in StepNames
  <2>1. StepAfter(x.job, "start") = "read held"
    BY StepsAfter, Zenon
  <2>2. QED
    BY <1>1, <2>1 DEF StepNames
<1>6. PICK z \in Operations : op' = [op EXCEPT ![o] = z] /\ Onward(y, "read held", z)
  BY <1>2, <1>4, <1>5, OnwardStep DEF Start, Surface, Steady, SameWork
<1>7. /\ z.job = x.job /\ z.at = "read held" /\ z.surface = s /\ z.todo = x.todo
      /\ z.content = x.content /\ z.touches = x.touches /\ z.same = x.same
      /\ z.pending = x.pending
  BY <1>4, <1>6 DEF Onward, Alike, SameWork
<1>8. Steady(z)
  BY <1>2, <1>7 DEF Steady
<1>9. AtItsStep(z)
  BY <1>3, <1>7 DEF AtItsStep
<1>10. /\ drawing' = [drawing EXCEPT ![s] = x.content]
       /\ reserved' = [reserved EXCEPT ![s] = None]
       /\ UNCHANGED <<fileVars, held, booting, boundVars, historyVars>>
  BY DEF Start
<1>11. /\ drawing' \in [Surfaces -> Drawn] /\ reserved' \in [Surfaces -> Drawn]
       /\ drawing'[s] = x.content
       /\ \A t \in Surfaces : t # s => drawing'[t] = drawing[t]
  BY <1>2, <1>3, <1>10 DEF IInv, TypeOK, Drawn
<1>12. op' \in [Ops -> Operations] /\ Formed' /\ BootAlone' /\ OneToucher'
  BY <1>1, <1>6, <1>7, <1>8, <1>9, <1>10, StepFrame DEF WellFormed
<1>13. ReservedOwned'
  <2>1. ASSUME NEW t \in Surfaces, reserved'[t] # None
        PROVE  Owns(z, t) \/ (reserved[t] # None /\ ~Owns(x, t))
    <3>1. t # s /\ reserved[t] # None
      BY <1>2, <1>10, <2>1 DEF IInv, TypeOK
    <3>2. QED
      BY <1>7, <3>1 DEF Owns
  <2>2. QED
    BY <1>6, <2>1, StepOwned
<1>14. DrawnIsSaved'
  <2> SUFFICES ASSUME NEW t \in Surfaces \ (mixed \cup unsaved), drawing'[t] # None,
                      assigned[t] # drawing'[t]
               PROVE  \E p \in Ops : /\ Switches(op'[p]) /\ op'[p].surface = t
                                     /\ op'[p].at = "stop"
    BY <1>10 DEF DrawnIsSaved, Switches
  <2>1. t # s
    BY <1>1, <1>2, <1>3, <1>11 DEF InOrder, SavedFirst, Switches
  <2>2. PICK p \in Ops : Switches(op[p]) /\ op[p].surface = t /\ op[p].at = "stop"
    BY <1>11, <2>1 DEF IInv, DrawnIsSaved
  <2>3. op'[p] = op[p]
    BY <1>6, <2>1, <2>2 DEF IInv, TypeOK
  <2>4. QED
    BY <2>2, <2>3
<1>15. AllInOrder'
  <2> SUFFICES ASSUME NEW p \in Ops PROVE InOrder(op[p])'
    BY DEF AllInOrder
  <2>1. CASE p = o
    <3>1. op'[p] = z
      BY <1>6, <2>1 DEF IInv, TypeOK
    <3>2. SavedFirst(op[p])' /\ StoppedFirst(op[p])'
      BY <1>3, <1>7, <3>1 DEF SavedFirst, StoppedFirst
    <3>3. SameIsSaved(op[p])' /\ DarkenedFirst(op[p])'
      BY <1>3, <1>7, <3>1 DEF SameIsSaved, DarkenedFirst
    <3>4. LeavesBlack(op[p])'
      BY <1>2, <1>7, <1>10, <3>1 DEF InOrder, LeavesBlack
    <3>5. QED
      BY <3>2, <3>3, <3>4 DEF InOrder
  <2>2. CASE p # o
    <3>1. op'[p] = op[p] /\ InOrder(op[p])
      BY <1>6, <2>2 DEF IInv, TypeOK, AllInOrder
    <3>2. SavedFirst(op[p])' /\ SameIsSaved(op[p])'
      BY <1>10, <3>1 DEF InOrder, SavedFirst, SameIsSaved, Switches
    <3>3. LeavesBlack(op[p])' /\ DarkenedFirst(op[p])'
      BY <1>10, <3>1 DEF InOrder, LeavesBlack, DarkenedFirst
    <3>4. op[p] = NoOperation \/ op[p].surface \in Surfaces
      BY DEF IInv, Formed, WellFormed, Steady
    <3>5. s \notin mixed /\ op[p].job \in {"apply", "swap", "clear"} => op[p].surface # s
      BY <1>2, <1>3, <2>2, Alone
    <3>6. StoppedFirst(op[p])'
      BY <1>10, <1>11, <3>1, <3>4, <3>5, NoOperationFields DEF InOrder, StoppedFirst, Switches
    <3>7. QED
      BY <3>2, <3>3, <3>6 DEF InOrder
  <2>3. QED
    BY <2>1, <2>2
<1>16. booting = {}
  BY <1>1, NoOperationFields DEF IInv, BootAlone
<1>17. TypeOK' /\ BlackoutHolds'
  BY <1>10, <1>11, <1>12, <1>16 DEF IInv, TypeOK, BlackoutHolds
<1>18. QED
  BY <1>12, <1>13, <1>14, <1>15, <1>17 DEF IInv

-----------------------------------------------------------------------------
\* A goroutine that is through with its operation has none.
LEMMA DoneIsNone ==
  ASSUME IInv, NEW o \in Ops, op[o].at = "done"
  PROVE  op[o] = NoOperation
<1>1. op[o] \in Operations /\ WellFormed(op[o])
  BY DEF IInv, TypeOK, Formed
<1>2. ~(Steady(op[o]) /\ AtItsStep(op[o]))
  BY <1>1 DEF Steady, AtItsStep, Operations, Jobs
<1>3. QED
  BY <1>1, <1>2 DEF WellFormed

\* An operation that begins: what it is about, and where it stands.
Started(z, job, c, surfaces, same) ==
  /\ z.job = job /\ z.content = c /\ z.touches = surfaces /\ z.same = same
  /\ z.pending = {} /\ z.surface \in surfaces /\ z.todo = surfaces \ {z.surface}
  /\ job = "apply" => z.at = "reserve"
  /\ job = "clear" => z.at = "stop"
  /\ job = "blackout" => z.at = "darken"
  /\ job = "prepare" => z.at = IF z.surface \in same THEN "settle" ELSE "validate"

LEMMA BeginLeads ==
  ASSUME IInv, NEW o \in Ops, NEW job \in {"apply", "clear", "blackout", "prepare"},
         NEW c \in Drawn, NEW surfaces \in SUBSET Surfaces, NEW same \in SUBSET Surfaces,
         NEW lights, Begin(o, Operation(job, c, surfaces, same), lights)
  PROVE  \E z \in Operations :
           op' = [op EXCEPT ![o] = z] /\ Started(z, job, c, surfaces, same)
<1> DEFINE y == Operation(job, c, surfaces, same)
           z(s) == [y EXCEPT !.at = FirstStep(y, s), !.surface = s, !.todo = y.touches \ {s}]
<1>1. job \in Jobs /\ NoOperation \in Operations
  BY NoOperationType DEF Jobs
<1>2. /\ y \in Operations /\ y.job = job /\ y.content = c /\ y.touches = surfaces
      /\ y.same = same /\ y.pending = {}
  <2>1. /\ y \in Operations /\ y.job = job /\ y.content = c /\ y.touches = surfaces
        /\ y.same = same
    BY <1>1 DEF Operation, Operations
  <2>2. y.pending = {}
    BY <1>1 DEF Operation, Operations, NoOperation
  <2>3. QED
    BY <2>1, <2>2
<1>3. PICK s \in First(y.touches) : op' = [op EXCEPT ![o] = z(s)]
  BY Zenon DEF Begin
<1>4. s \in surfaces
  BY <1>2, <1>3, FirstIn
<1>5. /\ job = "apply" => FirstStep(y, s) = "reserve"
      /\ job = "clear" => FirstStep(y, s) = "stop"
      /\ job = "blackout" => FirstStep(y, s) = "darken"
      /\ job = "prepare" => FirstStep(y, s) = IF s \in same THEN "settle" ELSE "validate"
  BY <1>2, FirstSteps
<1>6. FirstStep(y, s) \in {"reserve", "stop", "darken", "settle", "validate"}
  BY <1>5
<1>7. FirstStep(y, s) \in StepNames
  BY <1>6 DEF StepNames
<1>8. z(s) \in Operations
  BY <1>2, <1>4, <1>7 DEF Operations
<1>9. /\ z(s).job = job /\ z(s).content = c /\ z(s).touches = surfaces /\ z(s).same = same
      /\ z(s).pending = {} /\ z(s).surface = s /\ z(s).todo = surfaces \ {s}
      /\ z(s).at = FirstStep(y, s)
  BY <1>2 DEF Operations
<1>10. Started(z(s), job, c, surfaces, same)
  BY <1>4, <1>5, <1>9 DEF Started
<1>11. QED
  BY <1>3, <1>8, <1>10

LEMMA BeginStep ==
  ASSUME IInv, NEW o \in Ops, NEW job \in {"apply", "clear", "blackout", "prepare"},
         NEW c \in Drawn, NEW surfaces \in SUBSET Surfaces, NEW same \in SUBSET Surfaces,
         NEW lights \in BOOLEAN, lights \/ job = "blackout",
         Begin(o, Operation(job, c, surfaces, same), lights),
         job \in {"apply", "prepare"} => c \in Contents,
         job # "prepare" => \E s \in Surfaces : surfaces = {s},
         \A s \in same : assigned[s] = c
  PROVE  IInv'
<1> DEFINE y == Operation(job, c, surfaces, same)
<1>1. PICK z \in Operations :
        op' = [op EXCEPT ![o] = z] /\ Started(z, job, c, surfaces, same)
  BY BeginLeads
<1>2. /\ booting = {} /\ op[o].at = "done" /\ begun < MaxOps /\ begun' = begun + 1
      /\ UNCHANGED <<fileVars, surfaceVars, booting, faults, restarts, erased, unsaved>>
  BY DEF Begin, InProgress
<1>3. y.touches = surfaces
  BY DEF Operation, NoOperation
<1>4. /\ mixed' = mixed \cup
           {s \in surfaces : \E p \in Ops \ {o} : InProgress(p) /\ s \in op[p].touches}
      /\ blacked' = IF lights THEN blacked \ surfaces ELSE blacked
  BY <1>3 DEF Begin, Touch
<1>5. /\ mixed \subseteq mixed' /\ mixed' \subseteq Surfaces
      /\ blacked' \subseteq blacked /\ blacked' \subseteq Surfaces
      /\ begun' \in 0..MaxOps
  BY <1>2, <1>4, BoundsAssumption DEF IInv, TypeOK
<1>6. op[o] = NoOperation
  BY <1>2, DoneIsNone
<1>7. \A p \in Ops : op'[p] = IF p = o THEN z ELSE op[p]
  BY <1>1 DEF IInv, TypeOK
<1>8. Steady(z)
  BY <1>1 DEF Started, Steady
<1>9. AtItsStep(z)
  BY <1>1 DEF Started, AtItsStep
<1>10. Formed'
  <2> SUFFICES ASSUME NEW p \in Ops PROVE WellFormed(op'[p])
    BY DEF Formed, WellFormed, Steady, AtItsStep, NoOperation, Nothing
  <2>1. QED
    BY <1>7, <1>8, <1>9 DEF WellFormed, IInv, Formed
<1>11. BootAlone'
  BY <1>2 DEF BootAlone
<1>12. OneToucher'
  <2> SUFFICES ASSUME NEW p \in Ops, NEW q \in Ops, NEW s \in Surfaces \ mixed',
                      s \in op'[p].touches, s \in op'[q].touches, p # q
               PROVE  FALSE
    BY DEF OneToucher
  <2>1. ASSUME NEW r \in Ops, r # o, s \in op[r].touches, s \in surfaces PROVE FALSE
    <3>1. InProgress(r)
      BY <2>1, DoneIsNone, NoOperationFields DEF InProgress
    <3>2. QED
      BY <1>4, <2>1, <3>1
  <2>2. z.touches = surfaces
    BY <1>1 DEF Started
  <2>3. p # o /\ q # o
    BY <1>7, <2>1, <2>2
  <2>4. s \in op[p].touches /\ s \in op[q].touches /\ s \notin mixed
    BY <1>5, <1>7, <2>3
  <2>5. QED
    BY <2>4 DEF IInv, OneToucher
<1>13. ReservedOwned'
  BY <1>1, <1>2, <1>6, NoOperationFields, StepOwned DEF Owns
<1>14. DrawnIsSaved'
  <2> SUFFICES ASSUME NEW s \in Surfaces \ (mixed' \cup unsaved), drawing[s] # None,
                      assigned[s] # drawing[s]
               PROVE  \E p \in Ops : /\ Switches(op'[p]) /\ op'[p].surface = s
                                     /\ op'[p].at = "stop"
    BY <1>2 DEF DrawnIsSaved, Switches
  <2>1. PICK p \in Ops : Switches(op[p]) /\ op[p].surface = s /\ op[p].at = "stop"
    BY <1>5 DEF IInv, DrawnIsSaved
  <2>2. op'[p] = op[p]
    BY <1>2, <1>7, <2>1
  <2>3. QED
    BY <2>1, <2>2
<1>15. AllInOrder'
  <2> SUFFICES ASSUME NEW p \in Ops PROVE InOrder(op[p])'
    BY DEF AllInOrder
  <2>1. CASE p = o
    <3>1. op'[p] = z
      BY <1>7, <2>1
    <3>2. SavedFirst(op[p])' /\ StoppedFirst(op[p])' /\ DarkenedFirst(op[p])'
      BY <1>1, <3>1 DEF Started, SavedFirst, StoppedFirst, DarkenedFirst, Switches
    <3>3. SameIsSaved(op[p])'
      BY <1>1, <1>2, <3>1 DEF Started, SameIsSaved
    <3>4. LeavesBlack(op[p])'
      BY <1>1, <1>4, <3>1 DEF Started, LeavesBlack
    <3>5. QED
      BY <3>2, <3>3, <3>4 DEF InOrder
  <2>2. CASE p # o
    <3>1. op'[p] = op[p] /\ InOrder(op[p])
      BY <1>7, <2>2 DEF IInv, AllInOrder
    <3>2. SavedFirst(op[p])' /\ StoppedFirst(op[p])'
      BY <1>2, <1>5, <3>1 DEF InOrder, SavedFirst, StoppedFirst, Switches
    <3>3. SameIsSaved(op[p])'
      BY <1>2, <1>5, <3>1 DEF InOrder, SameIsSaved
    <3>4. LeavesBlack(op[p])' /\ DarkenedFirst(op[p])'
      BY <1>2, <1>5, <3>1 DEF InOrder, LeavesBlack, DarkenedFirst
    <3>5. QED
      BY <3>2, <3>3, <3>4 DEF InOrder
  <2>3. QED
    BY <2>1, <2>2
<1>16. op' \in [Ops -> Operations]
  BY <1>1 DEF IInv, TypeOK
<1>17. TypeOK' /\ BlackoutHolds'
  BY <1>2, <1>5, <1>16 DEF IInv, TypeOK, BlackoutHolds
<1>18. QED
  BY <1>10, <1>11, <1>12, <1>13, <1>14, <1>15, <1>17 DEF IInv

\* A command that works on one surface.
LEMMA BeginOneStep ==
  ASSUME IInv, NEW o \in Ops, NEW s \in Surfaces, NEW c \in Drawn, NEW lights \in BOOLEAN,
         NEW job \in {"apply", "clear", "blackout"},
         lights \/ job = "blackout", job = "apply" => c \in Contents,
         Begin(o, Operation(job, c, {s}, {}), lights)
  PROVE  IInv'
<1> DEFINE surfaces == {s}
           same == {}
<1>1. surfaces \in SUBSET Surfaces /\ same \in SUBSET Surfaces
  OBVIOUS
<1>2. /\ job \in {"apply", "clear", "blackout", "prepare"}
      /\ job \in {"apply", "prepare"} => c \in Contents
      /\ job # "prepare" => \E t \in Surfaces : surfaces = {t}
      /\ \A t \in same : assigned[t] = c
      /\ Begin(o, Operation(job, c, surfaces, same), lights)
  OBVIOUS
<1> HIDE DEF surfaces, same
<1>3. QED
  BY <1>1, <1>2, BeginStep

LEMMA CommandStep == ASSUME IInv, NEW o \in Ops, Command(o) PROVE IInv'
<1>1. ASSUME NEW s \in Surfaces, BeginClear(o, s) PROVE IInv'
  BY <1>1, BeginOneStep DEF BeginClear, Drawn
<1>2. ASSUME NEW s \in Surfaces, BeginBlackout(o, s) PROVE IInv'
  BY <1>2, BeginOneStep DEF BeginBlackout, Drawn
<1>3. ASSUME NEW s \in Surfaces, NEW c \in Contents, BeginApply(o, s, c) PROVE IInv'
  BY <1>3, BeginOneStep DEF BeginApply, Drawn
<1>4. ASSUME NEW c \in Contents, BeginActivate(o, c) PROVE IInv'
  <2> DEFINE surfaces == Saved(assigned)
             same == {s \in Surfaces : assigned[s] = c}
  <2>1. /\ Begin(o, Operation("prepare", c, surfaces, same), TRUE) /\ c \in Drawn
        /\ surfaces \in SUBSET Surfaces /\ same \in SUBSET Surfaces
        /\ \A s \in same : assigned[s] = c
    BY <1>4 DEF BeginActivate, Drawn, Saved
  <2> HIDE DEF surfaces, same
  <2>2. QED
    BY <2>1, BeginStep
<1>5. QED
  BY <1>1, <1>2, <1>3, <1>4 DEF Command

-----------------------------------------------------------------------------
\* With no operation under way, all that operations rely on holds.
NoneUnderWay == \A o \in Ops : op[o] = NoOperation

LEMMA QuietParts ==
  ASSUME NoneUnderWay
  PROVE  /\ Formed /\ BootAlone /\ OneToucher /\ AllInOrder
         /\ ReservedOwned => \A s \in Surfaces : reserved[s] = None
         /\ DrawnIsSaved => \A s \in Surfaces \ (mixed \cup unsaved) :
                              drawing[s] # None => assigned[s] = drawing[s]
<1>1. ASSUME NEW o \in Ops
      PROVE  /\ op[o].job = "none" /\ op[o].touches = {} /\ op[o].todo = {}
             /\ WellFormed(op[o]) /\ InOrder(op[o])
  BY NoOperationFields, NoOperationInOrder DEF NoneUnderWay
<1>2. Formed /\ AllInOrder /\ BootAlone
  BY <1>1 DEF Formed, AllInOrder, BootAlone, NoneUnderWay
<1>3. OneToucher
  BY <1>1 DEF OneToucher
<1>4. \A s \in Surfaces, o \in Ops : ~Owns(op[o], s) /\ ~Switches(op[o])
  BY <1>1 DEF Owns, Switches
<1>5. QED
  BY <1>2, <1>3, <1>4 DEF ReservedOwned, DrawnIsSaved

LEMMA InitStep == ASSUME Init PROVE IInv
<1>1. NoneUnderWay
  BY NoOperationFields DEF Init, NoneUnderWay
<1>2. op \in [Ops -> Operations]
  BY NoOperationType DEF Init
<1>3. \A s \in booting : assigned[s] # None /\ drawing[s] = None
  BY DEF Init, Saved, Nothing
<1>4. drawing \in [Surfaces -> Drawn] /\ reserved \in [Surfaces -> Drawn]
  BY NothingType DEF Init
<1>5. /\ assigned \in [Surfaces -> Drawn] /\ booting \subseteq Surfaces
      /\ {heldDisk, held, mixed, erased, unsaved, blacked} \subseteq SUBSET Surfaces
      /\ begun \in 0..MaxOps /\ faults \in 0..MaxFaults /\ restarts \in 0..MaxRestarts
  BY BoundsAssumption DEF Init, HeldAtStart, Saved
<1>6. TypeOK
  BY <1>2, <1>3, <1>4, <1>5 DEF TypeOK
<1>7. ReservedOwned /\ DrawnIsSaved /\ BlackoutHolds
  BY DEF Init, ReservedOwned, DrawnIsSaved, BlackoutHolds, Nothing
<1>8. QED
  BY <1>1, <1>6, <1>7, QuietParts DEF IInv

LEMMA RestartStep == ASSUME IInv, Restart PROVE IInv'
<1>1. NoneUnderWay'
  BY DEF Restart, NoneUnderWay
<1>2. op' \in [Ops -> Operations]
  BY NoOperationType DEF Restart
<1>3. \A s \in booting' : assigned'[s] # None /\ drawing'[s] = None
  BY DEF Restart, Saved, Nothing
<1>4. drawing' \in [Surfaces -> Drawn] /\ reserved' \in [Surfaces -> Drawn]
  BY NothingType DEF Restart
<1>5. /\ assigned' \in [Surfaces -> Drawn] /\ booting' \subseteq Surfaces
      /\ {heldDisk', held', mixed', erased', unsaved', blacked'} \subseteq SUBSET Surfaces
      /\ begun' \in 0..MaxOps /\ faults' \in 0..MaxFaults /\ restarts' \in 0..MaxRestarts
  BY BoundsAssumption DEF Restart, HeldAtStart, Saved, IInv, TypeOK
<1>6. TypeOK'
  BY <1>2, <1>3, <1>4, <1>5 DEF TypeOK
<1>7. ReservedOwned' /\ DrawnIsSaved' /\ BlackoutHolds'
  BY DEF IInv, Restart, ReservedOwned, DrawnIsSaved, BlackoutHolds, Nothing, HeldAtStart
<1>8. Formed' /\ BootAlone' /\ OneToucher' /\ AllInOrder'
  BY <1>1, QuietParts, PTL
<1>9. QED
  BY <1>6, <1>7, <1>8 DEF IInv

\* Until the boot is over, no operation is under way.
LEMMA BootIsQuiet ==
  ASSUME IInv, booting # {}
  PROVE  /\ NoneUnderWay /\ \A s \in Surfaces : reserved[s] = None
         /\ \A s \in Surfaces \ (mixed \cup unsaved) :
              drawing[s] # None => assigned[s] = drawing[s]
  BY QuietParts DEF IInv, BootAlone, NoneUnderWay

LEMMA ResumeStep == ASSUME IInv, Resume PROVE IInv'
<1>1. PICK s \in First(booting) :
        /\ booting' = booting \ {s}
        /\ drawing' = drawing \/ drawing' = [drawing EXCEPT ![s] = assigned[s]]
        /\ UNCHANGED <<fileVars, held, reserved, op, boundVars, historyVars>>
  BY DEF Resume
<1>2. s \in booting /\ s \in Surfaces
  BY FirstIn DEF IInv, TypeOK
<1>3. /\ NoneUnderWay /\ \A t \in Surfaces : reserved[t] = None
      /\ \A t \in Surfaces \ (mixed \cup unsaved) :
           drawing[t] # None => assigned[t] = drawing[t]
  BY <1>2, BootIsQuiet
<1>4. /\ drawing' \in [Surfaces -> Drawn] /\ drawing'[s] \in {drawing[s], assigned[s]}
      /\ \A t \in Surfaces : t # s => drawing'[t] = drawing[t]
  BY <1>1, <1>2 DEF IInv, TypeOK
<1>5. DrawnIsSaved'
  BY <1>1, <1>3, <1>4 DEF DrawnIsSaved
<1>6. ReservedOwned' /\ BlackoutHolds' /\ NoneUnderWay'
  BY <1>1, <1>3 DEF ReservedOwned, BlackoutHolds, NoneUnderWay, IInv
<1>7. TypeOK'
  BY <1>1, <1>4 DEF IInv, TypeOK
<1>8. Formed' /\ BootAlone' /\ OneToucher' /\ AllInOrder'
  BY <1>6, QuietParts, PTL
<1>9. QED
  BY <1>5, <1>6, <1>7, <1>8 DEF IInv

LEMMA DiscardStep == ASSUME IInv, Discard PROVE IInv'
<1>1. PICK s \in First(booting) :
        /\ assigned' = [assigned EXCEPT ![s] = None]
        /\ booting' = booting \ {s}
        /\ UNCHANGED <<heldDisk, surfaceVars, op, boundVars, historyVars>>
  BY DEF Discard
<1>2. s \in booting /\ s \in Surfaces /\ drawing[s] = None
  BY FirstIn DEF IInv, TypeOK
<1>3. /\ NoneUnderWay /\ \A t \in Surfaces : reserved[t] = None
      /\ \A t \in Surfaces \ (mixed \cup unsaved) :
           drawing[t] # None => assigned[t] = drawing[t]
  BY <1>2, BootIsQuiet
<1>4. /\ assigned' \in [Surfaces -> Drawn]
      /\ \A t \in Surfaces : t # s => assigned'[t] = assigned[t]
  BY <1>1, <1>2 DEF IInv, TypeOK, Drawn
<1>5. DrawnIsSaved'
  BY <1>1, <1>2, <1>3, <1>4 DEF DrawnIsSaved
<1>6. ReservedOwned' /\ BlackoutHolds' /\ NoneUnderWay'
  BY <1>1, <1>3 DEF ReservedOwned, BlackoutHolds, NoneUnderWay, IInv
<1>7. TypeOK'
  BY <1>1, <1>4 DEF IInv, TypeOK
<1>8. Formed' /\ BootAlone' /\ OneToucher' /\ AllInOrder'
  BY <1>6, QuietParts, PTL
<1>9. QED
  BY <1>5, <1>6, <1>7, <1>8 DEF IInv

-----------------------------------------------------------------------------
LEMMA IInvStep == IInv /\ [Next]_vars => IInv'
<1> SUFFICES ASSUME IInv, [Next]_vars PROVE IInv'
  OBVIOUS
<1>1. ASSUME NEW o \in Ops, Command(o) PROVE IInv'
  BY <1>1, CommandStep
<1>2. ASSUME NEW o \in Ops, StepOf(o) PROVE IInv'
  BY <1>2, ReserveStep, ReadStep, SaveEntryStep, RemoveEntryStep, SaveFailsStep, StopStep,
     StartStep, StartFailsStep, ReadHeldStep, WriteHeldStep, WriteHeldFailsStep, DarkenStep,
     LightStep, SettleStep, ValidateStep, ReserveAllStep, HoldOthersStep, Zenon
  DEF StepOf
<1>3. CASE Restart
  BY <1>3, RestartStep
<1>4. CASE Resume
  BY <1>4, ResumeStep
<1>5. CASE Discard
  BY <1>5, DiscardStep
<1>6. CASE UNCHANGED vars
  <2>1. TypeOK' /\ BootAlone' /\ OneToucher' /\ BlackoutHolds'
    BY <1>6 DEF vars, IInv, TypeOK, BootAlone, OneToucher, BlackoutHolds, NoOperation, Nothing
  <2>2. Formed'
    BY <1>6, ZenonT(30)
    DEF vars, IInv, Formed, WellFormed, Steady, AtItsStep, NoOperation, Nothing
  <2>3. ReservedOwned'
    <3> SUFFICES ASSUME NEW s \in Surfaces, reserved[s] # None
                 PROVE  \E o \in Ops : Owns(op[o], s)
      BY <1>6 DEF vars, ReservedOwned, Owns
    <3>1. QED
      BY DEF IInv, ReservedOwned
  <2>4. DrawnIsSaved'
    BY <1>6 DEF vars, IInv, DrawnIsSaved, Switches
  <2>5. AllInOrder'
    <3> SUFFICES ASSUME NEW p \in Ops PROVE InOrder(op[p])'
      BY DEF AllInOrder
    <3>1. InOrder(op[p])
      BY DEF IInv, AllInOrder
    <3>2. SavedFirst(op[p])' /\ StoppedFirst(op[p])'
      BY <1>6, <3>1 DEF vars, InOrder, SavedFirst, StoppedFirst, Switches
    <3>3. SameIsSaved(op[p])' /\ LeavesBlack(op[p])' /\ DarkenedFirst(op[p])'
      BY <1>6, <3>1 DEF vars, InOrder, SameIsSaved, LeavesBlack, DarkenedFirst
    <3>4. QED
      BY <3>2, <3>3 DEF InOrder
  <2>6. QED
    BY <2>1, <2>2, <2>3, <2>4, <2>5 DEF IInv
<1>7. QED
  BY <1>1, <1>2, <1>3, <1>4, <1>5, <1>6, Zenon DEF Next

\* The inductive invariant of the render operations: who works on a surface, who
\* has reserved its step time, and what each has saved, stopped and darkened.
THEOREM Invariance == Spec => []IInv
  BY InitStep, IInvStep, PTL DEF Spec

\* The state of the render operations has the types declared: among them, that a
\* surface that the boot has yet to resume is saved, and draws nothing.
THEOREM TypeCorrect == Spec => []TypeOK
<1>1. IInv => TypeOK
  BY DEF IInv
<1>2. QED
  BY <1>1, Invariance, PTL

\* Once every operation has ended, what a surface draws is what the file says it
\* is to draw, whatever was refused, failed half-way or interrupted by a restart:
\* applySurface and swapSurfaceRender save first, and stop what drew before they
\* start anything else.
THEOREM FileNamesWhatIsDrawn == Spec => []DiskNamesWhatIsDrawn
<1>1. IInv => DiskNamesWhatIsDrawn
  BY DEF IInv, DrawnIsSaved, DiskNamesWhatIsDrawn, Idle, InProgress
<1>2. QED
  BY <1>1, Invariance, PTL

\* A confirmed blackout holds in memory and on disk until an operation that may
\* light the surface begins: blackoutSurface darkens before it saves the flag, and
\* newRenderOperations starts from the flags saved.
THEOREM BlackoutStands == Spec => []BlackoutHolds
<1>1. IInv => BlackoutHolds
  BY DEF IInv
<1>2. QED
  BY <1>1, Invariance, PTL

\* No step time stays reserved without an operation that works on the surface:
\* every path of an apply and of a swap, and those of the surfaces of an activation
\* that fail, release what was reserved.
THEOREM ReservationIsOwned == Spec => []ReservationHasAnOwner
<1>1. ASSUME IInv, NEW s \in Surfaces, reserved[s] # None
      PROVE  \E o \in Ops : InProgress(o) /\ s \in op[o].touches
  <2>1. PICK o \in Ops : Owns(op[o], s)
    BY <1>1 DEF IInv, ReservedOwned
  <2>2. op[o] # NoOperation
    BY <2>1, NoOperationFields DEF Owns
  <2>3. InProgress(o)
    BY <1>1, <2>2, DoneIsNone DEF InProgress
  <2>4. s \in op[o].touches
    BY <1>1, <2>1, <2>2 DEF IInv, Formed, WellFormed, Steady, Owns
  <2>5. QED
    BY <2>3, <2>4
<1>2. IInv => ReservationHasAnOwner
  BY <1>1 DEF ReservationHasAnOwner
<1>3. QED
  BY <1>2, Invariance, PTL

=============================================================================
