---------------------------- MODULE WeatherState ----------------------------
(***************************************************************************)
(* The weather delay state of the coordinator, as a value: the stored row  *)
(* (store/weatherdelay.go) and the WeatherDelayStateKeeper in front of it  *)
(* (api/weatherdelaykeeper.go), which holds an active state the store did  *)
(* not take.  WeatherDelay and WeatherControl, two views of the handlers   *)
(* that read and write it, keep one in keeper, and in call what the        *)
(* requests that run side by side have got to.                             *)
(*                                                                         *)
(* A state is its kind, "none" when no delay is active, and its revision.  *)
(* since counts the resumes that came before it: a history, which no code  *)
(* reads.                                                                  *)
(***************************************************************************)
EXTENDS Naturals

CONSTANTS
  Calls,       \* requests under way at a time
  MaxRequests  \* bound: requests that arrive

ASSUME RequestsAssumption == MaxRequests \in Nat

VARIABLES
  keeper,   \* the row and the keeper
  call,     \* call[c]: a request under way
  requests  \* requests that have arrived

At(c, step) == call[c].step = step

Kinds == {"delay", "cancelNight"}
States == [kind : Kinds \cup {"none"}, rev : Nat, since : Nat]

NotActive(rev, since) == [kind |-> "none", rev |-> rev, since |-> since]
Delayed(kind, rev, since) == [kind |-> kind, rev |-> rev, since |-> since]

IsActive(state) == state.kind # "none"

Larger(m, n) == IF m > n THEN m ELSE n

-----------------------------------------------------------------------------
(***************************************************************************)
(* The keeper.  unsaved is not active when there is nothing to save.       *)
(***************************************************************************)
NothingUnsaved == NotActive(0, 0)

NewKeeper == [stored |-> NotActive(0, 0), unsaved |-> NothingUnsaved]

\* A restarted process has the row and nothing else.
Reopened(k) == [k EXCEPT !.unsaved = NothingUnsaved]

Current(k) == IF IsActive(k.unsaved) THEN k.unsaved ELSE k.stored

\* The row takes only a revision above its own.
Accepts(k, state) == state.rev > k.stored.rev

\* SetWeatherDelayState.  ok is whether the store could be written at all: a
\* refused revision is an error like any other, and leaves an active state
\* unsaved in this process.
Stores(k, state, ok) == ok /\ Accepts(k, state)

Set(k, state, ok) ==
  IF Stores(k, state, ok)
    THEN [stored |-> state, unsaved |-> NothingUnsaved]
    ELSE [k EXCEPT !.unsaved = IF IsActive(state) THEN state ELSE NothingUnsaved]

\* SaveUnsaved writes it above whatever the row holds by then.
SaveUnsaved(k, ok) ==
  IF ok /\ IsActive(k.unsaved)
    THEN [stored |-> [k.unsaved EXCEPT
                        !.rev = IF k.stored.rev >= @ THEN k.stored.rev + 1 ELSE @],
          unsaved |-> NothingUnsaved]
    ELSE k

-----------------------------------------------------------------------------
(***************************************************************************)
(* What a start makes of the state it read.                                *)
(***************************************************************************)

\* A start that changes nothing only tries to save what is unsaved: the same
\* kind again, or a delay while the night is cancelled.
Reaffirms(current, kind) ==
  IsActive(current) /\ (current.kind = kind \/ kind = "delay")

Entered(current, kind, rev) ==
  IF Reaffirms(current, kind) THEN current
    ELSE Delayed(kind, rev, current.since)

Resumed(current) == NotActive(current.rev + 1, current.since + 1)
=============================================================================
