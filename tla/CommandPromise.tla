--------------------------- MODULE CommandPromise ---------------------------
(***************************************************************************)
(* What the coordinator promises about one outward command, whichever      *)
(* dispatcher carries it out: the command is written to the journal before *)
(* it is attempted, it is attempted at most once for its idempotency key,  *)
(* it is settled at most once, and only an attempted command is ever       *)
(* settled "confirmed".                                                    *)
(*                                                                         *)
(* FppCommand implements this specification, crashes included; MacroRun    *)
(* uses its actions for the commands its FPP steps dispatch.               *)
(***************************************************************************)
EXTENDS Naturals

CONSTANT Keys        \* idempotency keys

VARIABLES journal,   \* journal[k]: what the commands table holds under key k
          attempts   \* attempts[k]: how often k was handed to the outside world

promiseVars == <<journal, attempts>>

Outcomes == {"confirmed", "unconfirmed"}

TypeOK ==
  /\ journal \in [Keys -> {"absent", "open"} \cup Outcomes]
  /\ attempts \in [Keys -> 0..1]

Init ==
  /\ journal = [k \in Keys |-> "absent"]
  /\ attempts = [k \in Keys |-> 0]

\* The row enters the journal before anything leaves the coordinator.
Record(k) ==
  /\ journal[k] = "absent"
  /\ journal' = [journal EXCEPT ![k] = "open"]
  /\ UNCHANGED attempts

\* The one attempt, allowed only on an open row that was never attempted.
Attempt(k) ==
  /\ journal[k] = "open"
  /\ attempts[k] = 0
  /\ attempts' = [attempts EXCEPT ![k] = 1]
  /\ UNCHANGED journal

\* The row gets its outcome, once; evidence cannot confirm what was never tried.
Settle(k, outcome) ==
  /\ journal[k] = "open"
  /\ outcome = "confirmed" => attempts[k] = 1
  /\ journal' = [journal EXCEPT ![k] = outcome]
  /\ UNCHANGED attempts

Next ==
  \E k \in Keys :
    \/ Record(k)
    \/ Attempt(k)
    \/ \E outcome \in Outcomes : Settle(k, outcome)

Spec == Init /\ [][Next]_promiseVars
=============================================================================
