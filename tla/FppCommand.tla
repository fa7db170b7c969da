----------------------------- MODULE FppCommand -----------------------------
(***************************************************************************)
(* The life of an FPP command inside the coordinator:                      *)
(*   - dispatchFPPCommand (api/fppcommand_dispatch.go), run by any number  *)
(*     of concurrent requests that may present the same idempotency key;   *)
(*   - the commands table and the audit log it writes (store/commands.go,  *)
(*     identity/audit.go), each write of which may fail;                   *)
(*   - the process dying between any two steps, and the startup sweep      *)
(*     ReconcileStrandedFPPCommands (api/fppcommand_reconcile.go) that     *)
(*     settles what the dead process left open.                            *)
(*                                                                         *)
(* One row per idempotency key (the table's UNIQUE constraint), so a row   *)
(* is named by its key.  An intent stands for the (action, target,         *)
(* canonical params) triple a key is bound to.  Retention, which forgets   *)
(* rows after 180 days or 200 000 rows, is not modelled.                   *)
(***************************************************************************)
EXTENDS Naturals

CONSTANTS
  Requests,        \* request goroutines
  Keys,            \* idempotency keys callers present
  Intents,         \* what a caller may want under a key
  Sweep,           \* the startup sweep, as an author of audit entries
  MaxCrashes,      \* bound: crashes of the process
  MaxWriteFaults   \* bound: failed writes to the commands table

ASSUME SweepAssumption == Sweep \notin Requests
ASSUME CallersAssumption == Keys # {} /\ Intents # {}
ASSUME BoundsAssumption == MaxCrashes \in Nat /\ MaxWriteFaults \in Nat

VARIABLES
  process,      \* "up" (listening), "down", or "sweeping" (before it listens)
  commands,     \* the commands table: key -> row
  request,      \* request[r]: where goroutine r stands in dispatchFPPCommand
  auditLog,     \* audit entries written for these commands
  degraded,     \* keys whose dispatch was reported as degraded attribution
  toSweep,      \* rows the startup sweep has listed and not yet handled
  attempts,     \* attempts[k]: calls of primitive.Dispatch for key k
  lostRows,     \* keys whose row a failed write of this process left open, with
                \* nobody at work on it
  lostOutcomes, \* history: keys whose outcome was audited and not written
  crashes,      \* crashes so far
  faults        \* failed writes so far

processVars == <<process, toSweep, crashes>>
lostWrites == <<lostRows, lostOutcomes>>
vars == <<process, commands, request, auditLog, degraded, toSweep, attempts,
          lostWrites, crashes, faults>>

Outcomes == {"confirmed", "unconfirmed"}
Reasons == {"none", "evidence", "sendFailed", "neverSent", "unknownAction"}

\* A commands row: what it is for, its state column, whether dispatched_at is
\* set, and the outcome and outcome_reason it carries ("none" while NULL).
\* State "absent" stands for a key the table has no row for.  "resolved" and
\* resolved_at are always written by the same update.
Row == [intent : Intents,
        state : {"absent", "pending", "dispatched", "resolved"},
        dispatchedAt : BOOLEAN,
        outcome : Outcomes \cup {"none"},
        reason : Reasons]

AuditEntry == [kind : {"dispatch", "outcome", "replay"},
               key : Keys,
               author : Requests \cup {Sweep}]

Steps == {"idle", "lookup", "insert", "degradedInsert", "dispatch",
          "recordDispatched", "settle", "auditOutcome"}

\* Mutation of Present: the duplicate check looks at settled rows only.
PresentWhenSettled(k) == commands[k].state = "resolved"

Present(k) == commands[k].state # "absent"

Unresolved(k) == commands[k].state \in {"pending", "dispatched"}

RowFor(intent, state) ==
  [intent |-> intent, state |-> state,
   dispatchedAt |-> FALSE, outcome |-> "none", reason |-> "none"]

\* Mutation of Resolved: the two columns swapped.
ResolvedSwapped(row, outcome, reason) ==
  [row EXCEPT !.state = "resolved", !.outcome = reason, !.reason = outcome]

Resolved(row, outcome, reason) ==
  [row EXCEPT !.state = "resolved", !.outcome = outcome, !.reason = reason]

\* The goroutine slot before a request arrives and after it was answered; its
\* key and intent are then of no account.
AnyKey == CHOOSE k \in Keys : TRUE
AnyIntent == CHOOSE i \in Intents : TRUE
IdleRequest ==
  [step |-> "idle", key |-> AnyKey, intent |-> AnyIntent, sent |-> "no"]

TypeOK ==
  /\ process \in {"up", "down", "sweeping"}
  /\ commands \in [Keys -> Row]
  /\ request \in [Requests -> [step : Steps, key : Keys, intent : Intents,
                               sent : {"no", "noClient", "failed", "ok"}]]
  /\ auditLog \subseteq AuditEntry
  /\ degraded \subseteq Keys
  /\ toSweep \subseteq Keys
  /\ attempts \in [Keys -> Nat]
  /\ lostRows \subseteq Keys /\ lostOutcomes \subseteq Keys
  /\ crashes \in 0..MaxCrashes
  /\ faults \in 0..MaxWriteFaults

\* A first start, on an empty store: the sweep finds nothing.
Init ==
  /\ process = "up"
  /\ commands = [k \in Keys |-> RowFor(AnyIntent, "absent")]
  /\ request = [r \in Requests |-> IdleRequest]
  /\ auditLog = {}
  /\ degraded = {}
  /\ toSweep = {}
  /\ attempts = [k \in Keys |-> 0]
  /\ lostRows = {} /\ lostOutcomes = {}
  /\ crashes = 0
  /\ faults = 0

-----------------------------------------------------------------------------
(***************************************************************************)
(* dispatchFPPCommand, one action per step of it.                          *)
(***************************************************************************)

At(r, step) == process = "up" /\ request[r].step = step
GoTo(r, step) == request' = [request EXCEPT ![r].step = step]
Answer(r) == request' = [request EXCEPT ![r] = IdleRequest]

\* An entry appended best effort: the audit log takes it, or cannot be written.
BestEffortAudit(kind, k, author) ==
  auditLog' \in
    {auditLog, auditLog \cup {[kind |-> kind, key |-> k, author |-> author]}}

\* A write to the commands table fails; the code logs that and goes on.
WriteFault ==
  /\ faults < MaxWriteFaults
  /\ faults' = faults + 1
  /\ UNCHANGED commands
WriteRow(k, row) ==
  /\ commands' = [commands EXCEPT ![k] = row]
  /\ UNCHANGED faults

\* Steps 1 and 2.  A request whose action, target or params do not validate,
\* or that a weather delay holds, is answered before it reads any state.
Receive(r) ==
  /\ At(r, "idle")
  /\ \E k \in Keys, i \in Intents :
       request' = [request EXCEPT
                     ![r] = [step |-> "lookup", key |-> k, intent |-> i, sent |-> "no"]]
  /\ UNCHANGED <<processVars, attempts, commands, auditLog, degraded,
                 lostWrites, faults>>

\* resolveFPPCommandReplay: the key has a row.  Another intent is a conflict;
\* the same one gets the recorded answer.  Nothing is dispatched.
Replay(r) ==
  LET k == request[r].key
  IN /\ Present(k)
     /\ IF commands[k].intent = request[r].intent
          THEN BestEffortAudit("replay", k, r)
          ELSE UNCHANGED auditLog
     /\ Answer(r)
     /\ UNCHANGED <<processVars, attempts, commands, degraded, lostWrites, faults>>

\* Step 3, the idempotency key is looked up before anything is decided.
LookUp(r) ==
  /\ At(r, "lookup")
  /\ \/ Replay(r)
     \/ /\ ~Present(request[r].key)
        /\ GoTo(r, "insert")
        /\ UNCHANGED <<processVars, attempts, commands, auditLog, degraded,
                       lostWrites, faults>>

\* The request ends with a problem or an internal error before it has a row:
\* the lookup failed, PreDispatchCheck refused, a write failed for a reason
\* other than the audit log, or the caller went away.
Withdraw(r) ==
  /\ \E step \in {"lookup", "insert", "degradedInsert"} : At(r, step)
  /\ Answer(r)
  /\ UNCHANGED <<processVars, attempts, commands, auditLog, degraded,
                 lostWrites, faults>>

\* Step 5: the row and the dispatch audit entry in one transaction.  The
\* UNIQUE key decides between requests that raced past the lookup; an audit
\* entry that cannot be written rolls the row back with it.
AuditedInsert(r) ==
  LET k == request[r].key
  IN /\ At(r, "insert")
     /\ \/ Replay(r)
        \/ /\ ~Present(k)
           /\ WriteRow(k, RowFor(request[r].intent, "pending"))
           /\ auditLog' = auditLog \cup {[kind |-> "dispatch", key |-> k, author |-> r]}
           /\ GoTo(r, "dispatch")
           /\ UNCHANGED <<processVars, attempts, degraded, lostWrites>>
        \/ /\ ~Present(k)
           /\ GoTo(r, "degradedInsert")
           /\ UNCHANGED <<processVars, attempts, commands, auditLog, degraded,
                          lostWrites, faults>>

\* Mutation of ReportDegraded: the fallback proceeds without saying so.
ReportNothing(k) == degraded' = degraded
ReportDegraded(k) == degraded' = degraded \cup {k}

\* The plain insert that follows an audit failure.  It is not transactional:
\* when the pruning it triggers fails, the row stays and the request ends.
DegradedInsert(r) ==
  LET k == request[r].key
  IN /\ At(r, "degradedInsert")
     /\ \/ Replay(r)
        \/ /\ ~Present(k)
           /\ WriteRow(k, RowFor(request[r].intent, "pending"))
           /\ ReportDegraded(k)
           /\ GoTo(r, "dispatch")
           /\ UNCHANGED <<processVars, attempts, auditLog, lostWrites>>
        \/ /\ ~Present(k)
           /\ faults < MaxWriteFaults
           /\ faults' = faults + 1
           /\ commands' = [commands EXCEPT ![k] = RowFor(request[r].intent, "pending")]
           /\ lostRows' = lostRows \cup {k}
           /\ Answer(r)
           /\ UNCHANGED <<processVars, attempts, auditLog, degraded, lostOutcomes>>

\* Step 6: primitive.Dispatch.  FPP may act on a request that "failed", whose
\* response was lost; without a client nothing leaves.
Dispatch(r) ==
  LET k == request[r].key
      Sent(result) == request' = [request EXCEPT ![r].step = "recordDispatched",
                                                 ![r].sent = result]
  IN /\ At(r, "dispatch")
     /\ \/ /\ Sent("noClient")
           /\ UNCHANGED attempts
        \/ \E result \in {"failed", "ok"} :
             /\ Sent(result)
             /\ attempts' = [attempts EXCEPT ![k] = @ + 1]
     /\ UNCHANGED <<processVars, commands, auditLog, degraded, lostWrites, faults>>

\* The update after the send: state "dispatched", and dispatched_at when a
\* request went out, whether it succeeded or not.
RecordDispatched(r) ==
  LET k == request[r].key
  IN /\ At(r, "recordDispatched")
     /\ \/ WriteRow(k, [commands[k] EXCEPT
                          !.state = "dispatched",
                          !.dispatchedAt = request[r].sent # "noClient"])
        \/ WriteFault
     /\ GoTo(r, "settle")
     /\ UNCHANGED <<processVars, attempts, auditLog, degraded, lostWrites>>

\* Step 7.  A failed send is unconfirmed at once.  Otherwise evidence is polled
\* until it agrees or the deadline passes; FPP's own activity can make it agree.
Settle(r) ==
  LET k == request[r].key
      Verdicts == IF request[r].sent = "ok"
                    THEN {<<"confirmed", "evidence">>, <<"unconfirmed", "evidence">>}
                    ELSE {<<"unconfirmed", "sendFailed">>}
  IN /\ At(r, "settle")
     /\ \/ /\ \E v \in Verdicts : WriteRow(k, Resolved(commands[k], v[1], v[2]))
           /\ UNCHANGED lostWrites
        \/ /\ WriteFault
           /\ lostRows' = lostRows \cup {k}
           /\ lostOutcomes' = lostOutcomes \cup {k}
     /\ GoTo(r, "auditOutcome")
     /\ UNCHANGED <<processVars, attempts, auditLog, degraded>>

\* The outcome audit entry, written even when the row could not be.
AuditOutcome(r) ==
  /\ At(r, "auditOutcome")
  /\ BestEffortAudit("outcome", request[r].key, r)
  /\ Answer(r)
  /\ UNCHANGED <<processVars, attempts, commands, degraded, lostWrites, faults>>

-----------------------------------------------------------------------------
(***************************************************************************)
(* The process dies, starts again, and sweeps before it listens.           *)
(***************************************************************************)

Crash ==
  /\ process # "down"
  /\ crashes < MaxCrashes
  /\ crashes' = crashes + 1
  /\ process' = "down"
  /\ toSweep' = {} /\ lostRows' = {}
  /\ request' = [r \in Requests |-> IdleRequest]
  /\ UNCHANGED <<attempts, commands, auditLog, degraded, lostOutcomes, faults>>

\* Mutation of Stranded: pending rows are forgotten.
StrandedDispatched == {k \in Keys : commands[k].state = "dispatched"}

\* ListUnresolvedCommands.
Stranded == {k \in Keys : Unresolved(k)}

\* When the scan fails the coordinator listens anyway.
Restart ==
  /\ process = "down"
  /\ \/ /\ process' = "sweeping"
        /\ toSweep' = Stranded
        /\ UNCHANGED <<lostRows, faults>>
     \/ /\ faults < MaxWriteFaults
        /\ faults' = faults + 1
        /\ process' = "up"
        /\ lostRows' = lostRows \cup Stranded
        /\ UNCHANGED toSweep
  /\ UNCHANGED <<attempts, crashes, commands, request, auditLog, degraded, lostOutcomes>>

\* Mutation of SweepVerdicts: evidence is evaluated for every row, from its
\* creation on when dispatched_at is unset.
VerdictsOnAnyRow(row) == {<<"confirmed", "evidence">>, <<"unconfirmed", "evidence">>}
\* What the sweep may make of a row: an action this version does not know, a
\* row without dispatched_at, or evidence since dispatched_at.
SweepVerdicts(row) ==
  {<<"unconfirmed", "unknownAction">>} \cup
  IF row.dispatchedAt
    THEN {<<"confirmed", "evidence">>, <<"unconfirmed", "evidence">>}
    ELSE {<<"unconfirmed", "neverSent">>}

SweepRow(k) ==
  /\ process = "sweeping"
  /\ k \in toSweep
  /\ toSweep' = toSweep \ {k}
  /\ \/ /\ \E v \in SweepVerdicts(commands[k]) :
             WriteRow(k, Resolved(commands[k], v[1], v[2]))
        /\ BestEffortAudit("outcome", k, Sweep)
        /\ UNCHANGED lostRows
     \/ /\ WriteFault
        /\ lostRows' = lostRows \cup {k}
        /\ UNCHANGED auditLog
  /\ UNCHANGED <<process, crashes, attempts, request, degraded, lostOutcomes>>

\* Mutation of Listen: the listener does not wait for the sweep.
ListenAtOnce ==
  /\ process = "sweeping"
  /\ process' = "up"
  /\ UNCHANGED <<toSweep, crashes, attempts, commands, request, auditLog,
                 degraded, lostWrites, faults>>

\* Run launches the listener only after the sweep returned.
Listen ==
  /\ process = "sweeping"
  /\ toSweep = {}
  /\ process' = "up"
  /\ UNCHANGED <<toSweep, crashes, attempts, commands, request, auditLog,
                 degraded, lostWrites, faults>>

-----------------------------------------------------------------------------
Work(r) ==
  \/ LookUp(r)
  \/ AuditedInsert(r)
  \/ DegradedInsert(r)
  \/ Dispatch(r)
  \/ RecordDispatched(r)
  \/ Settle(r)
  \/ AuditOutcome(r)

Startup == Restart \/ (\E k \in Keys : SweepRow(k)) \/ Listen

Next ==
  \/ \E r \in Requests : Receive(r) \/ Withdraw(r) \/ Work(r)
  \/ Crash
  \/ Startup

\* A request runs on a goroutine of its own, every wait of which has a timeout
\* (the HTTP client, the confirmation deadline, the bounded writes), and a
\* supervisor starts the process again.  Nobody is obliged to send a request.
Fairness == WF_vars(Startup) /\ \A r \in Requests : WF_vars(Work(r))

Spec == Init /\ [][Next]_vars
FairSpec == Spec /\ Fairness

-----------------------------------------------------------------------------
(***************************************************************************)
(* Properties.                                                             *)
(***************************************************************************)

OwnerSteps == {"dispatch", "recordDispatched", "settle"}
Owns(r, k) == request[r].key = k /\ request[r].step \in OwnerSteps

\* An idempotency key reaches FPP at most once, however many requests present
\* it at the same time, whichever insert they go through, and across restarts
\* (dispatchFPPCommand steps 3 to 6).
AttemptedAtMostOnce == \A k \in Keys : attempts[k] <= 1

\* Nothing leaves the coordinator that is not in the journal, and unless it was
\* reported as degraded, in the audit log too (AuditedWrite is atomic and comes
\* before the send).
AttemptIsAccountedFor ==
  \A k \in Keys :
    attempts[k] > 0 =>
      /\ Present(k)
      /\ \/ k \in degraded
         \/ \E r \in Requests :
              [kind |-> "dispatch", key |-> k, author |-> r] \in auditLog

\* While the coordinator listens, a row without an outcome is being handled by
\* exactly one live request, unless a write of this process's lost it.  That is
\* what lets the sweep call every open row stranded (fppcommand_reconcile.go:49-67).
OpenRowHasOneOwner ==
  process = "up" =>
    \A k \in Keys :
      Unresolved(k) /\ k \notin lostRows =>
        \E r \in Requests :
          Owns(r, k) /\ \A s \in Requests : Owns(s, k) => s = r

\* One command is never reported as settled by two authors: a live request and
\* the sweep used to race for the same row (fppcommand_reconcile.go:36-41).  Only
\* where the request could not write what it audited does the sweep say it again.
OutcomeAuditedByOneAuthor ==
  \A e, f \in auditLog :
    e.kind = "outcome" /\ f.kind = "outcome" /\ e.key = f.key
      /\ e.key \notin lostOutcomes => e = f

\* The sweep settles an open row, and nothing ever changes a settled one.
SettledRowIsFinal ==
  [][\A k \in Keys : commands[k].state = "resolved" => commands'[k] = commands[k]]_vars

\* Every command gets an outcome: from its own request, or after a crash from
\* the sweep.  A row that a failed write lost stays blank while this process runs;
\* the sweep of the next start owes it an outcome again.
EveryCommandSettles ==
  \A k \in Keys :
    Unresolved(k) ~> (commands[k].state = "resolved" \/ k \in lostRows)

\* The journal and the world, as the abstract promise sees them.
JournalOf(row) ==
  CASE row.state = "absent" -> "absent"
    [] row.state = "resolved" -> row.outcome
    [] OTHER -> "open"

Promise == INSTANCE CommandPromise
  WITH journal <- [k \in Keys |-> JournalOf(commands[k])]

\* Recorded before attempted, attempted at most once, settled at most once, and
\* confirmed only if attempted: dispatch, crash and sweep together implement
\* the promise.
ImplementsPromise == Promise!Spec
=============================================================================
