-------------------------- MODULE FppCommandProofs --------------------------
(***************************************************************************)
(* Proofs about FppCommand, for any number of requests, keys and intents   *)
(* and any bounds on crashes and failed writes.                            *)
(*                                                                         *)
(* None of the safety properties is inductive by itself.  That a key is    *)
(* attempted at most once, for instance, depends on which request may      *)
(* still send it, which depends on who owns its row, which depends on what *)
(* a crash and the sweep leave behind.  IInv says all of it; every safety  *)
(* property follows from IInv, or from IInv and one step.                  *)
(***************************************************************************)
EXTENDS FppCommand, TLAPS

\* A request is at work on key k from its insert until it answers.
WorksOn(r, k) ==
  request[r].key = k /\ request[r].step \in OwnerSteps \cup {"auditOutcome"}

\* The dispatch of k was reported: in the audit log, or as degraded.
Reported(k) ==
  \/ k \in degraded
  \/ \E e \in auditLog : e.kind = "dispatch" /\ e.key = k /\ e.author \in Requests
OutcomeAudited(k) == \E e \in auditLog : e.kind = "outcome" /\ e.key = k

\* Requests run only while the process listens; the sweep holds open rows only,
\* and all of those that no failed write has lost.
ProcessInv ==
  /\ process # "up" => \A r \in Requests : request[r].step = "idle"
  /\ process # "sweeping" => toSweep = {}
  /\ \A k \in toSweep : Unresolved(k)
  /\ process = "sweeping" =>
       \A k \in Keys : Unresolved(k) => k \in toSweep \cup lostRows

\* What a row says about the attempts made for it.
RowInv ==
  \A k \in Keys :
    /\ attempts[k] \in {0, 1}
    /\ attempts[k] = 1 => Present(k) /\ Reported(k)
    /\ commands[k].dispatchedAt => attempts[k] = 1
    /\ commands[k].state = "resolved" => commands[k].outcome \in Outcomes
    /\ commands[k].state = "resolved" /\ commands[k].outcome = "confirmed"
         => attempts[k] = 1

\* What a request at work on a key knows about it: the row is open and reported,
\* the command has not been attempted before the send and, if a request went
\* out, has been attempted after it.
OwnerInv ==
  \A r \in Requests :
    LET k == request[r].key
    IN /\ request[r].step \in OwnerSteps => Unresolved(k) /\ Reported(k)
       /\ request[r].step = "dispatch" => attempts[k] = 0
       /\ request[r].step \in {"recordDispatched", "settle"} =>
            request[r].sent = "noClient" \/ attempts[k] = 1
       /\ request[r].step = "auditOutcome" =>
            commands[k].state = "resolved" \/ k \in lostOutcomes
       /\ request[r].step = "auditOutcome" => Present(k)

\* Two requests are never at work on one key.
UniqueInv ==
  \A r, s \in Requests : \A k \in Keys : WorksOn(r, k) /\ WorksOn(s, k) => r = s

\* An open row has an owner while the process listens.
OwnedInv ==
  process = "up" =>
    \A k \in Keys : Unresolved(k) /\ k \notin lostRows => \E r \in Requests : Owns(r, k)

\* The outcome of a key is in the audit log once at most, and not before the
\* key's row is settled and its request past its last step.
AuditInv ==
  /\ \A k \in Keys : OutcomeAudited(k) /\ k \notin lostOutcomes =>
       commands[k].state = "resolved" /\ \A r \in Requests : ~WorksOn(r, k)
  /\ OutcomeAuditedByOneAuthor

IInv ==
  /\ TypeOK
  /\ ProcessInv
  /\ RowInv
  /\ OwnerInv
  /\ UniqueInv
  /\ OwnedInv
  /\ AuditInv

-----------------------------------------------------------------------------
\* The tuples actions leave unchanged are expanded throughout.
USE DEF processVars, lostWrites

LEMMA IdleRequestType ==
  /\ AnyKey \in Keys
  /\ AnyIntent \in Intents
  /\ IdleRequest \in [step : Steps, key : Keys, intent : Intents,
                      sent : {"no", "noClient", "failed", "ok"}]
  BY CallersAssumption DEF AnyKey, AnyIntent, IdleRequest, Steps

LEMMA RowForType ==
  ASSUME NEW i \in Intents, NEW s \in {"absent", "pending", "dispatched"}
  PROVE  RowFor(i, s) \in Row
  BY DEF RowFor, Row, Outcomes, Reasons

LEMMA ResolvedType ==
  ASSUME NEW row \in Row, NEW o \in Outcomes, NEW reason \in Reasons
  PROVE  Resolved(row, o, reason) \in Row
  BY DEF Resolved, Row

LEMMA DispatchedType ==
  ASSUME NEW row \in Row, NEW went \in BOOLEAN
  PROVE  [row EXCEPT !.state = "dispatched", !.dispatchedAt = went] \in Row
  BY DEF Row

\* Every variable keeps its type in every step.
LEMMA TypeStep == TypeOK /\ [Next]_vars => TypeOK'
<1> SUFFICES ASSUME TypeOK, [Next]_vars PROVE TypeOK'
  OBVIOUS
<1> USE IdleRequestType
<1>1. ASSUME NEW r \in Requests, Receive(r) PROVE TypeOK'
  BY <1>1 DEF TypeOK, Receive, At, Steps
<1>2. ASSUME NEW r \in Requests, Withdraw(r) PROVE TypeOK'
  BY <1>2 DEF TypeOK, Withdraw, Answer
<1>3. ASSUME NEW r \in Requests, LookUp(r) PROVE TypeOK'
  BY <1>3 DEF TypeOK, LookUp, Replay, Answer, GoTo, BestEffortAudit, AuditEntry, Steps
<1>4. ASSUME NEW r \in Requests, AuditedInsert(r) PROVE TypeOK'
  BY <1>4, RowForType
     DEF TypeOK, AuditedInsert, Replay, Answer, GoTo, BestEffortAudit, AuditEntry,
         Steps, WriteRow
<1>5. ASSUME NEW r \in Requests, DegradedInsert(r) PROVE TypeOK'
  BY <1>5, RowForType, BoundsAssumption
     DEF TypeOK, DegradedInsert, Replay, Answer, GoTo, BestEffortAudit, AuditEntry,
         Steps, WriteRow, ReportDegraded
<1>6. ASSUME NEW r \in Requests, Dispatch(r) PROVE TypeOK'
  BY <1>6 DEF TypeOK, Dispatch, Steps
<1>7. ASSUME NEW r \in Requests, RecordDispatched(r) PROVE TypeOK'
  <2> DEFINE k == request[r].key
             went == request[r].sent # "noClient"
             row == [commands[k] EXCEPT !.state = "dispatched", !.dispatchedAt = went]
  <2>1. k \in Keys /\ commands[k] \in Row
    BY <1>7 DEF TypeOK
  <2>2. row \in Row
    BY <2>1, DispatchedType
  <2>3. \/ commands' = [commands EXCEPT ![k] = row] /\ UNCHANGED faults
        \/ WriteFault
    BY <1>7 DEF RecordDispatched, WriteRow
  <2> HIDE DEF row
  <2>4. commands' \in [Keys -> Row] /\ faults' \in 0..MaxWriteFaults
    BY <2>1, <2>2, <2>3, BoundsAssumption DEF TypeOK, WriteFault
  <2> QED
    BY <1>7, <2>4 DEF TypeOK, RecordDispatched, GoTo, Steps
<1>8. ASSUME NEW r \in Requests, Settle(r) PROVE TypeOK'
  BY <1>8, BoundsAssumption, ResolvedType
     DEF TypeOK, Settle, GoTo, Steps, WriteRow, WriteFault, Reasons, Outcomes
<1>9. ASSUME NEW r \in Requests, AuditOutcome(r) PROVE TypeOK'
  BY <1>9 DEF TypeOK, AuditOutcome, Answer, BestEffortAudit, AuditEntry
<1>10. CASE Crash
  BY <1>10, BoundsAssumption DEF TypeOK, Crash
<1>11. CASE Restart
  BY <1>11, BoundsAssumption DEF TypeOK, Restart, Stranded
<1>12. ASSUME NEW k \in Keys, SweepRow(k) PROVE TypeOK'
  BY <1>12, BoundsAssumption, ResolvedType
     DEF TypeOK, SweepRow, SweepVerdicts, WriteRow, WriteFault, BestEffortAudit,
         AuditEntry, Reasons, Outcomes
<1>13. CASE Listen
  BY <1>13 DEF TypeOK, Listen
<1>14. CASE UNCHANGED vars
  BY <1>14 DEF TypeOK, vars
<1> QED
  BY <1>1, <1>2, <1>3, <1>4, <1>5, <1>6, <1>7, <1>8, <1>9, <1>10, <1>11, <1>12,
     <1>13, <1>14 DEF Next, Work, Startup

-----------------------------------------------------------------------------
\* The predicates the invariant is written with are expanded from here on.
USE DEF Present, Unresolved, At, Owns, OwnerSteps, WorksOn, Reported,
        OutcomeAudited, OutcomeAuditedByOneAuthor, Outcomes

\* A replay, from whichever step, ends the request and leaves the row alone.
LEMMA ReplayInv ==
  ASSUME IInv, TypeOK', NEW r \in Requests, process = "up", Replay(r),
         request[r].step \in {"lookup", "insert", "degradedInsert"}
  PROVE  IInv'
<1> USE DEF IInv, TypeOK, Replay, Answer, IdleRequest, BestEffortAudit
<1>1. ProcessInv'
  BY DEF ProcessInv
<1>2. RowInv'
  BY DEF RowInv
<1>3. OwnerInv'
  BY DEF OwnerInv
<1>4. UniqueInv'
  BY DEF UniqueInv
<1>5. OwnedInv'
  BY DEF OwnedInv
<1>6. AuditInv'
  BY DEF AuditInv
<1> QED
  BY <1>1, <1>2, <1>3, <1>4, <1>5, <1>6

\* A request may move between steps on which it works on no key.
LEMMA MoveInv ==
  ASSUME IInv, TypeOK', NEW r \in Requests, process = "up",
         request[r].step \notin OwnerSteps \cup {"auditOutcome"},
         request'[r].step \notin OwnerSteps \cup {"auditOutcome"},
         \A s \in Requests : s # r => request'[s] = request[s],
         UNCHANGED <<processVars, attempts, commands, auditLog, degraded,
                     lostWrites, faults>>
  PROVE  IInv'
<1> USE DEF IInv, TypeOK
<1>1. ProcessInv'
  BY DEF ProcessInv
<1>2. RowInv'
  BY DEF RowInv
<1>3. OwnerInv'
  BY DEF OwnerInv
<1>4. UniqueInv'
  BY DEF UniqueInv
<1>5. OwnedInv'
  BY DEF OwnedInv
<1>6. AuditInv'
  BY DEF AuditInv
<1> QED
  BY <1>1, <1>2, <1>3, <1>4, <1>5, <1>6

\* A key without a row has no request at work on it.
LEMMA AbsentIsFree ==
  ASSUME IInv, NEW k \in Keys, ~Present(k)
  PROVE  /\ attempts[k] = 0
         /\ \A r \in Requests : ~WorksOn(r, k)
         /\ k \notin lostOutcomes => ~OutcomeAudited(k)
  BY DEF IInv, TypeOK, RowInv, OwnerInv, AuditInv

\* A request that inserts the row of a key becomes its one owner.
LEMMA InsertInv ==
  ASSUME IInv, TypeOK', NEW r \in Requests, process = "up",
         request[r].step \in {"insert", "degradedInsert"},
         ~Present(request[r].key),
         WriteRow(request[r].key, RowFor(request[r].intent, "pending")),
         GoTo(r, "dispatch"),
         \/ /\ auditLog' = auditLog \cup
                 {[kind |-> "dispatch", key |-> request[r].key, author |-> r]}
            /\ UNCHANGED degraded
         \/ /\ degraded' = degraded \cup {request[r].key}
            /\ UNCHANGED auditLog,
         UNCHANGED <<processVars, attempts, lostWrites>>
  PROVE  IInv'
<1> DEFINE k == request[r].key
<1> USE DEF IInv, TypeOK, WriteRow, RowFor, GoTo
<1>0. k \in Keys
  OBVIOUS
<1>1. /\ attempts[k] = 0
      /\ \A s \in Requests : ~WorksOn(s, k)
      /\ k \notin lostOutcomes => ~OutcomeAudited(k)
  BY AbsentIsFree, <1>0
<1>2. /\ commands'[k].state = "pending" /\ ~commands'[k].dispatchedAt
      /\ \A j \in Keys : j # k => commands'[j] = commands[j]
  BY <1>0
<1>3. /\ request'[r].step = "dispatch" /\ request'[r].key = k
      /\ \A s \in Requests : s # r => request'[s] = request[s]
  OBVIOUS
<1>4. /\ \A j \in Keys : Reported(j) => Reported(j)'
      /\ Reported(k)'
      /\ \A e \in auditLog' : e.kind = "outcome" => e \in auditLog
  <2> DEFINE entry == [kind |-> "dispatch", key |-> k, author |-> r]
  <2>1. entry.kind = "dispatch" /\ entry.key = k /\ entry.author \in Requests
    OBVIOUS
  <2>2. CASE auditLog' = auditLog \cup {entry} /\ degraded' = degraded
    <3> HIDE DEF entry
    <3> QED
      BY <2>1, <2>2
  <2>3. CASE degraded' = degraded \cup {k} /\ auditLog' = auditLog
    BY <2>3
  <2> QED
    BY <2>2, <2>3
<1>5. ProcessInv'
  BY <1>0, <1>2, <1>3 DEF ProcessInv
<1>6. RowInv'
  BY <1>0, <1>1, <1>2, <1>4 DEF RowInv
<1>7. OwnerInv'
  BY <1>0, <1>1, <1>2, <1>3, <1>4 DEF OwnerInv
<1>8. UniqueInv'
  BY <1>1, <1>3 DEF UniqueInv
<1>9. OwnedInv'
  BY <1>0, <1>2, <1>3 DEF OwnedInv
<1>10. AuditInv'
  BY <1>0, <1>1, <1>2, <1>3, <1>4 DEF AuditInv
<1> QED
  BY <1>5, <1>6, <1>7, <1>8, <1>9, <1>10

\* The insert whose pruning fails leaves a row that nobody owns, and says so.
LEMMA LostInsertInv ==
  ASSUME IInv, TypeOK', NEW r \in Requests, process = "up",
         request[r].step = "degradedInsert",
         ~Present(request[r].key),
         commands' = [commands EXCEPT
           ![request[r].key] = RowFor(request[r].intent, "pending")],
         lostRows' = lostRows \cup {request[r].key},
         Answer(r),
         UNCHANGED <<processVars, attempts, auditLog, degraded, lostOutcomes>>
  PROVE  IInv'
<1> DEFINE k == request[r].key
<1> USE DEF IInv, TypeOK, RowFor, Answer, IdleRequest
<1>1. /\ k \in Keys
      /\ attempts[k] = 0
      /\ \A s \in Requests : ~WorksOn(s, k)
  BY AbsentIsFree
<1>2. /\ commands'[k].state = "pending" /\ ~commands'[k].dispatchedAt
      /\ \A j \in Keys : j # k => commands'[j] = commands[j]
  OBVIOUS
<1>3. /\ request'[r].step = "idle"
      /\ \A s \in Requests : s # r => request'[s] = request[s]
  OBVIOUS
<1>4. ProcessInv'
  BY <1>1, <1>2, <1>3 DEF ProcessInv
<1>5. RowInv'
  BY <1>1, <1>2 DEF RowInv
<1>6. OwnerInv'
  BY <1>1, <1>2, <1>3 DEF OwnerInv
<1>7. UniqueInv'
  BY <1>1, <1>3 DEF UniqueInv
<1>8. OwnedInv'
  BY <1>1, <1>2, <1>3 DEF OwnedInv
<1>9. AuditInv'
  BY <1>1, <1>2, <1>3 DEF AuditInv
<1> QED
  BY <1>4, <1>5, <1>6, <1>7, <1>8, <1>9

\* The send: the owner of a key is the one who may attempt it, and does so once.
LEMMA DispatchInv ==
  ASSUME IInv, TypeOK', NEW r \in Requests, Dispatch(r)
  PROVE  IInv'
<1> DEFINE k == request[r].key
<1> USE DEF IInv, TypeOK
<1>1. /\ k \in Keys /\ process = "up" /\ request[r].step = "dispatch"
      /\ attempts[k] = 0 /\ Unresolved(k) /\ Reported(k)
  BY DEF Dispatch, OwnerInv
<1>2. /\ request'[r].step = "recordDispatched" /\ request'[r].key = k
      /\ \A s \in Requests : s # r => request'[s] = request[s]
  BY DEF Dispatch
<1>3. /\ request'[r].sent = "noClient" \/ attempts'[k] = 1
      /\ attempts'[k] \in {0, 1}
      /\ \A j \in Keys : j # k => attempts'[j] = attempts[j]
  BY <1>1 DEF Dispatch
<1>4. UNCHANGED <<process, toSweep, commands, auditLog, degraded, lostWrites>>
  BY DEF Dispatch
<1>5. ProcessInv'
  BY <1>1, <1>4 DEF ProcessInv
<1>6. RowInv'
  BY <1>1, <1>3, <1>4 DEF RowInv
<1>7. OwnerInv'
  <2>1. \A s \in Requests : s # r /\ request[s].step \in OwnerSteps
          => request[s].key # k
    BY <1>1 DEF UniqueInv
  <2> QED
    BY <1>1, <1>2, <1>3, <1>4, <2>1 DEF OwnerInv
<1>8. UniqueInv'
  BY <1>1, <1>2 DEF UniqueInv
<1>9. OwnedInv'
  <2>1. request[r].key = k /\ request[r].step = "dispatch"
    BY <1>1
  <2> QED
    BY <2>1, <1>2, <1>4 DEF OwnedInv
<1>10. AuditInv'
  BY <1>1, <1>2, <1>4 DEF AuditInv
<1> QED
  BY <1>5, <1>6, <1>7, <1>8, <1>9, <1>10

\* The update after the send keeps the row open, and its owner.
LEMMA RecordDispatchedInv ==
  ASSUME IInv, TypeOK', NEW r \in Requests, RecordDispatched(r)
  PROVE  IInv'
<1> DEFINE k == request[r].key
<1> USE DEF IInv, TypeOK
<1>1. /\ k \in Keys /\ process = "up" /\ request[r].step = "recordDispatched"
      /\ request[r].sent = "noClient" \/ attempts[k] = 1
      /\ Unresolved(k) /\ Reported(k)
  BY DEF RecordDispatched, OwnerInv
<1>2. /\ request'[r].step = "settle" /\ request'[r].key = k
      /\ request'[r].sent = request[r].sent
      /\ \A s \in Requests : s # r => request'[s] = request[s]
  BY DEF RecordDispatched, GoTo
<1>3. /\ commands'[k].state \in {"pending", "dispatched"}
      /\ commands'[k].dispatchedAt => attempts[k] = 1
      /\ \A j \in Keys : j # k => commands'[j] = commands[j]
  <2>1. CASE commands' = commands
    BY <1>1, <2>1 DEF RowInv
  <2> DEFINE went == request[r].sent # "noClient"
  <2>2. ASSUME NEW b \in BOOLEAN, b => attempts[k] = 1,
               commands' = [commands EXCEPT
                 ![k] = [commands[k] EXCEPT !.state = "dispatched", !.dispatchedAt = b]]
        PROVE  /\ commands'[k].state \in {"pending", "dispatched"}
               /\ commands'[k].dispatchedAt => attempts[k] = 1
               /\ \A j \in Keys : j # k => commands'[j] = commands[j]
    <3> DEFINE row == [commands[k] EXCEPT !.state = "dispatched", !.dispatchedAt = b]
    <3>1. row.state = "dispatched" /\ row.dispatchedAt = b
      BY <1>1 DEF Row
    <3> HIDE DEF row
    <3> QED
      BY <1>1, <2>2, <3>1
  <2>3. went \in BOOLEAN /\ (went => attempts[k] = 1)
    BY <1>1
  <2>4. \/ UNCHANGED commands
        \/ commands' = [commands EXCEPT
             ![k] = [commands[k] EXCEPT !.state = "dispatched", !.dispatchedAt = went]]
    BY DEF RecordDispatched, WriteRow, WriteFault
  <2> HIDE DEF went
  <2> QED
    BY <2>1, <2>2, <2>3, <2>4
<1>4. UNCHANGED <<process, toSweep, attempts, auditLog, degraded, lostWrites>>
  BY DEF RecordDispatched
<1>5. ProcessInv'
  BY <1>1, <1>4 DEF ProcessInv
<1>6. RowInv'
  BY <1>1, <1>3, <1>4 DEF RowInv
<1>7. OwnerInv'
  BY <1>1, <1>2, <1>3, <1>4 DEF OwnerInv
<1>8. UniqueInv'
  BY <1>1, <1>2 DEF UniqueInv
<1>9. OwnedInv'
  BY <1>1, <1>2, <1>3, <1>4 DEF OwnedInv
<1>10. AuditInv'
  BY <1>1, <1>2, <1>3, <1>4 DEF AuditInv
<1> QED
  BY <1>5, <1>6, <1>7, <1>8, <1>9, <1>10

\* A row settled by an update: what Resolved leaves in it.
LEMMA ResolvedRow ==
  ASSUME NEW row \in Row, NEW o \in Outcomes, NEW reason \in Reasons
  PROVE  /\ Resolved(row, o, reason).state = "resolved"
         /\ Resolved(row, o, reason).outcome = o
         /\ Resolved(row, o, reason).dispatchedAt = row.dispatchedAt
  BY DEF Resolved, Row

\* The owner settles its row, or loses the write; either way it owns it no more.
LEMMA SettleInv ==
  ASSUME IInv, TypeOK', NEW r \in Requests, Settle(r)
  PROVE  IInv'
<1> DEFINE k == request[r].key
<1> USE DEF IInv, TypeOK
<1>1. /\ k \in Keys /\ process = "up" /\ request[r].step = "settle"
      /\ request[r].sent = "noClient" \/ attempts[k] = 1
      /\ Unresolved(k) /\ Reported(k) /\ commands[k] \in Row
  BY DEF Settle, OwnerInv
<1>2. /\ request'[r].step = "auditOutcome" /\ request'[r].key = k
      /\ \A s \in Requests : s # r => request'[s] = request[s]
  BY DEF Settle, GoTo
<1>3. \/ /\ commands'[k].state = "resolved"
         /\ commands'[k].outcome \in Outcomes
         /\ commands'[k].outcome = "confirmed" => attempts[k] = 1
         /\ commands'[k].dispatchedAt => attempts[k] = 1
         /\ UNCHANGED lostWrites
      \/ /\ commands'[k] = commands[k]
         /\ lostRows' = lostRows \cup {k} /\ lostOutcomes' = lostOutcomes \cup {k}
  <2>1. ASSUME NEW o \in Outcomes, NEW reason \in Reasons,
               o = "confirmed" => request[r].sent = "ok",
               commands' = [commands EXCEPT ![k] = Resolved(commands[k], o, reason)]
        PROVE  /\ commands'[k].state = "resolved"
               /\ commands'[k].outcome \in Outcomes
               /\ commands'[k].outcome = "confirmed" => attempts[k] = 1
               /\ commands'[k].dispatchedAt => attempts[k] = 1
    BY <1>1, <2>1, ResolvedRow DEF RowInv
  <2> QED
    BY <2>1 DEF Settle, WriteRow, WriteFault, Reasons
<1>4. \A j \in Keys : j # k => commands'[j] = commands[j]
  BY DEF Settle, WriteRow, WriteFault
<1>5. UNCHANGED <<process, toSweep, attempts, auditLog, degraded>>
  BY DEF Settle
<1>6. \A s \in Requests : s # r /\ request[s].step \in OwnerSteps \cup {"auditOutcome"}
        => request[s].key # k
  BY <1>1 DEF UniqueInv
<1>7. ProcessInv'
  BY <1>1, <1>5 DEF ProcessInv
<1>8. RowInv'
  BY <1>1, <1>3, <1>4, <1>5 DEF RowInv
<1>9. OwnerInv'
  BY <1>1, <1>2, <1>3, <1>4, <1>5, <1>6 DEF OwnerInv
<1>10. UniqueInv'
  BY <1>1, <1>2 DEF UniqueInv
<1>11. OwnedInv'
  BY <1>1, <1>2, <1>3, <1>4, <1>5 DEF OwnedInv
<1>12. AuditInv'
  BY <1>1, <1>2, <1>3, <1>4, <1>5 DEF AuditInv
<1> QED
  BY <1>7, <1>8, <1>9, <1>10, <1>11, <1>12

\* The outcome entry is the first of its key: nobody else was at work on it.
LEMMA AuditOutcomeInv ==
  ASSUME IInv, TypeOK', NEW r \in Requests, AuditOutcome(r)
  PROVE  IInv'
<1> USE DEF IInv, TypeOK, AuditOutcome, Answer, IdleRequest, BestEffortAudit
<1>1. ProcessInv'
  BY DEF ProcessInv
<1>2. RowInv'
  BY DEF RowInv
<1>3. OwnerInv'
  BY DEF OwnerInv
<1>4. UniqueInv'
  BY DEF UniqueInv
<1>5. OwnedInv'
  BY DEF OwnedInv
<1>6. AuditInv'
  BY DEF AuditInv, OwnerInv, UniqueInv
<1> QED
  BY <1>1, <1>2, <1>3, <1>4, <1>5, <1>6

\* A crash leaves no request at work; a restart lists every open row, or loses
\* all of them to a failed scan.
LEMMA CrashRestartInv ==
  ASSUME IInv, TypeOK', Crash \/ Restart
  PROVE  IInv'
<1> USE DEF IInv, TypeOK, Crash, Restart, Stranded, IdleRequest
<1>1. ProcessInv'
  BY DEF ProcessInv
<1>2. RowInv'
  BY DEF RowInv
<1>3. OwnerInv'
  BY DEF OwnerInv, ProcessInv
<1>4. UniqueInv'
  BY DEF UniqueInv
<1>5. OwnedInv'
  BY DEF OwnedInv
<1>6. AuditInv'
  BY DEF AuditInv
<1> QED
  BY <1>1, <1>2, <1>3, <1>4, <1>5, <1>6

\* The sweep settles a row nobody owns, or loses the write.
LEMMA SweepRowInv ==
  ASSUME IInv, TypeOK', NEW k \in Keys, SweepRow(k)
  PROVE  IInv'
<1> USE DEF IInv, TypeOK
<1>1. /\ process = "sweeping" /\ Unresolved(k) /\ commands[k] \in Row
      /\ \A r \in Requests : request[r].step = "idle"
      /\ commands[k].dispatchedAt => attempts[k] = 1
  BY DEF SweepRow, ProcessInv, RowInv
<1>2. \/ /\ commands'[k].state = "resolved"
         /\ commands'[k].outcome \in Outcomes
         /\ commands'[k].outcome = "confirmed" => attempts[k] = 1
         /\ commands'[k].dispatchedAt => attempts[k] = 1
         /\ UNCHANGED lostWrites
      \/ /\ commands'[k] = commands[k]
         /\ lostRows' = lostRows \cup {k}
         /\ auditLog' = auditLog
  <2>1. ASSUME NEW o \in Outcomes, NEW reason \in Reasons,
               o = "confirmed" => commands[k].dispatchedAt,
               commands' = [commands EXCEPT ![k] = Resolved(commands[k], o, reason)]
        PROVE  /\ commands'[k].state = "resolved"
               /\ commands'[k].outcome \in Outcomes
               /\ commands'[k].outcome = "confirmed" => attempts[k] = 1
               /\ commands'[k].dispatchedAt => attempts[k] = 1
    BY <1>1, <2>1, ResolvedRow
  <2> QED
    BY <2>1 DEF SweepRow, SweepVerdicts, WriteRow, WriteFault, Reasons
<1>3. \A j \in Keys : j # k => commands'[j] = commands[j]
  BY DEF SweepRow, WriteRow, WriteFault
<1>4. /\ UNCHANGED <<process, request, attempts, degraded, lostOutcomes>>
      /\ toSweep' = toSweep \ {k}
      /\ \/ auditLog' = auditLog
         \/ auditLog' = auditLog \cup {[kind |-> "outcome", key |-> k, author |-> Sweep]}
  BY DEF SweepRow, BestEffortAudit
<1>5. ProcessInv'
  BY <1>1, <1>2, <1>3, <1>4 DEF ProcessInv
<1>6. \A j \in Keys : Reported(j) => Reported(j)'
  BY <1>4
<1>7. RowInv'
  BY <1>1, <1>2, <1>3, <1>4, <1>6 DEF RowInv
<1>8. OwnerInv'
  BY <1>1, <1>4 DEF OwnerInv
<1>9. UniqueInv'
  BY <1>1, <1>4 DEF UniqueInv
<1>10. OwnedInv'
  BY <1>1, <1>4 DEF OwnedInv
<1>11. AuditInv'
  BY <1>1, <1>2, <1>3, <1>4 DEF AuditInv
<1> QED
  BY <1>5, <1>7, <1>8, <1>9, <1>10, <1>11

\* The listener starts when the sweep has nothing left, so no open row that was
\* not lost is left without an owner.
LEMMA ListenInv ==
  ASSUME IInv, TypeOK', Listen
  PROVE  IInv'
<1> USE DEF IInv, TypeOK, Listen
<1>1. ProcessInv'
  BY DEF ProcessInv
<1>2. RowInv'
  BY DEF RowInv
<1>3. OwnerInv'
  BY DEF OwnerInv
<1>4. UniqueInv'
  BY DEF UniqueInv
<1>5. OwnedInv'
  BY DEF OwnedInv, ProcessInv
<1>6. AuditInv'
  BY DEF AuditInv
<1> QED
  BY <1>1, <1>2, <1>3, <1>4, <1>5, <1>6

\* Every step preserves the invariant.
LEMMA InvStep == IInv /\ [Next]_vars => IInv'
<1> SUFFICES ASSUME IInv, [Next]_vars PROVE IInv'
  OBVIOUS
<1>1. TypeOK'
  BY TypeStep DEF IInv
<1>2. ASSUME NEW r \in Requests, Receive(r) PROVE IInv'
  BY <1>1, <1>2, MoveInv DEF Receive, IInv, TypeOK
<1>3. ASSUME NEW r \in Requests, Withdraw(r) PROVE IInv'
  BY <1>1, <1>3, MoveInv DEF Withdraw, Answer, IdleRequest, IInv, TypeOK
<1>4. ASSUME NEW r \in Requests, LookUp(r) PROVE IInv'
  <2>1. CASE Replay(r)
    BY <1>1, <1>4, <2>1, ReplayInv DEF LookUp
  <2>2. CASE ~Replay(r)
    BY <1>1, <1>4, <2>2, MoveInv DEF LookUp, GoTo, IInv, TypeOK
  <2> QED
    BY <2>1, <2>2
<1>5. ASSUME NEW r \in Requests, AuditedInsert(r) PROVE IInv'
  <2>1. CASE Replay(r)
    BY <1>1, <1>5, <2>1, ReplayInv DEF AuditedInsert
  <2>2. CASE ~Replay(r) /\ request'[r].step = "dispatch"
    BY <1>1, <1>5, <2>2, InsertInv DEF AuditedInsert, GoTo, IInv, TypeOK
  <2>3. CASE ~Replay(r) /\ request'[r].step # "dispatch"
    <3>1. /\ GoTo(r, "degradedInsert") /\ At(r, "insert") /\ process = "up"
          /\ UNCHANGED <<processVars, attempts, commands, auditLog, degraded,
                         lostWrites, faults>>
      BY <1>5, <2>3 DEF AuditedInsert, GoTo, IInv, TypeOK
    <3> QED
      BY <1>1, <3>1, MoveInv DEF GoTo, IInv, TypeOK
  <2> QED
    BY <2>1, <2>2, <2>3
<1>6. ASSUME NEW r \in Requests, DegradedInsert(r) PROVE IInv'
  <2>1. CASE Replay(r)
    BY <1>1, <1>6, <2>1, ReplayInv DEF DegradedInsert
  <2>2. CASE ~Replay(r) /\ request'[r].step = "dispatch"
    BY <1>1, <1>6, <2>2, InsertInv
       DEF DegradedInsert, ReportDegraded, Answer, IdleRequest, IInv, TypeOK
  <2>3. CASE ~Replay(r) /\ request'[r].step # "dispatch"
    BY <1>1, <1>6, <2>3, LostInsertInv DEF DegradedInsert, GoTo, IInv, TypeOK
  <2> QED
    BY <2>1, <2>2, <2>3
<1>7. ASSUME NEW r \in Requests, Dispatch(r) PROVE IInv'
  BY <1>1, <1>7, DispatchInv
<1>8. ASSUME NEW r \in Requests, RecordDispatched(r) PROVE IInv'
  BY <1>1, <1>8, RecordDispatchedInv
<1>9. ASSUME NEW r \in Requests, Settle(r) PROVE IInv'
  BY <1>1, <1>9, SettleInv
<1>10. ASSUME NEW r \in Requests, AuditOutcome(r) PROVE IInv'
  BY <1>1, <1>10, AuditOutcomeInv
<1>11. CASE Crash
  BY <1>1, <1>11, CrashRestartInv
<1>12. CASE Restart
  BY <1>1, <1>12, CrashRestartInv
<1>13. ASSUME NEW k \in Keys, SweepRow(k) PROVE IInv'
  BY <1>1, <1>13, SweepRowInv
<1>14. CASE Listen
  BY <1>1, <1>14, ListenInv
<1>15. CASE UNCHANGED vars
  BY <1>1, <1>15
     DEF vars, IInv, ProcessInv, RowInv, OwnerInv, UniqueInv, OwnedInv, AuditInv
<1> QED
  BY <1>2, <1>3, <1>4, <1>5, <1>6, <1>7, <1>8, <1>9, <1>10, <1>11, <1>12, <1>13,
     <1>14, <1>15 DEF Next, Work, Startup

\* A first start, on an empty store, satisfies the invariant.
LEMMA InitInv == Init => IInv
<1> SUFFICES ASSUME Init PROVE IInv
  OBVIOUS
<1> USE DEF Init
<1>1. TypeOK
  BY IdleRequestType, RowForType, BoundsAssumption DEF TypeOK
<1>2. /\ \A r \in Requests : request[r].step = "idle"
      /\ \A k \in Keys : commands[k].state = "absent" /\ ~commands[k].dispatchedAt
  BY DEF IdleRequest, RowFor
<1>3. ProcessInv
  BY <1>2 DEF ProcessInv
<1>4. RowInv
  BY <1>2 DEF RowInv
<1>5. OwnerInv /\ UniqueInv
  BY <1>2 DEF OwnerInv, UniqueInv
<1>6. OwnedInv /\ AuditInv
  BY <1>2 DEF OwnedInv, AuditInv
<1> QED
  BY <1>1, <1>3, <1>4, <1>5, <1>6 DEF IInv

-----------------------------------------------------------------------------
(***************************************************************************)
(* The theorems.                                                           *)
(***************************************************************************)

\* The tables, the requests and the audit log always hold what their types
\* allow: no step writes a row, an entry or a count of another shape.
THEOREM TypeCorrect == Spec => []TypeOK
<1>1. Init => TypeOK
  BY InitInv DEF IInv
<1> QED
  BY <1>1, TypeStep, PTL DEF Spec

\* IInv holds in every reachable state: who may send a command, who owns its
\* row and what the row says agree, through crashes and failed writes.
THEOREM Invariance == Spec => []IInv
  BY InitInv, InvStep, PTL DEF Spec

\* No idempotency key is attempted twice: not by requests that race past the
\* lookup, not through the degraded insert, not after a restart.
THEOREM AttemptedOnce == Spec => []AttemptedAtMostOnce
<1>1. IInv => AttemptedAtMostOnce
  BY DEF IInv, RowInv, AttemptedAtMostOnce
<1> QED
  BY <1>1, Invariance, PTL

\* Whatever was sent to FPP is in the commands table, and in the audit log
\* unless its attribution was reported as degraded.
THEOREM AttemptsAccountedFor == Spec => []AttemptIsAccountedFor
<1>1. ASSUME IInv PROVE AttemptIsAccountedFor
  <2> SUFFICES ASSUME NEW k \in Keys, attempts[k] > 0
               PROVE  /\ Present(k)
                      /\ \/ k \in degraded
                         \/ \E r \in Requests :
                              [kind |-> "dispatch", key |-> k, author |-> r] \in auditLog
    BY DEF AttemptIsAccountedFor
  <2>1. Present(k) /\ Reported(k)
    BY <1>1 DEF IInv, RowInv
  <2>2. ASSUME NEW e \in auditLog, e.kind = "dispatch", e.key = k, e.author \in Requests
        PROVE  \E r \in Requests :
                 [kind |-> "dispatch", key |-> k, author |-> r] \in auditLog
    <3>1. e = [kind |-> "dispatch", key |-> k, author |-> e.author]
      BY <1>1, <2>2 DEF IInv, TypeOK, AuditEntry
    <3> QED
      BY <2>2, <3>1
  <2> QED
    BY <2>1, <2>2
<1> QED
  BY <1>1, Invariance, PTL

\* While the coordinator listens, an open row no write failure has lost has
\* exactly one live request behind it, so a sweep at startup finds only rows
\* whose owner is dead.
THEOREM OneOwner == Spec => []OpenRowHasOneOwner
<1>1. IInv => OpenRowHasOneOwner
  BY DEF IInv, TypeOK, OwnedInv, UniqueInv, OpenRowHasOneOwner
<1> QED
  BY <1>1, Invariance, PTL

\* The outcome of a command is reported by one author only.
THEOREM OneAuthor == Spec => []OutcomeAuditedByOneAuthor
<1>1. IInv => OutcomeAuditedByOneAuthor
  BY DEF IInv, AuditInv
<1> QED
  BY <1>1, Invariance, PTL

\* A settled row is never written again.
LEMMA SettledStep ==
  IInv /\ [Next]_vars =>
    \A k \in Keys : commands[k].state = "resolved" => commands'[k] = commands[k]
<1> SUFFICES ASSUME IInv, [Next]_vars, NEW j \in Keys, commands[j].state = "resolved"
             PROVE  commands'[j] = commands[j]
  OBVIOUS
<1> USE DEF IInv, TypeOK
<1>1. ASSUME NEW r \in Requests,
             Receive(r) \/ Withdraw(r) \/ LookUp(r) \/ Dispatch(r) \/ AuditOutcome(r)
      PROVE  commands'[j] = commands[j]
  BY <1>1 DEF Receive, Withdraw, LookUp, Replay, Dispatch, AuditOutcome
<1>2. ASSUME NEW r \in Requests, AuditedInsert(r) \/ DegradedInsert(r)
      PROVE  commands'[j] = commands[j]
  BY <1>2 DEF AuditedInsert, DegradedInsert, Replay, WriteRow
<1>3. ASSUME NEW r \in Requests, RecordDispatched(r) \/ Settle(r)
      PROVE  commands'[j] = commands[j]
  <2>1. Unresolved(request[r].key)
    BY <1>3 DEF RecordDispatched, Settle, OwnerInv
  <2> QED
    BY <1>3, <2>1 DEF RecordDispatched, Settle, WriteRow, WriteFault
<1>4. ASSUME NEW k \in Keys, SweepRow(k)
      PROVE  commands'[j] = commands[j]
  <2>1. Unresolved(k)
    BY <1>4 DEF SweepRow, ProcessInv
  <2> QED
    BY <1>4, <2>1 DEF SweepRow, WriteRow, WriteFault
<1>5. CASE Crash \/ Restart \/ Listen \/ UNCHANGED vars
  BY <1>5 DEF Crash, Restart, Listen, vars
<1> QED
  BY <1>1, <1>2, <1>3, <1>4, <1>5 DEF Next, Work, Startup

\* No request and no sweep rewrites the recorded outcome of a command.
THEOREM SettledIsFinal == Spec => SettledRowIsFinal
  BY Invariance, SettledStep, PTL DEF Spec, SettledRowIsFinal

\* Each step of the dispatcher, of a crash or of the sweep is a step of
\* CommandPromise or leaves what it promises unchanged.
LEMMA PromiseStep == IInv /\ [Next]_vars => [Promise!Next]_(Promise!promiseVars)
<1> SUFFICES ASSUME IInv, [Next]_vars
             PROVE  [Promise!Next]_(Promise!promiseVars)
  OBVIOUS
<1> DEFINE journal == [k \in Keys |-> JournalOf(commands[k])]
<1> USE DEF IInv, TypeOK
<1>1. ASSUME UNCHANGED attempts,
             \A k \in Keys : JournalOf(commands'[k]) = JournalOf(commands[k])
      PROVE  UNCHANGED Promise!promiseVars
  BY <1>1 DEF Promise!promiseVars
<1>2. ASSUME NEW k \in Keys, NEW o \in {"open", "confirmed", "unconfirmed"},
             \A j \in Keys : j # k => commands'[j] = commands[j],
             JournalOf(commands'[k]) = o
      PROVE  journal' = [journal EXCEPT ![k] = o]
  BY <1>2
<1>3. ASSUME NEW r \in Requests,
             Receive(r) \/ Withdraw(r) \/ LookUp(r) \/ AuditOutcome(r)
      PROVE  UNCHANGED Promise!promiseVars
  BY <1>1, <1>3 DEF Receive, Withdraw, LookUp, Replay, AuditOutcome
<1>4. CASE Crash \/ Restart \/ Listen \/ UNCHANGED vars
  BY <1>1, <1>4 DEF Crash, Restart, Listen, vars
<1>5. ASSUME NEW r \in Requests, AuditedInsert(r) \/ DegradedInsert(r)
      PROVE  [Promise!Next]_(Promise!promiseVars)
  <2> DEFINE k == request[r].key
  <2>1. CASE UNCHANGED commands
    BY <1>1, <1>5, <2>1 DEF AuditedInsert, DegradedInsert, Replay
  <2>2. CASE /\ commands[k].state = "absent"
             /\ commands' = [commands EXCEPT ![k] = RowFor(request[r].intent, "pending")]
    <3>1. JournalOf(commands[k]) = "absent" /\ JournalOf(commands'[k]) = "open"
      BY <2>2 DEF JournalOf, RowFor
    <3>2. journal' = [journal EXCEPT ![k] = "open"]
      BY <1>2, <2>2, <3>1
    <3>3. UNCHANGED attempts
      BY <1>5 DEF AuditedInsert, DegradedInsert, Replay
    <3> QED
      BY <3>1, <3>2, <3>3 DEF Promise!Next, Promise!Record
  <2> QED
    BY <1>5, <2>1, <2>2 DEF AuditedInsert, DegradedInsert, Replay, WriteRow
<1>6. ASSUME NEW r \in Requests, Dispatch(r)
      PROVE  [Promise!Next]_(Promise!promiseVars)
  <2> DEFINE k == request[r].key
  <2>1. attempts[k] = 0 /\ JournalOf(commands[k]) = "open" /\ UNCHANGED commands
    BY <1>6 DEF Dispatch, OwnerInv, JournalOf
  <2>2. UNCHANGED attempts \/ attempts' = [attempts EXCEPT ![k] = 1]
    BY <1>6, <2>1 DEF Dispatch
  <2> QED
    BY <1>1, <2>1, <2>2 DEF Promise!Next, Promise!Attempt
<1>7. ASSUME NEW r \in Requests, RecordDispatched(r)
      PROVE  UNCHANGED Promise!promiseVars
  <2> DEFINE k == request[r].key
             went == request[r].sent # "noClient"
  <2>1. Unresolved(k) /\ commands[k] \in Row
    BY <1>7 DEF RecordDispatched, OwnerInv
  <2>2. ASSUME NEW b \in BOOLEAN,
               commands' = [commands EXCEPT
                 ![k] = [commands[k] EXCEPT !.state = "dispatched", !.dispatchedAt = b]]
        PROVE  \A j \in Keys : JournalOf(commands'[j]) = JournalOf(commands[j])
    <3> DEFINE row == [commands[k] EXCEPT !.state = "dispatched", !.dispatchedAt = b]
    <3>1. row.state = "dispatched"
      BY <2>1 DEF Row
    <3> HIDE DEF row
    <3> QED
      BY <2>1, <2>2, <3>1 DEF JournalOf
  <2>3. went \in BOOLEAN
    OBVIOUS
  <2>4. UNCHANGED attempts
    BY <1>7 DEF RecordDispatched
  <2>5. \/ UNCHANGED commands
        \/ commands' = [commands EXCEPT
             ![k] = [commands[k] EXCEPT !.state = "dispatched", !.dispatchedAt = went]]
    BY <1>7 DEF RecordDispatched, WriteRow, WriteFault
  <2> HIDE DEF went
  <2> QED
    BY <1>1, <2>2, <2>3, <2>4, <2>5
<1>8. ASSUME NEW k \in Keys, Unresolved(k), UNCHANGED attempts,
             NEW o \in Outcomes, NEW reason \in Reasons,
             o = "confirmed" => attempts[k] = 1,
             WriteRow(k, Resolved(commands[k], o, reason))
      PROVE  Promise!Next
  <2>1. JournalOf(commands[k]) = "open"
    BY <1>8 DEF JournalOf
  <2>2. JournalOf(commands'[k]) = o
    BY <1>8, ResolvedRow DEF JournalOf, WriteRow
  <2>3. journal' = [journal EXCEPT ![k] = o]
    BY <1>2, <1>8, <2>2 DEF WriteRow
  <2> QED
    BY <1>8, <2>1, <2>3 DEF Promise!Next, Promise!Settle, Promise!Outcomes
<1>9. ASSUME NEW r \in Requests, Settle(r)
      PROVE  [Promise!Next]_(Promise!promiseVars)
  <2> DEFINE k == request[r].key
  <2>1. /\ k \in Keys /\ Unresolved(k) /\ UNCHANGED attempts
        /\ request[r].sent = "ok" => attempts[k] = 1
    BY <1>9 DEF Settle, OwnerInv
  <2>2. CASE UNCHANGED commands
    BY <1>1, <2>1, <2>2
  <2>3. CASE \E o \in Outcomes, reason \in Reasons :
               /\ o = "confirmed" => request[r].sent = "ok"
               /\ WriteRow(k, Resolved(commands[k], o, reason))
    BY <1>8, <2>1, <2>3
  <2> QED
    BY <1>9, <2>2, <2>3 DEF Settle, WriteFault, Reasons
<1>10. ASSUME NEW k \in Keys, SweepRow(k)
       PROVE  [Promise!Next]_(Promise!promiseVars)
  <2>1. /\ Unresolved(k) /\ UNCHANGED attempts
        /\ commands[k].dispatchedAt => attempts[k] = 1
    BY <1>10 DEF SweepRow, ProcessInv, RowInv
  <2>2. CASE UNCHANGED commands
    BY <1>1, <2>1, <2>2
  <2>3. CASE \E o \in Outcomes, reason \in Reasons :
               /\ o = "confirmed" => commands[k].dispatchedAt
               /\ WriteRow(k, Resolved(commands[k], o, reason))
    BY <1>8, <2>1, <2>3
  <2> QED
    BY <1>10, <2>2, <2>3 DEF SweepRow, SweepVerdicts, WriteFault, Reasons
<1> QED
  BY <1>3, <1>4, <1>5, <1>6, <1>7, <1>9, <1>10 DEF Next, Work, Startup

\* The dispatcher, its crashes and its sweep implement the promise of
\* CommandPromise: recorded before attempted, attempted once, settled once,
\* confirmed only if attempted.
THEOREM Implements == Spec => ImplementsPromise
<1>1. Init => Promise!Init
  BY DEF Init, Promise!Init, RowFor, JournalOf
<1> QED
  BY <1>1, Invariance, PromiseStep, PTL DEF Spec, ImplementsPromise, Promise!Spec
=============================================================================
