--------------------------- MODULE MacroRunProofs ---------------------------
(***************************************************************************)
(* Proofs about MacroRun, for any macros, scripts, runs and callers, any   *)
(* number of crashes and failed writes.                                    *)
(*                                                                         *)
(* Runs are independent of each other once they are admitted: what a run's *)
(* goroutine has recorded, has sent and is about to do agree (RunInv), and *)
(* an action on one run leaves what is said of another (Frame).            *)
(***************************************************************************)
EXTENDS MacroRun, TLAPS

\* A goroutine belongs to a process that is up, and the startup reconciliation
\* lists runs that are running.
ProcessInv ==
  /\ process # "up" => \A r \in RunIds : exec[r].pc = "none"
  /\ toReconcile # {} => process = "reconciling"
  /\ \A r \in toReconcile : Running(r)

Fpp(r, i) == Script[runs[r].macro][i].integration = "fpp"

Untouched(r, i) ==
  steps[<<r, i>>] = "pending" /\ journal[<<r, i>>] = "absent" /\ sent[<<r, i>>] = 0

\* Step i has its outcome on record, and lets the run go on.
Passed(r, i) ==
  \/ <<r, i>> \in lostSteps
  \/ steps[<<r, i>>] # "pending" /\ ~Aborts(Script[runs[r].macro][i], steps[<<r, i>>])

\* What a goroutine has recorded of the steps behind it.
Recorded(r, i, outcomes) ==
  \/ steps[<<r, i>>] \in outcomes
  \/ <<r, i>> \in lostSteps /\ steps[<<r, i>>] = "pending"

\* The row of an FPP step says of its command what the journal says.
Agrees(r, i) ==
  /\ steps[<<r, i>>] = "skipped" => journal[<<r, i>>] = "absent"
  /\ steps[<<r, i>>] = "confirmed" =>
       journal[<<r, i>>] = "confirmed" \/ <<r, i>> \in lostCommands

\* A goroutine executes a running run, one step after the other.
PlaceInv(r) ==
  LET g == exec[r] IN
  /\ runs[r].state = "absent" =>
       g.pc = "none" /\ \A i \in Index : Untouched(r, i)
  /\ g.pc # "none" =>
       /\ Running(r)
       /\ g.at \in 1..Length(r) + 1
       /\ g.pc = "finish" <=> g.at = Length(r) + 1
       /\ \A i \in Index : i > g.at => Untouched(r, i)
  /\ g.pc \in {"step", "skip"} => Untouched(r, g.at)

\* The step it is at.
StepInv(r) ==
  LET g == exec[r]
      k == <<r, g.at>>
  IN
  /\ g.pc \in {"send", "await", "persist"} => steps[k] = "pending"
  /\ g.pc = "send" =>
       sent[k] = 0 /\ journal[k] = IF Fpp(r, g.at) THEN "open" ELSE "absent"
  /\ g.pc = "await" =>
       /\ Fpp(r, g.at) => journal[k] = "open"
       /\ g.reply # "notSent" => sent[k] = 1
  /\ g.pc = "persist" =>
       /\ g.outcome \in Terminal \ {"skipped"}
       /\ Fpp(r, g.at) /\ g.outcome = "confirmed" =>
            journal[k] = "confirmed" \/ k \in lostCommands

\* The steps behind it.
PastInv(r) ==
  LET g == exec[r] IN
  /\ g.pc \in {"step", "send", "await", "persist"} =>
       \A i \in 1..(g.at - 1) : Passed(r, i)
  /\ g.pc # "none" =>
       /\ g.completed => \A i \in 1..(g.at - 1) :
            Recorded(r, i, {"confirmed", "unconfirmed", "unconfirmable"})
       /\ g.confirmed => \A i \in 1..(g.at - 1) : Recorded(r, i, {"confirmed"})
  /\ g.pc = "skip" => ~g.completed /\ ~g.confirmed

\* The tables.
TableInv(r) ==
  /\ \A i \in Index : sent[<<r, i>>] <= 1
  /\ \A j \in Index : sent[<<r, j>>] = 1 => \A i \in 1..(j - 1) : Passed(r, i)
  /\ runs[r].state # "absent" => \A i \in 1..Length(r) : Fpp(r, i) =>
       /\ journal[<<r, i>>] = "absent" => sent[<<r, i>>] = 0
       /\ Agrees(r, i)
  /\ runs[r].state = "finished" =>
       /\ runs[r].completed => \A i \in 1..Length(r) :
            Recorded(r, i, {"confirmed", "unconfirmed", "unconfirmable"})
       /\ runs[r].confirmed => \A i \in 1..Length(r) : Recorded(r, i, {"confirmed"})
       /\ runs[r].restarted => ~runs[r].completed
       /\ runs[r].restarted /\ runs[r].confirmed => RestartedConfirmed(r)

RunInv(r) == PlaceInv(r) /\ StepInv(r) /\ PastInv(r) /\ TableInv(r)

IInv == TypeOK /\ RunsDoNotCollide /\ ProcessInv /\ \A r \in RunIds : RunInv(r)

-----------------------------------------------------------------------------
USE DEF tableVars, lostWrites

\* The parts of TypeOK: the process, the runs, their goroutines, the traces.
ControlType ==
  /\ process \in {"up", "down", "sweeping", "reconciling"}
  /\ toReconcile \subseteq RunIds /\ lostRuns \subseteq RunIds
  /\ crashes \in 0..MaxCrashes /\ faults \in 0..MaxWriteFaults

CallRecords == [pc : {"idle", "create", "degradedCreate"}, macro : Macros, key : Keys]
CallType == submitter \in [Submitters -> CallRecords]
RunType == runs \in [RunIds -> Run]
ExecType == exec \in [RunIds -> Goroutine]

TraceType ==
  /\ steps \in [StepKeys -> Terminal \cup {"pending"}]
  /\ journal \in [StepKeys -> {"absent", "open", "confirmed", "unconfirmed"}]
  /\ sent \in [StepKeys -> Nat]
  /\ dispatchAudit \subseteq StepKeys
  /\ lostSteps \subseteq StepKeys /\ lostCommands \subseteq StepKeys

LEMMA TypeParts == TypeOK <=> ControlType /\ CallType /\ RunType /\ ExecType /\ TraceType
BY DEF TypeOK, ControlType, CallType, CallRecords, RunType, ExecType, TraceType

LEMMA TypePartsNext ==
  ControlType' /\ CallType' /\ RunType' /\ ExecType' /\ TraceType' => TypeOK'
BY DEF TypeOK, ControlType, CallType, CallRecords, RunType, ExecType, TraceType

\* The records a run, a goroutine and a call begin and end as.
LEMMA NoRunType ==
  /\ NoRun \in Run /\ NoRun.state = "absent"
  /\ NoRun.completed = FALSE /\ NoRun.confirmed = FALSE /\ NoRun.restarted = FALSE
<1>1. AnyMacro \in Macros /\ AnyKey \in Keys
  BY NamesAssumption DEF AnyMacro, AnyKey
<1> QED
  BY <1>1 DEF NoRun, Run

LEMMA NoGoroutineType ==
  NoGoroutine \in Goroutine /\ NoGoroutine.pc = "none" /\ NoGoroutine.at = 1
BY ScriptAssumption DEF NoGoroutine, Goroutine, Terminal

LEMMA NoCallType == NoCall \in CallRecords
BY NamesAssumption DEF NoCall, CallRecords, AnyMacro, AnyKey

\* The steps of a run.
LEMMA ScriptFacts ==
  ASSUME RunType, NEW r \in RunIds
  PROVE  /\ Length(r) \in 1..MaxSteps
         /\ \A i \in 1..Length(r) :
              i \in Index /\ <<r, i>> \in StepKeys /\ Script[runs[r].macro][i] \in StepDef
<1>1. runs[r].macro \in Macros
  BY DEF RunType, Run
<1> DEFINE script == Script[runs[r].macro]
<1>2. script \in Seq(StepDef) /\ Len(script) \in 1..MaxSteps /\ MaxSteps \in Nat
  BY <1>1, ScriptAssumption
<1>3. \A i \in 1..Len(script) : script[i] \in StepDef
  BY <1>2
<1>4. Length(r) = Len(script)
  BY DEF Length
<1> HIDE DEF script
<1> QED
  BY <1>2, <1>3, <1>4 DEF Index, StepKeys, script

\* Where a goroutine at work stands.
LEMMA Standing ==
  ASSUME IInv, NEW r \in RunIds, exec[r].pc \notin {"none", "finish"}
  PROVE  /\ exec[r] \in Goroutine /\ exec[r].at \in 1..Length(r) /\ exec[r].at \in Index
         /\ CurrentKey(r) \in StepKeys /\ CurrentStep(r) \in StepDef
         /\ Length(r) \in 1..MaxSteps /\ Running(r)
<1>1. RunType /\ ExecType /\ PlaceInv(r)
  BY TypeParts DEF IInv, RunInv
<1>2. exec[r] \in Goroutine
  BY <1>1 DEF ExecType
<1>3. exec[r].at \in 1..Length(r) + 1 /\ exec[r].at # Length(r) + 1 /\ Running(r)
  BY <1>1 DEF PlaceInv
<1>4. Length(r) \in 1..MaxSteps
  BY <1>1, ScriptFacts
<1>5. exec[r].at \in 1..Length(r)
  BY <1>3, <1>4
<1> QED
  BY <1>1, <1>2, <1>3, <1>4, <1>5, ScriptFacts DEF CurrentKey, CurrentStep

\* A goroutine goes on as g.
LEMMA Continuing ==
  ASSUME ExecType, NEW r \in RunIds, NEW g \in Goroutine, Continue(r, g)
  PROVE  ExecType' /\ exec'[r] = g /\ \A s \in RunIds \ {r} : exec'[s] = exec[s]
BY DEF ExecType, Continue

LEMMA Degrading ==
  ASSUME NEW g \in Goroutine, NEW h \in MayDegrade(g)
  PROVE  /\ h \in Goroutine /\ h.pc = g.pc /\ h.at = g.at /\ h.reply = g.reply
         /\ h.outcome = g.outcome /\ h.completed = g.completed /\ h.confirmed = g.confirmed
BY DEF MayDegrade, Goroutine

-----------------------------------------------------------------------------
\* What each step of executeRun does to its goroutine and to the traces.

LEMMA RecordEffects ==
  ASSUME IInv, NEW r \in RunIds, RecordStep(r)
  PROVE  LET k == CurrentKey(r)
             h == exec'[r]
         IN
         /\ \E g \in Goroutine : Continue(r, g)
         /\ exec[r].pc = "step" /\ h.at = exec[r].at
         /\ h.completed = exec[r].completed /\ h.confirmed = exec[r].confirmed
         /\ h.pc # "send" => h.pc = "persist" /\ h.outcome = "failed"
         /\ UNCHANGED <<runs, steps, sent>>
         /\ \/ journal' = journal
            \/ CurrentStep(r).integration = "fpp" /\ journal' = [journal EXCEPT ![k] = "open"]
         /\ h.pc = "send" /\ CurrentStep(r).integration = "fpp" =>
              journal' = [journal EXCEPT ![k] = "open"]
         /\ UNCHANGED lostWrites
         /\ dispatchAudit' = dispatchAudit \/ dispatchAudit' = dispatchAudit \cup {k}
<1> DEFINE g == exec[r]
           refused == [g EXCEPT !.pc = "persist", !.outcome = "failed"]
           sending == [g EXCEPT !.pc = "send"]
           degraded == [sending EXCEPT !.degraded = TRUE]
           isFpp == CurrentStep(r).integration = "fpp"
<1>1. g.pc = "step"
  BY DEF RecordStep, At
<1>2. g \in Goroutine /\ ExecType
  BY <1>1, Standing, TypeParts DEF IInv
<1>3. /\ refused \in Goroutine /\ refused.pc = "persist" /\ refused.outcome = "failed"
      /\ refused.at = g.at /\ refused.completed = g.completed /\ refused.confirmed = g.confirmed
  BY <1>2 DEF Goroutine, Terminal
<1>4. /\ sending \in Goroutine /\ sending.pc = "send"
      /\ sending.at = g.at /\ sending.completed = g.completed /\ sending.confirmed = g.confirmed
  BY <1>2 DEF Goroutine
<1>5. /\ degraded \in Goroutine /\ degraded.pc = "send"
      /\ degraded.at = g.at /\ degraded.completed = g.completed /\ degraded.confirmed = g.confirmed
  BY <1>2 DEF Goroutine
<1>6. ASSUME NEW h \in MayDegrade(sending), Continue(r, h)
      PROVE  Continue(r, sending) \/ Continue(r, degraded)
  BY <1>6 DEF MayDegrade
<1>7. \/ /\ Continue(r, refused)
         /\ \/ journal' = journal
            \/ isFpp /\ journal' = [journal EXCEPT ![CurrentKey(r)] = "open"]
      \/ /\ Continue(r, sending) \/ Continue(r, degraded)
         /\ IF isFpp
              THEN journal' = [journal EXCEPT ![CurrentKey(r)] = "open"]
              ELSE journal' = journal
  BY <1>6 DEF RecordStep
<1>8. /\ UNCHANGED <<runs, steps, sent>>
      /\ UNCHANGED lostWrites
      /\ dispatchAudit' = dispatchAudit \/ dispatchAudit' = dispatchAudit \cup {CurrentKey(r)}
  BY DEF RecordStep
<1> HIDE DEF refused, sending, degraded, isFpp
<1>9. CASE Continue(r, refused)
  BY <1>1, <1>2, <1>3, <1>7, <1>8, <1>9, Continuing DEF isFpp
<1>10. CASE Continue(r, sending)
  <2>1. exec'[r] = sending
    BY <1>2, <1>4, <1>10, Continuing
  <2> QED
    BY <1>1, <1>2, <1>3, <1>4, <1>7, <1>8, <1>10, <2>1, Continuing DEF isFpp
<1>11. CASE Continue(r, degraded)
  <2>1. exec'[r] = degraded
    BY <1>2, <1>5, <1>11, Continuing
  <2> QED
    BY <1>1, <1>2, <1>3, <1>5, <1>7, <1>8, <1>11, <2>1, Continuing DEF isFpp
<1> QED
  BY <1>7, <1>9, <1>10, <1>11

LEMMA SendEffects ==
  ASSUME IInv, NEW r \in RunIds, SendStep(r)
  PROVE  LET h == exec'[r] IN
         /\ \E g \in Goroutine : Continue(r, g)
         /\ exec[r].pc = "send" /\ h.pc = "await" /\ h.at = exec[r].at
         /\ h.completed = exec[r].completed /\ h.confirmed = exec[r].confirmed
         /\ UNCHANGED tableVars
         /\ sent' = IF h.reply = "notSent" THEN sent
                                           ELSE [sent EXCEPT ![CurrentKey(r)] = @ + 1]
<1> DEFINE g == exec[r]
           waiting(reply) == [g EXCEPT !.pc = "await", !.reply = reply]
           Replies == {"notSent", "error", "ok"}
<1>1. g.pc = "send" /\ UNCHANGED tableVars
  BY DEF SendStep, At
<1>2. g \in Goroutine /\ ExecType
  BY <1>1, Standing, TypeParts DEF IInv
<1>3. ASSUME NEW reply \in Replies
      PROVE  /\ waiting(reply) \in Goroutine /\ waiting(reply).pc = "await"
             /\ waiting(reply).at = g.at /\ waiting(reply).reply = reply
             /\ waiting(reply).completed = g.completed /\ waiting(reply).confirmed = g.confirmed
  BY <1>2 DEF Goroutine
<1>4. PICK reply \in Replies :
        /\ Continue(r, waiting(reply))
        /\ sent' = IF reply = "notSent" THEN sent ELSE [sent EXCEPT ![CurrentKey(r)] = @ + 1]
  BY DEF SendStep
<1> HIDE DEF waiting
<1>5. exec'[r] = waiting(reply)
  BY <1>2, <1>3, <1>4, Continuing
<1> QED
  BY <1>1, <1>3, <1>4, <1>5

LEMMA AwaitEffects ==
  ASSUME IInv, NEW r \in RunIds, AwaitStep(r)
  PROVE  LET k == CurrentKey(r)
             h == exec'[r]
             isFpp == CurrentStep(r).integration = "fpp"
         IN
         /\ \E g \in Goroutine : Continue(r, g)
         /\ exec[r].pc = "await" /\ h.pc = "persist" /\ h.at = exec[r].at
         /\ h.completed = exec[r].completed /\ h.confirmed = exec[r].confirmed
         /\ h.outcome \in Terminal \ {"skipped"}
         /\ h.outcome = "confirmed" => exec[r].reply = "ok"
         /\ UNCHANGED <<runs, steps, sent, dispatchAudit, lostSteps>>
         /\ \/ UNCHANGED journal /\ ~isFpp /\ UNCHANGED lostCommands
            \/ UNCHANGED journal /\ isFpp /\ lostCommands' = lostCommands \cup {k}
            \/ /\ isFpp /\ UNCHANGED lostCommands
               /\ journal' = [journal EXCEPT ![k] =
                                IF h.outcome = "confirmed" THEN "confirmed" ELSE "unconfirmed"]
<1> DEFINE k == CurrentKey(r)
           g == exec[r]
           isFpp == CurrentStep(r).integration = "fpp"
           done(outcome) == [g EXCEPT !.pc = "persist", !.reply = "none", !.outcome = outcome]
           Settles(outcome) ==
             IF isFpp
               THEN \/ /\ journal' = [journal EXCEPT ![k] =
                            IF outcome = "confirmed" THEN "confirmed" ELSE "unconfirmed"]
                       /\ UNCHANGED <<lostCommands, faults>>
                    \/ /\ Fault
                       /\ lostCommands' = lostCommands \cup {k}
                       /\ UNCHANGED journal
               ELSE UNCHANGED <<journal, lostCommands, faults>>
<1>1. g.pc = "await" /\ UNCHANGED <<runs, steps, sent, dispatchAudit, lostSteps>>
  BY DEF AwaitStep, At
<1>2. g \in Goroutine /\ ExecType /\ CurrentStep(r) \in StepDef
  BY <1>1, Standing, TypeParts DEF IInv
<1>3. ASSUME NEW outcome \in Results(r)
      PROVE  /\ outcome \in Terminal \ {"skipped"}
             /\ outcome = "confirmed" => exec[r].reply = "ok"
  BY <1>2, <1>3 DEF Results, Answers, StepDef, Integrations, Terminal
<1>4. ASSUME NEW outcome \in Terminal
      PROVE  /\ done(outcome) \in Goroutine /\ done(outcome).pc = "persist"
             /\ done(outcome).at = g.at /\ done(outcome).outcome = outcome
             /\ done(outcome).completed = g.completed /\ done(outcome).confirmed = g.confirmed
  BY <1>2 DEF Goroutine
<1>5. PICK outcome \in Results(r) :
        (\E h \in MayDegrade(done(outcome)) : Continue(r, h)) /\ Settles(outcome)
  BY Zenon DEF AwaitStep
<1>6. outcome \in Terminal
  BY <1>3
<1> HIDE DEF done, Settles
<1>7. PICK h \in MayDegrade(done(outcome)) : Continue(r, h)
  BY <1>5
<1>8. /\ h \in Goroutine /\ h.pc = "persist" /\ h.at = g.at /\ h.outcome = outcome
      /\ h.completed = g.completed /\ h.confirmed = g.confirmed
  BY <1>4, <1>6, Degrading
<1>9. exec'[r] = h
  BY <1>2, <1>7, <1>8, Continuing
<1>10. \/ UNCHANGED journal /\ ~isFpp /\ UNCHANGED lostCommands
       \/ UNCHANGED journal /\ isFpp /\ lostCommands' = lostCommands \cup {k}
       \/ /\ isFpp /\ UNCHANGED lostCommands
          /\ journal' = [journal EXCEPT ![k] =
                           IF outcome = "confirmed" THEN "confirmed" ELSE "unconfirmed"]
  BY <1>5 DEF Settles
<1> QED
  BY <1>1, <1>3, <1>7, <1>8, <1>9, <1>10

\* The outcome of a step is written, or its write is lost.
Written(k, outcome) ==
  \/ steps' = [steps EXCEPT ![k] = outcome] /\ UNCHANGED lostSteps
  \/ UNCHANGED steps /\ lostSteps' = lostSteps \cup {k}

LEMMA PersistEffects ==
  ASSUME IInv, NEW r \in RunIds, PersistStep(r)
  PROVE  LET g == exec[r]
             h == exec'[r]
             step == CurrentStep(r)
         IN
         /\ \E x \in Goroutine : Continue(r, x)
         /\ g.pc = "persist" /\ h.at = g.at + 1
         /\ h.pc = IF g.at = Length(r) THEN "finish"
                   ELSE IF Aborts(step, g.outcome) THEN "skip" ELSE "step"
         /\ h.completed => g.completed /\ Completes(step, g.outcome)
         /\ h.confirmed => g.confirmed /\ g.outcome = "confirmed"
         /\ Written(CurrentKey(r), g.outcome)
         /\ UNCHANGED <<journal, sent, dispatchAudit, lostCommands>>
         /\ \E b \in BOOLEAN : runs' = [runs EXCEPT ![r] = [@ EXCEPT !.degraded = b]]
<1> DEFINE g == exec[r]
<1>1. g.pc = "persist" /\ UNCHANGED <<journal, sent, dispatchAudit, lostCommands>>
  BY DEF PersistStep, At
<1>2. g \in Goroutine /\ ExecType /\ g.at \in 1..MaxSteps /\ g.at + 1 \in 1..MaxSteps + 1
  BY <1>1, Standing, TypeParts, ScriptAssumption DEF IInv
<1> DEFINE step == CurrentStep(r)
           pc == IF g.at = Length(r) THEN "finish"
                 ELSE IF Aborts(step, g.outcome) THEN "skip" ELSE "step"
           completed == g.completed /\ Completes(step, g.outcome)
           confirmed == g.confirmed /\ g.outcome = "confirmed"
           onward(p, a, b) == [g EXCEPT !.pc = p, !.at = g.at + 1, !.outcome = "none",
                                        !.completed = a, !.confirmed = b]
           h == onward(pc, completed, confirmed)
<1>3. Continue(r, h)
  BY Zenon DEF PersistStep
<1>4. pc \in {"finish", "skip", "step"}
  OBVIOUS
<1>5. completed \in BOOLEAN /\ confirmed \in BOOLEAN
  BY Zenon
<1>6. ASSUME NEW p \in {"finish", "skip", "step"}, NEW a \in BOOLEAN, NEW b \in BOOLEAN
      PROVE  /\ onward(p, a, b) \in Goroutine
             /\ onward(p, a, b).pc = p /\ onward(p, a, b).at = g.at + 1
             /\ onward(p, a, b).completed = a /\ onward(p, a, b).confirmed = b
  BY <1>2 DEF Goroutine
<1>7. Written(CurrentKey(r), g.outcome)
  BY DEF PersistStep, WriteStep, Written
<1>8. \E b \in BOOLEAN : runs' = [runs EXCEPT ![r] = [@ EXCEPT !.degraded = b]]
  <2>1. (runs[r].degraded \/ g.degraded) \in BOOLEAN
    BY Zenon
  <2>2. runs' = [runs EXCEPT ![r] = [@ EXCEPT !.degraded = runs[r].degraded \/ g.degraded]]
    BY DEF PersistStep
  <2> QED
    BY <2>1, <2>2
<1> HIDE DEF onward
<1>9. h \in Goroutine /\ h.pc = pc /\ h.at = g.at + 1
      /\ h.completed = completed /\ h.confirmed = confirmed
  BY <1>4, <1>5, <1>6
<1> HIDE DEF h
<1>10. exec'[r] = h
  BY <1>2, <1>3, <1>9, Continuing
<1>11. exec'[r].completed => completed
  BY <1>9, <1>10
<1>12. exec'[r].confirmed => confirmed
  BY <1>9, <1>10
<1>13. \E x \in Goroutine : Continue(r, x)
  BY <1>3, <1>9
<1>14. exec'[r].pc = pc /\ exec'[r].at = g.at + 1
  BY <1>9, <1>10
<1> QED
  BY <1>1, <1>7, <1>8, <1>11, <1>12, <1>13, <1>14, Zenon

LEMMA SkipEffects ==
  ASSUME IInv, NEW r \in RunIds, SkipStep(r)
  PROVE  LET g == exec[r]
             h == exec'[r]
         IN
         /\ \E x \in Goroutine : Continue(r, x)
         /\ g.pc = "skip" /\ h.at = g.at + 1
         /\ h.pc = IF g.at = Length(r) THEN "finish" ELSE "skip"
         /\ h.completed = g.completed /\ h.confirmed = g.confirmed
         /\ Written(CurrentKey(r), "skipped")
         /\ UNCHANGED <<runs, journal, sent, dispatchAudit, lostCommands>>
<1> DEFINE g == exec[r]
           pc == IF g.at = Length(r) THEN "finish" ELSE "skip"
           h == [g EXCEPT !.pc = pc, !.at = g.at + 1]
<1>1. g.pc = "skip" /\ UNCHANGED <<runs, journal, sent, dispatchAudit, lostCommands>>
  BY DEF SkipStep, At
<1>2. g \in Goroutine /\ ExecType /\ g.at \in 1..MaxSteps /\ g.at + 1 \in 1..MaxSteps + 1
  BY <1>1, Standing, TypeParts, ScriptAssumption DEF IInv
<1>3. Continue(r, h)
  BY DEF SkipStep
<1>4. pc \in {"finish", "skip"}
  OBVIOUS
<1> HIDE DEF pc
<1>5. /\ h \in Goroutine /\ h.pc = pc /\ h.at = g.at + 1
      /\ h.completed = g.completed /\ h.confirmed = g.confirmed
  BY <1>2, <1>4 DEF Goroutine
<1>6. Written(CurrentKey(r), "skipped")
  BY DEF SkipStep, WriteStep, Written
<1> HIDE DEF h
<1>7. exec'[r] = h
  BY <1>2, <1>3, <1>5, Continuing
<1> QED
  BY <1>1, <1>3, <1>5, <1>6, <1>7 DEF pc

\* A row is finished, or the write is lost and it stays as it was.
Finished(r, completed, confirmed, isDegraded, restarted) ==
  runs' = [runs EXCEPT ![r] = [@ EXCEPT !.state = "finished",
             !.completed = completed, !.confirmed = confirmed,
             !.degraded = isDegraded, !.restarted = restarted]]

LEMMA FinishEffects ==
  ASSUME IInv, NEW r \in RunIds, FinishRun(r)
  PROVE  LET g == exec[r]
             h == exec'[r]
         IN
         /\ \E x \in Goroutine : Continue(r, x)
         /\ g \in Goroutine /\ g.pc = "finish" /\ h.pc = "none"
         /\ UNCHANGED runs \/ Finished(r, g.completed, g.confirmed, g.degraded, FALSE)
         /\ UNCHANGED <<steps, journal, sent, dispatchAudit, lostWrites>>
<1>1. /\ Continue(r, NoGoroutine) /\ exec[r].pc = "finish"
      /\ UNCHANGED <<steps, journal, sent, dispatchAudit, lostWrites>>
  BY DEF FinishRun, At
<1>2. ExecType /\ exec[r] \in Goroutine
  BY TypeParts DEF IInv, ExecType
<1>3. UNCHANGED runs
      \/ Finished(r, exec[r].completed, exec[r].confirmed, exec[r].degraded, FALSE)
  BY DEF FinishRun, FinishRow, Finished
<1>4. exec'[r] = NoGoroutine
  BY <1>1, <1>2, NoGoroutineType, Continuing
<1> QED
  BY <1>1, <1>2, <1>3, <1>4, NoGoroutineType

-----------------------------------------------------------------------------
\* The other actions, as far as the invariant of a run goes.
view == <<runs, exec, steps, journal, sent, lostWrites, dispatchAudit>>

\* Submission and the process's own comings and goings leave the runs alone.
LEMMA Bystanders ==
  ASSUME \/ \E c \in Submitters : Submit(c) \/ Withdraw(c)
         \/ Restart \/ Listen \/ UNCHANGED vars
  PROVE  UNCHANGED view
BY DEF Submit, Withdraw, Restart, Listen, vars, view

\* Run r begins as n, with goroutine h.
Begun(r, n, h) ==
  /\ runs[r].state = "absent"
  /\ runs' = [runs EXCEPT ![r] = n]
  /\ exec' = [exec EXCEPT ![r] = h]
  /\ n.state = "running" /\ ~KeyIsTaken(n.key) /\ ~InFlight(n.macro)
  /\ h.pc = "step" /\ h.at = 1

LEMMA Creating ==
  ASSUME IInv, NEW c \in Submitters, CreateRun(c) \/ CreateDegradedRun(c)
  PROVE  \/ UNCHANGED view
         \/ /\ process = "up" /\ UNCHANGED <<steps, journal, sent, lostWrites, dispatchAudit>>
            /\ \E r \in RunIds, n \in Run, h \in Goroutine : Begun(r, n, h)
<1> DEFINE m == submitter[c].macro
           k == submitter[c].key
<1>1. m \in Macros /\ k \in Keys
  BY TypeParts DEF IInv, CallType, CallRecords
<1>2. /\ process = "up" /\ UNCHANGED <<steps, journal, sent, lostWrites, dispatchAudit>>
      /\ \/ UNCHANGED <<runs, exec>>
         \/ \E d \in BOOLEAN : Create(m, k, d)
  BY Zenon DEF CreateRun, CreateDegradedRun
<1> HIDE DEF m, k
<1>3. ASSUME NEW d \in BOOLEAN, Create(m, k, d)
      PROVE  \E r \in RunIds, n \in Run, h \in Goroutine : Begun(r, n, h)
  <2> DEFINE n == [NoRun EXCEPT !.state = "running", !.macro = m, !.key = k, !.degraded = d]
             h == [NoGoroutine EXCEPT !.pc = "step", !.degraded = d]
  <2>1. n \in Run /\ n.state = "running" /\ n.key = k /\ n.macro = m
    BY <1>1, NoRunType DEF Run
  <2>2. h \in Goroutine /\ h.pc = "step" /\ h.at = 1
    BY NoGoroutineType DEF Goroutine
  <2>3. PICK r \in RunIds : /\ runs[r].state = "absent"
                            /\ runs' = [runs EXCEPT ![r] = n]
                            /\ exec' = [exec EXCEPT ![r] = h]
    BY <1>3 DEF Create
  <2>4. ~KeyIsTaken(k) /\ ~InFlight(m)
    BY <1>3 DEF Create
  <2> HIDE DEF n, h
  <2> QED
    BY <2>1, <2>2, <2>3, <2>4 DEF Begun
<1> QED
  BY <1>2, <1>3 DEF view

\* A row that a startup finishes.
LEMMA ReconcileRunEffects ==
  ASSUME NEW r \in RunIds, ReconcileRun(r)
  PROVE  /\ process = "reconciling" /\ r \in toReconcile /\ Pending(r) = {}
         /\ UNCHANGED <<exec, steps, journal, sent, lostWrites, dispatchAudit>>
         /\ UNCHANGED runs
            \/ Finished(r, FALSE, RestartedConfirmed(r), runs[r].degraded, TRUE)
BY DEF ReconcileRun, FinishRow, Finished

LEMMA ReconcileStepEffects ==
  ASSUME NEW r \in RunIds, ReconcileStep(r)
  PROVE  /\ process = "reconciling" /\ r \in toReconcile
         /\ UNCHANGED <<exec, runs, journal, sent, lostWrites, dispatchAudit>>
         /\ \/ UNCHANGED steps
            \/ \E i \in Pending(r) : steps' = [steps EXCEPT ![<<r, i>>] = StrandedOutcome(r, i)]
BY DEF ReconcileStep

LEMMA SweepEffects ==
  ASSUME NEW k \in StepKeys, SweepCommand(k)
  PROVE  /\ process = "sweeping" /\ journal[k] = "open"
         /\ UNCHANGED <<exec, runs, steps, sent, lostWrites, dispatchAudit>>
         /\ \E outcome \in {"confirmed", "unconfirmed"} :
              journal' = [journal EXCEPT ![k] = outcome]
BY DEF SweepCommand, OpenCommands, Verdicts

LEMMA ListEffects ==
  ASSUME ListRuns
  PROVE  /\ process = "sweeping"
         /\ UNCHANGED <<exec, runs, steps, sent, journal, lostWrites, dispatchAudit>>
BY DEF ListRuns

LEMMA CrashEffects ==
  ASSUME Crash
  PROVE  /\ exec' = [r \in RunIds |-> NoGoroutine]
         /\ UNCHANGED <<runs, steps, sent, journal, lostWrites, dispatchAudit>>
BY DEF Crash

\* A row as it is finished.
LEMMA Finishing ==
  ASSUME RunType, NEW r \in RunIds, NEW a \in BOOLEAN, NEW b \in BOOLEAN,
         NEW d \in BOOLEAN, NEW e \in BOOLEAN, Finished(r, a, b, d, e)
  PROVE  /\ RunType' /\ \A s \in RunIds \ {r} : runs'[s] = runs[s]
         /\ runs'[r].state = "finished" /\ runs'[r].macro = runs[r].macro
         /\ runs'[r].key = runs[r].key
         /\ runs'[r].completed = a /\ runs'[r].confirmed = b /\ runs'[r].restarted = e
<1> DEFINE n == [runs[r] EXCEPT !.state = "finished", !.completed = a, !.confirmed = b,
                                !.degraded = d, !.restarted = e]
<1>1. runs[r] \in Run
  BY DEF RunType
<1>2. /\ n \in Run /\ n.state = "finished" /\ n.macro = runs[r].macro /\ n.key = runs[r].key
      /\ n.completed = a /\ n.confirmed = b /\ n.restarted = e
  BY <1>1 DEF Run
<1>3. runs' = [runs EXCEPT ![r] = n]
  BY DEF Finished
<1> HIDE DEF n
<1> QED
  BY <1>2, <1>3 DEF RunType

LEMMA FinishedRun ==
  ASSUME IInv, NEW r \in RunIds, FinishRun(r), ~UNCHANGED runs
  PROVE  /\ RunType' /\ \A s \in RunIds \ {r} : runs'[s] = runs[s]
         /\ runs'[r].state = "finished" /\ runs'[r].macro = runs[r].macro
         /\ runs'[r].key = runs[r].key /\ runs'[r].restarted = FALSE
         /\ runs'[r].completed = exec[r].completed /\ runs'[r].confirmed = exec[r].confirmed
<1>1. exec[r] \in Goroutine /\ RunType
      /\ Finished(r, exec[r].completed, exec[r].confirmed, exec[r].degraded, FALSE)
  BY FinishEffects, TypeParts DEF IInv
<1>2. exec[r].completed \in BOOLEAN /\ exec[r].confirmed \in BOOLEAN /\ exec[r].degraded \in BOOLEAN
  BY <1>1 DEF Goroutine
<1> QED
  BY <1>1, <1>2, Finishing

LEMMA ReconciledRun ==
  ASSUME IInv, NEW r \in RunIds, ReconcileRun(r), ~UNCHANGED runs
  PROVE  /\ RunType' /\ \A s \in RunIds \ {r} : runs'[s] = runs[s]
         /\ runs'[r].state = "finished" /\ runs'[r].macro = runs[r].macro
         /\ runs'[r].key = runs[r].key
         /\ runs'[r].completed = FALSE /\ (runs'[r].confirmed => RestartedConfirmed(r))
<1>1. RunType /\ Finished(r, FALSE, RestartedConfirmed(r), runs[r].degraded, TRUE)
  BY ReconcileRunEffects, TypeParts DEF IInv
<1>2. runs[r].degraded \in BOOLEAN
  BY <1>1 DEF RunType, Run
<1>3. RestartedConfirmed(r) \in BOOLEAN
  BY Zenon DEF RestartedConfirmed
<1> DEFINE b == RestartedConfirmed(r)
<1> HIDE DEF b
<1>4. Finished(r, FALSE, b, runs[r].degraded, TRUE) /\ b \in BOOLEAN
  BY <1>1, <1>3 DEF b
<1>5. /\ RunType' /\ \A s \in RunIds \ {r} : runs'[s] = runs[s]
      /\ runs'[r].state = "finished" /\ runs'[r].macro = runs[r].macro
      /\ runs'[r].key = runs[r].key
      /\ runs'[r].completed = FALSE /\ runs'[r].confirmed = b
  BY <1>1, <1>2, <1>4, Finishing
<1>6. runs'[r].confirmed => b
  BY <1>5
<1> QED
  BY <1>5, <1>6, Zenon DEF b

\* PersistStep sets a row's attribution only.
LEMMA PersistedRun ==
  ASSUME IInv, NEW r \in RunIds, PersistStep(r)
  PROVE  /\ RunType' /\ \A s \in RunIds \ {r} : runs'[s] = runs[s]
         /\ runs'[r].state = runs[r].state /\ runs'[r].macro = runs[r].macro
         /\ runs'[r].key = runs[r].key
         /\ runs'[r].completed = runs[r].completed /\ runs'[r].confirmed = runs[r].confirmed
         /\ runs'[r].restarted = runs[r].restarted
<1>1. RunType
  BY TypeParts DEF IInv
<1>2. PICK b \in BOOLEAN : runs' = [runs EXCEPT ![r] = [runs[r] EXCEPT !.degraded = b]]
  BY PersistEffects
<1> DEFINE n == [runs[r] EXCEPT !.degraded = b]
<1>3. /\ n \in Run /\ n.state = runs[r].state /\ n.macro = runs[r].macro /\ n.key = runs[r].key
      /\ n.completed = runs[r].completed /\ n.confirmed = runs[r].confirmed
      /\ n.restarted = runs[r].restarted
  BY <1>1 DEF RunType, Run
<1>4. runs' = [runs EXCEPT ![r] = n]
  BY <1>2
<1> HIDE DEF n
<1> QED
  BY <1>1, <1>3, <1>4 DEF RunType

-----------------------------------------------------------------------------
\* Types.

LEMMA ControlStep == ControlType /\ [Next]_vars => ControlType'
<1> SUFFICES ASSUME ControlType, [Next]_vars PROVE ControlType'
  OBVIOUS
<1> USE BoundsAssumption DEF ControlType, Fault
<1>1. ASSUME NEW c \in Submitters,
             Submit(c) \/ CreateRun(c) \/ CreateDegradedRun(c) \/ Withdraw(c)
      PROVE  ControlType'
  BY <1>1 DEF Submit, CreateRun, CreateDegradedRun, Withdraw
<1>2. ASSUME NEW r \in RunIds, RecordStep(r) PROVE ControlType'
  BY <1>2 DEF RecordStep
<1>3. ASSUME NEW r \in RunIds, SendStep(r) PROVE ControlType'
  BY <1>3 DEF SendStep
<1>4. ASSUME NEW r \in RunIds, AwaitStep(r) PROVE ControlType'
  BY <1>4 DEF AwaitStep
<1>5. ASSUME NEW r \in RunIds, PersistStep(r) \/ SkipStep(r) PROVE ControlType'
  BY <1>5 DEF PersistStep, SkipStep, WriteStep
<1>6. ASSUME NEW r \in RunIds, FinishRun(r) PROVE ControlType'
  BY <1>6 DEF FinishRun, FinishRow
<1>7. CASE Crash \/ Restart \/ Listen
  BY <1>7 DEF Crash, Restart, Listen
<1>8. ASSUME NEW k \in StepKeys, SweepCommand(k) PROVE ControlType'
  BY <1>8 DEF SweepCommand
<1>9. CASE ListRuns
  BY <1>9 DEF ListRuns, Stranded
<1>10. ASSUME NEW r \in RunIds, ReconcileStep(r) PROVE ControlType'
  BY <1>10 DEF ReconcileStep
<1>11. ASSUME NEW r \in RunIds, ReconcileRun(r) PROVE ControlType'
  BY <1>11 DEF ReconcileRun, FinishRow
<1>12. CASE UNCHANGED vars
  BY <1>12 DEF vars
<1> QED
  BY <1>1, <1>2, <1>3, <1>4, <1>5, <1>6, <1>7, <1>8, <1>9, <1>10, <1>11, <1>12
  DEF Next, Execute, Startup

LEMMA CallStep == CallType /\ [Next]_vars => CallType'
<1> SUFFICES ASSUME CallType, [Next]_vars PROVE CallType'
  OBVIOUS
<1>1. ASSUME NEW c \in Submitters, NEW pc \in {"create", "degradedCreate"},
             NEW m \in Macros, NEW k \in Keys, Call(c, pc, m, k)
      PROVE  CallType'
  BY <1>1 DEF CallType, CallRecords, Call
<1>2. ASSUME NEW c \in Submitters, Reply(c) PROVE CallType'
  BY <1>2, NoCallType DEF CallType, Reply
<1>3. ASSUME NEW c \in Submitters, Submit(c) PROVE CallType'
  BY <1>1, <1>3 DEF Submit
<1>4. ASSUME NEW c \in Submitters, CreateRun(c) PROVE CallType'
  <2>1. submitter[c].macro \in Macros /\ submitter[c].key \in Keys
    BY DEF CallType, CallRecords
  <2>2. Reply(c) \/ Call(c, "degradedCreate", submitter[c].macro, submitter[c].key)
    BY <1>4 DEF CreateRun
  <2> QED
    BY <1>1, <1>2, <2>1, <2>2
<1>5. ASSUME NEW c \in Submitters, CreateDegradedRun(c) \/ Withdraw(c) PROVE CallType'
  BY <1>2, <1>5 DEF CreateDegradedRun, Withdraw
<1>6. CASE Crash
  BY <1>6, NoCallType DEF Crash, CallType
<1>7. ASSUME NEW r \in RunIds, Execute(r) PROVE UNCHANGED submitter
  <2>1. CASE RecordStep(r)
    BY <2>1 DEF RecordStep
  <2>2. CASE AwaitStep(r)
    BY <2>2 DEF AwaitStep
  <2>3. CASE SendStep(r) \/ PersistStep(r) \/ SkipStep(r) \/ FinishRun(r)
    BY <2>3 DEF SendStep, PersistStep, SkipStep, FinishRun
  <2> QED
    BY <1>7, <2>1, <2>2, <2>3 DEF Execute
<1>8. CASE Startup \/ UNCHANGED vars
  BY <1>8 DEF Startup, Restart, SweepCommand, ListRuns, ReconcileStep, ReconcileRun, Listen,
     vars, CallType
<1> QED
  BY <1>3, <1>4, <1>5, <1>6, <1>7, <1>8 DEF Next, CallType

LEMMA RunTypeStep == IInv /\ [Next]_vars => RunType'
<1> SUFFICES ASSUME IInv, [Next]_vars PROVE RunType'
  OBVIOUS
<1>0. RunType
  BY TypeParts DEF IInv
<1>1. CASE UNCHANGED runs
  BY <1>0, <1>1 DEF RunType
<1>2. CASE \E c \in Submitters : Submit(c) \/ CreateRun(c) \/ CreateDegradedRun(c) \/ Withdraw(c)
  <2>1. ASSUME NEW r \in RunIds, NEW n \in Run, NEW h, Begun(r, n, h)
        PROVE  RunType'
    BY <1>0, <2>1 DEF Begun, RunType
  <2> QED
    BY <1>1, <1>2, <2>1, Bystanders, Creating DEF view
<1>3. ASSUME NEW r \in RunIds, Execute(r) PROVE RunType'
  <2>1. CASE RecordStep(r) \/ SendStep(r) \/ AwaitStep(r) \/ SkipStep(r)
    BY <1>1, <2>1, RecordEffects, SendEffects, AwaitEffects, SkipEffects
  <2> QED
    BY <1>1, <1>3, <2>1, PersistedRun, FinishedRun DEF Execute
<1>4. CASE Crash
  BY <1>1, <1>4, CrashEffects
<1>5. CASE Startup
  BY <1>1, <1>5, Bystanders, SweepEffects, ListEffects, ReconcileStepEffects, ReconciledRun
  DEF Startup, view
<1>6. CASE UNCHANGED vars
  BY <1>1, <1>6 DEF vars
<1> QED
  BY <1>2, <1>3, <1>4, <1>5, <1>6 DEF Next

LEMMA ExecTypeStep == IInv /\ [Next]_vars => ExecType'
<1> SUFFICES ASSUME IInv, [Next]_vars PROVE ExecType'
  OBVIOUS
<1>0. ExecType
  BY TypeParts DEF IInv
<1>1. CASE UNCHANGED exec
  BY <1>0, <1>1 DEF ExecType
<1>2. CASE \E c \in Submitters : Submit(c) \/ CreateRun(c) \/ CreateDegradedRun(c) \/ Withdraw(c)
  <2>1. ASSUME NEW r \in RunIds, NEW n, NEW h \in Goroutine, Begun(r, n, h)
        PROVE  ExecType'
    BY <1>0, <2>1 DEF Begun, ExecType
  <2> QED
    BY <1>1, <1>2, <2>1, Bystanders, Creating DEF view
<1>3. ASSUME NEW r \in RunIds, Execute(r) PROVE ExecType'
  <2>1. \E g \in Goroutine : Continue(r, g)
    BY <1>3, RecordEffects, SendEffects, AwaitEffects, PersistEffects, SkipEffects,
       FinishEffects DEF Execute
  <2> QED
    BY <1>0, <2>1, Continuing
<1>4. CASE Crash
  BY <1>4, CrashEffects, NoGoroutineType DEF ExecType
<1>5. CASE Startup
  BY <1>1, <1>5, Bystanders, SweepEffects, ListEffects, ReconcileStepEffects,
     ReconcileRunEffects DEF Startup, view
<1>6. CASE UNCHANGED vars
  BY <1>1, <1>6 DEF vars
<1> QED
  BY <1>2, <1>3, <1>4, <1>5, <1>6 DEF Next

LEMMA StrandedType ==
  ASSUME RunType, TraceType, NEW r \in RunIds, NEW i \in Pending(r)
  PROVE  /\ <<r, i>> \in StepKeys /\ i \in Index
         /\ StrandedOutcome(r, i) \in Terminal
         /\ StrandedOutcome(r, i) \in {"skipped", "unconfirmed", "confirmed", "failed"}
<1>1. <<r, i>> \in StepKeys /\ i \in Index /\ Script[runs[r].macro][i] \in StepDef
  BY ScriptFacts DEF Pending
<1>2. journal[<<r, i>>] \in {"absent", "open", "confirmed", "unconfirmed"}
  BY <1>1 DEF TraceType
<1>3. Script[runs[r].macro][i].integration \in Integrations
  BY <1>1 DEF StepDef
<1> QED
  BY <1>1, <1>2, <1>3 DEF StrandedOutcome, Integrations, Terminal

LEMMA TraceTypeStep == IInv /\ [Next]_vars => TraceType'
<1> SUFFICES ASSUME IInv, [Next]_vars PROVE TraceType'
  OBVIOUS
<1>0. TraceType /\ RunType
  BY TypeParts DEF IInv
<1> DEFINE trace == <<steps, journal, sent, lostWrites, dispatchAudit>>
<1>1. CASE UNCHANGED trace
  BY <1>0, <1>1 DEF TraceType
<1>2. CASE \E c \in Submitters : Submit(c) \/ CreateRun(c) \/ CreateDegradedRun(c) \/ Withdraw(c)
  BY <1>1, <1>2, Bystanders, Creating DEF view
<1>3. ASSUME NEW r \in RunIds, Execute(r) PROVE TraceType'
  <2>1. ASSUME exec[r].pc \notin {"none", "finish"} PROVE CurrentKey(r) \in StepKeys
    BY <2>1, Standing
  <2>2. ASSUME NEW k \in StepKeys, NEW o \in Terminal, Written(k, o),
               UNCHANGED <<journal, sent, dispatchAudit, lostCommands>>
        PROVE  TraceType'
    BY <1>0, <2>2 DEF Written, TraceType
  <2>3. CASE RecordStep(r)
    BY <1>0, <2>1, <2>3, RecordEffects DEF TraceType
  <2>4. CASE SendStep(r)
    BY <1>0, <2>1, <2>4, SendEffects DEF TraceType
  <2>5. CASE AwaitStep(r)
    BY <1>0, <2>1, <2>5, AwaitEffects DEF TraceType
  <2>6. CASE PersistStep(r)
    <3>1. exec[r].pc = "persist"
      BY <2>6, PersistEffects
    <3>2. exec[r].outcome \in Terminal
      BY <3>1 DEF IInv, RunInv, StepInv
    <3> QED
      BY <2>1, <2>2, <2>6, <3>1, <3>2, PersistEffects
  <2>7. CASE SkipStep(r)
    <3>1. "skipped" \in Terminal
      BY DEF Terminal
    <3> QED
      BY <2>1, <2>2, <2>7, <3>1, SkipEffects
  <2>8. CASE FinishRun(r)
    BY <1>1, <2>8, FinishEffects
  <2> QED
    BY <1>3, <2>3, <2>4, <2>5, <2>6, <2>7, <2>8 DEF Execute
<1>4. CASE Crash
  BY <1>1, <1>4, CrashEffects
<1>5. ASSUME NEW k \in StepKeys, SweepCommand(k) PROVE TraceType'
  BY <1>0, <1>5, SweepEffects DEF TraceType
<1>6. CASE ListRuns
  BY <1>0, <1>6, ListEffects DEF TraceType, OpenCommands
<1>7. ASSUME NEW r \in RunIds, ReconcileStep(r) \/ ReconcileRun(r) PROVE TraceType'
  <2>1. ASSUME NEW i \in Pending(r), ReconcileStep(r),
               steps' = [steps EXCEPT ![<<r, i>>] = StrandedOutcome(r, i)]
        PROVE  TraceType'
    BY <1>0, <2>1, StrandedType, ReconcileStepEffects DEF TraceType
  <2> QED
    BY <1>1, <1>7, <2>1, ReconcileStepEffects, ReconcileRunEffects
<1>8. CASE Restart \/ Listen \/ UNCHANGED vars
  BY <1>1, <1>8, Bystanders DEF view
<1> QED
  BY <1>2, <1>3, <1>4, <1>5, <1>6, <1>7, <1>8 DEF Next, Startup

LEMMA TypeStep == IInv /\ [Next]_vars => TypeOK'
BY TypeParts, TypePartsNext, ControlStep, CallStep, RunTypeStep, ExecTypeStep, TraceTypeStep
DEF IInv

-----------------------------------------------------------------------------
\* Collisions, and the process.

\* Runs are told apart by key and by macro when they begin, keep both, and never
\* run again.
LEMMA CollideStep == IInv /\ [Next]_vars => RunsDoNotCollide'
<1> SUFFICES ASSUME IInv, [Next]_vars PROVE RunsDoNotCollide'
  OBVIOUS
<1>0. RunType /\ RunsDoNotCollide
  BY TypeParts DEF IInv
<1>1. CASE UNCHANGED runs
  BY <1>0, <1>1 DEF RunsDoNotCollide, Running
<1>2. ASSUME NEW r \in RunIds, NEW n \in Run, NEW h, Begun(r, n, h)
      PROVE  RunsDoNotCollide'
  <2>1. runs'[r] = n /\ \A s \in RunIds \ {r} : runs'[s] = runs[s]
    BY <1>0, <1>2 DEF Begun, RunType
  <2>2. \A s \in RunIds \ {r} : runs[s].state # "absent" => runs[s].key # n.key
    BY <1>2 DEF Begun, KeyIsTaken
  <2>3. \A s \in RunIds \ {r} : Running(s) => Object[runs[s].macro] # Object[n.macro]
    BY <1>2 DEF Begun, InFlight
  <2> QED
    BY <1>0, <2>1, <2>2, <2>3 DEF RunsDoNotCollide, Running
<1>3. ASSUME NEW r \in RunIds, \A s \in RunIds \ {r} : runs'[s] = runs[s],
             runs'[r].macro = runs[r].macro, runs'[r].key = runs[r].key,
             Running(r)' => Running(r),
             runs[r].state # "absent"
      PROVE  RunsDoNotCollide'
  <2>1. \A s \in RunIds : /\ runs'[s].macro = runs[s].macro /\ runs'[s].key = runs[s].key
                          /\ Running(s)' => Running(s)
                          /\ runs'[s].state # "absent" => runs[s].state # "absent"
    BY <1>3 DEF Running
  <2> QED
    BY <1>0, <2>1 DEF RunsDoNotCollide
<1>4. ASSUME NEW c \in Submitters,
             Submit(c) \/ CreateRun(c) \/ CreateDegradedRun(c) \/ Withdraw(c)
      PROVE  RunsDoNotCollide'
  BY <1>1, <1>2, <1>4, Bystanders, Creating DEF view
<1>5. ASSUME NEW r \in RunIds, Execute(r) PROVE RunsDoNotCollide'
  <2>1. exec[r].pc # "none" => Running(r)
    BY DEF IInv, RunInv, PlaceInv
  <2>2. CASE PersistStep(r)
    BY <1>3, <2>1, <2>2, PersistedRun, PersistEffects DEF Running
  <2>3. CASE FinishRun(r)
    BY <1>1, <1>3, <2>1, <2>3, FinishedRun, FinishEffects DEF Running
  <2> QED
    BY <1>1, <1>5, <2>2, <2>3, RecordEffects, SendEffects, AwaitEffects, SkipEffects
    DEF Execute
<1>6. ASSUME NEW r \in RunIds, ReconcileRun(r) PROVE RunsDoNotCollide'
  <2>1. Running(r)
    BY <1>6, ReconcileRunEffects DEF IInv, ProcessInv
  <2> QED
    BY <1>1, <1>3, <1>6, <2>1, ReconciledRun DEF Running
<1>7. CASE Crash \/ Startup \/ UNCHANGED vars
  BY <1>1, <1>6, <1>7, CrashEffects, Bystanders, SweepEffects, ListEffects,
     ReconcileStepEffects DEF Startup, view
<1> QED
  BY <1>4, <1>5, <1>7 DEF Next

\* Goroutines are those of a process that is up; what is listed is running.
LEMMA ProcessStep == IInv /\ [Next]_vars => ProcessInv'
<1> SUFFICES ASSUME IInv, [Next]_vars PROVE ProcessInv'
  OBVIOUS
<1>0. ProcessInv /\ ExecType /\ RunType /\ toReconcile \subseteq RunIds
  BY TypeParts DEF IInv, ControlType
<1> USE DEF ProcessInv
<1>1. CASE UNCHANGED <<process, exec, toReconcile, runs>>
  BY <1>0, <1>1 DEF Running
<1>2. ASSUME process = "up", process' = "up", toReconcile' = toReconcile
      PROVE  ProcessInv'
  BY <1>0, <1>2
<1>3. ASSUME NEW c \in Submitters,
             Submit(c) \/ CreateRun(c) \/ CreateDegradedRun(c)
      PROVE  ProcessInv'
  BY <1>2, <1>3 DEF Submit, CreateRun, CreateDegradedRun
<1>4. ASSUME NEW c \in Submitters, Withdraw(c) PROVE ProcessInv'
  BY <1>1, <1>4 DEF Withdraw
<1>5. ASSUME NEW r \in RunIds, Execute(r) PROVE ProcessInv'
  <2>1. process = "up" /\ UNCHANGED <<process, toReconcile>>
    <3>1. CASE RecordStep(r)
      BY <3>1 DEF RecordStep, At
    <3>2. CASE AwaitStep(r)
      BY <3>2 DEF AwaitStep, At
    <3>3. CASE SendStep(r) \/ PersistStep(r) \/ SkipStep(r) \/ FinishRun(r)
      BY <3>3 DEF SendStep, PersistStep, SkipStep, FinishRun, At
    <3> QED
      BY <1>5, <3>1, <3>2, <3>3 DEF Execute
  <2> QED
    BY <1>2, <2>1
<1>6. CASE Crash
  BY <1>6, NoGoroutineType DEF Crash
<1>7. CASE Restart
  BY <1>0, <1>7 DEF Restart
<1>8. ASSUME NEW k \in StepKeys, SweepCommand(k) PROVE ProcessInv'
  BY <1>1, <1>8 DEF SweepCommand
<1>9. CASE ListRuns
  <2>1. toReconcile' = Stranded \/ toReconcile' = toReconcile
    BY <1>9 DEF ListRuns
  <2>2. process = "sweeping" /\ process' = "reconciling" /\ UNCHANGED <<runs, exec>>
    BY <1>9 DEF ListRuns
  <2> QED
    BY <1>0, <2>1, <2>2 DEF Stranded, Running
<1>10. ASSUME NEW r \in RunIds, ReconcileStep(r) PROVE ProcessInv'
  <2>1. /\ process = "reconciling" /\ UNCHANGED <<process, runs, exec>>
        /\ toReconcile' = toReconcile \/ toReconcile' = toReconcile \ {r}
    BY <1>10 DEF ReconcileStep
  <2> QED
    BY <1>0, <2>1 DEF Running
<1>11. ASSUME NEW r \in RunIds, ReconcileRun(r) PROVE ProcessInv'
  <2>1. /\ process = "reconciling" /\ UNCHANGED <<process, exec>>
        /\ toReconcile' = toReconcile \ {r}
    BY <1>11 DEF ReconcileRun
  <2>2. \A s \in RunIds \ {r} : runs'[s] = runs[s]
    BY <1>11, ReconciledRun
  <2> QED
    BY <1>0, <2>1, <2>2 DEF Running
<1>12. CASE Listen
  BY <1>0, <1>12 DEF Listen
<1>13. CASE UNCHANGED vars
  BY <1>1, <1>13 DEF vars
<1> QED
  BY <1>3, <1>4, <1>5, <1>6, <1>7, <1>8, <1>9, <1>10, <1>11, <1>12, <1>13 DEF Next, Startup

-----------------------------------------------------------------------------
\* The invariant of a run.

\* What belongs to a run, and that a step leaves it alone.
Frame(r) ==
  /\ runs'[r] = runs[r] /\ exec'[r] = exec[r]
  /\ \A i \in Index :
       /\ steps'[<<r, i>>] = steps[<<r, i>>]
       /\ journal'[<<r, i>>] = journal[<<r, i>>]
       /\ sent'[<<r, i>>] = sent[<<r, i>>]
       /\ <<r, i>> \in lostSteps' <=> <<r, i>> \in lostSteps
       /\ <<r, i>> \in lostCommands' <=> <<r, i>> \in lostCommands

\* What is on record of a step stays, whatever else is lost.
LEMMA Kept ==
  ASSUME NEW r \in RunIds, NEW i \in Index, steps'[<<r, i>>] = steps[<<r, i>>],
         <<r, i>> \in lostSteps => <<r, i>> \in lostSteps',
         runs'[r].macro = runs[r].macro
  PROVE  /\ Passed(r, i) => Passed(r, i)'
         /\ \A o \in SUBSET Terminal : Recorded(r, i, o) => Recorded(r, i, o)'
BY DEF Passed, Recorded, Aborts

LEMMA OutcomeSets ==
  /\ {"confirmed", "unconfirmed", "unconfirmable"} \in SUBSET Terminal
  /\ {"confirmed"} \in SUBSET Terminal
BY DEF Terminal

LEMMA FrameStep ==
  ASSUME IInv, NEW r \in RunIds, Frame(r)
  PROVE  RunInv(r)'
<1>1. RunInv(r) /\ RunType /\ ExecType /\ Length(r) \in 1..MaxSteps /\ MaxSteps \in Nat
  BY TypeParts, ScriptFacts, ScriptAssumption DEF IInv
<1>2. Length(r)' = Length(r) /\ (Running(r)' <=> Running(r)) /\ \A i : Fpp(r, i)' <=> Fpp(r, i)
  BY DEF Frame, Length, Running, Fpp
<1>3. \A i \in Index : Untouched(r, i)' <=> Untouched(r, i)
  BY DEF Frame, Untouched
<1>4. \A i \in Index : Passed(r, i) => Passed(r, i)'
  BY Kept DEF Frame
<1>5. \A i \in Index, o \in SUBSET Terminal : Recorded(r, i, o) => Recorded(r, i, o)'
  BY Kept DEF Frame
<1>6. 1..Length(r) \subseteq Index /\ Index \subseteq Nat
  BY <1>1 DEF Index
<1>7. exec[r].pc \notin {"none", "finish"} => exec[r].at \in Index
  BY Standing
<1>8. exec[r].pc # "none" => 1..(exec[r].at - 1) \subseteq Index
  BY <1>1 DEF RunInv, PlaceInv, Index
<1>9. PlaceInv(r)'
  BY <1>1, <1>2, <1>3, <1>7 DEF RunInv, PlaceInv, Frame
<1>10. StepInv(r)'
  BY <1>1, <1>2, <1>7 DEF RunInv, StepInv, Frame
<1>11. PastInv(r)'
  BY <1>1, <1>4, <1>5, <1>8, OutcomeSets DEF RunInv, PastInv, Frame
<1>12. TableInv(r)'
  <2>1. \A i \in Index : i \in 1..MaxSteps /\ 1..(i - 1) \subseteq Index
    BY <1>1 DEF Index
  <2>2. /\ \A i \in Index : sent'[<<r, i>>] <= 1
        /\ \A j \in Index : sent'[<<r, j>>] = 1 => \A i \in 1..(j - 1) : Passed(r, i)'
    BY <1>1, <1>4, <2>1 DEF RunInv, TableInv, Frame
  <2>3. runs'[r].state # "absent" => \A i \in 1..Length(r) : Fpp(r, i) =>
       /\ journal'[<<r, i>>] = "absent" => sent'[<<r, i>>] = 0
       /\ Agrees(r, i)'
    BY <1>1, <1>6 DEF RunInv, TableInv, Frame, Agrees
  <2>4. runs'[r].state = "finished" =>
       /\ runs'[r].completed => \A i \in 1..Length(r) :
            Recorded(r, i, {"confirmed", "unconfirmed", "unconfirmable"})'
       /\ runs'[r].confirmed => \A i \in 1..Length(r) : Recorded(r, i, {"confirmed"})'
       /\ runs'[r].restarted => ~runs'[r].completed
       /\ runs'[r].restarted /\ runs'[r].confirmed => RestartedConfirmed(r)'
    BY <1>1, <1>2, <1>5, <1>6, OutcomeSets DEF RunInv, TableInv, Frame, RestartedConfirmed
  <2> QED
    BY <1>2, <2>2, <2>3, <2>4 DEF TableInv
<1> QED
  BY <1>9, <1>10, <1>11, <1>12 DEF RunInv

\* An executing run goes on with the same step: what has to be shown of it.
LEMMA SameStep ==
  ASSUME IInv, NEW r \in RunIds,
         exec[r].pc \in {"step", "send", "await"},
         exec'[r].pc \in {"send", "await", "persist"},
         exec'[r].at = exec[r].at,
         exec'[r].completed = exec[r].completed, exec'[r].confirmed = exec[r].confirmed,
         UNCHANGED <<runs, steps, lostSteps>>, lostCommands \subseteq lostCommands',
         \A i \in Index : i # exec[r].at =>
           /\ journal'[<<r, i>>] = journal[<<r, i>>] /\ sent'[<<r, i>>] = sent[<<r, i>>],
         LET k == <<r, exec[r].at>>
         IN sent'[k] <= 1 /\ (Fpp(r, exec[r].at) /\ journal'[k] = "absent" => sent'[k] = 0)
  PROVE  PlaceInv(r)' /\ PastInv(r)' /\ TableInv(r)'
<1> DEFINE a == exec[r].at
<1>1. RunInv(r) /\ MaxSteps \in Nat
  BY ScriptAssumption DEF IInv
<1>2. a \in 1..Length(r) /\ a \in Index /\ Length(r) \in 1..MaxSteps /\ Running(r)
  BY Standing
<1>3. Length(r)' = Length(r) /\ Running(r)' /\ \A i : Fpp(r, i)' <=> Fpp(r, i)
  BY <1>2 DEF Length, Running, Fpp
<1>4. \A i \in Index : i > a => Untouched(r, i)'
  BY <1>1, <1>2 DEF RunInv, PlaceInv, Untouched
<1>5. \A i \in Index : Passed(r, i) => Passed(r, i)'
  BY Kept
<1>6. \A i \in Index, o \in SUBSET Terminal : Recorded(r, i, o) => Recorded(r, i, o)'
  BY Kept
<1>7. \A j \in Index : j \in 1..MaxSteps /\ 1..(j - 1) \subseteq Index
  BY <1>1 DEF Index
<1>8. steps[<<r, a>>] = "pending"
  BY <1>1 DEF RunInv, PlaceInv, StepInv, Untouched
<1>9. \A i \in 1..(a - 1) : Passed(r, i)'
  BY <1>1, <1>2, <1>5, <1>7 DEF RunInv, PastInv
<1>10. PlaceInv(r)'
  <2>1. exec[r].pc # "none" /\ exec'[r].pc \notin {"step", "skip", "none", "finish"}
    OBVIOUS
  <2>2. runs'[r].state # "absent" /\ a # Length(r) + 1 /\ a \in 1..Length(r) + 1
    BY <1>2, <1>3 DEF Running
  <2> QED
    BY <1>3, <1>4, <2>1, <2>2 DEF PlaceInv
<1>11. PastInv(r)'
  BY <1>1, <1>2, <1>6, <1>7, <1>9, OutcomeSets DEF RunInv, PastInv
<1>12. TableInv(r)'
  <2>1. /\ \A i \in Index : sent'[<<r, i>>] <= 1
        /\ \A j \in Index : sent'[<<r, j>>] = 1 => \A i \in 1..(j - 1) : Passed(r, i)'
    BY <1>1, <1>5, <1>7, <1>9 DEF RunInv, TableInv
  <2>2. \A i \in 1..Length(r) : Fpp(r, i) =>
          /\ journal'[<<r, i>>] = "absent" => sent'[<<r, i>>] = 0
          /\ Agrees(r, i)'
    <3> SUFFICES ASSUME NEW i \in 1..Length(r), Fpp(r, i)
                 PROVE  /\ journal'[<<r, i>>] = "absent" => sent'[<<r, i>>] = 0
                        /\ Agrees(r, i)'
      OBVIOUS
    <3>1. i \in Index
      BY <1>1, <1>2 DEF Index
    <3> QED
      BY <1>1, <1>2, <1>8, <3>1 DEF RunInv, TableInv, Running, Agrees
  <2>3. runs'[r].state # "finished" /\ runs'[r].state # "absent"
    BY <1>3 DEF Running
  <2> QED
    BY <1>3, <2>1, <2>2, <2>3 DEF TableInv
<1> QED
  BY <1>10, <1>11, <1>12

LEMMA RecordRun ==
  ASSUME IInv, NEW r \in RunIds, RecordStep(r)
  PROVE  RunInv(r)'
<1> DEFINE a == exec[r].at
           k == <<r, a>>
<1>1. exec[r].pc = "step"
  BY RecordEffects
<1>2. a \in Index /\ k \in StepKeys /\ TraceType
  BY <1>1, Standing, TypeParts DEF IInv, CurrentKey
<1>3. Untouched(r, a)
  BY <1>1 DEF IInv, RunInv, PlaceInv
<1>4. (CurrentStep(r).integration = "fpp") <=> Fpp(r, a)
  BY DEF CurrentStep, Fpp
<1>5. /\ exec'[r].at = a /\ UNCHANGED <<runs, steps, sent, lostWrites>>
      /\ exec'[r].completed = exec[r].completed /\ exec'[r].confirmed = exec[r].confirmed
      /\ exec'[r].pc = "send" \/ (exec'[r].pc = "persist" /\ exec'[r].outcome = "failed")
  BY RecordEffects
<1>6. /\ \/ journal' = journal
         \/ Fpp(r, a) /\ journal' = [journal EXCEPT ![k] = "open"]
      /\ exec'[r].pc = "send" /\ Fpp(r, a) => journal' = [journal EXCEPT ![k] = "open"]
  BY <1>4, RecordEffects DEF CurrentKey
<1>7. /\ \A i \in Index : i # a => journal'[<<r, i>>] = journal[<<r, i>>]
      /\ exec'[r].pc = "send" => journal'[k] = IF Fpp(r, a) THEN "open" ELSE "absent"
  <2>1. \A i \in Index : <<r, i>> \in StepKeys /\ (i # a => <<r, i>> # k)
    BY DEF StepKeys
  <2>2. CASE journal' = journal
    BY <1>2, <1>3, <1>6, <2>2 DEF Untouched, TraceType
  <2>3. CASE journal' = [journal EXCEPT ![k] = "open"] /\ Fpp(r, a)
    BY <1>2, <2>1, <2>3 DEF TraceType
  <2> QED
    BY <1>6, <2>2, <2>3
<1>8. sent'[k] = 0
  BY <1>3, <1>5 DEF Untouched
<1>9. PlaceInv(r)' /\ PastInv(r)' /\ TableInv(r)'
  BY <1>1, <1>5, <1>7, <1>8, SameStep
<1>10. steps'[k] = "pending" /\ (Fpp(r, a)' <=> Fpp(r, a))
  BY <1>3, <1>5 DEF Untouched, Fpp
<1>11. exec'[r].pc = "persist" =>
         exec'[r].outcome \in Terminal \ {"skipped"} /\ exec'[r].outcome # "confirmed"
  BY <1>5 DEF Terminal
<1>12. StepInv(r)'
  BY <1>5, <1>7, <1>8, <1>10, <1>11 DEF StepInv
<1> QED
  BY <1>9, <1>12 DEF RunInv

LEMMA SendRun ==
  ASSUME IInv, NEW r \in RunIds, SendStep(r)
  PROVE  RunInv(r)'
<1> DEFINE a == exec[r].at
           k == <<r, a>>
           h == exec'[r]
<1>1. /\ exec[r].pc = "send" /\ h.pc = "await" /\ h.at = a
      /\ h.completed = exec[r].completed /\ h.confirmed = exec[r].confirmed
      /\ UNCHANGED <<runs, steps, journal, lostWrites>>
      /\ sent' = IF h.reply = "notSent" THEN sent ELSE [sent EXCEPT ![k] = @ + 1]
  BY SendEffects DEF CurrentKey
<1>2. a \in Index /\ k \in StepKeys /\ TraceType
  BY <1>1, Standing, TypeParts DEF IInv, CurrentKey
<1>3. /\ steps[k] = "pending" /\ sent[k] = 0
      /\ journal[k] = IF Fpp(r, a) THEN "open" ELSE "absent"
  BY <1>1 DEF IInv, RunInv, StepInv
<1>4. /\ \A i \in Index : i # a => sent'[<<r, i>>] = sent[<<r, i>>]
      /\ sent'[k] = IF h.reply = "notSent" THEN 0 ELSE 1
  BY <1>1, <1>2, <1>3 DEF TraceType
<1>5. PlaceInv(r)' /\ PastInv(r)' /\ TableInv(r)'
  <2>1. sent'[k] <= 1 /\ (Fpp(r, a) /\ journal'[k] = "absent" => sent'[k] = 0)
    BY <1>1, <1>3, <1>4
  <2>2. \A i \in Index : i # a =>
          journal'[<<r, i>>] = journal[<<r, i>>] /\ sent'[<<r, i>>] = sent[<<r, i>>]
    BY <1>1, <1>4
  <2> QED
    BY <1>1, <2>1, <2>2, SameStep
<1>6. Fpp(r, a)' <=> Fpp(r, a)
  BY <1>1 DEF Fpp
<1>7. StepInv(r)'
  BY <1>1, <1>3, <1>4, <1>6 DEF StepInv
<1> QED
  BY <1>5, <1>7 DEF RunInv

LEMMA AwaitRun ==
  ASSUME IInv, NEW r \in RunIds, AwaitStep(r)
  PROVE  RunInv(r)'
<1> DEFINE a == exec[r].at
           k == <<r, a>>
           h == exec'[r]
           verdict == IF h.outcome = "confirmed" THEN "confirmed" ELSE "unconfirmed"
<1>1. /\ exec[r].pc = "await" /\ h.pc = "persist" /\ h.at = a
      /\ h.completed = exec[r].completed /\ h.confirmed = exec[r].confirmed
      /\ h.outcome \in Terminal \ {"skipped"}
      /\ UNCHANGED <<runs, steps, sent, lostSteps>>
  BY AwaitEffects
<1>2. a \in Index /\ k \in StepKeys /\ TraceType
  BY <1>1, Standing, TypeParts DEF IInv, CurrentKey
<1>3. (CurrentStep(r).integration = "fpp") <=> Fpp(r, a)
  BY DEF CurrentStep, Fpp
<1>4. \/ UNCHANGED journal /\ ~Fpp(r, a) /\ UNCHANGED lostCommands
      \/ UNCHANGED journal /\ Fpp(r, a) /\ lostCommands' = lostCommands \cup {k}
      \/ Fpp(r, a) /\ UNCHANGED lostCommands /\ journal' = [journal EXCEPT ![k] = verdict]
  BY <1>3, AwaitEffects DEF CurrentKey
<1>5. steps[k] = "pending" /\ (Fpp(r, a) => journal[k] = "open")
  BY <1>1 DEF IInv, RunInv, StepInv
<1>6. sent[k] <= 1
  BY <1>2 DEF IInv, RunInv, TableInv
<1>7. \A i \in Index : <<r, i>> \in StepKeys /\ (i # a => <<r, i>> # k)
  BY DEF StepKeys
<1>8. verdict # "absent"
  OBVIOUS
<1> HIDE DEF verdict
<1>9. /\ \A i \in Index : i # a => journal'[<<r, i>>] = journal[<<r, i>>]
      /\ Fpp(r, a) => journal'[k] # "absent"
      /\ Fpp(r, a) => journal'[k] = verdict \/ k \in lostCommands'
  BY <1>2, <1>4, <1>5, <1>7, <1>8 DEF TraceType
<1>10. lostCommands \subseteq lostCommands'
  BY <1>4
<1>11. PlaceInv(r)' /\ PastInv(r)' /\ TableInv(r)'
  BY <1>1, <1>6, <1>9, <1>10, SameStep
<1>12. Fpp(r, a)' <=> Fpp(r, a)
  BY <1>1 DEF Fpp
<1>13. StepInv(r)'
  BY <1>1, <1>5, <1>9, <1>12 DEF StepInv, verdict
<1> QED
  BY <1>11, <1>13 DEF RunInv

\* An executing run goes on to the next step: what has to be shown of it.
LEMMA NextStep ==
  ASSUME IInv, NEW r \in RunIds, NEW o \in Terminal,
         exec[r].pc \in {"persist", "skip"},
         exec'[r].pc \in {"step", "skip", "finish"},
         exec'[r].at = exec[r].at + 1,
         exec'[r].pc = "finish" <=> exec[r].at = Length(r),
         exec'[r].completed => exec[r].completed /\ o # "skipped" /\ o # "failed",
         exec'[r].confirmed => exec[r].confirmed /\ o = "confirmed",
         exec'[r].pc = "step" => exec[r].pc = "persist" /\ ~Aborts(CurrentStep(r), o),
         exec'[r].pc = "skip" => ~exec'[r].completed /\ ~exec'[r].confirmed,
         LET k == <<r, exec[r].at>>
         IN Fpp(r, exec[r].at) =>
              /\ o = "skipped" => journal[k] = "absent"
              /\ o = "confirmed" => journal[k] = "confirmed" \/ k \in lostCommands,
         Written(CurrentKey(r), o),
         Running(r)', runs'[r].macro = runs[r].macro,
         UNCHANGED <<journal, sent, lostCommands>>
  PROVE  RunInv(r)'
<1>0. PICK a \in Index : a = exec[r].at
  BY Standing
<1> DEFINE k == <<r, a>>
<1>1. RunInv(r) /\ MaxSteps \in Nat /\ TraceType
  BY TypeParts, ScriptAssumption DEF IInv
<1>2. a \in 1..Length(r) /\ a \in Index /\ k \in StepKeys /\ Length(r) \in 1..MaxSteps /\ Running(r)
  BY <1>0, Standing DEF CurrentKey
<1>3. Length(r)' = Length(r) /\ \A i : Fpp(r, i)' <=> Fpp(r, i)
  BY DEF Length, Fpp
<1>4. \A i \in Index : <<r, i>> \in StepKeys /\ (i # a => <<r, i>> # k)
  BY DEF StepKeys
<1>5. /\ \A i \in Index : i # a =>
           /\ steps'[<<r, i>>] = steps[<<r, i>>]
           /\ <<r, i>> \in lostSteps' <=> <<r, i>> \in lostSteps
      /\ lostSteps \subseteq lostSteps'
      /\ steps'[k] = o \/ (k \in lostSteps' /\ steps'[k] = steps[k])
  BY <1>0, <1>1, <1>2, <1>4 DEF Written, CurrentKey, TraceType
<1>6. \A j \in Index : j \in 1..MaxSteps /\ 1..(j - 1) \subseteq Index
  BY <1>0, <1>1 DEF Index
<1>7. \A i \in Index : i # a => (Passed(r, i) => Passed(r, i)')
  BY <1>0, <1>5, Kept
<1>8. \A i \in Index, c \in SUBSET Terminal : i # a => (Recorded(r, i, c) => Recorded(r, i, c)')
  BY <1>0, <1>5, Kept
<1>9. exec[r].pc = "persist" => steps[k] = "pending"
  BY <1>0, <1>1 DEF RunInv, StepInv
<1>10. exec[r].pc = "skip" => steps[k] = "pending"
  BY <1>0, <1>1 DEF RunInv, PlaceInv, Untouched
<1>11. Passed(r, a) => Passed(r, a)'
  BY <1>0, <1>5, <1>9, <1>10 DEF Passed
<1>12. \A c \in SUBSET Terminal : o \in c => Recorded(r, a, c)'
  BY <1>0, <1>5, <1>9, <1>10 DEF Recorded
<1>13. 1..(a + 1 - 1) = 1..(a - 1) \cup {a} /\ a \notin 1..(a - 1) /\ 1..(a - 1) \subseteq Index
  BY <1>0, <1>2, <1>6 DEF Index
<1>14. PlaceInv(r)'
  <2>1. \A i \in Index : i > a => Untouched(r, i)'
    BY <1>0, <1>1, <1>2, <1>5, <1>6 DEF RunInv, PlaceInv, Untouched
  <2>2. /\ runs'[r].state # "absent" /\ exec'[r].pc # "none"
        /\ a + 1 \in 1..Length(r) + 1
        /\ exec'[r].pc = "finish" <=> a + 1 = Length(r) + 1
    BY <1>0, <1>2 DEF Running
  <2>3. exec'[r].pc \in {"step", "skip"} => a + 1 \in Index
    BY <1>0, <1>1, <1>2 DEF Index
  <2>4. \A i \in Index : i > a + 1 => Untouched(r, i)'
    BY <2>1, <1>2, <1>6
  <2>5. exec'[r].pc \in {"step", "skip"} => Untouched(r, a + 1)'
    BY <1>0, <1>2, <2>1, <2>3
  <2> QED
    BY <1>0, <1>3, <2>2, <2>4, <2>5 DEF PlaceInv
<1>15. StepInv(r)'
  BY DEF StepInv
<1>16. PastInv(r)'
  <2>1. exec'[r].pc = "step" => \A i \in 1..(a + 1 - 1) : Passed(r, i)'
    <3> SUFFICES ASSUME exec'[r].pc = "step", NEW i \in 1..(a + 1 - 1)
                 PROVE  Passed(r, i)'
      OBVIOUS
    <3>1. CASE i # a
      BY <1>0, <1>1, <1>7, <1>13, <3>1 DEF RunInv, PastInv
    <3>2. CASE i = a
      <4>1. CurrentStep(r) = Script[runs'[r].macro][a] /\ o # "pending"
        BY <1>0 DEF CurrentStep, Terminal
      <4> QED
        BY <1>0, <1>5, <3>2, <4>1 DEF Passed
    <3> QED
      BY <3>1, <3>2
  <2>2. exec'[r].completed => \A i \in 1..(a + 1 - 1) :
          Recorded(r, i, {"confirmed", "unconfirmed", "unconfirmable"})'
    <3> SUFFICES ASSUME exec'[r].completed, NEW i \in 1..(a + 1 - 1)
                 PROVE  Recorded(r, i, {"confirmed", "unconfirmed", "unconfirmable"})'
      OBVIOUS
    <3>1. CASE i # a
      BY <1>0, <1>1, <1>8, <1>13, <3>1, OutcomeSets DEF RunInv, PastInv
    <3>2. CASE i = a
      <4>1. o \in {"confirmed", "unconfirmed", "unconfirmable"}
        BY DEF Terminal
      <4> QED
        BY <1>0, <1>12, <3>2, <4>1, OutcomeSets
    <3> QED
      BY <3>1, <3>2
  <2>3. exec'[r].confirmed => \A i \in 1..(a + 1 - 1) : Recorded(r, i, {"confirmed"})'
    <3> SUFFICES ASSUME exec'[r].confirmed, NEW i \in 1..(a + 1 - 1)
                 PROVE  Recorded(r, i, {"confirmed"})'
      OBVIOUS
    <3>1. CASE i # a
      BY <1>0, <1>1, <1>8, <1>13, <3>1, OutcomeSets DEF RunInv, PastInv
    <3>2. CASE i = a
      BY <1>0, <1>12, <3>2, OutcomeSets
    <3> QED
      BY <3>1, <3>2
  <2>4. 1..(exec'[r].at - 1) = 1..(a + 1 - 1)
    <3>1. exec'[r].at = a + 1
      BY <1>0
    <3>2. a \in Nat
      BY <1>1 DEF Index
    <3> QED
      BY <3>1, <3>2
  <2>5. /\ exec'[r].pc \in {"step", "send", "await", "persist"} => exec'[r].pc = "step"
        /\ exec'[r].pc = "skip" => ~exec'[r].completed /\ ~exec'[r].confirmed
    OBVIOUS
  <2> HIDE DEF k
  <2> QED
    BY <2>1, <2>2, <2>3, <2>4, <2>5 DEF PastInv
<1>17. TableInv(r)'
  <2>1. \A i \in Index : Passed(r, i) => Passed(r, i)'
    BY <1>0, <1>7, <1>11
  <2>2. /\ \A i \in Index : sent'[<<r, i>>] <= 1
        /\ \A j \in Index : sent'[<<r, j>>] = 1 => \A i \in 1..(j - 1) : Passed(r, i)'
    BY <1>0, <1>1, <1>6, <2>1 DEF RunInv, TableInv
  <2>3. \A i \in 1..Length(r) : Fpp(r, i) =>
          /\ journal'[<<r, i>>] = "absent" => sent'[<<r, i>>] = 0
          /\ Agrees(r, i)'
    <3> SUFFICES ASSUME NEW i \in 1..Length(r), Fpp(r, i)
                 PROVE  /\ journal'[<<r, i>>] = "absent" => sent'[<<r, i>>] = 0
                        /\ Agrees(r, i)'
      OBVIOUS
    <3>1. i \in Index /\ runs[r].state # "absent"
      BY <1>0, <1>1, <1>2 DEF Index, Running
    <3>2. journal[<<r, i>>] = "absent" => sent[<<r, i>>] = 0
      BY <1>0, <1>1, <3>1 DEF RunInv, TableInv
    <3>3. CASE i = a
      BY <1>0, <1>5, <1>9, <1>10, <3>2, <3>3 DEF Agrees
    <3>4. CASE i # a
      BY <1>0, <1>1, <1>5, <3>1, <3>4 DEF RunInv, TableInv, Agrees
    <3> QED
      BY <3>3, <3>4
  <2>4. runs'[r].state # "finished"
    BY DEF Running
  <2> QED
    BY <1>0, <1>3, <2>2, <2>3, <2>4 DEF TableInv
<1> QED
  BY <1>0, <1>14, <1>15, <1>16, <1>17 DEF RunInv

LEMMA PersistRun ==
  ASSUME IInv, NEW r \in RunIds, PersistStep(r)
  PROVE  RunInv(r)'
<1> DEFINE g == exec[r]
           h == exec'[r]
           o == exec[r].outcome
           step == CurrentStep(r)
<1>1. /\ g.pc = "persist" /\ h.at = g.at + 1
      /\ h.pc = IF g.at = Length(r) THEN "finish" ELSE IF Aborts(step, o) THEN "skip" ELSE "step"
      /\ h.completed => g.completed /\ Completes(step, o)
      /\ h.confirmed => g.confirmed /\ o = "confirmed"
      /\ Written(CurrentKey(r), o)
      /\ UNCHANGED <<journal, sent, lostCommands>>
  BY PersistEffects
<1>2. /\ o \in Terminal \ {"skipped"}
      /\ Fpp(r, g.at) /\ o = "confirmed" =>
           journal[<<r, g.at>>] = "confirmed" \/ <<r, g.at>> \in lostCommands
  BY <1>1 DEF IInv, RunInv, StepInv
<1>3. Running(r)' /\ runs'[r].macro = runs[r].macro
  BY <1>1, Standing, PersistedRun DEF Running
<1>4. h.completed => g.completed /\ o # "skipped" /\ o # "failed"
  BY <1>1, <1>2 DEF Completes
<1>5. h.pc = "skip" => ~h.completed /\ ~h.confirmed
  BY <1>1 DEF Completes, Aborts
<1>6. /\ h.pc \in {"step", "skip", "finish"}
      /\ h.pc = "finish" <=> g.at = Length(r)
      /\ h.pc = "step" => ~Aborts(step, o)
  BY <1>1
<1> HIDE DEF o
<1>7. /\ Fpp(r, g.at) =>
           /\ o = "skipped" => journal[<<r, g.at>>] = "absent"
           /\ o = "confirmed" =>
                journal[<<r, g.at>>] = "confirmed" \/ <<r, g.at>> \in lostCommands
  BY <1>2
<1> QED
  BY <1>1, <1>2, <1>3, <1>4, <1>5, <1>6, <1>7, NextStep

LEMMA SkipRun ==
  ASSUME IInv, NEW r \in RunIds, SkipStep(r)
  PROVE  RunInv(r)'
<1> DEFINE g == exec[r]
           h == exec'[r]
<1>1. /\ g.pc = "skip" /\ h.at = g.at + 1
      /\ h.pc = IF g.at = Length(r) THEN "finish" ELSE "skip"
      /\ h.completed = g.completed /\ h.confirmed = g.confirmed
      /\ Written(CurrentKey(r), "skipped")
      /\ UNCHANGED <<runs, journal, sent, lostCommands>>
  BY SkipEffects
<1>2. /\ ~g.completed /\ ~g.confirmed /\ journal[<<r, g.at>>] = "absent"
  BY <1>1 DEF IInv, RunInv, PlaceInv, PastInv, Untouched
<1>3. Running(r)' /\ runs'[r].macro = runs[r].macro
  BY <1>1, Standing DEF Running
<1>4. "skipped" \in Terminal
  BY DEF Terminal
<1>5. /\ h.pc \in {"step", "skip", "finish"} /\ h.pc # "step"
      /\ h.pc = "finish" <=> g.at = Length(r)
      /\ ~h.completed /\ ~h.confirmed
  BY <1>1, <1>2
<1> QED
  BY <1>1, <1>2, <1>3, <1>4, <1>5, NextStep

LEMMA FinishRunInv ==
  ASSUME IInv, NEW r \in RunIds, FinishRun(r)
  PROVE  RunInv(r)'
<1> DEFINE g == exec[r]
<1>1. /\ g.pc = "finish" /\ exec'[r].pc = "none"
      /\ UNCHANGED <<steps, journal, sent, lostWrites>>
  BY FinishEffects
<1>2. RunInv(r) /\ RunType /\ MaxSteps \in Nat
  BY TypeParts, ScriptAssumption DEF IInv
<1>3. Running(r) /\ g.at = Length(r) + 1 /\ Length(r) \in 1..MaxSteps
  BY <1>1, <1>2, ScriptFacts DEF RunInv, PlaceInv
<1>4. 1..Length(r) \subseteq Index /\ 1..(g.at - 1) = 1..Length(r)
  BY <1>2, <1>3 DEF Index
<1>5. runs'[r].macro = runs[r].macro /\ runs'[r].state \in {"running", "finished"}
  BY <1>3, FinishedRun DEF Running
<1>6. Length(r)' = Length(r) /\ \A i : Fpp(r, i)' <=> Fpp(r, i)
  BY <1>5 DEF Length, Fpp
<1>7. /\ \A i \in Index : Passed(r, i) => Passed(r, i)'
      /\ \A i \in Index, c \in SUBSET Terminal : Recorded(r, i, c) => Recorded(r, i, c)'
  BY <1>1, <1>5, Kept
<1>8. runs'[r].state = "finished" =>
       /\ runs'[r].completed => \A i \in 1..Length(r) :
            Recorded(r, i, {"confirmed", "unconfirmed", "unconfirmable"})'
       /\ runs'[r].confirmed => \A i \in 1..Length(r) : Recorded(r, i, {"confirmed"})'
       /\ runs'[r].restarted => ~runs'[r].completed
       /\ runs'[r].restarted /\ runs'[r].confirmed => RestartedConfirmed(r)'
  <2> SUFFICES ASSUME runs'[r].state = "finished"
               PROVE  /\ runs'[r].completed => \A i \in 1..Length(r) :
                           Recorded(r, i, {"confirmed", "unconfirmed", "unconfirmable"})'
                      /\ runs'[r].confirmed => \A i \in 1..Length(r) :
                           Recorded(r, i, {"confirmed"})'
                      /\ runs'[r].restarted => ~runs'[r].completed
                      /\ runs'[r].restarted /\ runs'[r].confirmed => RestartedConfirmed(r)'
    OBVIOUS
  <2>1. runs' # runs
    BY <1>3 DEF Running
  <2>2. /\ runs'[r].completed = g.completed /\ runs'[r].confirmed = g.confirmed
        /\ runs'[r].restarted = FALSE
    BY <2>1, FinishedRun
  <2>3. g.completed => \A i \in 1..Length(r) :
          Recorded(r, i, {"confirmed", "unconfirmed", "unconfirmable"})
    BY <1>1, <1>2, <1>4 DEF RunInv, PastInv
  <2>4. g.confirmed => \A i \in 1..Length(r) : Recorded(r, i, {"confirmed"})
    BY <1>1, <1>2, <1>4 DEF RunInv, PastInv
  <2> QED
    BY <1>4, <1>7, <2>2, <2>3, <2>4, OutcomeSets
<1>9. PlaceInv(r)' /\ StepInv(r)' /\ PastInv(r)'
  BY <1>1, <1>5 DEF PlaceInv, StepInv, PastInv
<1>10. TableInv(r)'
  <2>1. \A j \in Index : 1..(j - 1) \subseteq Index
    BY <1>2 DEF Index
  <2>2. /\ \A i \in Index : sent'[<<r, i>>] <= 1
        /\ \A j \in Index : sent'[<<r, j>>] = 1 => \A i \in 1..(j - 1) : Passed(r, i)'
    BY <1>1, <1>2, <1>7, <2>1 DEF RunInv, TableInv
  <2>3. \A i \in 1..Length(r) : Fpp(r, i) =>
          /\ journal'[<<r, i>>] = "absent" => sent'[<<r, i>>] = 0
          /\ Agrees(r, i)'
    BY <1>1, <1>2, <1>3, <1>4 DEF RunInv, TableInv, Running, Agrees
  <2> QED
    BY <1>6, <1>8, <2>2, <2>3 DEF TableInv
<1> QED
  BY <1>9, <1>10 DEF RunInv

\* A run begins with nothing recorded of it.
LEMMA BeginRun ==
  ASSUME IInv, NEW r \in RunIds, NEW n \in Run, NEW h \in Goroutine, Begun(r, n, h),
         UNCHANGED <<steps, journal, sent, lostWrites>>
  PROVE  RunInv(r)'
<1>1. RunInv(r) /\ RunType /\ ExecType /\ RunType' /\ MaxSteps \in Nat
  <2>1. RunType /\ ExecType /\ RunInv(r)
    BY TypeParts DEF IInv
  <2> QED
    BY <2>1, ScriptAssumption DEF Begun, RunType
<1>2. runs'[r] = n /\ exec'[r] = h /\ n.state = "running" /\ h.pc = "step" /\ h.at = 1
  BY <1>1 DEF Begun, RunType, ExecType
<1>3. \A i \in Index : Untouched(r, i)
  BY <1>1 DEF Begun, RunInv, PlaceInv
<1>4. \A i \in Index : Untouched(r, i)'
  BY <1>3 DEF Untouched
<1>5. Length(r)' \in 1..MaxSteps
  <2>1. runs'[r].macro \in Macros
    BY <1>1 DEF RunType, Run
  <2> QED
    BY <2>1, ScriptAssumption DEF Length
<1>6. 1 \in Index /\ 1..Length(r)' \subseteq Index /\ 1..(1 - 1) = {}
  BY <1>1, <1>5 DEF Index
<1>7. PlaceInv(r)'
  BY <1>2, <1>4, <1>5, <1>6 DEF PlaceInv, Running
<1>8. StepInv(r)' /\ PastInv(r)'
  BY <1>2, <1>6 DEF StepInv, PastInv
<1>9. TableInv(r)'
  <2>1. \A i \in Index : sent'[<<r, i>>] = 0 /\ journal'[<<r, i>>] = "absent"
                         /\ steps'[<<r, i>>] = "pending"
    BY <1>4 DEF Untouched
  <2> QED
    BY <1>2, <1>6, <2>1 DEF TableInv, Agrees
<1> QED
  BY <1>7, <1>8, <1>9 DEF RunInv

\* A run nobody executes: what has to be shown of it.
LEMMA IdleRun ==
  ASSUME NEW r \in RunIds, exec'[r].pc = "none",
         runs'[r].state = "absent" => \A i \in Index : Untouched(r, i)',
         TableInv(r)'
  PROVE  RunInv(r)'
BY DEF RunInv, PlaceInv, StepInv, PastInv

LEMMA CrashRun ==
  ASSUME IInv, NEW r \in RunIds, Crash
  PROVE  RunInv(r)'
<1>1. exec'[r].pc = "none" /\ UNCHANGED <<runs, steps, sent, journal, lostWrites>>
  BY CrashEffects, NoGoroutineType
<1>2. RunInv(r)
  BY DEF IInv
<1>3. TableInv(r)'
  BY <1>1, <1>2 DEF RunInv, TableInv, Passed, Recorded, Agrees, Fpp, Length,
      RestartedConfirmed
<1> QED
  BY <1>1, <1>2, <1>3, IdleRun DEF RunInv, PlaceInv, Untouched

\* The sweep settles a command some run has recorded.
LEMMA SweepRun ==
  ASSUME IInv, NEW r \in RunIds, NEW i \in Index, SweepCommand(<<r, i>>)
  PROVE  RunInv(r)'
<1> DEFINE k == <<r, i>>
<1>1. k \in StepKeys /\ RunInv(r) /\ TraceType /\ MaxSteps \in Nat
      /\ RunType /\ Length(r) \in 1..MaxSteps
  BY TypeParts, ScriptFacts, ScriptAssumption DEF IInv, StepKeys
<1>2. /\ journal[k] = "open" /\ UNCHANGED <<exec, runs, steps, sent, lostWrites>>
      /\ \E outcome \in {"confirmed", "unconfirmed"} :
           journal' = [journal EXCEPT ![k] = outcome]
  BY <1>1, SweepEffects
<1>3. exec'[r].pc = "none"
  BY <1>1, <1>2, SweepEffects DEF IInv, ProcessInv
<1>4. runs[r].state # "absent"
  BY <1>1, <1>2 DEF RunInv, PlaceInv, Untouched
<1>5. \A j \in Index : <<r, j>> \in StepKeys /\ (j # i => <<r, j>> # k)
  BY DEF StepKeys
<1>6. /\ \A j \in Index : j # i => journal'[<<r, j>>] = journal[<<r, j>>]
      /\ journal'[k] # "absent"
  BY <1>1, <1>2, <1>5 DEF TraceType
<1>7. /\ Length(r)' = Length(r) /\ (\A j : Fpp(r, j)' <=> Fpp(r, j))
      /\ (\A j : Passed(r, j)' <=> Passed(r, j))
      /\ \A j : Recorded(r, j, {"confirmed"})' <=> Recorded(r, j, {"confirmed"})
      /\ \A j : Recorded(r, j, {"confirmed", "unconfirmed", "unconfirmable"})'
                 <=> Recorded(r, j, {"confirmed", "unconfirmed", "unconfirmable"})
  BY <1>2 DEF Length, Fpp, Passed, Recorded
<1>8. 1..Length(r) \subseteq Index
  BY <1>1 DEF Index
<1>9. \A j \in 1..Length(r) : Fpp(r, j) =>
        /\ journal'[<<r, j>>] = "absent" => sent'[<<r, j>>] = 0
        /\ Agrees(r, j)'
  <2> SUFFICES ASSUME NEW j \in 1..Length(r), Fpp(r, j)
      PROVE  /\ journal'[<<r, j>>] = "absent" => sent'[<<r, j>>] = 0
             /\ Agrees(r, j)'
    OBVIOUS
  <2>1. /\ journal[<<r, j>>] = "absent" => sent[<<r, j>>] = 0
        /\ Agrees(r, j)
    BY <1>1, <1>4 DEF RunInv, TableInv
  <2>2. CASE j = i
    BY <1>2, <1>6, <2>1, <2>2 DEF Agrees
  <2>3. CASE j # i
    BY <1>2, <1>6, <1>8, <2>1, <2>3 DEF Agrees
  <2> QED
    BY <2>2, <2>3
<1>10. TableInv(r)'
  BY <1>1, <1>2, <1>7, <1>9 DEF RunInv, TableInv, RestartedConfirmed
<1> QED
  BY <1>2, <1>3, <1>4, <1>10, IdleRun

\* What the sweep leaves open stays so.
LEMMA ListRun ==
  ASSUME IInv, NEW r \in RunIds, ListRuns
  PROVE  RunInv(r)'
<1>1. /\ process = "sweeping" /\ UNCHANGED <<exec, runs, steps, sent, journal, lostWrites>>
  BY ListEffects
<1>2. exec'[r].pc = "none"
  BY <1>1 DEF IInv, ProcessInv
<1>3. RunInv(r)
  BY DEF IInv
<1>4. TableInv(r)'
  BY <1>1, <1>3 DEF RunInv, TableInv, Passed, Recorded, Agrees, Fpp, Length,
      RestartedConfirmed
<1> QED
  BY <1>1, <1>2, <1>3, <1>4, IdleRun DEF RunInv, PlaceInv, Untouched

\* A stranded step gets the outcome its traces tell.
LEMMA ReconcileStepRun ==
  ASSUME IInv, NEW r \in RunIds, ReconcileStep(r)
  PROVE  RunInv(r)'
<1>1. /\ process = "reconciling" /\ r \in toReconcile
      /\ UNCHANGED <<exec, runs, journal, sent, lostWrites>>
      /\ \/ UNCHANGED steps
         \/ \E i \in Pending(r) : steps' = [steps EXCEPT ![<<r, i>>] = StrandedOutcome(r, i)]
  BY ReconcileStepEffects
<1>2. exec'[r].pc = "none" /\ Running(r)
  BY <1>1 DEF IInv, ProcessInv
<1>3. RunInv(r) /\ RunType /\ TraceType /\ MaxSteps \in Nat /\ Length(r) \in 1..MaxSteps
  BY TypeParts, ScriptFacts, ScriptAssumption DEF IInv
<1>4. CASE UNCHANGED steps
  <2>1. TableInv(r)'
    BY <1>1, <1>3, <1>4 DEF RunInv, TableInv, Passed, Recorded, Agrees, Fpp, Length,
      RestartedConfirmed
  <2> QED
    BY <1>1, <1>2, <2>1, IdleRun DEF Running
<1>5. ASSUME NEW i \in Pending(r),
             steps' = [steps EXCEPT ![<<r, i>>] = StrandedOutcome(r, i)]
      PROVE  RunInv(r)'
  <2> DEFINE k == <<r, i>>
             o == StrandedOutcome(r, i)
  <2>1. k \in StepKeys /\ i \in Index /\ steps[k] = "pending"
    BY <1>3, StrandedType DEF Pending
  <2>2. Fpp(r, i) => /\ o = "skipped" => journal[k] = "absent"
                     /\ o = "confirmed" => journal[k] = "confirmed"
    BY <1>3, <2>1 DEF Fpp, StrandedOutcome, TraceType
  <2>3. \A j \in Index : <<r, j>> \in StepKeys /\ (j # i => <<r, j>> # k)
    BY DEF StepKeys
  <2>4. /\ \A j \in Index : j # i => steps'[<<r, j>>] = steps[<<r, j>>]
        /\ steps'[k] = o
    BY <1>3, <1>5, <2>1, <2>3 DEF TraceType
  <2> HIDE DEF o
  <2>5. \A j \in Index : Passed(r, j) => Passed(r, j)'
    <3>1. ASSUME NEW j \in Index, j # i, Passed(r, j) PROVE Passed(r, j)'
      BY <1>1, <2>4, <3>1, Kept
    <3>2. Passed(r, i) => k \in lostSteps
      BY <2>1 DEF Passed
    <3> QED
      BY <1>1, <3>1, <3>2 DEF Passed
  <2>6. \A j \in Index : j \in 1..MaxSteps /\ 1..(j - 1) \subseteq Index
    BY <1>3 DEF Index
  <2>7. /\ \A j \in Index : sent'[<<r, j>>] <= 1
        /\ \A j \in Index : sent'[<<r, j>>] = 1 => \A m \in 1..(j - 1) : Passed(r, m)'
    BY <1>1, <1>3, <2>5, <2>6 DEF RunInv, TableInv
  <2>8. \A j \in 1..Length(r) : Fpp(r, j) =>
          /\ journal'[<<r, j>>] = "absent" => sent'[<<r, j>>] = 0
          /\ Agrees(r, j)'
    <3> SUFFICES ASSUME NEW j \in 1..Length(r), Fpp(r, j)
        PROVE  /\ journal'[<<r, j>>] = "absent" => sent'[<<r, j>>] = 0
               /\ Agrees(r, j)'
      OBVIOUS
    <3>1. /\ journal[<<r, j>>] = "absent" => sent[<<r, j>>] = 0
          /\ Agrees(r, j)
      BY <1>2, <1>3 DEF RunInv, TableInv, Running
    <3>2. CASE j = i
      BY <1>1, <2>2, <2>4, <3>1, <3>2 DEF Agrees
    <3>3. CASE j # i
      <4>1. j \in Index
        BY <1>3 DEF Index
      <4> QED
        BY <1>1, <2>4, <3>1, <3>3, <4>1 DEF Agrees
    <3> QED
      BY <3>2, <3>3
  <2>9. /\ Length(r)' = Length(r) /\ (\A j : Fpp(r, j)' <=> Fpp(r, j))
        /\ runs'[r].state = "running"
    BY <1>1, <1>2 DEF Length, Fpp, Running
  <2>10. TableInv(r)'
    BY <2>7, <2>8, <2>9 DEF TableInv
  <2> QED
    BY <1>2, <2>9, <2>10, IdleRun
<1> QED
  BY <1>1, <1>4, <1>5

\* A run that a startup finishes was not completed.
LEMMA ReconcileRunRun ==
  ASSUME IInv, NEW r \in RunIds, ReconcileRun(r)
  PROVE  RunInv(r)'
<1>1. /\ process = "reconciling" /\ r \in toReconcile
      /\ UNCHANGED <<exec, steps, journal, sent, lostWrites>>
  BY ReconcileRunEffects
<1>2. exec'[r].pc = "none" /\ Running(r)
  BY <1>1 DEF IInv, ProcessInv
<1>3. RunInv(r) /\ MaxSteps \in Nat
  BY ScriptAssumption DEF IInv
<1>4. CASE UNCHANGED runs
  <2>1. TableInv(r)'
    BY <1>1, <1>3, <1>4 DEF RunInv, TableInv, Passed, Recorded, Agrees, Fpp, Length,
      RestartedConfirmed
  <2> QED
    BY <1>2, <1>4, <2>1, IdleRun DEF Running
<1>5. CASE ~UNCHANGED runs
  <2>1. /\ runs'[r].state = "finished" /\ runs'[r].macro = runs[r].macro
        /\ runs'[r].completed = FALSE /\ (runs'[r].confirmed => RestartedConfirmed(r))
    BY <1>5, ReconciledRun
  <2>2. Length(r)' = Length(r) /\ (\A j : Fpp(r, j)' <=> Fpp(r, j))
    BY <2>1 DEF Length, Fpp
  <2>3. \A j \in Index : Passed(r, j) => Passed(r, j)'
    BY <1>1, <2>1, Kept
  <2>4. \A j \in Index : 1..(j - 1) \subseteq Index
    BY <1>3 DEF Index
  <2>5. /\ \A j \in Index : sent'[<<r, j>>] <= 1
        /\ \A j \in Index : sent'[<<r, j>>] = 1 => \A m \in 1..(j - 1) : Passed(r, m)'
    BY <1>1, <1>3, <2>3, <2>4 DEF RunInv, TableInv
  <2>6. runs'[r].confirmed =>
          RestartedConfirmed(r)' /\ \A i \in 1..Length(r) : Recorded(r, i, {"confirmed"})'
    BY <1>1, <2>1, <2>2 DEF RestartedConfirmed, Recorded
  <2>7. \A j \in 1..Length(r) : Fpp(r, j) =>
          /\ journal'[<<r, j>>] = "absent" => sent'[<<r, j>>] = 0
          /\ Agrees(r, j)'
    BY <1>1, <1>2, <1>3, <1>4 DEF RunInv, TableInv, Running, Agrees
  <2>8. TableInv(r)'
    BY <2>1, <2>2, <2>5, <2>6, <2>7 DEF TableInv
  <2> QED
    BY <1>2, <2>1, <2>8, IdleRun
<1> QED
  BY <1>4, <1>5

\* Runs an action is not about.
LEMMA Others ==
  ASSUME IInv, NEW r \in RunIds, NEW s \in RunIds, s # r,
         Execute(r) \/ ReconcileStep(r) \/ ReconcileRun(r)
  PROVE  Frame(s)
<1>1. \A i, j \in Index : <<s, i>> \in StepKeys /\ <<s, i>> # <<r, j>>
  BY DEF StepKeys
<1>2. ExecType /\ TraceType /\ RunType
  BY TypeParts DEF IInv
<1>3. ASSUME NEW k \in StepKeys, \A i \in Index : <<s, i>> # k, NEW o, Written(k, o),
             runs'[s] = runs[s], exec'[s] = exec[s], UNCHANGED <<journal, sent, lostCommands>>
      PROVE  Frame(s)
  BY <1>1, <1>2, <1>3 DEF Frame, Written, TraceType
<1>4. ASSUME exec[r].pc \notin {"none", "finish"}
      PROVE  CurrentKey(r) \in StepKeys /\ \A i \in Index : <<s, i>> # CurrentKey(r)
  BY <1>1, <1>4, Standing DEF CurrentKey
<1>5. ASSUME NEW g \in Goroutine, Continue(r, g) PROVE exec'[s] = exec[s]
  BY <1>2, <1>5, Continuing
<1>6. CASE RecordStep(r)
  BY <1>1, <1>2, <1>4, <1>5, <1>6, RecordEffects DEF Frame, TraceType
<1>7. CASE SendStep(r)
  BY <1>1, <1>2, <1>4, <1>5, <1>7, SendEffects DEF Frame, TraceType
<1>8. CASE AwaitStep(r)
  BY <1>1, <1>2, <1>4, <1>5, <1>8, AwaitEffects DEF Frame, TraceType
<1>9. CASE PersistStep(r)
  BY <1>3, <1>4, <1>5, <1>9, PersistEffects, PersistedRun
<1>10. CASE SkipStep(r)
  BY <1>3, <1>4, <1>5, <1>10, SkipEffects
<1>11. CASE FinishRun(r)
  BY <1>5, <1>11, FinishEffects, FinishedRun DEF Frame
<1>12. CASE ReconcileStep(r)
  <2>1. ASSUME NEW i \in Pending(r) PROVE i \in Index /\ <<r, i>> \in StepKeys
    BY <1>2, <2>1, StrandedType
  <2> QED
    BY <1>1, <1>2, <1>12, <2>1, ReconcileStepEffects DEF Frame, TraceType
<1>13. CASE ReconcileRun(r)
  BY <1>13, ReconcileRunEffects, ReconciledRun DEF Frame
<1> QED
  BY <1>6, <1>7, <1>8, <1>9, <1>10, <1>11, <1>12, <1>13 DEF Execute

LEMMA RunStep == IInv /\ [Next]_vars => \A r \in RunIds : RunInv(r)'
<1> SUFFICES ASSUME IInv, [Next]_vars, NEW r \in RunIds
             PROVE  RunInv(r)'
  OBVIOUS
<1>1. CASE UNCHANGED view
  BY <1>1, FrameStep DEF view, Frame
<1>2. ASSUME NEW c \in Submitters,
             Submit(c) \/ CreateRun(c) \/ CreateDegradedRun(c) \/ Withdraw(c)
      PROVE  RunInv(r)'
  <2>1. ASSUME NEW s \in RunIds, NEW n \in Run, NEW h \in Goroutine, Begun(s, n, h),
               UNCHANGED <<steps, journal, sent, lostWrites>>
        PROVE  RunInv(r)'
    <3>1. CASE s = r
      BY <2>1, <3>1, BeginRun
    <3>2. CASE s # r
      <4>1. Frame(r)
        BY <2>1, <3>2 DEF Begun, Frame
      <4> QED
        BY <4>1, FrameStep
    <3> QED
      BY <3>1, <3>2
  <2> QED
    BY <1>1, <1>2, <2>1, Bystanders, Creating
<1>3. ASSUME NEW s \in RunIds, Execute(s) PROVE RunInv(r)'
  <2>1. CASE s = r
    BY <1>3, <2>1, RecordRun, SendRun, AwaitRun, PersistRun, SkipRun, FinishRunInv DEF Execute
  <2>2. CASE s # r
    BY <1>3, <2>2, Others, FrameStep
  <2> QED
    BY <2>1, <2>2
<1>4. CASE Crash
  BY <1>4, CrashRun
<1>5. ASSUME NEW k \in StepKeys, SweepCommand(k) PROVE RunInv(r)'
  <2>1. PICK s \in RunIds, i \in Index : k = <<s, i>>
    BY DEF StepKeys
  <2>2. CASE s = r
    BY <1>5, <2>1, <2>2, SweepRun
  <2>3. CASE s # r
    <3>1. \A j \in Index : <<r, j>> \in StepKeys /\ <<r, j>> # k
      BY <2>1, <2>3 DEF StepKeys
    <3>2. TraceType
      BY TypeParts DEF IInv
    <3>3. Frame(r)
      BY <1>5, <3>1, <3>2, SweepEffects DEF Frame, TraceType
    <3> QED
      BY <3>3, FrameStep
  <2> QED
    BY <2>2, <2>3
<1>6. CASE ListRuns
  BY <1>6, ListRun
<1>7. ASSUME NEW s \in RunIds, ReconcileStep(s) \/ ReconcileRun(s) PROVE RunInv(r)'
  <2>1. CASE s = r
    BY <1>7, <2>1, ReconcileStepRun, ReconcileRunRun
  <2>2. CASE s # r
    BY <1>7, <2>2, Others, FrameStep
  <2> QED
    BY <2>1, <2>2
<1>8. CASE Restart \/ Listen \/ UNCHANGED vars
  BY <1>1, <1>8, Bystanders
<1> QED
  BY <1>2, <1>3, <1>4, <1>5, <1>6, <1>7, <1>8 DEF Next, Startup

LEMMA Initially == Init => IInv
<1> SUFFICES ASSUME Init PROVE IInv
  OBVIOUS
<1> USE DEF Init
<1>1. TypeOK
  <2>1. ControlType /\ TraceType
    BY BoundsAssumption DEF ControlType, TraceType
  <2>2. CallType /\ RunType /\ ExecType
    BY NoCallType, NoRunType, NoGoroutineType DEF CallType, RunType, ExecType
  <2> QED
    BY <2>1, <2>2, TypeParts
<1>2. \A r \in RunIds : runs[r].state = "absent" /\ exec[r].pc = "none"
  BY NoRunType, NoGoroutineType
<1>3. RunsDoNotCollide
  BY <1>2 DEF RunsDoNotCollide, Running
<1>4. ProcessInv
  BY <1>2 DEF ProcessInv
<1>5. ASSUME NEW r \in RunIds PROVE RunInv(r)
  <2>1. \A i \in Index : Untouched(r, i)
    BY DEF Untouched, StepKeys
  <2>2. PlaceInv(r) /\ StepInv(r) /\ PastInv(r)
    BY <1>2, <2>1 DEF PlaceInv, StepInv, PastInv
  <2>3. TableInv(r)
    BY <1>2, <2>1 DEF TableInv, Untouched
  <2> QED
    BY <2>2, <2>3 DEF RunInv
<1> QED
  BY <1>1, <1>3, <1>4, <1>5 DEF IInv

-----------------------------------------------------------------------------
\* The inductive invariant of the macro executor.
THEOREM Invariance == Spec => []IInv
<1>1. IInv /\ [Next]_vars => IInv'
  BY TypeStep, CollideStep, ProcessStep, RunStep DEF IInv
<1> QED
  BY <1>1, Initially, PTL DEF Spec

\* The tables and the goroutines keep to their types, and the bounds of the
\* faults are kept.
THEOREM TypeCorrect == Spec => []TypeOK
<1>1. IInv => TypeOK
  BY DEF IInv
<1> QED
  BY <1>1, Invariance, PTL

\* createMacroRun never lets two runs of one macro, or of one idempotency key, in,
\* whichever of its two paths they take.
THEOREM RunsAreApart == Spec => []RunsDoNotCollide
<1>1. IInv => RunsDoNotCollide
  BY DEF IInv
<1> QED
  BY <1>1, Invariance, PTL

\* executeRun sends no step before the earlier ones have an outcome, nor past one
\* whose policy aborts the run.
THEOREM StepsAreOrdered == Spec => []StepsRunInOrder
<1>1. IInv => StepsRunInOrder
  <2> SUFFICES ASSUME IInv, NEW r \in RunIds, NEW j \in Index, sent[<<r, j>>] > 0,
                      NEW i \in 1..(j - 1), <<r, i>> \notin lostSteps
               PROVE  /\ steps[<<r, i>>] # "pending"
                      /\ ~Aborts(Script[runs[r].macro][i], steps[<<r, i>>])
    BY DEF StepsRunInOrder, Aborts
  <2>1. sent[<<r, j>>] \in Nat /\ sent[<<r, j>>] <= 1
    BY TypeParts DEF IInv, TraceType, StepKeys, RunInv, TableInv
  <2>2. sent[<<r, j>>] = 1
    BY <2>1
  <2>3. Passed(r, i)
    BY <2>2 DEF IInv, RunInv, TableInv
  <2> QED
    BY <2>3 DEF Passed
<1> QED
  BY <1>1, Invariance, PTL

\* What FinishMacroRun records of a run, live or after a restart, follows from what
\* its steps have recorded.
THEOREM FinishedRunsTellTheTruth == Spec => []FinishedRunTellsTheTruth
<1>1. IInv => FinishedRunTellsTheTruth
  <2> SUFFICES ASSUME IInv, NEW r \in RunIds, runs[r].state = "finished"
               PROVE  LET Silent(k) ==
                            k \in lostSteps /\ steps[k] = "pending" /\ ~runs[r].restarted
                          said == {steps[k] : k \in {j \in {r} \X (1..Length(r)) : ~Silent(j)}}
                      IN /\ runs[r].completed => said \cap {"failed", "skipped", "pending"} = {}
                         /\ runs[r].confirmed => said \subseteq {"confirmed"}
                         /\ runs[r].restarted => ~runs[r].completed
    BY DEF FinishedRunTellsTheTruth
  <2> DEFINE Silent(k) == k \in lostSteps /\ steps[k] = "pending" /\ ~runs[r].restarted
             said == {steps[k] : k \in {j \in {r} \X (1..Length(r)) : ~Silent(j)}}
  <2>1. /\ runs[r].completed => \A i \in 1..Length(r) :
             Recorded(r, i, {"confirmed", "unconfirmed", "unconfirmable"})
        /\ runs[r].confirmed => \A i \in 1..Length(r) : Recorded(r, i, {"confirmed"})
        /\ runs[r].restarted => ~runs[r].completed
        /\ runs[r].restarted /\ runs[r].confirmed => RestartedConfirmed(r)
    BY DEF IInv, RunInv, TableInv
  <2>2. \A o \in said : \E i \in 1..Length(r) : ~Silent(<<r, i>>) /\ o = steps[<<r, i>>]
    OBVIOUS
  <2> HIDE DEF said
  <2> QED
    BY <2>1, <2>2 DEF Recorded, RestartedConfirmed
<1> QED
  BY <1>1, Invariance, PTL

\* The row of an FPP step and its command agree, also when resolveStrandedFPPStep
\* derives one from the other.
THEOREM FppStepsAgree == Spec => []FppStepAgreesWithJournal
<1>1. IInv => FppStepAgreesWithJournal
  <2>1. ASSUME IInv, NEW r \in RunIds, runs[r].state # "absent", NEW i \in 1..Length(r), Fpp(r, i)
        PROVE  Agrees(r, i) /\ (journal[<<r, i>>] = "absent" => sent[<<r, i>>] = 0)
    BY <2>1 DEF IInv, RunInv, TableInv
  <2> QED
    BY <2>1 DEF FppStepAgreesWithJournal, Agrees, Fpp
<1> QED
  BY <1>1, Invariance, PTL

-----------------------------------------------------------------------------
\* Each step of the executor, of a crash or of the startup is a step of
\* CommandPromise or leaves the commands of FPP steps as they were.
LEMMA PromiseStep == IInv /\ [Next]_vars => [Promise!Next]_(Promise!promiseVars)
<1> SUFFICES ASSUME IInv, [Next]_vars
             PROVE  [Promise!Next]_(Promise!promiseVars)
  OBVIOUS
<1> DEFINE attempts == [k \in StepKeys |-> IF journal[k] = "absent" THEN 0 ELSE sent[k]]
<1>0. TraceType /\ \A r \in RunIds, i \in Index : <<r, i>> \in StepKeys /\ sent[<<r, i>>] <= 1
  BY TypeParts DEF IInv, RunInv, TableInv, StepKeys
<1>1. CASE UNCHANGED <<journal, sent>>
  BY <1>1 DEF Promise!promiseVars
<1>2. ASSUME NEW k \in StepKeys, NEW o \in {"open", "confirmed", "unconfirmed"},
             journal[k] # "absent" \/ sent[k] = 0,
             journal' = [journal EXCEPT ![k] = o], UNCHANGED sent
      PROVE  UNCHANGED attempts
  BY <1>0, <1>2 DEF TraceType
<1>3. ASSUME NEW k \in StepKeys, NEW o \in {"confirmed", "unconfirmed"},
             journal[k] = "open", o = "confirmed" => sent[k] = 1,
             journal' = [journal EXCEPT ![k] = o], UNCHANGED sent
      PROVE  Promise!Next
  <2>1. UNCHANGED attempts
    BY <1>2, <1>3
  <2>2. o = "confirmed" => attempts[k] = 1
    BY <1>3
  <2> QED
    BY <1>3, <2>1, <2>2 DEF Promise!Next, Promise!Settle, Promise!Outcomes
<1>4. ASSUME NEW r \in RunIds, RecordStep(r)
      PROVE  [Promise!Next]_(Promise!promiseVars)
  <2> DEFINE k == CurrentKey(r)
  <2>1. /\ exec[r].pc = "step" /\ UNCHANGED sent
        /\ journal' = journal \/ journal' = [journal EXCEPT ![k] = "open"]
    BY <1>4, RecordEffects
  <2>2. k \in StepKeys
    BY <2>1, Standing
  <2>3. journal[k] = "absent" /\ sent[k] = 0
    BY <2>1 DEF IInv, RunInv, PlaceInv, Untouched, CurrentKey
  <2> HIDE DEF k
  <2>4. CASE journal' = [journal EXCEPT ![k] = "open"]
    <3>1. UNCHANGED attempts
      BY <1>2, <2>1, <2>2, <2>3, <2>4
    <3> QED
      BY <2>2, <2>3, <2>4, <3>1 DEF Promise!Next, Promise!Record
  <2> QED
    BY <1>1, <2>1, <2>4
<1>5. ASSUME NEW r \in RunIds, SendStep(r)
      PROVE  [Promise!Next]_(Promise!promiseVars)
  <2> DEFINE k == CurrentKey(r)
  <2>1. /\ exec[r].pc = "send" /\ UNCHANGED journal
        /\ sent' = sent \/ sent' = [sent EXCEPT ![k] = @ + 1]
    BY <1>5, SendEffects
  <2>2. k \in StepKeys
    BY <2>1, Standing
  <2>3. journal[k] \in {"open", "absent"} /\ sent[k] = 0
    BY <2>1 DEF IInv, RunInv, StepInv, CurrentKey
  <2> HIDE DEF k
  <2>4. CASE sent' = [sent EXCEPT ![k] = @ + 1] /\ journal[k] = "open"
    <3>1. attempts' = [attempts EXCEPT ![k] = 1] /\ attempts[k] = 0
      <4>1. sent' = [sent EXCEPT ![k] = 1]
        BY <2>3, <2>4
      <4>2. sent'[k] = 1 /\ \A j \in StepKeys : j # k => sent'[j] = sent[j]
        BY <1>0, <2>2, <4>1 DEF TraceType
      <4>3. attempts[k] = 0
        BY <2>2, <2>3
      <4>4. attempts' = [j \in StepKeys |-> IF j = k THEN 1 ELSE attempts[j]]
        BY <2>1, <2>2, <2>4, <4>2
      <4> QED
        BY <4>3, <4>4
    <3> QED
      BY <2>1, <2>2, <2>4, <3>1 DEF Promise!Next, Promise!Attempt
  <2>5. CASE sent' = [sent EXCEPT ![k] = @ + 1] /\ journal[k] = "absent"
    <3>1. UNCHANGED attempts
      BY <1>0, <2>1, <2>2, <2>5 DEF TraceType
    <3> QED
      BY <2>1, <3>1 DEF Promise!promiseVars
  <2> QED
    BY <1>1, <2>1, <2>3, <2>4, <2>5
<1>6. ASSUME NEW r \in RunIds, AwaitStep(r)
      PROVE  [Promise!Next]_(Promise!promiseVars)
  <2> DEFINE k == CurrentKey(r)
             h == exec'[r]
             verdict == IF h.outcome = "confirmed" THEN "confirmed" ELSE "unconfirmed"
  <2>1. /\ exec[r].pc = "await" /\ UNCHANGED sent
        /\ h.outcome = "confirmed" => exec[r].reply = "ok"
        /\ \/ UNCHANGED journal
           \/ CurrentStep(r).integration = "fpp" /\ journal' = [journal EXCEPT ![k] = verdict]
    BY <1>6, AwaitEffects
  <2>2. k \in StepKeys
    BY <2>1, Standing
  <2>3. /\ CurrentStep(r).integration = "fpp" => journal[k] = "open"
        /\ exec[r].reply # "notSent" => sent[k] = 1
    BY <2>1 DEF IInv, RunInv, StepInv, CurrentKey, CurrentStep, Fpp
  <2>4. verdict \in {"confirmed", "unconfirmed"} /\ (verdict = "confirmed" => sent[k] = 1)
    BY <2>1, <2>3
  <2> HIDE DEF k, verdict
  <2> QED
    BY <1>1, <1>3, <2>1, <2>2, <2>3, <2>4
<1>7. ASSUME NEW k \in StepKeys, SweepCommand(k)
      PROVE  [Promise!Next]_(Promise!promiseVars)
  <2>1. /\ journal[k] = "open" /\ UNCHANGED sent
        /\ \E o \in Verdicts(k) : journal' = [journal EXCEPT ![k] = o]
    BY <1>7 DEF SweepCommand, OpenCommands
  <2>2. \A o \in Verdicts(k) :
          o \in {"confirmed", "unconfirmed"} /\ (o = "confirmed" => sent[k] = 1)
    BY <1>0 DEF Verdicts, TraceType, StepKeys
  <2> QED
    BY <1>3, <2>1, <2>2
<1>8. ASSUME \/ \E c \in Submitters :
                  Submit(c) \/ CreateRun(c) \/ CreateDegradedRun(c) \/ Withdraw(c)
             \/ \E r \in RunIds : \/ PersistStep(r) \/ SkipStep(r) \/ FinishRun(r)
                                  \/ ReconcileStep(r) \/ ReconcileRun(r)
             \/ Crash \/ Restart \/ ListRuns \/ Listen \/ UNCHANGED vars
      PROVE  UNCHANGED <<journal, sent>>
  BY <1>8, Bystanders, Creating, PersistEffects, SkipEffects, FinishEffects, CrashEffects,
     ListEffects, ReconcileStepEffects, ReconcileRunEffects DEF view
<1> QED
  BY <1>1, <1>4, <1>5, <1>6, <1>7, <1>8 DEF Next, Execute, Startup

\* The executor, its crashes and its startup keep the promise of CommandPromise
\* for the commands of their FPP steps.
THEOREM KeepsPromise == Spec => FppStepsKeepPromise
<1>1. Init => Promise!Init
  BY DEF Init, Promise!Init
<1> QED
  BY <1>1, Invariance, PromiseStep, PTL DEF Spec, FppStepsKeepPromise, Promise!Spec
=============================================================================
