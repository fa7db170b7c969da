--------------------------- MODULE WeatherControl ---------------------------
(***************************************************************************)
(* A weather delay inside the coordinator: the questions that warnings     *)
(* raise (internal/coordinator/api/weatherdelaytrigger.go and              *)
(* weatherdelaytriggerloop.go), the starts and resumes that follow from    *)
(* them (weatherdelay.go), and the enforcer that keeps the players' gates  *)
(* closed meanwhile (weatherdelayenforce.go).                              *)
(*                                                                         *)
(* Warnings, answers, deadlines, starts and resumes are requests that run  *)
(* side by side; the enforcer looks at every player on a clock of its own. *)
(* A lock per player serializes the writes of its gate.  Its holder, when  *)
(* it is the enforcer, has looked at the state under it.                   *)
(*                                                                         *)
(* Left out: what goes to the nodes (WeatherDelay), Stop Now, power        *)
(* groups, reads of the store that fail, restarts.                         *)
(***************************************************************************)
EXTENDS WeatherState

CONSTANTS
  Players,      \* FPP instances whose plugin has a gate
  Questions,    \* identities of questions
  None,         \* no question
  MaxFailures   \* bound: gate writes that fail

ASSUME NoneAssumption == None \notin Questions
ASSUME FailuresAssumption == MaxFailures \in Nat

VARIABLES
  pending,     \* the one question that is waiting for an answer
  asked,       \* questions that were stored once: identities are not used again
  suppressed,  \* the warning was dismissed a short time ago
  gate,        \* gate[p]: what the plugin holds
  enforce,     \* enforce[p]: where the enforcer stands with p
  settled,     \* history: settled[q], how often q was answered, in any way
  dropped,     \* history: the last delay ended though no resume was stored
  failures

questionVars == <<pending, asked, suppressed, settled>>
gateVars == <<gate, enforce>>
vars == <<keeper, pending, asked, suppressed, call, gate, enforce, settled,
          dropped, requests, failures>>

Answers == Kinds \cup {"dismiss", "expired"}

\* question: the one it is about, found: the one it found pending.
Idle == [step |-> "idle", op |-> "none", question |-> None, found |-> None,
         answer |-> "dismiss", state |-> NotActive(0, 0), reaffirm |-> FALSE, gates |-> {}]

TypeOK ==
  /\ keeper \in [stored : States, unsaved : States]
  /\ pending \in asked \cup {None} /\ asked \subseteq Questions
  /\ suppressed \in BOOLEAN
  /\ call \in [Calls -> [step : {"idle", "asking", "claiming", "reading", "writing", "gating"},
                         op : {"none", "warning", "answer", "deadline", "start", "resume"},
                         question : Questions \cup {None},
                         found : Questions \cup {None},
                         answer : Answers,
                         state : States,
                         reaffirm : BOOLEAN,
                         gates : SUBSET Players]]
  /\ gate \in [Players -> {"open", "closed"}]
  /\ enforce \in [Players -> {"idle", "waiting", "writing"}]
  /\ settled \in [Questions -> 0..MaxRequests]
  /\ dropped \in BOOLEAN
  /\ requests \in 0..MaxRequests /\ failures \in 0..MaxFailures

Init ==
  /\ keeper = NewKeeper
  /\ pending = None /\ asked = {} /\ suppressed = FALSE
  /\ call = [c \in Calls |-> Idle]
  /\ gate = [p \in Players |-> "open"]
  /\ enforce = [p \in Players |-> "idle"]
  /\ settled = [q \in Questions |-> 0]
  /\ dropped = FALSE /\ requests = 0 /\ failures = 0

Request(c, request) ==
  /\ At(c, "idle")
  /\ requests < MaxRequests /\ requests' = requests + 1
  /\ call' = [call EXCEPT ![c] = request]
  /\ UNCHANGED <<keeper, dropped, questionVars, gateVars, failures>>

-----------------------------------------------------------------------------
(***************************************************************************)
(* Requests.  Each reads what it needs to be accepted, and is under way.   *)
(***************************************************************************)

\* weatherDelayReceiveTrigger: a warning asks unless it is suppressed, a delay
\* is active that it does not suggest to cancel, or a question is pending.
Warning(c, q, suggestCancel) ==
  /\ q \notin asked \cup {call[d].question : d \in Calls}
  /\ ~suppressed
  /\ IsActive(Current(keeper)) => suggestCancel
  /\ pending = None
  /\ Request(c, [Idle EXCEPT !.step = "asking", !.op = "warning", !.question = q])

\* handleWeatherDelayDecision: an operator answers q.  A question that has
\* gone stale is settled without running the answer.
Answer(c, q, answer) ==
  /\ q \in asked
  /\ Request(c, [Idle EXCEPT !.step = "claiming", !.op = "answer", !.question = q,
                             !.found = pending, !.answer = answer])

\* reconcileDeadline: the default of the pending question, or none if it is stale.
Deadline(c, answer) ==
  /\ pending # None
  /\ \A d \in Calls : call[d].op # "deadline"
  /\ Request(c, [Idle EXCEPT !.step = "claiming", !.op = "deadline", !.question = pending,
                             !.found = pending, !.answer = answer])

Start(c, kind) ==
  Request(c, [Idle EXCEPT !.step = "reading", !.op = "start", !.answer = kind])

\* A resume begins by dismissing the question that is pending.
Resume(c) ==
  Request(c, [Idle EXCEPT !.step = IF pending = None THEN "reading" ELSE "claiming",
                          !.op = "resume", !.question = pending, !.found = pending])

-----------------------------------------------------------------------------
(***************************************************************************)
(* Questions.                                                              *)
(***************************************************************************)

\* Mutation of Ask: a question replaces the one that is pending.
AskOver(c) ==
  /\ At(c, "asking")
  /\ pending' = call[c].question
  /\ asked' = asked \cup {call[c].question}
  /\ call' = [call EXCEPT ![c] = Idle]
  /\ UNCHANGED <<keeper, dropped, suppressed, settled, gateVars, requests, failures>>

\* The row is inserted only when there is none.
Ask(c) ==
  /\ At(c, "asking")
  /\ IF pending = None
       THEN pending' = call[c].question /\ asked' = asked \cup {call[c].question}
       ELSE UNCHANGED <<pending, asked>>
  /\ call' = [call EXCEPT ![c] = Idle]
  /\ UNCHANGED <<keeper, dropped, suppressed, settled, gateVars, requests, failures>>

\* Mutation of Claims: whatever was found is cleared and counts as claimed.
ClaimsFound(c) == call[c].found # None

\* The row is deleted by the identity it was found with: one request claims it.
Claims(c) == call[c].found # None /\ call[c].found = pending

Starts(c) == call[c].op # "resume" /\ call[c].answer \in Kinds

\* weatherDelayResolveDecision: the found question is settled if this request
\* claims it, whichever question the request is about.  A dismissal keeps the
\* warning quiet for a while, a resume's too.
Claim(c) ==
  /\ At(c, "claiming")
  /\ IF Claims(c)
       THEN /\ pending' = None
            /\ settled' = [settled EXCEPT ![call[c].found] = @ + 1]
            /\ suppressed' = (suppressed \/ call[c].answer = "dismiss")
       ELSE UNCHANGED <<pending, settled, suppressed>>
  /\ call' = [call EXCEPT ![c] =
                IF call[c].op = "resume" \/ (Claims(c) /\ Starts(c))
                  THEN [@ EXCEPT !.step = "reading"] ELSE Idle]
  /\ UNCHANGED <<keeper, dropped, asked, gateVars, requests, failures>>

\* The quiet period ends.
Unsuppress ==
  /\ suppressed /\ suppressed' = FALSE
  /\ UNCHANGED <<keeper, dropped, pending, asked, settled, call, gateVars, requests, failures>>

-----------------------------------------------------------------------------
(***************************************************************************)
(* The state, then the gates.                                              *)
(***************************************************************************)
Read(c) ==
  LET current == Current(keeper)
      op == call[c].op
  IN
  /\ At(c, "reading")
  /\ call' = [call EXCEPT ![c].step = "writing",
                          ![c].state = IF op = "resume" THEN Resumed(current)
                                         ELSE Entered(current, call[c].answer, current.rev + 1),
                          ![c].reaffirm = op # "resume" /\ Reaffirms(current, call[c].answer)]
  /\ UNCHANGED <<keeper, dropped, questionVars, gateVars, requests, failures>>

\* A start goes on whether or not the row took its state; a resume does not.
Write(c) ==
  LET state == call[c].state
      stored == Stores(keeper, state, TRUE)
  IN
  /\ At(c, "writing")
  /\ keeper' = IF call[c].reaffirm THEN SaveUnsaved(keeper, TRUE) ELSE Set(keeper, state, TRUE)
  /\ dropped' = IF IsActive(Current(keeper)) /\ ~IsActive(Current(keeper')) THEN ~stored
                 ELSE dropped
  /\ call' = [call EXCEPT ![c] =
                IF IsActive(state) \/ stored THEN [@ EXCEPT !.step = "gating", !.gates = Players]
                  ELSE Idle]
  /\ UNCHANGED <<questionVars, gateVars, requests, failures>>

\* The republish loop tries again what the store did not take.
Save ==
  /\ IsActive(keeper.unsaved)
  /\ keeper' = SaveUnsaved(keeper, TRUE)
  /\ UNCHANGED <<dropped, questionVars, call, gateVars, requests, failures>>

Locked(p) == enforce[p] = "writing"

\* The plugin applies every write; a player that cannot be reached gets none.
WriteGate(p, position, ok) ==
  IF ok THEN gate' = [gate EXCEPT ![p] = position] /\ UNCHANGED failures
    ELSE failures < MaxFailures /\ failures' = failures + 1 /\ UNCHANGED gate

\* weatherDelaySetOneGate, the players side by side, each under its lock.
SetGate(c, p, ok) ==
  /\ At(c, "gating") /\ p \in call[c].gates
  /\ ~Locked(p)
  /\ WriteGate(p, IF IsActive(call[c].state) THEN "closed" ELSE "open", ok)
  /\ call' = [call EXCEPT ![c] =
                IF call[c].gates = {p} THEN Idle
                  ELSE [@ EXCEPT !.gates = call[c].gates \ {p}]]
  /\ UNCHANGED <<keeper, dropped, questionVars, enforce, requests>>

-----------------------------------------------------------------------------
(***************************************************************************)
(* The enforcer's pass over a player.                                      *)
(***************************************************************************)

\* Mutation of Look: an open gate is closed only while a request is still
\* writing gates.
LookWhileGating(p) ==
  /\ enforce[p] = "idle"
  /\ IsActive(Current(keeper)) /\ gate[p] = "open"
  /\ \E c \in Calls : At(c, "gating")
  /\ enforce' = [enforce EXCEPT ![p] = "waiting"]
  /\ UNCHANGED <<keeper, dropped, questionVars, call, gate, requests, failures>>

\* A delay is active and the gate, read at the player, is open.
Look(p) ==
  /\ enforce[p] = "idle"
  /\ IsActive(Current(keeper)) /\ gate[p] = "open"
  /\ enforce' = [enforce EXCEPT ![p] = "waiting"]
  /\ UNCHANGED <<keeper, dropped, questionVars, call, gate, requests, failures>>

\* Mutation of LookAgain: the state is not looked at again under the lock.
LookOnce(p) ==
  /\ enforce[p] = "waiting"
  /\ enforce' = [enforce EXCEPT ![p] = "writing"]
  /\ UNCHANGED <<keeper, dropped, questionVars, call, gate, requests, failures>>

\* Under the lock the state is looked at again.
LookAgain(p) ==
  /\ enforce[p] = "waiting"
  /\ enforce' = [enforce EXCEPT ![p] = IF IsActive(Current(keeper)) THEN "writing" ELSE "idle"]
  /\ UNCHANGED <<keeper, dropped, questionVars, call, gate, requests, failures>>

Close(p, ok) ==
  /\ enforce[p] = "writing"
  /\ WriteGate(p, "closed", ok)
  /\ enforce' = [enforce EXCEPT ![p] = "idle"]
  /\ UNCHANGED <<keeper, dropped, questionVars, call, requests>>

-----------------------------------------------------------------------------
Serve(c) ==
  \/ Ask(c) \/ Claim(c) \/ Read(c) \/ Write(c)
  \/ \E p \in Players, ok \in BOOLEAN : SetGate(c, p, ok)

Enforce(p) == Look(p) \/ LookAgain(p) \/ \E ok \in BOOLEAN : Close(p, ok)

Arrive(c) ==
  \/ \E q \in Questions :
       \/ \E suggestCancel \in BOOLEAN : Warning(c, q, suggestCancel)
       \/ \E answer \in Answers : Answer(c, q, answer)
  \/ \E answer \in Kinds \cup {"expired"} : Deadline(c, answer)
  \/ \E kind \in Kinds : Start(c, kind)
  \/ Resume(c)

Next ==
  \/ \E c \in Calls : Arrive(c) \/ Serve(c)
  \/ \E p \in Players : Enforce(p)
  \/ Unsuppress \/ Save

Spec == Init /\ [][Next]_vars

\* A request runs to its end, and the enforcer ticks for ever.
Fairness ==
  /\ \A c \in Calls : WF_vars(Serve(c))
  /\ \A p \in Players : WF_vars(Enforce(p))

FairSpec == Spec /\ Fairness

-----------------------------------------------------------------------------
(***************************************************************************)
(* Properties                                                              *)
(***************************************************************************)

\* However many answers, deadlines and resumes race for a question, one of
\* them settles it: a question that was dismissed starts nothing afterwards.
QuestionIsSettledOnce == \A q \in Questions : settled[q] <= 1

\* A question that was stored is answered, by whatever answer, or still pending:
\* "two sources reporting at the same moment must produce one question, not a
\* second that silently replaces the first" (setPendingWeatherDelayDecision).
\* Both have found none pending before either stores its own.
NoQuestionIsLost == \A q \in asked : pending = q \/ settled[q] > 0

\* The enforcer's write "never lands after a resume's open that the check did
\* not see" (WeatherDelayGateCache.lockGateWrite): when it closes a gate, the
\* delay stands, or a resume has still to open that gate.  The one exception is
\* a delay that the store never took: a resume that the store refuses too ends
\* it, and opens nothing.
EnforcerYieldsToResume ==
  [][\A p \in Players :
       Close(p, TRUE) =>
         \/ IsActive(Current(keeper)) \/ dropped
         \/ \E c \in Calls : call[c].op = "resume" /\ p \in call[c].gates]_vars

\* If a delay stands for good then every player ends dark: an open that a
\* resume sends late, and a close that fails, are made good.
StandingDelayEndsDark ==
  <>[]IsActive(Current(keeper)) => <>[](\A p \in Players : gate[p] = "closed")

\* "An answer against a stale or unknown id is refused rather than silently
\* resolving whatever is currently pending" (weatherdelaytrigger_test.go).
AnswerSettlesItsQuestion ==
  [][\A c \in Calls :
       Claim(c) /\ Claims(c) /\ call[c].op = "answer" => call[c].question = pending]_vars
=============================================================================
