--------------------------- MODULE WeatherProofs ---------------------------
(***************************************************************************)
(* Proofs about the two views of the weather delay.                        *)
(*                                                                         *)
(* WeatherControl, for any players, questions, requests at a time and gate *)
(* writes that fail: a question is settled by the step that stops it from  *)
(* being pending, and it never becomes pending again (QuestionInv).  A     *)
(* gate the enforcer is about to close belongs to a delay that stands, or  *)
(* to a resume that waits for the enforcer's lock (GateInv).               *)
(*                                                                         *)
(* WeatherDelay, for any nodes, requests at a time, messages on their way  *)
(* and troubles: while the store takes what it is given, every state and   *)
(* record is no newer than the row, and one that was resumed lies below    *)
(* the last resume the row shows (StatesKnown, RecordsKnown); a delay that *)
(* was read before a cancellation is too old to be written after it        *)
(* (WritesInv).                                                            *)
(***************************************************************************)
EXTENDS WeatherControl, WeatherDelay, FiniteSetTheorems, TLAPS

\* A question is asked before it is pending or settled, and from then on either
\* of the two; the ones still to be asked are all different.
QuestionInv ==
  /\ \A q \in Questions :
       /\ q \notin asked => settled[q] = 0
       /\ pending = q => settled[q] = 0
       /\ q \in asked /\ pending # q => settled[q] = 1
  /\ \A c \in Calls : At(c, "asking") =>
       /\ call[c].question \in Questions \ asked
       /\ \A d \in Calls \ {c} :
            At(d, "asking") => call[d].question # call[c].question

\* What a call carries to the state: a resume none, any other a delay.
CallInv ==
  /\ requests = 0 => \A c \in Calls : At(c, "idle")
  /\ \A c \in Calls :
       /\ ~At(c, "gating") => call[c].gates = {}
       /\ At(c, "reading") /\ call[c].op # "resume" => call[c].answer \in Kinds
       /\ At(c, "writing") => (IsActive(call[c].state) <=> call[c].op # "resume")

\* The enforcer holds the lock of a player while a delay stands, or since before
\* a resume that has still to open the gate, and waits for that lock.
GateInv ==
  \A p \in Players : Locked(p) =>
    \/ IsActive(Current(keeper)) \/ dropped
    \/ \E c \in Calls : call[c].op = "resume" /\ p \in call[c].gates

IInv == TypeOK /\ QuestionInv /\ CallInv /\ GateInv

\* The types of a call and of the keeper, and what a request may begin as.
CallRecords ==
  [step : {"idle", "asking", "claiming", "reading", "writing", "gating"},
   op : {"none", "warning", "answer", "deadline", "start", "resume"},
   question : Questions \cup {None},
   found : Questions \cup {None},
   answer : Answers,
   state : States,
   reaffirm : BOOLEAN,
   gates : SUBSET Players]

Keepers == [stored : States, unsaved : States]

Begins(request) ==
  /\ request \in CallRecords /\ request.gates = {}
  /\ request.step \in {"asking", "claiming", "reading"}
  /\ request.step = "asking" =>
       request.question \in Questions \ (asked \cup {call[d].question : d \in Calls})
  /\ request.step = "reading" /\ request.op # "resume" => request.answer \in Kinds

-----------------------------------------------------------------------------
\* The tuples actions leave unchanged are expanded throughout.
USE DEF questionVars, gateVars

LEMMA IdleType == Idle \in CallRecords
BY DEF Idle, CallRecords, Answers, States, Kinds, NotActive

\* What a start or a resume makes of a state is a state, and which of the two
\* it was can be told from it.
LEMMA NewStates ==
  ASSUME NEW current \in States, NEW kind \in Kinds
  PROVE  /\ Entered(current, kind, current.rev + 1) \in States
         /\ IsActive(Entered(current, kind, current.rev + 1))
         /\ Resumed(current) \in States /\ ~IsActive(Resumed(current))
BY DEF Entered, Resumed, Reaffirms, Delayed, NotActive, IsActive, States, Kinds

\* The keeper after a write, and what its current state then is.
LEMMA KeeperSet ==
  ASSUME NEW k \in Keepers, NEW state \in States
  PROVE  /\ Set(k, state, TRUE) \in Keepers
         /\ IsActive(state) => IsActive(Current(Set(k, state, TRUE)))
<1>1. NothingUnsaved \in States /\ ~IsActive(NothingUnsaved)
  BY DEF NothingUnsaved, NotActive, States, IsActive
<1>2. CASE Stores(k, state, TRUE)
  BY <1>1, <1>2 DEF Set, Keepers, Current
<1>3. CASE ~Stores(k, state, TRUE)
  BY <1>1, <1>3 DEF Set, Keepers, Current
<1> QED
  BY <1>2, <1>3

LEMMA KeeperSaves ==
  ASSUME NEW k \in Keepers
  PROVE  /\ SaveUnsaved(k, TRUE) \in Keepers
         /\ IsActive(Current(SaveUnsaved(k, TRUE))) <=> IsActive(Current(k))
         /\ Current(k) \in States
<1>1. NothingUnsaved \in States /\ ~IsActive(NothingUnsaved)
  BY DEF NothingUnsaved, NotActive, States, IsActive
<1>2. CASE IsActive(k.unsaved)
  <2> DEFINE rev == IF k.stored.rev >= k.unsaved.rev THEN k.stored.rev + 1 ELSE k.unsaved.rev
             saved == [k.unsaved EXCEPT !.rev = rev]
  <2>1. k.unsaved \in States /\ k.stored \in States /\ rev \in Nat
    BY DEF Keepers, States
  <2>2. saved \in States /\ saved.kind = k.unsaved.kind
    BY <2>1 DEF States
  <2>3. SaveUnsaved(k, TRUE) = [stored |-> saved, unsaved |-> NothingUnsaved]
    BY <1>2, <2>1 DEF SaveUnsaved
  <2> QED
    <3> HIDE DEF saved
    <3> DEFINE after == [stored |-> saved, unsaved |-> NothingUnsaved]
    <3>1. after \in Keepers /\ Current(after) = saved
      BY <1>1, <2>2 DEF Keepers, Current
    <3>2. Current(k) = k.unsaved /\ IsActive(saved)
      BY <1>2, <2>2 DEF Current, IsActive
    <3> HIDE DEF after
    <3>3. SaveUnsaved(k, TRUE) = after
      BY <2>3 DEF after
    <3> QED
      BY <1>2, <2>1, <3>1, <3>2, <3>3
<1>3. CASE ~IsActive(k.unsaved)
  BY <1>3 DEF SaveUnsaved, Current, Keepers
<1> QED
  BY <1>2, <1>3

\* A warning, an answer, a deadline, a start or a resume only adds a request.
LEMMA Arrivals ==
  ASSUME TypeOK, NEW c \in Calls, Arrive(c)
  PROVE  \E request : Begins(request) /\ Request(c, request)
<1> USE IdleType DEF Begins, CallRecords, TypeOK, Idle, Answers
<1>1. ASSUME NEW q \in Questions, NEW s \in BOOLEAN, Warning(c, q, s)
      PROVE  \E request : Begins(request) /\ Request(c, request)
  <2> DEFINE r == [Idle EXCEPT !.step = "asking", !.op = "warning", !.question = q]
  <2>1. Request(c, r) /\ q \notin asked \cup {call[d].question : d \in Calls}
    BY <1>1 DEF Warning
  <2>2. Begins(r)
    BY <2>1
  <2> QED
    BY <2>1, <2>2
<1>2. ASSUME NEW q \in Questions, NEW a \in Answers, Answer(c, q, a)
      PROVE  \E request : Begins(request) /\ Request(c, request)
  <2> DEFINE r == [Idle EXCEPT !.step = "claiming", !.op = "answer", !.question = q,
                               !.found = pending, !.answer = a]
  <2>1. Request(c, r)
    BY <1>2 DEF Answer
  <2>2. Begins(r)
    OBVIOUS
  <2> QED
    BY <2>1, <2>2
<1>3. ASSUME NEW a \in Kinds \cup {"expired"}, Deadline(c, a)
      PROVE  \E request : Begins(request) /\ Request(c, request)
  <2> DEFINE r == [Idle EXCEPT !.step = "claiming", !.op = "deadline", !.question = pending,
                               !.found = pending, !.answer = a]
  <2>1. Request(c, r)
    BY <1>3 DEF Deadline
  <2>2. Begins(r)
    OBVIOUS
  <2> QED
    BY <2>1, <2>2
<1>4. ASSUME NEW kind \in Kinds, Start(c, kind)
      PROVE  \E request : Begins(request) /\ Request(c, request)
  <2> DEFINE r == [Idle EXCEPT !.step = "reading", !.op = "start", !.answer = kind]
  <2>1. Request(c, r)
    BY <1>4 DEF Start
  <2>2. Begins(r)
    OBVIOUS
  <2> QED
    BY <2>1, <2>2
<1>5. ASSUME Resume(c)
      PROVE  \E request : Begins(request) /\ Request(c, request)
  <2> DEFINE r == [Idle EXCEPT !.step = IF pending = None THEN "reading" ELSE "claiming",
                               !.op = "resume", !.question = pending, !.found = pending]
  <2>1. Request(c, r)
    BY <1>5 DEF Resume
  <2>2. Begins(r)
    <3>1. CASE pending = None
      BY <3>1
    <3>2. CASE pending # None
      BY <3>2
    <3> QED
      BY <3>1, <3>2
  <2> HIDE DEF r, Begins
  <2> QED
    BY <2>1, <2>2
<1> QED
  BY <1>1, <1>2, <1>3, <1>4, <1>5 DEF Arrive

-----------------------------------------------------------------------------
\* A question is settled at most once, by a request that counts.
LEMMA TypeStep == TypeOK /\ QuestionInv /\ CallInv /\ [Next]_vars => TypeOK'
<1> SUFFICES ASSUME TypeOK, QuestionInv, CallInv, [Next]_vars PROVE TypeOK'
  OBVIOUS
<1> USE RequestsAssumption, FailuresAssumption, IdleType DEF TypeOK
<1>0. call \in [Calls -> CallRecords] /\ keeper \in Keepers
  BY DEF CallRecords, Keepers
<1>t. ASSUME call' \in [Calls -> CallRecords], keeper' \in Keepers,
             UNCHANGED <<questionVars, gateVars, dropped, requests, failures>>
      PROVE  TypeOK'
  BY <1>t DEF CallRecords, Keepers
<1>1. ASSUME NEW c \in Calls, Arrive(c) PROVE TypeOK'
  <2>1. PICK r : Begins(r) /\ Request(c, r)
    BY <1>1, Arrivals
  <2>2. call' \in [Calls -> CallRecords]
    BY <1>0, <2>1 DEF Request, Begins
  <2> QED
    BY <2>1, <2>2 DEF Request, CallRecords
<1>2. ASSUME NEW c \in Calls, Ask(c) PROVE TypeOK'
  <2>1. call' \in [Calls -> CallRecords]
    BY <1>0, <1>2 DEF Ask
  <2>2. call[c].question \in Questions
    BY <1>2 DEF Ask, QuestionInv
  <2> QED
    BY <1>2, <2>1, <2>2 DEF Ask, CallRecords
<1>3. ASSUME NEW c \in Calls, Claim(c) PROVE TypeOK'
  <2>1. call' \in [Calls -> CallRecords]
    <3>1. [call[c] EXCEPT !.step = "reading"] \in CallRecords
      BY <1>0 DEF CallRecords
    <3> QED
      BY <1>0, <1>3, <3>1 DEF Claim
  <2>2. settled' \in [Questions -> 0..MaxRequests]
    <3>1. CASE Claims(c)
      <4>1. call[c].found \in Questions /\ settled[call[c].found] = 0
        BY <1>0, <3>1, NoneAssumption DEF Claims, QuestionInv, CallRecords
      <4>2. 1 \in 0..MaxRequests
        BY <1>3 DEF Claim, CallInv, At
      <4> QED
        BY <1>3, <3>1, <4>1, <4>2 DEF Claim
    <3>2. CASE ~Claims(c)
      BY <1>3, <3>2 DEF Claim
    <3> QED
      BY <3>1, <3>2
  <2>3. pending' \in asked' \cup {None} /\ suppressed' \in BOOLEAN
    BY <1>3 DEF Claim
  <2> QED
    BY <1>3, <2>1, <2>2, <2>3 DEF Claim, CallRecords
<1>4. ASSUME NEW c \in Calls, Read(c) PROVE TypeOK'
  <2> DEFINE current == Current(keeper)
             state == IF call[c].op = "resume" THEN Resumed(current)
                        ELSE Entered(current, call[c].answer, current.rev + 1)
             re == call[c].op # "resume" /\ Reaffirms(current, call[c].answer)
  <2>1. call[c].op = "resume" \/ call[c].answer \in Kinds
    BY <1>4 DEF Read, CallInv
  <2>2. state \in States
    <3>1. current \in States
      BY <1>0, KeeperSaves
    <3>2. CASE call[c].op = "resume"
      <4>1. "delay" \in Kinds
        BY DEF Kinds
      <4> QED
        BY <3>1, <3>2, <4>1, NewStates
    <3>3. CASE call[c].op # "resume"
      BY <2>1, <3>1, <3>3, NewStates
    <3> QED
      BY <3>2, <3>3
  <2>3. call' = [call EXCEPT ![c] =
                  [call[c] EXCEPT !.step = "writing", !.state = state, !.reaffirm = re]]
    BY <1>0, <1>4 DEF Read, CallRecords
  <2>4. re \in BOOLEAN
    BY DEF Reaffirms
  <2>5. [call[c] EXCEPT !.step = "writing", !.state = state, !.reaffirm = re] \in CallRecords
    <3>1. call[c] \in CallRecords
      BY <1>0
    <3> HIDE DEF state, re
    <3> QED
      BY <2>2, <2>4, <3>1, ZenonT(30) DEF CallRecords
  <2>6. call' \in [Calls -> CallRecords]
    BY <1>0, <2>3, <2>5
  <2> QED
    BY <1>0, <1>4, <1>t, <2>6 DEF Read
<1>5. ASSUME NEW c \in Calls, Write(c) PROVE TypeOK'
  <2>1. call[c].state \in States
    BY <1>0 DEF CallRecords
  <2>2. keeper' \in Keepers
    <3>1. keeper' \in {SaveUnsaved(keeper, TRUE), Set(keeper, call[c].state, TRUE)}
      BY <1>5 DEF Write
    <3>2. SaveUnsaved(keeper, TRUE) \in Keepers /\ Set(keeper, call[c].state, TRUE) \in Keepers
      BY <1>0, <2>1, KeeperSet, KeeperSaves
    <3> QED
      BY <3>1, <3>2
  <2>3. [call[c] EXCEPT !.step = "gating", !.gates = Players] \in CallRecords
    BY <1>0, ZenonT(30) DEF CallRecords
  <2>4. call' \in [Calls -> CallRecords]
    BY <1>0, <1>5, <2>3 DEF Write
  <2>5. dropped' \in BOOLEAN
    BY <1>5 DEF Write, Stores, Accepts
  <2> QED
    BY <1>5, <2>2, <2>4, <2>5 DEF Write, CallRecords, Keepers
<1>6. ASSUME NEW c \in Calls, NEW p \in Players, NEW ok \in BOOLEAN, SetGate(c, p, ok) PROVE TypeOK'
  <2>1. [call[c] EXCEPT !.gates = @ \ {p}] \in CallRecords
    BY <1>0 DEF CallRecords
  <2>2. call' \in [Calls -> CallRecords]
    BY <1>0, <1>6, <2>1 DEF SetGate
  <2>3. gate' \in [Players -> {"open", "closed"}] /\ failures' \in 0..MaxFailures
    BY <1>6 DEF SetGate, WriteGate
  <2> QED
    BY <1>6, <2>2, <2>3 DEF SetGate, CallRecords
<1>7. ASSUME NEW p \in Players, Enforce(p) PROVE TypeOK'
  BY <1>7 DEF Enforce, Look, LookAgain, Close, WriteGate
<1>8. CASE Unsuppress
  BY <1>8 DEF Unsuppress
<1>9. CASE Save
  BY <1>0, <1>9, <1>t, KeeperSaves DEF Save
<1>10. CASE UNCHANGED vars
  BY <1>10 DEF vars
<1> QED
  BY <1>1, <1>2, <1>3, <1>4, <1>5, <1>6, <1>7, <1>8, <1>9, <1>10 DEF Next, Serve

\* Only an ask makes a question pending, and only while none is; only a claim
\* settles one, and it was pending.
LEMMA QuestionStep == TypeOK /\ QuestionInv /\ [Next]_vars => QuestionInv'
<1> SUFFICES ASSUME TypeOK, QuestionInv, [Next]_vars PROVE QuestionInv'
  OBVIOUS
<1>0. /\ call \in [Calls -> CallRecords] /\ settled \in [Questions -> 0..MaxRequests]
      /\ pending \in asked \cup {None} /\ asked \subseteq Questions
  BY DEF TypeOK, CallRecords
<1>t. ASSUME NEW c \in Calls, NEW request, call' = [call EXCEPT ![c] = request],
             request.step # "asking", UNCHANGED <<asked, pending, settled>>
      PROVE  QuestionInv'
  BY <1>0, <1>t DEF QuestionInv, At
<1>s. Idle.step # "asking"
  BY DEF Idle
<1>1. ASSUME NEW c \in Calls, Arrive(c) PROVE QuestionInv'
  <2>1. PICK r : Begins(r) /\ Request(c, r)
    BY <1>1, Arrivals
  <2>2. /\ call' = [call EXCEPT ![c] = r] /\ UNCHANGED <<asked, pending, settled>>
        /\ r.step = "asking" =>
             r.question \in Questions \ (asked \cup {call[d].question : d \in Calls})
    BY <2>1 DEF Request, Begins
  <2> QED
    BY <1>0, <2>2 DEF QuestionInv, At
<1>2. ASSUME NEW c \in Calls, Ask(c) PROVE QuestionInv'
  <2>1. /\ At(c, "asking") /\ call' = [call EXCEPT ![c] = Idle] /\ settled' = settled
        /\ \/ /\ pending = None /\ pending' = call[c].question
              /\ asked' = asked \cup {call[c].question}
           \/ pending' = pending /\ asked' = asked
    BY <1>2 DEF Ask
  <2>2. /\ call[c].question \in Questions \ asked
        /\ \A d \in Calls \ {c} :
             At(d, "asking") => call[d].question # call[c].question
    BY <2>1 DEF QuestionInv
  <2>3. \A d \in Calls : At(d, "asking")' =>
          d # c /\ At(d, "asking") /\ call'[d] = call[d]
    BY <1>0, <1>s, <2>1 DEF At
  <2> QED
    BY <1>0, <2>1, <2>2, <2>3, NoneAssumption DEF QuestionInv
<1>3. ASSUME NEW c \in Calls, Claim(c) PROVE QuestionInv'
  <2>1. \A d \in Calls : At(d, "asking")' => At(d, "asking") /\ call'[d] = call[d]
    <3>1. PICK r : call' = [call EXCEPT ![c] = r] /\ r.step # "asking"
      <4>1. [call[c] EXCEPT !.step = "reading"].step # "asking"
        BY <1>0 DEF CallRecords
      <4> QED
        BY <1>3, <1>s, <4>1 DEF Claim
    <3> QED
      BY <1>0, <3>1 DEF At
  <2>2. CASE Claims(c)
    <3>1. call[c].found \in Questions /\ call[c].found = pending
      BY <1>0, <2>2 DEF Claims, CallRecords
    <3>2. /\ pending' = None /\ asked' = asked
          /\ settled' = [settled EXCEPT ![pending] = settled[pending] + 1]
      BY <1>3, <2>2, <3>1 DEF Claim
    <3>3. settled[pending] = 0 /\ pending \in asked
      BY <1>0, <3>1, NoneAssumption DEF QuestionInv
    <3> QED
      BY <1>0, <2>1, <3>1, <3>2, <3>3, NoneAssumption DEF QuestionInv
  <2>3. CASE ~Claims(c)
    BY <1>3, <2>1, <2>3 DEF Claim, QuestionInv
  <2> QED
    BY <2>2, <2>3
<1>4. ASSUME NEW c \in Calls, Read(c) PROVE QuestionInv'
  BY <1>0, <1>4 DEF Read, QuestionInv, At, CallRecords
<1>5. ASSUME NEW c \in Calls, Write(c) PROVE QuestionInv'
  <2>1. PICK r : call' = [call EXCEPT ![c] = r] /\ r.step # "asking"
    <3> DEFINE r == [call[c] EXCEPT !.step = "gating", !.gates = Players]
    <3>1. call' = [call EXCEPT ![c] = r] \/ call' = [call EXCEPT ![c] = Idle]
      BY <1>0, <1>5 DEF Write, CallRecords
    <3>2. r.step = "gating"
      BY <1>0 DEF CallRecords
    <3> HIDE DEF r
    <3> QED
      BY <1>s, <3>1, <3>2
  <2>2. UNCHANGED <<asked, pending, settled>>
    BY <1>5 DEF Write
  <2> QED
    BY <1>t, <2>1, <2>2
<1>6. ASSUME NEW c \in Calls, NEW p \in Players, NEW ok \in BOOLEAN, SetGate(c, p, ok)
      PROVE  QuestionInv'
  BY <1>0, <1>6, <1>s DEF SetGate, QuestionInv, At, CallRecords
<1>7. ASSUME NEW p \in Players, Enforce(p) PROVE QuestionInv'
  BY <1>7 DEF Enforce, Look, LookAgain, Close, QuestionInv, At
<1>8. CASE Unsuppress \/ Save \/ UNCHANGED vars
  BY <1>8 DEF Unsuppress, Save, vars, QuestionInv, At
<1> QED
  BY <1>1, <1>2, <1>3, <1>4, <1>5, <1>6, <1>7, <1>8 DEF Next, Serve

LEMMA CallStep == TypeOK /\ CallInv /\ [Next]_vars => CallInv'
<1> SUFFICES ASSUME TypeOK, CallInv, [Next]_vars PROVE CallInv'
  OBVIOUS
<1>0. /\ call \in [Calls -> CallRecords] /\ keeper \in Keepers
      /\ requests \in 0..MaxRequests /\ MaxRequests \in Nat
  BY RequestsAssumption, FailuresAssumption DEF TypeOK, CallRecords, Keepers
<1> DEFINE Fits(r) ==
      /\ r.step # "gating" => r.gates = {}
      /\ r.step = "reading" /\ r.op # "resume" => r.answer \in Kinds
      /\ r.step = "writing" => (IsActive(r.state) <=> r.op # "resume")
<1>f. \A d \in Calls : Fits(call[d])
  BY DEF CallInv, At
<1>i. Fits(Idle)
  BY DEF Idle
<1>t. ASSUME NEW c \in Calls, NEW r, call' = [call EXCEPT ![c] = r], Fits(r),
             requests' # 0
      PROVE  CallInv'
  <2> HIDE DEF Fits
  <2>1. \A d \in Calls : Fits(call'[d])
    BY <1>0, <1>f, <1>t
  <2> QED
    BY <2>1, <1>t DEF CallInv, At, Fits
<1>1. ASSUME NEW c \in Calls, Arrive(c) PROVE CallInv'
  <2>1. PICK r : Begins(r) /\ Request(c, r)
    BY <1>1, Arrivals
  <2>2. call' = [call EXCEPT ![c] = r] /\ requests' # 0 /\ Fits(r)
    BY <1>0, <2>1 DEF Request, Begins
  <2> QED
    BY <1>t, <2>2
<1>2. ASSUME NEW c \in Calls, Serve(c) PROVE CallInv'
  <2>0. requests # 0 /\ requests' = requests
    BY <1>2 DEF Serve, Ask, Claim, Read, Write, SetGate, CallInv, At
  <2>1. CASE Ask(c)
    BY <1>i, <1>t, <2>0, <2>1 DEF Ask
  <2>2. CASE Claim(c)
    <3> DEFINE r == [call[c] EXCEPT !.step = "reading"]
    <3>1. CASE call[c].op = "resume" \/ (Claims(c) /\ Starts(c))
      <4>1. Fits(r)
        BY <1>0, <1>f, <2>2, <3>1 DEF Claim, At, Starts, CallRecords
      <4>2. call' = [call EXCEPT ![c] = r]
        BY <2>2, <3>1 DEF Claim
      <4> QED
        BY <1>t, <2>0, <4>1, <4>2
    <3>2. CASE ~(call[c].op = "resume" \/ (Claims(c) /\ Starts(c)))
      BY <1>i, <1>t, <2>0, <2>2, <3>2 DEF Claim
    <3> QED
      BY <3>1, <3>2
  <2>3. CASE Read(c)
    <3> DEFINE current == Current(keeper)
               state == IF call[c].op = "resume" THEN Resumed(current)
                          ELSE Entered(current, call[c].answer, current.rev + 1)
               re == call[c].op # "resume" /\ Reaffirms(current, call[c].answer)
               r == [call[c] EXCEPT !.step = "writing", !.state = state, !.reaffirm = re]
    <3>1. IsActive(state) <=> call[c].op # "resume"
      <4>1. current \in States /\ "delay" \in Kinds
        BY <1>0, KeeperSaves DEF Kinds
      <4>2. CASE call[c].op = "resume"
        BY <4>1, <4>2, NewStates
      <4>3. CASE call[c].op # "resume"
        BY <1>f, <2>3, <4>1, <4>3, NewStates DEF Read, At
      <4> QED
        BY <4>2, <4>3
    <3>2. call' = [call EXCEPT ![c] = r]
      BY <1>0, <2>3 DEF Read, CallRecords
    <3>3. Fits(r)
      <4>1. call[c].step # "gating"
        BY <2>3 DEF Read, At
      <4> HIDE DEF state, re
      <4> QED
        BY <1>0, <1>f, <3>1, <4>1 DEF CallRecords
    <3> HIDE DEF r, Fits
    <3> QED
      BY <1>t, <2>0, <3>2, <3>3
  <2>4. CASE Write(c)
    <3> DEFINE r == [call[c] EXCEPT !.step = "gating", !.gates = Players]
    <3>1. Fits(r)
      BY <1>0 DEF CallRecords
    <3>2. call' = [call EXCEPT ![c] = r] \/ call' = [call EXCEPT ![c] = Idle]
      BY <2>4 DEF Write
    <3> HIDE DEF r, Fits
    <3> QED
      BY <1>i, <1>t, <2>0, <3>1, <3>2
  <2>5. ASSUME NEW p \in Players, NEW ok \in BOOLEAN, SetGate(c, p, ok) PROVE CallInv'
    <3> DEFINE r == [call[c] EXCEPT !.gates = call[c].gates \ {p}]
    <3>1. Fits(r)
      BY <1>0, <2>5 DEF SetGate, At, CallRecords
    <3>2. call' = [call EXCEPT ![c] = r] \/ call' = [call EXCEPT ![c] = Idle]
      BY <2>5 DEF SetGate
    <3> HIDE DEF r, Fits
    <3> QED
      BY <1>i, <1>t, <2>0, <3>1, <3>2
  <2> QED
    BY <1>2, <2>1, <2>2, <2>3, <2>4, <2>5 DEF Serve
<1>3. ASSUME NEW p \in Players, Enforce(p) PROVE CallInv'
  BY <1>3 DEF Enforce, Look, LookAgain, Close, CallInv, At
<1>4. CASE Unsuppress \/ Save \/ UNCHANGED vars
  BY <1>4 DEF Unsuppress, Save, vars, CallInv, At
<1> QED
  BY <1>1, <1>2, <1>3, <1>4 DEF Next

\* The enforcer takes a player's lock only while a delay stands.  A delay ends in
\* the write of a resume alone, which then has every gate to open unless it was
\* not stored; and a resume opens no gate whose lock is taken.
LEMMA GateStep == TypeOK /\ CallInv /\ GateInv /\ [Next]_vars => GateInv'
<1> SUFFICES ASSUME TypeOK, CallInv, GateInv, [Next]_vars PROVE GateInv'
  OBVIOUS
<1>0. /\ call \in [Calls -> CallRecords] /\ keeper \in Keepers
      /\ enforce \in [Players -> {"idle", "waiting", "writing"}]
  BY DEF TypeOK, CallRecords, Keepers
<1> DEFINE Excused(p) ==
      \/ IsActive(Current(keeper)) \/ dropped
      \/ \E c \in Calls : call[c].op = "resume" /\ p \in call[c].gates
<1>e. \A p \in Players : Locked(p) => Excused(p)
  BY DEF GateInv
<1>g. \A c \in Calls : ~At(c, "gating") => call[c].gates = {}
  BY DEF CallInv
\* A call that has no gates to open excuses nothing.
<1>t. ASSUME NEW c \in Calls, NEW r, call' = [call EXCEPT ![c] = r], call[c].gates = {},
             UNCHANGED <<enforce, dropped>>,
             IsActive(Current(keeper)) => IsActive(Current(keeper'))
      PROVE  GateInv'
  BY <1>0, <1>e, <1>t DEF GateInv, Locked
<1>1. ASSUME NEW c \in Calls, Arrive(c) PROVE GateInv'
  <2>1. PICK r : Begins(r) /\ Request(c, r)
    BY <1>1, Arrivals
  <2>2. call[c].gates = {}
    BY <1>g, <2>1 DEF Request, At
  <2> QED
    BY <1>t, <2>1, <2>2 DEF Request
<1>2. ASSUME NEW c \in Calls, Ask(c) \/ Claim(c) PROVE GateInv'
  <2>1. call[c].gates = {}
    BY <1>2, <1>g DEF Ask, Claim, At
  <2> QED
    BY <1>2, <1>t, <2>1 DEF Ask, Claim
<1>3. ASSUME NEW c \in Calls, Read(c) PROVE GateInv'
  <2>1. call[c].gates = {}
    BY <1>3, <1>g DEF Read, At
  <2>2. PICK r : call' = [call EXCEPT ![c] = r]
    BY <1>0, <1>3 DEF Read, CallRecords
  <2> QED
    BY <1>3, <1>t, <2>1, <2>2 DEF Read
<1>4. ASSUME NEW c \in Calls, Write(c) PROVE GateInv'
  <2>1. /\ At(c, "writing") /\ call[c].gates = {} /\ call[c].state \in States
        /\ IsActive(call[c].state) <=> call[c].op # "resume"
        /\ enforce' = enforce
    BY <1>0, <1>4, <1>g DEF Write, At, CallInv, CallRecords
  <2>2. CASE IsActive(Current(keeper')) \/ ~IsActive(Current(keeper))
    <3>1. dropped' = dropped
      BY <1>4, <2>2 DEF Write
    <3>2. PICK r : call' = [call EXCEPT ![c] = r]
      BY <1>4 DEF Write
    <3> QED
      BY <1>t, <2>1, <2>2, <3>1, <3>2
  <2>3. CASE IsActive(Current(keeper)) /\ ~IsActive(Current(keeper'))
    <3>1. keeper' = Set(keeper, call[c].state, TRUE) /\ call[c].op = "resume"
      <4>1. ~call[c].reaffirm
        BY <1>0, <1>4, <2>3, KeeperSaves DEF Write
      <4> QED
        BY <1>0, <1>4, <2>1, <2>3, <4>1, KeeperSet DEF Write
    <3>2. CASE Stores(keeper, call[c].state, TRUE)
      <4> DEFINE r == [call[c] EXCEPT !.step = "gating", !.gates = Players]
      <4>1. call' = [call EXCEPT ![c] = r]
        BY <1>4, <3>2 DEF Write
      <4>2. r.op = "resume" /\ r.gates = Players
        BY <1>0, <3>1 DEF CallRecords
      <4>3. call'[c].op = "resume" /\ call'[c].gates = Players
        BY <1>0, <4>1, <4>2
      <4> QED
        BY <4>3 DEF GateInv
    <3>3. CASE ~Stores(keeper, call[c].state, TRUE)
      <4>1. dropped'
        BY <1>4, <2>3, <3>3 DEF Write
      <4> QED
        BY <4>1 DEF GateInv
    <3> QED
      BY <3>2, <3>3
  <2> QED
    BY <2>2, <2>3
<1>5. ASSUME NEW c \in Calls, NEW p \in Players, NEW ok \in BOOLEAN, SetGate(c, p, ok)
      PROVE  GateInv'
  <2> SUFFICES ASSUME NEW other \in Players, Locked(other)' PROVE Excused(other)'
    BY DEF GateInv
  <2>1. /\ At(c, "gating") /\ p \in call[c].gates /\ ~Locked(p)
        /\ UNCHANGED <<keeper, dropped, enforce>>
    BY <1>5 DEF SetGate
  <2>2. Locked(other) /\ other # p
    BY <2>1 DEF Locked
  <2>3. CASE IsActive(Current(keeper)) \/ dropped
    BY <2>1, <2>3
  <2>4. ASSUME NEW d \in Calls, call[d].op = "resume", other \in call[d].gates
        PROVE  call'[d].op = "resume" /\ other \in call'[d].gates
    <3>1. CASE d # c
      BY <1>0, <1>5, <2>4, <3>1 DEF SetGate
    <3>2. CASE d = c
      <4> DEFINE r == [call[c] EXCEPT !.gates = call[c].gates \ {p}]
      <4>1. call' = [call EXCEPT ![c] = r]
        BY <1>5, <2>2, <2>4, <3>2 DEF SetGate
      <4>2. r.op = "resume" /\ other \in r.gates
        BY <1>0, <2>2, <2>4, <3>2 DEF CallRecords
      <4> HIDE DEF r
      <4> QED
        BY <1>0, <3>2, <4>1, <4>2
    <3> QED
      BY <3>1, <3>2
  <2> QED
    BY <1>e, <2>2, <2>3, <2>4
<1>6. ASSUME NEW p \in Players, Enforce(p) PROVE GateInv'
  <2>1. UNCHANGED <<keeper, dropped, call>>
    BY <1>6 DEF Enforce, Look, LookAgain, Close
  <2>2. \A other \in Players : Locked(other)' => Locked(other) \/ IsActive(Current(keeper))
    BY <1>0, <1>6 DEF Enforce, Look, LookAgain, Close, Locked
  <2> QED
    BY <1>e, <2>1, <2>2 DEF GateInv
<1>7. CASE Save
  BY <1>0, <1>7, <1>e, KeeperSaves DEF Save, GateInv, Locked
<1>8. CASE Unsuppress \/ UNCHANGED vars
  BY <1>8, <1>e DEF Unsuppress, vars, GateInv, Locked
<1> QED
  BY <1>1, <1>2, <1>3, <1>4, <1>5, <1>6, <1>7, <1>8 DEF Next, Serve

-----------------------------------------------------------------------------
\* The inductive invariant of the weather control.
THEOREM Invariance == Spec => []IInv
<1>1. Init => IInv
  <2> SUFFICES ASSUME Init PROVE IInv
    OBVIOUS
  <2>1. NewKeeper \in Keepers
    BY DEF NewKeeper, Keepers, NothingUnsaved, NotActive, States
  <2>2. TypeOK
    <3>1. keeper \in Keepers
      BY <2>1 DEF Init
    <3>2. call \in [Calls -> CallRecords]
      BY IdleType DEF Init
    <3>3. /\ settled \in [Questions -> 0..MaxRequests]
          /\ requests \in 0..MaxRequests /\ failures \in 0..MaxFailures
      BY RequestsAssumption, FailuresAssumption DEF Init
    <3>4. /\ gate \in [Players -> {"open", "closed"}]
          /\ enforce \in [Players -> {"idle", "waiting", "writing"}]
      BY DEF Init
    <3>5. /\ pending \in asked \cup {None} /\ asked \subseteq Questions
          /\ suppressed \in BOOLEAN /\ dropped \in BOOLEAN
      BY DEF Init
    <3> QED
      BY <3>1, <3>2, <3>3, <3>4, <3>5 DEF TypeOK, Keepers, CallRecords
  <2>3. QuestionInv
    BY NoneAssumption DEF Init, QuestionInv, At, Idle
  <2>4. CallInv
    BY DEF Init, CallInv, At, Idle
  <2>5. GateInv
    BY DEF Init, GateInv, Locked
  <2> QED
    BY <2>2, <2>3, <2>4, <2>5 DEF IInv
<1>2. IInv /\ [Next]_vars => IInv'
  BY TypeStep, QuestionStep, CallStep, GateStep DEF IInv
<1> QED
  BY <1>1, <1>2, PTL DEF Spec

\* The questions, the requests under way and the gates are what the code's
\* types and the bounds of the model allow, in every reachable state.
THEOREM TypeCorrect == Spec => []TypeOK
<1>1. IInv => TypeOK
  BY DEF IInv
<1> QED
  BY <1>1, Invariance, PTL

\* However many answers, deadlines and resumes race for one question, the row
\* weatherDelayResolveDecision deletes goes to one of them.
THEOREM SettledOnce == Spec => []QuestionIsSettledOnce
<1>1. IInv => QuestionIsSettledOnce
  BY DEF IInv, TypeOK, QuestionInv, QuestionIsSettledOnce
<1> QED
  BY <1>1, Invariance, PTL

\* setPendingWeatherDelayDecision replaces nothing: however many warnings find
\* no question pending at a time, each one that is stored is answered or stays.
THEOREM NoneIsLost == Spec => []NoQuestionIsLost
<1>1. IInv => NoQuestionIsLost
  BY DEF IInv, TypeOK, QuestionInv, NoQuestionIsLost
<1> QED
  BY <1>1, Invariance, PTL

\* The look under lockGateWrite is enough: a gate the enforcer closes is one a
\* delay holds closed, or one that a resume opens after it.
THEOREM EnforcerYields == Spec => EnforcerYieldsToResume
<1> DEFINE Yields ==
      \A p \in Players :
        Close(p, TRUE) =>
          \/ IsActive(Current(keeper)) \/ dropped
          \/ \E c \in Calls : call[c].op = "resume" /\ p \in call[c].gates
<1>1. IInv /\ [Next]_vars => [Yields]_vars
  <2> SUFFICES ASSUME IInv PROVE Yields
    OBVIOUS
  <2> QED
    BY DEF IInv, GateInv, Locked, Close
<1> QED
  BY <1>1, Invariance, PTL DEF Spec, EnforcerYieldsToResume

-----------------------------------------------------------------------------
(***************************************************************************)
(* WeatherDelay.                                                           *)
(***************************************************************************)

\* The types, part by part.
Requests ==
  [step : {"idle", "writing", "publishing"}, op : {"none", "start", "resume", "adopt"},
   state : States, reaffirm : BOOLEAN]

CoordinatorType ==
  /\ keeper \in Keepers
  /\ call \in [Calls -> Requests]
  /\ republish \in [step : {"idle", "holding"}, state : States]
  /\ unstored \in BOOLEAN

BoundsType ==
  /\ resumes \in 0..MaxRequests
  /\ requests \in 0..MaxRequests /\ troubles \in 0..MaxTroubles

TransportType ==
  /\ retained \in States
  /\ inbox \in [Nodes -> Seq(States)]
  /\ \A n \in Nodes : Len(inbox[n]) <= Lag
  /\ commands \subseteq Commands

\* A node never holds a revision it has not seen, on its disk and in a report
\* either.
HeldRecords == {r \in Records : r.held <= r.rev}

AgentType ==
  /\ node \in [Nodes -> HeldRecords] /\ disk \in [Nodes -> HeldRecords]
  /\ report \in [Nodes -> HeldRecords]

\* A resume takes effect once at most for each request: the resumes the store
\* took, and the ones that are about to be written, were all requested.
Resuming == {c \in Calls : At(c, "writing") /\ call[c].op = "resume"}

ResumesInv ==
  /\ IsFiniteSet(Resuming)
  /\ resumes + Cardinality(Resuming) <= requests

\* A resume writes a state that is not active.
ResumeInv == \A c \in Resuming : ~IsActive(call[c].state)

\* What is known of a state, and of a node's record, while the store takes what
\* it is given: it is no newer than the row; and if a resume came after it, the
\* last resume, as the row shows it, is above it.
Known(m, row, count) ==
  /\ m.rev <= row.rev
  /\ m.since < count => m.rev < LastResume(row)

KnownRecord(r, row, count) ==
  /\ r.rev <= row.rev
  /\ IsActive(r) /\ r.since < count => r.held < LastResume(row)

StoredInv == ~IsActive(keeper.unsaved) /\ keeper.stored.since = resumes

\* Of every state that has left the coordinator, or will leave it as it is, and
\* of every record.
StatesKnown ==
  /\ Known(retained, keeper.stored, resumes)
  /\ republish.step = "holding" => Known(republish.state, keeper.stored, resumes)
  /\ \A n \in Nodes : \A i \in 1..Len(inbox[n]) : Known(inbox[n][i], keeper.stored, resumes)
  /\ \A c \in Calls : At(c, "publishing") \/ call[c].reaffirm =>
       Known(call[c].state, keeper.stored, resumes)

RecordsKnown ==
  \A n \in Nodes : /\ KnownRecord(node[n], keeper.stored, resumes)
                   /\ KnownRecord(disk[n], keeper.stored, resumes)
                   /\ KnownRecord(report[n], keeper.stored, resumes)

\* A delay that is to be written is not newer than the row's next revision, and
\* has that one only if the row is not a cancelled night: it was read before the
\* cancellation, or would not have become a delay.
DelayPrecedesCancel(c) ==
  At(c, "writing") /\ call[c].state.kind = "delay" /\ ~call[c].reaffirm =>
    \/ call[c].state.rev <= keeper.stored.rev
    \/ call[c].state.rev = keeper.stored.rev + 1 /\ keeper.stored.kind # "cancelNight"

WritesInv == \A c \in Calls : DelayPrecedesCancel(c)

DelayInv ==
  /\ CoordinatorType /\ BoundsType /\ TransportType /\ AgentType
  /\ ResumesInv /\ ResumeInv
  /\ ~unstored => StoredInv /\ StatesKnown /\ RecordsKnown /\ WritesInv

-----------------------------------------------------------------------------
\* The operators on states and records.
LEMMA StatesAreTyped ==
  ASSUME NEW k \in Keepers
  PROVE  /\ Current(k) \in States /\ Reopened(k) \in Keepers
         /\ \A ok \in BOOLEAN : SaveUnsaved(k, ok) \in Keepers
         /\ \A state \in States, ok \in BOOLEAN : Set(k, state, ok) \in Keepers
<1>1. NothingUnsaved \in States
  BY DEF NothingUnsaved, NotActive, States
<1>2. \A state \in States, ok \in BOOLEAN : Set(k, state, ok) \in Keepers
  BY <1>1 DEF Set, Keepers
<1>3. SaveUnsaved(k, FALSE) = k
  BY DEF SaveUnsaved
<1> QED
  BY <1>1, <1>2, <1>3, KeeperSaves DEF Reopened, Keepers

LEMMA NewRecordType == NewRecord \in HeldRecords
BY DEF NewRecord, HeldRecords, Records

\* What the holder makes of a message, a start or a resume.
LEMMA RecordsAreTyped ==
  ASSUME NEW r \in HeldRecords, resumes \in Nat
  PROVE  /\ \A m \in States : Applied(r, m) \in HeldRecords
         /\ \A kind \in Kinds : StartedLocally(r, kind) \in HeldRecords
         /\ Cleared(r) \in HeldRecords
<1> USE DEF HeldRecords, Records
<1>1. \A m \in States : Applied(r, m) \in HeldRecords
  <2> SUFFICES ASSUME NEW m \in States PROVE Applied(r, m) \in HeldRecords
    OBVIOUS
  <2> DEFINE seen == [r EXCEPT !.rev = Larger(@, m.rev)]
  <2>1. /\ seen \in HeldRecords /\ m.rev <= seen.rev
        /\ m.kind \in Kinds \cup {"none"} /\ m.rev \in Nat /\ m.since \in Nat
    BY DEF Larger, States
  <2> HIDE DEF seen
  <2>2. Entering(seen, m.kind, m.rev, m.since) \in HeldRecords /\ Cleared(seen) \in HeldRecords
    BY <2>1 DEF Entering, Cleared
  <2>3. Applied(r, m) \in {Entering(seen, m.kind, m.rev, m.since), Cleared(seen), seen}
    BY DEF Applied, seen
  <2> QED
    BY <2>1, <2>2, <2>3
<1>2. \A kind \in Kinds : StartedLocally(r, kind) \in HeldRecords
  <2> SUFFICES ASSUME NEW kind \in Kinds PROVE StartedLocally(r, kind) \in HeldRecords
    OBVIOUS
  <2>1. ASSUME NEW held \in Nat, held <= r.rev
        PROVE  Entering(r, kind, held, resumes) \in HeldRecords
    BY <2>1 DEF Entering
  <2>2. r.rev \in Nat /\ r.held \in Nat /\ r.held <= r.rev /\ r.rev <= r.rev
    OBVIOUS
  <2>3. StartedLocally(r, kind) \in
          {Entering(r, kind, r.rev, resumes), Entering(r, kind, r.held, resumes), r}
    BY DEF StartedLocally
  <2> QED
    BY <2>1, <2>2, <2>3
<1>3. Cleared(r) \in HeldRecords
  BY DEF Cleared
<1> QED
  BY <1>1, <1>2, <1>3

\* A node takes a record into memory, and onto its disk if that works.
LEMMA HoldType ==
  ASSUME AgentType, BoundsType, NEW n \in Nodes, NEW r \in HeldRecords, NEW ok \in BOOLEAN,
         Hold(n, r, ok)
  PROVE  /\ node' \in [Nodes -> HeldRecords] /\ disk' \in [Nodes -> HeldRecords]
         /\ troubles' \in 0..MaxTroubles
BY TroublesAssumption DEF Hold, MayFail, Troubled, AgentType, BoundsType

\* A state is published to everyone, or to no one.
LEMMA PublishedType ==
  ASSUME TransportType, NEW state \in States, NEW ok \in BOOLEAN,
         IF ok THEN PublishState(state) ELSE UNCHANGED <<retained, inbox>>
  PROVE  /\ retained' \in States /\ inbox' \in [Nodes -> Seq(States)]
         /\ \A n \in Nodes : Len(inbox'[n]) <= Lag
<1>1. CASE ok
  <2>1. /\ retained' = state /\ \A n \in Nodes : Len(inbox[n]) < Lag
        /\ inbox' = [n \in Nodes |-> Append(inbox[n], state)]
    BY <1>1 DEF PublishState
  <2>2. ASSUME NEW n \in Nodes
        PROVE  Append(inbox[n], state) \in Seq(States) /\ Len(Append(inbox[n], state)) <= Lag
    <3>1. inbox[n] \in Seq(States)
      BY DEF TransportType
    <3> QED
      BY <2>1, <3>1, LagAssumption
  <2> QED
    BY <2>1, <2>2
<1>2. CASE ~ok
  BY <1>2 DEF TransportType
<1> QED
  BY <1>1, <1>2

-----------------------------------------------------------------------------
\* A step is one of a request, of the republish loop, of a restart of the
\* coordinator, or one of the nodes', which leaves the coordinator alone.
LEMMA DelaySteps ==
  ASSUME [DelayNext]_delayVars
  PROVE  \/ \E c \in Calls, kind \in Kinds : StartDelay(c, kind)
         \/ \E c \in Calls : ResumeDelay(c)
         \/ \E c \in Calls, n \in Nodes : Adopt(c, n)
         \/ \E c \in Calls, ok \in BOOLEAN : WriteStart(c, ok)
         \/ \E c \in Calls, ok \in BOOLEAN : WriteResume(c, ok)
         \/ \E c \in Calls, ok \in BOOLEAN : PublishAndSend(c, ok)
         \/ \E ok \in BOOLEAN : ReadToRepublish(ok)
         \/ \E ok \in BOOLEAN : Republish(ok)
         \/ RestartCoordinator
         \/ \E n \in Nodes, ok \in BOOLEAN : Deliver(n, ok)
         \/ \E m \in commands, ok \in BOOLEAN : Execute(m, ok)
         \/ \E n \in Nodes, kind \in Kinds, ok \in BOOLEAN : StartHere(n, kind, ok)
         \/ \E n \in Nodes : Disregard(n) \/ Heartbeat(n) \/ Reconnect(n) \/ RestartNode(n)
         \/ UNCHANGED delayVars
BY DEF DelayNext, ServeDelay, RepublishLoop, Receive, Report

LEMMA BeginType ==
  ASSUME CoordinatorType, NEW c \in Calls, NEW op \in {"start", "resume", "adopt"},
         NEW state \in States, Begin(c, op, state)
  PROVE  call' \in [Calls -> Requests]
BY DEF Begin, CoordinatorType, Requests

LEMMA CoordinatorStep ==
  ASSUME CoordinatorType, BoundsType, AgentType, [DelayNext]_delayVars
  PROVE  CoordinatorType'
<1> USE DEF CoordinatorType
<1>0. /\ Current(keeper) \in States /\ Reopened(keeper) \in Keepers
      /\ \A ok \in BOOLEAN : SaveUnsaved(keeper, ok) \in Keepers
      /\ \A state \in States, ok \in BOOLEAN : Set(keeper, state, ok) \in Keepers
  BY StatesAreTyped
<1>i. IdleRequest \in Requests /\ NotRead \in [step : {"idle", "holding"}, state : States]
  BY DEF IdleRequest, Requests, NotRead, NotActive, States
<1>r. resumes \in Nat
  BY RequestsAssumption DEF BoundsType
<1>1. ASSUME NEW c \in Calls, NEW kind \in Kinds, StartDelay(c, kind) PROVE CoordinatorType'
  <2>1. Entered(Current(keeper), kind, Current(keeper).rev + 1) \in States
    BY <1>0, NewStates
  <2> QED
    BY <1>1, <2>1, BeginType DEF StartDelay
<1>2. ASSUME NEW c \in Calls, ResumeDelay(c) PROVE CoordinatorType'
  <2>1. "delay" \in Kinds
    BY DEF Kinds
  <2>2. Resumed(Current(keeper)) \in States
    BY <1>0, <2>1, NewStates
  <2> QED
    BY <1>2, <2>2, BeginType DEF ResumeDelay
<1>3. ASSUME NEW c \in Calls, NEW n \in Nodes, Adopt(c, n) PROVE CoordinatorType'
  <2> DEFINE state == Delayed(report[n].kind, Larger(Current(keeper).rev, report[n].rev) + 1,
                              resumes)
  <2>1. report[n] \in Records
    BY DEF AgentType, HeldRecords
  <2>2. state \in States
    BY <1>0, <1>r, <2>1 DEF Delayed, Larger, Records, States
  <2>3. Begin(c, "adopt", state) /\ UNCHANGED <<keeper, republish, unstored>>
    BY <1>3 DEF Adopt
  <2> HIDE DEF state
  <2> QED
    BY <2>2, <2>3, BeginType
<1>4. ASSUME NEW c \in Calls, NEW ok \in BOOLEAN, WriteStart(c, ok) PROVE CoordinatorType'
  <2> DEFINE state == IF call[c].reaffirm THEN call[c].state
                        ELSE [call[c].state EXCEPT !.since = resumes]
  <2>1. state \in States
    BY <1>r DEF Requests, States
  <2>2. /\ keeper' = IF call[c].reaffirm THEN SaveUnsaved(keeper, ok) ELSE Set(keeper, state, ok)
        /\ unstored' = (unstored \/ ~(call[c].reaffirm \/ Stores(keeper, state, ok)))
        /\ call' = [call EXCEPT ![c].step = "publishing", ![c].state = state]
        /\ UNCHANGED republish
    BY <1>4 DEF WriteStart
  <2> HIDE DEF state
  <2>3. keeper' \in Keepers /\ unstored' \in BOOLEAN
    BY <1>0, <2>1, <2>2
  <2>4. [call[c] EXCEPT !.step = "publishing", !.state = state] \in Requests
    BY <2>1 DEF Requests
  <2>5. call' = [call EXCEPT ![c] = [call[c] EXCEPT !.step = "publishing", !.state = state]]
    BY <2>2 DEF Requests
  <2>6. call' \in [Calls -> Requests]
    BY <2>4, <2>5
  <2> QED
    BY <2>2, <2>3, <2>6
<1>5. ASSUME NEW c \in Calls, NEW ok \in BOOLEAN, WriteResume(c, ok) PROVE CoordinatorType'
  <2> DEFINE state == [call[c].state EXCEPT !.since = resumes + 1]
  <2>1. state \in States
    BY <1>r DEF Requests, States
  <2>2. /\ keeper' = Set(keeper, state, ok)
        /\ unstored' = (unstored \/ ~Stores(keeper, state, ok))
        /\ \/ call' = [call EXCEPT ![c].step = "publishing", ![c].state = state]
           \/ call' = [call EXCEPT ![c] = IdleRequest]
        /\ UNCHANGED republish
    BY <1>5 DEF WriteResume
  <2> HIDE DEF state
  <2>3. keeper' \in Keepers /\ unstored' \in BOOLEAN
    BY <1>0, <2>1, <2>2
  <2>4. call' \in [Calls -> Requests]
    BY <1>i, <2>1, <2>2 DEF Requests
  <2> QED
    BY <2>2, <2>3, <2>4
<1>6. ASSUME NEW c \in Calls, NEW ok \in BOOLEAN, PublishAndSend(c, ok) PROVE CoordinatorType'
  BY <1>6, <1>i DEF PublishAndSend
<1>7. ASSUME NEW ok \in BOOLEAN, ReadToRepublish(ok) PROVE CoordinatorType'
  <2>1. keeper' \in Keepers
    BY <1>0, <1>7 DEF ReadToRepublish
  <2>2. Current(keeper') \in States
    BY <2>1, StatesAreTyped
  <2> QED
    BY <1>7, <2>1, <2>2 DEF ReadToRepublish
<1>8. ASSUME NEW ok \in BOOLEAN, Republish(ok) PROVE CoordinatorType'
  BY <1>8, <1>i DEF Republish
<1>9. CASE RestartCoordinator
  BY <1>0, <1>9, <1>i DEF RestartCoordinator
<1>10. CASE UNCHANGED coordinator
  BY <1>10 DEF coordinator
<1> QED
  BY <1>1, <1>2, <1>3, <1>4, <1>5, <1>6, <1>7, <1>8, <1>9, <1>10, DelaySteps
  DEF Deliver, Execute, StartHere, Disregard, Heartbeat, Reconnect, RestartNode, delayVars,
      coordinator

LEMMA TransportStep ==
  ASSUME CoordinatorType, TransportType, [DelayNext]_delayVars
  PROVE  TransportType'
<1> USE DEF TransportType
<1>1. ASSUME NEW c \in Calls, NEW ok \in BOOLEAN, PublishAndSend(c, ok) PROVE TransportType'
  <2>1. call[c].state \in States
    BY DEF CoordinatorType, Requests
  <2> QED
    BY <1>1, <2>1, PublishedType DEF PublishAndSend
<1>2. ASSUME NEW ok \in BOOLEAN, Republish(ok) PROVE TransportType'
  <2>1. republish.state \in States
    BY DEF CoordinatorType
  <2> QED
    BY <1>2, <2>1, PublishedType DEF Republish
<1>3. ASSUME NEW n \in Nodes, NEW ok \in BOOLEAN, Deliver(n, ok) PROVE TransportType'
  <2>1. inbox[n] \in Seq(States) /\ inbox[n] # <<>>
    BY <1>3 DEF Deliver
  <2>2. Tail(inbox[n]) \in Seq(States) /\ Len(Tail(inbox[n])) <= Lag
    BY <2>1, LagAssumption
  <2> QED
    BY <1>3, <2>2 DEF Deliver
<1>4. ASSUME NEW n \in Nodes, Reconnect(n) \/ RestartNode(n) PROVE TransportType'
  <2>1. <<retained>> \in Seq(States) /\ Len(<<retained>>) <= Lag
    BY LagAssumption
  <2> QED
    BY <1>4, <2>1 DEF Reconnect, RestartNode
<1>5. ASSUME NEW m \in commands, NEW ok \in BOOLEAN, Execute(m, ok) PROVE TransportType'
  BY <1>5 DEF Execute
<1>6. CASE UNCHANGED transport
  BY <1>6 DEF transport
<1> QED
  BY <1>1, <1>2, <1>3, <1>4, <1>5, <1>6, DelaySteps
  DEF StartDelay, ResumeDelay, Adopt, WriteStart, WriteResume, ReadToRepublish,
      RestartCoordinator, StartHere, Disregard, Heartbeat, delayVars, transport

LEMMA AgentStep ==
  ASSUME BoundsType, TransportType, AgentType, [DelayNext]_delayVars
  PROVE  AgentType'
<1>r. resumes \in Nat
  BY RequestsAssumption DEF BoundsType
<1>1. ASSUME NEW n \in Nodes, NEW r \in HeldRecords, NEW ok \in BOOLEAN, Hold(n, r, ok),
             UNCHANGED report
      PROVE  AgentType'
  BY <1>1, HoldType DEF AgentType
<1>2. ASSUME NEW n \in Nodes, NEW ok \in BOOLEAN, Deliver(n, ok) PROVE AgentType'
  <2>1. inbox[n] \in Seq(States) /\ inbox[n] # <<>>
    BY <1>2 DEF Deliver, TransportType
  <2>2. Head(inbox[n]) \in States /\ node[n] \in HeldRecords
    BY <2>1 DEF AgentType
  <2>3. Applied(node[n], Head(inbox[n])) \in HeldRecords
    BY <1>r, <2>2, RecordsAreTyped
  <2> QED
    BY <1>1, <1>2, <2>3 DEF Deliver
<1>3. ASSUME NEW m \in commands, NEW ok \in BOOLEAN, Execute(m, ok) PROVE AgentType'
  <2>1. m.node \in Nodes /\ m.kind \in Kinds \cup {"none"}
    BY DEF TransportType, Commands
  <2> DEFINE r == IF m.kind = "none" THEN Cleared(node[m.node])
                    ELSE StartedLocally(node[m.node], m.kind)
  <2>2. r \in HeldRecords
    BY <1>r, <2>1, RecordsAreTyped DEF AgentType
  <2>3. Hold(m.node, r, ok) /\ UNCHANGED report
    BY <1>3 DEF Execute
  <2> HIDE DEF r
  <2> QED
    BY <1>1, <2>1, <2>2, <2>3
<1>4. ASSUME NEW n \in Nodes, NEW kind \in Kinds, NEW ok \in BOOLEAN, StartHere(n, kind, ok)
      PROVE  AgentType'
  <2>1. StartedLocally(node[n], kind) \in HeldRecords
    BY <1>r, RecordsAreTyped DEF AgentType
  <2> QED
    BY <1>1, <1>4, <2>1 DEF StartHere
<1>5. ASSUME NEW n \in Nodes, RestartNode(n) PROVE AgentType'
  BY <1>5 DEF RestartNode, AgentType
<1>6. ASSUME NEW n \in Nodes, Heartbeat(n) PROVE AgentType'
  BY <1>6 DEF Heartbeat, AgentType
<1>7. ASSUME NEW n \in Nodes, Taken(n), UNCHANGED <<node, disk>> PROVE AgentType'
  BY <1>7, NewRecordType DEF Taken, AgentType
<1>8. CASE UNCHANGED agents
  BY <1>8 DEF agents, AgentType
<1> QED
  BY <1>2, <1>3, <1>4, <1>5, <1>6, <1>7, <1>8, DelaySteps
  DEF Adopt, Disregard, Reconnect, StartDelay, ResumeDelay, WriteStart, WriteResume,
      PublishAndSend, ReadToRepublish, Republish, RestartCoordinator, delayVars, agents

-----------------------------------------------------------------------------
\* A resume is counted by its request until the store has taken it or not.
LEMMA ResumesStep ==
  ASSUME CoordinatorType, BoundsType, ResumesInv, [DelayNext]_delayVars
  PROVE  ResumesInv' /\ resumes' \in 0..MaxRequests /\ requests' \in 0..MaxRequests
<1>0. /\ MaxRequests \in Nat /\ requests \in 0..MaxRequests /\ resumes \in 0..MaxRequests
      /\ call \in [Calls -> Requests]
      /\ IsFiniteSet(Resuming) /\ resumes + Cardinality(Resuming) <= requests
      /\ Cardinality(Resuming) \in Nat
  BY RequestsAssumption, FS_CardinalityType DEF CoordinatorType, BoundsType, ResumesInv
<1>e. ASSUME Resuming' \subseteq Resuming, resumes' = resumes,
             requests' = requests \/ Requested
      PROVE  ResumesInv' /\ resumes' \in 0..MaxRequests /\ requests' \in 0..MaxRequests
  <2>1. /\ IsFiniteSet(Resuming') /\ Cardinality(Resuming') <= Cardinality(Resuming)
        /\ Cardinality(Resuming') \in Nat
    BY <1>0, <1>e, FS_Subset, FS_CardinalityType
  <2>2. requests' \in 0..MaxRequests /\ requests' >= requests
    BY <1>0, <1>e DEF Requested
  <2> QED
    BY <1>0, <1>e, <2>1, <2>2 DEF ResumesInv
<1>i. IdleRequest.step = "idle"
  BY DEF IdleRequest
<1>1. ASSUME NEW c \in Calls, NEW op \in {"start", "adopt"}, NEW state, Begin(c, op, state),
             resumes' = resumes, requests' = requests \/ Requested
      PROVE  ResumesInv' /\ resumes' \in 0..MaxRequests /\ requests' \in 0..MaxRequests
  BY <1>0, <1>1, <1>e DEF Begin, Resuming, At
<1>2. ASSUME NEW c \in Calls, ResumeDelay(c)
      PROVE  ResumesInv' /\ resumes' \in 0..MaxRequests /\ requests' \in 0..MaxRequests
  <2>1. Resuming' \subseteq Resuming \cup {c}
    BY <1>0, <1>2 DEF ResumeDelay, Begin, Resuming, At
  <2>2. /\ IsFiniteSet(Resuming \cup {c})
        /\ Cardinality(Resuming \cup {c}) <= Cardinality(Resuming) + 1
    BY <1>0, FS_AddElement
  <2>3. /\ IsFiniteSet(Resuming') /\ Cardinality(Resuming') <= Cardinality(Resuming \cup {c})
        /\ Cardinality(Resuming') \in Nat /\ Cardinality(Resuming \cup {c}) \in Nat
    BY <2>1, <2>2, FS_Subset, FS_CardinalityType
  <2>4. resumes' = resumes /\ requests' = requests + 1 /\ requests < MaxRequests
    BY <1>2 DEF ResumeDelay, Requested
  <2> QED
    BY <1>0, <2>2, <2>3, <2>4 DEF ResumesInv
<1>3. ASSUME NEW c \in Calls, NEW ok \in BOOLEAN, WriteStart(c, ok) \/ PublishAndSend(c, ok)
      PROVE  ResumesInv' /\ resumes' \in 0..MaxRequests /\ requests' \in 0..MaxRequests
  <2>1. Resuming' \subseteq Resuming
    BY <1>0, <1>3, <1>i DEF WriteStart, PublishAndSend, Resuming, At, Requests
  <2> QED
    BY <1>3, <1>e, <2>1 DEF WriteStart, PublishAndSend
<1>4. ASSUME NEW c \in Calls, NEW ok \in BOOLEAN, WriteResume(c, ok)
      PROVE  ResumesInv' /\ resumes' \in 0..MaxRequests /\ requests' \in 0..MaxRequests
  <2>1. c \in Resuming /\ requests' = requests
    BY <1>4 DEF WriteResume, Resuming
  <2>2. IsFiniteSet(Resuming \ {c}) /\ Cardinality(Resuming \ {c}) = Cardinality(Resuming) - 1
    BY <1>0, <2>1, FS_RemoveElement
  <2>3. Resuming' \subseteq Resuming \ {c}
    <3>1. /\ \A d \in Calls \ {c} : call'[d] = call[d]
          /\ call'[c].step \in {"publishing", "idle"}
      BY <1>0, <1>4, <1>i DEF WriteResume, Requests
    <3> QED
      BY <3>1 DEF Resuming, At
  <2>4. resumes' \in {resumes, resumes + 1}
    BY <1>4 DEF WriteResume
  <2>5. /\ IsFiniteSet(Resuming') /\ Cardinality(Resuming') <= Cardinality(Resuming) - 1
        /\ Cardinality(Resuming') \in Nat
    BY <2>2, <2>3, FS_Subset, FS_CardinalityType
  <2> QED
    BY <1>0, <2>1, <2>4, <2>5 DEF ResumesInv
<1>5. CASE RestartCoordinator
  <2>1. Resuming' \subseteq Resuming
    BY <1>5, <1>i DEF RestartCoordinator, Resuming, At
  <2> QED
    BY <1>5, <1>e, <2>1 DEF RestartCoordinator
<1>6. ASSUME UNCHANGED <<call, resumes>>, requests' = requests \/ Requested
      PROVE  ResumesInv' /\ resumes' \in 0..MaxRequests /\ requests' \in 0..MaxRequests
  BY <1>6, <1>e DEF Resuming, At
<1> QED
  BY <1>1, <1>2, <1>3, <1>4, <1>5, <1>6, DelaySteps
  DEF StartDelay, Adopt, ReadToRepublish, Republish, Deliver, Execute, StartHere, Disregard,
      Heartbeat, Reconnect, RestartNode, delayVars, coordinator, bounds

LEMMA TroublesStep ==
  ASSUME BoundsType, [DelayNext]_delayVars
  PROVE  troubles' \in 0..MaxTroubles
<1>1. ASSUME UNCHANGED troubles \/ Troubled PROVE troubles' \in 0..MaxTroubles
  BY <1>1, TroublesAssumption DEF BoundsType, Troubled
<1> QED
  BY <1>1, DelaySteps
  DEF StartDelay, ResumeDelay, Adopt, WriteStart, WriteResume, PublishAndSend, ReadToRepublish,
      Republish, RestartCoordinator, Deliver, Execute, StartHere, Hold, Disregard, Heartbeat,
      Reconnect, RestartNode, MayFail, delayVars, bounds

-----------------------------------------------------------------------------
\* While the store takes what it is given, what is known stays known: a row is
\* written above the row before it, so what LastResume infers never goes down,
\* and a resume is above all that came before it.
LEMMA KnownStays ==
  ASSUME NEW stored \in States, NEW after \in States, NEW before \in Nat,
         NEW count \in Nat,
         \/ after = stored /\ count = before
         \/ after.rev > stored.rev /\ count = before
         \/ after.rev > stored.rev /\ ~IsActive(after)
  PROVE  \A rev, held, since \in Nat :
           held <= rev /\ rev <= stored.rev /\ (since < before => held < LastResume(stored))
             => rev <= after.rev /\ (since < count => held < LastResume(after))
BY DEF LastResume, IsActive, States

LEMMA ResumeStep ==
  ASSUME CoordinatorType, ResumeInv, [DelayNext]_delayVars
  PROVE  ResumeInv'
<1>0. call \in [Calls -> Requests]
  BY DEF CoordinatorType
<1>i. IdleRequest.step = "idle"
  BY DEF IdleRequest
<1>1. ASSUME NEW c \in Calls, NEW op, NEW state, Begin(c, op, state),
             op = "resume" => ~IsActive(state)
      PROVE  ResumeInv'
  BY <1>0, <1>1 DEF Begin, ResumeInv, Resuming, At
<1>2. ASSUME NEW c \in Calls, ResumeDelay(c) PROVE ResumeInv'
  <2>1. ~IsActive(Resumed(Current(keeper)))
    BY DEF Resumed, IsActive, NotActive
  <2> QED
    BY <1>1, <1>2, <2>1 DEF ResumeDelay
<1>3. ASSUME NEW c \in Calls, \A d \in Calls \ {c} : call'[d] = call[d],
             call'[c].step # "writing"
      PROVE  ResumeInv'
  BY <1>3 DEF ResumeInv, Resuming, At
<1>4. ASSUME NEW c \in Calls, NEW ok \in BOOLEAN,
             WriteStart(c, ok) \/ WriteResume(c, ok) \/ PublishAndSend(c, ok)
      PROVE  ResumeInv'
  <2>1. /\ \A d \in Calls \ {c} : call'[d] = call[d]
        /\ call'[c].step \in {"publishing", "idle"}
    BY <1>0, <1>4, <1>i DEF WriteStart, WriteResume, PublishAndSend, Requests
  <2> QED
    BY <1>3, <2>1
<1>5. CASE RestartCoordinator
  BY <1>5, <1>i DEF RestartCoordinator, ResumeInv, Resuming, At
<1>6. CASE UNCHANGED call
  BY <1>6 DEF ResumeInv, Resuming, At
<1> QED
  BY <1>1, <1>2, <1>4, <1>5, <1>6, DelaySteps
  DEF StartDelay, Adopt, ReadToRepublish, Republish, Deliver, Execute, StartHere, Disregard,
      Heartbeat, Reconnect, RestartNode, delayVars, coordinator

\* What a step does to the row while the store takes what it is given.
RowMoves ==
  \/ keeper'.stored = keeper.stored /\ resumes' = resumes
  \/ keeper'.stored.rev > keeper.stored.rev /\ (resumes' = resumes \/ ~IsActive(keeper'.stored))

LEMMA RowStep ==
  ASSUME CoordinatorType, BoundsType, ResumeInv, ~unstored => StoredInv,
         [DelayNext]_delayVars, ~unstored'
  PROVE  ~unstored /\ StoredInv' /\ RowMoves
<1>0. /\ keeper \in Keepers /\ call \in [Calls -> Requests]
      /\ unstored \in BOOLEAN /\ resumes \in Nat
  BY RequestsAssumption DEF CoordinatorType, BoundsType
<1>n. NothingUnsaved \in States /\ ~IsActive(NothingUnsaved)
  BY DEF NothingUnsaved, NotActive, States, IsActive
<1>1. ASSUME NEW c \in Calls, NEW ok \in BOOLEAN, WriteStart(c, ok)
      PROVE  ~unstored /\ StoredInv' /\ RowMoves
  <2>1. ~unstored /\ StoredInv
    BY <1>0, <1>1 DEF WriteStart
  <2>2. resumes' = resumes
    BY <1>1 DEF WriteStart
  <2>3. CASE call[c].reaffirm
    <3>1. keeper' = keeper
      BY <1>1, <2>1, <2>3 DEF WriteStart, SaveUnsaved, StoredInv
    <3> QED
      BY <2>1, <2>2, <3>1 DEF StoredInv, RowMoves
  <2>4. CASE ~call[c].reaffirm
    <3> DEFINE state == [call[c].state EXCEPT !.since = resumes]
    <3>1. state \in States /\ state.since = resumes
      BY <1>0 DEF Requests, States
    <3>2. keeper' = Set(keeper, state, ok) /\ Stores(keeper, state, ok)
      BY <1>1, <2>4 DEF WriteStart
    <3> HIDE DEF state
    <3>3. /\ keeper' = [stored |-> state, unsaved |-> NothingUnsaved]
          /\ state.rev > keeper.stored.rev
      BY <3>2 DEF Set, Stores, Accepts
    <3> QED
      BY <1>n, <2>1, <2>2, <3>1, <3>3 DEF StoredInv, RowMoves
  <2> QED
    BY <2>3, <2>4
<1>2. ASSUME NEW c \in Calls, NEW ok \in BOOLEAN, WriteResume(c, ok)
      PROVE  ~unstored /\ StoredInv' /\ RowMoves
  <2> DEFINE state == [call[c].state EXCEPT !.since = resumes + 1]
  <2>1. ~unstored /\ Stores(keeper, state, ok) /\ keeper' = Set(keeper, state, ok)
    BY <1>0, <1>2 DEF WriteResume
  <2>2. resumes' = resumes + 1 /\ c \in Resuming
    BY <1>2, <2>1 DEF WriteResume, Resuming
  <2>3. state.since = resumes + 1 /\ ~IsActive(state)
    BY <1>0, <2>2 DEF ResumeInv, IsActive, Requests, States
  <2> HIDE DEF state
  <2>4. /\ keeper' = [stored |-> state, unsaved |-> NothingUnsaved]
        /\ state.rev > keeper.stored.rev
    BY <2>1 DEF Set, Stores, Accepts
  <2> QED
    BY <1>n, <2>1, <2>2, <2>3, <2>4 DEF StoredInv, RowMoves
<1>3. ASSUME NEW ok \in BOOLEAN, ReadToRepublish(ok) PROVE ~unstored /\ StoredInv' /\ RowMoves
  <2>1. ~unstored /\ StoredInv
    BY <1>3 DEF ReadToRepublish
  <2>2. keeper' = keeper /\ resumes' = resumes
    BY <1>3, <2>1 DEF ReadToRepublish, SaveUnsaved, StoredInv
  <2> QED
    BY <2>1, <2>2 DEF StoredInv, RowMoves
<1>4. CASE RestartCoordinator
  <2>1. ~unstored /\ StoredInv
    BY <1>4 DEF RestartCoordinator
  <2>2. keeper'.stored = keeper.stored /\ ~IsActive(keeper'.unsaved) /\ resumes' = resumes
    BY <1>0, <1>4, <1>n DEF RestartCoordinator, Reopened, Keepers
  <2> QED
    BY <2>1, <2>2 DEF StoredInv, RowMoves
<1>5. CASE UNCHANGED <<keeper, resumes, unstored>>
  BY <1>5 DEF StoredInv, RowMoves
<1> QED
  BY <1>1, <1>2, <1>3, <1>4, <1>5, DelaySteps
  DEF StartDelay, ResumeDelay, Adopt, PublishAndSend, Republish, Deliver, Execute, StartHere,
      Disregard, Heartbeat, Reconnect, RestartNode, delayVars, coordinator

LEMMA KnownStep ==
  ASSUME CoordinatorType, CoordinatorType', BoundsType, BoundsType', RowMoves
  PROVE  /\ \A m \in States :
              Known(m, keeper.stored, resumes) => Known(m, keeper'.stored, resumes')
         /\ \A r \in HeldRecords :
              KnownRecord(r, keeper.stored, resumes) => KnownRecord(r, keeper'.stored, resumes')
<1>1. /\ keeper.stored \in States /\ keeper'.stored \in States
      /\ resumes \in Nat /\ resumes' \in Nat
  BY RequestsAssumption DEF CoordinatorType, BoundsType, Keepers
<1>2. \/ keeper'.stored = keeper.stored /\ resumes' = resumes
      \/ keeper'.stored.rev > keeper.stored.rev /\ resumes' = resumes
      \/ keeper'.stored.rev > keeper.stored.rev /\ ~IsActive(keeper'.stored)
  BY DEF RowMoves
<1>k. \A rev, held, since \in Nat :
        /\ held <= rev /\ rev <= keeper.stored.rev
        /\ since < resumes => held < LastResume(keeper.stored)
        => rev <= keeper'.stored.rev /\ (since < resumes' => held < LastResume(keeper'.stored))
  BY <1>1, <1>2, KnownStays
<1>3. ASSUME NEW m \in States, Known(m, keeper.stored, resumes)
      PROVE  Known(m, keeper'.stored, resumes')
  <2>1. m.rev \in Nat /\ m.since \in Nat /\ m.rev <= m.rev
    BY DEF States
  <2>2. m.rev <= keeper.stored.rev /\ (m.since < resumes => m.rev < LastResume(keeper.stored))
    BY <1>3 DEF Known
  <2>3. /\ m.rev <= keeper'.stored.rev
        /\ m.since < resumes' => m.rev < LastResume(keeper'.stored)
    BY <1>k, <2>1, <2>2
  <2> QED
    BY <2>3 DEF Known
<1>4. ASSUME NEW r \in HeldRecords, KnownRecord(r, keeper.stored, resumes)
      PROVE  KnownRecord(r, keeper'.stored, resumes')
  <2>1. r.rev \in Nat /\ r.held \in Nat /\ r.since \in Nat /\ r.held <= r.rev
    BY DEF HeldRecords, Records
  <2>2. CASE IsActive(r)
    <3>1. /\ r.rev <= keeper.stored.rev
          /\ r.since < resumes => r.held < LastResume(keeper.stored)
      BY <1>4, <2>2 DEF KnownRecord
    <3>2. /\ r.rev <= keeper'.stored.rev
          /\ r.since < resumes' => r.held < LastResume(keeper'.stored)
      BY <1>k, <2>1, <3>1
    <3> QED
      BY <3>2 DEF KnownRecord
  <2>3. CASE ~IsActive(r)
    BY <1>1, <1>2, <1>4, <2>1, <2>3 DEF KnownRecord, States
  <2> QED
    BY <2>2, <2>3
<1> QED
  BY <1>3, <1>4

-----------------------------------------------------------------------------
\* What leaves the coordinator is the row, or what was the row.
LEMMA StatesStep ==
  ASSUME CoordinatorType, CoordinatorType', BoundsType, BoundsType', TransportType,
         StoredInv, StoredInv', StatesKnown, RowMoves, ~unstored', [DelayNext]_delayVars
  PROVE  StatesKnown'
<1> DEFINE Now(m) == Known(m, keeper'.stored, resumes')
           CallsKnown == \A c \in Calls :
             call'[c].step = "publishing" \/ call'[c].reaffirm => Now(call'[c].state)
           LoopKnown == republish'.step = "holding" => Now(republish'.state)
           SentKnown == /\ Now(retained')
                        /\ \A n \in Nodes : \A i \in 1..Len(inbox'[n]) : Now(inbox'[n][i])
<1>0. /\ call \in [Calls -> Requests] /\ republish.state \in States /\ retained \in States
      /\ inbox \in [Nodes -> Seq(States)]
      /\ keeper \in Keepers /\ keeper' \in Keepers
      /\ resumes \in Nat /\ resumes' \in Nat
  BY RequestsAssumption DEF CoordinatorType, BoundsType, TransportType
<1>m. \A m \in States : Known(m, keeper.stored, resumes) => Now(m)
  BY KnownStep
<1>r. Now(keeper'.stored) /\ Current(keeper') = keeper'.stored /\ Current(keeper) = keeper.stored
  BY <1>0 DEF StoredInv, Known, Current, Keepers, States
<1>i. IdleRequest.step = "idle" /\ ~IdleRequest.reaffirm /\ NotRead.step = "idle"
  BY DEF IdleRequest, NotRead
<1> HIDE DEF Now
<1>c. \A c \in Calls : At(c, "publishing") \/ call[c].reaffirm => Now(call[c].state)
  BY <1>0, <1>m DEF StatesKnown, Requests
<1>p. republish.step = "holding" => Now(republish.state)
  BY <1>0, <1>m DEF StatesKnown
<1>b. Now(retained) /\ \A n \in Nodes : \A i \in 1..Len(inbox[n]) : Now(inbox[n][i])
  <2>1. ASSUME NEW n \in Nodes, NEW i \in 1..Len(inbox[n]) PROVE Now(inbox[n][i])
    <3>1. inbox[n][i] \in States
      BY <1>0
    <3> QED
      BY <1>m, <3>1 DEF StatesKnown
  <2> QED
    BY <1>0, <1>m, <2>1 DEF StatesKnown
<1>1. CallsKnown
  <2>1. ASSUME NEW c \in Calls, NEW op, NEW state, Begin(c, op, state), keeper' = keeper
        PROVE  CallsKnown
    <3>1. Now(Current(keeper))
      BY <1>r, <2>1
    <3> QED
      BY <1>0, <1>c, <2>1, <3>1 DEF Begin, At
  <2>2. ASSUME NEW c \in Calls, NEW ok \in BOOLEAN, WriteStart(c, ok) PROVE CallsKnown
    <3> DEFINE state == IF call[c].reaffirm THEN call[c].state
                          ELSE [call[c].state EXCEPT !.since = resumes]
    <3>1. call' = [call EXCEPT ![c].step = "publishing", ![c].state = state]
      BY <2>2 DEF WriteStart
    <3>2. Now(state)
      <4>1. CASE call[c].reaffirm
        BY <1>c, <4>1
      <4>2. CASE ~call[c].reaffirm
        <5>1. keeper' = Set(keeper, state, ok) /\ Stores(keeper, state, ok)
          BY <2>2, <4>2 DEF WriteStart
        <5> HIDE DEF state
        <5>2. keeper'.stored = state
          BY <5>1 DEF Set
        <5> QED
          BY <1>r, <5>2
      <4> QED
        BY <4>1, <4>2
    <3> HIDE DEF state
    <3> QED
      BY <1>0, <1>c, <3>1, <3>2 DEF At, Requests
  <2>3. ASSUME NEW c \in Calls, NEW ok \in BOOLEAN, WriteResume(c, ok) PROVE CallsKnown
    <3> DEFINE state == [call[c].state EXCEPT !.since = resumes + 1]
    <3>1. /\ keeper' = Set(keeper, state, ok) /\ Stores(keeper, state, ok)
          /\ call' = [call EXCEPT ![c].step = "publishing", ![c].state = state]
      BY <2>3 DEF WriteResume
    <3> HIDE DEF state
    <3>2. Now(state)
      BY <1>r, <3>1 DEF Set
    <3> QED
      BY <1>0, <1>c, <3>1, <3>2 DEF At, Requests
  <2>4. ASSUME NEW c \in Calls, NEW ok \in BOOLEAN, PublishAndSend(c, ok) PROVE CallsKnown
    BY <1>0, <1>c, <1>i, <2>4 DEF PublishAndSend, At
  <2>5. CASE RestartCoordinator
    BY <1>i, <2>5 DEF RestartCoordinator
  <2>6. CASE UNCHANGED call
    BY <1>c, <2>6 DEF At
  <2> QED
    BY <2>1, <2>2, <2>3, <2>4, <2>5, <2>6, DelaySteps
    DEF StartDelay, ResumeDelay, Adopt, ReadToRepublish, Republish, Deliver, Execute, StartHere,
        Disregard, Heartbeat, Reconnect, RestartNode, delayVars, coordinator
<1>2. LoopKnown
  <2>1. ASSUME NEW ok \in BOOLEAN, ReadToRepublish(ok) PROVE LoopKnown
    BY <1>r, <2>1 DEF ReadToRepublish
  <2>2. CASE republish' = NotRead
    BY <1>i, <2>2
  <2>3. CASE UNCHANGED republish
    BY <1>p, <2>3
  <2> QED
    BY <2>1, <2>2, <2>3, DelaySteps
    DEF StartDelay, ResumeDelay, Adopt, WriteStart, WriteResume, PublishAndSend, Republish,
        RestartCoordinator, Deliver, Execute, StartHere, Disregard, Heartbeat, Reconnect,
        RestartNode, delayVars, coordinator
<1>3. SentKnown
  <2>1. ASSUME NEW state, Now(state), NEW ok \in BOOLEAN,
               IF ok THEN PublishState(state) ELSE UNCHANGED <<retained, inbox>>
        PROVE  SentKnown
    <3>1. CASE ok
      <4>1. retained' = state /\ inbox' = [n \in Nodes |-> Append(inbox[n], state)]
        BY <2>1, <3>1 DEF PublishState
      <4>2. ASSUME NEW n \in Nodes, NEW i \in 1..Len(inbox'[n]) PROVE Now(inbox'[n][i])
        <5>1. inbox[n] \in Seq(States)
          BY <1>0
        <5>2. inbox'[n] = Append(inbox[n], state)
          BY <4>1
        <5>3. \/ i \in 1..Len(inbox[n]) /\ inbox'[n][i] = inbox[n][i]
              \/ inbox'[n][i] = state
          BY <4>2, <5>1, <5>2
        <5> QED
          BY <1>b, <2>1, <5>3
      <4> QED
        BY <2>1, <4>1, <4>2
    <3>2. CASE ~ok
      BY <1>b, <2>1, <3>2
    <3> QED
      BY <3>1, <3>2
  <2>2. ASSUME NEW c \in Calls, NEW ok \in BOOLEAN, PublishAndSend(c, ok) PROVE SentKnown
    BY <1>c, <2>1, <2>2 DEF PublishAndSend, At
  <2>3. ASSUME NEW ok \in BOOLEAN, Republish(ok) PROVE SentKnown
    BY <1>p, <2>1, <2>3 DEF Republish
  <2>4. ASSUME NEW n \in Nodes, NEW ok \in BOOLEAN, Deliver(n, ok) PROVE SentKnown
    <3>1. inbox[n] \in Seq(States) /\ inbox[n] # <<>> /\ UNCHANGED retained
      BY <1>0, <2>4 DEF Deliver
    <3>2. inbox' = [inbox EXCEPT ![n] = Tail(inbox[n])]
      BY <2>4 DEF Deliver
    <3>3. ASSUME NEW i \in 1..Len(Tail(inbox[n])) PROVE Now(Tail(inbox[n])[i])
      <4>1. i + 1 \in 1..Len(inbox[n]) /\ Tail(inbox[n])[i] = inbox[n][i + 1]
        BY <3>1
      <4> QED
        BY <1>b, <4>1
    <3> QED
      BY <1>0, <1>b, <3>1, <3>2, <3>3
  <2>5. ASSUME NEW n \in Nodes, Reconnect(n) \/ RestartNode(n) PROVE SentKnown
    <3>1. inbox' = [inbox EXCEPT ![n] = <<retained>>] /\ UNCHANGED retained
      BY <2>5 DEF Reconnect, RestartNode
    <3>2. \A i \in 1..Len(<<retained>>) : <<retained>>[i] = retained
      OBVIOUS
    <3> QED
      BY <1>0, <1>b, <3>1, <3>2
  <2>6. CASE UNCHANGED <<retained, inbox>>
    BY <1>b, <2>6
  <2> QED
    BY <2>2, <2>3, <2>4, <2>5, <2>6, DelaySteps
    DEF StartDelay, ResumeDelay, Adopt, WriteStart, WriteResume, ReadToRepublish,
        RestartCoordinator, Execute, StartHere, Disregard, Heartbeat, delayVars, transport
<1> QED
  BY <1>1, <1>2, <1>3 DEF StatesKnown, At, Now

\* What a holder makes of a known record and a known state is known: it keeps
\* the newest revision, and what it began here it began after every resume.
LEMMA RecordsAreKnown ==
  ASSUME NEW r \in HeldRecords, NEW row \in States, resumes \in Nat,
         KnownRecord(r, row, resumes)
  PROVE  /\ \A m \in States :
              Known(m, row, resumes) => KnownRecord(Applied(r, m), row, resumes)
         /\ \A kind \in Kinds : KnownRecord(StartedLocally(r, kind), row, resumes)
         /\ KnownRecord(Cleared(r), row, resumes)
<1> USE DEF HeldRecords, Records, KnownRecord
<1>1. ASSUME NEW m \in States, Known(m, row, resumes)
      PROVE  KnownRecord(Applied(r, m), row, resumes)
  <2> DEFINE seen == [r EXCEPT !.rev = Larger(@, m.rev)]
  <2>1. seen \in Records /\ KnownRecord(seen, row, resumes)
    BY <1>1 DEF Larger, States, Known, IsActive
  <2> HIDE DEF seen
  <2>2. KnownRecord(Entering(seen, m.kind, m.rev, m.since), row, resumes)
    BY <1>1, <2>1 DEF Entering, Known, IsActive
  <2>3. KnownRecord(Cleared(seen), row, resumes)
    BY <2>1 DEF Cleared, IsActive
  <2>4. Applied(r, m) \in {Entering(seen, m.kind, m.rev, m.since), Cleared(seen), seen}
    BY DEF Applied, seen
  <2> HIDE DEF KnownRecord
  <2> QED
    BY <2>1, <2>2, <2>3, <2>4
<1>2. ASSUME NEW kind \in Kinds PROVE KnownRecord(StartedLocally(r, kind), row, resumes)
  <2>1. ASSUME NEW held \in Nat PROVE KnownRecord(Entering(r, kind, held, resumes), row, resumes)
    BY <2>1 DEF Entering
  <2>2. r.rev \in Nat /\ r.held \in Nat
    OBVIOUS
  <2>3. StartedLocally(r, kind) \in
          {Entering(r, kind, r.rev, resumes), Entering(r, kind, r.held, resumes), r}
    BY DEF StartedLocally
  <2> HIDE DEF KnownRecord
  <2> QED
    BY <2>1, <2>2, <2>3
<1>3. KnownRecord(Cleared(r), row, resumes)
  BY DEF Cleared, IsActive
<1> QED
  BY <1>1, <1>2, <1>3

LEMMA RecordsStep ==
  ASSUME CoordinatorType, CoordinatorType', BoundsType, BoundsType', TransportType, AgentType,
         StatesKnown, RecordsKnown, RowMoves, [DelayNext]_delayVars
  PROVE  RecordsKnown'
<1> DEFINE Now(r) == KnownRecord(r, keeper'.stored, resumes')
           Row == keeper.stored
<1>0. /\ node \in [Nodes -> HeldRecords] /\ disk \in [Nodes -> HeldRecords]
      /\ report \in [Nodes -> HeldRecords]
      /\ inbox \in [Nodes -> Seq(States)]
      /\ Row \in States /\ keeper'.stored \in States
      /\ resumes \in Nat /\ resumes' \in Nat
  BY RequestsAssumption DEF CoordinatorType, BoundsType, TransportType, AgentType, Keepers
<1>k. \A n \in Nodes : Now(node[n]) /\ Now(disk[n]) /\ Now(report[n])
  BY <1>0, KnownStep DEF RecordsKnown
<1>n. Now(NewRecord)
  BY <1>0 DEF KnownRecord, NewRecord, IsActive, States
<1>q. ASSUME \A n \in Nodes : Now(node'[n]) /\ Now(disk'[n]) /\ Now(report'[n])
      PROVE  RecordsKnown'
  BY <1>q DEF RecordsKnown
<1> HIDE DEF Now
<1>1. ASSUME NEW n \in Nodes, NEW r, Now(r), NEW ok \in BOOLEAN, Hold(n, r, ok),
             UNCHANGED report
      PROVE  RecordsKnown'
  BY <1>0, <1>1, <1>k, <1>q DEF Hold
<1>2. ASSUME UNCHANGED <<keeper, resumes>>, NEW n \in Nodes
      PROVE  /\ \A m \in States : Known(m, Row, resumes) => Now(Applied(node[n], m))
             /\ \A kind \in Kinds : Now(StartedLocally(node[n], kind))
             /\ Now(Cleared(node[n]))
  <2>1. node[n] \in HeldRecords /\ KnownRecord(node[n], Row, resumes)
    BY <1>0 DEF RecordsKnown
  <2> QED
    BY <1>0, <1>2, <2>1, RecordsAreKnown DEF Now
<1>3. ASSUME NEW n \in Nodes, NEW ok \in BOOLEAN, Deliver(n, ok) PROVE RecordsKnown'
  <2>1. inbox[n] \in Seq(States) /\ inbox[n] # <<>>
    BY <1>0, <1>3 DEF Deliver
  <2>2. Head(inbox[n]) \in States /\ Known(Head(inbox[n]), Row, resumes)
    BY <2>1 DEF StatesKnown
  <2>3. /\ UNCHANGED <<keeper, resumes, report>>
        /\ Hold(n, Applied(node[n], Head(inbox[n])), ok)
    BY <1>3 DEF Deliver, coordinator
  <2>4. Now(Applied(node[n], Head(inbox[n])))
    BY <1>2, <2>2, <2>3
  <2> QED
    BY <1>1, <2>3, <2>4
<1>4. ASSUME NEW m \in commands, NEW ok \in BOOLEAN, Execute(m, ok) PROVE RecordsKnown'
  <2> DEFINE r == IF m.kind = "none" THEN Cleared(node[m.node])
                    ELSE StartedLocally(node[m.node], m.kind)
  <2>1. m.node \in Nodes /\ m.kind \in Kinds \cup {"none"}
    BY DEF TransportType, Commands
  <2>2. Hold(m.node, r, ok) /\ UNCHANGED <<keeper, resumes, report>>
    BY <1>4 DEF Execute, coordinator
  <2>3. Now(r)
    BY <1>2, <2>1, <2>2
  <2> HIDE DEF r
  <2> QED
    BY <1>1, <2>1, <2>2, <2>3
<1>5. ASSUME NEW n \in Nodes, NEW kind \in Kinds, NEW ok \in BOOLEAN, StartHere(n, kind, ok)
      PROVE  RecordsKnown'
  <2>1. /\ UNCHANGED <<keeper, resumes, report>>
        /\ Hold(n, StartedLocally(node[n], kind), ok)
    BY <1>5 DEF StartHere, coordinator
  <2>2. Now(StartedLocally(node[n], kind))
    BY <1>2, <2>1
  <2> QED
    BY <1>1, <2>1, <2>2
<1>6. ASSUME NEW n \in Nodes, RestartNode(n) PROVE RecordsKnown'
  BY <1>0, <1>6, <1>k, <1>q DEF RestartNode
<1>7. ASSUME NEW n \in Nodes, Heartbeat(n) PROVE RecordsKnown'
  BY <1>0, <1>7, <1>k, <1>q DEF Heartbeat
<1>8. ASSUME NEW n \in Nodes, Taken(n), UNCHANGED <<node, disk>> PROVE RecordsKnown'
  BY <1>0, <1>8, <1>k, <1>n, <1>q DEF Taken
<1>9. CASE UNCHANGED agents
  BY <1>9, <1>k, <1>q DEF agents
<1> QED
  BY <1>3, <1>4, <1>5, <1>6, <1>7, <1>8, <1>9, DelaySteps
  DEF Adopt, Disregard, Reconnect, StartDelay, ResumeDelay, WriteStart, WriteResume,
      PublishAndSend, ReadToRepublish, Republish, RestartCoordinator, delayVars, agents

\* A start or an adoption reads the row and makes the next revision; whatever is
\* written until it is stored takes that revision away.
LEMMA WritesStep ==
  ASSUME CoordinatorType, CoordinatorType', AgentType, StoredInv, RecordsKnown, WritesInv,
         RowMoves, BoundsType, [DelayNext]_delayVars
  PROVE  WritesInv'
<1>0. /\ call \in [Calls -> Requests] /\ call' \in [Calls -> Requests]
      /\ keeper.stored \in States /\ keeper'.stored \in States
      /\ Current(keeper) = keeper.stored /\ resumes \in Nat
  BY RequestsAssumption DEF CoordinatorType, BoundsType, StoredInv, Current, Keepers
<1>r. \/ keeper'.stored = keeper.stored
      \/ keeper'.stored.rev > keeper.stored.rev
  BY DEF RowMoves
<1>c. ASSUME NEW c \in Calls, call'[c] = call[c] \/ call'[c].step # "writing"
      PROVE  DelayPrecedesCancel(c)'
  <2>1. DelayPrecedesCancel(c)
    BY DEF WritesInv
  <2>2. call[c].state.rev \in Nat /\ keeper.stored.rev \in Nat /\ keeper'.stored.rev \in Nat
    BY <1>0 DEF Requests, States
  <2> QED
    BY <1>c, <1>r, <2>1, <2>2 DEF DelayPrecedesCancel, At
<1>b. ASSUME NEW c \in Calls, NEW op, NEW state \in States, Begin(c, op, state),
             keeper' = keeper,
             \/ state.kind # "delay" \/ (op = "start" /\ state = keeper.stored)
             \/ state.rev <= keeper.stored.rev + 1 /\ keeper.stored.kind # "cancelNight"
      PROVE  WritesInv'
  <2>1. \A d \in Calls \ {c} : call'[d] = call[d]
    BY <1>0, <1>b DEF Begin
  <2>2. /\ call'[c].state = state
        /\ call'[c].reaffirm = (op = "start" /\ state = keeper.stored)
    BY <1>0, <1>b DEF Begin
  <2>3. DelayPrecedesCancel(c)'
    BY <1>0, <1>b, <2>2 DEF DelayPrecedesCancel, States
  <2> QED
    BY <1>c, <2>1, <2>3 DEF WritesInv
<1>1. ASSUME NEW c \in Calls, NEW kind \in Kinds, StartDelay(c, kind) PROVE WritesInv'
  <2> DEFINE state == Entered(keeper.stored, kind, keeper.stored.rev + 1)
  <2>1. state \in States
    BY <1>0, NewStates
  <2>2. Begin(c, "start", state) /\ keeper' = keeper
    BY <1>0, <1>1 DEF StartDelay
  <2>3. \/ state = keeper.stored \/ state.kind # "delay"
        \/ state.rev = keeper.stored.rev + 1 /\ keeper.stored.kind # "cancelNight"
    BY <1>0 DEF Entered, Reaffirms, Delayed, IsActive, States
  <2> HIDE DEF state
  <2> QED
    BY <1>0, <1>b, <2>1, <2>2, <2>3 DEF States
<1>2. ASSUME NEW c \in Calls, ResumeDelay(c) PROVE WritesInv'
  <2>1. Resumed(Current(keeper)) \in States /\ Resumed(Current(keeper)).kind # "delay"
    BY <1>0 DEF Resumed, NotActive, States
  <2> QED
    BY <1>2, <1>b, <2>1 DEF ResumeDelay
<1>3. ASSUME NEW c \in Calls, NEW n \in Nodes, Adopt(c, n) PROVE WritesInv'
  <2> DEFINE state == Delayed(report[n].kind, Larger(Current(keeper).rev, report[n].rev) + 1,
                              resumes)
  <2>1. report[n] \in Records /\ report[n].rev <= keeper.stored.rev
    BY DEF AgentType, HeldRecords, RecordsKnown, KnownRecord
  <2>2. state \in States /\ state.kind = report[n].kind /\ state.rev = keeper.stored.rev + 1
    BY <1>0, <2>1 DEF Delayed, Larger, Records, States
  <2>3. /\ Begin(c, "adopt", state) /\ keeper' = keeper
        /\ keeper.stored.kind # "cancelNight" \/ report[n].kind = "cancelNight"
    BY <1>0, <1>3 DEF Adopt, Adoptable, IsActive
  <2> HIDE DEF state
  <2> QED
    BY <1>0, <1>b, <2>2, <2>3 DEF States
<1>4. ASSUME NEW c \in Calls, NEW ok \in BOOLEAN,
             WriteStart(c, ok) \/ WriteResume(c, ok) \/ PublishAndSend(c, ok)
      PROVE  WritesInv'
  <2>1. /\ \A d \in Calls \ {c} : call'[d] = call[d]
        /\ call'[c].step \in {"publishing", "idle"}
    BY <1>0, <1>4 DEF WriteStart, WriteResume, PublishAndSend, Requests, IdleRequest
  <2> QED
    BY <1>c, <2>1 DEF WritesInv
<1>5. CASE RestartCoordinator
  BY <1>5, <1>c DEF RestartCoordinator, IdleRequest, WritesInv
<1>6. CASE UNCHANGED call
  BY <1>6, <1>c DEF WritesInv
<1> QED
  BY <1>1, <1>2, <1>3, <1>4, <1>5, <1>6, DelaySteps
  DEF ReadToRepublish, Republish, Deliver, Execute, StartHere, Disregard, Heartbeat, Reconnect,
      RestartNode, delayVars, coordinator

-----------------------------------------------------------------------------
\* The inductive invariant of the delay between the coordinator and the nodes.
THEOREM DelayInvariance == DelaySpec => []DelayInv
<1>1. DelayInit => DelayInv
  <2> SUFFICES ASSUME DelayInit PROVE DelayInv
    OBVIOUS
  <2>0. NotActive(0, 0) \in States /\ ~IsActive(NotActive(0, 0)) /\ NotActive(0, 0).rev = 0
    BY DEF NotActive, States, IsActive
  <2>1. CoordinatorType
    <3>1. IdleRequest \in Requests
      BY <2>0 DEF IdleRequest, Requests
    <3>2. NotRead \in [step : {"idle", "holding"}, state : States]
      BY <2>0 DEF NotRead
    <3>3. NewKeeper \in Keepers
      BY <2>0 DEF NewKeeper, NothingUnsaved, Keepers
    <3> QED
      BY <3>1, <3>2, <3>3 DEF DelayInit, CoordinatorType
  <2>2. BoundsType
    BY RequestsAssumption, TroublesAssumption DEF DelayInit, BoundsType
  <2>3. TransportType
    BY <2>0, LagAssumption DEF DelayInit, TransportType
  <2>4. AgentType
    BY NewRecordType DEF DelayInit, AgentType
  <2>5. Resuming = {}
    BY DEF DelayInit, Resuming, At, IdleRequest
  <2>6. ResumesInv /\ ResumeInv
    BY <2>5, FS_EmptySet DEF DelayInit, ResumesInv, ResumeInv
  <2>7. keeper.stored = NotActive(0, 0) /\ keeper.unsaved = NotActive(0, 0) /\ resumes = 0
    BY DEF DelayInit, NewKeeper, NothingUnsaved
  <2>8. Known(retained, keeper.stored, resumes)
    BY <2>7 DEF DelayInit, Known, NotActive
  <2>9. StoredInv /\ StatesKnown
    BY <2>0, <2>7, <2>8
    DEF DelayInit, StoredInv, StatesKnown, NotActive, NotRead, IdleRequest, At
  <2>10. KnownRecord(NewRecord, keeper.stored, resumes)
    BY <2>0, <2>7 DEF KnownRecord, NewRecord, IsActive
  <2>11. RecordsKnown
    BY <2>10 DEF DelayInit, RecordsKnown
  <2>12. WritesInv
    BY DEF DelayInit, WritesInv, DelayPrecedesCancel, At, IdleRequest
  <2> QED
    BY <2>1, <2>2, <2>3, <2>4, <2>6, <2>9, <2>11, <2>12 DEF DelayInv
<1>2. DelayInv /\ [DelayNext]_delayVars => DelayInv'
  <2> SUFFICES ASSUME DelayInv, [DelayNext]_delayVars PROVE DelayInv'
    OBVIOUS
  <2> USE DEF DelayInv
  <2>1. CoordinatorType' /\ TransportType' /\ AgentType'
    BY CoordinatorStep, TransportStep, AgentStep
  <2>2. BoundsType' /\ ResumesInv' /\ ResumeInv'
    BY ResumesStep, ResumeStep, TroublesStep DEF BoundsType
  <2>3. ASSUME ~unstored' PROVE StoredInv' /\ StatesKnown' /\ RecordsKnown' /\ WritesInv'
    <3>1. ~unstored /\ StoredInv' /\ RowMoves
      BY <2>3, RowStep
    <3>2. StoredInv /\ StatesKnown /\ RecordsKnown /\ WritesInv
      BY <3>1
    <3> QED
      BY <2>1, <2>2, <2>3, <3>1, <3>2, StatesStep, RecordsStep, WritesStep
  <2> QED
    BY <2>1, <2>2, <2>3
<1> QED
  BY <1>1, <1>2, PTL DEF DelaySpec

\* Coordinator, messages, commands and nodes are what the code's types and the
\* bounds of the model allow, in every reachable state; no node holds a revision
\* above the newest it has seen.
THEOREM DelayTypeCorrect == DelaySpec => []DelayTypeOK
<1>1. DelayInv => DelayTypeOK
  <2> SUFFICES ASSUME DelayInv PROVE DelayTypeOK
    OBVIOUS
  <2>1. /\ node \in [Nodes -> Records] /\ disk \in [Nodes -> Records]
        /\ report \in [Nodes -> Records] /\ \A n \in Nodes : node[n].held <= node[n].rev
    BY DEF DelayInv, AgentType, HeldRecords
  <2> QED
    BY <2>1
    DEF DelayInv, CoordinatorType, BoundsType, TransportType, Requests, Keepers, DelayTypeOK
<1> QED
  BY <1>1, DelayInvariance, PTL

\* Revisions are enough to tell a delay that was resumed from one that was not,
\* with no clock and whatever was lost, late or restarted: a report is adopted
\* only if the delay began after the last resume, as long as the store took
\* every state.
THEOREM AdoptedIsNotResumed == DelaySpec => AdoptedDelayIsNotResumed
<1> DEFINE Rule ==
      \A c \in Calls, n \in Nodes :
        Adopt(c, n) /\ ~unstored => report[n].since >= Current(keeper).since
<1>1. DelayInv /\ [DelayNext]_delayVars => [Rule]_delayVars
  <2> SUFFICES ASSUME DelayInv, NEW c \in Calls, NEW n \in Nodes, Adopt(c, n), ~unstored
               PROVE  report[n].since >= Current(keeper).since
    OBVIOUS
  <2>1. IsActive(report[n]) /\ report[n].held >= LastResume(Current(keeper))
    BY DEF Adopt, Adoptable, Fresh
  <2>2. Current(keeper) = keeper.stored /\ keeper.stored.since = resumes
    BY DEF DelayInv, StoredInv, Current
  <2>3. report[n].since < resumes => report[n].held < LastResume(keeper.stored)
    BY <2>1 DEF DelayInv, RecordsKnown, KnownRecord
  <2>4. /\ report[n].since \in Nat /\ report[n].held \in Nat /\ resumes \in Nat
        /\ keeper.stored \in States
    BY RequestsAssumption
    DEF DelayInv, AgentType, BoundsType, CoordinatorType, HeldRecords, Records, Keepers
  <2>5. LastResume(keeper.stored) \in Int
    BY <2>4 DEF LastResume, States
  <2> QED
    BY <2>1, <2>2, <2>3, <2>4, <2>5
<1> QED
  BY <1>1, DelayInvariance, PTL DEF DelaySpec, AdoptedDelayIsNotResumed

\* A cancelled night becomes a delay only after the store did not take a state:
\* what a start makes of the state it read, in weatherDelayRunStartOrChange, is
\* refused if a cancellation got in between, and nothing else can undo one.
CancelUndoneOnlyAfterRefusal ==
  [][Current(keeper).kind = "cancelNight" /\ ~unstored'
       => Current(keeper)'.kind # "delay"]_delayVars

\* The write that weather_uncancelled finds is the only way: as long as the store
\* has taken every state, a cancelled night is ended by a resume, whatever starts,
\* cancellations and adoptions race, and whatever is lost or restarted.
THEOREM NightStaysCancelledWhileStored == DelaySpec => CancelUndoneOnlyAfterRefusal
<1> DEFINE Rule ==
      Current(keeper).kind = "cancelNight" /\ ~unstored' => Current(keeper)'.kind # "delay"
<1>1. DelayInv /\ DelayInv' /\ [DelayNext]_delayVars => [Rule]_delayVars
  <2> SUFFICES ASSUME DelayInv, DelayInv', [DelayNext]_delayVars,
                      Current(keeper).kind = "cancelNight", ~unstored'
               PROVE  Current(keeper)'.kind # "delay"
    OBVIOUS
  <2>1. ~unstored /\ StoredInv /\ StoredInv' /\ WritesInv /\ RowMoves
    BY RowStep DEF DelayInv
  <2>2. Current(keeper) = keeper.stored /\ Current(keeper)' = keeper'.stored
    BY <2>1 DEF StoredInv, Current
  <2>3. keeper.stored \in States /\ call \in [Calls -> Requests] /\ unstored \in BOOLEAN
    BY DEF DelayInv, CoordinatorType, Keepers
  <2>4. ASSUME NEW c \in Calls, NEW ok \in BOOLEAN, WriteStart(c, ok)
        PROVE  keeper'.stored.kind # "delay"
    <3>1. CASE call[c].reaffirm
      BY <2>1, <2>2, <2>4, <3>1 DEF WriteStart, SaveUnsaved, StoredInv
    <3>2. CASE ~call[c].reaffirm
      <4> DEFINE state == [call[c].state EXCEPT !.since = resumes]
      <4>1. keeper' = Set(keeper, state, ok) /\ Stores(keeper, state, ok) /\ At(c, "writing")
        BY <2>4, <3>2 DEF WriteStart
      <4>2. state.rev = call[c].state.rev /\ state.kind = call[c].state.kind
        BY <2>3 DEF Requests, States
      <4> HIDE DEF state
      <4>3. keeper'.stored = state /\ state.rev > keeper.stored.rev
        BY <4>1 DEF Set, Stores, Accepts
      <4>4. ~(call[c].state.rev <= keeper.stored.rev)
        BY <2>3, <4>2, <4>3 DEF Requests, States
      <4>5. call[c].state.kind # "delay"
        BY <2>1, <2>2, <3>2, <4>1, <4>4 DEF WritesInv, DelayPrecedesCancel
      <4> QED
        BY <4>2, <4>3, <4>5
    <3> QED
      BY <3>1, <3>2
  <2>5. ASSUME NEW c \in Calls, NEW ok \in BOOLEAN, WriteResume(c, ok)
        PROVE  keeper'.stored.kind # "delay"
    <3> DEFINE state == [call[c].state EXCEPT !.since = resumes + 1]
    <3>1. keeper' = Set(keeper, state, ok) /\ Stores(keeper, state, ok) /\ c \in Resuming
      BY <2>3, <2>5 DEF WriteResume, Resuming
    <3>2. state.kind = "none"
      BY <2>3, <3>1 DEF DelayInv, ResumeInv, Resuming, IsActive, Requests, States
    <3> HIDE DEF state
    <3> QED
      BY <3>1, <3>2 DEF Set
  <2>6. CASE keeper'.stored = keeper.stored
    BY <2>2, <2>6
  <2>7. ASSUME NEW ok \in BOOLEAN, ReadToRepublish(ok) PROVE keeper'.stored = keeper.stored
    BY <2>1, <2>7 DEF ReadToRepublish, SaveUnsaved, StoredInv
  <2>8. ASSUME RestartCoordinator PROVE keeper'.stored = keeper.stored
    <3>1. keeper \in Keepers
      BY DEF DelayInv, CoordinatorType
    <3> QED
      BY <2>8, <3>1 DEF RestartCoordinator, Reopened, Keepers
  <2> QED
    BY <2>2, <2>4, <2>5, <2>6, <2>7, <2>8, DelaySteps
    DEF StartDelay, ResumeDelay, Adopt, PublishAndSend, Republish, Deliver, Execute, StartHere,
        Disregard, Heartbeat, Reconnect, RestartNode, delayVars, coordinator
<1> QED
  BY <1>1, DelayInvariance, PTL DEF DelaySpec, CancelUndoneOnlyAfterRefusal
=============================================================================
