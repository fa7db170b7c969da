---------------------------- MODULE WeatherDelay ----------------------------
(***************************************************************************)
(* A weather delay between the coordinator and the nodes                   *)
(* (internal/coordinator/api/weatherdelay.go, weatherdelayadopt.go,        *)
(* internal/coordinator/weatherdelay.go, internal/agent/weatherdelay.go,   *)
(* weatherdelayops.go).                                                    *)
(*                                                                         *)
(* Starting is accepted on every path: the retained state, the start       *)
(* command over MQTT and HTTP, and a pre-signed start no coordinator takes *)
(* part in, which the coordinator learns of from the node's heartbeat and  *)
(* adopts.  A resume is accepted by the coordinator alone.  Revisions, and *)
(* no clock, tell a delay that began before the last resume from one that  *)
(* began after it.                                                         *)
(*                                                                         *)
(* Left out: reads of the store that fail, the alert plan and the alert's  *)
(* audio, the stops and the gates (WeatherControl), the night session.     *)
(***************************************************************************)
EXTENDS WeatherState, Sequences

CONSTANTS
  Nodes,
  Lag,          \* bound: state messages on their way to a node
  MaxTroubles   \* bound: writes and publications that fail, restarts, lost sessions

ASSUME LagAssumption == Lag \in Nat \ {0}
ASSUME TroublesAssumption == MaxTroubles \in Nat

VARIABLES
  retained,  \* the state message the broker keeps
  inbox,     \* inbox[n]: state messages on their way to n
  commands,  \* start and resume commands on their way, in no order
  node,      \* node[n]: the record the agent holds
  disk,      \* disk[n]: the record it last saved
  report,    \* report[n]: the record on n's latest heartbeat
  republish, \* the state the republish loop has read and not published
  resumes,   \* history: resumes the store took
  unstored,  \* history: the store once did not take a state
  troubles

coordinator == <<keeper, call, republish, resumes, unstored>>
transport == <<retained, inbox, commands>>
agents == <<node, disk, report>>
bounds == <<requests, troubles>>
delayVars == <<keeper, call, republish, resumes, unstored, retained, inbox, commands,
          node, disk, report, requests, troubles>>

Records == [kind : Kinds \cup {"none"}, rev : Nat, held : Nat, since : Nat]
Commands == [node : Nodes, kind : Kinds \cup {"none"}]

IdleRequest == [step |-> "idle", op |-> "none", state |-> NotActive(0, 0), reaffirm |-> FALSE]
NotRead == [step |-> "idle", state |-> NotActive(0, 0)]
NewRecord == [kind |-> "none", rev |-> 0, held |-> 0, since |-> 0]

DelayTypeOK ==
  /\ keeper \in [stored : States, unsaved : States]
  /\ call \in [Calls -> [step : {"idle", "writing", "publishing"},
                         op : {"none", "start", "resume", "adopt"},
                         state : States, reaffirm : BOOLEAN]]
  /\ republish \in [step : {"idle", "holding"}, state : States]
  /\ retained \in States
  /\ inbox \in [Nodes -> Seq(States)]
  /\ \A n \in Nodes : Len(inbox[n]) <= Lag
  /\ commands \subseteq Commands
  /\ node \in [Nodes -> Records] /\ disk \in [Nodes -> Records]
  /\ \A n \in Nodes : node[n].held <= node[n].rev
  /\ report \in [Nodes -> Records]
  /\ resumes \in 0..MaxRequests /\ unstored \in BOOLEAN
  /\ requests \in 0..MaxRequests /\ troubles \in 0..MaxTroubles

DelayInit ==
  /\ keeper = NewKeeper
  /\ call = [c \in Calls |-> IdleRequest]
  /\ republish = NotRead
  /\ retained = NotActive(0, 0)
  /\ inbox = [n \in Nodes |-> <<>>]
  /\ commands = {}
  /\ node = [n \in Nodes |-> NewRecord] /\ disk = node /\ report = node
  /\ resumes = 0 /\ unstored = FALSE
  /\ requests = 0 /\ troubles = 0

Requested == requests < MaxRequests /\ requests' = requests + 1

Troubled == troubles < MaxTroubles /\ troubles' = troubles + 1

\* A write or a publication succeeds, or fails within the bound.
MayFail(ok) == IF ok THEN UNCHANGED troubles ELSE Troubled

-----------------------------------------------------------------------------
(***************************************************************************)
(* A request: read the state, write the one it makes, publish it, send the *)
(* commands.  Requests run side by side.                                   *)
(***************************************************************************)
Begin(c, op, state) ==
  /\ At(c, "idle")
  /\ call' = [call EXCEPT ![c] =
                [step |-> "writing", op |-> op, state |-> state,
                 reaffirm |-> op = "start" /\ state = Current(keeper)]]

StartDelay(c, kind) ==
  /\ Requested
  /\ Begin(c, "start", Entered(Current(keeper), kind, Current(keeper).rev + 1))
  /\ UNCHANGED <<keeper, republish, resumes, unstored, transport, agents, troubles>>

ResumeDelay(c) ==
  /\ Requested
  /\ Begin(c, "resume", Resumed(Current(keeper)))
  /\ UNCHANGED <<keeper, republish, resumes, unstored, transport, agents, troubles>>

\* The revision of the newest state that was not active, as adoption infers it.
LastResume(current) == IF IsActive(current) THEN current.rev - 1 ELSE current.rev

\* Mutation of Fresh: one revision more is let through.
FreshOrOlder(current, r) == r.held + 1 >= LastResume(current)

\* The reported delay began after the last resume, for all its node had seen.
Fresh(current, r) == r.held >= LastResume(current)

\* Mutation of Adoptable: a cancelled night is not adopted over a delay.
AdoptableWhenIdle(r) ==
  /\ IsActive(r) /\ ~IsActive(Current(keeper))
  /\ Fresh(Current(keeper), r)

Adoptable(r) ==
  /\ IsActive(r)
  /\ \/ ~IsActive(Current(keeper))
     \/ Current(keeper).kind = "delay" /\ r.kind = "cancelNight"
  /\ Fresh(Current(keeper), r)

\* One adoption at a time: a report that comes during one is dropped.
Adopting == \E c \in Calls : call[c].op = "adopt"

Taken(n) == report' = [report EXCEPT ![n] = NewRecord]

Adopt(c, n) ==
  /\ ~Adopting
  /\ Adoptable(report[n])
  /\ Begin(c, "adopt", Delayed(report[n].kind,
                               Larger(Current(keeper).rev, report[n].rev) + 1, resumes))
  /\ Taken(n)
  /\ UNCHANGED <<keeper, republish, resumes, unstored, transport, node, disk, bounds>>

Disregard(n) ==
  /\ IsActive(report[n])
  /\ Adopting \/ ~Adoptable(report[n])
  /\ Taken(n)
  /\ UNCHANGED <<coordinator, transport, node, disk, bounds>>

\* The revision is the one read; since is the moment the state takes effect.
WriteStart(c, ok) ==
  LET state == IF call[c].reaffirm THEN call[c].state
                 ELSE [call[c].state EXCEPT !.since = resumes]
  IN
  /\ At(c, "writing") /\ call[c].op # "resume"
  /\ MayFail(ok)
  /\ keeper' = IF call[c].reaffirm THEN SaveUnsaved(keeper, ok) ELSE Set(keeper, state, ok)
  /\ unstored' = (unstored \/ ~(call[c].reaffirm \/ Stores(keeper, state, ok)))
  /\ call' = [call EXCEPT ![c].step = "publishing", ![c].state = state]
  /\ UNCHANGED <<republish, resumes, transport, agents, requests>>

\* A resume whose state is not stored is answered with an error and goes no
\* further.
WriteResume(c, ok) ==
  LET state == [call[c].state EXCEPT !.since = resumes + 1] IN
  /\ At(c, "writing") /\ call[c].op = "resume"
  /\ MayFail(ok)
  /\ keeper' = Set(keeper, state, ok)
  /\ unstored' = (unstored \/ ~Stores(keeper, state, ok))
  /\ IF Stores(keeper, state, ok)
       THEN /\ call' = [call EXCEPT ![c].step = "publishing", ![c].state = state]
            /\ resumes' = resumes + 1
       ELSE call' = [call EXCEPT ![c] = IdleRequest] /\ UNCHANGED resumes
  /\ UNCHANGED <<republish, transport, agents, requests>>

\* Every node gets the message while its inbox has room: a bound.
PublishState(state) ==
  /\ \A n \in Nodes : Len(inbox[n]) < Lag
  /\ retained' = state
  /\ inbox' = [n \in Nodes |-> Append(inbox[n], state)]

\* The commands are sent whether or not the state was published.  They arrive
\* in any order, at any time or never, so one step stands for the publication,
\* the dispatch that follows it, and both paths of a start.
PublishAndSend(c, ok) ==
  /\ At(c, "publishing")
  /\ MayFail(ok)
  /\ IF ok THEN PublishState(call[c].state) ELSE UNCHANGED <<retained, inbox>>
  /\ commands' = commands \cup {m \in Commands : m.kind = call[c].state.kind}
  /\ call' = [call EXCEPT ![c] = IdleRequest]
  /\ UNCHANGED <<keeper, republish, resumes, unstored, agents, requests>>

-----------------------------------------------------------------------------
(***************************************************************************)
(* runWeatherDelay, the republish loop, and the coordinator's restart.     *)
(***************************************************************************)
ReadToRepublish(ok) ==
  LET k == SaveUnsaved(keeper, ok) IN
  /\ republish.step = "idle"
  /\ IF IsActive(keeper.unsaved) THEN MayFail(ok) ELSE ok /\ UNCHANGED troubles
  /\ keeper' = k
  /\ republish' = [step |-> "holding", state |-> Current(k)]
  /\ UNCHANGED <<call, resumes, unstored, transport, agents, requests>>

Republish(ok) ==
  /\ republish.step = "holding"
  /\ MayFail(ok)
  /\ IF ok THEN PublishState(republish.state) ELSE UNCHANGED <<retained, inbox>>
  /\ republish' = NotRead
  /\ UNCHANGED <<keeper, call, resumes, unstored, commands, agents, requests>>

RestartCoordinator ==
  /\ Troubled
  /\ keeper' = Reopened(keeper)
  /\ call' = [c \in Calls |-> IdleRequest]
  /\ republish' = NotRead
  /\ UNCHANGED <<resumes, unstored, transport, agents, requests>>

-----------------------------------------------------------------------------
(***************************************************************************)
(* A node.  A record in memory counts at once, whether it is saved or not. *)
(***************************************************************************)

Hold(n, r, ok) ==
  /\ MayFail(ok)
  /\ node' = [node EXCEPT ![n] = r]
  /\ disk' = IF ok THEN [disk EXCEPT ![n] = r] ELSE disk

Cleared(r) == [r EXCEPT !.kind = "none"]

Entering(r, kind, held, since) ==
  [r EXCEPT !.kind = kind, !.held = held, !.since = since]

OlderThanCancel(r, m) ==
  r.kind = "cancelNight" /\ m.kind = "delay" /\ m.rev <= r.held

Clears(r, m) == ~IsActive(m) /\ m.rev > r.held

StartsDelay(r, m) == IsActive(m) /\ ~IsActive(r)

Changes(r, m) == IsActive(m) /\ IsActive(r) /\ m.kind # r.kind /\ ~OlderThanCancel(r, m)

\* Mutation of Applied: the revision of a message is not remembered.
AppliedUnnumbered(r, m) ==
  IF StartsDelay(r, m) \/ Changes(r, m) THEN Entering(r, m.kind, m.rev, m.since)
  ELSE IF IsActive(r) /\ Clears(r, m) THEN Cleared(r)
  ELSE r

\* SetFromMessage.  Active starts a delay, or changes its kind in place; not
\* active ends one only if it is newer than the revision held at its start.
Applied(r, m) ==
  LET seen == [r EXCEPT !.rev = Larger(@, m.rev)] IN
  IF StartsDelay(r, m) \/ Changes(r, m) THEN Entering(seen, m.kind, m.rev, m.since)
  ELSE IF IsActive(r) /\ Clears(r, m) THEN Cleared(seen)
  ELSE seen

\* setActiveLocal: the newest revision the node has seen becomes the one held.
StartedLocally(r, kind) ==
  IF ~IsActive(r) THEN Entering(r, kind, r.rev, resumes)
  ELSE IF kind = "cancelNight" THEN Entering(r, kind, r.held, resumes)
  ELSE r

Deliver(n, ok) ==
  /\ inbox[n] # <<>>
  /\ Hold(n, Applied(node[n], Head(inbox[n])), ok)
  /\ inbox' = [inbox EXCEPT ![n] = Tail(@)]
  /\ UNCHANGED <<coordinator, retained, commands, report, requests>>

\* weatherdelay.start and weatherdelay.resume, or the signed start over HTTP.
Execute(m, ok) ==
  /\ m \in commands
  /\ Hold(m.node, IF m.kind = "none" THEN Cleared(node[m.node])
                    ELSE StartedLocally(node[m.node], m.kind), ok)
  /\ commands' = commands \ {m}
  /\ UNCHANGED <<coordinator, retained, inbox, report, requests>>

\* A pre-signed start, which another system sends to the node.
StartHere(n, kind, ok) ==
  /\ Requested
  /\ Hold(n, StartedLocally(node[n], kind), ok)
  /\ UNCHANGED <<coordinator, transport, report>>

\* A new session gets the retained state, and nothing of what was queued.
Reconnect(n) ==
  /\ Troubled
  /\ inbox' = [inbox EXCEPT ![n] = <<retained>>]
  /\ UNCHANGED <<coordinator, retained, commands, agents, requests>>

RestartNode(n) ==
  /\ Troubled
  /\ node' = [node EXCEPT ![n] = disk[n]]
  /\ inbox' = [inbox EXCEPT ![n] = <<retained>>]
  /\ UNCHANGED <<coordinator, retained, commands, disk, report, requests>>

Heartbeat(n) ==
  /\ IsActive(node[n]) /\ report[n] # node[n]
  /\ report' = [report EXCEPT ![n] = node[n]]
  /\ UNCHANGED <<coordinator, transport, node, disk, bounds>>

-----------------------------------------------------------------------------
ServeDelay(c) ==
  \E ok \in BOOLEAN : WriteStart(c, ok) \/ WriteResume(c, ok) \/ PublishAndSend(c, ok)

RepublishLoop == \E ok \in BOOLEAN : ReadToRepublish(ok) \/ Republish(ok)

Receive(n) == \E ok \in BOOLEAN : Deliver(n, ok)

Report(n) == Disregard(n) \/ \E c \in Calls : Adopt(c, n)

DelayNext ==
  \/ \E c \in Calls : ServeDelay(c) \/ ResumeDelay(c) \/ \E kind \in Kinds : StartDelay(c, kind)
  \/ RepublishLoop \/ RestartCoordinator
  \/ \E n \in Nodes : Receive(n) \/ Report(n) \/ Heartbeat(n) \/ Reconnect(n) \/ RestartNode(n)
  \/ \E n \in Nodes, kind \in Kinds, ok \in BOOLEAN : StartHere(n, kind, ok)
  \/ \E m \in commands, ok \in BOOLEAN : Execute(m, ok)

DelaySpec == DelayInit /\ [][DelayNext]_delayVars

\* A request runs to its end; the loop and the heartbeat tick for ever; what
\* the broker has for a node arrives, and what a heartbeat says is looked at.
\* A command need not arrive.
DelayFairness ==
  /\ SF_delayVars(\E c \in Calls : ServeDelay(c))
  /\ WF_delayVars(RepublishLoop)
  /\ \A n \in Nodes :
       WF_delayVars(Receive(n)) /\ WF_delayVars(Heartbeat(n)) /\ WF_delayVars(Report(n))

FairDelaySpec == DelaySpec /\ DelayFairness

-----------------------------------------------------------------------------
(***************************************************************************)
(* Properties                                                              *)
(***************************************************************************)

\* A delay a node reports is adopted only if it began after the last resume
\* (ADR-053 decision 8: a node that missed a resume cannot start a delay
\* again), as long as the store took every state: one it does not take, which
\* the process holds all the same, may share its revision with a resume.
AdoptedDelayIsNotResumed ==
  [][\A c \in Calls, n \in Nodes :
       Adopt(c, n) /\ ~unstored => report[n].since >= Current(keeper).since]_delayVars

\* Once the requests and the troubles are over, every node holds
\* what the coordinator holds, and goes on holding it: each delay a node began
\* by itself has been adopted or cleared, whichever messages it missed.
NodesConverge == <>[](\A n \in Nodes : node[n].kind = Current(keeper).kind)

\* "A cancelled night is never changed back" (ADR-053 decision 8; the default
\* branch of weatherDelayRunStartOrChange): only a resume ends it.
NightStaysCancelled ==
  [][Current(keeper).kind = "cancelNight" => Current(keeper)'.kind # "delay"]_delayVars
=============================================================================
