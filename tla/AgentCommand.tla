---------------------------- MODULE AgentCommand ----------------------------
(***************************************************************************)
(* CommandHandler.HandleMessage and its idempotencyCache                   *)
(* (internal/agent/command.go): how a node executes the commands that      *)
(* arrive on its cmd topic.                                                *)
(*                                                                         *)
(* Every PUBLISH is handled by a goroutine of its own, here a delivery, so *)
(* deliveries of one command, or of two commands with one idempotency key, *)
(* run side by side.  The one that claims the key executes; the others     *)
(* wait for its result, or find it in a cache of bounded size.  All of     *)
(* this is in memory: a restart forgets it.                                *)
(*                                                                         *)
(* A result is named by the delivery that produced it: "d answers with the *)
(* result of e" is source[d] = e.                                          *)
(***************************************************************************)
EXTENDS Naturals, Sequences

CONSTANTS
  Deliveries,    \* goroutines: one per PUBLISH the agent receives
  None,          \* no delivery
  Commands,      \* what the deliveries can carry
  KeyOf,         \* KeyOf[c]: the idempotency key of command c
  Acceptable,    \* commands with this node as target and evidence as method
  Known,         \* commands whose action has an operation
  Deadlined,     \* commands that carry a deadline
  Capacity,      \* agentIdempotencyCacheCapacity
  MaxRestarts    \* bound: times the agent restarts

ASSUME NoneAssumption == None \notin Deliveries
ASSUME CommandsAssumption ==
  /\ Commands # {}
  /\ KeyOf \in [Commands -> {KeyOf[c] : c \in Commands}]
  /\ Acceptable \subseteq Commands /\ Known \subseteq Commands
  /\ Deadlined \subseteq Commands
ASSUME BoundsAssumption == Capacity \in Nat \ {0} /\ MaxRestarts \in Nat

VARIABLES
  pc,        \* pc[d]: where d stands in HandleMessage
  command,   \* command[d]: what it carries
  source,    \* source[d]: whose result it waits for, or answers with
  outcome,   \* outcome[d]: of the result d has produced itself
  cache,     \* entries and order: the results kept, oldest first
  inFlight,  \* deliveries that hold the claim on their key
  closed,    \* claims whose done channel is closed, their result written
  late,      \* commands whose deadline has passed
  settled,   \* history: results given to the cache since the start, in order
  restarts

handlerVars == <<pc, command, source, outcome>>
cacheVars == <<cache, inFlight, closed, settled>>
vars == <<pc, command, source, outcome, cache, inFlight, closed, settled, late, restarts>>

Steps == {"idle", "received", "claimed", "executing", "settling", "closing",
          "awaiting", "responding", "answered", "lost"}
Outcomes == {"none", "refused", "confirmed", "notConfirmed", "notCached"}
Owning == {"claimed", "executing", "settling"}

Kept == {cache[i] : i \in 1..Len(cache)}

TypeOK ==
  /\ pc \in [Deliveries -> Steps]
  /\ command \in [Deliveries -> Commands]
  /\ source \in [Deliveries -> Deliveries \cup {None}]
  /\ outcome \in [Deliveries -> Outcomes]
  /\ cache \in Seq(Deliveries)
  /\ Len(cache) <= Capacity
  /\ inFlight \subseteq Deliveries
  /\ closed \subseteq Deliveries
  /\ settled \in Seq(Deliveries)
  /\ late \subseteq Deadlined
  /\ restarts \in 0..MaxRestarts

Init ==
  /\ pc = [d \in Deliveries |-> "idle"]
  /\ command = [d \in Deliveries |-> CHOOSE c \in Commands : TRUE]
  /\ source = [d \in Deliveries |-> None]
  /\ outcome = [d \in Deliveries |-> "none"]
  /\ cache = <<>> /\ inFlight = {} /\ closed = {} /\ settled = <<>>
  /\ late = {} /\ restarts = 0

At(d, step) == pc[d] = step
GoTo(d, step) == pc' = [pc EXCEPT ![d] = step]
Key(d) == KeyOf[command[d]]

\* d has its result: it will answer with e's.
AnswerWith(d, e) == source' = [source EXCEPT ![d] = e]
Produce(d, o) == outcome' = [outcome EXCEPT ![d] = o]

-----------------------------------------------------------------------------
(***************************************************************************)
(* HandleMessage up to the claim.                                          *)
(***************************************************************************)

\* A message that cannot be decoded is dropped without a trace.  A command for
\* another node, or to be confirmed in another way, is refused without a claim.
Receive(d, c) ==
  /\ At(d, "idle")
  /\ command' = [command EXCEPT ![d] = c]
  /\ IF c \in Acceptable
       THEN GoTo(d, "received") /\ UNCHANGED <<source, outcome>>
       ELSE GoTo(d, "responding") /\ AnswerWith(d, d) /\ Produce(d, "refused")
  /\ UNCHANGED <<cacheVars, late, restarts>>

\* Mutation of ClaimsFor: claims are looked up by command instead of by key.
ClaimsForCommand(d) == {e \in inFlight : command[e] = command[d]}

\* What claimOrAwait finds under its lock: a kept result, or a claim, on the key.
KeptFor(d) == {e \in Kept : Key(e) = Key(d)}
ClaimsFor(d) == {e \in inFlight : Key(e) = Key(d)}

\* The result is published as it was, to the topic of the command that ran.
Replay(d) ==
  /\ At(d, "received")
  /\ \E e \in KeptFor(d) : AnswerWith(d, e)
  /\ GoTo(d, "responding")
  /\ UNCHANGED <<command, outcome, cacheVars, late, restarts>>

Await(d) ==
  /\ At(d, "received")
  /\ KeptFor(d) = {}
  /\ \E e \in ClaimsFor(d) : AnswerWith(d, e)
  /\ GoTo(d, "awaiting")
  /\ UNCHANGED <<command, outcome, cacheVars, late, restarts>>

Claim(d) ==
  /\ At(d, "received")
  /\ KeptFor(d) = {} /\ ClaimsFor(d) = {}
  /\ inFlight' = inFlight \cup {d}
  /\ GoTo(d, "claimed")
  /\ UNCHANGED <<command, source, outcome, cache, closed, settled, late, restarts>>

\* The receive from inFlight.done returns.
Released(d) == source[d] \in closed

Wake(d) ==
  /\ At(d, "awaiting")
  /\ Released(d)
  /\ GoTo(d, "responding")
  /\ UNCHANGED <<command, source, outcome, cacheVars, late, restarts>>

-----------------------------------------------------------------------------
(***************************************************************************)
(* HandleMessage from the claim to the result.                             *)
(***************************************************************************)

\* The deadline has passed, or the action is not on the allowlist.
Refuse(d) ==
  /\ At(d, "claimed")
  /\ command[d] \in late \/ command[d] \notin Known
  /\ Produce(d, "refused")
  /\ GoTo(d, "settling")
  /\ UNCHANGED <<command, source, cacheVars, late, restarts>>

Execute(d) ==
  /\ At(d, "claimed")
  /\ command[d] \notin late /\ command[d] \in Known
  /\ GoTo(d, "executing")
  /\ UNCHANGED <<command, source, outcome, cacheVars, late, restarts>>

\* The operation returns: confirmed or not (unconfirmed or failed, all alike
\* here), or with a failure it has marked as not to be kept.
Finish(d, o) ==
  /\ At(d, "executing")
  /\ Produce(d, o)
  /\ GoTo(d, "settling")
  /\ UNCHANGED <<command, source, cacheVars, late, restarts>>

-----------------------------------------------------------------------------
(***************************************************************************)
(* idempotencyCache.complete and release, and the answer.                  *)
(***************************************************************************)

\* Mutation of Newest: the cache holds one result less than its capacity.
NewestButOne(results) ==
  IF Len(results) >= Capacity THEN Tail(results) ELSE results

\* Mutation of Newest: nothing is ever evicted.
NothingEvicted(results) == results

\* A bounded FIFO: being asked for again does not make a result any younger.
Newest(results) ==
  IF Len(results) > Capacity THEN Tail(results) ELSE results

\* A result already there for the key is overwritten in place.
Keeping(d) ==
  IF KeptFor(d) = {}
    THEN Newest(Append(cache, d))
    ELSE [i \in DOMAIN cache |-> IF cache[i] \in KeptFor(d) THEN d ELSE cache[i]]

Complete(d) ==
  /\ At(d, "settling")
  /\ outcome[d] # "notCached"
  /\ cache' = Keeping(d)
  /\ settled' = Append(settled, d)
  /\ inFlight' = inFlight \ {d}
  /\ GoTo(d, "closing")
  /\ UNCHANGED <<command, source, outcome, closed, late, restarts>>

Release(d) ==
  /\ At(d, "settling")
  /\ outcome[d] = "notCached"
  /\ inFlight' = inFlight \ {d}
  /\ GoTo(d, "closing")
  /\ UNCHANGED <<command, source, outcome, cache, closed, settled, late, restarts>>

\* Mutation of Opened: a released claim leaves its waiters waiting.
OpenedIfKept(d) == IF outcome[d] = "notCached" THEN closed ELSE closed \cup {d}

\* After the lock is gone: the result for those who wait, then their channel.
Opened(d) == closed \cup {d}

CloseDone(d) ==
  /\ At(d, "closing")
  /\ closed' = Opened(d)
  /\ AnswerWith(d, d)
  /\ GoTo(d, "responding")
  /\ UNCHANGED <<command, outcome, cache, inFlight, settled, late, restarts>>

\* publishResult is best effort: whether the answer arrives is not known here.
PublishResult(d) ==
  /\ At(d, "responding")
  /\ GoTo(d, "answered")
  /\ UNCHANGED <<command, source, outcome, cacheVars, late, restarts>>

\* What d does by itself; an operation's own steps come between Execute and Finish.
Handle(d) ==
  \/ Replay(d) \/ Await(d) \/ Claim(d) \/ Wake(d) \/ Refuse(d) \/ Execute(d)
  \/ Complete(d) \/ Release(d) \/ CloseDone(d) \/ PublishResult(d)

-----------------------------------------------------------------------------
(***************************************************************************)
(* The environment.                                                        *)
(***************************************************************************)

DeadlinePasses(c) ==
  /\ c \in Deadlined \ late
  /\ late' = late \cup {c}
  /\ UNCHANGED <<handlerVars, cacheVars, restarts>>

\* The process dies with its goroutines and its cache, and starts again.  What
\* has been answered stays so; the rest is as if it had never arrived.
Restart ==
  /\ restarts < MaxRestarts
  /\ restarts' = restarts + 1
  /\ pc' = [d \in Deliveries |->
              IF pc[d] \in {"idle", "answered"} THEN pc[d] ELSE "lost"]
  /\ source' = [d \in Deliveries |-> IF At(d, "answered") THEN source[d] ELSE None]
  /\ cache' = <<>> /\ inFlight' = {} /\ closed' = {} /\ settled' = <<>>
  /\ UNCHANGED <<command, outcome, late>>

FinishAny(d) == \E o \in Outcomes \ {"none", "refused"} : Finish(d, o)

Next ==
  \/ \E d \in Deliveries, c \in Commands : Receive(d, c)
  \/ \E d \in Deliveries : Handle(d) \/ FinishAny(d)
  \/ \E c \in Commands : DeadlinePasses(c)
  \/ Restart

Spec == Init /\ [][Next]_vars

\* A goroutine that can go on does, and an operation returns; nothing arrives,
\* no deadline passes and no restart happens of necessity.
FairSpec ==
  /\ Spec
  /\ \A d \in Deliveries : WF_vars(Handle(d) \/ FinishAny(d))

-----------------------------------------------------------------------------
(***************************************************************************)
(* Properties.                                                             *)
(***************************************************************************)

\* Two deliveries never execute, or hold the claim on, one key at a time: the
\* single lock of claimOrAwait closes the check-then-act race.
OneExecutionPerKey ==
  \A d, e \in Deliveries :
    pc[d] \in Owning /\ pc[e] \in Owning /\ Key(d) = Key(e) => d = e

\* What a delivery answers is a result already written, of a delivery with the
\* same key that did the work itself.  A waiter reads it without a lock.
AnswerIsAResult ==
  \A d \in Deliveries :
    pc[d] \in {"responding", "answered"} =>
      /\ source[d] # None
      /\ Key(source[d]) = Key(d)
      /\ outcome[source[d]] # "none"

\* Who waits has someone to wait for: the owner of the claim is still on its way
\* to closing the channel, or has closed it.
WaiterHasAnOwner ==
  \A d \in Deliveries :
    At(d, "awaiting") =>
      \/ source[d] \in closed
      \/ pc[source[d]] \in Owning \cup {"closing"}

\* As long as a result is among the Capacity latest of this life of the agent,
\* no delivery of its key executes again: redelivery, eviction and release
\* included.  This is what "executes exactly once" (ADR-008) amounts to here.
RecentKeyIsNotRepeated ==
  [][\A d \in Deliveries :
       At(d, "received") /\ pc'[d] = "claimed" =>
         \A i \in DOMAIN settled :
           Key(settled[i]) = Key(d) => i + Capacity <= Len(settled)]_vars

\* Every delivery is answered in the end, unless the agent restarts meanwhile:
\* complete and release, on every path, let the waiters go.  (A delivery is
\* handled once, so that none is under way for ever says it of each.)
EveryDeliveryIsAnswered ==
  <>[](\A d \in Deliveries : pc[d] \in {"idle", "answered", "lost"})

=============================================================================
