------------------------------- MODULE GuiRun -------------------------------
(***************************************************************************)
(* The life of a run of the GUI host (app: run_start.rs, bus.rs,           *)
(* approval.rs, handlers/approval.rs, persist.rs; the event sequence of    *)
(* the engine's tool loop): the session slot and the registry of runs, the *)
(* persist-first events of the run with the sequence number its emitter    *)
(* counts itself, the approval of a tool call, cancellation, the sealing   *)
(* of a run that died without a terminal event, the terminal held back     *)
(* until the slot is free, and the ordered shutdown of the host.           *)
(*                                                                         *)
(* A run makes at most one tool call that asks for approval, and the call  *)
(* is named by its run.  Events that directly follow one another in one    *)
(* writer and that no property tells apart are one event: "started" is     *)
(* RunStarted and the user message, "executed" the result of the tool and  *)
(* its message.  Of the live stream, the state changes of runs are kept.   *)
(* Decisions (approved or denied) take the same path and are not told      *)
(* apart.  Goals, plans, subagents and automatic titles are not modelled.  *)
(***************************************************************************)
EXTENDS Integers, Sequences, FiniteSets

CONSTANTS
  Run,        \* bound: the RunStart commands
  Session,
  Home,       \* the session a RunStart names
  Approval,   \* bound: the ToolApprove commands
  Nobody

ASSUME HomeAssumption == Home \in [Run -> Session]
ASSUME WriterAssumption == Run \intersect Approval = {} /\ Nobody \notin Run

VARIABLES
  pc,          \* how far the run is
  busy,        \* GuiRunRegistry::sessions, the sessions whose slot is taken
  registered,  \* GuiRunRegistry::runs
  token,       \* runs whose cancellation token is cancelled
  stop,        \* how far the shutdown of the host is
  log,         \* the events of each session in the store
  next,        \* the sequence number a writer will use next
  pending,     \* GuiApprovalHost: calls that wait for a decision
  queued,      \* GuiApprovalHost: decisions without a pending call
  answered,    \* calls whose decision was sent to the waiter
  deferred,    \* TerminalHold::deferred
  held,        \* TerminalHold::queued
  lock,        \* the run whose flush holds terminal_hold
  out,         \* events a run is about to publish
  reported,    \* GuiEventBus::terminal_reported
  stream,      \* what the live stream of each session has shown
  apc,         \* how far a ToolApprove command is
  target       \* the call it is about

registryVars == <<busy, registered, token>>
storeVars == <<log, next>>
approvalVars == <<pending, queued, answered>>
holdVars == <<deferred, held, lock>>
busVars == <<holdVars, out, reported, stream>>
commandVars == <<apc, target>>
vars == <<pc, registryVars, stop, storeVars, approvalVars, busVars, commandVars>>

Terminal == {"completed", "cancelled", "failed", "synthetic"}
Shown == Terminal \union {"started"}
Kind == Shown \union {"asked", "responded", "executed"}
Event == [run : Run, kind : Kind]
Ev(r, k) == [run |-> r, kind |-> k]

Idle == {"idle", "refused", "done"}
InEngine == {"begun", "ready", "streaming", "deciding", "waiting", "answering",
             "executing", "cancelling"}
Closing == {"opening", "opened", "sealing", "clearing", "removing", "flushing"}
\* The run, or the RunStart before it, has its session's slot.
Holding == {"starting", "spawned", "completed", "errored"} \union InEngine \union Closing

RunTypeOK ==
  /\ pc \in [Run -> Idle \union Holding \union {"publishing", "flushed"}]
  /\ busy \subseteq Session
  /\ registered \subseteq Run /\ token \subseteq Run
  /\ stop \in {"no", "stopping", "draining", "joining", "done"}
  /\ log \in [Session -> Seq(Event)]
  /\ next \in [Run \union Approval -> Nat]
  /\ pending \subseteq Run /\ queued \subseteq Run /\ answered \subseteq Run
  /\ deferred \subseteq Session
  /\ held \in [Session -> Seq(Event)]
  /\ lock \in Run \union {Nobody}
  /\ out \in [Run -> Seq(Event)]
  /\ reported \subseteq Run
  /\ stream \in [Session -> Seq(Event)]
  /\ apc \in [Approval -> {"idle", "queued", "orphan", "found", "responding", "executing", "over"}]
  /\ target \in [Approval -> Run \union {Nobody}]

RunInit ==
  /\ pc = [r \in Run |-> "idle"]
  /\ busy = {} /\ registered = {} /\ token = {} /\ stop = "no"
  /\ log = [s \in Session |-> <<>>]
  /\ next = [w \in Run \union Approval |-> 0]
  /\ pending = {} /\ queued = {} /\ answered = {}
  /\ deferred = {} /\ held = [s \in Session |-> <<>>] /\ lock = Nobody
  /\ out = [r \in Run |-> <<>>]
  /\ reported = {}
  /\ stream = [s \in Session |-> <<>>]
  /\ apc = [c \in Approval |-> "idle"]
  /\ target = [c \in Approval |-> Nobody]

Goto(r, where) == pc' = [pc EXCEPT ![r] = where]

\* Connections take commands until they are drained.
Serving == stop \in {"no", "stopping", "draining"}

-----------------------------------------------------------------------------
(* The store and the bus                                                   *)

NextSequence(s) == Len(log[s]) + 1
Logged(r, k) == \E i \in DOMAIN log[Home[r]] : log[Home[r]][i] = Ev(r, k)

\* append_event takes the next number of the session and no other.
InSequence(w, s) == next[w] = NextSequence(s)

Persist(w, r, k) ==
  /\ log' = [log EXCEPT ![Home[r]] = Append(@, Ev(r, k))]
  /\ next' = [next EXCEPT ![w] = @ + 1]

\* The projection of the tool call is waiting_for_approval.
Awaiting(r) == Logged(r, "asked") /\ ~Logged(r, "responded") /\ ~Logged(r, "executed")

\* Mutant: a terminal is not held back.
DispatchUnheld(e) ==
  /\ stream' = [stream EXCEPT ![Home[e.run]] = Append(@, e)]
  /\ UNCHANGED held

\* dispatch(), under terminal_hold
Dispatch(e) ==
  LET s == Home[e.run] IN
  \/ /\ held[s] # <<>>
     /\ held' = [held EXCEPT ![s] = Append(@, e)]
     /\ UNCHANGED stream
  \/ /\ held[s] = <<>>
     /\ e.kind \in Terminal
     /\ s \in deferred
     /\ held' = [held EXCEPT ![s] = <<e>>]
     /\ UNCHANGED stream
  \/ /\ held[s] = <<>>
     /\ e.kind \notin Terminal \/ s \notin deferred
     /\ stream' = [stream EXCEPT ![s] = Append(@, e)]
     /\ UNCHANGED held

\* The broadcast sink, after the store has the event.  A synthetic terminal
\* goes through publish_raw, which does not report it.
Publish(r) ==
  /\ pc[r] \notin {"flushing", "publishing"}
  /\ out[r] # <<>>
  /\ lock = Nobody
  /\ Dispatch(Head(out[r]))
  /\ out' = [out EXCEPT ![r] = Tail(@)]
  /\ reported' = IF Head(out[r]).kind \in Terminal \ {"synthetic"}
                 THEN reported \union {r} ELSE reported
  /\ UNCHANGED <<pc, registryVars, stop, storeVars, approvalVars, deferred, lock,
                 commandVars>>

-----------------------------------------------------------------------------
(* RunStart                                                                *)

\* Not stopping, and the slot of the session is free.
RunStart(r) ==
  /\ pc[r] = "idle"
  /\ stop = "no"
  /\ Home[r] \notin busy
  /\ busy' = busy \union {Home[r]}
  /\ Goto(r, "starting")
  /\ UNCHANGED <<registered, token, stop, storeVars, approvalVars, busVars, commandVars>>

\* Any error before the registration: the guard gives the slot back.
Refuse(r) ==
  /\ pc[r] = "starting"
  /\ busy' = busy \ {Home[r]}
  /\ Goto(r, "refused")
  /\ UNCHANGED <<registered, token, stop, storeVars, approvalVars, busVars, commandVars>>

\* Mutant: the registration does not look at the shutdown.
RegisteredUnaware(r) ==
  /\ registered' = registered \union {r}
  /\ UNCHANGED token

\* register(): a run that missed the shutdown is cancelled here.
Registered(r) ==
  /\ registered' = registered \union {r}
  /\ token' = IF stop # "no" THEN token \union {r} ELSE token

Accept(r) ==
  /\ pc[r] = "starting"
  /\ Registered(r)
  /\ Goto(r, "spawned")
  /\ UNCHANGED <<busy, stop, storeVars, approvalVars, busVars, commandVars>>

BeginHold(r) ==
  /\ pc[r] = "spawned"
  /\ lock = Nobody
  /\ deferred' = deferred \union {Home[r]}
  /\ Goto(r, "begun")
  /\ UNCHANGED <<registryVars, stop, storeVars, approvalVars, held, lock, out,
                 reported, stream, commandVars>>

-----------------------------------------------------------------------------
(* The engine                                                              *)

\* chat_turn returns an error before the engine runs: no event at all.
EarlyError(r) ==
  /\ pc[r] = "begun"
  /\ Goto(r, "errored")
  /\ UNCHANGED <<registryVars, stop, storeVars, approvalVars, busVars, commandVars>>

\* start_sequence: from here on the emitter counts by itself.
ReadSequence(r) ==
  /\ pc[r] = "begun"
  /\ next' = [next EXCEPT ![r] = NextSequence(Home[r])]
  /\ Goto(r, "ready")
  /\ UNCHANGED <<registryVars, stop, log, approvalVars, busVars, commandVars>>

\* Persist, then publish.  A refused append ends the run without a terminal.
Emit(r, k, then) ==
  /\ out[r] = <<>>
  /\ \/ /\ InSequence(r, Home[r])
        /\ Persist(r, r, k)
        /\ out' = IF k \in Shown THEN [out EXCEPT ![r] = <<Ev(r, k)>>] ELSE out
        /\ Goto(r, then)
     \/ /\ ~InSequence(r, Home[r])
        /\ Goto(r, "errored")
        /\ UNCHANGED <<storeVars, out>>
  /\ UNCHANGED <<registryVars, stop, approvalVars, holdVars, reported, stream, commandVars>>

Started(r) == pc[r] = "ready" /\ Emit(r, "started", "streaming")
Complete(r) == pc[r] = "streaming" /\ Emit(r, "completed", "completed")
Fail(r) == pc[r] = "streaming" /\ Emit(r, "failed", "errored")
Ask(r) == pc[r] = "streaming" /\ ~Logged(r, "asked") /\ Emit(r, "asked", "deciding")

\* Mutant: the queue is not read.
DecideUnqueued(r) ==
  /\ pc[r] = "deciding"
  /\ pending' = pending \union {r}
  /\ Goto(r, "waiting")
  /\ UNCHANGED <<registryVars, stop, storeVars, queued, answered, busVars, commandVars>>

\* decide(): the queue is read and the call made pending in one step.
Decide(r) ==
  /\ pc[r] = "deciding"
  /\ \/ /\ r \in queued
        /\ queued' = queued \ {r}
        /\ Goto(r, "answering")
        /\ UNCHANGED pending
     \/ /\ r \notin queued
        /\ pending' = pending \union {r}
        /\ Goto(r, "waiting")
        /\ UNCHANGED queued
  /\ UNCHANGED <<registryVars, stop, storeVars, answered, busVars, commandVars>>

\* Mutant: a pending call does not watch the token.
DecideUncancelled(r) == pc[r] = "none" /\ UNCHANGED vars

\* The select of decide() is biased towards the cancellation.
DecideCancelled(r) ==
  /\ pc[r] = "waiting"
  /\ r \in token
  /\ pending' = pending \ {r}
  /\ Goto(r, "cancelling")
  /\ UNCHANGED <<registryVars, stop, storeVars, queued, answered, busVars, commandVars>>

DecideAnswered(r) ==
  /\ pc[r] = "waiting"
  /\ r \notin token
  /\ r \in answered
  /\ Goto(r, "answering")
  /\ UNCHANGED <<registryVars, stop, storeVars, approvalVars, busVars, commandVars>>

Respond(r) == pc[r] = "answering" /\ r \notin token /\ Emit(r, "responded", "executing")
Execute(r) == pc[r] = "executing" /\ Emit(r, "executed", "streaming")

\* The checks of the token: loop head and provider stream, after the
\* approval, after the tools.
SeeCancel(r) ==
  /\ pc[r] \in {"streaming", "answering", "executing"}
  /\ out[r] = <<>>
  /\ r \in token
  /\ Goto(r, "cancelling")
  /\ UNCHANGED <<registryVars, stop, storeVars, approvalVars, busVars, commandVars>>

EmitCancelled(r) == pc[r] = "cancelling" /\ Emit(r, "cancelled", "errored")

-----------------------------------------------------------------------------
(* Sealing and clearing                                                    *)

\* Mutant: the engine's own terminal is not taken into account.
SealAlways(r) == TRUE

\* seal_run_without_terminal: only when no terminal was reported.
NeedsSeal(r) == r \notin reported

SealRead(r) ==
  /\ pc[r] = "errored"
  /\ out[r] = <<>>
  /\ \/ /\ NeedsSeal(r)
        /\ next' = [next EXCEPT ![r] = NextSequence(Home[r])]
        /\ Goto(r, IF Logged(r, "started") THEN "sealing" ELSE "opening")
     \/ /\ ~NeedsSeal(r)
        /\ Goto(r, "clearing")
        /\ UNCHANGED next
  /\ UNCHANGED <<registryVars, stop, log, approvalVars, busVars, commandVars>>

\* The run row first, when the engine did not get that far.
SealStarted(r) ==
  /\ pc[r] = "opening"
  /\ InSequence(r, Home[r])
  /\ Persist(r, r, "started")
  /\ Goto(r, "opened")
  /\ UNCHANGED <<registryVars, stop, approvalVars, busVars, commandVars>>

\* Mutant: of what the seal appended only the failure is published.
SealFailedAlone(r) ==
  /\ pc[r] \in {"opened", "sealing"}
  /\ InSequence(r, Home[r])
  /\ Persist(r, r, "failed")
  /\ out' = [out EXCEPT ![r] = <<Ev(r, "failed")>>]
  /\ Goto(r, "clearing")
  /\ UNCHANGED <<registryVars, stop, approvalVars, holdVars, reported, stream, commandVars>>

\* What the seal appended is published once all of it is stored.
SealFailed(r) ==
  /\ pc[r] \in {"opened", "sealing"}
  /\ InSequence(r, Home[r])
  /\ Persist(r, r, "failed")
  /\ out' = [out EXCEPT ![r] = IF pc[r] = "opened" THEN <<Ev(r, "started"), Ev(r, "failed")>>
                               ELSE <<Ev(r, "failed")>>]
  /\ Goto(r, "clearing")
  /\ UNCHANGED <<registryVars, stop, approvalVars, holdVars, reported, stream, commandVars>>

\* An append was refused: the live stream gets a terminal the store has not.
SealSynthetic(r) ==
  /\ pc[r] \in {"opening", "opened", "sealing"}
  /\ ~InSequence(r, Home[r])
  /\ out' = [out EXCEPT ![r] = <<Ev(r, "synthetic")>>]
  /\ Goto(r, "clearing")
  /\ UNCHANGED <<registryVars, stop, storeVars, approvalVars, holdVars, reported, stream,
                 commandVars>>

Completed(r) ==
  /\ pc[r] = "completed"
  /\ out[r] = <<>>
  /\ Goto(r, "clearing")
  /\ UNCHANGED <<registryVars, stop, storeVars, approvalVars, busVars, commandVars>>

ClearRun(r) ==
  /\ pc[r] = "clearing"
  /\ out[r] = <<>>
  /\ pending' = pending \ {r}
  /\ Goto(r, "removing")
  /\ UNCHANGED <<registryVars, stop, storeVars, queued, answered, busVars, commandVars>>

Remove(r) ==
  /\ pc[r] = "removing"
  /\ registered' = registered \ {r}
  /\ Goto(r, "flushing")
  /\ UNCHANGED <<busy, token, stop, storeVars, approvalVars, busVars, commandVars>>

\* Mutant: terminal_hold is unlocked before the queue is published.
FlushTakeUnlocked(r) ==
  /\ pc[r] = "flushing"
  /\ lock = Nobody
  /\ deferred' = deferred \ {Home[r]}
  /\ out' = [out EXCEPT ![r] = held[Home[r]]]
  /\ held' = [held EXCEPT ![Home[r]] = <<>>]
  /\ busy' = busy \ {Home[r]}
  /\ Goto(r, "publishing")
  /\ UNCHANGED <<registered, token, stop, storeVars, approvalVars, lock, reported, stream,
                 commandVars>>

\* flush_held_session: take the queue and release the slot under
\* terminal_hold, and publish before it is unlocked.
FlushTake(r) ==
  /\ pc[r] = "flushing"
  /\ lock = Nobody
  /\ lock' = r
  /\ deferred' = deferred \ {Home[r]}
  /\ out' = [out EXCEPT ![r] = held[Home[r]]]
  /\ held' = [held EXCEPT ![Home[r]] = <<>>]
  /\ busy' = busy \ {Home[r]}
  /\ Goto(r, "publishing")
  /\ UNCHANGED <<registered, token, stop, storeVars, approvalVars, reported, stream,
                 commandVars>>

FlushPublish(r) ==
  /\ pc[r] = "publishing"
  /\ stream' = [stream EXCEPT ![Home[r]] = @ \o out[r]]
  /\ out' = [out EXCEPT ![r] = <<>>]
  /\ lock' = Nobody
  /\ Goto(r, "flushed")
  /\ UNCHANGED <<registryVars, stop, storeVars, approvalVars, deferred, held, reported,
                 commandVars>>

ClearReported(r) ==
  /\ pc[r] = "flushed"
  /\ reported' = reported \ {r}
  /\ Goto(r, "done")
  /\ UNCHANGED <<registryVars, stop, storeVars, approvalVars, holdVars, out, stream,
                 commandVars>>

-----------------------------------------------------------------------------
(* RunCancel and ToolApprove                                               *)

\* Mutant: the slot goes with it.
CancelFreesSlot(r) ==
  /\ Serving
  /\ r \in registered
  /\ registered' = registered \ {r}
  /\ token' = token \union {r}
  /\ busy' = busy \ {Home[r]}
  /\ UNCHANGED <<pc, stop, storeVars, approvalVars, busVars, commandVars>>

\* The registration goes with the cancellation; the run is still there.
RunCancel(r) ==
  /\ Serving
  /\ r \in registered
  /\ registered' = registered \ {r}
  /\ token' = token \union {r}
  /\ UNCHANGED <<pc, busy, stop, storeVars, approvalVars, busVars, commandVars>>

\* resolve(): wakes the waiter, or queues the decision.
Resolve(c, r) ==
  /\ Serving
  /\ apc[c] = "idle"
  /\ Logged(r, "asked")
  /\ target' = [target EXCEPT ![c] = r]
  /\ \/ /\ r \in pending
        /\ pending' = pending \ {r}
        /\ answered' = answered \union {r}
        /\ apc' = [apc EXCEPT ![c] = "over"]
        /\ UNCHANGED queued
     \/ /\ r \notin pending
        /\ queued' = queued \union {r}
        /\ apc' = [apc EXCEPT ![c] = "queued"]
        /\ UNCHANGED <<pending, answered>>
  /\ UNCHANGED <<pc, registryVars, stop, storeVars, busVars>>

CommandAt(c, where, then) ==
  /\ apc[c] = where
  /\ apc' = [apc EXCEPT ![c] = then]
  /\ UNCHANGED <<pc, registryVars, stop, log, approvalVars, busVars, target>>

\* The registry of runs decides whether the call is live.
CheckLive(c) ==
  /\ CommandAt(c, "queued", IF target[c] \in registered THEN "over" ELSE "orphan")
  /\ UNCHANGED next

\* waiting_tool_call
ReadWaiting(c) ==
  /\ CommandAt(c, "orphan", IF Awaiting(target[c]) THEN "found" ELSE "over")
  /\ UNCHANGED next

ReadTail(c) ==
  /\ CommandAt(c, "found", "responding")
  /\ next' = [next EXCEPT ![c] = NextSequence(Home[target[c]])]

\* resolve_waiting_tool_call: the decision, then a result that is an error.
Seal(c, where, k, then) ==
  /\ apc[c] = where
  /\ \/ /\ InSequence(c, Home[target[c]])
        /\ Persist(c, target[c], k)
        /\ apc' = [apc EXCEPT ![c] = then]
     \/ /\ ~InSequence(c, Home[target[c]])
        /\ apc' = [apc EXCEPT ![c] = "over"]
        /\ UNCHANGED storeVars
  /\ UNCHANGED <<pc, registryVars, stop, approvalVars, busVars, target>>

SealResponded(c) == Seal(c, "responding", "responded", "executing")
SealExecuted(c) == Seal(c, "executing", "executed", "over")

-----------------------------------------------------------------------------
(* The shutdown of the host                                                *)

Stop(from, to) ==
  /\ stop = from
  /\ stop' = to
  /\ UNCHANGED <<pc, busy, registered, storeVars, approvalVars, busVars, commandVars>>

\* begin_shutdown: the flag, then under the lock of the registry the tokens.
BeginStop == Stop("no", "stopping") /\ UNCHANGED token
CancelAll == Stop("stopping", "draining") /\ token' = token \union registered

\* Every connection is closed and its commands have returned; shutdown()
\* cancels what is registered once more.
Drain ==
  /\ \A r \in Run : pc[r] # "starting"
  /\ \A c \in Approval : apc[c] \in {"idle", "over"}
  /\ Stop("draining", "joining")
  /\ token' = token \union registered

Joined ==
  /\ \A r \in Run : pc[r] \in Idle
  /\ Stop("joining", "done")
  /\ UNCHANGED token

Exited == stop = "done" /\ UNCHANGED vars

-----------------------------------------------------------------------------
\* What the provider and the tools decide.
EngineStep(r) == Complete(r) \/ Fail(r) \/ Ask(r) \/ Execute(r)

\* What a run does of its own accord.
RunStep(r) ==
  \/ Publish(r) \/ Refuse(r) \/ Accept(r) \/ BeginHold(r)
  \/ EarlyError(r) \/ ReadSequence(r) \/ Started(r)
  \/ Decide(r) \/ DecideCancelled(r) \/ DecideAnswered(r) \/ Respond(r)
  \/ SeeCancel(r) \/ EmitCancelled(r)
  \/ SealRead(r) \/ SealStarted(r) \/ SealFailed(r) \/ SealSynthetic(r)
  \/ Completed(r) \/ ClearRun(r) \/ Remove(r)
  \/ FlushTake(r) \/ FlushPublish(r) \/ ClearReported(r)

CommandStep(c) ==
  CheckLive(c) \/ ReadWaiting(c) \/ ReadTail(c) \/ SealResponded(c) \/ SealExecuted(c)

StopStep == CancelAll \/ Drain \/ Joined

RunNext ==
  \/ \E r \in Run : RunStart(r) \/ RunStep(r) \/ EngineStep(r) \/ RunCancel(r)
  \/ \E c \in Approval : CommandStep(c) \/ \E r \in Run : Resolve(c, r)
  \/ BeginStop \/ StopStep \/ Exited

RunSpec == RunInit /\ [][RunNext]_vars

\* A task that can run does; what the user, the provider and the tools do is
\* not assumed.
RunFairSpec ==
  /\ RunSpec
  /\ \A r \in Run : WF_vars(RunStep(r))
  /\ \A c \in Approval : WF_vars(CommandStep(c))
  /\ WF_vars(StopStep)

-----------------------------------------------------------------------------
(* Properties                                                              *)

Places(s, K) == {i \in DOMAIN stream[s] : stream[s][i].kind \in K}
ShownOf(r, K) == {i \in Places(Home[r], K) : stream[Home[r]][i].run = r}

\* A session's slot is taken exactly while one run, or one RunStart on its way
\* to a run, owns it, whatever was refused, cancelled or died early
\* (SessionSlotGuard, release in flush_held_session).
OneRunPerSession ==
  /\ busy = {Home[r] : r \in {x \in Run : pc[x] \in Holding}}
  /\ \A r, q \in Run : pc[r] \in Holding /\ pc[q] \in Holding /\ Home[r] = Home[q] => r = q

\* Whoever sees the terminal of a run in the live stream finds nothing left of
\* it: its slot, its registration and its pending approval are gone
\* (begin_terminal_hold, flush_held_session).
TerminalMeansFree ==
  \A r \in Run : ShownOf(r, Terminal) # {} =>
    pc[r] \in {"flushed", "done"} /\ r \notin registered /\ r \notin pending

\* A run that was accepted shows exactly one terminal by the time it is over,
\* and the store never has two, by whichever of the engine and the sealing it
\* was told (seal_run_without_terminal, terminal_reported).
OneTerminal ==
  \A r \in Run :
    /\ Cardinality(ShownOf(r, Terminal)) = IF pc[r] \in {"flushed", "done"} THEN 1 ELSE 0
    /\ Cardinality({i \in DOMAIN log[Home[r]] :
                     log[Home[r]][i].run = r /\ log[Home[r]][i].kind \in Terminal}) <= 1

\* The live stream shows the turns of a session one after the other: between
\* the starts of two runs lies the terminal of the first (the flush publishes
\* what was held before it lets go of terminal_hold).
TurnsInOrder ==
  \A s \in Session : \A i, j \in Places(s, {"started"}) :
    i < j => \E k \in Places(s, Terminal) : i < k /\ k < j /\ stream[s][k].run = stream[s][i].run

\* Once the shutdown has cancelled what was registered, no accepted run goes on
\* with a live token, not even one registered behind its back (register).
CancelReachesAll ==
  stop \in {"draining", "joining"} =>
    \A r \in Run : pc[r] \in InEngine \union {"spawned"} => r \in token

\* No wake-up of an approval is lost: a call waits as a pending one or with its
\* decision sent to it, never with its decision left in the queue, and nothing
\* is pending that does not wait (decide, resolve and clear_run change pending
\* and queued under one mutex, and whoever takes a call out of pending sends it
\* its decision).
NoDecisionIsLost ==
  \A r \in Run :
    /\ pc[r] = "waiting" =>
         (r \in pending <=> r \notin answered) /\ (r \in queued => r \in answered)
    /\ r \in pending => pc[r] = "waiting"

\* A decision that reached the host ends the wait for it, whether it came
\* before the call was pending or after (resolve, decide).
DecisionArrives ==
  \A r \in Run :
    (r \in queued \union answered /\ pc[r] \in {"deciding", "waiting"})
      ~> pc[r] \notin {"deciding", "waiting"}

\* The shutdown ends: every run notices its cancellation and every task is
\* joined, with an approval pending or not (GuiRunRegistry::shutdown).
ShutdownEnds == (stop = "stopping") ~> (stop = "done")

\* A run that noticed its cancellation is recorded as cancelled.
CancelIsRecorded ==
  [][\A r \in Run : pc[r] = "cancelling" /\ pc'[r] # "cancelling" =>
       \E i \in DOMAIN log'[Home[r]] : log'[Home[r]][i] = Ev(r, "cancelled")]_vars

-----------------------------------------------------------------------------
(* What the clients are promised                                           *)

Phase(r) ==
  CASE pc[r] = "idle" -> "new"
    [] pc[r] = "refused" -> "refused"
    [] pc[r] \in Holding -> "open"
    [] OTHER -> "over"

\* A flush that has freed the slot has as good as published: nothing else is
\* published before it lets go of terminal_hold.
Flushing(s) == IF lock # Nobody /\ Home[lock] = s THEN out[lock] ELSE <<>>

Service == INSTANCE TurnService WITH
  phase <- [r \in Run |-> Phase(r)],
  record <- log,
  shown <- [s \in Session |-> stream[s] \o Flushing(s)]

\* Slot, hold, flush, sealing and shutdown together are, for whoever watches a
\* session, one run after the other: each is recorded from its start to its
\* ending, the stream shows what was recorded, and the ending of a run frees the
\* session in the same step (PersistThenRender, begin_terminal_hold,
\* flush_held_session, seal_run_without_terminal).
ImplementsTurnService == Service!Spec

=============================================================================
