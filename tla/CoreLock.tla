------------------------------ MODULE CoreLock ------------------------------
(***************************************************************************)
(* The RwLock around the one AppCore of the GUI host (app: run_start.rs,   *)
(* computer.rs, command.rs, services/run.rs, loop_ctx.rs).  RunStart takes *)
(* it several times, to compare the selected model, to switch it, to set   *)
(* the effort and to install the tools of the host; the turn then reads    *)
(* the Core, and holds the read lock, until it ends.  A turn may wait for  *)
(* a user: for the approval of a tool, without a limit, and for that of a  *)
(* target, which is a command that reads the Core too.                     *)
(*                                                                         *)
(* The lock is tokio's: one queue, first come first served, so a writer    *)
(* that waits for the readers keeps later readers out.  A section that     *)
(* waits for nothing in this model is one step, and two reads in a row, of *)
(* which one leaves nothing behind, are one section.  The runs are of      *)
(* different sessions, whose slots do not exclude each other.  A RunStart  *)
(* names a model, with its provider, and an effort, or leaves either to    *)
(* the host.  A grant and a revocation take the same path; grants are      *)
(* modelled.                                                               *)
(***************************************************************************)
EXTENDS Integers, Sequences, FiniteSets

CONSTANTS
  Run,        \* bound: the RunStart commands, each of its own session
  Approve,    \* bound: the ComputerTargetApprove commands
  Model,      \* the models, each of one provider
  Effort,     \* the efforts
  NotNamed,   \* what a RunStart leaves to the host
  AskedModel, \* the model a RunStart names
  AskedEffort, \* the effort it names
  Selected,   \* the model the host starts with
  Waits       \* runs of the command line client, which wait for targets

ASSUME AskedAssumption ==
  /\ AskedModel \in [Run -> Model \union {NotNamed}]
  /\ AskedEffort \in [Run -> Effort \union {NotNamed}]
  /\ Selected \in Model /\ NotNamed \notin Model
ASSUME TaskAssumption == Run \intersect Approve = {} /\ Waits \subseteq Run

VARIABLES
  queue,      \* tasks that wait for the lock, in order
  step,       \* how far a RunStart and its run are
  model,      \* AppCore::model
  effort,     \* AppCore::effort
  used,       \* the model and effort of a turn
  over,       \* what another RunStart wrote since this one did (history)
  registered, \* GuiRunRegistry::runs
  token,      \* runs whose token is cancelled
  open,       \* runs whose target scope is open
  granted,    \* runs whose target is approved
  apc,        \* how far a ComputerTargetApprove is
  target      \* the run it is about

coreVars == <<model, effort, over>>
scopeVars == <<open, granted>>
vars == <<queue, step, coreVars, used, registered, token, scopeVars, apc, target>>

\* Steps of a run that take the lock, and the turn, which has it.
Writing == {"switch", "effort", "install"}
Reading == {"compare", "check", "scope", "begin", "seal", "close"}
InTurn == {"turn", "prompted", "waiting"}
Steps == Writing \union Reading \union InTurn \union {"idle", "accepted", "refused", "closed", "over"}

InQueue(t) == \E i \in DOMAIN queue : queue[i] = t

CoreTypeOK ==
  /\ queue \in Seq(Run \union Approve)
  /\ \A i, j \in DOMAIN queue : queue[i] = queue[j] => i = j
  /\ \A r \in Run : InQueue(r) <=> step[r] \in Writing \union Reading
  /\ \A a \in Approve : InQueue(a) <=> apc[a] = "asking"
  /\ step \in [Run -> Steps]
  /\ \A r \in Run : step[r] = "switch" => AskedModel[r] \in Model
  /\ model \in Model /\ effort \in Effort \union {NotNamed}
  /\ used \in [Run -> [model : Model, effort : Effort \union {NotNamed}]]
  /\ over \in [Run -> SUBSET {"model", "effort"}]
  /\ registered \subseteq Run /\ token \subseteq Run
  /\ open \subseteq Run /\ granted \subseteq Run
  /\ apc \in [Approve -> {"idle", "asking", "over"}]
  /\ target \in [Approve -> Run]

CoreInit ==
  /\ queue = <<>>
  /\ step = [r \in Run |-> "idle"]
  /\ model = Selected /\ effort = NotNamed
  /\ used = [r \in Run |-> [model |-> Selected, effort |-> NotNamed]]
  /\ over = [r \in Run |-> {}]
  /\ registered = {} /\ token = {} /\ open = {} /\ granted = {}
  /\ apc = [a \in Approve |-> "idle"]
  /\ target \in [Approve -> Run]

-----------------------------------------------------------------------------
(* The lock                                                                *)

Turning == {r \in Run : step[r] \in InTurn}

\* A task is let in when it is the first of the queue and fits the holders.
Enters(t) ==
  /\ queue # <<>>
  /\ Head(queue) = t
  /\ t \in Run /\ step[t] \in Writing => Turning = {}

\* Leaves the queue and asks for the lock again, or for nothing.
Again(r, next) ==
  /\ step' = [step EXCEPT ![r] = next]
  /\ queue' = Append(Tail(queue), r)
Leave(r, next) ==
  /\ step' = [step EXCEPT ![r] = next]
  /\ queue' = Tail(queue)

-----------------------------------------------------------------------------
(* RunStart                                                                *)

RunStart(r) ==
  /\ step[r] = "idle"
  /\ step' = [step EXCEPT ![r] = "compare"]
  /\ queue' = Append(queue, r)
  /\ UNCHANGED <<coreVars, used, registered, token, scopeVars, apc, target>>

\* What the RunStart of r writes, or finds as it wants it, is its own from then
\* on, until another one writes it.
Own(r, what) == over' = [over EXCEPT ![r] = @ \ {what}]
Writes(r, what) ==
  over' = [q \in Run |-> IF q = r THEN over[q] \ {what} ELSE over[q] \union {what}]

\* The model is compared under one lock and switched under another.
\* Mutant: it is compared with the one the host starts with.
CompareSelected(r) ==
  /\ step[r] = "compare" /\ Enters(r)
  /\ Again(r, IF AskedModel[r] \in {NotNamed, Selected} THEN "effort" ELSE "switch")
  /\ Own(r, "model")
  /\ UNCHANGED <<model, effort, used, registered, token, scopeVars, apc, target>>

Compare(r) ==
  /\ step[r] = "compare" /\ Enters(r)
  /\ Again(r, IF AskedModel[r] \in {NotNamed, model} THEN "effort" ELSE "switch")
  /\ Own(r, "model")
  /\ UNCHANGED <<model, effort, used, registered, token, scopeVars, apc, target>>

Switch(r) ==
  /\ step[r] = "switch" /\ Enters(r)
  /\ model' = AskedModel[r] /\ Writes(r, "model")
  /\ Again(r, "effort")
  /\ UNCHANGED <<effort, used, registered, token, scopeVars, apc, target>>

\* The switch is done and not recorded, or stops at the default of the provider:
\* the command is refused, and the Core keeps the model.
SwitchFails(r) ==
  /\ step[r] = "switch" /\ Enters(r)
  /\ model' \in Model \ {model} /\ Writes(r, "model")
  /\ Leave(r, "refused")
  /\ UNCHANGED <<effort, used, registered, token, scopeVars, apc, target>>

\* An effort that is not named clears the one before.
\* Mutant: it leaves it.
SetEffortIfNamed(r) ==
  /\ step[r] = "effort" /\ Enters(r)
  /\ effort' = (IF AskedEffort[r] = NotNamed THEN effort ELSE AskedEffort[r])
  /\ Writes(r, "effort")
  /\ Again(r, "install")
  /\ UNCHANGED <<model, used, registered, token, scopeVars, apc, target>>

SetEffort(r) ==
  /\ step[r] = "effort" /\ Enters(r)
  /\ effort' = AskedEffort[r] /\ Writes(r, "effort")
  /\ Again(r, "install")
  /\ UNCHANGED <<model, used, registered, token, scopeVars, apc, target>>

\* The tools of the host, and the adapter when it is stale.
Install(r) ==
  /\ step[r] = "install" /\ Enters(r)
  /\ Again(r, "check")
  /\ UNCHANGED <<coreVars, used, registered, token, scopeVars, apc, target>>

\* The model is enabled; the references of the message are expanded.
Check(r) ==
  /\ step[r] = "check" /\ Enters(r)
  /\ Again(r, "scope")
  /\ UNCHANGED <<coreVars, used, registered, token, scopeVars, apc, target>>

\* Any of these may fail; the run is not registered yet.
Refuse(r) ==
  /\ step[r] \in {"compare", "switch", "install", "check"} /\ Enters(r)
  /\ Leave(r, "refused")
  /\ UNCHANGED <<coreVars, used, registered, token, scopeVars, apc, target>>

OpenScope(r) ==
  /\ step[r] = "scope" /\ Enters(r)
  /\ open' = open \union {r}
  /\ Leave(r, "accepted")
  /\ UNCHANGED <<coreVars, used, registered, token, granted, apc, target>>

\* Registered and spawned; the task asks for the lock of its turn.
Accept(r) ==
  /\ step[r] = "accepted"
  /\ registered' = registered \union {r}
  /\ step' = [step EXCEPT ![r] = "begin"]
  /\ queue' = Append(queue, r)
  /\ UNCHANGED <<coreVars, used, token, scopeVars, apc, target>>

-----------------------------------------------------------------------------
(* The turn                                                                *)

\* chat_turn takes the model and the effort from the Core it holds.
Begin(r) ==
  /\ step[r] = "begin" /\ Enters(r)
  /\ used' = [used EXCEPT ![r] = [model |-> model, effort |-> effort]]
  /\ Leave(r, "turn")
  /\ UNCHANGED <<coreVars, registered, token, scopeVars, apc, target>>

\* Mutant: the wait does not look at the token.
WokenByGrantOnly(r) == r \in granted \/ r \notin open
Woken(r) == r \in granted \/ r \notin open \/ r \in token

\* wait_for_requested_grant, for the runs that opted in.
Wait(r) ==
  /\ step[r] = "turn"
  /\ r \in Waits /\ r \notin token /\ ~Woken(r)
  /\ step' = [step EXCEPT ![r] = "waiting"]
  /\ UNCHANGED <<queue, coreVars, used, registered, token, scopeVars, apc, target>>

WaitEnds(r) ==
  /\ step[r] = "waiting" /\ Woken(r)
  /\ step' = [step EXCEPT ![r] = "turn"]
  /\ UNCHANGED <<queue, coreVars, used, registered, token, scopeVars, apc, target>>

\* A tool needs approval.  A turn that is cancelled gets its answer at once.
RequestApproval(r) ==
  /\ step[r] = "turn" /\ r \notin token
  /\ step' = [step EXCEPT ![r] = "prompted"]
  /\ UNCHANGED <<queue, coreVars, used, registered, token, scopeVars, apc, target>>

\* The user decides; the decision of a turn that waits takes no lock of the Core.
ToolApprove(r) ==
  /\ step[r] = "prompted"
  /\ step' = [step EXCEPT ![r] = "turn"]
  /\ UNCHANGED <<queue, coreVars, used, registered, token, scopeVars, apc, target>>


ApprovalCancelled(r) ==
  /\ step[r] = "prompted" /\ r \in token
  /\ step' = [step EXCEPT ![r] = "turn"]
  /\ UNCHANGED <<queue, coreVars, used, registered, token, scopeVars, apc, target>>

\* The scope is closed with the turn, and again by the host.
CloseScope(r) ==
  /\ open' = open \ {r}
  /\ granted' = granted \ {r}

\* A turn that waits for no user ends: the provider answers or its read times
\* out, and tools end.  One that ended with an error is sealed first.
TurnEnds(r) ==
  /\ step[r] = "turn"
  /\ \/ CloseScope(r)
     \/ UNCHANGED scopeVars
  /\ \E next \in {"seal", "close"} : step' = [step EXCEPT ![r] = next]
  /\ queue' = Append(queue, r)
  /\ UNCHANGED <<coreVars, used, registered, token, apc, target>>

SealRun(r) ==
  /\ step[r] = "seal" /\ Enters(r)
  /\ Again(r, "close")
  /\ UNCHANGED <<coreVars, used, registered, token, scopeVars, apc, target>>

Close(r) ==
  /\ step[r] = "close" /\ Enters(r)
  /\ CloseScope(r)
  /\ Leave(r, "closed")
  /\ UNCHANGED <<coreVars, used, registered, token, apc, target>>

Remove(r) ==
  /\ step[r] = "closed"
  /\ registered' = registered \ {r}
  /\ step' = [step EXCEPT ![r] = "over"]
  /\ UNCHANGED <<queue, coreVars, used, token, scopeVars, apc, target>>

RunCancel(r) ==
  /\ r \in registered
  /\ registered' = registered \ {r}
  /\ token' = token \union {r}
  /\ UNCHANGED <<queue, step, coreVars, used, scopeVars, apc, target>>

-----------------------------------------------------------------------------
(* ComputerTargetApprove                                                   *)

\* The run is active, or its row is open; then the handler asks for the lock.
Ask(a) ==
  /\ apc[a] = "idle"
  /\ target[a] \in registered \union Turning
  /\ apc' = [apc EXCEPT ![a] = "asking"]
  /\ queue' = Append(queue, a)
  /\ UNCHANGED <<step, coreVars, used, registered, token, scopeVars, target>>

\* Mutant: the registry of targets does not look at the scope.
GrantedAnyway(r) == granted \union {r}

\* grant: a closed scope takes no grant.
Granted(r) == IF r \in open THEN granted \union {r} ELSE granted

Grant(a) ==
  /\ apc[a] = "asking" /\ Enters(a)
  /\ granted' = Granted(target[a])
  /\ apc' = [apc EXCEPT ![a] = "over"]
  /\ queue' = Tail(queue)
  /\ UNCHANGED <<step, coreVars, used, registered, token, open, target>>

-----------------------------------------------------------------------------
Finished ==
  /\ \A r \in Run : step[r] \in {"refused", "over"}
  /\ queue = <<>>
  /\ UNCHANGED vars

RunStep(r) ==
  \/ Compare(r) \/ Switch(r) \/ SwitchFails(r) \/ SetEffort(r) \/ Install(r) \/ Check(r)
  \/ Refuse(r) \/ OpenScope(r) \/ Accept(r) \/ Begin(r) \/ WaitEnds(r)
  \/ ApprovalCancelled(r) \/ TurnEnds(r) \/ SealRun(r) \/ Close(r) \/ Remove(r)

CoreNext ==
  \/ \E r \in Run : RunStart(r) \/ RunStep(r) \/ RunCancel(r)
  \/ \E r \in Run : Wait(r) \/ RequestApproval(r) \/ ToolApprove(r)
  \/ \E a \in Approve : Ask(a) \/ Grant(a)
  \/ Finished

CoreSpec == CoreInit /\ [][CoreNext]_vars

\* Tasks run, and the lock is fair (its queue).  Nothing is assumed of the users:
\* not that they start or cancel a run, nor that they answer a turn that waits.
CoreFairSpec ==
  /\ CoreSpec
  /\ \A r \in Run : WF_vars(RunStep(r))
  /\ \A a \in Approve : WF_vars(Grant(a))

-----------------------------------------------------------------------------
(* Properties                                                              *)

\* A turn runs with the model and the effort of its own RunStart, and with no
\* effort when that named none: what an earlier one set, or a refused one left
\* behind, is compared or written over.  Only a RunStart of another session that
\* writes after this one does changes them, which the locks of start allow.
SettingsAreAsked ==
  \A r \in Run : step[r] \in InTurn =>
    /\ AskedModel[r] \in {NotNamed, used[r].model} \/ "model" \in over[r]
    /\ AskedEffort[r] = used[r].effort \/ "effort" \in over[r]

\* No grant outlives its run: an approval that passed the check of the run and
\* got the lock after the scope was closed approves nothing
\* (computer_target_approve, close_target_scope).
NoGrantAfterEnd ==
  \A r \in Run : step[r] \in {"closed", "over"} => r \notin open /\ r \notin granted

\* Whoever waits for the Core gets it, unless a turn waits for a user and nobody
\* cancels it: a cancellation always gets the host going again (RunCancel needs
\* no lock; the waits for a tool and for a target look at the token).
AtUser(r) == step[r] \in {"prompted", "waiting"} /\ r \notin token

\* The approval of the target ends the wait of the turn.
GrantEndsTheWait ==
  \A r \in Run :
    (step[r] = "waiting" /\ \E a \in Approve : apc[a] = "asking" /\ target[a] = r)
      ~> step[r] # "waiting"
=============================================================================
