------------------------------ MODULE ToolLoop ------------------------------
(***************************************************************************)
(* The tool rounds of a run: run_session (crates/engine/src/tool_loop),    *)
(* its LoopContext (crates/app/src/loop_ctx.rs) and ToolScheduler          *)
(* (crates/tools/src/scheduler.rs), for several runs that share the        *)
(* scheduler's slots and may be cancelled at any moment.                   *)
(*                                                                         *)
(* A round is what one answer of the provider asks for: the calls in the   *)
(* order of their number.  A tool is an external function that ends by     *)
(* itself or after its token was cancelled; "ok" is a success, "fact" an   *)
(* error whose metadata says that input was dispatched, "err" an error     *)
(* without that.  Subagent calls, which take no slot, are left out.        *)
(***************************************************************************)
EXTENDS Integers, FiniteSets

CONSTANTS
  Run,
  Call,      \* the positions of a round
  Serial,    \* calls whose tool does not support concurrency
  Asking,    \* calls whose policy decision is AskUser
  Slots,     \* ToolSchedulerConfig::max_concurrent
  MaxRounds  \* max_tool_rounds of a run

ASSUME CallAssumption == Call \subseteq Nat /\ IsFiniteSet(Call)
ASSUME RunAssumption == IsFiniteSet(Run)
ASSUME KindAssumption == Serial \subseteq Call /\ Asking \subseteq Call
ASSUME SlotsAssumption == Slots \in Nat \ {0}
ASSUME RoundsAssumption == MaxRounds \in [Run -> Nat \ {0}]

VARIABLES
  phase,     \* where run_session is
  cancelled, \* runs whose token is cancelled
  round,     \* tool_rounds
  calls,     \* the invocations of the round
  toAsk,     \* those request_approval has not reached
  decided,   \* the decisions of the round
  approved,  \* run_approved, batch_approved
  todo,      \* the calls of later batches
  batch,     \* the calls join_all waits for
  at,        \* where execute_one is with a call
  raw,       \* the results of the round
  tools,     \* <<run, call>>: tools at work
  open,      \* history: calls of committed messages without a result there
  unsaved    \* history: calls whose tool acted and no message says so

roundVars == <<round, calls, toAsk, decided, approved>>
execVars == <<todo, batch, at, raw, tools>>
histVars == <<open, unsaved>>
vars == <<phase, cancelled, roundVars, execVars, histVars>>

Ended == {"completed", "failed", "cancelled", "broken"}
Result == {"ok", "fact", "err", "denied", "cancelled", "missing"}
NoCalls == [c \in Call |-> "none"]

Init ==
  /\ phase = [r \in Run |-> "idle"]
  /\ cancelled = {}
  /\ round = [r \in Run |-> 0]
  /\ calls = [r \in Run |-> {}]
  /\ toAsk = [r \in Run |-> {}]
  /\ decided = [r \in Run |-> NoCalls]
  /\ approved = [r \in Run |-> FALSE]
  /\ todo = [r \in Run |-> {}]
  /\ batch = [r \in Run |-> {}]
  /\ at = [r \in Run |-> NoCalls]
  /\ raw = [r \in Run |-> NoCalls]
  /\ tools = {}
  /\ open = [r \in Run |-> {}]
  /\ unsaved = [r \in Run |-> {}]

First(S) == {c \in S : \A d \in S : c <= d}

Go(r, p) == phase' = [phase EXCEPT ![r] = p]

\* The locals of a round go with it.
EndRound(r) ==
  /\ calls' = [calls EXCEPT ![r] = {}]
  /\ decided' = [decided EXCEPT ![r] = NoCalls]
  /\ at' = [at EXCEPT ![r] = NoCalls]
  /\ raw' = [raw EXCEPT ![r] = NoCalls]
  /\ UNCHANGED <<todo, batch, tools>>

-----------------------------------------------------------------------------
(* run_session                                                             *)

\* RunStarted and the user's message are committed.
Start(r) ==
  /\ phase[r] = "idle"
  /\ Go(r, "loop")
  /\ UNCHANGED <<cancelled, roundVars, execVars, histVars>>

\* The token is looked at, then the provider is asked.
LoopTop(r) ==
  /\ phase[r] = "loop"
  /\ Go(r, IF r \in cancelled THEN "cancelled" ELSE "stream")
  /\ UNCHANGED <<cancelled, roundVars, execVars, histVars>>

\* The provider's answer: text, an error, or the calls of a round.
StreamEnds(r) ==
  /\ phase[r] = "stream"
  /\ Go(r, "completed") \/ Go(r, "failed")
  /\ UNCHANGED <<cancelled, roundVars, execVars, histVars>>

StreamCancelled(r) ==
  /\ phase[r] = "stream" /\ r \in cancelled
  /\ Go(r, "cancelled")
  /\ UNCHANGED <<cancelled, roundVars, execVars, histVars>>

StreamCalls(r) ==
  /\ phase[r] = "stream"
  /\ \E S \in SUBSET Call \ {{}} :
       /\ calls' = [calls EXCEPT ![r] = S]
       /\ toAsk' = [toAsk EXCEPT ![r] = S \intersect Asking]
       /\ open' = [open EXCEPT ![r] = @ \union S]
  /\ Go(r, "approve")
  /\ UNCHANGED <<cancelled, round, decided, approved, execVars, unsaved>>

-----------------------------------------------------------------------------
(* request_approval and wait_and_apply                                     *)

\* One call after the other.
Answer(r, d) ==
  /\ phase[r] = "approve"
  /\ \E c \in First(toAsk[r]) :
       /\ toAsk' = [toAsk EXCEPT ![r] = @ \ {c}]
       /\ decided' = [decided EXCEPT ![r][c] = d]
  /\ approved' = [approved EXCEPT ![r] = @ \/ d = "run"]
  /\ UNCHANGED <<phase, cancelled, round, calls, execVars, histVars>>

\* The user answers ...
Decide(r) == ~approved[r] /\ \E d \in {"once", "run", "denied"} : Answer(r, d)

\* ... or an earlier approval for the run ...
DecideApproved(r) == approved[r] /\ Answer(r, "run")

\* ... or the cancelled token.
DecideCancelled(r) == ~approved[r] /\ r \in cancelled /\ Answer(r, "cancelled")

\* Mutant: a denied call is only noted.
RefusedCancelled(r) == {c \in calls[r] : decided[r][c] = "cancelled"}

Refused(r) == {c \in calls[r] : decided[r][c] \in {"denied", "cancelled"}}

\* The gates are applied, checkpoints taken, ToolExecutionStarted emitted.
Apply(r) ==
  /\ phase[r] = "approve" /\ toAsk[r] = {} /\ r \notin cancelled
  /\ todo' = [todo EXCEPT ![r] = calls[r] \ Refused(r)]
  /\ Go(r, "exec")
  /\ UNCHANGED <<cancelled, roundVars, batch, at, raw, tools, histVars>>

ApplyCancelled(r) ==
  /\ phase[r] = "approve" /\ toAsk[r] = {} /\ r \in cancelled
  /\ Go(r, "cancelled")
  /\ EndRound(r)
  /\ UNCHANGED <<cancelled, round, toAsk, approved, histVars>>

-----------------------------------------------------------------------------
(* execute_tools and execute_batch                                         *)

\* Mutants: serial calls are batched with the others; they are left for last.
NextBatchMixed(S) == S
NextBatchSerialLast(S) == IF S \subseteq Serial THEN First(S) ELSE S \ Serial

\* The calls before the first serial one; a serial call alone.
NextBatch(S) ==
  LET front == {c \in S : \A d \in S : d <= c => d \notin Serial}
  IN IF front = {} THEN First(S) ELSE front

StartBatch(r) ==
  /\ phase[r] = "exec" /\ batch[r] = {} /\ todo[r] # {}
  /\ batch' = [batch EXCEPT ![r] = NextBatch(todo[r])]
  /\ todo' = [todo EXCEPT ![r] = @ \ NextBatch(todo[r])]
  /\ at' = [at EXCEPT ![r] =
       [c \in Call |-> IF c \in NextBatch(todo[r]) THEN "gate" ELSE @[c]]]
  /\ UNCHANGED <<phase, cancelled, roundVars, raw, tools, histVars>>

EndBatch(r) ==
  /\ phase[r] = "exec" /\ batch[r] # {}
  /\ \A c \in batch[r] : raw[r][c] # "none"
  /\ batch' = [batch EXCEPT ![r] = {}]
  /\ UNCHANGED <<phase, cancelled, roundVars, todo, at, raw, tools, histVars>>

Executed(r) ==
  /\ phase[r] = "exec" /\ batch[r] = {} /\ todo[r] = {}
  /\ Go(r, "commit")
  /\ UNCHANGED <<cancelled, roundVars, execVars, histVars>>

-----------------------------------------------------------------------------
(* ToolScheduler                                                           *)

\* The call's result; its permit, if it has one, is dropped.
Return(r, c, res) ==
  /\ at' = [at EXCEPT ![r][c] = "done"]
  /\ raw' = [raw EXCEPT ![r][c] = res]

\* check_gate refuses, the tool is unknown, or the token is cancelled.
GateRefuses(r, c) ==
  /\ at[r][c] = "gate"
  /\ Return(r, c, "err")
  /\ UNCHANGED <<phase, cancelled, roundVars, todo, batch, tools, histVars>>

GatePasses(r, c) ==
  /\ at[r][c] = "gate"
  /\ r \notin cancelled
  /\ at' = [at EXCEPT ![r][c] = "waiting"]
  /\ UNCHANGED <<phase, cancelled, roundVars, todo, batch, raw, tools, histVars>>

Holding == {p \in Run \X Call : at[p[1]][p[2]] \in {"running", "stopping"}}

\* A permit; the select is biased to the cancellation.
Acquire(r, c) ==
  /\ at[r][c] = "waiting"
  /\ r \notin cancelled
  /\ Cardinality(Holding) < Slots
  /\ at' = [at EXCEPT ![r][c] = "running"]
  /\ tools' = tools \union {<<r, c>>}
  /\ UNCHANGED <<phase, cancelled, roundVars, todo, batch, raw, histVars>>

\* Mutant: a cancelled call waits for its permit.
AcquireCancelledLater(r, c) ==
  /\ at[r][c] = "waiting"
  /\ r \in cancelled
  /\ Cardinality(Holding) < Slots
  /\ Return(r, c, "err")
  /\ UNCHANGED <<phase, cancelled, roundVars, todo, batch, tools, histVars>>

AcquireCancelled(r, c) ==
  /\ at[r][c] = "waiting"
  /\ r \in cancelled
  /\ Return(r, c, "err")
  /\ UNCHANGED <<phase, cancelled, roundVars, todo, batch, tools, histVars>>

\* Mutant: the call returns at its timeout while the tool is at work.
TimeoutReturns(r, c) ==
  /\ at[r][c] = "running"
  /\ Return(r, c, "err")
  /\ UNCHANGED <<phase, cancelled, roundVars, todo, batch, tools, histVars>>

\* The derived token is cancelled and the tool's own end is awaited.
Timeout(r, c) ==
  /\ at[r][c] = "running"
  /\ at' = [at EXCEPT ![r][c] = "stopping"]
  /\ UNCHANGED <<phase, cancelled, roundVars, todo, batch, raw, tools, histVars>>

\* A result the tool hands over after its timeout is kept.
ToolEnds(r, c) ==
  /\ <<r, c>> \in tools
  /\ tools' = tools \ {<<r, c>>}
  /\ \E res \in {"ok", "fact", "err"} :
       /\ Return(r, c, res)
       /\ unsaved' = [unsaved EXCEPT ![r] = IF res = "err" THEN @ ELSE @ \union {c}]
  /\ UNCHANGED <<phase, cancelled, roundVars, todo, batch, open>>

-----------------------------------------------------------------------------
(* snapshot_execute_commit, after the tools                                *)

\* Mutant: only a success is a fact.
IsFactSuccess(res) == res = "ok"

\* is_dispatch_fact
IsFact(res) == res \in {"ok", "fact"}

HasFact(r) == \E c \in calls[r] : IsFact(raw[r][c])

\* The tool message: a result for every call of the round.
Commit(r, res) ==
  /\ open' = [open EXCEPT ![r] = @ \ calls[r]]
  /\ unsaved' = [unsaved EXCEPT ![r] = @ \ {c \in calls[r] : res[c] \in {"ok", "fact"}}]

Aligned(r, c) ==
  CASE raw[r][c] # "none" -> raw[r][c]
    [] raw[r][c] = "none" /\ c \in Refused(r) -> "denied"
    [] OTHER -> "missing"

Paired(r, c) ==
  CASE IsFact(raw[r][c]) -> raw[r][c]
    [] ~IsFact(raw[r][c]) /\ decided[r][c] = "denied" -> "denied"
    [] OTHER -> "cancelled"

\* Mutant: one round more than the limit.
AtLimitLate(r) == round[r] >= MaxRounds[r]

AtLimit(r) == round[r] + 1 >= MaxRounds[r]

\* The results are committed and the loop goes on or is at its limit.
CommitRound(r) ==
  /\ phase[r] = "commit" /\ r \notin cancelled
  /\ Commit(r, [c \in calls[r] |-> Aligned(r, c)])
  /\ round' = [round EXCEPT ![r] = @ + 1]
  /\ Go(r, IF AtLimit(r) THEN "failed" ELSE "loop")
  /\ EndRound(r)
  /\ UNCHANGED <<cancelled, toAsk, approved>>

\* Cancelled: a round without a fact is dropped, else every call is paired.
CommitCancelled(r) ==
  /\ phase[r] = "commit" /\ r \in cancelled
  /\ IF HasFact(r)
     THEN Commit(r, [c \in calls[r] |-> Paired(r, c)])
     ELSE UNCHANGED histVars
  /\ Go(r, "cancelled")
  /\ EndRound(r)
  /\ UNCHANGED <<cancelled, round, toAsk, approved>>

\* An event is refused: the run ends without a terminal event of its own.
Break(r) ==
  /\ phase[r] \in {"loop", "stream", "approve", "commit"}
  /\ Go(r, "broken")
  /\ toAsk' = [toAsk EXCEPT ![r] = {}]
  /\ EndRound(r)
  /\ UNCHANGED <<cancelled, round, approved, histVars>>

Cancel(r) ==
  /\ phase[r] \notin Ended \union {"idle"}
  /\ r \notin cancelled
  /\ cancelled' = cancelled \union {r}
  /\ UNCHANGED <<phase, roundVars, execVars, histVars>>

-----------------------------------------------------------------------------
\* What the run's own task does without waiting for anybody.
Advance(r) ==
  \/ Start(r) \/ LoopTop(r) \/ StreamCancelled(r)
  \/ DecideApproved(r) \/ DecideCancelled(r) \/ Apply(r)
  \/ ApplyCancelled(r)
  \/ StartBatch(r) \/ EndBatch(r) \/ Executed(r) \/ CommitRound(r) \/ CommitCancelled(r)

Schedule(r, c) ==
  GateRefuses(r, c) \/ GatePasses(r, c) \/ AcquireCancelled(r, c)

Next ==
  \E r \in Run :
    \/ Advance(r) \/ StreamEnds(r) \/ StreamCalls(r) \/ Decide(r)
    \/ Break(r) \/ Cancel(r)
    \/ \E c \in Call :
         Schedule(r, c) \/ Acquire(r, c) \/ Timeout(r, c) \/ ToolEnds(r, c)

\* A tool whose token is cancelled stops; one that is not told may work for ever.
ToolStops(r, c) == (r \in cancelled \/ at[r][c] = "stopping") /\ ToolEnds(r, c)

Spec ==
  /\ Init /\ [][Next]_vars
  /\ \A r \in Run :
       /\ WF_vars(Advance(r))
       /\ \A c \in Call : WF_vars(Schedule(r, c)) /\ WF_vars(ToolStops(r, c))

-----------------------------------------------------------------------------
(* Properties                                                              *)

\* Types, and the provider is never asked for a round past max_tool_rounds.
ToolTypeOK ==
  /\ phase \in [Run -> Ended \union {"idle", "loop", "stream", "approve", "exec", "commit"}]
  /\ cancelled \subseteq Run
  /\ round \in [Run -> Nat]
  /\ \A r \in Run : round[r] < MaxRounds[r] \/ phase[r] \in Ended
  /\ calls \in [Run -> SUBSET Call] /\ toAsk \in [Run -> SUBSET Call]
  /\ decided \in [Run -> [Call -> {"none", "once", "run", "denied", "cancelled"}]]
  /\ approved \in [Run -> BOOLEAN]
  /\ todo \in [Run -> SUBSET Call] /\ batch \in [Run -> SUBSET Call]
  /\ at \in [Run -> [Call -> {"none", "gate", "waiting", "running", "stopping", "done"}]]
  /\ raw \in [Run -> [Call -> Result \union {"none"}]]
  /\ tools \subseteq Run \X Call
  /\ open \in [Run -> SUBSET Call] /\ unsaved \in [Run -> SUBSET Call]

\* A tool works only for a call of the batch its run waits for, within the
\* slots of the scheduler, and a serial one alone: neither a timeout nor a
\* cancellation hands the run on while the tool is still at work.
ToolsStayInTheirBatch ==
  /\ Cardinality(tools) <= Slots
  /\ \A r \in Run, c \in Call :
       <<r, c>> \in tools =>
         /\ phase[r] = "exec" /\ c \in batch[r]
         /\ c \in Serial => batch[r] = {c}

\* No tool acts before its turn: the user let its call run, on this round or
\* on an earlier one; the calls it may not run beside that come before it in
\* the round have returned; and the run has this round left.  So the order of
\* serial calls is the provider's, whatever was refused between them, timed out
\* or was cancelled (request_approval, apply_approval_gates, execute_tools).
ToolsInTurn ==
  \A r \in Run, c \in Call : <<r, c>> \in tools =>
    /\ round[r] < MaxRounds[r]
    /\ c \notin Refused(r)
    /\ c \in Asking => decided[r][c] \in {"once", "run"}
    /\ \A d \in calls[r] \ Refused(r) :
         d < c /\ {c, d} \intersect Serial # {} => raw[r][d] # "none"

\* The provider is never asked again before every call of the history has its
\* result there, and what a tool really did is in the history when the run
\* ends, also after a cancellation.
HistoryPaired ==
  \A r \in Run :
    /\ phase[r] \in {"loop", "stream"} => open[r] = {}
    /\ phase[r] \in {"loop", "stream", "completed", "failed", "cancelled"} => unsaved[r] = {}

\* A cancelled run ends, whatever holds the slots, however many approvals are
\* open and whether or not the provider answers.
CancelEnds ==
  \A r \in Run : r \in cancelled ~> phase[r] \in Ended
=============================================================================
