----------------------------- MODULE Supervisor -----------------------------
(***************************************************************************)
(* AgentSupervisor (crates/orchestration): spawn, start, complete, fail,   *)
(* cancel_tree, record_usage and flush_usage, called at any moment by any  *)
(* task.  A step is one critical section of one std Mutex, or the part of  *)
(* a call between two awaits; a call of the lease pool or of the usage     *)
(* ledger answers, fails, or fails after the record was written.           *)
(*                                                                         *)
(* An agent id is one spawn call: next_agent_id never gives it twice.  The *)
(* caller learns the id when spawn returns; before that only cancel_tree   *)
(* of an ancestor meets it.  Worktrees, the task graph and patches are     *)
(* injected by tests only and are left out; one tenant.  A registered       *)
(* worker is "live" in Starting, Running and Waiting: what is modelled      *)
(* never tells them apart.                                                 *)
(***************************************************************************)
EXTENDS Integers, FiniteSets

CONSTANTS
  Agent,     \* agent ids, each one call of spawn
  Walker,    \* calls of cancel_tree
  NoAgent,   \* no parent
  Limit,     \* SupervisorConfig::max_agent_concurrency
  MaxDepth,  \* SupervisorConfig::max_worker_depth
  Leasing,   \* agents whose request asks for a lease
  MaxUse,    \* bound: usage recorded for one agent
  MaxUsers,  \* bound: agents that record usage
  MaxFaults, \* bound: failed writes of the usage ledger
  MaxDrops   \* bound: futures dropped while they wait for the ledger

ASSUME AgentAssumption == IsFiniteSet(Agent)
ASSUME NoAgentAssumption == NoAgent \notin Agent
ASSUME LimitAssumption == Limit \in Nat
ASSUME LeasingAssumption == Leasing \subseteq Agent

VARIABLES
  \* spawn
  at,        \* where the spawn of the agent is
  parent,    \* its parent or NoAgent
  above,     \* the parents worker_depth walks
  reserved,  \* reservations
  \* the registry
  state,     \* workers: the lifecycle state, "none" when not registered
  children, token, lease,
  \* usage
  budget,    \* the controller is in the budget map
  ctx,       \* flush_ctx
  inflight,  \* flush_in_flight: a flush holds the controller
  used,      \* the totals of the controller
  done,      \* FlushState::last_committed
  pend,      \* FlushState::pending: the target of the record, 0 when none
  ids,       \* usage ledger: record ids of this controller (their targets)
  booked,    \* usage ledger: the sum of the records of this controller
  recording, \* a record_usage that passed its terminal check
  \* calls
  op, by,    \* the call that ends the agent or flushes it, and its kind
  walk, queue, found, on,   \* cancel_tree
  faults, drops,
  root, due, \* history: the node cancel_tree was called for, and the workers
             \* alive in its tree at that moment
  lost       \* history: a dropped future took the controller with it

spawnVars == <<at, parent, above, reserved>>
workerVars == <<state, children, token, lease>>
flushVars == <<budget, ctx, inflight, op, by>>
bookVars == <<used, done, pend, ids, booked, recording>>
walkVars == <<walk, queue, found, on, root, due>>
countVars == <<faults, drops, lost>>
vars == <<spawnVars, workerVars, flushVars, bookVars, walkVars, countVars>>

Terminal == {"completed", "failed", "cancelled"}
Spawning == {"validated", "reserved", "attached", "tokened", "registered"}

Init ==
  /\ at = [a \in Agent |-> "idle"]
  /\ parent = [a \in Agent |-> NoAgent]
  /\ above = [a \in Agent |-> {}]
  /\ reserved = {}
  /\ state = [a \in Agent |-> "none"]
  /\ children = [a \in Agent |-> {}]
  /\ token = [a \in Agent |-> "none"]
  /\ lease = [a \in Agent |-> "none"]
  /\ budget = [a \in Agent |-> FALSE]
  /\ ctx = [a \in Agent |-> FALSE]
  /\ inflight = [a \in Agent |-> FALSE]
  /\ op = [a \in Agent |-> "none"] /\ by = [a \in Agent |-> "none"]
  /\ used = [a \in Agent |-> 0]
  /\ done = [a \in Agent |-> 0]
  /\ pend = [a \in Agent |-> 0]
  /\ ids = [a \in Agent |-> {}]
  /\ booked = [a \in Agent |-> 0]
  /\ recording = {}
  /\ walk = [w \in Walker |-> "idle"]
  /\ queue = [w \in Walker |-> {}]
  /\ found = [w \in Walker |-> {}]
  /\ on = [w \in Walker |-> NoAgent]
  /\ root = [w \in Walker |-> NoAgent]
  /\ due = [w \in Walker |-> {}]
  /\ faults = 0 /\ drops = 0
  /\ lost = {}

-----------------------------------------------------------------------------
(* spawn                                                                   *)

Active == {a \in Agent : state[a] = "live"}

\* validate_parent and the depth limit; the id is drawn.
CanParent(p) == p # NoAgent => state[p] = "live"

Validate(a, p) ==
  /\ at[a] = "idle"
  /\ p # NoAgent => at[p] = "returned"
  /\ CanParent(p)
  /\ LET up == IF p = NoAgent THEN {} ELSE above[p] \union {p} IN
     /\ Cardinality(up) <= MaxDepth
     /\ above' = [above EXCEPT ![a] = up]
  /\ parent' = [parent EXCEPT ![a] = p]
  /\ at' = [at EXCEPT ![a] = "validated"]
  /\ UNCHANGED <<reserved, workerVars, flushVars, bookVars, walkVars, countVars>>

\* Mutant: the spawns under way do not count.
HasRoomUnreserved == Cardinality(Active) < Limit

\* reserve_concurrency: reservations and workers under both locks.
HasRoom == Cardinality(reserved) + Cardinality(Active) < Limit

\* Nothing is kept of a request that was refused.
Forget(a) ==
  /\ at' = [at EXCEPT ![a] = "refused"]
  /\ parent' = [parent EXCEPT ![a] = NoAgent]
  /\ above' = [above EXCEPT ![a] = {}]

Reserve(a) ==
  /\ at[a] = "validated"
  /\ IF HasRoom
     THEN /\ at' = [at EXCEPT ![a] = "reserved"]
          /\ reserved' = reserved \union {a}
          /\ UNCHANGED <<parent, above>>
     ELSE Forget(a) /\ UNCHANGED reserved
  /\ UNCHANGED <<workerVars, flushVars, bookVars, walkVars, countVars>>

\* A policy or budget gate refuses, or the future is dropped at an await: the
\* reservation is returned by its Drop.
Deny(a) ==
  /\ at[a] = "reserved"
  /\ Forget(a)
  /\ reserved' = reserved \ {a}
  /\ UNCHANGED <<workerVars, flushVars, bookVars, walkVars, countVars>>

\* The pool fails, or its lease is of another scope and goes back as Released:
\* abort_spawn_as_failed registers the worker as failed, and the reservation
\* is dropped when the error returns.
AbortSpawn(a) ==
  /\ at[a] = "reserved"
  /\ at' = [at EXCEPT ![a] = "refused"]
  /\ state' = [state EXCEPT ![a] = "failed"]
  /\ reserved' = reserved \ {a}
  /\ UNCHANGED <<parent, above, children, token, lease, flushVars, bookVars,
                 walkVars, countVars>>

\* acquire_guard has answered; the child is pushed under its parent.
Attach(a) ==
  /\ at[a] = "reserved"
  /\ at' = [at EXCEPT ![a] = "attached"]
  /\ lease' = [lease EXCEPT ![a] = IF a \in Leasing THEN "held" ELSE @]
  /\ children' = [p \in Agent |->
       IF p = parent[a] THEN children[p] \union {a} ELSE children[p]]
  /\ UNCHANGED <<parent, above, reserved, state, token, flushVars, bookVars,
                 walkVars, countVars>>

InsertToken(a) ==
  /\ at[a] = "attached"
  /\ at' = [at EXCEPT ![a] = "tokened"]
  /\ token' = [token EXCEPT ![a] = "set"]
  /\ UNCHANGED <<parent, above, reserved, state, children, lease, flushVars,
                 bookVars, walkVars, countVars>>

\* The reservation turns into an active worker under both locks.
Register(a) ==
  /\ at[a] = "tokened"
  /\ at' = [at EXCEPT ![a] = "registered"]
  /\ state' = [state EXCEPT ![a] = "live"]
  /\ reserved' = reserved \ {a}
  /\ UNCHANGED <<parent, above, children, token, lease, flushVars, bookVars,
                 walkVars, countVars>>

\* The controller follows under the lock of the budget map; spawn returns.
InsertBudget(a) ==
  /\ at[a] = "registered"
  /\ at' = [at EXCEPT ![a] = "returned"]
  /\ budget' = [budget EXCEPT ![a] = TRUE]
  /\ UNCHANGED <<parent, above, reserved, workerVars, ctx, inflight, op, by,
                 bookVars, walkVars, countVars>>

-----------------------------------------------------------------------------
(* record_usage                                                            *)

\* The terminal check under the lock of the workers ...
RecordCheck(a) ==
  /\ at[a] = "returned" /\ a \notin recording
  /\ used[a] < MaxUse
  /\ Cardinality({b \in Agent : used[b] > 0} \union recording \union {a}) <= MaxUsers
  /\ state[a] = "live"
  /\ recording' = recording \union {a}
  /\ UNCHANGED <<spawnVars, workerVars, flushVars, used, done, pend, ids,
                 booked, walkVars, countVars>>

\* ... and the counting under the lock of the budget map: without a
\* controller the call fails.
RecordAdd(a) ==
  /\ a \in recording
  /\ recording' = recording \ {a}
  /\ used' = [used EXCEPT ![a] = IF budget[a] THEN @ + 1 ELSE @]
  /\ UNCHANGED <<spawnVars, workerVars, flushVars, done, pend, ids, booked,
                 walkVars, countVars>>

-----------------------------------------------------------------------------
(* The end of a worker and the flush of its usage                          *)

\* Under the lock of the workers: the state is terminal, the controller
\* leaves the map and the flush is marked.
Take(a, to, kind) ==
  /\ state' = [state EXCEPT ![a] = to]
  /\ budget' = [budget EXCEPT ![a] = FALSE]
  /\ inflight' = [inflight EXCEPT ![a] = @ \/ budget[a]]
  /\ op' = [op EXCEPT ![a] = "taken"]
  /\ by' = [by EXCEPT ![a] = kind]

\* complete and fail.
Finish(a, to) ==
  /\ at[a] = "returned"
  /\ state[a] = "live"
  /\ Take(a, to, "end")
  /\ UNCHANGED <<spawnVars, children, token, lease, ctx, bookVars, walkVars,
                 countVars>>

\* The end of a call that ended or flushed a: the ticket is dropped, complete
\* and fail leave the children of the parent, cancel_tree goes on.
Leave(a) ==
  /\ op' = [op EXCEPT ![a] = "none"]
  /\ by' = [by EXCEPT ![a] = "none"]
  /\ inflight' = [inflight EXCEPT ![a] = FALSE]
  /\ children' = [p \in Agent |->
       IF by[a] = "end" /\ p = parent[a] THEN children[p] \ {a} ELSE children[p]]
  /\ walk' = [w \in Walker |->
       IF by[a] = "cancel" /\ on[w] = a /\ walk[w] = "closing" THEN "walking" ELSE walk[w]]
  /\ on' = [w \in Walker |->
       IF by[a] = "cancel" /\ on[w] = a /\ walk[w] = "closing" THEN NoAgent ELSE on[w]]

\* Mutant: the default outcome of a guard is left in place.
OutcomeDefault(s) == "Failed"

Outcome(s) ==
  CASE s = "completed" -> "Completed" [] s = "failed" -> "Failed" [] s = "cancelled" -> "Cancelled"

\* The outcome of the lease is set and its guard dropped; flush_to_ledger
\* keeps a record for what the ledger has not confirmed, if there is anything.
Release(a) ==
  /\ op[a] = "taken"
  /\ lease' = [lease EXCEPT ![a] = IF @ = "held" THEN Outcome(state[a]) ELSE @]
  /\ IF inflight[a] /\ used[a] # done[a]
     THEN /\ op' = [op EXCEPT ![a] = "flush"]
          /\ pend' = [pend EXCEPT ![a] = used[a]]
          /\ UNCHANGED <<by, inflight, children, walk, on>>
     ELSE Leave(a) /\ UNCHANGED pend
  /\ UNCHANGED <<spawnVars, state, token, budget, ctx, used, done, ids, booked,
                 recording, queue, found, root, due, countVars>>

\* Mutant: a retry is a record of its own.
BookAnew(a) ==
  /\ ids' = [ids EXCEPT ![a] = @ \union {pend[a]}]
  /\ booked' = [booked EXCEPT ![a] = @ + (pend[a] - done[a])]

\* The record of the pending target; an id the ledger has is not added again.
Book(a) ==
  /\ ids' = [ids EXCEPT ![a] = @ \union {pend[a]}]
  /\ booked' = [booked EXCEPT ![a] =
       IF pend[a] \in ids[a] THEN @ ELSE @ + (pend[a] - done[a])]

\* The ledger confirms; what was recorded after an older pending record is
\* committed next, then the controller is dropped.
FlushOk(a) ==
  /\ op[a] = "flush"
  /\ Book(a)
  /\ done' = [done EXCEPT ![a] = pend[a]]
  /\ IF pend[a] = used[a]
     THEN Leave(a) /\ pend' = [pend EXCEPT ![a] = 0]
     ELSE /\ pend' = [pend EXCEPT ![a] = used[a]]
          /\ UNCHANGED <<op, by, inflight, children, walk, on>>
  /\ UNCHANGED <<spawnVars, state, token, lease, budget, ctx, used, recording,
                 queue, found, root, due, countVars>>

\* Mutant: the context is not kept.
FlushErrBare(a) ==
  /\ op[a] = "flush"
  /\ faults < MaxFaults
  /\ faults' = faults + 1
  /\ budget' = [budget EXCEPT ![a] = TRUE]
  /\ op' = [op EXCEPT ![a] = "kept"]
  /\ UNCHANGED <<spawnVars, workerVars, ctx, inflight, by, bookVars, walkVars,
                 drops, lost>>

\* The ledger fails, with or without the record: controller and context go
\* back into their maps.
FlushErr(a) ==
  /\ op[a] = "flush"
  /\ faults < MaxFaults
  /\ faults' = faults + 1
  /\ Book(a) \/ UNCHANGED <<ids, booked>>
  /\ budget' = [budget EXCEPT ![a] = TRUE]
  /\ ctx' = [ctx EXCEPT ![a] = TRUE]
  /\ op' = [op EXCEPT ![a] = "kept"]
  /\ UNCHANGED <<spawnVars, workerVars, inflight, by, used, done, pend,
                 recording, walkVars, drops, lost>>

\* UsageFlushPending is returned; the ticket is dropped last.
Kept(a) ==
  /\ op[a] = "kept"
  /\ Leave(a)
  /\ UNCHANGED <<spawnVars, state, token, lease, budget, ctx, bookVars, queue,
                 found, root, due, countVars>>

\* The future is dropped while it waits for the ledger: the ticket goes, and
\* the controller with it.
DropCall(a) ==
  /\ op[a] = "flush"
  /\ drops < MaxDrops
  /\ drops' = drops + 1
  /\ Book(a) \/ UNCHANGED <<ids, booked>>
  /\ lost' = lost \union {a}
  /\ op' = [op EXCEPT ![a] = "none"]
  /\ by' = [by EXCEPT ![a] = "none"]
  /\ inflight' = [inflight EXCEPT ![a] = FALSE]
  /\ walk' = [w \in Walker |->
       IF by[a] = "cancel" /\ on[w] = a /\ walk[w] = "closing" THEN "dropped" ELSE walk[w]]
  /\ UNCHANGED <<spawnVars, workerVars, budget, ctx, used, done, pend,
                 recording, queue, found, on, root, due, faults>>

\* flush_usage: claims controller and context when both are there and no
\* flush is under way.  Its other answers change nothing.
FlushUsage(a) ==
  /\ at[a] = "returned"
  /\ state[a] \in Terminal
  /\ ~inflight[a] /\ budget[a] /\ ctx[a]
  /\ budget' = [budget EXCEPT ![a] = FALSE]
  /\ ctx' = [ctx EXCEPT ![a] = FALSE]
  /\ inflight' = [inflight EXCEPT ![a] = TRUE]
  /\ op' = [op EXCEPT ![a] = "flush"]
  /\ by' = [by EXCEPT ![a] = "retry"]
  /\ UNCHANGED <<spawnVars, workerVars, bookVars, walkVars, countVars>>

-----------------------------------------------------------------------------
(* cancel_tree                                                             *)

Below(r) == {a \in Agent : r \in above[a]}

CancelTree(w, r) ==
  /\ walk[w] = "idle"
  /\ at[r] = "returned"
  /\ walk' = [walk EXCEPT ![w] = "walking"]
  /\ queue' = [queue EXCEPT ![w] = {r}]
  /\ root' = [root EXCEPT ![w] = r]
  /\ due' = [due EXCEPT ![w] = Active \intersect (Below(r) \union {r})]
  /\ UNCHANGED <<spawnVars, workerVars, flushVars, bookVars, found, on, countVars>>

\* Mutant: only the children of the root are followed.
WalkOneLevel(w) ==
  /\ walk[w] = "walking"
  /\ \E id \in queue[w] :
       /\ queue' = [queue EXCEPT ![w] =
            IF id = root[w] THEN (@ \ {id}) \union children[id] ELSE @ \ {id}]
       /\ found' = [found EXCEPT ![w] = @ \union {id}]
  /\ UNCHANGED <<spawnVars, workerVars, flushVars, bookVars, walk, on, root,
                 due, countVars>>

\* The children of one node, under the lock of the children.
Walk(w) ==
  /\ walk[w] = "walking"
  /\ \E id \in queue[w] :
       /\ queue' = [queue EXCEPT ![w] = (@ \ {id}) \union children[id]]
       /\ found' = [found EXCEPT ![w] = @ \union {id}]
  /\ UNCHANGED <<spawnVars, workerVars, flushVars, bookVars, walk, on, root, due, countVars>>

\* The next node: its token, if it has one.
Signal(w) ==
  /\ walk[w] = "walking" /\ queue[w] = {}
  /\ \E id \in found[w] :
       /\ found' = [found EXCEPT ![w] = @ \ {id}]
       /\ on' = [on EXCEPT ![w] = id]
       /\ token' = [token EXCEPT ![id] = IF @ = "set" THEN "cancelled" ELSE @]
  /\ walk' = [walk EXCEPT ![w] = "signalled"]
  /\ UNCHANGED <<spawnVars, state, children, lease, flushVars, bookVars, queue,
                 root, due, countVars>>

\* A worker that is not registered or has ended is passed over.
CancelNode(w) ==
  /\ walk[w] = "signalled"
  /\ IF state[on[w]] = "live"
     THEN /\ Take(on[w], "cancelled", "cancel")
          /\ walk' = [walk EXCEPT ![w] = "closing"]
          /\ UNCHANGED on
     ELSE /\ walk' = [walk EXCEPT ![w] = "walking"]
          /\ on' = [on EXCEPT ![w] = NoAgent]
          /\ UNCHANGED <<state, budget, inflight, op, by>>
  /\ UNCHANGED <<spawnVars, children, token, lease, ctx, bookVars, queue, found,
                 root, due, countVars>>

CancelReturns(w) ==
  /\ walk[w] = "walking" /\ queue[w] = {} /\ found[w] = {}
  /\ walk' = [walk EXCEPT ![w] = "returned"]
  /\ UNCHANGED <<spawnVars, workerVars, flushVars, bookVars, queue, found, on,
                 root, due, countVars>>

-----------------------------------------------------------------------------
SpawnStep(a) ==
  \/ \E p \in Agent \union {NoAgent} : Validate(a, p)
  \/ Reserve(a) \/ Deny(a) \/ AbortSpawn(a)
  \/ Attach(a) \/ InsertToken(a) \/ Register(a) \/ InsertBudget(a)

\* What the caller of an operation on a does next.
CallStep(a) == Release(a) \/ FlushOk(a) \/ FlushErr(a) \/ Kept(a)

WalkStep(w) == Walk(w) \/ Signal(w) \/ CancelNode(w) \/ CancelReturns(w)

Next ==
  \/ \E a \in Agent :
       \/ SpawnStep(a)
       \/ RecordCheck(a) \/ RecordAdd(a)
       \/ \E to \in {"completed", "failed"} : Finish(a, to)
       \/ CallStep(a) \/ DropCall(a) \/ FlushUsage(a)
  \/ \E w \in Walker : WalkStep(w) \/ \E r \in Agent : CancelTree(w, r)

Spec == Init /\ [][Next]_vars

-----------------------------------------------------------------------------
(* Properties                                                              *)

SupTypeOK ==
  /\ at \in [Agent -> Spawning \union {"idle", "refused", "returned"}]
  /\ parent \in [Agent -> Agent \union {NoAgent}]
  /\ above \in [Agent -> SUBSET Agent]
  /\ reserved \subseteq Agent
  /\ state \in [Agent -> Terminal \union {"none", "live"}]
  /\ children \in [Agent -> SUBSET Agent]
  /\ token \in [Agent -> {"none", "set", "cancelled"}]
  /\ lease \in [Agent -> {"none", "held", "Completed", "Failed", "Cancelled"}]
  /\ budget \in [Agent -> BOOLEAN] /\ ctx \in [Agent -> BOOLEAN]
  /\ inflight \in [Agent -> BOOLEAN]
  /\ op \in [Agent -> {"none", "taken", "flush", "kept"}]
  /\ by \in [Agent -> {"none", "end", "cancel", "retry"}]
  /\ used \in [Agent -> Nat] /\ done \in [Agent -> Nat] /\ pend \in [Agent -> Nat]
  /\ ids \in [Agent -> SUBSET Nat] /\ booked \in [Agent -> Nat]
  /\ recording \subseteq Agent /\ lost \subseteq Agent
  /\ walk \in [Walker -> {"idle", "walking", "signalled", "closing", "returned", "dropped"}]
  /\ queue \in [Walker -> SUBSET Agent] /\ found \in [Walker -> SUBSET Agent]
  /\ root \in [Walker -> Agent \union {NoAgent}] /\ due \in [Walker -> SUBSET Agent]
  /\ on \in [Walker -> Agent \union {NoAgent}]
  /\ faults \in Nat /\ drops \in Nat

\* reserve_concurrency promises no over-commitment: the slots reserved and the
\* workers alive never exceed the limit, whichever spawns interleave, and a
\* slot is not lost between the reservation and the worker.
ConcurrencyRespected == Cardinality(reserved \union Active) <= Limit

\* A worker whose ancestor between it and the root completed or failed has
\* left the children the root reaches.
CutOff(r, a) ==
  \E m \in above[a] \intersect Below(r) : state[m] \in {"completed", "failed"}

\* cancel_tree promises to cancel every descendant: when it returns, every
\* worker alive in the tree when it was called has ended, and one it cancelled
\* has been told by its token, unless an ancestor in between ended by itself.
TreeIsCancelled ==
  \A w \in Walker, a \in Agent :
    walk[w] = "returned" /\ a \in due[w] =>
      \/ state[a] \in Terminal /\ (state[a] = "cancelled" => token[a] = "cancelled")
      \/ CutOff(root[w], a)

\* A lease goes back with the outcome of its worker's end (a cancellation must
\* not count against the account as a failure), and no ended worker keeps one.
LeaseSettled ==
  \A a \in Agent :
    at[a] = "returned" /\ op[a] # "taken" =>
      /\ state[a] = "completed" => lease[a] \in {"none", "Completed"}
      /\ state[a] = "failed" => lease[a] \in {"none", "Failed"}
      /\ state[a] = "cancelled" => lease[a] \in {"none", "Cancelled"}

\* Ended workers with usage that the ledger has not confirmed, that no flush is
\* under way for, and that a retry would not find in both maps.
OutOfReach ==
  {a \in Agent : state[a] \in Terminal /\ ~inflight[a] /\ used[a] # done[a]
                 /\ ~(budget[a] /\ ctx[a])}

\* Failed writes leave usage where flush_usage finds it.  A future that is dropped
\* at the ledger takes the usage of its worker along, and nothing else does: no
\* more workers are out of reach than futures were dropped.
UsageKept == Cardinality(OutOfReach) <= drops

\* Retries, late failures and dropped futures never book usage twice: the
\* ledger holds what was confirmed, or the pending record on top of it.
BookedOnce ==
  \A a \in Agent :
    /\ booked[a] <= used[a]
    /\ booked[a] \in {done[a], pend[a]}

\* Usage is booked once at most, and stays in reach of a retry but for one worker
\* per dropped future, whatever the ledger answers and whichever caller retries
\* (flush_usage, flush_terminal_usage, FlushTicket).
UsageExact == UsageKept /\ BookedOnce
=============================================================================
