-------------------------- MODULE SupervisorProofs --------------------------
(***************************************************************************)
(* Proofs about Supervisor, for every finite set of agents, any number of  *)
(* calls of cancel_tree, every limit, depth and bound, and any number of   *)
(* faults and dropped futures.                                             *)
(***************************************************************************)
EXTENDS Supervisor, FiniteSetTheorems, TLAPS

-----------------------------------------------------------------------------
(* The inductive invariant                                                 *)

Ended == {"completed", "failed"}
Placed == {"registered", "returned"}

\* Where the spawn is, what the registry knows of the agent.
SpawnOK(a) ==
  /\ a \in reserved <=> at[a] \in {"reserved", "attached", "tokened"}
  /\ state[a] = "live" => at[a] \in Placed
  /\ at[a] \in Placed => state[a] # "none"
  /\ at[a] \in Placed \union {"tokened"} => token[a] # "none"
  /\ at[a] \notin Placed \union {"refused"} => state[a] = "none"
  /\ at[a] \in {"idle", "validated", "reserved", "refused"} => lease[a] = "none"

\* An agent whose usage no flush has touched.
Fresh(a) == state[a] \in {"none", "live"} \/ op[a] = "taken" \/ at[a] # "returned"

\* The call that ends the agent or flushes it, the controller and its context.
CallOK(a) ==
  /\ state[a] \notin Terminal => op[a] = "none"
  /\ op[a] = "none" => by[a] = "none" /\ ~inflight[a]
  /\ by[a] = "end" => state[a] \in Ended
  /\ at[a] # "returned" => ~budget[a] /\ ~inflight[a] /\ used[a] = 0 /\ a \notin recording
  /\ at[a] = "returned" /\ state[a] = "live" => budget[a]
  /\ Fresh(a) => ~ctx[a] /\ done[a] = 0 /\ pend[a] = 0 /\ ids[a] = {} /\ a \notin lost
  /\ op[a] = "taken" /\ used[a] # 0 => inflight[a]
  /\ op[a] = "flush" => inflight[a] /\ ~ctx[a] /\ pend[a] # 0
  /\ op[a] = "kept" => inflight[a] /\ ctx[a] /\ budget[a]
  /\ ctx[a] => pend[a] # 0
  /\ a \in recording /\ budget[a] /\ state[a] \in Terminal => ctx[a]
  /\ state[a] \in Terminal /\ ~inflight[a] /\ used[a] # done[a] /\ a \notin lost => budget[a] /\ ctx[a]

\* The record under way is the last one, and it is booked once.
BookOK(a) ==
  /\ done[a] <= used[a]
  /\ pend[a] = 0 \/ (done[a] < pend[a] /\ pend[a] <= used[a])
  /\ \A i \in ids[a] : i <= done[a] \/ i = pend[a]
  /\ 0 \notin ids[a]
  /\ booked[a] = IF pend[a] \in ids[a] THEN pend[a] ELSE done[a]

LeaseOK(a) ==
  /\ state[a] \in {"none", "live"} \/ op[a] = "taken" => lease[a] \in {"none", "held"}
  /\ state[a] \in Terminal /\ op[a] # "taken" => lease[a] \in {"none", Outcome(state[a])}

\* The tree of the spawns, and the map of children cancel_tree follows.
TreeOK(a) ==
  /\ parent[a] = NoAgent => above[a] = {}
  /\ parent[a] # NoAgent => above[a] = above[parent[a]] \union {parent[a]}
  /\ \A m \in above[a] : at[m] = "returned" /\ \E c \in above[a] \union {a} : parent[c] = m
  /\ \A c \in children[a] : parent[c] = a /\ at[c] \in Placed \union {"attached", "tokened"}
  /\ parent[a] # NoAgent /\ at[a] \in Placed \union {"attached", "tokened"} /\ state[a] \notin Ended =>
       a \in children[parent[a]]

\* What a walk knows of a worker that was alive when it began.
Reached(w, a) ==
  \/ CutOff(root[w], a)
  \/ state[a] \in Ended
  \/ state[a] = "cancelled" /\ token[a] = "cancelled"
  \/ a \in found[w]
  \/ walk[w] = "signalled" /\ on[w] = a /\ token[a] = "cancelled"
  \/ \E m \in queue[w] : m = a \/ m \in above[a]

WalkOK(w) ==
  /\ walk[w] = "signalled" => on[w] \in Agent
  /\ walk[w] = "returned" => queue[w] = {} /\ found[w] = {}
  /\ \A m \in queue[w] : m = root[w] \/ root[w] \in above[m]
  /\ \A m \in queue[w] : at[m] \in Placed \union {"attached", "tokened"}
  /\ \A a \in due[w] : at[a] \in Placed
  /\ walk[w] = "idle" => due[w] = {}
  /\ \A a \in due[w] : walk[w] # "dropped" => Reached(w, a)

SupInv ==
  /\ SupTypeOK
  /\ \A a \in Agent : SpawnOK(a) /\ CallOK(a) /\ BookOK(a) /\ LeaseOK(a) /\ TreeOK(a)
  /\ \A w \in Walker : WalkOK(w)
  /\ ConcurrencyRespected
-----------------------------------------------------------------------------
(* Type correctness                                                        *)

\* The type invariant in four parts.
TypeSpawn ==
  /\ at \in [Agent -> Spawning \union {"idle", "refused", "returned"}]
  /\ parent \in [Agent -> Agent \union {NoAgent}]
  /\ above \in [Agent -> SUBSET Agent]
  /\ reserved \subseteq Agent
  /\ state \in [Agent -> Terminal \union {"none", "live"}]
  /\ children \in [Agent -> SUBSET Agent]
  /\ token \in [Agent -> {"none", "set", "cancelled"}]
  /\ lease \in [Agent -> {"none", "held", "Completed", "Failed", "Cancelled"}]

TypeCall ==
  /\ budget \in [Agent -> BOOLEAN] /\ ctx \in [Agent -> BOOLEAN]
  /\ inflight \in [Agent -> BOOLEAN]
  /\ op \in [Agent -> {"none", "taken", "flush", "kept"}]
  /\ by \in [Agent -> {"none", "end", "cancel", "retry"}]

TypeBook ==
  /\ used \in [Agent -> Nat] /\ done \in [Agent -> Nat] /\ pend \in [Agent -> Nat]
  /\ ids \in [Agent -> SUBSET Nat] /\ booked \in [Agent -> Nat]
  /\ recording \subseteq Agent /\ lost \subseteq Agent
  /\ faults \in Nat /\ drops \in Nat

TypeWalk ==
  /\ walk \in [Walker -> {"idle", "walking", "signalled", "closing", "returned", "dropped"}]
  /\ queue \in [Walker -> SUBSET Agent] /\ found \in [Walker -> SUBSET Agent]
  /\ root \in [Walker -> Agent \union {NoAgent}] /\ due \in [Walker -> SUBSET Agent]
  /\ on \in [Walker -> Agent \union {NoAgent}]

LEMMA TypeParts == SupTypeOK <=> TypeSpawn /\ TypeCall /\ TypeBook /\ TypeWalk
  BY DEF SupTypeOK, TypeSpawn, TypeCall, TypeBook, TypeWalk

LEMMA TypePartsNext == TypeSpawn' /\ TypeCall' /\ TypeBook' /\ TypeWalk' => SupTypeOK'
  BY TypeParts, PTL

LEMMA LeaveType ==
  ASSUME SupTypeOK, NEW a \in Agent, Leave(a)
  PROVE  /\ op' \in [Agent -> {"none", "taken", "flush", "kept"}]
         /\ by' \in [Agent -> {"none", "end", "cancel", "retry"}]
         /\ inflight' \in [Agent -> BOOLEAN]
         /\ children' \in [Agent -> SUBSET Agent]
         /\ walk' \in [Walker -> {"idle", "walking", "signalled", "closing", "returned", "dropped"}]
         /\ on' \in [Walker -> Agent \union {NoAgent}]
  BY DEF SupTypeOK, Leave

LEMMA BookType ==
  ASSUME SupTypeOK, NEW a \in Agent, BookOK(a), pend[a] # 0, Book(a) \/ UNCHANGED <<ids, booked>>
  PROVE  ids' \in [Agent -> SUBSET Nat] /\ booked' \in [Agent -> Nat]
  <1>1. pend[a] \in Nat /\ done[a] \in Nat /\ pend[a] - done[a] \in Nat /\ booked[a] \in Nat
    BY DEF SupTypeOK, BookOK
  <1>2. booked[a] + (pend[a] - done[a]) \in Nat
    BY <1>1
  <1>3. CASE Book(a)
    <2>1. ids' = [ids EXCEPT ![a] = ids[a] \union {pend[a]}]
          /\ booked' = [booked EXCEPT ![a] =
               IF pend[a] \in ids[a] THEN booked[a] ELSE booked[a] + (pend[a] - done[a])]
      BY <1>3 DEF Book
    <2> QED
      BY <1>1, <1>2, <2>1 DEF SupTypeOK
  <1> QED
    BY <1>3 DEF SupTypeOK

LEMMA TypeStep ==
  ASSUME SupInv, [Next]_vars
  PROVE  SupTypeOK'
  <1>0. SupTypeOK /\ \A a \in Agent : CallOK(a) /\ BookOK(a) /\ LeaseOK(a)
    BY DEF SupInv
  <1>00. TypeSpawn /\ TypeCall /\ TypeBook /\ TypeWalk
    BY <1>0, TypeParts
  <1> USE DEF spawnVars, workerVars, flushVars, bookVars, walkVars, countVars,
              Terminal, Spawning
  <1>1. ASSUME NEW a \in Agent, NEW p \in Agent \union {NoAgent}, Validate(a, p) PROVE SupTypeOK'
    <2>1. (IF p = NoAgent THEN {} ELSE above[p] \union {p}) \subseteq Agent
      BY <1>0 DEF SupTypeOK
    <2> QED
      BY <1>0, <1>1, <2>1 DEF Validate, SupTypeOK
  <1>2. ASSUME NEW a \in Agent, Reserve(a) \/ Deny(a) PROVE SupTypeOK'
    <2>5. TypeSpawn'
      BY <1>00, <1>2 DEF Reserve, Deny, Forget, TypeSpawn
    <2>6. TypeCall'
      BY <1>00, <1>2 DEF Reserve, Deny, Forget, TypeCall
    <2>7. TypeBook'
      BY <1>00, <1>2 DEF Reserve, Deny, Forget, TypeBook
    <2>8. TypeWalk'
      BY <1>00, <1>2 DEF Reserve, Deny, Forget, TypeWalk
    <2> QED
      BY <2>5, <2>6, <2>7, <2>8, TypePartsNext
  <1>3. ASSUME NEW a \in Agent, AbortSpawn(a) \/ InsertToken(a) \/ Register(a) \/ InsertBudget(a)
        PROVE  SupTypeOK'
    <2>5. TypeSpawn'
      BY <1>00, <1>3 DEF AbortSpawn, InsertToken, Register, InsertBudget, TypeSpawn
    <2>6. TypeCall'
      BY <1>00, <1>3 DEF AbortSpawn, InsertToken, Register, InsertBudget, TypeCall
    <2>7. TypeBook'
      BY <1>00, <1>3 DEF AbortSpawn, InsertToken, Register, InsertBudget, TypeBook
    <2>8. TypeWalk'
      BY <1>00, <1>3 DEF AbortSpawn, InsertToken, Register, InsertBudget, TypeWalk
    <2> QED
      BY <2>5, <2>6, <2>7, <2>8, TypePartsNext
  <1>4. ASSUME NEW a \in Agent, Attach(a) PROVE SupTypeOK'
    BY <1>0, <1>4 DEF Attach, SupTypeOK
  <1>5. ASSUME NEW a \in Agent, RecordCheck(a) \/ RecordAdd(a) PROVE SupTypeOK'
    BY <1>0, <1>5 DEF RecordCheck, RecordAdd, SupTypeOK
  <1>6. ASSUME NEW a \in Agent, NEW to \in {"completed", "failed"}, Finish(a, to) PROVE SupTypeOK'
    BY <1>0, <1>6 DEF Finish, Take, SupTypeOK
  <1>7. ASSUME NEW a \in Agent, Release(a) PROVE SupTypeOK'
    <2>1. Outcome(state[a]) \in {"Completed", "Failed", "Cancelled"} \/ lease[a] # "held"
      BY <1>0, <1>7 DEF Release, LeaseOK, CallOK, Outcome
    <2>2. CASE inflight[a] /\ used[a] # done[a]
      <3>5. TypeSpawn'
        BY <1>00, <1>7, <2>1, <2>2 DEF Release, TypeSpawn
      <3>6. TypeCall'
        BY <1>00, <1>7, <2>1, <2>2 DEF Release, TypeCall
      <3>7. TypeBook'
        BY <1>00, <1>7, <2>1, <2>2 DEF Release, TypeBook
      <3>8. TypeWalk'
        BY <1>00, <1>7, <2>1, <2>2 DEF Release, TypeWalk
      <3> QED
        BY <3>5, <3>6, <3>7, <3>8, TypePartsNext
    <2>3. CASE ~(inflight[a] /\ used[a] # done[a])
      <3>1. Leave(a) /\ pend' = pend
        BY <1>7, <2>3 DEF Release
      <3>2. lease' \in [Agent -> {"none", "held", "Completed", "Failed", "Cancelled"}]
        BY <1>0, <1>7, <2>1 DEF Release, SupTypeOK
      <3>3. UNCHANGED <<spawnVars, state, token, budget, ctx, used, done, pend, ids, booked,
                        recording, queue, found, root, due, countVars>>
        BY <1>7, <3>1 DEF Release
      <3> QED
        BY <1>0, <3>1, <3>2, <3>3, LeaveType DEF SupTypeOK
    <2> QED
      BY <2>2, <2>3
  <1>8. ASSUME NEW a \in Agent, FlushOk(a) PROVE SupTypeOK'
    <2>1. ids' \in [Agent -> SUBSET Nat] /\ booked' \in [Agent -> Nat]
      BY <1>0, <1>8, BookType DEF CallOK, FlushOk, SupTypeOK
    <2>2. CASE pend[a] = used[a]
      <3>1. Leave(a) /\ pend' = [pend EXCEPT ![a] = 0] /\ done' = [done EXCEPT ![a] = pend[a]]
        BY <1>8, <2>2 DEF FlushOk
      <3>2. UNCHANGED <<spawnVars, state, token, lease, budget, ctx, used, recording,
                        queue, found, root, due, countVars>>
        BY <1>8 DEF FlushOk
      <3> QED
        BY <1>0, <2>1, <3>1, <3>2, LeaveType DEF SupTypeOK
    <2>3. CASE pend[a] # used[a]
      <3>5. TypeSpawn'
        BY <1>00, <1>8, <2>1, <2>3 DEF FlushOk, TypeSpawn
      <3>6. TypeCall'
        BY <1>00, <1>8, <2>1, <2>3 DEF FlushOk, TypeCall
      <3>7. TypeBook'
        BY <1>00, <1>8, <2>1, <2>3 DEF FlushOk, TypeBook
      <3>8. TypeWalk'
        BY <1>00, <1>8, <2>1, <2>3 DEF FlushOk, TypeWalk
      <3> QED
        BY <3>5, <3>6, <3>7, <3>8, TypePartsNext
    <2> QED
      BY <2>2, <2>3
  <1>9. ASSUME NEW a \in Agent, FlushErr(a) PROVE SupTypeOK'
    <2>1. ids' \in [Agent -> SUBSET Nat] /\ booked' \in [Agent -> Nat]
      BY <1>0, <1>9, BookType DEF CallOK, FlushErr, SupTypeOK
    <2> QED
      <3>5. TypeSpawn'
        BY <1>00, <1>9, <2>1 DEF FlushErr, TypeSpawn
      <3>6. TypeCall'
        BY <1>00, <1>9, <2>1 DEF FlushErr, TypeCall
      <3>7. TypeBook'
        BY <1>00, <1>9, <2>1 DEF FlushErr, TypeBook
      <3>8. TypeWalk'
        BY <1>00, <1>9, <2>1 DEF FlushErr, TypeWalk
      <3> QED
        BY <3>5, <3>6, <3>7, <3>8, TypePartsNext
  <1>10. ASSUME NEW a \in Agent, Kept(a) PROVE SupTypeOK'
    <2>1. Leave(a) /\ UNCHANGED <<spawnVars, state, token, lease, budget, ctx, bookVars, queue,
                                  found, root, due, countVars>>
      BY <1>10 DEF Kept
    <2> QED
      BY <1>0, <2>1, LeaveType DEF SupTypeOK
  <1>11. ASSUME NEW a \in Agent, DropCall(a) PROVE SupTypeOK'
    <2>1. ids' \in [Agent -> SUBSET Nat] /\ booked' \in [Agent -> Nat]
      BY <1>0, <1>11, BookType DEF CallOK, DropCall, SupTypeOK
    <2> QED
      <3>5. TypeSpawn'
        BY <1>00, <1>11, <2>1 DEF DropCall, TypeSpawn
      <3>6. TypeCall'
        BY <1>00, <1>11, <2>1 DEF DropCall, TypeCall
      <3>7. TypeBook'
        BY <1>00, <1>11, <2>1 DEF DropCall, TypeBook
      <3>8. TypeWalk'
        BY <1>00, <1>11, <2>1 DEF DropCall, TypeWalk
      <3> QED
        BY <3>5, <3>6, <3>7, <3>8, TypePartsNext
  <1>12. ASSUME NEW a \in Agent, FlushUsage(a) PROVE SupTypeOK'
    BY <1>0, <1>12 DEF FlushUsage, SupTypeOK
  <1>13. ASSUME NEW w \in Walker, NEW r \in Agent, CancelTree(w, r) PROVE SupTypeOK'
    BY <1>0, <1>13 DEF CancelTree, Active, SupTypeOK
  <1>14. ASSUME NEW w \in Walker, Walk(w) PROVE SupTypeOK'
    BY <1>0, <1>14 DEF Walk, SupTypeOK
  <1>15. ASSUME NEW w \in Walker, Signal(w) PROVE SupTypeOK'
    BY <1>0, <1>15 DEF Signal, SupTypeOK
  <1>16. ASSUME NEW w \in Walker, CancelNode(w) PROVE SupTypeOK'
    <2>1. on[w] \in Agent
      BY <1>16 DEF SupInv, WalkOK, CancelNode
    <2> QED
      <3>5. TypeSpawn'
        BY <1>00, <1>16, <2>1 DEF CancelNode, Take, TypeSpawn
      <3>6. TypeCall'
        BY <1>00, <1>16, <2>1 DEF CancelNode, Take, TypeCall
      <3>7. TypeBook'
        BY <1>00, <1>16, <2>1 DEF CancelNode, Take, TypeBook
      <3>8. TypeWalk'
        BY <1>00, <1>16, <2>1 DEF CancelNode, Take, TypeWalk
      <3> QED
        BY <3>5, <3>6, <3>7, <3>8, TypePartsNext
  <1>17. ASSUME NEW w \in Walker, CancelReturns(w) PROVE SupTypeOK'
    BY <1>0, <1>17 DEF CancelReturns, SupTypeOK
  <1>18. ASSUME UNCHANGED vars PROVE SupTypeOK'
    BY <1>0, <1>18 DEF vars, SupTypeOK
  <1> QED
    BY <1>1, <1>2, <1>3, <1>4, <1>5, <1>6, <1>7, <1>8, <1>9, <1>10, <1>11, <1>12, <1>13, <1>14,
       <1>15, <1>16, <1>17, <1>18
    DEF Next, SpawnStep, CallStep, WalkStep

-----------------------------------------------------------------------------
(* One agent                                                               *)

\* What the invariant says of one agent, its place in the tree apart.
AgentOK(a) == SpawnOK(a) /\ CallOK(a) /\ BookOK(a) /\ LeaseOK(a)

\* A step that is about another agent.
LEMMA AgentFrame ==
  ASSUME NEW a \in Agent, AgentOK(a),
         at'[a] = at[a], state'[a] = state[a], token'[a] = token[a], lease'[a] = lease[a],
         budget'[a] = budget[a], ctx'[a] = ctx[a], inflight'[a] = inflight[a],
         op'[a] = op[a], by'[a] = by[a],
         used'[a] = used[a], done'[a] = done[a], pend'[a] = pend[a], ids'[a] = ids[a],
         booked'[a] = booked[a],
         a \in reserved' <=> a \in reserved, a \in recording' <=> a \in recording,
         a \in lost' <=> a \in lost
  PROVE  AgentOK(a)'
  <1>1. SpawnOK(a)'
    BY DEF AgentOK, SpawnOK
  <1>2. CallOK(a)'
    BY DEF AgentOK, CallOK, Fresh
  <1>3. BookOK(a)'
    BY DEF AgentOK, BookOK
  <1>4. LeaseOK(a)'
    BY DEF AgentOK, LeaseOK
  <1> QED
    BY <1>1, <1>2, <1>3, <1>4 DEF AgentOK

\* The steps of spawn.
LEMMA SpawnAgent ==
  ASSUME SupTypeOK, NEW a \in Agent, AgentOK(a), NEW b \in Agent, SpawnStep(b)
  PROVE  AgentOK(a)'
  <1> USE DEF SupTypeOK, spawnVars, workerVars, flushVars, bookVars, walkVars, countVars,
              Terminal, Spawning, Placed, Ended
  <1>1. ASSUME NEW p \in Agent \union {NoAgent}, Validate(b, p) PROVE AgentOK(a)'
    <2>1. CASE a # b
      BY <1>1, <2>1, AgentFrame DEF Validate
    <2>2. CASE a = b
      <3>1. SpawnOK(a)'
        BY <1>1, <2>2 DEF Validate, AgentOK, SpawnOK
      <3>2. CallOK(a)'
        BY <1>1, <2>2 DEF Validate, AgentOK, SpawnOK, CallOK, Fresh
      <3>3. BookOK(a)'
        BY <1>1 DEF Validate, AgentOK, BookOK
      <3>4. LeaseOK(a)'
        BY <1>1, <2>2 DEF Validate, AgentOK, SpawnOK, CallOK, LeaseOK
      <3> QED
        BY <3>1, <3>2, <3>3, <3>4 DEF AgentOK
    <2> QED
      BY <2>1, <2>2
  <1>2. ASSUME Reserve(b) PROVE AgentOK(a)'
    <2>1. CASE a # b
      <3>1. at'[a] = at[a] /\ (a \in reserved' <=> a \in reserved)
        BY <1>2, <2>1 DEF Reserve, Forget
      <3>2. UNCHANGED <<state, token, lease, budget, ctx, inflight, op, by, bookVars, lost>>
        BY <1>2 DEF Reserve
      <3> QED
        BY <3>1, <3>2, AgentFrame
    <2>2. CASE a = b
      <3>1. SpawnOK(a)'
        BY <1>2, <2>2 DEF Reserve, Forget, AgentOK, SpawnOK
      <3>2. CallOK(a)'
        BY <1>2, <2>2 DEF Reserve, Forget, AgentOK, SpawnOK, CallOK, Fresh
      <3>3. BookOK(a)'
        BY <1>2 DEF Reserve, Forget, AgentOK, BookOK
      <3>4. LeaseOK(a)'
        BY <1>2, <2>2 DEF Reserve, Forget, AgentOK, SpawnOK, CallOK, LeaseOK
      <3> QED
        BY <3>1, <3>2, <3>3, <3>4 DEF AgentOK
    <2> QED
      BY <2>1, <2>2
  <1>3. ASSUME Deny(b) PROVE AgentOK(a)'
    <2>1. CASE a # b
      BY <1>3, <2>1, AgentFrame DEF Deny, Forget
    <2>2. CASE a = b
      <3>1. SpawnOK(a)'
        BY <1>3, <2>2 DEF Deny, Forget, AgentOK, SpawnOK
      <3>2. CallOK(a)'
        BY <1>3, <2>2 DEF Deny, Forget, AgentOK, SpawnOK, CallOK, Fresh
      <3>3. BookOK(a)'
        BY <1>3 DEF Deny, Forget, AgentOK, BookOK
      <3>4. LeaseOK(a)'
        BY <1>3, <2>2 DEF Deny, Forget, AgentOK, SpawnOK, CallOK, LeaseOK
      <3> QED
        BY <3>1, <3>2, <3>3, <3>4 DEF AgentOK
    <2> QED
      BY <2>1, <2>2
  <1>4. ASSUME AbortSpawn(b) PROVE AgentOK(a)'
    <2>1. CASE a # b
      BY <1>4, <2>1, AgentFrame DEF AbortSpawn
    <2>2. CASE a = b
      <3>1. SpawnOK(a)'
        BY <1>4, <2>2 DEF AbortSpawn, AgentOK, SpawnOK
      <3>2. CallOK(a)'
        BY <1>4, <2>2 DEF AbortSpawn, AgentOK, SpawnOK, CallOK, Fresh
      <3>3. BookOK(a)'
        BY <1>4 DEF AbortSpawn, AgentOK, BookOK
      <3>4. LeaseOK(a)'
        BY <1>4, <2>2 DEF AbortSpawn, AgentOK, SpawnOK, CallOK, LeaseOK
      <3> QED
        BY <3>1, <3>2, <3>3, <3>4 DEF AgentOK
    <2> QED
      BY <2>1, <2>2
  <1>5. ASSUME Attach(b) PROVE AgentOK(a)'
    <2>1. CASE a # b
      BY <1>5, <2>1, AgentFrame DEF Attach
    <2>2. CASE a = b
      <3>1. SpawnOK(a)'
        BY <1>5, <2>2 DEF Attach, AgentOK, SpawnOK
      <3>2. CallOK(a)'
        BY <1>5, <2>2 DEF Attach, AgentOK, SpawnOK, CallOK, Fresh
      <3>3. BookOK(a)'
        BY <1>5 DEF Attach, AgentOK, BookOK
      <3>4. LeaseOK(a)'
        BY <1>5, <2>2 DEF Attach, AgentOK, SpawnOK, CallOK, LeaseOK
      <3> QED
        BY <3>1, <3>2, <3>3, <3>4 DEF AgentOK
    <2> QED
      BY <2>1, <2>2
  <1>6. ASSUME InsertToken(b) PROVE AgentOK(a)'
    <2>1. CASE a # b
      BY <1>6, <2>1, AgentFrame DEF InsertToken
    <2>2. CASE a = b
      <3>1. SpawnOK(a)'
        BY <1>6, <2>2 DEF InsertToken, AgentOK, SpawnOK
      <3>2. CallOK(a)'
        BY <1>6, <2>2 DEF InsertToken, AgentOK, SpawnOK, CallOK, Fresh
      <3>3. BookOK(a)'
        BY <1>6 DEF InsertToken, AgentOK, BookOK
      <3>4. LeaseOK(a)'
        BY <1>6, <2>2 DEF InsertToken, AgentOK, SpawnOK, CallOK, LeaseOK
      <3> QED
        BY <3>1, <3>2, <3>3, <3>4 DEF AgentOK
    <2> QED
      BY <2>1, <2>2
  <1>7. ASSUME Register(b) PROVE AgentOK(a)'
    <2>1. CASE a # b
      BY <1>7, <2>1, AgentFrame DEF Register
    <2>2. CASE a = b
      <3>1. SpawnOK(a)'
        BY <1>7, <2>2 DEF Register, AgentOK, SpawnOK
      <3>2. CallOK(a)'
        BY <1>7, <2>2 DEF Register, AgentOK, SpawnOK, CallOK, Fresh
      <3>3. BookOK(a)'
        BY <1>7 DEF Register, AgentOK, BookOK
      <3>4. LeaseOK(a)'
        BY <1>7, <2>2 DEF Register, AgentOK, SpawnOK, CallOK, LeaseOK
      <3> QED
        BY <3>1, <3>2, <3>3, <3>4 DEF AgentOK
    <2> QED
      BY <2>1, <2>2
  <1>8. ASSUME InsertBudget(b) PROVE AgentOK(a)'
    <2>1. CASE a # b
      BY <1>8, <2>1, AgentFrame DEF InsertBudget
    <2>2. CASE a = b
      <3>1. SpawnOK(a)'
        BY <1>8, <2>2 DEF InsertBudget, AgentOK, SpawnOK
      <3>2. CallOK(a)'
        BY <1>8, <2>2 DEF InsertBudget, AgentOK, SpawnOK, CallOK, Fresh
      <3>3. BookOK(a)'
        BY <1>8 DEF InsertBudget, AgentOK, BookOK
      <3>4. LeaseOK(a)'
        BY <1>8, <2>2 DEF InsertBudget, AgentOK, SpawnOK, CallOK, LeaseOK
      <3> QED
        BY <3>1, <3>2, <3>3, <3>4 DEF AgentOK
    <2> QED
      BY <2>1, <2>2
  <1> QED
    BY <1>1, <1>2, <1>3, <1>4, <1>5, <1>6, <1>7, <1>8 DEF SpawnStep

LEMMA RecordAgent ==
  ASSUME SupTypeOK, NEW a \in Agent, AgentOK(a), NEW b \in Agent, RecordCheck(b) \/ RecordAdd(b)
  PROVE  AgentOK(a)'
  <1> USE DEF SupTypeOK, spawnVars, workerVars, flushVars, walkVars, countVars,
              Terminal, Placed, Ended, RecordCheck, RecordAdd
  <1>1. UNCHANGED <<spawnVars, workerVars, flushVars, done, pend, ids, booked, lost>>
    OBVIOUS
  <1>2. CASE a # b
    <2>1. used'[a] = used[a] /\ (a \in recording' <=> a \in recording)
      BY <1>2
    <2> QED
      BY <1>1, <2>1, AgentFrame
  <1>3. CASE a = b
    <2>1. SpawnOK(a)' /\ LeaseOK(a)'
      BY <1>1 DEF AgentOK, SpawnOK, LeaseOK
    <2>2. CallOK(a)'
      <3>1. CASE RecordCheck(b)
        BY <1>1, <1>3, <3>1 DEF AgentOK, SpawnOK, CallOK, Fresh
      <3>2. CASE RecordAdd(b)
        BY <1>1, <1>3, <3>2 DEF AgentOK, SpawnOK, CallOK, Fresh
      <3> QED
        BY <3>1, <3>2
    <2>3. used'[a] \in Nat /\ used'[a] >= used[a]
      BY <1>3
    <2>4. BookOK(a)'
      BY <1>1, <2>3 DEF AgentOK, BookOK
    <2> QED
      BY <2>1, <2>2, <2>4 DEF AgentOK
  <1> QED
    BY <1>2, <1>3

\* complete, fail and cancel_tree under the lock of the workers.
LEMMA TakeAgent ==
  ASSUME SupTypeOK, NEW a \in Agent, AgentOK(a), NEW b \in Agent,
         NEW to \in Terminal, NEW kind \in {"end", "cancel"}, kind = "end" => to \in Ended,
         state[b] = "live", Take(b, to, kind),
         UNCHANGED <<spawnVars, token, lease, ctx, bookVars, lost>>
  PROVE  AgentOK(a)'
  <1> USE DEF SupTypeOK, spawnVars, bookVars, Terminal, Placed, Ended, Take
  <1>1. CASE a # b
    <2>1. /\ state'[a] = state[a] /\ budget'[a] = budget[a] /\ inflight'[a] = inflight[a]
          /\ op'[a] = op[a] /\ by'[a] = by[a]
      BY <1>1
    <2> QED
      BY <2>1, AgentFrame
  <1>2. CASE a = b
    <2>1. /\ state'[a] = to /\ budget'[a] = FALSE /\ inflight'[a] = (inflight[a] \/ budget[a])
          /\ op'[a] = "taken" /\ by'[a] = kind
      BY <1>2
    <2>2. SpawnOK(a)' /\ LeaseOK(a)' /\ BookOK(a)'
      BY <1>2, <2>1 DEF AgentOK, SpawnOK, LeaseOK, BookOK
    <2>3. CallOK(a)'
      BY <1>2, <2>1 DEF AgentOK, SpawnOK, CallOK, Fresh
    <2> QED
      BY <2>2, <2>3 DEF AgentOK
  <1> QED
    BY <1>1, <1>2

\* The parts of Leave that are about the agent itself.
LEMMA LeaveAgent ==
  ASSUME SupTypeOK, NEW b \in Agent, Leave(b), NEW a \in Agent
  PROVE  /\ a # b => op'[a] = op[a] /\ by'[a] = by[a] /\ inflight'[a] = inflight[a]
         /\ a = b => op'[a] = "none" /\ by'[a] = "none" /\ inflight'[a] = FALSE
  BY DEF Leave, SupTypeOK

\* The record under way, when it lands and when it does not.
LEMMA BookAgent ==
  ASSUME SupTypeOK, NEW b \in Agent, BookOK(b), pend[b] # 0, NEW a \in Agent
  PROVE  /\ a # b /\ (Book(b) \/ UNCHANGED <<ids, booked>>) =>
              ids'[a] = ids[a] /\ booked'[a] = booked[a]
         /\ Book(b) => ids'[b] = ids[b] \union {pend[b]} /\ booked'[b] = pend[b]
  <1>1. pend[b] \in Nat /\ done[b] \in Nat /\ booked[b] \in Nat
    BY DEF SupTypeOK
  <1>2. CASE Book(b)
    <2>1. ids' = [ids EXCEPT ![b] = ids[b] \union {pend[b]}]
          /\ booked' = [booked EXCEPT ![b] =
               IF pend[b] \in ids[b] THEN booked[b] ELSE booked[b] + (pend[b] - done[b])]
      BY <1>2 DEF Book
    <2>2. pend[b] \notin ids[b] => booked[b] + (pend[b] - done[b]) = pend[b]
      BY <1>1 DEF BookOK
    <2>3. pend[b] \in ids[b] => booked[b] = pend[b]
      BY DEF BookOK
    <2> QED
      BY <2>1, <2>2, <2>3 DEF SupTypeOK
  <1> QED
    BY <1>2

LEMMA ReleaseAgent ==
  ASSUME SupTypeOK, NEW a \in Agent, AgentOK(a), NEW b \in Agent, Release(b)
  PROVE  AgentOK(a)'
  <1> USE DEF SupTypeOK, spawnVars, countVars
  <1>1. /\ lease' = [lease EXCEPT ![b] = IF lease[b] = "held" THEN Outcome(state[b]) ELSE lease[b]]
        /\ UNCHANGED <<spawnVars, state, token, budget, ctx, used, done, ids, booked, recording, lost>>
    BY DEF Release
  <1>2. CASE a # b
    <2>1. op'[a] = op[a] /\ by'[a] = by[a] /\ inflight'[a] = inflight[a] /\ pend'[a] = pend[a]
      <3>1. CASE inflight[b] /\ used[b] # done[b]
        BY <1>2, <3>1 DEF Release
      <3>2. CASE ~(inflight[b] /\ used[b] # done[b])
        <4>1. Leave(b) /\ pend' = pend
          BY <3>2 DEF Release
        <4>2. op'[a] = op[a] /\ by'[a] = by[a] /\ inflight'[a] = inflight[a]
          <5> HIDE DEF SupTypeOK
          <5> QED
            BY <1>2, <4>1, LeaveAgent
        <4> QED
          BY <4>1, <4>2, <1>2
      <3> QED
        BY <3>1, <3>2
    <2> QED
      BY <1>1, <1>2, <2>1, AgentFrame
  <1>3. CASE a = b
    <2>1. op[a] = "taken" /\ state[a] \in Terminal
      BY <1>3 DEF Release, AgentOK, CallOK
    <2>2. SpawnOK(a)'
      BY <1>1, <1>3, <2>1 DEF AgentOK, SpawnOK, Terminal, Placed
    <2>3. lease'[a] \in {"none", Outcome(state[a])}
      BY <1>1, <1>3, <2>1 DEF AgentOK, LeaseOK
    <2>4. op'[a] # "taken" => LeaseOK(a)'
      BY <1>1, <2>1, <2>3 DEF LeaseOK, Terminal, Outcome
    <2>5. CASE inflight[a] /\ used[a] # done[a]
      <3>1. /\ op'[a] = "flush" /\ pend'[a] = used[a] /\ by'[a] = by[a] /\ inflight'[a] = inflight[a]
        BY <1>3, <2>5 DEF Release
      <3>2. pend[a] = 0 /\ done[a] = 0 /\ ids[a] = {} /\ ~ctx[a] /\ a \notin lost /\ booked[a] = 0
        BY <2>1 DEF AgentOK, CallOK, Fresh, BookOK
      <3>3. used[a] \in Nat /\ used[a] # 0
        BY <2>5, <3>2
      <3>4. BookOK(a)'
        BY <1>1, <3>1, <3>2, <3>3 DEF BookOK
      <3>5. CallOK(a)'
        BY <1>1, <2>1, <2>5, <3>1, <3>2, <3>3 DEF AgentOK, CallOK, Fresh, Terminal
      <3> QED
        BY <2>2, <2>4, <3>1, <3>4, <3>5 DEF AgentOK
    <2>6. CASE ~(inflight[a] /\ used[a] # done[a])
      <3>1. op'[a] = "none" /\ pend'[a] = pend[a] /\ by'[a] = "none" /\ inflight'[a] = FALSE
        <4>1. Leave(a) /\ pend' = pend
          BY <1>3, <2>6 DEF Release
        <4>2. op'[a] = "none" /\ by'[a] = "none" /\ inflight'[a] = FALSE
          <5> HIDE DEF SupTypeOK
          <5> QED
            BY <4>1, LeaveAgent
        <4> QED
          BY <4>1, <4>2
      <3>2. BookOK(a)' /\ CallOK(a)'
        BY <1>1, <2>1, <2>6, <3>1 DEF AgentOK, BookOK, CallOK, Fresh
      <3> QED
        BY <2>2, <2>4, <3>1, <3>2 DEF AgentOK
    <2> QED
      BY <2>5, <2>6
  <1> QED
    BY <1>2, <1>3

LEMMA FlushOkAgent ==
  ASSUME SupTypeOK, NEW a \in Agent, AgentOK(a), NEW b \in Agent, AgentOK(b), FlushOk(b)
  PROVE  AgentOK(a)'
  <1> USE DEF SupTypeOK, spawnVars, countVars
  <1>1. UNCHANGED <<spawnVars, state, token, lease, budget, ctx, used, recording, lost>>
    BY DEF FlushOk
  <1>2. pend[b] # 0 /\ BookOK(b) /\ Book(b) /\ op[b] = "flush"
    BY DEF FlushOk, AgentOK, CallOK
  <1>3. CASE a # b
    <2>1. op'[a] = op[a] /\ by'[a] = by[a] /\ inflight'[a] = inflight[a]
          /\ pend'[a] = pend[a] /\ done'[a] = done[a]
      <3>1. done'[a] = done[a]
        BY <1>3 DEF FlushOk
      <3>2. CASE pend[b] = used[b]
        <4>1. Leave(b) /\ pend' = [pend EXCEPT ![b] = 0]
          BY <3>2 DEF FlushOk
        <4>2. op'[a] = op[a] /\ by'[a] = by[a] /\ inflight'[a] = inflight[a]
          <5> HIDE DEF SupTypeOK
          <5> QED
            BY <1>3, <3>1, <4>1, LeaveAgent
        <4> QED
          BY <4>1, <4>2, <3>1, <1>3
      <3>3. CASE pend[b] # used[b]
        BY <1>3, <3>1, <3>3 DEF FlushOk
      <3> QED
        BY <3>2, <3>3
    <2>2. ids'[a] = ids[a] /\ booked'[a] = booked[a]
      BY <1>2, <1>3, BookAgent
    <2> QED
      BY <1>1, <2>1, <2>2, AgentFrame
  <1>4. CASE a = b
    <2>1. done'[a] = pend[a] /\ ids'[a] = ids[a] \union {pend[a]} /\ booked'[a] = pend[a]
      BY <1>2, <1>4, BookAgent DEF FlushOk
    <2>2. SpawnOK(a)'
      BY <1>1 DEF AgentOK, SpawnOK
    <2>3. op'[a] # "taken" => LeaseOK(a)'
      BY <1>1, <1>2, <1>4 DEF AgentOK, LeaseOK
    <2>4. CASE pend[a] = used[a]
      <3>1. pend'[a] = 0 /\ op'[a] = "none" /\ by'[a] = "none" /\ inflight'[a] = FALSE
        <4>1. Leave(a) /\ pend' = [pend EXCEPT ![a] = 0]
          BY <1>4, <2>4 DEF FlushOk
        <4>2. op'[a] = "none" /\ by'[a] = "none" /\ inflight'[a] = FALSE
          <5> HIDE DEF SupTypeOK
          <5> QED
            BY <4>1, LeaveAgent
        <4> QED
          BY <4>1, <4>2
      <3>2. BookOK(a)'
        BY <1>1, <1>2, <1>4, <2>1, <2>4, <3>1 DEF AgentOK, BookOK
      <3>3. CallOK(a)'
        BY <1>1, <1>2, <1>4, <2>1, <2>4, <3>1 DEF AgentOK, CallOK, Fresh, Terminal
      <3> QED
        BY <1>2, <1>4, <2>2, <2>3, <3>1, <3>2, <3>3 DEF AgentOK
    <2>5. CASE pend[a] # used[a]
      <3>1. pend'[a] = used[a] /\ op'[a] = op[a] /\ by'[a] = by[a] /\ inflight'[a] = inflight[a]
        BY <1>4, <2>5 DEF FlushOk
      <3>2. BookOK(a)'
        <4>1. pend[a] \in Nat /\ used[a] \in Nat /\ done[a] < pend[a] /\ pend[a] < used[a]
          <5>1. pend[a] \in Nat /\ used[a] \in Nat /\ done[a] \in Nat
            OBVIOUS
          <5> HIDE DEF SupTypeOK
          <5> QED
            BY <1>2, <1>4, <2>5, <5>1 DEF BookOK
        <4>2. \A i \in ids[a] : i \in Nat /\ (i <= done[a] \/ i = pend[a]) /\ i # 0
          BY <1>2, <1>4 DEF BookOK
        <4>3. used[a] \notin ids'[a] /\ 0 \notin ids'[a] /\ \A i \in ids'[a] : i <= pend[a]
          <5>1. done[a] \in Nat
            OBVIOUS
          <5> HIDE DEF SupTypeOK
          <5> QED
            BY <2>1, <4>1, <4>2, <5>1
        <4> QED
          BY <1>1, <2>1, <3>1, <4>1, <4>3 DEF BookOK
      <3>3. CallOK(a)'
        BY <1>1, <1>2, <1>4, <2>1, <2>5, <3>1 DEF AgentOK, BookOK, CallOK, Fresh, Terminal
      <3> QED
        BY <1>2, <1>4, <2>2, <2>3, <3>1, <3>2, <3>3 DEF AgentOK
    <2> QED
      BY <2>4, <2>5
  <1> QED
    BY <1>3, <1>4

\* The ledger fails, or the future is dropped: the record landed or not.
LEMMA FlushLostAgent ==
  ASSUME SupTypeOK, NEW a \in Agent, AgentOK(a), NEW b \in Agent, AgentOK(b), FlushErr(b) \/ DropCall(b)
  PROVE  AgentOK(a)'
  <1> USE DEF SupTypeOK, spawnVars, workerVars
  <1>1. UNCHANGED <<spawnVars, state, token, lease, used, done, pend, recording>>
    BY DEF FlushErr, DropCall
  <1>2. pend[b] # 0 /\ BookOK(b) /\ (Book(b) \/ UNCHANGED <<ids, booked>>) /\ op[b] = "flush"
    BY DEF FlushErr, DropCall, AgentOK, CallOK
  <1>3. CASE a # b
    <2>1. op'[a] = op[a] /\ by'[a] = by[a] /\ inflight'[a] = inflight[a]
          /\ budget'[a] = budget[a] /\ ctx'[a] = ctx[a] /\ (a \in lost' <=> a \in lost)
      <3>1. CASE FlushErr(b)
        BY <1>3, <3>1 DEF FlushErr
      <3>2. CASE DropCall(b)
        BY <1>3, <3>2 DEF DropCall
      <3> QED
        BY <3>1, <3>2
    <2>2. ids'[a] = ids[a] /\ booked'[a] = booked[a]
      BY <1>2, <1>3, BookAgent
    <2> QED
      BY <1>1, <2>1, <2>2, AgentFrame
  <1>4. CASE a = b
    <2>1. \/ ids'[a] = ids[a] \union {pend[a]} /\ booked'[a] = pend[a]
          \/ ids'[a] = ids[a] /\ booked'[a] = booked[a]
      BY <1>2, <1>4, BookAgent
    <2>2. SpawnOK(a)' /\ op'[a] # "taken"
      BY <1>1, <1>2, <1>4 DEF AgentOK, SpawnOK, FlushErr, DropCall
    <2>3. LeaseOK(a)'
      BY <1>1, <1>2, <1>4, <2>2 DEF AgentOK, LeaseOK
    <2>4. BookOK(a)'
      BY <1>1, <1>2, <1>4, <2>1 DEF BookOK
    <2>5. state[a] \in Terminal /\ at[a] = "returned"
      BY <1>2, <1>4 DEF AgentOK, CallOK
    <2>6. CASE FlushErr(b)
      <3>1. budget'[a] = TRUE /\ ctx'[a] = TRUE /\ op'[a] = "kept" /\ by'[a] = by[a]
            /\ inflight'[a] = inflight[a] /\ lost' = lost
        BY <1>4, <2>6 DEF FlushErr
      <3>2. CallOK(a)'
        BY <1>1, <1>2, <1>4, <2>1, <2>5, <3>1 DEF AgentOK, CallOK, Fresh, Terminal
      <3> QED
        BY <2>2, <2>3, <2>4, <3>2 DEF AgentOK
    <2>7. CASE DropCall(b)
      <3>1. budget'[a] = budget[a] /\ ctx'[a] = ctx[a] /\ op'[a] = "none" /\ by'[a] = "none"
            /\ inflight'[a] = FALSE /\ a \in lost'
        BY <1>4, <2>7 DEF DropCall
      <3>2. CallOK(a)'
        BY <1>1, <1>2, <1>4, <2>1, <2>5, <3>1 DEF AgentOK, CallOK, Fresh, Terminal
      <3> QED
        BY <2>2, <2>3, <2>4, <3>2 DEF AgentOK
    <2> QED
      BY <2>6, <2>7
  <1> QED
    BY <1>3, <1>4

LEMMA KeptAgent ==
  ASSUME SupTypeOK, NEW a \in Agent, AgentOK(a), NEW b \in Agent, Kept(b)
  PROVE  AgentOK(a)'
  <1> USE DEF SupTypeOK, spawnVars, countVars, bookVars
  <1>1. op[b] = "kept" /\ Leave(b)
        /\ UNCHANGED <<spawnVars, state, token, lease, budget, ctx, bookVars, lost>>
    BY DEF Kept
  <1>2. CASE a # b
    BY <1>1, <1>2, LeaveAgent, AgentFrame
  <1>3. CASE a = b
    <2>1. op'[a] = "none" /\ by'[a] = "none" /\ inflight'[a] = FALSE
      BY <1>1, <1>3, LeaveAgent
    <2>2. SpawnOK(a)' /\ BookOK(a)' /\ LeaseOK(a)'
      BY <1>1, <1>3, <2>1 DEF AgentOK, SpawnOK, BookOK, LeaseOK
    <2>3. CallOK(a)'
      BY <1>1, <1>3, <2>1 DEF AgentOK, CallOK, Fresh, Terminal
    <2> QED
      BY <2>2, <2>3 DEF AgentOK
  <1> QED
    BY <1>2, <1>3

LEMMA FlushUsageAgent ==
  ASSUME SupTypeOK, NEW a \in Agent, AgentOK(a), NEW b \in Agent, FlushUsage(b)
  PROVE  AgentOK(a)'
  <1> USE DEF SupTypeOK, spawnVars, countVars, bookVars, workerVars
  <1>1. /\ at[b] = "returned" /\ state[b] \in Terminal /\ ~inflight[b] /\ budget[b] /\ ctx[b]
        /\ UNCHANGED <<spawnVars, workerVars, bookVars, lost>>
    BY DEF FlushUsage
  <1>2. CASE a # b
    <2>1. op'[a] = op[a] /\ by'[a] = by[a] /\ inflight'[a] = inflight[a]
          /\ budget'[a] = budget[a] /\ ctx'[a] = ctx[a]
      BY <1>2 DEF FlushUsage
    <2> QED
      BY <1>1, <2>1, AgentFrame
  <1>3. CASE a = b
    <2>1. op'[a] = "flush" /\ by'[a] = "retry" /\ inflight'[a] = TRUE
          /\ budget'[a] = FALSE /\ ctx'[a] = FALSE
      BY <1>3 DEF FlushUsage
    <2>2. SpawnOK(a)' /\ BookOK(a)'
      BY <1>1 DEF AgentOK, SpawnOK, BookOK
    <2>3. op[a] # "taken"
      BY <1>1, <1>3 DEF AgentOK, CallOK, Fresh
    <2>4. LeaseOK(a)'
      BY <1>1, <1>3, <2>1, <2>3 DEF AgentOK, LeaseOK, Terminal
    <2>5. CallOK(a)'
      BY <1>1, <1>3, <2>1 DEF AgentOK, CallOK, Fresh, Terminal
    <2> QED
      BY <2>2, <2>4, <2>5 DEF AgentOK
  <1> QED
    BY <1>2, <1>3

LEMMA AgentStep ==
  ASSUME SupInv, NEW a \in Agent, [Next]_vars
  PROVE  AgentOK(a)'
  <1>1. SupTypeOK /\ \A b \in Agent : AgentOK(b)
    BY DEF SupInv, AgentOK
  <1>2. ASSUME NEW b \in Agent, SpawnStep(b) PROVE AgentOK(a)'
    BY <1>1, <1>2, SpawnAgent
  <1>3. ASSUME NEW b \in Agent, RecordCheck(b) \/ RecordAdd(b) PROVE AgentOK(a)'
    BY <1>1, <1>3, RecordAgent
  <1>4. ASSUME NEW b \in Agent, NEW to \in {"completed", "failed"}, Finish(b, to) PROVE AgentOK(a)'
    <2>1. /\ state[b] = "live" /\ Take(b, to, "end")
          /\ UNCHANGED <<spawnVars, token, lease, ctx, bookVars, lost>>
      BY <1>4 DEF Finish, countVars
    <2> QED
      BY <1>1, <2>1, TakeAgent DEF Terminal, Ended
  <1>5. ASSUME NEW b \in Agent, CallStep(b) \/ DropCall(b) \/ FlushUsage(b) PROVE AgentOK(a)'
    BY <1>1, <1>5, ReleaseAgent, FlushOkAgent, FlushLostAgent, KeptAgent, FlushUsageAgent DEF CallStep
  <1>6. ASSUME NEW w \in Walker, CancelNode(w) PROVE AgentOK(a)'
    <2>1. UNCHANGED <<spawnVars, token, lease, ctx, bookVars, lost>>
      BY <1>6 DEF CancelNode, countVars
    <2>2. CASE state[on[w]] = "live"
      <3>1. on[w] \in Agent /\ Take(on[w], "cancelled", "cancel")
        BY <1>6, <2>2 DEF SupInv, WalkOK, CancelNode
      <3> QED
        BY <1>1, <2>1, <2>2, <3>1, TakeAgent DEF Terminal
    <2>3. CASE state[on[w]] # "live"
      <3>1. UNCHANGED <<state, budget, inflight, op, by>>
        BY <1>6, <2>3 DEF CancelNode
      <3> QED
        BY <1>1, <2>1, <3>1, AgentFrame DEF spawnVars, bookVars
    <2> QED
      BY <2>2, <2>3
  <1>7. ASSUME NEW w \in Walker, Signal(w) PROVE AgentOK(a)'
    <2>1. PICK id \in found[w] : token' = [token EXCEPT ![id] = IF token[id] = "set" THEN "cancelled" ELSE token[id]]
      BY <1>7 DEF Signal
    <2>2. token'[a] = token[a] \/ (token[a] # "none" /\ token'[a] # "none")
      BY <1>1, <2>1 DEF SupTypeOK
    <2>3. UNCHANGED <<spawnVars, state, lease, flushVars, bookVars, lost>>
      BY <1>7 DEF Signal, countVars
    <2> QED
      BY <1>1, <2>2, <2>3 DEF AgentOK, SpawnOK, CallOK, Fresh, BookOK, LeaseOK, spawnVars, flushVars, bookVars
  <1>8. ASSUME UNCHANGED <<spawnVars, workerVars, flushVars, bookVars, lost>> PROVE AgentOK(a)'
    BY <1>1, <1>8, AgentFrame DEF spawnVars, workerVars, flushVars, bookVars
  <1>9. ASSUME NEW w \in Walker, Walk(w) \/ CancelReturns(w) \/ \E r \in Agent : CancelTree(w, r)
        PROVE  AgentOK(a)'
    BY <1>8, <1>9 DEF Walk, CancelReturns, CancelTree, countVars
  <1>10. ASSUME UNCHANGED vars PROVE AgentOK(a)'
    BY <1>8, <1>10 DEF vars, countVars
  <1> QED
    BY <1>2, <1>3, <1>4, <1>5, <1>6, <1>7, <1>9, <1>10 DEF Next, WalkStep

-----------------------------------------------------------------------------
(* The tree                                                                *)

\* Spawns that have put their agent under its parent.
Joined == Placed \union {"attached", "tokened"}

\* A step that moves nothing in the tree, and takes a child out of it only
\* when the child has ended by itself.
LEMMA TreeFrame ==
  ASSUME SupTypeOK, NEW a \in Agent, TreeOK(a),
         UNCHANGED <<parent, above>>,
         \A c \in Agent : at'[c] \in Joined <=> at[c] \in Joined,
         \A c \in Agent : at[c] = "returned" => at'[c] = "returned",
         \A c \in Agent : state[c] \in Ended => state'[c] \in Ended,
         children'[a] \subseteq children[a],
         \A m \in Agent : a \in children[m] /\ state'[a] \notin Ended => a \in children'[m]
  PROVE  TreeOK(a)'
  <1>1. above[a] \subseteq Agent /\ children[a] \subseteq Agent /\ parent[a] \in Agent \union {NoAgent}
    BY DEF SupTypeOK
  <1>2. \A m \in above'[a] : at'[m] = "returned" /\ \E c \in above'[a] \union {a} : parent'[c] = m
    BY <1>1 DEF TreeOK
  <1>3. \A c \in children'[a] : parent'[c] = a /\ at'[c] \in Joined
    BY <1>1 DEF TreeOK, Joined
  <1>4. parent'[a] # NoAgent /\ at'[a] \in Joined /\ state'[a] \notin Ended => a \in children'[parent'[a]]
    BY <1>1 DEF TreeOK, Joined
  <1> QED
    BY <1>2, <1>3, <1>4 DEF TreeOK, Joined

\* A step that gives b, which is in no tree yet, its place or takes it away.
LEMMA TreePlace ==
  ASSUME SupTypeOK, NEW a \in Agent, \A c \in Agent : TreeOK(c),
         NEW b \in Agent, NEW p \in Agent \union {NoAgent}, p # NoAgent => at[p] = "returned",
         at[b] \notin Joined, at'[b] \notin Joined,
         \A c \in Agent \ {b} : at'[c] = at[c] /\ parent'[c] = parent[c] /\ above'[c] = above[c],
         parent'[b] = p, above'[b] = IF p = NoAgent THEN {} ELSE above[p] \union {p},
         children' = children, state' = state
  PROVE  TreeOK(a)'
  <1>1. /\ above[a] \subseteq Agent /\ children[a] \subseteq Agent
        /\ parent[a] \in Agent \union {NoAgent}
        /\ p # NoAgent => above[p] \subseteq Agent
    BY DEF SupTypeOK
  <1>2. p # b
    BY NoAgentAssumption DEF Joined, Placed
  <1>3. \A c \in Agent : \A m \in above[c] : m # b
    BY DEF TreeOK, Joined, Placed
  <1>4. \A c \in children[a] : c # b
    BY DEF TreeOK, Joined
  <1>5. CASE a # b
    <2>1. parent'[a] = parent[a] /\ above'[a] = above[a] /\ at'[a] = at[a]
      BY <1>5
    <2>2. parent[a] # NoAgent => parent[a] # b /\ above'[parent[a]] = above[parent[a]]
      <3>1. parent[a] # NoAgent => parent[a] \in above[a]
        BY DEF TreeOK
      <3> QED
        BY <1>1, <1>3, <3>1
    <2>3. \A m \in above'[a] : at'[m] = "returned" /\ \E c \in above'[a] \union {a} : parent'[c] = m
      <3> SUFFICES ASSUME NEW m \in above[a]
                   PROVE  at'[m] = "returned" /\ \E c \in above[a] \union {a} : parent'[c] = m
        BY <2>1
      <3>1. m \in Agent /\ m # b /\ at[m] = "returned"
        BY <1>1, <1>3 DEF TreeOK
      <3>2. PICK c \in above[a] \union {a} : parent[c] = m
        BY DEF TreeOK
      <3>3. c \in Agent /\ c # b
        BY <1>1, <1>3, <1>5
      <3> QED
        BY <3>1, <3>2, <3>3
    <2>4. \A c \in children'[a] : parent'[c] = a /\ at'[c] \in Joined
      BY <1>1, <1>4 DEF TreeOK, Joined
    <2>5. parent'[a] # NoAgent /\ at'[a] \in Joined /\ state'[a] \notin Ended => a \in children'[parent'[a]]
      BY <2>1 DEF TreeOK, Joined
    <2>6. /\ parent'[a] = NoAgent => above'[a] = {}
          /\ parent'[a] # NoAgent => above'[a] = above'[parent'[a]] \union {parent'[a]}
      BY <2>1, <2>2 DEF TreeOK
    <2> QED
      BY <2>3, <2>4, <2>5, <2>6 DEF TreeOK, Joined
  <1>6. CASE a = b
    <2>1. p # NoAgent => above'[p] = above[p] /\ at'[p] = "returned"
      BY <1>2
    <2>2. \A m \in above'[a] : at'[m] = "returned" /\ \E c \in above'[a] \union {a} : parent'[c] = m
      <3> SUFFICES ASSUME NEW m \in above'[a]
                   PROVE  at'[m] = "returned" /\ \E c \in above'[a] \union {a} : parent'[c] = m
        OBVIOUS
      <3>1. p # NoAgent /\ p \in Agent /\ above'[a] = above[p] \union {p}
        BY <1>6
      <3>2. CASE m = p
        BY <1>6, <2>1, <3>1, <3>2
      <3>3. CASE m \in above[p]
        <4>1. m \in Agent /\ m # b /\ at[m] = "returned"
          BY <1>1, <1>3, <3>1, <3>3 DEF TreeOK
        <4>2. PICK c \in above[p] \union {p} : parent[c] = m
          BY <3>1, <3>3 DEF TreeOK
        <4>3. c \in Agent /\ c # b
          BY <1>1, <1>2, <1>3, <3>1
        <4> QED
          BY <3>1, <4>1, <4>2, <4>3
      <3> QED
        BY <3>1, <3>2, <3>3
    <2>3. \A c \in children'[a] : parent'[c] = a /\ at'[c] \in Joined
      BY <1>1, <1>4 DEF TreeOK, Joined
    <2>4. /\ parent'[a] = NoAgent => above'[a] = {}
          /\ parent'[a] # NoAgent => above'[a] = above'[parent'[a]] \union {parent'[a]}
      BY <1>6, <2>1
    <2> QED
      BY <1>6, <2>2, <2>3, <2>4 DEF TreeOK, Joined
  <1> QED
    BY <1>5, <1>6

LEMMA AttachTree ==
  ASSUME SupTypeOK, NEW a \in Agent, TreeOK(a), NEW b \in Agent, Attach(b)
  PROVE  TreeOK(a)'
  <1>1. /\ at[b] = "reserved" /\ at' = [at EXCEPT ![b] = "attached"]
        /\ children' = [p \in Agent |-> IF p = parent[b] THEN children[p] \union {b} ELSE children[p]]
        /\ UNCHANGED <<parent, above, state>>
    BY DEF Attach
  <1>2. \A c \in Agent : (c = b \/ at[c] \in Joined) => at'[c] \in Joined
    BY <1>1 DEF SupTypeOK, Joined
  <1>3. \A c \in Agent : at[c] = "returned" => at'[c] = "returned"
    BY <1>1 DEF SupTypeOK
  <1>4. \A m \in above'[a] : at'[m] = "returned" /\ \E c \in above'[a] \union {a} : parent'[c] = m
    BY <1>1, <1>3 DEF SupTypeOK, TreeOK
  <1>5. \A c \in children'[a] : parent'[c] = a /\ at'[c] \in Joined
    <2> SUFFICES ASSUME NEW c \in children'[a] PROVE parent[c] = a /\ at'[c] \in Joined
      BY <1>1
    <2>1. c \in children[a] \/ (c = b /\ a = parent[b])
      BY <1>1
    <2>2. children[a] \subseteq Agent
      BY DEF SupTypeOK
    <2> QED
      BY <1>2, <2>1, <2>2 DEF TreeOK, Joined
  <1>6. parent'[a] # NoAgent /\ at'[a] \in Joined /\ state'[a] \notin Ended => a \in children'[parent'[a]]
    <2>1. CASE a = b
      BY <1>1, <2>1 DEF SupTypeOK
    <2>2. CASE a # b
      <3>1. at'[a] = at[a]
        BY <1>1, <2>2 DEF SupTypeOK
      <3> QED
        BY <1>1, <3>1 DEF SupTypeOK, TreeOK, Joined
    <2> QED
      BY <2>1, <2>2
  <1> QED
    BY <1>1, <1>4, <1>5, <1>6 DEF TreeOK, Joined

LEMMA TreeStep ==
  ASSUME SupInv, NEW a \in Agent, [Next]_vars
  PROVE  TreeOK(a)'
  <1>1. SupTypeOK /\ \A b \in Agent : TreeOK(b) /\ SpawnOK(b) /\ CallOK(b)
    BY DEF SupInv
  <1>2. ASSUME NEW b \in Agent, NEW p \in Agent \union {NoAgent}, Validate(b, p) PROVE TreeOK(a)'
    <2>1. /\ at[b] = "idle" /\ at' = [at EXCEPT ![b] = "validated"]
          /\ p # NoAgent => at[p] = "returned"
          /\ above' = [above EXCEPT ![b] = IF p = NoAgent THEN {} ELSE above[p] \union {p}]
          /\ parent' = [parent EXCEPT ![b] = p]
          /\ UNCHANGED <<children, state>>
      BY <1>2 DEF Validate, workerVars
    <2>2. /\ at'[b] = "validated" /\ parent'[b] = p
          /\ above'[b] = IF p = NoAgent THEN {} ELSE above[p] \union {p}
          /\ \A c \in Agent \ {b} : at'[c] = at[c] /\ parent'[c] = parent[c] /\ above'[c] = above[c]
      BY <1>1, <2>1 DEF SupTypeOK
    <2>3. at[b] \notin Joined /\ at'[b] \notin Joined
      BY <2>1, <2>2 DEF Joined, Placed
    <2> QED
      BY <1>1, <2>1, <2>2, <2>3, TreePlace
  <1>3. ASSUME NEW b \in Agent, Forget(b), at[b] \in {"validated", "reserved"},
               UNCHANGED <<children, state>>
        PROVE  TreeOK(a)'
    <2>1. /\ at'[b] = "refused" /\ parent'[b] = NoAgent /\ above'[b] = {}
          /\ \A c \in Agent \ {b} : at'[c] = at[c] /\ parent'[c] = parent[c] /\ above'[c] = above[c]
      BY <1>1, <1>3 DEF Forget, SupTypeOK
    <2>2. at[b] \notin Joined /\ at'[b] \notin Joined
      BY <1>3, <2>1 DEF Joined, Placed
    <2> QED
      BY <1>1, <1>3, <2>1, <2>2, TreePlace
  <1>4. ASSUME UNCHANGED <<parent, above, children>>,
               NEW b \in Agent, NEW x, at' = [at EXCEPT ![b] = x],
               x \in Joined <=> at[b] \in Joined, at[b] # "returned",
               \A c \in Agent : state[c] \in Ended => state'[c] \in Ended
        PROVE  TreeOK(a)'
    <2>1. \A c \in Agent : at'[c] \in Joined <=> at[c] \in Joined
      BY <1>1, <1>4 DEF SupTypeOK
    <2>2. \A c \in Agent : at[c] = "returned" => at'[c] = "returned"
      BY <1>1, <1>4 DEF SupTypeOK
    <2> QED
      BY <1>1, <1>4, <2>1, <2>2, TreeFrame
  <1>5. ASSUME NEW b \in Agent, Reserve(b) PROVE TreeOK(a)'
    <2>1. CASE HasRoom
      <3>1. at' = [at EXCEPT ![b] = "reserved"] /\ UNCHANGED <<parent, above, children, state>>
        BY <1>5, <2>1 DEF Reserve, workerVars
      <3>2. at[b] = "validated"
        BY <1>5 DEF Reserve
      <3> QED
        BY <1>4, <3>1, <3>2 DEF Joined, Placed
    <2>2. CASE ~HasRoom
      BY <1>3, <1>5, <2>2 DEF Reserve, workerVars
    <2> QED
      BY <2>1, <2>2
  <1>6. ASSUME NEW b \in Agent, Deny(b) PROVE TreeOK(a)'
    BY <1>3, <1>6 DEF Deny, workerVars
  <1>7. ASSUME NEW b \in Agent, AbortSpawn(b) PROVE TreeOK(a)'
    <2>1. \A c \in Agent : state[c] \in Ended => state'[c] \in Ended
      BY <1>1, <1>7 DEF AbortSpawn, SupTypeOK, Ended
    <2> QED
      BY <1>4, <1>7, <2>1 DEF AbortSpawn, Joined, Placed
  <1>8. ASSUME NEW b \in Agent, InsertToken(b) \/ InsertBudget(b) PROVE TreeOK(a)'
    BY <1>4, <1>8 DEF InsertToken, InsertBudget, workerVars, Joined, Placed
  <1>9. ASSUME NEW b \in Agent, Register(b) PROVE TreeOK(a)'
    <2>1. state[b] = "none"
      BY <1>1, <1>9 DEF Register, SpawnOK, Placed
    <2>2. \A c \in Agent : state[c] \in Ended => state'[c] \in Ended
      BY <1>1, <1>9, <2>1 DEF Register, SupTypeOK, Ended
    <2> QED
      BY <1>4, <1>9, <2>2 DEF Register, Joined, Placed
  <1>10. ASSUME UNCHANGED <<at, parent, above, children>>,
                \A c \in Agent : state[c] \in Ended => state'[c] \in Ended
         PROVE  TreeOK(a)'
    BY <1>1, <1>10, TreeFrame
  <1>11. ASSUME NEW b \in Agent, NEW to, NEW kind, state[b] = "live", Take(b, to, kind),
                UNCHANGED <<at, parent, above, children>>
         PROVE  TreeOK(a)'
    <2>1. \A c \in Agent : state[c] \in Ended => state'[c] \in Ended
      BY <1>1, <1>11 DEF Take, SupTypeOK, Ended
    <2> QED
      BY <1>10, <1>11, <2>1
  <1>12. ASSUME NEW b \in Agent, \E to \in {"completed", "failed"} : Finish(b, to) PROVE TreeOK(a)'
    BY <1>11, <1>12 DEF Finish, spawnVars
  <1>13. ASSUME NEW b \in Agent, Leave(b), UNCHANGED <<at, parent, above, state>> PROVE TreeOK(a)'
    <2>1. \A m, c \in Agent :
            /\ c \in children'[m] => c \in children[m]
            /\ c \in children[m] /\ c \notin children'[m] => c = b /\ by[b] = "end"
      BY <1>13 DEF Leave
    <2>2. by[b] = "end" => state[b] \in Ended
      BY <1>1 DEF CallOK
    <2>3. children'[a] \subseteq children[a]
      BY <1>1, <1>13 DEF Leave
    <2>4. \A m \in Agent : a \in children[m] /\ state'[a] \notin Ended => a \in children'[m]
      BY <1>13, <2>1, <2>2
    <2> QED
      BY <1>1, <1>13, <2>3, <2>4, TreeFrame
  <1>14. ASSUME NEW b \in Agent, Release(b) \/ FlushOk(b) \/ Kept(b) PROVE TreeOK(a)'
    <2>1. UNCHANGED <<at, parent, above, state>>
      BY <1>14 DEF Release, FlushOk, Kept, spawnVars
    <2>2. Leave(b) \/ UNCHANGED children
      BY <1>14 DEF Release, FlushOk, Kept
    <2> QED
      BY <1>10, <1>13, <2>1, <2>2
  <1>15. ASSUME NEW b \in Agent,
                RecordCheck(b) \/ RecordAdd(b) \/ FlushErr(b) \/ DropCall(b) \/ FlushUsage(b)
         PROVE  TreeOK(a)'
    BY <1>10, <1>15 DEF RecordCheck, RecordAdd, FlushErr, DropCall, FlushUsage, spawnVars, workerVars
  <1>16. ASSUME NEW w \in Walker, CancelNode(w) PROVE TreeOK(a)'
    <2>1. on[w] \in Agent /\ UNCHANGED <<at, parent, above, children>>
      BY <1>16 DEF SupInv, WalkOK, CancelNode, spawnVars
    <2>2. CASE state[on[w]] = "live"
      BY <1>11, <1>16, <2>1, <2>2 DEF CancelNode
    <2>3. CASE state[on[w]] # "live"
      BY <1>10, <1>16, <2>1, <2>3 DEF CancelNode
    <2> QED
      BY <2>2, <2>3
  <1>17. ASSUME NEW w \in Walker,
                Walk(w) \/ Signal(w) \/ CancelReturns(w) \/ \E r \in Agent : CancelTree(w, r)
         PROVE  TreeOK(a)'
    BY <1>10, <1>17 DEF Walk, Signal, CancelReturns, CancelTree, spawnVars, workerVars
  <1>18. ASSUME UNCHANGED vars PROVE TreeOK(a)'
    BY <1>10, <1>18 DEF vars, spawnVars, workerVars
  <1> QED
    BY <1>1, <1>2, <1>5, <1>6, <1>7, <1>8, <1>9, <1>12, <1>14, <1>15, <1>16, <1>17, <1>18, AttachTree
    DEF Next, SpawnStep, CallStep, WalkStep

-----------------------------------------------------------------------------
(* The limit                                                               *)

LEMMA LimitFrame ==
  ASSUME SupTypeOK, ConcurrencyRespected, (reserved \union Active)' \subseteq reserved \union Active
  PROVE  ConcurrencyRespected'
  <1>1. reserved \union Active \in SUBSET Agent
    BY DEF SupTypeOK, Active
  <1>2. IsFiniteSet(reserved \union Active) /\ Cardinality(reserved \union Active) \in Nat
    BY <1>1, AgentAssumption, FS_Subset, FS_CardinalityType
  <1>3. /\ IsFiniteSet((reserved \union Active)')
        /\ Cardinality((reserved \union Active)') <= Cardinality(reserved \union Active)
    BY <1>2, FS_Subset
  <1>4. Cardinality((reserved \union Active)') \in Nat
    BY <1>3, FS_CardinalityType
  <1>5. Cardinality((reserved \union Active)') <= Limit
    BY <1>2, <1>3, <1>4, LimitAssumption DEF ConcurrencyRespected
  <1> QED
    BY <1>5 DEF ConcurrencyRespected

LEMMA ReserveLimit ==
  ASSUME SupTypeOK, NEW a \in Agent, HasRoom, reserved' = reserved \union {a}, state' = state
  PROVE  ConcurrencyRespected'
  <1>1. reserved \in SUBSET Agent /\ Active \in SUBSET Agent /\ Active' = Active
    BY DEF SupTypeOK, Active
  <1>2. IsFiniteSet(reserved) /\ IsFiniteSet(Active)
    BY <1>1, AgentAssumption, FS_Subset
  <1>3. /\ IsFiniteSet(reserved \union Active)
        /\ Cardinality(reserved \union Active)
             = Cardinality(reserved) + Cardinality(Active) - Cardinality(reserved \intersect Active)
    BY <1>2, FS_Union
  <1>4. IsFiniteSet(reserved \intersect Active)
    BY <1>2, FS_Intersection
  <1>5. /\ Cardinality(reserved) \in Nat /\ Cardinality(Active) \in Nat
        /\ Cardinality(reserved \intersect Active) \in Nat /\ Cardinality(reserved \union Active) \in Nat
    BY <1>2, <1>3, <1>4, FS_CardinalityType
  <1>6. Cardinality(reserved \union Active) < Limit
    BY <1>3, <1>5, LimitAssumption DEF HasRoom
  <1>7. Cardinality((reserved \union Active) \union {a})
          = IF a \in reserved \union Active THEN Cardinality(reserved \union Active)
            ELSE Cardinality(reserved \union Active) + 1
    BY <1>3, FS_AddElement
  <1>8. Cardinality((reserved \union Active) \union {a}) <= Limit
    BY <1>5, <1>6, <1>7, LimitAssumption
  <1>9. (reserved \union Active)' = (reserved \union Active) \union {a}
    BY <1>1
  <1> QED
    BY <1>8, <1>9 DEF ConcurrencyRespected

LEMMA LimitStep ==
  ASSUME SupInv, [Next]_vars
  PROVE  ConcurrencyRespected'
  <1>1. SupTypeOK /\ ConcurrencyRespected /\ \A b \in Agent : SpawnOK(b)
    BY DEF SupInv
  <1>2. ASSUME reserved' \subseteq reserved,
               \A c \in Agent : state'[c] = "live" => state[c] = "live"
        PROVE  ConcurrencyRespected'
    <2>1. (reserved \union Active)' \subseteq reserved \union Active
      BY <1>2 DEF Active
    <2> QED
      BY <1>1, <2>1, LimitFrame
  <1>3. ASSUME NEW b \in Agent, Reserve(b) PROVE ConcurrencyRespected'
    <2>1. CASE HasRoom
      BY <1>1, <1>3, <2>1, ReserveLimit DEF Reserve, workerVars
    <2>2. CASE ~HasRoom
      BY <1>2, <1>3, <2>2 DEF Reserve, workerVars
    <2> QED
      BY <2>1, <2>2
  <1>4. ASSUME NEW b \in Agent, Register(b) PROVE ConcurrencyRespected'
    <2>1. b \in reserved
      BY <1>1, <1>4 DEF Register, SpawnOK
    <2>2. state' = [state EXCEPT ![b] = "live"] /\ reserved' = reserved \ {b}
      BY <1>4 DEF Register
    <2>3. (reserved \union Active)' \subseteq reserved \union Active
      BY <1>1, <2>1, <2>2 DEF Active, SupTypeOK
    <2> QED
      BY <1>1, <2>3, LimitFrame
  <1>5. ASSUME NEW b \in Agent, NEW to \in Terminal, NEW kind, Take(b, to, kind), UNCHANGED reserved
        PROVE  ConcurrencyRespected'
    <2>1. \A c \in Agent : state'[c] = "live" => state[c] = "live"
      BY <1>1, <1>5 DEF Take, Terminal, SupTypeOK
    <2> QED
      BY <1>2, <1>5, <2>1
  <1>6. ASSUME NEW b \in Agent, \E to \in {"completed", "failed"} : Finish(b, to)
        PROVE  ConcurrencyRespected'
    BY <1>5, <1>6 DEF Finish, Terminal, spawnVars
  <1>7. ASSUME NEW w \in Walker, CancelNode(w) PROVE ConcurrencyRespected'
    <2>1. on[w] \in Agent /\ UNCHANGED reserved
      BY <1>7 DEF SupInv, WalkOK, CancelNode, spawnVars
    <2>2. CASE state[on[w]] = "live"
      BY <1>5, <1>7, <2>1, <2>2 DEF CancelNode, Terminal
    <2>3. CASE state[on[w]] # "live"
      BY <1>2, <1>7, <2>1, <2>3 DEF CancelNode
    <2> QED
      BY <2>2, <2>3
  <1>8. ASSUME NEW b \in Agent, AbortSpawn(b) PROVE ConcurrencyRespected'
    <2>1. \A c \in Agent : state'[c] = "live" => state[c] = "live"
      BY <1>1, <1>8 DEF AbortSpawn, SupTypeOK
    <2> QED
      BY <1>2, <1>8, <2>1 DEF AbortSpawn
  <1>9. ASSUME NEW b \in Agent,
               \/ \E p \in Agent \union {NoAgent} : Validate(b, p)
               \/ Deny(b) \/ Attach(b) \/ InsertToken(b) \/ InsertBudget(b)
        PROVE  ConcurrencyRespected'
    BY <1>2, <1>9 DEF Validate, Deny, Attach, InsertToken, InsertBudget, workerVars
  <1>10. ASSUME NEW b \in Agent,
                \/ RecordCheck(b) \/ RecordAdd(b) \/ Release(b) \/ FlushOk(b) \/ FlushErr(b)
                \/ Kept(b) \/ DropCall(b) \/ FlushUsage(b)
         PROVE  ConcurrencyRespected'
    <2>1. UNCHANGED <<reserved, state>>
      BY <1>10
      DEF RecordCheck, RecordAdd, Release, FlushOk, FlushErr, Kept, DropCall, FlushUsage, spawnVars,
          workerVars
    <2> QED
      BY <1>2, <2>1
  <1>11. ASSUME NEW w \in Walker,
                Walk(w) \/ Signal(w) \/ CancelReturns(w) \/ \E r \in Agent : CancelTree(w, r)
         PROVE  ConcurrencyRespected'
    BY <1>2, <1>11 DEF Walk, Signal, CancelReturns, CancelTree, spawnVars, workerVars
  <1>12. ASSUME UNCHANGED vars PROVE ConcurrencyRespected'
    BY <1>2, <1>12 DEF vars, spawnVars, workerVars
  <1> QED
    BY <1>3, <1>4, <1>6, <1>7, <1>8, <1>9, <1>10, <1>11, <1>12 DEF Next, SpawnStep, CallStep, WalkStep

-----------------------------------------------------------------------------
(* cancel_tree                                                             *)

\* What no step takes back.
Lasting ==
  \A c \in Agent :
    /\ at[c] \in Joined => at'[c] \in Joined /\ above'[c] = above[c]
    /\ at[c] \in Placed => at'[c] \in Placed
    /\ at[c] \in Placed /\ token[c] = "cancelled" => token'[c] = "cancelled"
    /\ state[c] \in Terminal => state'[c] = state[c]

LEMMA LastingStep ==
  ASSUME SupInv, [Next]_vars
  PROVE  Lasting
  <1>1. SupTypeOK /\ \A b \in Agent : SpawnOK(b)
    BY DEF SupInv
  <1> USE DEF SupTypeOK, spawnVars, workerVars
  <1>2. ASSUME NEW b \in Agent, \E p \in Agent \union {NoAgent} : Validate(b, p) PROVE Lasting
    <2>1. at[b] = "idle" /\ UNCHANGED <<token, state>>
          /\ \A c \in Agent \ {b} : at'[c] = at[c] /\ above'[c] = above[c]
      BY <1>1, <1>2 DEF Validate
    <2> QED
      BY <2>1 DEF Lasting, Joined, Placed
  <1>3. ASSUME NEW b \in Agent, Reserve(b) \/ Deny(b) PROVE Lasting
    <2>1. at[b] \in {"validated", "reserved"} /\ UNCHANGED <<token, state>>
      BY <1>3 DEF Reserve, Deny
    <2>2. \A c \in Agent \ {b} : at'[c] = at[c] /\ above'[c] = above[c]
      <3>1. CASE Reserve(b)
        BY <1>1, <3>1 DEF Reserve, Forget
      <3>2. CASE Deny(b)
        BY <1>1, <3>2 DEF Deny, Forget
      <3> QED
        BY <1>3, <3>1, <3>2
    <2> QED
      BY <2>1, <2>2 DEF Lasting, Joined, Placed
  <1>4. ASSUME NEW b \in Agent, AbortSpawn(b) PROVE Lasting
    <2>1. at[b] = "reserved" /\ state[b] = "none" /\ UNCHANGED <<token, above>>
      BY <1>1, <1>4 DEF AbortSpawn, SpawnOK, Placed
    <2>2. \A c \in Agent \ {b} : at'[c] = at[c] /\ state'[c] = state[c]
      BY <1>1, <1>4 DEF AbortSpawn
    <2> QED
      BY <2>1, <2>2 DEF Lasting, Joined, Placed, Terminal
  <1>5. ASSUME NEW b \in Agent, Attach(b) PROVE Lasting
    <2>1. UNCHANGED <<token, above, state>> /\ at' = [at EXCEPT ![b] = "attached"] /\ at[b] = "reserved"
      BY <1>5 DEF Attach
    <2> QED
      BY <1>1, <2>1 DEF Lasting, Joined, Placed
  <1>6. ASSUME NEW b \in Agent, InsertToken(b) PROVE Lasting
    <2>1. UNCHANGED <<above, state>> /\ at' = [at EXCEPT ![b] = "tokened"] /\ at[b] = "attached"
          /\ token' = [token EXCEPT ![b] = "set"]
      BY <1>6 DEF InsertToken
    <2> QED
      BY <1>1, <2>1 DEF Lasting, Joined, Placed
  <1>7. ASSUME NEW b \in Agent, Register(b) PROVE Lasting
    <2>1. UNCHANGED <<above, token>> /\ at' = [at EXCEPT ![b] = "registered"] /\ at[b] = "tokened"
          /\ state' = [state EXCEPT ![b] = "live"]
      BY <1>7 DEF Register
    <2>2. state[b] = "none"
      BY <1>1, <2>1 DEF SpawnOK, Placed
    <2> QED
      BY <1>1, <2>1, <2>2 DEF Lasting, Joined, Placed, Terminal
  <1>8. ASSUME NEW b \in Agent, InsertBudget(b) PROVE Lasting
    <2>1. UNCHANGED <<above, token, state>> /\ at' = [at EXCEPT ![b] = "returned"] /\ at[b] = "registered"
      BY <1>8 DEF InsertBudget
    <2> QED
      BY <1>1, <2>1 DEF Lasting, Joined, Placed
  <1>9. ASSUME NEW b \in Agent, NEW to, NEW kind, state[b] = "live", Take(b, to, kind),
               UNCHANGED <<at, above, token>>
        PROVE  Lasting
    BY <1>1, <1>9 DEF Take, Lasting, Terminal
  <1>10. ASSUME UNCHANGED <<at, above, token, state>> PROVE Lasting
    BY <1>10 DEF Lasting
  <1>11. ASSUME NEW b \in Agent, \E to \in {"completed", "failed"} : Finish(b, to) PROVE Lasting
    BY <1>9, <1>11 DEF Finish
  <1>12. ASSUME NEW w \in Walker, CancelNode(w) PROVE Lasting
    <2>1. on[w] \in Agent /\ UNCHANGED <<at, above, token>>
      BY <1>12 DEF SupInv, WalkOK, CancelNode
    <2>2. CASE state[on[w]] = "live"
      BY <1>9, <1>12, <2>1, <2>2 DEF CancelNode
    <2>3. CASE state[on[w]] # "live"
      BY <1>10, <1>12, <2>1, <2>3 DEF CancelNode
    <2> QED
      BY <2>2, <2>3
  <1>13. ASSUME NEW w \in Walker, Signal(w) PROVE Lasting
    <2>1. PICK id \in found[w] : token' = [token EXCEPT ![id] = IF token[id] = "set" THEN "cancelled" ELSE token[id]]
      BY <1>13 DEF Signal
    <2>2. \A c \in Agent : token[c] = "cancelled" => token'[c] = "cancelled"
      BY <1>1, <2>1
    <2> QED
      BY <1>13, <2>2 DEF Signal, Lasting
  <1>14. ASSUME NEW b \in Agent,
                \/ RecordCheck(b) \/ RecordAdd(b) \/ Release(b) \/ FlushOk(b) \/ FlushErr(b)
                \/ Kept(b) \/ DropCall(b) \/ FlushUsage(b)
         PROVE  Lasting
    <2> HIDE DEF SupTypeOK
    <2>1. UNCHANGED <<at, above, token, state>>
      BY <1>14
      DEF RecordCheck, RecordAdd, Release, FlushOk, FlushErr, Kept, DropCall, FlushUsage
    <2> QED
      BY <1>10, <2>1
  <1>15. ASSUME NEW w \in Walker, Walk(w) \/ CancelReturns(w) \/ \E r \in Agent : CancelTree(w, r)
         PROVE  Lasting
    BY <1>10, <1>15 DEF Walk, CancelReturns, CancelTree
  <1>16. ASSUME UNCHANGED vars PROVE Lasting
    BY <1>10, <1>16 DEF vars
  <1> HIDE DEF SupTypeOK, spawnVars, workerVars
  <1> QED
    BY <1>2, <1>3, <1>4, <1>5, <1>6, <1>7, <1>8, <1>11, <1>12, <1>13, <1>14, <1>15, <1>16
    DEF Next, SpawnStep, CallStep, WalkStep

\* A worker cut off stays cut off.
LEMMA CutOffLasts ==
  ASSUME SupTypeOK, Lasting, NEW a \in Agent, at[a] \in Placed, TreeOK(a), NEW r, CutOff(r, a)
  PROVE  \E m \in above'[a] : m \in Agent /\ r \in above'[m] /\ state'[m] \in Ended
  <1>1. PICK m \in above[a] \intersect Below(r) : state[m] \in Ended
    BY DEF CutOff, Ended
  <1>2. m \in Agent /\ r \in above[m] /\ at[m] = "returned"
    BY <1>1 DEF Below, TreeOK, SupTypeOK
  <1>3. above'[a] = above[a] /\ above'[m] = above[m] /\ state'[m] = state[m]
    BY <1>1, <1>2 DEF Lasting, Joined, Placed, Ended, Terminal
  <1> QED
    BY <1>1, <1>2, <1>3

\* A walk whose own variables do not move, but for the end of a closing.
LEMMA WalkFrame ==
  ASSUME SupTypeOK, Lasting, NEW w \in Walker, WalkOK(w), \A a \in Agent : TreeOK(a),
         queue'[w] = queue[w], found'[w] = found[w], root'[w] = root[w], due'[w] = due[w],
         \/ walk'[w] = walk[w] /\ on'[w] = on[w]
         \/ walk[w] = "closing" /\ walk'[w] \in {"walking", "dropped"}
  PROVE  WalkOK(w)'
  <1>1. queue[w] \subseteq Agent /\ found[w] \subseteq Agent /\ due[w] \subseteq Agent
    BY DEF SupTypeOK
  <1>2. \A m \in queue[w] : above'[m] = above[m] /\ at'[m] \in Joined
    BY <1>1 DEF WalkOK, Lasting, Joined
  <1>3. \A a \in due[w] : above'[a] = above[a] /\ at'[a] \in Placed
    BY <1>1 DEF WalkOK, Lasting, Joined
  <1>4. ASSUME NEW a \in due[w], walk'[w] # "dropped" PROVE Reached(w, a)'
    <2>1. a \in Agent /\ at[a] \in Placed /\ Reached(w, a)
      BY <1>1, <1>4 DEF WalkOK
    <2>2. CutOff(root[w], a) =>
            \E m \in above'[a] : m \in Agent /\ root[w] \in above'[m] /\ state'[m] \in Ended
      BY <2>1, CutOffLasts
    <2>3. CutOff(root[w], a) => CutOff(root[w], a)'
      BY <2>2 DEF CutOff, Below, Ended
    <2>4. state[a] \in Ended => state'[a] \in Ended
      BY <2>1 DEF Lasting, Ended, Terminal
    <2>5. token[a] = "cancelled" => token'[a] = "cancelled"
      BY <2>1 DEF Lasting
    <2>6. state[a] = "cancelled" => state'[a] = "cancelled"
      BY <2>1 DEF Lasting, Terminal
    <2>7. walk[w] = "signalled" /\ on[w] = a => walk'[w] = "signalled" /\ on'[w] = a
      OBVIOUS
    <2>8. (\E m \in queue[w] : m = a \/ m \in above[a]) =>
            \E m \in queue'[w] : m = a \/ m \in above'[a]
      BY <1>3
    <2> QED
      <3> HIDE DEF SupTypeOK
      <3>1. found'[w] = found[w]
        OBVIOUS
      <3> QED
        BY <2>1, <2>3, <2>4, <2>5, <2>6, <2>7, <2>8, <3>1 DEF Reached
  <1>5. \A m \in queue'[w] : (m = root'[w] \/ root'[w] \in above'[m]) /\ at'[m] \in Joined
    BY <1>2 DEF WalkOK
  <1>6. /\ walk'[w] = "signalled" => on'[w] \in Agent
        /\ walk'[w] = "returned" => queue'[w] = {} /\ found'[w] = {}
        /\ walk'[w] = "idle" => due'[w] = {}
    BY DEF WalkOK
  <1> QED
    BY <1>3, <1>4, <1>5, <1>6 DEF WalkOK, Joined

LEMMA StartWalk ==
  ASSUME SupInv, NEW w \in Walker, NEW r \in Agent, CancelTree(w, r)
  PROVE  WalkOK(w)'
  <1>1. SupTypeOK /\ \A a \in Agent : SpawnOK(a)
    BY DEF SupInv
  <1>2. /\ walk'[w] = "walking" /\ queue'[w] = {r} /\ root'[w] = r
        /\ due'[w] = Active \intersect (Below(r) \union {r})
        /\ at[r] = "returned" /\ UNCHANGED <<at, parent, above, state, token>>
    BY <1>1 DEF CancelTree, SupTypeOK, spawnVars, workerVars
  <1>3. \A a \in due'[w] : at'[a] \in Placed /\ (a = r \/ r \in above'[a])
    BY <1>1, <1>2 DEF Active, Below, SpawnOK
  <1>4. \A a \in due'[w] : Reached(w, a)'
    BY <1>2, <1>3 DEF Reached
  <1>5. at'[r] \in Joined
    BY <1>2 DEF Joined, Placed
  <1> QED
    BY <1>2, <1>3, <1>4, <1>5 DEF WalkOK, Joined

LEMMA VisitWalk ==
  ASSUME SupInv, NEW w \in Walker, Walk(w)
  PROVE  WalkOK(w)'
  <1>1. SupTypeOK /\ WalkOK(w) /\ \A a \in Agent : SpawnOK(a) /\ TreeOK(a)
    BY DEF SupInv
  <1>2. PICK id \in queue[w] :
          /\ queue' = [queue EXCEPT ![w] = (queue[w] \ {id}) \union children[id]]
          /\ found' = [found EXCEPT ![w] = found[w] \union {id}]
    BY DEF Walk
  <1>3. /\ walk[w] = "walking" /\ UNCHANGED <<at, parent, above, state, token, children, walk, on, root, due>>
        /\ queue'[w] = (queue[w] \ {id}) \union children[id] /\ found'[w] = found[w] \union {id}
    BY <1>1, <1>2 DEF Walk, SupTypeOK, spawnVars, workerVars
  <1>4. id \in Agent /\ queue[w] \subseteq Agent /\ due[w] \subseteq Agent /\ children[id] \subseteq Agent
    BY <1>1, <1>2 DEF SupTypeOK
  <1>5. id = root[w] \/ root[w] \in above[id]
    BY <1>1, <1>2 DEF WalkOK
  <1>6. \A c \in children[id] : parent[c] = id /\ at[c] \in Joined
    BY <1>1, <1>4 DEF TreeOK, Joined
  <1>7. \A c \in Agent : parent[c] = id => above[c] = above[id] \union {id} /\ root[w] \in above[c]
    BY <1>1, <1>4, <1>5, NoAgentAssumption DEF TreeOK
  <1>8. \A m \in queue'[w] : (m = root[w] \/ root[w] \in above[m]) /\ at[m] \in Joined
    BY <1>1, <1>3, <1>4, <1>6, <1>7 DEF WalkOK, Joined
  <1>9. ASSUME NEW a \in due[w] PROVE Reached(w, a)'
    <2>1. a \in Agent /\ at[a] \in Placed /\ Reached(w, a)
      BY <1>1, <1>3, <1>4 DEF WalkOK
    <2>2. CutOff(root[w], a) => CutOff(root[w], a)'
      BY <1>3 DEF CutOff, Below
    <2>3. CutOff(root[w], a)' => Reached(w, a)'
      BY <1>3 DEF Reached, CutOff, Below
    <2>4. CASE \E m \in queue[w] : m # id /\ (m = a \/ m \in above[a])
      BY <1>3, <2>4 DEF Reached
    <2>5. CASE id = a
      BY <1>3, <2>5 DEF Reached
    <2>6. CASE id \in above[a]
      <3>1. PICK c \in above[a] \union {a} : parent[c] = id
        BY <1>1, <2>1, <2>6 DEF TreeOK
      <3>2. c \in Agent /\ at[c] \in Joined
        BY <1>1, <2>1, <3>1 DEF TreeOK, SupTypeOK, Joined, Placed
      <3>3. CASE state[c] \notin Ended
        <4>1. c \in children[id]
          BY <1>1, <1>4, <3>1, <3>2, <3>3, NoAgentAssumption DEF TreeOK, Joined
        <4> QED
          BY <1>3, <3>1, <4>1 DEF Reached
      <3>4. CASE state[c] \in Ended /\ c = a
        BY <1>3, <3>4 DEF Reached
      <3>5. CASE state[c] \in Ended /\ c \in above[a]
        <4>1. c \in above[a] \intersect Below(root[w])
          BY <1>7, <3>1, <3>2, <3>5 DEF Below
        <4>2. CutOff(root[w], a)
          BY <3>5, <4>1 DEF CutOff, Ended
        <4> QED
          BY <2>2, <2>3, <4>2
      <3> QED
        BY <3>1, <3>3, <3>4, <3>5
    <2>7. CASE ~\E m \in queue[w] : m = a \/ m \in above[a]
      BY <1>3, <2>1, <2>2, <2>3, <2>7 DEF Reached
    <2> QED
      BY <2>4, <2>5, <2>6, <2>7
  <1> QED
    BY <1>1, <1>3, <1>8, <1>9 DEF WalkOK, Joined

LEMMA SignalWalk ==
  ASSUME SupInv, Lasting, NEW w \in Walker, Signal(w)
  PROVE  WalkOK(w)'
  <1>1. SupTypeOK /\ WalkOK(w) /\ \A a \in Agent : SpawnOK(a) /\ TreeOK(a)
    BY DEF SupInv
  <1>2. PICK id \in found[w] :
          /\ found' = [found EXCEPT ![w] = found[w] \ {id}]
          /\ on' = [on EXCEPT ![w] = id]
          /\ token' = [token EXCEPT ![id] = IF token[id] = "set" THEN "cancelled" ELSE token[id]]
    BY DEF Signal
  <1>3. id \in Agent /\ queue[w] = {} /\ due[w] \subseteq Agent
    BY <1>1, <1>2 DEF SupTypeOK, Signal
  <1>4. /\ walk[w] = "walking" /\ walk'[w] = "signalled"
        /\ UNCHANGED <<at, parent, above, state, queue, root, due>>
        /\ found'[w] = found[w] \ {id} /\ on'[w] = id
        /\ token'[id] = IF token[id] = "set" THEN "cancelled" ELSE token[id]
    BY <1>1, <1>2, <1>3 DEF Signal, SupTypeOK, spawnVars
  <1>5. \A c \in Agent : token[c] = "cancelled" => token'[c] = "cancelled"
    BY <1>1, <1>2 DEF SupTypeOK
  <1>6. ASSUME NEW a \in due[w] PROVE Reached(w, a)'
    <2>1. a \in Agent /\ at[a] \in Placed /\ Reached(w, a)
      BY <1>1, <1>3, <1>4 DEF WalkOK
    <2>2. CutOff(root[w], a) => Reached(w, a)'
      BY <1>4 DEF Reached, CutOff, Below
    <2>3. CASE a = id
      <3>1. token[a] \in {"set", "cancelled"}
        BY <1>1, <2>1 DEF SpawnOK, SupTypeOK
      <3> QED
        BY <1>4, <2>3, <3>1 DEF Reached
    <2>4. CASE a # id
      BY <1>3, <1>4, <1>5, <2>1, <2>2, <2>4 DEF Reached
    <2> QED
      BY <2>3, <2>4
  <1> QED
    BY <1>1, <1>3, <1>4, <1>6 DEF WalkOK

LEMMA NodeWalk ==
  ASSUME SupInv, Lasting, NEW w \in Walker, CancelNode(w)
  PROVE  WalkOK(w)'
  <1>1. SupTypeOK /\ WalkOK(w) /\ \A a \in Agent : SpawnOK(a) /\ TreeOK(a)
    BY DEF SupInv
  <1>2. /\ walk[w] = "signalled" /\ on[w] \in Agent
        /\ UNCHANGED <<at, parent, above, token, queue, found, root, due>>
    BY <1>1 DEF CancelNode, WalkOK, spawnVars
  <1>3. walk'[w] \in {"closing", "walking"} /\ due[w] \subseteq Agent
    BY <1>1 DEF CancelNode, SupTypeOK
  <1>4. state[on[w]] = "live" => state'[on[w]] = "cancelled"
    BY <1>1, <1>2 DEF CancelNode, Take, SupTypeOK
  <1>5. ASSUME NEW a \in due[w] PROVE Reached(w, a)'
    <2>1. a \in Agent /\ at[a] \in Placed /\ Reached(w, a)
      BY <1>1, <1>2, <1>3 DEF WalkOK
    <2>2. CutOff(root[w], a) =>
            \E m \in above'[a] : m \in Agent /\ root[w] \in above'[m] /\ state'[m] \in Ended
      BY <1>1, <2>1, CutOffLasts
    <2>3. CutOff(root[w], a) => CutOff(root[w], a)'
      BY <1>2, <2>2 DEF CutOff, Below, Ended
    <2>4. state[a] \in Terminal => state'[a] = state[a]
      BY <2>1 DEF Lasting
    <2>5. CASE on[w] = a /\ token[a] = "cancelled"
      <3>1. state[a] # "none"
        BY <1>1, <2>1 DEF SpawnOK
      <3>2. state[a] \in Terminal \union {"live"}
        BY <1>1, <2>1, <3>1 DEF SupTypeOK
      <3>3. state'[a] \in Terminal
        BY <1>4, <2>4, <2>5, <3>2 DEF Terminal
      <3> QED
        BY <1>2, <2>5, <3>3 DEF Reached, Terminal, Ended
    <2>6. CASE ~(on[w] = a /\ token[a] = "cancelled")
      BY <1>2, <2>1, <2>2, <2>3, <2>4, <2>6 DEF Reached, Terminal, Ended
    <2> QED
      BY <2>5, <2>6
  <1> QED
    BY <1>1, <1>2, <1>3, <1>5 DEF WalkOK

LEMMA WalkInvStep ==
  ASSUME SupInv, NEW w \in Walker, [Next]_vars
  PROVE  WalkOK(w)'
  <1>1. SupTypeOK /\ WalkOK(w) /\ Lasting /\ \A a \in Agent : TreeOK(a)
    BY LastingStep DEF SupInv
  <1>2. ASSUME UNCHANGED <<queue, found, root, due, walk, on>> PROVE WalkOK(w)'
    BY <1>1, <1>2, WalkFrame
  <1>3. ASSUME NEW b \in Agent, Leave(b), UNCHANGED <<queue, found, root, due>> PROVE WalkOK(w)'
    <2>1. \/ walk'[w] = walk[w] /\ on'[w] = on[w]
          \/ walk[w] = "closing" /\ walk'[w] \in {"walking", "dropped"}
      BY <1>3 DEF Leave
    <2> QED
      BY <1>1, <1>3, <2>1, WalkFrame
  <1>4. ASSUME NEW b \in Agent, Release(b) \/ FlushOk(b) \/ Kept(b) PROVE WalkOK(w)'
    <2>1. UNCHANGED <<queue, found, root, due>> /\ (Leave(b) \/ UNCHANGED <<walk, on>>)
      BY <1>4 DEF Release, FlushOk, Kept
    <2> QED
      BY <1>2, <1>3, <2>1
  <1>5. ASSUME NEW b \in Agent, DropCall(b) PROVE WalkOK(w)'
    <2>1. /\ UNCHANGED <<queue, found, root, due, on>>
          /\ walk'[w] = walk[w] \/ (walk[w] = "closing" /\ walk'[w] = "dropped")
      BY <1>5 DEF DropCall
    <2> QED
      BY <1>1, <2>1, WalkFrame
  <1>6. ASSUME NEW b \in Agent,
               \/ SpawnStep(b) \/ RecordCheck(b) \/ RecordAdd(b) \/ FlushErr(b) \/ FlushUsage(b)
               \/ \E to \in {"completed", "failed"} : Finish(b, to)
        PROVE  WalkOK(w)'
    <2>1. UNCHANGED <<queue, found, root, due, walk, on>>
      BY <1>6
      DEF SpawnStep, Validate, Reserve, Deny, AbortSpawn, Attach, InsertToken, Register, InsertBudget,
          RecordCheck, RecordAdd, FlushErr, FlushUsage, Finish, walkVars
    <2> QED
      BY <1>2, <2>1
  <1>7. ASSUME NEW v \in Walker, v # w, WalkStep(v) \/ \E r \in Agent : CancelTree(v, r)
        PROVE  WalkOK(w)'
    <2>1. /\ queue'[w] = queue[w] /\ found'[w] = found[w] /\ root'[w] = root[w] /\ due'[w] = due[w]
          /\ walk'[w] = walk[w] /\ on'[w] = on[w]
      <3>1. CASE \E r \in Agent : CancelTree(v, r)
        BY <1>1, <1>7, <3>1 DEF CancelTree, SupTypeOK
      <3>2. CASE Walk(v) \/ CancelReturns(v)
        BY <1>1, <1>7, <3>2 DEF Walk, CancelReturns, SupTypeOK
      <3>3. CASE Signal(v)
        BY <1>1, <1>7, <3>3 DEF Signal, SupTypeOK
      <3>4. CASE CancelNode(v)
        BY <1>1, <1>7, <3>4 DEF CancelNode, SupTypeOK
      <3> QED
        BY <1>7, <3>1, <3>2, <3>3, <3>4 DEF WalkStep
    <2> QED
      BY <1>1, <2>1, WalkFrame
  <1>8. ASSUME CancelReturns(w) PROVE WalkOK(w)'
    <2>1. /\ walk[w] = "walking" /\ queue[w] = {} /\ found[w] = {} /\ walk'[w] = "returned"
          /\ UNCHANGED <<at, parent, above, state, token, queue, found, on, root, due>>
      BY <1>1, <1>8 DEF CancelReturns, SupTypeOK, spawnVars, workerVars
    <2>2. \A a \in due[w] : Reached(w, a) => Reached(w, a)'
      BY <2>1 DEF Reached, CutOff, Below
    <2> QED
      BY <1>1, <2>1, <2>2 DEF WalkOK
  <1>9. ASSUME WalkStep(w) \/ \E r \in Agent : CancelTree(w, r) PROVE WalkOK(w)'
    BY <1>1, <1>8, <1>9, StartWalk, VisitWalk, SignalWalk, NodeWalk DEF WalkStep
  <1>10. ASSUME UNCHANGED vars PROVE WalkOK(w)'
    BY <1>2, <1>10 DEF vars, walkVars
  <1> QED
    BY <1>4, <1>5, <1>6, <1>7, <1>9, <1>10 DEF Next, CallStep

-----------------------------------------------------------------------------
(* The theorems                                                            *)

THEOREM SupInvHolds == Spec => []SupInv
  <1>1. Init => SupInv
    <2> SUFFICES ASSUME Init PROVE SupInv
      OBVIOUS
    <2>1. SupTypeOK
      BY DEF Init, SupTypeOK
    <2>2. \A a \in Agent : SpawnOK(a) /\ LeaseOK(a) /\ TreeOK(a)
      BY DEF Init, SpawnOK, LeaseOK, TreeOK, Placed, Terminal, Ended
    <2>3. \A a \in Agent : CallOK(a) /\ BookOK(a)
      BY DEF Init, CallOK, BookOK, Fresh, Terminal
    <2>4. \A w \in Walker : WalkOK(w)
      BY DEF Init, WalkOK
    <2>5. reserved \union Active = {}
      BY DEF Init, Active
    <2>6. ConcurrencyRespected
      BY <2>5, FS_EmptySet, LimitAssumption DEF ConcurrencyRespected
    <2> QED
      BY <2>1, <2>2, <2>3, <2>4, <2>6 DEF SupInv
  <1>2. SupInv /\ [Next]_vars => SupInv'
    <2> SUFFICES ASSUME SupInv, [Next]_vars PROVE SupInv'
      OBVIOUS
    <2>1. SupTypeOK'
      BY TypeStep
    <2>2. \A a \in Agent : AgentOK(a)' /\ TreeOK(a)'
      BY AgentStep, TreeStep
    <2>3. \A w \in Walker : WalkOK(w)'
      BY WalkInvStep
    <2>4. ConcurrencyRespected'
      BY LimitStep
    <2> QED
      BY <2>1, <2>2, <2>3, <2>4 DEF SupInv, AgentOK
  <1> QED
    BY <1>1, <1>2, PTL DEF Spec

\* SupTypeOK: every value of the supervisor, its calls and the usage ledger
\* stays in its range; a flush never books a negative delta.
THEOREM SupTypeCorrect == Spec => []SupTypeOK
  <1>1. SupInv => SupTypeOK
    BY DEF SupInv
  <1> QED
    BY <1>1, SupInvHolds, PTL

\* ConcurrencyRespected: reserve_concurrency never over-commits, whichever
\* spawns, refusals and ends of workers interleave.
THEOREM LimitCorrect == Spec => []ConcurrencyRespected
  <1>1. SupInv => ConcurrencyRespected
    BY DEF SupInv
  <1> QED
    BY <1>1, SupInvHolds, PTL

\* TreeIsCancelled: a cancel_tree that returned has ended every worker that
\* was alive in its tree, in a tree of any depth and against any other calls,
\* but for those an ended ancestor had cut off.
THEOREM CancelCorrect == Spec => []TreeIsCancelled
  <1>1. SupInv => TreeIsCancelled
    BY DEF SupInv, WalkOK, Reached, TreeIsCancelled, Terminal, Ended
  <1> QED
    BY <1>1, SupInvHolds, PTL

\* LeaseSettled: a lease goes back with the outcome of its worker's end.
THEOREM LeaseCorrect == Spec => []LeaseSettled
  <1>1. SupInv => LeaseSettled
    BY DEF SupInv, LeaseOK, LeaseSettled, Terminal, Outcome
  <1> QED
    BY <1>1, SupInvHolds, PTL

\* A dropped future takes the controller of one worker.
LossOK == IsFiniteSet(lost) /\ Cardinality(lost) <= drops

LEMMA LossStep ==
  ASSUME SupInv, LossOK, [Next]_vars
  PROVE  LossOK'
  <1> USE DEF countVars
  <1>1. ASSUME UNCHANGED <<drops, lost>> PROVE LossOK'
    BY <1>1 DEF LossOK
  <1>2. ASSUME NEW a \in Agent, SpawnStep(a) \/ RecordCheck(a) \/ RecordAdd(a) PROVE LossOK'
    BY <1>1, <1>2 DEF SpawnStep, Validate, Reserve, Deny, AbortSpawn, Attach, InsertToken,
       Register, InsertBudget, RecordCheck, RecordAdd
  <1>3. ASSUME NEW a \in Agent, CallStep(a) \/ FlushUsage(a)
                                \/ \E to \in {"completed", "failed"} : Finish(a, to)
        PROVE  LossOK'
    BY <1>1, <1>3 DEF CallStep, Release, FlushOk, FlushErr, Kept, FlushUsage, Finish
  <1>4. ASSUME NEW a \in Agent, DropCall(a) PROVE LossOK'
    <2>1. drops' = drops + 1 /\ lost' = lost \union {a} /\ drops \in Nat
      BY <1>4 DEF DropCall, SupInv, SupTypeOK
    <2>2. IsFiniteSet(lost') /\ Cardinality(lost') <= Cardinality(lost) + 1 /\ Cardinality(lost) \in Nat
      BY <2>1, FS_AddElement, FS_CardinalityType DEF LossOK
    <2>3. Cardinality(lost') \in Nat
      BY <2>2, FS_CardinalityType
    <2>4. Cardinality(lost) <= drops /\ drops' = drops + 1
      BY <2>1 DEF LossOK
    <2>5. Cardinality(lost') <= drops'
      <3> HIDE DEF countVars
      <3> QED
        BY <2>2, <2>3, <2>4, <2>1
    <2> QED
      BY <2>2, <2>5 DEF LossOK
  <1>5. ASSUME NEW w \in Walker, WalkStep(w) \/ \E r \in Agent : CancelTree(w, r)
        PROVE  LossOK'
    BY <1>1, <1>5 DEF WalkStep, Walk, Signal, CancelNode, CancelReturns, CancelTree
  <1>6. ASSUME UNCHANGED vars PROVE LossOK'
    BY <1>1, <1>6 DEF vars
  <1> QED
    BY <1>2, <1>3, <1>4, <1>5, <1>6 DEF Next

\* UsageExact: however often flushes fail, land late, are retried or dropped, no
\* usage is booked twice; and the workers whose usage a retry no longer finds are
\* at most as many as futures were dropped, so that failures alone lose nothing.
THEOREM UsageCorrect == Spec => []UsageExact
  <1>1. Init => LossOK
    BY FS_EmptySet DEF Init, LossOK
  <1>2. SupInv /\ LossOK => UsageExact
    <2> SUFFICES ASSUME SupInv, LossOK PROVE UsageKept /\ BookedOnce
      BY DEF UsageExact
    <2>1. OutOfReach \subseteq lost
      BY DEF SupInv, CallOK, OutOfReach
    <2>2. Cardinality(OutOfReach) <= Cardinality(lost) /\ Cardinality(OutOfReach) \in Nat
          /\ Cardinality(lost) \in Nat
      BY <2>1, FS_Subset, FS_CardinalityType DEF LossOK
    <2>3. drops \in Nat
      BY DEF SupInv, SupTypeOK
    <2>4. UsageKept
      BY <2>2, <2>3 DEF UsageKept, LossOK
    <2>5. SupTypeOK /\ \A a \in Agent : BookOK(a)
      BY DEF SupInv
    <2>6. BookedOnce
      BY <2>5 DEF SupTypeOK, BookOK, BookedOnce
    <2> QED
      BY <2>4, <2>6
  <1> QED
    BY <1>1, <1>2, LossStep, SupInvHolds, PTL DEF Spec

=============================================================================
