------------------------ MODULE CommandLedgerProofs ------------------------
(***************************************************************************)
(* Proofs about CommandLedger, for every set of requests, scopes, command  *)
(* ids and keys, every capacity and every number of faults and crashes.    *)
(***************************************************************************)
EXTENDS CommandLedger, FiniteSetTheorems, TLAPS

-----------------------------------------------------------------------------
(* Types                                                                   *)

\* The primary key of a request's row, and when two requests share it.
LEMMA SlotFacts ==
  ASSUME TypeOK
  PROVE  /\ \A r \in Req : SlotOf(r) \in Slot
         /\ \A r \in Req : SlotOf(r)[1] = id[r].scope /\ SlotOf(r)[2] = id[r].cmd
         /\ \A q, r \in Req : SlotOf(q) = SlotOf(r) =>
              id[q].scope = id[r].scope /\ id[q].cmd = id[r].cmd
  BY DEF TypeOK, Slot, SlotOf, Identity

\* A notification moves the request and wakes others; it keeps the types.
LEMMA NotifyType ==
  ASSUME TypeOK, NEW r \in Req, NEW label \in PC, GoAndNotify(r, label)
  PROVE  /\ pc' \in [Req -> PC]
         /\ waiters' \in [Slot -> SUBSET Req]
         /\ pc'[r] = label
         /\ \A q \in Req \ {r} : pc'[q] = pc[q] \/ (pc[q] = "armed" /\ pc'[q] = "check")
  <1>1. SlotOf(r) \in Slot
    BY SlotFacts
  <1>2. "check" \in PC
    BY DEF PC
  <1> QED
    BY <1>1, <1>2 DEF GoAndNotify, TypeOK, Woken

\* Recording a response writes a row of the right type in the own slot only.
LEMMA WrittenType ==
  ASSUME TypeOK, NEW r \in Req
  PROVE  /\ Written(r) \in [Slot -> Row \union {NoRow}]
         /\ Written(r)[SlotOf(r)].status = "completed"
         /\ Written(r)[SlotOf(r)].resp = r
         /\ Written(r)[SlotOf(r)] \in Row
         /\ \A x \in Slot \ {SlotOf(r)} : Written(r)[x] = ledger[x]
  <1>1. SlotOf(r) \in Slot
    BY SlotFacts
  <1> DEFINE k == IF Taken(SlotOf(r)) /\ ledger[SlotOf(r)].key # NoKey
                    THEN ledger[SlotOf(r)].key ELSE id[r].key
  <1>2. k \in Key \union {NoKey}
    BY <1>1 DEF TypeOK, Row, InflightRow, CompletedRow, Taken, Identity
  <1>3. [key |-> k, status |-> "completed", resp |-> r] \in Row
    BY <1>2 DEF Row, CompletedRow
  <1> QED
    BY <1>1, <1>3 DEF Written, TypeOK

\* What a record does to the table, with or without its eviction.
Evictions(r) ==
  {v \in SUBSET Evictable(r) :
     v # {} => Cardinality(v) = Cardinality(CompletedSlots(Written(r))) - Capacity}
Commits(r) == Commit(r, Evictions(r))

LEMMA CompletedFinite ==
  ASSUME NEW rows
  PROVE  IsFiniteSet(CompletedSlots(rows)) /\ Cardinality(CompletedSlots(rows)) \in Nat
  <1>1. IsFiniteSet(Slot)
    BY FiniteAssumption, FS_Product DEF Slot
  <1>2. CompletedSlots(rows) \in SUBSET Slot
    BY DEF CompletedSlots
  <1>3. IsFiniteSet(CompletedSlots(rows))
    BY <1>1, <1>2, FS_Subset
  <1> QED
    BY <1>3, FS_CardinalityType

\* A record that is complete and one whose eviction failed are both commits.
LEMMA CommitKinds ==
  ASSUME NEW r \in Req, CommitRecord(r) \/ Commit(r, {{}})
  PROVE  Commits(r)
  <1>1. Victims(r) \subseteq Evictions(r)
    <2> SUFFICES ASSUME NEW v \in Victims(r), v # {}
                 PROVE  Cardinality(v) = Cardinality(CompletedSlots(Written(r))) - Capacity
      BY DEF Victims, Evictions
    <2>1. v \in SUBSET CompletedSlots(Written(r))
      BY DEF Victims, Evictable
    <2>2. IsFiniteSet(v)
      BY <2>1, CompletedFinite, FS_Subset
    <2>3. Cardinality(v) # 0
      BY <2>2, FS_EmptySet
    <2> QED
      BY <2>3 DEF Victims, CompletedRows
  <1>2. {} \in Evictions(r)
    BY DEF Evictions
  <1> QED
    BY <1>1, <1>2 DEF CommitRecord, Commit, Commits

\* The effect of a committed record on the table, and on what it forgets.
LEMMA CommitFacts ==
  ASSUME TypeOK, NEW r \in Req, Commits(r)
  PROVE  /\ ledger' \in [Slot -> Row \union {NoRow}]
         /\ \A x \in Slot : ledger'[x] = NoRow \/ ledger'[x] = Written(r)[x]
         /\ \A x \in Slot : ledger'[x] # Written(r)[x] =>
              /\ Written(r)[x] # NoRow
              /\ Written(r)[x].status = "completed"
              /\ Written(r)[x].resp \in forgotten'
              /\ Written(r)[x].resp = r \/ ~Active(Written(r)[x].resp)
         /\ forgotten \subseteq forgotten'
         /\ forgotten' \subseteq Req
  <1>1. PICK gone \in Evictions(r) :
           /\ ledger' = [x \in Slot |-> IF x \in gone THEN NoRow ELSE Written(r)[x]]
           /\ forgotten' = forgotten \union {Written(r)[x].resp : x \in gone}
    BY DEF Commits, Commit
  <1>2. Written(r) \in [Slot -> Row \union {NoRow}]
    BY WrittenType
  <1>3. gone \subseteq CompletedSlots(Written(r))
    BY DEF Evictions, Evictable
  <1>4. \A x \in gone : Written(r)[x].resp = r \/ ~Active(Written(r)[x].resp)
    BY DEF Evictions, Evictable
  <1>5. \A x \in gone : /\ x \in Slot
                        /\ Written(r)[x] # NoRow
                        /\ Written(r)[x].status = "completed"
    BY <1>3 DEF CompletedSlots
  <1>6. \A x \in gone : Written(r)[x].resp \in Req
    <2> SUFFICES ASSUME NEW x \in gone PROVE Written(r)[x].resp \in Req
      OBVIOUS
    <2>1. Written(r)[x] \in Row /\ Written(r)[x].status = "completed"
      BY <1>2, <1>5
    <2> QED
      BY <2>1 DEF Row, InflightRow, CompletedRow
  <1> QED
    BY <1>1, <1>2, <1>4, <1>5, <1>6 DEF TypeOK

\* A record that commits and is reported as failed keeps the row it wrote.
LEMMA LateFaultFacts ==
  ASSUME TypeOK, NEW r \in Req, RecordLateFault(r)
  PROVE  /\ Recording(r) /\ Commits(r)
         /\ ledger'[SlotOf(r)] # NoRow
         /\ GoTo(r, AfterFault(r)) \/ GoAndNotify(r, AfterFault(r))
         /\ AfterFault(r) \in PC \cap {"retry", "release"}
         /\ UNCHANGED <<id, reply, faults, crashes, applied>>
  <1>1. AfterFault(r) \in PC \cap {"retry", "release"}
    BY DEF AfterFault, PC, ActivePC
  <1>2. CASE EvictFault(r)
    <2>1. ledger' = [x \in Slot |-> Written(r)[x]] /\ Commits(r)
      BY <1>2, CommitKinds DEF EvictFault, Commit
    <2>2. SlotOf(r) \in Slot /\ Written(r)[SlotOf(r)] # NoRow
      BY SlotFacts, WrittenType, NoRowAssumption
    <2> QED
      BY <1>1, <1>2, <2>1, <2>2 DEF RecordLateFault, EvictFault
  <1>3. CASE StatsFault(r)
    BY <1>1, <1>3, CommitKinds DEF RecordLateFault, StatsFault
  <1> QED
    BY <1>2, <1>3 DEF RecordLateFault

\* Every step of command(), of the database and of a restart keeps the types.
LEMMA TypeStep == TypeOK /\ [Next]_vars => TypeOK'
  <1> SUFFICES ASSUME TypeOK, [Next]_vars PROVE TypeOK'
    OBVIOUS
  <1> USE DEF TypeOK
  <1>pc. /\ PC = {"idle", "check", "done", "leaked", "lost", "seen", "held",
                 "armed", "dispatch", "record", "retry", "release"}
    BY DEF PC, WaitPC, ActivePC
  <1>row. /\ \A r \in Req : SlotOf(r) \in Slot /\ id[r] \in Identity
          /\ \A r \in Req : AfterFault(r) \in PC
    BY <1>pc, SlotFacts DEF AfterFault
  <1>1. ASSUME NEW r \in Req, Call(r) \/ CheckInFlight(r) \/ Listen(r)
        PROVE  TypeOK'
    BY <1>1, <1>pc DEF Call, CheckInFlight, Listen, GoTo
  <1>2. ASSUME NEW r \in Req, CheckReplay(r)
        PROVE  TypeOK'
    <2>1. PICK x \in Hits(r) : /\ HasStatus(x, "completed")
                              /\ reply' = [reply EXCEPT ![r] = ledger[x].resp]
      BY <1>2 DEF CheckReplay
    <2>2. x \in Slot
      BY <1>row DEF Hits, KeySlots
    <2>3. ledger[x].resp \in Req
      BY <2>1, <2>2 DEF HasStatus, Taken, Row, InflightRow, CompletedRow
    <2> QED
      BY <1>2, <1>pc, <2>1, <2>3 DEF CheckReplay, GoTo
  <1>3. ASSUME NEW r \in Req, CheckReserve(r)
        PROVE  TypeOK'
    <2>1. [key |-> id[r].key, status |-> "inflight", resp |-> NoReq] \in Row
      BY <1>row DEF Row, InflightRow, Identity
    <2> QED
      BY <1>3, <1>pc, <1>row, <2>1 DEF CheckReserve, GoTo
  <1>4. ASSUME NEW r \in Req, CheckFault(r)
        PROVE  TypeOK'
    BY <1>4, <1>pc, BoundAssumption DEF CheckFault, GoTo
  <1>5. ASSUME NEW r \in Req, HoldNotify(r) \/ PollTimeout(r)
        PROVE  TypeOK'
    BY <1>5, <1>pc, <1>row DEF HoldNotify, PollTimeout, GoTo
  <1>6. ASSUME NEW r \in Req, DispatchOk(r) \/ DispatchRejected(r)
        PROVE  TypeOK'
    BY <1>6, <1>pc DEF DispatchOk, DispatchRejected, GoTo
  <1>7. ASSUME NEW r \in Req, RecordOk(r)
        PROVE  TypeOK'
    <2>1. GoAndNotify(r, "done") /\ CommitRecord(r)
      BY <1>7 DEF RecordOk
    <2>2. pc' \in [Req -> PC] /\ waiters' \in [Slot -> SUBSET Req]
      BY <2>1, <1>pc, NotifyType
    <2>3. ledger' \in [Slot -> Row \union {NoRow}] /\ forgotten' \subseteq Req
      BY <2>1, CommitKinds, CommitFacts
    <2> QED
      BY <1>7, <2>2, <2>3 DEF RecordOk
  <1>8. ASSUME NEW r \in Req, RecordRefused(r)
        PROVE  TypeOK'
    <2>1. pc' \in [Req -> PC] /\ waiters' \in [Slot -> SUBSET Req]
      BY <1>8, <1>pc, NotifyType DEF RecordRefused
    <2> QED
      BY <1>8, <2>1 DEF RecordRefused
  <1>9. ASSUME NEW r \in Req, RecordFault(r)
        PROVE  TypeOK'
    <2>1. pc' \in [Req -> PC] /\ waiters' \in [Slot -> SUBSET Req]
      <3>1. CASE GoAndNotify(r, AfterFault(r))
        BY <3>1, <1>row, NotifyType
      <3>2. CASE GoTo(r, AfterFault(r)) /\ UNCHANGED waiters
        BY <3>2, <1>row DEF GoTo
      <3> QED
        BY <1>9, <3>1, <3>2 DEF RecordFault
    <2> QED
      BY <1>9, <2>1, BoundAssumption DEF RecordFault
  <1>10. ASSUME NEW r \in Req, RecordLateFault(r)
         PROVE  TypeOK'
    <2>1. ledger' \in [Slot -> Row \union {NoRow}] /\ forgotten' \subseteq Req
      BY <1>10, LateFaultFacts, CommitFacts
    <2>2. pc' \in [Req -> PC] /\ waiters' \in [Slot -> SUBSET Req]
      <3>1. CASE GoAndNotify(r, AfterFault(r))
        BY <3>1, <1>row, NotifyType
      <3>2. CASE GoTo(r, AfterFault(r)) /\ UNCHANGED waiters
        BY <3>2, <1>row DEF GoTo
      <3> QED
        BY <1>10, <3>1, <3>2 DEF RecordLateFault, EvictFault, StatsFault
    <2> QED
      BY <1>10, <2>1, <2>2, BoundAssumption DEF RecordLateFault
  <1>11. ASSUME NEW r \in Req, Release(r) \/ ReleaseFault(r)
         PROVE  TypeOK'
    <2>1. pc' \in [Req -> PC] /\ waiters' \in [Slot -> SUBSET Req]
      BY <1>11, <1>pc, NotifyType DEF Release, ReleaseFault
    <2>2. CASE Release(r)
      BY <2>1, <2>2 DEF Release
    <2>3. CASE ReleaseFault(r)
      BY <2>1, <2>3, BoundAssumption DEF ReleaseFault
    <2> QED
      BY <1>11, <2>2, <2>3
  <1>12. ASSUME CrashRestart
         PROVE  TypeOK'
    BY <1>12, <1>pc, BoundAssumption DEF CrashRestart
  <1>13. CASE UNCHANGED vars
    BY <1>13 DEF vars
  <1> QED
    BY <1>1, <1>2, <1>3, <1>4, <1>5, <1>6, <1>7, <1>8, <1>9, <1>10, <1>11,
       <1>12, <1>13
    DEF Next, Progress, Fault, Check, Wait, Dispatch, Persist

\* Type correctness of command(), the ledger table and the Notify map.
THEOREM TypeCorrect == Spec => []TypeOK
  <1>1. Init => TypeOK
    BY BoundAssumption DEF Init, TypeOK, PC
  <1> QED
    BY <1>1, TypeStep, PTL DEF Spec

-----------------------------------------------------------------------------
(* The inductive invariant                                                 *)

\* A step moves request r to label; other requests at most wake up.
Moves(r, label) ==
  /\ pc'[r] = label
  /\ \A q \in Req \ {r} : pc'[q] = pc[q] \/ (pc[q] = "armed" /\ pc'[q] = "check")

LEMMA MovesFacts ==
  ASSUME TypeOK, NEW r \in Req, NEW label \in PC,
         GoTo(r, label) \/ GoAndNotify(r, label)
  PROVE  Moves(r, label)
  BY NotifyType DEF Moves, GoTo, TypeOK

\* Waking up neither takes nor gives up a row.
LEMMA MovesOthers ==
  ASSUME NEW r \in Req, NEW label, Moves(r, label)
  PROVE  \A q \in Req \ {r} : /\ Holding(q)' <=> Holding(q)
                              /\ Recording(q)' <=> Recording(q)
                              /\ Holding(q) => pc'[q] = pc[q]
  BY DEF Moves, Holding, Active, ActivePC, Recording

\* A step that only moves a request, and neither into a row nor out of one,
\* keeps everything but what is said about replies.
LEMMA FrameStep ==
  ASSUME TypeOK, LedgerInv, NEW r \in Req, NEW label, Moves(r, label),
         UNCHANGED <<ledger, id, applied, forgotten>>,
         ~Holding(r), label \in {"check", "seen", "held", "armed", "done"}
  PROVE  Ownership' /\ ExclusiveHolding' /\ Provenance' /\ RecordsSuccess' /\ Owed'
  <1>1. ~Holding(r)' /\ ~Recording(r)'
    BY DEF Moves, Holding, Active, ActivePC, Recording
  <1>2. \A q \in Req : (Holding(q)' <=> Holding(q)) /\ (Holding(q) => pc'[q] = pc[q])
    BY <1>1, MovesOthers
  <1>3. \A q \in Req : SlotOf(q)' = SlotOf(q)
    BY DEF SlotOf
  <1>4. Ownership'
    BY <1>2, <1>3 DEF LedgerInv, Ownership, Taken
  <1>5. ExclusiveHolding'
    BY <1>2 DEF LedgerInv, ExclusiveHolding, SameCommand
  <1>6. Provenance'
    BY <1>3 DEF LedgerInv, Provenance, HasStatus, Taken, SlotOf
  <1>7. RecordsSuccess'
    BY <1>1, MovesOthers DEF LedgerInv, RecordsSuccess
  <1>8. Owed'
    BY <1>2, <1>3 DEF LedgerInv, Owed, HasStatus, Taken, TypeOK
  <1> QED
    BY <1>4, <1>5, <1>6, <1>7, <1>8

\* A reserved command is one that no holder and no remembered success shares.
LEMMA ReserveStep ==
  ASSUME TypeOK, LedgerInv, NEW r \in Req, CheckReserve(r)
  PROVE  LedgerInv'
  <1>1. Moves(r, "dispatch")
    BY MovesFacts DEF CheckReserve, PC, ActivePC
  <1>2. /\ ~Taken(SlotOf(r))
        /\ KeySlots(r) = {}
    BY DEF CheckReserve, Hits
  <1>3. /\ \A q \in Req : SlotOf(q)' = SlotOf(q) /\ SlotOf(q) \in Slot
        /\ UNCHANGED <<id, reply, applied, forgotten>>
    BY SlotFacts DEF CheckReserve, SlotOf
  <1>4. /\ ledger'[SlotOf(r)] =
             [key |-> id[r].key, status |-> "inflight", resp |-> NoReq]
        /\ \A x \in Slot \ {SlotOf(r)} : ledger'[x] = ledger[x]
    BY <1>3 DEF CheckReserve, TypeOK
  <1>5. ledger'[SlotOf(r)] # NoRow
    BY <1>3, <1>4, NoRowAssumption DEF Row, InflightRow, TypeOK, Identity
  <1>6. \A q \in Req : Taken(SlotOf(q)) => SlotOf(q) # SlotOf(r)
    BY <1>2
  <1>7. \A q \in Req : Taken(SlotOf(q)) /\ ledger[SlotOf(q)].key = id[q].key
                       => ~SameCommand(q, r) /\ ~SameCommand(r, q)
    <2> SUFFICES ASSUME NEW q \in Req, Taken(SlotOf(q)),
                        ledger[SlotOf(q)].key = id[q].key,
                        id[q].scope = id[r].scope,
                        \/ id[q].cmd = id[r].cmd
                        \/ id[q].key = id[r].key /\ id[r].key # NoKey
                 PROVE  FALSE
      BY DEF SameCommand
    <2>1. CASE id[q].cmd = id[r].cmd
      BY <1>6, <2>1 DEF SlotOf
    <2>2. CASE id[q].key = id[r].key /\ id[r].key # NoKey
      BY <1>2, <1>3, <2>2, SlotFacts DEF KeySlots
    <2> QED
      BY <2>1, <2>2
  <1>8. Holding(r)' /\ ~Holding(r) /\ ~Recording(r)'
    BY <1>1 DEF Moves, Holding, Active, ActivePC, Recording, CheckReserve
  <1>9. Ownership'
    <2> SUFFICES ASSUME NEW q \in Req, Holding(q)'
                 PROVE  /\ Taken(SlotOf(q))'
                        /\ ledger'[SlotOf(q)].key = id[q].key
                        /\ \/ ledger'[SlotOf(q)].status = "inflight"
                           \/ pc'[q] \in {"retry", "release"} /\ ledger'[SlotOf(q)].resp = q
      BY <1>3 DEF Ownership
    <2>1. CASE q = r
      BY <1>3, <1>4, <1>5, <2>1 DEF Taken
    <2>2. CASE q # r
      <3>1. Holding(q) /\ pc'[q] = pc[q]
        BY <1>1, <2>2, MovesOthers
      <3>2. ledger'[SlotOf(q)] = ledger[SlotOf(q)]
        BY <1>3, <1>4, <1>6, <3>1 DEF LedgerInv, Ownership
      <3> QED
        BY <1>3, <3>1, <3>2 DEF LedgerInv, Ownership, Taken
    <2> QED
      BY <2>1, <2>2
  <1>10. ExclusiveHolding'
    <2>1. \A q \in Req \ {r} : Holding(q) <=> Holding(q)'
      BY <1>1, MovesOthers
    <2>2. \A q \in Req \ {r} : Holding(q) => ~SameCommand(q, r) /\ ~SameCommand(r, q)
      BY <1>7 DEF LedgerInv, Ownership
    <2> QED
      BY <1>3, <2>1, <2>2 DEF LedgerInv, ExclusiveHolding, SameCommand
  <1>11. Provenance'
    BY <1>3, <1>4 DEF LedgerInv, Provenance, HasStatus, Taken, SlotOf
  <1>12. RecordsSuccess'
    BY <1>1, <1>3, <1>8, MovesOthers DEF LedgerInv, RecordsSuccess
  <1>13. Owed'
    <2> SUFFICES ASSUME NEW q \in applied \ forgotten
                 PROVE  /\ Taken(SlotOf(q))'
                        /\ ledger'[SlotOf(q)].key = id[q].key
                        /\ \/ Holding(q)' /\ ledger'[SlotOf(q)].status = "inflight"
                           \/ HasStatus(SlotOf(q), "completed")' /\ ledger'[SlotOf(q)].resp = q
      BY <1>3 DEF Owed, TypeOK
    <2>1. q \in Req
      BY DEF TypeOK
    <2>2. /\ Taken(SlotOf(q))
          /\ ledger[SlotOf(q)].key = id[q].key
          /\ \/ Holding(q) /\ ledger[SlotOf(q)].status = "inflight"
             \/ HasStatus(SlotOf(q), "completed") /\ ledger[SlotOf(q)].resp = q
      BY DEF LedgerInv, Owed
    <2>3. ledger'[SlotOf(q)] = ledger[SlotOf(q)]
      BY <1>3, <1>4, <1>6, <2>1, <2>2
    <2>4. Holding(q) => Holding(q)'
      BY <1>1, <1>8, <2>1, MovesOthers
    <2> QED
      BY <1>3, <2>1, <2>2, <2>3, <2>4 DEF Taken, HasStatus
  <1>14. ReplayFaithful'
    BY <1>3 DEF LedgerInv, ReplayFaithful, SameCommand
  <1> QED
    BY <1>9, <1>10, <1>11, <1>12, <1>13, <1>14 DEF LedgerInv

\* A holder that moves on and still holds its row, the table being untouched.
LEMMA HolderStep ==
  ASSUME TypeOK, LedgerInv, NEW r \in Req, NEW label, Moves(r, label),
         UNCHANGED <<ledger, id, forgotten>>,
         Holding(r), label \in ActivePC \union {"leaked"},
         \/ ledger[SlotOf(r)].status = "inflight"
         \/ label \in {"retry", "release"} /\ ledger[SlotOf(r)].resp = r,
         \/ applied' = applied
         \/ applied' = applied \union {r} /\ ledger[SlotOf(r)].status = "inflight"
  PROVE  Ownership' /\ ExclusiveHolding' /\ Provenance' /\ Owed'
  <1>1. Holding(r)' /\ pc'[r] = label
    BY DEF Moves, Holding, Active
  <1>2. \A q \in Req : /\ Holding(q)' <=> Holding(q)
                       /\ Holding(q) /\ q # r => pc'[q] = pc[q]
    BY <1>1, MovesOthers
  <1>3. \A q \in Req : SlotOf(q)' = SlotOf(q)
    BY DEF SlotOf
  <1>4. Ownership'
    BY <1>1, <1>2, <1>3 DEF LedgerInv, Ownership, Taken
  <1>5. ExclusiveHolding'
    BY <1>2 DEF LedgerInv, ExclusiveHolding, SameCommand
  <1>6. Provenance'
    BY <1>3 DEF LedgerInv, Provenance, HasStatus, Taken, SlotOf
  <1>7. Owed'
    <2> SUFFICES ASSUME NEW q \in applied' \ forgotten
                 PROVE  /\ ledger[SlotOf(q)] # NoRow
                        /\ ledger[SlotOf(q)].key = id[q].key
                        /\ \/ Holding(q)' /\ ledger[SlotOf(q)].status = "inflight"
                           \/ /\ ledger[SlotOf(q)].status = "completed"
                              /\ ledger[SlotOf(q)].resp = q
      BY <1>3 DEF Owed, TypeOK, Taken, HasStatus
    <2>1. CASE q \in applied
      BY <1>2, <2>1 DEF LedgerInv, Owed, TypeOK, Taken, HasStatus
    <2>2. CASE q \notin applied
      BY <1>1, <2>2 DEF LedgerInv, Ownership, Taken
    <2> QED
      BY <2>1, <2>2
  <1> QED
    BY <1>4, <1>5, <1>6, <1>7

\* The steps of a holder that leave the table alone.
LEMMA DispatchStep ==
  ASSUME TypeOK, LedgerInv, NEW r \in Req,
         \/ DispatchOk(r) \/ DispatchRejected(r) \/ RecordRefused(r)
         \/ RecordFault(r)
         \/ ReleaseFault(r) /\ HasStatus(SlotOf(r), "inflight")
  PROVE  LedgerInv'
  <1>1. PICK label \in PC :
          /\ Moves(r, label)
          /\ label \in {"record", "retry", "release", "leaked"}
          /\ label = "record" => pc[r] = "dispatch" /\ r \in applied' /\ ~id[r].upload
          /\ label = "retry" => pc[r] = "record"
          /\ label = "leaked" => HasStatus(SlotOf(r), "inflight")
    <2> USE DEF PC, ActivePC, WaitPC
    <2>1. CASE DispatchOk(r)
      BY <2>1, MovesFacts DEF DispatchOk
    <2>2. CASE DispatchRejected(r)
      BY <2>2, MovesFacts DEF DispatchRejected
    <2>3. CASE RecordRefused(r)
      BY <2>3, MovesFacts DEF RecordRefused
    <2>4. CASE RecordFault(r)
      BY <2>4, MovesFacts DEF RecordFault, AfterFault, Recording
    <2>5. CASE ReleaseFault(r) /\ HasStatus(SlotOf(r), "inflight")
      <3>1. GoAndNotify(r, "leaked") /\ "leaked" \in PC
        BY <2>5 DEF ReleaseFault
      <3>2. Moves(r, "leaked")
        BY <3>1, MovesFacts
      <3> QED
        BY <2>5, <3>2
    <2> QED
      BY <2>1, <2>2, <2>3, <2>4, <2>5
  <1>2. /\ UNCHANGED <<ledger, id, forgotten>>
        /\ Holding(r) /\ pc[r] # "leaked"
        /\ \/ applied' = applied /\ pc[r] # "dispatch"
           \/ applied' = applied \union {r} /\ pc[r] = "dispatch"
           \/ applied' = applied /\ pc[r] = "dispatch"
    BY DEF DispatchOk, DispatchRejected, RecordRefused, RecordFault, ReleaseFault,
           Holding, Active, ActivePC, Recording
  <1>3. pc[r] \in {"dispatch", "record"} => ledger[SlotOf(r)].status = "inflight"
    BY <1>2 DEF LedgerInv, Ownership
  <1>4. \/ ledger[SlotOf(r)].status = "inflight"
        \/ label \in {"retry", "release"} /\ ledger[SlotOf(r)].resp = r
    BY <1>1, <1>2, <1>3 DEF LedgerInv, Ownership, HasStatus
  <1>5. Ownership' /\ ExclusiveHolding' /\ Provenance' /\ Owed'
    BY <1>1, <1>2, <1>3, <1>4, HolderStep DEF ActivePC
  <1>6. RecordsSuccess'
    <2> SUFFICES ASSUME NEW q \in Req, Recording(q)'
                 PROVE  q \in applied' /\ ~id[q].upload
      BY <1>2 DEF RecordsSuccess
    <2>1. CASE q # r
      BY <1>1, <1>2, <2>1, MovesOthers DEF LedgerInv, RecordsSuccess
    <2>2. CASE q = r
      BY <1>1, <1>2, <2>2 DEF LedgerInv, RecordsSuccess, Recording, Moves
    <2> QED
      BY <2>1, <2>2
  <1>7. ReplayFaithful'
    <2>1. \/ reply' = reply
          \/ reply' = [reply EXCEPT ![r] = r]
          \/ reply' = [reply EXCEPT ![r] = Error]
      BY DEF DispatchOk, DispatchRejected, RecordRefused, RecordFault, ReleaseFault
    <2>2. \A q \in Req : reply'[q] \notin {NoReq, Error, q} => reply'[q] = reply[q]
      BY <2>1 DEF TypeOK
    <2>3. applied \subseteq applied'
      BY <1>2
    <2> QED
      BY <1>2, <2>2, <2>3 DEF LedgerInv, ReplayFaithful, SameCommand
  <1> QED
    BY <1>5, <1>6, <1>7 DEF LedgerInv

\* A committed record: the own row completes, and what is evicted is a
\* completed row that no holder needs and whose success becomes forgotten.
LEMMA CommitStep ==
  ASSUME TypeOK, LedgerInv, NEW r \in Req, Recording(r), Commits(r),
         NEW label \in {"done", "retry", "release"}, Moves(r, label),
         label # "done" => ledger'[SlotOf(r)] # NoRow,
         UNCHANGED <<id, reply, applied>>
  PROVE  LedgerInv'
  <1>1. /\ Holding(r) /\ r \in applied /\ ~id[r].upload
        /\ Taken(SlotOf(r)) /\ ledger[SlotOf(r)].key = id[r].key
        /\ ledger[SlotOf(r)].status # "completed"
    BY DEF LedgerInv, RecordsSuccess, Ownership, Holding, Active, ActivePC,
           Recording, Commits, Commit, Duplicate, HasStatus
  <1>2. \A q \in Req : SlotOf(q)' = SlotOf(q) /\ SlotOf(q) \in Slot
    BY SlotFacts DEF SlotOf
  <1> DEFINE new == Written(r)[SlotOf(r)]
  <1>3. /\ new.status = "completed" /\ new.resp = r /\ new.key = id[r].key
        /\ new # NoRow
        /\ \A x \in Slot \ {SlotOf(r)} : Written(r)[x] = ledger[x]
    <2>1. new.key = id[r].key
      BY <1>1, <1>2 DEF Written, TypeOK
    <2> QED
      BY <2>1, WrittenType, NoRowAssumption
  <1>4. \A x \in Slot : \/ ledger'[x] = Written(r)[x]
                        \/ /\ ledger'[x] = NoRow
                           /\ Written(r)[x] # NoRow
                           /\ Written(r)[x].status = "completed"
                           /\ Written(r)[x].resp \in forgotten'
                           /\ Written(r)[x].resp = r \/ ~Active(Written(r)[x].resp)
    BY CommitFacts
  <1>5. \A q \in Req \ {r} : Holding(q) => SlotOf(q) # SlotOf(r)
    BY <1>1, SlotFacts DEF LedgerInv, ExclusiveHolding, SameCommand
  <1>6. \A q \in Req \ {r} : /\ Holding(q)' <=> Holding(q)
                             /\ Holding(q) => pc'[q] = pc[q]
    BY MovesOthers
  <1>7. Holding(r)' => ledger'[SlotOf(r)] # NoRow /\ pc'[r] \in {"retry", "release"}
    BY DEF Moves, Holding, Active, ActivePC
  <1>8. Ownership'
    <2> SUFFICES ASSUME NEW q \in Req, Holding(q)'
                 PROVE  /\ ledger'[SlotOf(q)] # NoRow
                        /\ ledger'[SlotOf(q)].key = id[q].key
                        /\ \/ ledger'[SlotOf(q)].status = "inflight"
                           \/ pc'[q] \in {"retry", "release"} /\ ledger'[SlotOf(q)].resp = q
      BY <1>2 DEF Ownership, Taken
    <2>1. CASE q = r
      BY <1>2, <1>3, <1>4, <1>7, <2>1
    <2>2. CASE q # r
      <3>1. /\ Holding(q) /\ pc'[q] = pc[q] /\ SlotOf(q) # SlotOf(r)
        BY <1>5, <1>6, <2>2
      <3>2. Written(r)[SlotOf(q)] = ledger[SlotOf(q)]
        BY <1>2, <1>3, <3>1
      <3>3. /\ ledger[SlotOf(q)] # NoRow
            /\ ledger[SlotOf(q)].key = id[q].key
            /\ \/ ledger[SlotOf(q)].status = "inflight"
               \/ pc[q] \in {"retry", "release"} /\ ledger[SlotOf(q)].resp = q
        BY <3>1 DEF LedgerInv, Ownership, Taken
      <3>4. ledger[SlotOf(q)].status = "completed" =>
              ledger[SlotOf(q)].resp = q /\ Active(q)
        BY <3>3 DEF Active, ActivePC
      <3>5. ledger'[SlotOf(q)] = ledger[SlotOf(q)]
        BY <1>2, <1>4, <2>2, <3>2, <3>3, <3>4
      <3> QED
        BY <3>1, <3>3, <3>5
    <2> QED
      BY <2>1, <2>2
  <1>9. ExclusiveHolding'
    BY <1>1, <1>6 DEF LedgerInv, ExclusiveHolding, SameCommand
  <1>10. Provenance'
    <2> SUFFICES ASSUME NEW x \in Slot, ledger'[x] # NoRow,
                        ledger'[x].status = "completed"
                 PROVE  /\ ledger'[x].resp \in applied
                        /\ SlotOf(ledger'[x].resp) = x
                        /\ ledger'[x].key = id[ledger'[x].resp].key
                        /\ ~id[ledger'[x].resp].upload
      BY DEF Provenance, HasStatus, Taken, SlotOf
    <2>1. ledger'[x] = Written(r)[x]
      BY <1>4
    <2>2. CASE x = SlotOf(r)
      BY <1>1, <1>3, <2>1, <2>2
    <2>3. CASE x # SlotOf(r)
      BY <1>3, <2>1, <2>3 DEF LedgerInv, Provenance, HasStatus, Taken
    <2> QED
      BY <2>2, <2>3
  <1>11. RecordsSuccess'
    <2>1. \A q \in Req \ {r} : Recording(q)' => Recording(q)
      BY MovesOthers
    <2> QED
      BY <1>1, <2>1 DEF LedgerInv, RecordsSuccess
  <1>12. Owed'
    <2> SUFFICES ASSUME NEW q \in applied, q \notin forgotten'
                 PROVE  /\ ledger'[SlotOf(q)] # NoRow
                        /\ ledger'[SlotOf(q)].key = id[q].key
                        /\ \/ Holding(q)' /\ ledger'[SlotOf(q)].status = "inflight"
                           \/ /\ ledger'[SlotOf(q)].status = "completed"
                              /\ ledger'[SlotOf(q)].resp = q
      BY <1>2 DEF Owed, TypeOK, Taken, HasStatus
    <2>1. q \in Req /\ q \notin forgotten
      BY CommitFacts DEF TypeOK
    <2>2. CASE q = r
      BY <1>2, <1>3, <1>4, <2>2
    <2>3. CASE q # r
      <3>1. /\ ledger[SlotOf(q)] # NoRow
            /\ ledger[SlotOf(q)].key = id[q].key
            /\ \/ Holding(q) /\ ledger[SlotOf(q)].status = "inflight"
               \/ /\ ledger[SlotOf(q)].status = "completed"
                  /\ ledger[SlotOf(q)].resp = q
        BY <2>1 DEF LedgerInv, Owed, HasStatus, Taken
      <3>2. SlotOf(q) # SlotOf(r)
        BY <1>1, <1>5, <2>1, <2>3, <3>1
      <3>3. Written(r)[SlotOf(q)] = ledger[SlotOf(q)]
        BY <1>2, <1>3, <2>1, <3>2
      <3>4. ledger'[SlotOf(q)] = ledger[SlotOf(q)]
        BY <1>2, <1>4, <2>1, <3>1, <3>3
      <3> QED
        BY <1>6, <2>1, <2>3, <3>1, <3>4
    <2> QED
      BY <2>2, <2>3
  <1>13. ReplayFaithful'
    BY DEF LedgerInv, ReplayFaithful, SameCommand
  <1> QED
    BY <1>8, <1>9, <1>10, <1>11, <1>12, <1>13 DEF LedgerInv

\* A release deletes the releaser's own inflight row and nobody else's.
LEMMA ReleaseStep ==
  ASSUME TypeOK, LedgerInv, NEW r \in Req, Release(r)
  PROVE  LedgerInv'
  <1>1. Moves(r, "done")
    BY MovesFacts DEF Release, PC
  <1>2. /\ Holding(r) /\ pc[r] = "release" /\ ~Holding(r)' /\ ~Recording(r)'
        /\ UNCHANGED <<id, reply, applied>>
    BY <1>1 DEF Release, Moves, Holding, Active, ActivePC, Recording
  <1>3. \A q \in Req : SlotOf(q)' = SlotOf(q) /\ SlotOf(q) \in Slot
    BY <1>2, SlotFacts DEF SlotOf
  <1>4. \A x \in Slot : \/ ledger'[x] = ledger[x]
                        \/ /\ ledger'[x] = NoRow
                           /\ x \in ReleasedSlots(r)
                           /\ HasStatus(x, "inflight")
    BY <1>3 DEF Release, ReleasedSlots, KeySlots
  <1>5. \A q \in Req \ {r} : /\ Holding(q)' <=> Holding(q)
                             /\ Holding(q) => pc'[q] = pc[q]
    BY <1>1, MovesOthers
  <1>6. ASSUME NEW q \in Req \ {r}, Holding(q)
        PROVE  SlotOf(q) \notin ReleasedSlots(r)
    <2>1. /\ ledger[SlotOf(q)].key = id[q].key
          /\ ~SameCommand(q, r)
      BY <1>2, <1>6 DEF LedgerInv, Ownership, ExclusiveHolding
    <2>2. SlotOf(q) # SlotOf(r)
      BY <2>1, SlotFacts DEF SameCommand
    <2>3. SlotOf(q) \notin KeySlots(r)
      BY <2>1, SlotFacts DEF SameCommand, KeySlots
    <2> QED
      BY <2>2, <2>3 DEF ReleasedSlots
  <1>7. Ownership'
    <2> SUFFICES ASSUME NEW q \in Req, Holding(q)'
                 PROVE  /\ ledger'[SlotOf(q)] # NoRow
                        /\ ledger'[SlotOf(q)].key = id[q].key
                        /\ \/ ledger'[SlotOf(q)].status = "inflight"
                           \/ pc'[q] \in {"retry", "release"} /\ ledger'[SlotOf(q)].resp = q
      BY <1>2, <1>3 DEF Ownership, Taken
    <2>1. q \in Req \ {r} /\ Holding(q) /\ pc'[q] = pc[q]
      BY <1>2, <1>5
    <2>2. ledger'[SlotOf(q)] = ledger[SlotOf(q)]
      BY <1>3, <1>4, <1>6, <2>1
    <2> QED
      BY <2>1, <2>2 DEF LedgerInv, Ownership, Taken
  <1>8. ExclusiveHolding'
    BY <1>2, <1>5 DEF LedgerInv, ExclusiveHolding, SameCommand
  <1>9. Provenance'
    BY <1>2, <1>4 DEF LedgerInv, Provenance, HasStatus, Taken, SlotOf
  <1>10. RecordsSuccess'
    BY <1>1, <1>2, MovesOthers DEF LedgerInv, RecordsSuccess
  <1>11. Owed'
    <2> SUFFICES ASSUME NEW q \in applied, q \notin forgotten'
                 PROVE  /\ ledger'[SlotOf(q)] # NoRow
                        /\ ledger'[SlotOf(q)].key = id[q].key
                        /\ \/ Holding(q)' /\ ledger'[SlotOf(q)].status = "inflight"
                           \/ /\ ledger'[SlotOf(q)].status = "completed"
                              /\ ledger'[SlotOf(q)].resp = q
      BY <1>2, <1>3 DEF Owed, TypeOK, Taken, HasStatus
    <2>1. q \in Req /\ q \notin forgotten /\ (q = r => Durable(r))
      BY DEF TypeOK, Release
    <2>2. /\ ledger[SlotOf(q)] # NoRow
          /\ ledger[SlotOf(q)].key = id[q].key
          /\ \/ Holding(q) /\ ledger[SlotOf(q)].status = "inflight"
             \/ /\ ledger[SlotOf(q)].status = "completed"
                /\ ledger[SlotOf(q)].resp = q
      BY <2>1 DEF LedgerInv, Owed, HasStatus, Taken
    <2>3. CASE q = r
      <3>1. HasStatus(SlotOf(r), "completed")
        BY <2>1, <2>3 DEF Durable, LedgerInv, Provenance
      <3>2. ledger'[SlotOf(r)] = ledger[SlotOf(r)]
        BY <1>3, <1>4, <3>1 DEF HasStatus
      <3> QED
        BY <2>2, <2>3, <3>1, <3>2 DEF HasStatus
    <2>4. CASE q # r
      <3>1. ledger'[SlotOf(q)] = ledger[SlotOf(q)]
        BY <1>3, <1>4, <1>6, <2>1, <2>2, <2>4 DEF HasStatus
      <3> QED
        BY <1>5, <2>1, <2>2, <2>4, <3>1
    <2> QED
      BY <2>3, <2>4
  <1>12. ReplayFaithful'
    BY <1>2 DEF LedgerInv, ReplayFaithful, SameCommand
  <1> QED
    BY <1>7, <1>8, <1>9, <1>10, <1>11, <1>12 DEF LedgerInv

\* A refused release of a row that is completed leaves nothing behind: the
\* record had been committed, and the success stays owed.
LEMMA KeptStep ==
  ASSUME TypeOK, LedgerInv, NEW r \in Req, ReleaseFault(r),
         ~HasStatus(SlotOf(r), "inflight")
  PROVE  LedgerInv'
  <1>1. GoAndNotify(r, "done") /\ "done" \in PC
    BY DEF ReleaseFault, PC
  <1>2. Moves(r, "done")
    BY <1>1, MovesFacts
  <1>3. /\ Holding(r) /\ ~Holding(r)' /\ ~Recording(r)'
        /\ UNCHANGED <<ledger, id, reply, applied, forgotten>>
    BY <1>2 DEF ReleaseFault, Moves, Holding, Active, ActivePC, Recording
  <1>4. \A q \in Req \ {r} : /\ Holding(q)' <=> Holding(q)
                             /\ Holding(q) => pc'[q] = pc[q]
    BY <1>2, MovesOthers
  <1>5. \A q \in Req : SlotOf(q)' = SlotOf(q)
    BY <1>3 DEF SlotOf
  <1>6. ledger[SlotOf(r)].status # "inflight"
    BY <1>3 DEF LedgerInv, Ownership, HasStatus
  <1>7. Ownership'
    BY <1>3, <1>4, <1>5 DEF LedgerInv, Ownership, Taken
  <1>8. ExclusiveHolding'
    BY <1>3, <1>4 DEF LedgerInv, ExclusiveHolding, SameCommand
  <1>9. Provenance'
    BY <1>3 DEF LedgerInv, Provenance, HasStatus, Taken, SlotOf
  <1>10. RecordsSuccess'
    BY <1>2, <1>3, MovesOthers DEF LedgerInv, RecordsSuccess
  <1>11. Owed'
    BY <1>3, <1>4, <1>5, <1>6 DEF LedgerInv, Owed, HasStatus, Taken, TypeOK
  <1>12. ReplayFaithful'
    BY <1>3 DEF LedgerInv, ReplayFaithful, SameCommand
  <1> QED
    BY <1>7, <1>8, <1>9, <1>10, <1>11, <1>12 DEF LedgerInv

\* A replayed response comes from a row with the request's own command id or
\* key, hence from a success of the same command.
LEMMA ReplayStep ==
  ASSUME TypeOK, LedgerInv, NEW r \in Req, CheckReplay(r)
  PROVE  LedgerInv'
  <1>1. Moves(r, "done")
    BY MovesFacts DEF CheckReplay, PC
  <1>2. /\ ~Holding(r)
        /\ UNCHANGED <<ledger, id, applied, forgotten>>
    BY DEF CheckReplay, Holding, Active, ActivePC
  <1>3. Ownership' /\ ExclusiveHolding' /\ Provenance' /\ RecordsSuccess' /\ Owed'
    BY <1>1, <1>2, FrameStep
  <1>4. PICK x \in Hits(r) : /\ HasStatus(x, "completed")
                            /\ reply' = [reply EXCEPT ![r] = ledger[x].resp]
    BY DEF CheckReplay
  <1> DEFINE q == ledger[x].resp
  <1>5. x \in Slot /\ (x = SlotOf(r) \/ x \in KeySlots(r))
    BY <1>4, SlotFacts DEF Hits, KeySlots
  <1>6. q \in applied /\ q \in Req /\ ~id[q].upload /\ SlotOf(q) = x
        /\ ledger[x].key = id[q].key
    BY <1>4, <1>5 DEF LedgerInv, Provenance, TypeOK
  <1>7. SameCommand(q, r)
    <2>1. CASE x = SlotOf(r)
      BY <1>6, <2>1, SlotFacts DEF SameCommand
    <2>2. CASE x \in KeySlots(r)
      BY <1>6, <2>2, SlotFacts DEF SameCommand, KeySlots
    <2> QED
      BY <1>5, <2>1, <2>2
  <1>8. ReplayFaithful'
    <2> SUFFICES ASSUME NEW p \in Req, reply'[p] \notin {NoReq, Error, p}
                 PROVE  /\ reply'[p] \in applied
                        /\ ~id[reply'[p]].upload
                        /\ SameCommand(reply'[p], p)
      BY <1>2 DEF ReplayFaithful, SameCommand
    <2>1. CASE p = r
      BY <1>4, <1>6, <1>7, <2>1 DEF TypeOK
    <2>2. CASE p # r
      <3>1. reply'[p] = reply[p]
        BY <1>4, <2>2 DEF TypeOK
      <3> QED
        BY <3>1 DEF LedgerInv, ReplayFaithful
    <2> QED
      BY <2>1, <2>2
  <1> QED
    BY <1>3, <1>8 DEF LedgerInv

\* The waiting steps and a failed check touch neither rows nor holders.
LEMMA WaitStep ==
  ASSUME TypeOK, LedgerInv, NEW r \in Req,
         \/ Call(r) \/ CheckInFlight(r) \/ CheckFault(r)
         \/ HoldNotify(r) \/ Listen(r) \/ PollTimeout(r)
  PROVE  LedgerInv'
  <1>1. PICK label \in {"check", "seen", "held", "armed", "done"} : Moves(r, label)
    <2> USE DEF PC, WaitPC
    <2>1. CASE Call(r)
      BY <2>1, MovesFacts DEF Call
    <2>2. CASE CheckInFlight(r)
      BY <2>2, MovesFacts DEF CheckInFlight
    <2>3. CASE CheckFault(r)
      BY <2>3, MovesFacts DEF CheckFault
    <2>4. CASE HoldNotify(r)
      BY <2>4, MovesFacts DEF HoldNotify
    <2>5. CASE Listen(r)
      BY <2>5, MovesFacts DEF Listen
    <2>6. CASE PollTimeout(r)
      BY <2>6, MovesFacts DEF PollTimeout
    <2> QED
      BY <2>1, <2>2, <2>3, <2>4, <2>5, <2>6
  <1>2. /\ ~Holding(r)
        /\ UNCHANGED <<ledger, id, applied, forgotten>>
        /\ reply' = reply \/ reply' = [reply EXCEPT ![r] = Error]
    BY DEF Call, CheckInFlight, CheckFault, HoldNotify, Listen, PollTimeout,
           Holding, Active, ActivePC
  <1>3. Ownership' /\ ExclusiveHolding' /\ Provenance' /\ RecordsSuccess' /\ Owed'
    BY <1>1, <1>2, FrameStep
  <1>4. \A q \in Req : reply'[q] # Error => reply'[q] = reply[q]
    BY <1>2 DEF TypeOK
  <1>5. ReplayFaithful'
    BY <1>2, <1>4 DEF LedgerInv, ReplayFaithful, SameCommand
  <1> QED
    BY <1>3, <1>5 DEF LedgerInv

\* After a restart nothing is held, and what was remembered is durable.
LEMMA CrashStep ==
  ASSUME TypeOK, LedgerInv, CrashRestart
  PROVE  LedgerInv'
  <1>1. /\ UNCHANGED <<id, reply, applied>>
        /\ forgotten' = forgotten \union {r \in applied : ~Durable(r)}
        /\ \A x \in Slot : \/ ledger'[x] = ledger[x] /\ ~HasStatus(x, "inflight")
                           \/ ledger'[x] = NoRow /\ HasStatus(x, "inflight")
    BY DEF CrashRestart, TypeOK
  <1>2. \A q \in Req : SlotOf(q)' = SlotOf(q) /\ SlotOf(q) \in Slot
    BY <1>1, SlotFacts DEF SlotOf
  <1>3. \A q \in Req : ~Holding(q)' /\ ~Recording(q)'
    BY DEF CrashRestart, Holding, Active, ActivePC, Recording
  <1>4. Ownership' /\ ExclusiveHolding' /\ RecordsSuccess'
    BY <1>3 DEF Ownership, ExclusiveHolding, RecordsSuccess
  <1>5. Provenance'
    BY <1>1 DEF LedgerInv, Provenance, HasStatus, Taken, SlotOf
  <1>6. Owed'
    <2> SUFFICES ASSUME NEW q \in applied, q \notin forgotten, Durable(q)
                 PROVE  /\ ledger'[SlotOf(q)] # NoRow
                        /\ ledger'[SlotOf(q)].key = id[q].key
                        /\ ledger'[SlotOf(q)].status = "completed"
                        /\ ledger'[SlotOf(q)].resp = q
      BY <1>1, <1>2 DEF Owed, TypeOK, Taken, HasStatus
    <2>1. PICK x \in Slot : HasStatus(x, "completed") /\ ledger[x].resp = q
      BY DEF Durable
    <2>2. x = SlotOf(q) /\ ledger[x].key = id[q].key
      BY <2>1 DEF LedgerInv, Provenance
    <2> QED
      BY <1>1, <2>1, <2>2 DEF HasStatus, Taken
  <1>7. ReplayFaithful'
    BY <1>1 DEF LedgerInv, ReplayFaithful, SameCommand
  <1> QED
    BY <1>4, <1>5, <1>6, <1>7 DEF LedgerInv

\* Every step preserves the inductive invariant.
LEMMA InvStep == TypeOK /\ LedgerInv /\ [Next]_vars => LedgerInv'
  <1> SUFFICES ASSUME TypeOK, LedgerInv, [Next]_vars PROVE LedgerInv'
    OBVIOUS
  <1>1. ASSUME NEW r \in Req, Call(r) \/ Progress(r) \/ Fault(r)
        PROVE  LedgerInv'
    <2>1. CASE \/ Call(r) \/ CheckInFlight(r) \/ CheckFault(r)
               \/ HoldNotify(r) \/ Listen(r) \/ PollTimeout(r)
      BY <2>1, WaitStep
    <2>2. CASE CheckReplay(r)
      BY <2>2, ReplayStep
    <2>3. CASE CheckReserve(r)
      BY <2>3, ReserveStep
    <2>4. CASE \/ DispatchOk(r) \/ DispatchRejected(r) \/ RecordRefused(r)
               \/ RecordFault(r) \/ ReleaseFault(r)
      BY <2>4, DispatchStep, KeptStep
    <2>5. CASE RecordOk(r)
      <3>1. Moves(r, "done")
        BY <2>5, MovesFacts DEF RecordOk, PC
      <3> QED
        BY <2>5, <3>1, CommitKinds, CommitStep DEF RecordOk
    <2>6. CASE RecordLateFault(r)
      <3>1. Moves(r, AfterFault(r))
        BY <2>6, LateFaultFacts, MovesFacts
      <3> QED
        BY <2>6, <3>1, LateFaultFacts, CommitStep
    <2>7. CASE Release(r)
      BY <2>7, ReleaseStep
    <2> QED
      BY <1>1, <2>1, <2>2, <2>3, <2>4, <2>5, <2>6, <2>7
      DEF Progress, Fault, Check, Wait, Dispatch, Persist
  <1>2. CASE CrashRestart
    BY <1>2, CrashStep
  <1>3. CASE UNCHANGED vars
    BY <1>3 DEF vars, LedgerInv, Ownership, ExclusiveHolding, Provenance,
       RecordsSuccess, Owed, ReplayFaithful, Holding, Active, Recording, Taken,
       HasStatus, SlotOf, SameCommand
  <1> QED
    BY <1>1, <1>2, <1>3 DEF Next

\* Rows, holders, remembered successes and replayed responses agree with each
\* other in every reachable state.
THEOREM LedgerCorrect == Spec => []LedgerInv
  <1>1. Init => LedgerInv
    BY DEF Init, LedgerInv, Ownership, ExclusiveHolding, Provenance,
       RecordsSuccess, Owed, ReplayFaithful, Holding, Active, ActivePC,
       Recording, Taken, HasStatus, SlotOf, Slot
  <1> QED
    BY <1>1, InvStep, TypeCorrect, PTL DEF Spec

\* No step leaves an inflight row behind without its executor: rows appear by
\* a reservation only, and a holder lets go only of a row that is completed,
\* or that it deletes.
LEMMA ExecutorStep ==
  ASSUME TypeOK, LedgerInv, InflightHasExecutor, [Next]_vars
  PROVE  InflightHasExecutor'
  <1> SUFFICES ASSUME NEW x \in Slot, ledger'[x] # NoRow,
                      ledger'[x].status = "inflight"
               PROVE  \E q \in Req : Holding(q)' /\ SlotOf(q)' = x
    BY DEF InflightHasExecutor, Holding, HasStatus, Taken
  <1>1. id' = id /\ \A q \in Req : SlotOf(q)' = SlotOf(q)
    BY DEF Next, Progress, Fault, Check, Wait, Dispatch, Persist, vars, Call,
       CheckReplay, CheckInFlight, CheckReserve, CheckFault, HoldNotify, Listen,
       PollTimeout, DispatchOk, DispatchRejected, RecordOk, RecordRefused,
       RecordFault, RecordLateFault, Release, ReleaseFault, CrashRestart, SlotOf
  <1> DEFINE Held == \E q \in Req : Holding(q) /\ SlotOf(q) = x
  <1>2. ledger[x] # NoRow /\ ledger[x].status = "inflight" => Held
    BY DEF InflightHasExecutor, Holding, HasStatus, Taken
  <1>3. ASSUME NEW r \in Req, NEW label \in PC, Moves(r, label), Held,
               \/ label \in ActivePC \union {"leaked"}
               \/ ~Holding(r)
               \/ SlotOf(r) # x
        PROVE  \E q \in Req : Holding(q)' /\ SlotOf(q)' = x
    <2>1. PICK q \in Req : Holding(q) /\ SlotOf(q) = x
      BY <1>3
    <2>2. CASE q # r
      BY <1>1, <1>3, <2>1, <2>2, MovesOthers
    <2>3. CASE q = r
      BY <1>1, <1>3, <2>1, <2>3 DEF Moves, Holding, Active
    <2> QED
      BY <2>2, <2>3
  <1>4. ASSUME NEW r \in Req, Call(r) \/ CheckReplay(r) \/ CheckInFlight(r)
               \/ CheckFault(r) \/ HoldNotify(r) \/ Listen(r) \/ PollTimeout(r)
        PROVE  \E q \in Req : Holding(q)' /\ SlotOf(q)' = x
    <2>1. PICK label \in PC : Moves(r, label)
      BY <1>4, MovesFacts DEF Call, CheckReplay, CheckInFlight, CheckFault,
         HoldNotify, Listen, PollTimeout, PC, WaitPC
    <2>2. ~Holding(r) /\ ledger' = ledger
      BY <1>4 DEF Call, CheckReplay, CheckInFlight, CheckFault, HoldNotify,
         Listen, PollTimeout, Holding, Active, ActivePC
    <2> QED
      BY <1>2, <1>3, <2>1, <2>2
  <1>5. ASSUME NEW r \in Req, CheckReserve(r)
        PROVE  \E q \in Req : Holding(q)' /\ SlotOf(q)' = x
    <2>1. Moves(r, "dispatch") /\ "dispatch" \in PC /\ "dispatch" \in ActivePC
      BY <1>5, MovesFacts DEF CheckReserve, PC, ActivePC
    <2>2. CASE x = SlotOf(r)
      BY <1>1, <2>1, <2>2 DEF Moves, Holding, Active
    <2>3. CASE x # SlotOf(r)
      BY <1>2, <1>3, <1>5, <2>1, <2>3 DEF CheckReserve, TypeOK
    <2> QED
      BY <2>2, <2>3
  <1>6. ASSUME NEW r \in Req, DispatchOk(r) \/ DispatchRejected(r)
               \/ RecordRefused(r) \/ RecordFault(r) \/ ReleaseFault(r)
        PROVE  \E q \in Req : Holding(q)' /\ SlotOf(q)' = x
    <2>1. ledger' = ledger
      BY <1>6 DEF DispatchOk, DispatchRejected, RecordRefused, RecordFault, ReleaseFault
    <2>2. CASE ReleaseFault(r)
      <3> DEFINE label == IF HasStatus(SlotOf(r), "inflight") THEN "leaked" ELSE "done"
      <3>1. GoAndNotify(r, label) /\ label \in PC
        BY <2>2 DEF ReleaseFault, PC
      <3>2. Moves(r, label)
        BY <3>1, MovesFacts
      <3>3. label = "leaked" \/ SlotOf(r) # x
        BY <2>1 DEF HasStatus, Taken
      <3> QED
        BY <1>2, <1>3, <2>1, <3>1, <3>2, <3>3
    <2>3. CASE ~ReleaseFault(r)
      <3>1. PICK label \in ActivePC : label \in PC /\ Moves(r, label)
        BY <1>6, <2>3, MovesFacts DEF DispatchOk, DispatchRejected, RecordRefused,
           RecordFault, AfterFault, PC, ActivePC
      <3> QED
        BY <1>2, <1>3, <2>1, <3>1
    <2> QED
      BY <2>2, <2>3
  <1>7. ASSUME NEW r \in Req, RecordOk(r) \/ RecordLateFault(r)
        PROVE  \E q \in Req : Holding(q)' /\ SlotOf(q)' = x
    <2>1. Commits(r)
      BY <1>7, CommitKinds, LateFaultFacts DEF RecordOk
    <2>2. ledger'[x] = Written(r)[x] /\ x # SlotOf(r)
      BY <2>1, CommitFacts, WrittenType
    <2>3. ledger'[x] = ledger[x]
      BY <2>2, WrittenType
    <2>4. PICK label \in PC : Moves(r, label)
      BY <1>7, LateFaultFacts, MovesFacts DEF RecordOk, PC
    <2> QED
      BY <1>2, <1>3, <2>2, <2>3, <2>4
  <1>8. ASSUME NEW r \in Req, Release(r)
        PROVE  \E q \in Req : Holding(q)' /\ SlotOf(q)' = x
    <2>1. Moves(r, "done") /\ "done" \in PC
      BY <1>8, MovesFacts DEF Release, PC
    <2>2. x \notin ReleasedSlots(r) /\ ledger'[x] = ledger[x]
      BY <1>8 DEF Release
    <2>3. x # SlotOf(r)
      BY <2>2 DEF ReleasedSlots, HasStatus, Taken
    <2> QED
      BY <1>2, <1>3, <2>1, <2>2, <2>3
  <1>9. ~CrashRestart
    BY DEF CrashRestart, HasStatus, Taken
  <1>10. CASE UNCHANGED vars
    BY <1>1, <1>2, <1>10 DEF vars, Holding, Active
  <1> QED
    BY <1>4, <1>5, <1>6, <1>7, <1>8, <1>9, <1>10
    DEF Next, Progress, Fault, Check, Wait, Dispatch, Persist

-----------------------------------------------------------------------------
(* What the clients may rely on                                            *)

\* No inflight row is orphaned: a live call will complete or delete it, or the
\* database refused to delete exactly that row.
THEOREM ExecutorCorrect == Spec => []InflightHasExecutor
  <1>1. Init => InflightHasExecutor
    BY DEF Init, InflightHasExecutor, HasStatus, Taken, Slot
  <1> QED
    BY <1>1, ExecutorStep, TypeCorrect, LedgerCorrect, PTL DEF Spec

\* No two calls with one command id or one key execute together.
THEOREM ExclusiveCorrect == Spec => []ExclusiveExecution
  <1>1. LedgerInv => ExclusiveExecution
    BY DEF LedgerInv, ExclusiveHolding, ExclusiveExecution, Holding
  <1> QED
    BY <1>1, LedgerCorrect, PTL

\* A response that is replayed was computed by a success of the same command.
THEOREM ReplayCorrect == Spec => []ReplayFaithful
  <1>1. LedgerInv => ReplayFaithful
    BY DEF LedgerInv
  <1> QED
    BY <1>1, LedgerCorrect, PTL

\* A reservation is the only way into the dispatch of a command.
LEMMA OnlyReserveDispatches ==
  ASSUME TypeOK, NEW p \in Req, Call(p) \/ Progress(p) \/ Fault(p)
  PROVE  CheckReserve(p) \/ \E label \in PC \ {"dispatch"} : Moves(p, label)
  <1> USE DEF PC, WaitPC, ActivePC
  <1>1. CASE \/ Call(p) \/ CheckReplay(p) \/ CheckInFlight(p) \/ CheckFault(p)
             \/ HoldNotify(p) \/ Listen(p) \/ PollTimeout(p)
    BY <1>1, MovesFacts DEF Call, CheckReplay, CheckInFlight, CheckFault,
                            HoldNotify, Listen, PollTimeout
  <1>2. CASE DispatchOk(p) \/ DispatchRejected(p)
    BY <1>2, MovesFacts DEF DispatchOk, DispatchRejected
  <1>3. CASE RecordOk(p) \/ RecordRefused(p) \/ Release(p) \/ ReleaseFault(p)
    BY <1>3, MovesFacts DEF RecordOk, RecordRefused, Release, ReleaseFault
  <1>4. CASE RecordFault(p) \/ RecordLateFault(p)
    BY <1>4, LateFaultFacts, MovesFacts DEF RecordFault, AfterFault
  <1> QED
    BY <1>1, <1>2, <1>3, <1>4 DEF Progress, Fault, Check, Wait, Dispatch, Persist

\* A command that succeeded is executed again only after the ledger has
\* legitimately forgotten it.
THEOREM AtMostOnceCorrect == Spec => AtMostOnce
  <1> DEFINE Once == \A r \in Req : pc[r] = "check" /\ pc'[r] = "dispatch" =>
                       \A q \in applied \ forgotten : ~SameCommand(q, r)
  <1>1. TypeOK /\ LedgerInv /\ [Next]_vars => [Once]_vars
    <2> SUFFICES ASSUME TypeOK, LedgerInv, Next, NEW r \in Req,
                        pc[r] = "check", pc'[r] = "dispatch",
                        NEW q \in applied \ forgotten
                 PROVE  ~SameCommand(q, r)
      BY DEF vars
    <2>1. CheckReserve(r)
      <3>1. PICK p \in Req : Call(p) \/ Progress(p) \/ Fault(p)
        <4>1. ~CrashRestart
          BY DEF CrashRestart
        <4> QED
          BY <4>1 DEF Next
      <3>2. CheckReserve(p) \/ \E label \in PC \ {"dispatch"} : Moves(p, label)
        BY <3>1, OnlyReserveDispatches
      <3>3. CheckReserve(p)
        BY <3>2 DEF Moves
      <3>4. p = r
        BY <3>3 DEF CheckReserve, GoTo, TypeOK
      <3> QED
        BY <3>3, <3>4
    <2>2. Hits(r) = {}
      BY <2>1 DEF CheckReserve
    <2>3. q \in Req /\ Taken(SlotOf(q)) /\ ledger[SlotOf(q)].key = id[q].key
      BY DEF LedgerInv, Owed, TypeOK
    <2> QED
      BY <2>2, <2>3, SlotFacts DEF Hits, KeySlots, SameCommand, SlotOf
  <1> QED
    BY <1>1, TypeCorrect, LedgerCorrect, PTL DEF Spec, AtMostOnce
-----------------------------------------------------------------------------
(* Completed rows                                                          *)

\* A record adds one completed row and evicts nothing unless the capacity was
\* reached before; a complete one evicts down to the capacity.
LEMMA CommitCompleted ==
  ASSUME TypeOK, NEW r \in Req, Commits(r)
  PROVE  /\ CompletedRows(ledger') <= CompletedRows(ledger) + 1
         /\ CommitRecord(r) => CompletedRows(ledger') <= Capacity
         /\ \A x \in Slot : HasStatus(x, "completed") =>
              \/ ledger'[x] = ledger[x]
              \/ ledger'[x] = NoRow /\ CompletedRows(ledger) >= Capacity
  <1> DEFINE Before == CompletedSlots(ledger)
             With   == CompletedSlots(Written(r))
  <1>1. ~HasStatus(SlotOf(r), "completed")
    BY DEF Commits, Commit, Duplicate
  <1>2. With = Before \union {SlotOf(r)} /\ SlotOf(r) \notin Before
    <2>1. SlotOf(r) \in Slot /\ Written(r)[SlotOf(r)] # NoRow
      BY SlotFacts, WrittenType, NoRowAssumption
    <2> QED
      BY <1>1, <2>1, WrittenType DEF CompletedSlots, HasStatus, Taken
  <1>3. /\ IsFiniteSet(Before) /\ Cardinality(Before) \in Nat
        /\ IsFiniteSet(With) /\ Cardinality(With) \in Nat
    BY CompletedFinite
  <1>4. Cardinality(With) = Cardinality(Before) + 1
    BY <1>2, <1>3, FS_AddElement
  <1>5. ASSUME NEW gone \in SUBSET With,
               ledger' = [x \in Slot |-> IF x \in gone THEN NoRow ELSE Written(r)[x]]
        PROVE  /\ IsFiniteSet(gone) /\ Cardinality(gone) \in Nat
               /\ CompletedRows(ledger') = Cardinality(With) - Cardinality(gone)
    <2>1. IsFiniteSet(gone) /\ Cardinality(gone) \in Nat
      BY <1>3, FS_Subset, FS_CardinalityType
    <2>2. CompletedSlots(ledger') = With \ gone
      BY <1>5 DEF CompletedSlots
    <2>3. With \cap gone = gone
      OBVIOUS
    <2>4. Cardinality(With \ gone) = Cardinality(With) - Cardinality(gone)
      BY <1>3, <2>1, <2>3, FS_Difference
    <2> QED
      BY <2>1, <2>2, <2>4 DEF CompletedRows
  <1>6. PICK gone \in Evictions(r) :
           ledger' = [x \in Slot |-> IF x \in gone THEN NoRow ELSE Written(r)[x]]
    BY DEF Commits, Commit
  <1>7. gone \in SUBSET With /\ (gone # {} => Cardinality(gone) = Cardinality(With) - Capacity)
    BY DEF Evictions, Evictable
  <1>8. CompletedRows(ledger') <= CompletedRows(ledger) + 1
    BY <1>3, <1>4, <1>5, <1>6, <1>7 DEF CompletedRows
  <1>9. ASSUME CommitRecord(r) PROVE CompletedRows(ledger') <= Capacity
    <2>1. PICK v \in Victims(r) :
             ledger' = [x \in Slot |-> IF x \in v THEN NoRow ELSE Written(r)[x]]
      BY <1>9 DEF CommitRecord, Commit
    <2>2. /\ v \in SUBSET With
          /\ Cardinality(v) =
               IF Cardinality(With) > Capacity THEN Cardinality(With) - Capacity ELSE 0
      BY DEF Victims, Evictable, CompletedRows
    <2> QED
      BY <1>3, <1>5, <2>1, <2>2, CapacityAssumption
  <1>10. ASSUME NEW x \in Slot, HasStatus(x, "completed"), ledger'[x] # ledger[x]
         PROVE  ledger'[x] = NoRow /\ CompletedRows(ledger) >= Capacity
    <2>1. x # SlotOf(r) /\ Written(r)[x] = ledger[x]
      BY <1>1, <1>10, WrittenType
    <2>2. x \in gone /\ ledger'[x] = NoRow
      BY <1>6, <1>10, <2>1
    <2>3. Cardinality(gone) # 0 /\ Cardinality(gone) \in Nat
      BY <1>5, <1>6, <1>7, <2>2, FS_EmptySet
    <2>4. Cardinality(Before) >= Capacity
      BY <1>3, <1>4, <1>7, <2>2, <2>3, CapacityAssumption
    <2> QED
      BY <2>2, <2>4 DEF CompletedRows
  <1> QED
    BY <1>8, <1>9, <1>10

\* What a step may do to completed rows.
Final ==
  /\ \A x \in Slot : HasStatus(x, "completed") =>
       \/ ledger'[x] = ledger[x]
       \/ /\ ledger'[x] = NoRow
          /\ CompletedRows(ledger) >= Capacity
          /\ \E r \in Req : Recording(r) /\ pc'[r] # pc[r]
  /\ \A r \in Req : Recording(r) /\ pc'[r] = "done" => CompletedRows(ledger') <= Capacity
  /\ CompletedRows(ledger') > Capacity =>
       \/ CompletedRows(ledger') <= CompletedRows(ledger)
       \/ late' = late + 1 /\ CompletedRows(ledger') = CompletedRows(ledger) + 1

LEMMA CompletedStep ==
  ASSUME TypeOK, [Next]_vars
  PROVE  Final
  <1> USE DEF PC, ActivePC, WaitPC
  <1>0. CompletedRows(ledger) \in Nat /\ CompletedRows(ledger') \in Nat /\ Capacity \in Nat
    BY CompletedFinite, CapacityAssumption DEF CompletedRows
  \* Steps that complete no row, change none and end no recording.
  <1>1. ASSUME \A r \in Req : Recording(r) => pc'[r] # "done",
               \A x \in Slot : /\ HasStatus(x, "completed") => ledger'[x] = ledger[x]
                               /\ ledger'[x] # NoRow /\ ledger'[x].status = "completed"
                                    => HasStatus(x, "completed")
        PROVE  Final
    <2>1. CompletedSlots(ledger') = CompletedSlots(ledger)
      BY <1>1 DEF CompletedSlots, HasStatus, Taken
    <2> QED
      BY <1>0, <1>1, <2>1 DEF Final, CompletedRows
  <1>2. ASSUME NEW r \in Req, NEW label \in PC, Moves(r, label), label = "done" => ~Recording(r)
        PROVE  \A q \in Req : Recording(q) => pc'[q] # "done"
    BY <1>2 DEF Moves, Recording
  <1>3. ASSUME NEW r \in Req, RecordOk(r)
        PROVE  Final
    <2>1. Recording(r) /\ CommitRecord(r) /\ Moves(r, "done")
      BY <1>3, MovesFacts DEF RecordOk
    <2>2. CompletedRows(ledger') <= Capacity
      BY <2>1, CommitKinds, CommitCompleted
    <2>3. \A x \in Slot : HasStatus(x, "completed") =>
            \/ ledger'[x] = ledger[x]
            \/ ledger'[x] = NoRow /\ CompletedRows(ledger) >= Capacity
      BY <2>1, CommitKinds, CommitCompleted
    <2>4. pc'[r] # pc[r]
      BY <2>1 DEF Moves, Recording
    <2> QED
      BY <1>0, <2>1, <2>2, <2>3, <2>4 DEF Final
  <1>4. ASSUME NEW r \in Req, RecordLateFault(r)
        PROVE  Final
    <2>1. Recording(r) /\ Commits(r) /\ Moves(r, AfterFault(r)) /\ AfterFault(r) \in {"retry", "release"}
      BY <1>4, LateFaultFacts, MovesFacts
    <2>2. pc'[r] # pc[r] /\ \A q \in Req : Recording(q) => pc'[q] # "done"
      BY <2>1 DEF Moves, Recording, AfterFault
    <2>3. late' = late + 1
      BY <1>4 DEF RecordLateFault
    <2>4. /\ CompletedRows(ledger') <= CompletedRows(ledger) + 1
          /\ \A x \in Slot : HasStatus(x, "completed") =>
               \/ ledger'[x] = ledger[x]
               \/ ledger'[x] = NoRow /\ CompletedRows(ledger) >= Capacity
      BY <2>1, CommitCompleted
    <2> QED
      BY <1>0, <2>1, <2>2, <2>3, <2>4 DEF Final
  <1>5. ASSUME NEW r \in Req, CheckReserve(r)
        PROVE  Final
    <2>1. ~Taken(SlotOf(r)) /\ SlotOf(r) \in Slot
      BY <1>5, SlotFacts DEF CheckReserve, Hits
    <2>2. /\ ledger'[SlotOf(r)].status = "inflight"
          /\ \A x \in Slot \ {SlotOf(r)} : ledger'[x] = ledger[x]
      BY <1>5, <2>1 DEF CheckReserve, TypeOK
    <2>3. Moves(r, "dispatch")
      BY <1>5, MovesFacts DEF CheckReserve
    <2>4. \A q \in Req : Recording(q) => pc'[q] # "done"
      BY <1>2, <2>3
    <2>5. \A x \in Slot : /\ HasStatus(x, "completed") => ledger'[x] = ledger[x]
                          /\ ledger'[x] # NoRow /\ ledger'[x].status = "completed"
                               => HasStatus(x, "completed")
      BY <2>1, <2>2 DEF HasStatus, Taken
    <2> QED
      BY <1>1, <2>4, <2>5
  <1>6. ASSUME NEW r \in Req, Release(r)
        PROVE  Final
    <2>1. \A x \in ReleasedSlots(r) : HasStatus(x, "inflight")
      BY DEF ReleasedSlots
    <2>2. \A x \in Slot : ledger'[x] = IF x \in ReleasedSlots(r) THEN NoRow ELSE ledger[x]
      BY <1>6 DEF Release
    <2>3. Moves(r, "done") /\ ~Recording(r)
      BY <1>6, MovesFacts DEF Release, Recording
    <2>4. \A q \in Req : Recording(q) => pc'[q] # "done"
      BY <1>2, <2>3
    <2>5. \A x \in Slot : /\ HasStatus(x, "completed") => ledger'[x] = ledger[x]
                          /\ ledger'[x] # NoRow /\ ledger'[x].status = "completed"
                               => HasStatus(x, "completed")
      BY <2>1, <2>2 DEF HasStatus, Taken
    <2> QED
      BY <1>1, <2>4, <2>5
  <1>7. CASE CrashRestart
    <2>1. \A x \in Slot : ledger'[x] = IF HasStatus(x, "inflight") THEN NoRow ELSE ledger[x]
      BY <1>7 DEF CrashRestart
    <2>2. \A q \in Req : Recording(q) => pc'[q] # "done"
      BY <1>7 DEF CrashRestart, Recording
    <2>3. \A x \in Slot : /\ HasStatus(x, "completed") => ledger'[x] = ledger[x]
                          /\ ledger'[x] # NoRow /\ ledger'[x].status = "completed"
                               => HasStatus(x, "completed")
      BY <2>1 DEF HasStatus, Taken
    <2> QED
      BY <1>1, <2>2, <2>3
  \* The ledger stays as it is.
  <1>8. ASSUME ledger' = ledger, \A q \in Req : Recording(q) => pc'[q] # "done"
        PROVE  Final
    BY <1>1, <1>8 DEF HasStatus, Taken
  <1>9. ASSUME NEW r \in Req, Call(r) \/ CheckReplay(r) \/ CheckInFlight(r) \/ CheckFault(r)
               \/ HoldNotify(r) \/ Listen(r) \/ PollTimeout(r) \/ DispatchOk(r)
               \/ DispatchRejected(r)
        PROVE  Final
    <2>1. PICK label \in PC : Moves(r, label)
      BY <1>9, MovesFacts DEF Call, CheckReplay, CheckInFlight, CheckFault, HoldNotify,
         Listen, PollTimeout, DispatchOk, DispatchRejected
    <2>2. ~Recording(r) /\ ledger' = ledger
      BY <1>9 DEF Call, CheckReplay, CheckInFlight, CheckFault, HoldNotify,
         Listen, PollTimeout, DispatchOk, DispatchRejected, Recording
    <2> QED
      BY <1>2, <1>8, <2>1, <2>2
  <1>10. ASSUME NEW r \in Req, RecordRefused(r) \/ RecordFault(r)
         PROVE  Final
    <2>1. PICK label \in {"retry", "release"} : Moves(r, label)
      BY <1>10, MovesFacts DEF RecordRefused, RecordFault, AfterFault
    <2>2. ledger' = ledger
      BY <1>10 DEF RecordRefused, RecordFault
    <2> QED
      BY <1>2, <1>8, <2>1, <2>2
  <1>11. ASSUME NEW r \in Req, ReleaseFault(r)
         PROVE  Final
    <2> DEFINE label == IF HasStatus(SlotOf(r), "inflight") THEN "leaked" ELSE "done"
    <2>1. GoAndNotify(r, label) /\ label \in PC
      BY <1>11 DEF ReleaseFault
    <2>2. Moves(r, label)
      BY <2>1, MovesFacts
    <2>3. ~Recording(r) /\ ledger' = ledger
      BY <1>11 DEF ReleaseFault, Recording
    <2> HIDE DEF label
    <2> QED
      BY <1>2, <1>8, <2>1, <2>2, <2>3
  <1>12. CASE UNCHANGED vars
    BY <1>8, <1>12 DEF vars, Recording
  <1> QED
    BY <1>3, <1>4, <1>5, <1>6, <1>7, <1>9, <1>10, <1>11, <1>12
    DEF Next, Progress, Fault, Check, Wait, Dispatch, Persist

\* A completed row keeps its response until a record past the capacity evicts
\* it; only an eviction that fails adds to the surplus, and the next record that
\* succeeds removes it (record_completed, evict_completed).
THEOREM CompletedCorrect == Spec => CompletedIsFinal
  <1>1. TypeOK /\ [Next]_vars => [Final]_vars
    BY CompletedStep
  <1>2. [][Final]_vars => CompletedIsFinal
    BY PTL DEF CompletedIsFinal, Final
  <1> QED
    BY <1>1, <1>2, TypeCorrect, PTL DEF Spec

-----------------------------------------------------------------------------
(* The abstract service                                                    *)

\* A request that has not dispatched has neither answer nor success.
EarlyPC == {"idle", "check", "dispatch"} \union WaitPC

Untouched == \A r \in Req : pc[r] \in EarlyPC => reply[r] = NoReq /\ r \notin applied

\* Only successes are forgotten, and none that has a row or is being recorded.
ForgetsPast ==
  /\ forgotten \subseteq applied
  /\ \A r \in Req : Recording(r) => r \notin forgotten
  /\ \A x \in Slot : HasStatus(x, "completed") => ledger[x].resp \notin forgotten

ServiceInv == Untouched /\ ForgetsPast

Held == {r \in Req : Holding(r)}
Known == applied \ forgotten

\* The database evicts responses of answered requests, and possibly the own.
LEMMA CommitForgets ==
  ASSUME TypeOK, LedgerInv, ServiceInv, NEW r \in Req, Recording(r), Commits(r)
  PROVE  \E gone \in SUBSET Slot :
           /\ ledger' = [x \in Slot |-> IF x \in gone THEN NoRow ELSE Written(r)[x]]
           /\ forgotten' = forgotten \union {Written(r)[x].resp : x \in gone}
           /\ \A x \in gone : /\ Written(r)[x].resp \in Known
                              /\ Holding(Written(r)[x].resp) => x = SlotOf(r)
                              /\ x # SlotOf(r) => Written(r)[x].resp # r
           /\ \A x \in CompletedSlots(Written(r)) :
                /\ Written(r)[x].resp \in Known
                /\ SlotOf(Written(r)[x].resp) = x
           /\ gone \subseteq CompletedSlots(Written(r))
           /\ gone # {} => Cardinality(gone) = Cardinality(CompletedSlots(Written(r))) - Capacity
  <1>1. PICK gone \in Evictions(r) :
           /\ ledger' = [x \in Slot |-> IF x \in gone THEN NoRow ELSE Written(r)[x]]
           /\ forgotten' = forgotten \union {Written(r)[x].resp : x \in gone}
    BY DEF Commits, Commit
  <1>2. gone \subseteq CompletedSlots(Written(r)) /\ gone \in SUBSET Slot
    BY DEF Evictions, Evictable, CompletedSlots
  <1>3. ASSUME NEW x \in CompletedSlots(Written(r))
        PROVE  /\ Written(r)[x].resp \in Known
               /\ SlotOf(Written(r)[x].resp) = x
               /\ x # SlotOf(r) => HasStatus(x, "completed") /\ Written(r)[x] = ledger[x]
    <2>1. CASE x = SlotOf(r)
      BY <2>1, WrittenType DEF LedgerInv, RecordsSuccess, ServiceInv, ForgetsPast, Known
    <2>2. CASE x # SlotOf(r)
      <3>1. x \in Slot /\ Written(r)[x] = ledger[x] /\ HasStatus(x, "completed")
        BY <2>2, WrittenType DEF CompletedSlots, HasStatus, Taken
      <3> QED
        BY <3>1 DEF LedgerInv, Provenance, ServiceInv, ForgetsPast, Known
    <2> QED
      BY <2>1, <2>2
  <1>4. ASSUME NEW x \in gone, x # SlotOf(r)
        PROVE  Written(r)[x].resp # r /\ ~Holding(Written(r)[x].resp)
    <2> DEFINE q == Written(r)[x].resp
    <2>1. q \in Req /\ SlotOf(q) = x /\ ledger[x].status = "completed"
      BY <1>2, <1>3, <1>4 DEF HasStatus, TypeOK, Known
    <2>2. q # r /\ ~Active(q)
      BY <1>4, <2>1 DEF Evictions, Evictable
    <2>3. pc[q] # "leaked"
      BY <2>1 DEF LedgerInv, Ownership, Holding
    <2> QED
      BY <2>2, <2>3 DEF Holding
  <1>5. gone # {} => Cardinality(gone) = Cardinality(CompletedSlots(Written(r))) - Capacity
    BY DEF Evictions
  <1> QED
    BY <1>1, <1>2, <1>3, <1>4, <1>5

\* When rows were evicted, what remains is exactly Capacity remembered successes.
LEMMA EvictionFills ==
  ASSUME TypeOK, LedgerInv, ServiceInv, NEW r \in Req, Recording(r), Commits(r),
         forgotten' # forgotten
  PROVE  \E K \in SUBSET (applied \ forgotten') :
           IsFiniteSet(K) /\ Cardinality(K) = Capacity
  <1> DEFINE With == CompletedSlots(Written(r))
             Resp(x) == Written(r)[x].resp
  <1>1. PICK gone \in SUBSET Slot :
           /\ forgotten' = forgotten \union {Resp(x) : x \in gone}
           /\ \A x \in With : Resp(x) \in Known /\ SlotOf(Resp(x)) = x
           /\ gone \subseteq With
           /\ gone # {} => Cardinality(gone) = Cardinality(With) - Capacity
    BY CommitForgets
  <1>2. gone # {}
    BY <1>1
  <1>3. IsFiniteSet(With) /\ Cardinality(With) \in Nat
    BY CompletedFinite
  <1>4. IsFiniteSet(With \ gone) /\ Cardinality(With \ gone) = Capacity
    <2>1. With \cap gone = gone /\ gone \in SUBSET With
      BY <1>1
    <2>2. IsFiniteSet(gone) /\ Cardinality(gone) \in Nat
      BY <1>3, <2>1, FS_Subset, FS_CardinalityType
    <2>3. Cardinality(With \ gone) = Cardinality(With) - Cardinality(gone)
      BY <1>3, <2>1, FS_Difference
    <2>4. IsFiniteSet(With \ gone)
      BY <1>3, FS_Subset
    <2> QED
      BY <1>1, <1>2, <1>3, <2>2, <2>3, <2>4, CapacityAssumption
  <1> DEFINE K == {Resp(x) : x \in With \ gone}
             f == [x \in With \ gone |-> Resp(x)]
  <1>5. f \in Bijection(With \ gone, K)
    BY <1>1 DEF Bijection, Injection, Surjection, IsInjective
  <1>6. IsFiniteSet(K) /\ Cardinality(K) = Capacity
    <2>1. ExistsBijection(With \ gone, K)
      BY <1>5 DEF ExistsBijection
    <2> HIDE DEF K
    <2> QED
      BY <1>4, <2>1, FS_Bijection
  <1>7. K \in SUBSET (applied \ forgotten')
    <2> SUFFICES ASSUME NEW x \in With \ gone
                 PROVE  Resp(x) \in applied \ forgotten'
      OBVIOUS
    <2>1. Resp(x) \in Known /\ SlotOf(Resp(x)) = x
      BY <1>1
    <2>2. \A y \in gone : Resp(y) # Resp(x)
      BY <1>1, <2>1
    <2> QED
      BY <1>1, <2>1, <2>2 DEF Known
  <1> QED
    BY <1>6, <1>7

\* A committed record keeps what is said about forgotten successes.
LEMMA CommitForgetsPast ==
  ASSUME TypeOK, LedgerInv, ServiceInv, NEW r \in Req, Recording(r), Commits(r),
         NEW label, Moves(r, label), UNCHANGED <<id, applied>>,
         label = "done" \/ ledger'[SlotOf(r)] # NoRow
  PROVE  ForgetsPast'
  <1>1. PICK gone \in SUBSET Slot :
           /\ ledger' = [x \in Slot |-> IF x \in gone THEN NoRow ELSE Written(r)[x]]
           /\ forgotten' = forgotten \union {Written(r)[x].resp : x \in gone}
           /\ \A x \in gone : /\ Written(r)[x].resp \in Known
                              /\ Holding(Written(r)[x].resp) => x = SlotOf(r)
                              /\ x # SlotOf(r) => Written(r)[x].resp # r
           /\ \A x \in CompletedSlots(Written(r)) :
                /\ Written(r)[x].resp \in Known
                /\ SlotOf(Written(r)[x].resp) = x
           /\ gone \subseteq CompletedSlots(Written(r))
    BY CommitForgets
  <1>2. forgotten' \subseteq applied'
    BY <1>1 DEF ServiceInv, ForgetsPast, Known
  <1>3. ASSUME NEW q \in Req, Recording(q)'
        PROVE  q \notin forgotten'
    <2>1. CASE q = r
      <3>1. SlotOf(r) \notin gone /\ SlotOf(r) \in Slot
        BY <1>1, <1>3, <2>1, SlotFacts DEF Moves, Recording
      <3> QED
        BY <1>1, <2>1, <3>1 DEF ServiceInv, ForgetsPast
    <2>2. CASE q # r
      <3>1. Recording(q) /\ Holding(q)
        BY <1>3, <2>2, MovesOthers DEF Recording, Holding, Active, ActivePC
      <3>2. \A x \in gone : Written(r)[x].resp # q
        <4> SUFFICES ASSUME NEW x \in gone, Written(r)[x].resp = q PROVE FALSE
          OBVIOUS
        <4>1. x = SlotOf(r)
          BY <1>1, <3>1
        <4> QED
          BY <2>2, <4>1, WrittenType
      <3> QED
        BY <1>1, <3>1, <3>2 DEF ServiceInv, ForgetsPast
    <2> QED
      BY <2>1, <2>2
  <1>4. ASSUME NEW x \in Slot, HasStatus(x, "completed")'
        PROVE  ledger'[x].resp \notin forgotten'
    <2>1. x \in CompletedSlots(Written(r)) /\ x \notin gone /\ ledger'[x] = Written(r)[x]
      BY <1>1, <1>4 DEF HasStatus, Taken, CompletedSlots
    <2> QED
      BY <1>1, <2>1 DEF Known
  <1> QED
    BY <1>2, <1>3, <1>4 DEF ForgetsPast

\* A step that forgets nothing, completes no row and starts no record.
LEMMA KeepsPast ==
  ASSUME TypeOK, ServiceInv, UNCHANGED forgotten,
         applied \subseteq applied',
         \A q \in Req : Recording(q)' => Recording(q) \/ q \notin applied,
         \A x \in Slot : HasStatus(x, "completed")' => ledger'[x] = ledger[x]
  PROVE  ForgetsPast'
  <1>1. \A x \in Slot : HasStatus(x, "completed")' => HasStatus(x, "completed")
    BY DEF HasStatus, Taken
  <1> QED
    BY <1>1 DEF ServiceInv, ForgetsPast

\* Only the dispatch answers or applies a request, and only from early places.
LEMMA UntouchedStep ==
  ASSUME TypeOK, ServiceInv, [Next]_vars
  PROVE  Untouched'
  <1> USE DEF EarlyPC, WaitPC, ServiceInv, Untouched
  <1>1. ASSUME NEW r \in Req, NEW label \in PC, Moves(r, label),
               label \in EarlyPC => pc[r] \in EarlyPC /\ UNCHANGED <<reply, applied>>,
               \A q \in Req \ {r} : /\ reply'[q] = reply[q]
                                    /\ q \in applied' => q \in applied
        PROVE  Untouched'
    <2> SUFFICES ASSUME NEW q \in Req, pc'[q] \in EarlyPC
                 PROVE  reply'[q] = NoReq /\ q \notin applied'
      OBVIOUS
    <2>1. CASE q = r
      BY <1>1, <2>1 DEF Moves
    <2>2. CASE q # r
      BY <1>1, <2>2 DEF Moves
    <2> QED
      BY <2>1, <2>2
  <1>2. ASSUME NEW r \in Req, Call(r) \/ Progress(r) \/ Fault(r)
        PROVE  Untouched'
    <2> USE DEF PC, ActivePC
    <2>1. CASE \/ Call(r) \/ CheckInFlight(r) \/ HoldNotify(r) \/ Listen(r)
               \/ PollTimeout(r) \/ CheckReserve(r)
      <3>1. PICK label \in EarlyPC : label \in PC /\ Moves(r, label)
        BY <2>1, MovesFacts DEF Call, CheckInFlight, HoldNotify, Listen, PollTimeout,
           CheckReserve
      <3>2. pc[r] \in EarlyPC /\ UNCHANGED <<reply, applied>>
        BY <2>1 DEF Call, CheckInFlight, HoldNotify, Listen, PollTimeout, CheckReserve
      <3> QED
        BY <1>1, <3>1, <3>2
    <2>2. CASE CheckReplay(r) \/ CheckFault(r) \/ DispatchOk(r) \/ DispatchRejected(r)
      <3>1. PICK label \in PC \ EarlyPC : Moves(r, label)
        BY <2>2, MovesFacts DEF CheckReplay, CheckFault, DispatchOk, DispatchRejected
      <3>2. \A q \in Req \ {r} : reply'[q] = reply[q] /\ (q \in applied' => q \in applied)
        BY <2>2 DEF CheckReplay, CheckFault, DispatchOk, DispatchRejected, TypeOK
      <3> QED
        BY <1>1, <3>1, <3>2
    <2>3. CASE RecordOk(r) \/ RecordRefused(r) \/ Release(r) \/ ReleaseFault(r)
      <3>1. PICK label \in PC \ EarlyPC : Moves(r, label)
        BY <2>3, MovesFacts DEF RecordOk, RecordRefused, Release, ReleaseFault
      <3>2. UNCHANGED <<reply, applied>>
        BY <2>3 DEF RecordOk, RecordRefused, Release, ReleaseFault
      <3> QED
        BY <1>1, <3>1, <3>2
    <2>4. CASE RecordFault(r) \/ RecordLateFault(r)
      <3>1. PICK label \in PC \ EarlyPC : Moves(r, label)
        BY <2>4, LateFaultFacts, MovesFacts DEF RecordFault, AfterFault, EarlyPC, WaitPC
      <3>2. UNCHANGED <<reply, applied>>
        BY <2>4, LateFaultFacts DEF RecordFault
      <3> QED
        BY <1>1, <3>1, <3>2
    <2> QED
      BY <1>2, <2>1, <2>2, <2>3, <2>4
      DEF Progress, Fault, Check, Wait, Dispatch, Persist
  <1>3. CASE CrashRestart
    BY <1>3 DEF CrashRestart, TypeOK
  <1>4. CASE UNCHANGED vars
    BY <1>4 DEF vars
  <1> QED
    BY <1>2, <1>3, <1>4 DEF Next

\* Every step keeps what the service's history relies on.
LEMMA ServiceInvStep == TypeOK /\ LedgerInv /\ ServiceInv /\ [Next]_vars => ServiceInv'
  <1> SUFFICES ASSUME TypeOK, LedgerInv, ServiceInv, [Next]_vars PROVE ForgetsPast'
    BY UntouchedStep DEF ServiceInv
  <1>1. ASSUME NEW r \in Req, Call(r) \/ CheckReplay(r) \/ CheckInFlight(r)
               \/ CheckFault(r) \/ HoldNotify(r) \/ Listen(r) \/ PollTimeout(r)
               \/ CheckReserve(r) \/ DispatchRejected(r) \/ RecordRefused(r)
               \/ RecordFault(r) \/ ReleaseFault(r)
        PROVE  ForgetsPast'
    <2>1. PICK label \in PC : Moves(r, label) /\ (label \in {"record", "retry"} => Recording(r))
      BY <1>1, MovesFacts DEF Call, CheckReplay, CheckInFlight, CheckFault,
         HoldNotify, Listen, PollTimeout, CheckReserve, DispatchRejected,
         RecordRefused, RecordFault, ReleaseFault, AfterFault, PC, WaitPC, ActivePC
    <2>2. \A q \in Req : Recording(q)' => Recording(q)
      BY <2>1, MovesOthers DEF Moves, Recording
    <2>3. UNCHANGED <<forgotten, applied>>
      BY <1>1 DEF Call, CheckReplay, CheckInFlight, CheckFault,
         HoldNotify, Listen, PollTimeout, CheckReserve, DispatchRejected,
         RecordRefused, RecordFault, ReleaseFault
    <2>4. \A x \in Slot : HasStatus(x, "completed")' => ledger'[x] = ledger[x]
      <3>1. CASE CheckReserve(r)
        BY <3>1, SlotFacts DEF CheckReserve, TypeOK, HasStatus, Taken
      <3>2. CASE ~CheckReserve(r)
        BY <1>1, <3>2 DEF Call, CheckReplay, CheckInFlight, CheckFault,
           HoldNotify, Listen, PollTimeout, DispatchRejected,
           RecordRefused, RecordFault, ReleaseFault
      <3> QED
        BY <3>1, <3>2
    <2> QED
      BY <2>2, <2>3, <2>4, KeepsPast
  <1>2. ASSUME NEW r \in Req, DispatchOk(r)
        PROVE  ForgetsPast'
    <2>1. PICK label \in PC : Moves(r, label)
      BY <1>2, MovesFacts DEF DispatchOk, PC, ActivePC
    <2>2. r \notin applied
      BY <1>2 DEF DispatchOk, ServiceInv, Untouched, EarlyPC
    <2>3. \A q \in Req : Recording(q)' => Recording(q) \/ q \notin applied
      BY <2>1, <2>2, MovesOthers
    <2> QED
      BY <1>2, <2>3, KeepsPast DEF DispatchOk
  <1>3. ASSUME NEW r \in Req, RecordOk(r)
        PROVE  ForgetsPast'
    <2>1. Moves(r, "done")
      BY <1>3, MovesFacts DEF RecordOk, PC
    <2> QED
      BY <1>3, <2>1, CommitKinds, CommitForgetsPast DEF RecordOk
  <1>4. ASSUME NEW r \in Req, RecordLateFault(r)
        PROVE  ForgetsPast'
    <2>1. Moves(r, AfterFault(r))
      BY <1>4, LateFaultFacts, MovesFacts
    <2> QED
      BY <1>4, <2>1, LateFaultFacts, CommitForgetsPast
  <1>5. ASSUME NEW r \in Req, Release(r)
        PROVE  ForgetsPast'
    <2>1. Moves(r, "done")
      BY <1>5, MovesFacts DEF Release, PC
    <2>2. \A q \in Req : Recording(q)' => q # r /\ Recording(q)
      BY <2>1, MovesOthers DEF Moves, Recording
    <2>3. \A x \in Slot : HasStatus(x, "completed")' => ledger'[x] = ledger[x]
      BY <1>5 DEF Release, HasStatus, Taken
    <2>4. \A x \in Slot : HasStatus(x, "completed")' =>
             HasStatus(x, "completed") /\ (~Durable(r) => ledger[x].resp # r)
      BY <2>3 DEF HasStatus, Taken, Durable
    <2>5. /\ applied' = applied
          /\ forgotten' = forgotten \/ (~Durable(r) /\ r \in applied /\ forgotten' = forgotten \union {r})
      BY <1>5 DEF Release
    <2> QED
      BY <2>2, <2>3, <2>4, <2>5 DEF ServiceInv, ForgetsPast
  <1>6. CASE CrashRestart
    <2>1. \A q \in Req : ~Recording(q)'
      BY <1>6 DEF CrashRestart, Recording
    <2>2. \A x \in Slot : HasStatus(x, "completed")' =>
             HasStatus(x, "completed") /\ ledger'[x] = ledger[x]
      BY <1>6 DEF CrashRestart, HasStatus, Taken
    <2>3. \A x \in Slot : HasStatus(x, "completed") => Durable(ledger[x].resp)
      BY DEF Durable
    <2> QED
      BY <1>6, <2>1, <2>2, <2>3 DEF CrashRestart, ServiceInv, ForgetsPast
  <1>7. CASE UNCHANGED vars
    BY <1>7 DEF vars, ServiceInv, ForgetsPast, Recording, HasStatus, Taken
  <1> QED
    BY <1>1, <1>2, <1>3, <1>4, <1>5, <1>6, <1>7
    DEF Next, Progress, Fault, Check, Wait, Dispatch, Persist

\* The reservations after request r moved to label.
LEMMA HeldMoves ==
  ASSUME TypeOK, NEW r \in Req, NEW label, Moves(r, label)
  PROVE  Held' = IF label \in ActivePC \union {"leaked"} THEN Held \union {r} ELSE Held \ {r}
  <1>1. Holding(r)' <=> label \in ActivePC \union {"leaked"}
    BY DEF Moves, Holding, Active
  <1> QED
    BY <1>1, MovesOthers DEF Held

\* An eviction or a failed write leaves the service full, or forgets only the
\* success of the request that was being settled.
LEMMA CommitRemembers ==
  ASSUME TypeOK, LedgerInv, ServiceInv, NEW r \in Req, Recording(r), Commits(r),
         UNCHANGED applied
  PROVE  \E S \in SUBSET Known :
           /\ Known' = Known \ S
           /\ S \intersect Held \subseteq {r}
           /\ S = {} \/ \E K \in SUBSET (Known \ S) :
                          IsFiniteSet(K) /\ Cardinality(K) = Capacity
           /\ ledger'[SlotOf(r)] # NoRow => r \notin S
  <1>1. PICK gone \in SUBSET Slot :
           /\ ledger' = [x \in Slot |-> IF x \in gone THEN NoRow ELSE Written(r)[x]]
           /\ forgotten' = forgotten \union {Written(r)[x].resp : x \in gone}
           /\ \A x \in gone : /\ Written(r)[x].resp \in Known
                              /\ Holding(Written(r)[x].resp) => x = SlotOf(r)
                              /\ x # SlotOf(r) => Written(r)[x].resp # r
    BY CommitForgets
  <1> DEFINE S == {Written(r)[x].resp : x \in gone}
  <1>2. S \in SUBSET Known /\ Known' = Known \ S
    BY <1>1 DEF Known
  <1>3. S \intersect Held \subseteq {r}
    BY <1>1, WrittenType DEF Held
  <1>4. S = {} \/ \E K \in SUBSET (Known \ S) : IsFiniteSet(K) /\ Cardinality(K) = Capacity
    <2>1. CASE forgotten' = forgotten
      BY <1>1, <2>1 DEF Known
    <2>2. CASE forgotten' # forgotten
      <3>1. applied \ forgotten' = Known \ S
        BY <1>1 DEF Known
      <3> HIDE DEF S
      <3> QED
        BY <2>2, <3>1, EvictionFills
    <2> QED
      BY <2>1, <2>2
  <1>5. ledger'[SlotOf(r)] # NoRow => r \notin S
    <2>1. SlotOf(r) \in Slot
      BY SlotFacts
    <2>2. ledger'[SlotOf(r)] # NoRow => SlotOf(r) \notin gone
      BY <1>1, <2>1
    <2> QED
      BY <1>1, <2>2
  <1> HIDE DEF S
  <1> QED
    BY <1>2, <1>3, <1>4, <1>5

\* The service counts as the ledger does.
LEMMA SameCounting ==
  ASSUME NEW K
  PROVE  /\ Service!IsFiniteSet(K) <=> IsFiniteSet(K)
         /\ Service!Cardinality(K) = Cardinality(K)
  BY DEF Service!IsFiniteSet, IsFiniteSet, Service!Cardinality, Cardinality

\* The variables of the service, in terms of command() and the ledger.
ServiceVars == <<id, Held, Known, reply>>

\* Every step of the system is a step of the service, or changes nothing of it.
LEMMA ServiceStep ==
  ASSUME TypeOK, LedgerInv, ServiceInv, [Next]_vars
  PROVE  Service!Next \/ ServiceVars' = ServiceVars
  <1> USE DEF PC, ActivePC, WaitPC
  <1>1. ASSUME NEW r \in Req, Call(r) \/ CheckInFlight(r) \/ HoldNotify(r)
               \/ Listen(r) \/ PollTimeout(r) \/ RecordRefused(r) \/ RecordFault(r)
        PROVE  ServiceVars' = ServiceVars
    <2>1. PICK label \in PC :
             /\ Moves(r, label)
             /\ label \in ActivePC \union {"leaked"} <=> Holding(r)
      BY <1>1, MovesFacts DEF Call, CheckInFlight, HoldNotify, Listen, PollTimeout,
         RecordRefused, RecordFault, AfterFault, Holding, Active, Recording
    <2>2. Held' = Held
      BY <2>1, HeldMoves DEF Held
    <2>3. UNCHANGED <<id, reply, applied, forgotten>>
      BY <1>1 DEF Call, CheckInFlight, HoldNotify, Listen, PollTimeout,
         RecordRefused, RecordFault
    <2> QED
      BY <2>2, <2>3 DEF ServiceVars, Known
  <1>2. ASSUME NEW r \in Req, CheckReplay(r)
        PROVE  Service!Replay(r)
    <2>1. Moves(r, "done") /\ r \notin Held
      BY <1>2, MovesFacts DEF CheckReplay, Held, Holding, Active
    <2>2. Held' = Held
      BY <2>1, HeldMoves
    <2>3. PICK x \in Hits(r) : /\ HasStatus(x, "completed")
                               /\ reply' = [reply EXCEPT ![r] = ledger[x].resp]
      BY <1>2 DEF CheckReplay
    <2> DEFINE q == ledger[x].resp
    <2>4. x \in Slot /\ (x = SlotOf(r) \/ x \in KeySlots(r))
      BY <2>3, SlotFacts DEF Hits, KeySlots
    <2>5. q \in Known /\ q \in Req /\ ~id[q].upload /\ SlotOf(q) = x /\ ledger[x].key = id[q].key
      BY <2>3, <2>4 DEF LedgerInv, Provenance, ServiceInv, ForgetsPast, Known, TypeOK
    <2>6. Service!Same(q, r)
      <3>1. CASE x = SlotOf(r)
        BY <2>5, <3>1, SlotFacts DEF Service!Same
      <3>2. CASE x \in KeySlots(r)
        BY <2>5, <3>2, SlotFacts DEF Service!Same, KeySlots
      <3> QED
        BY <2>4, <3>1, <3>2
    <2>7. reply[r] = NoReq /\ UNCHANGED <<id, applied, forgotten>>
      BY <1>2 DEF CheckReplay, ServiceInv, Untouched, EarlyPC
    <2> HIDE DEF q
    <2> QED
      BY <2>2, <2>3, <2>5, <2>6, <2>7
      DEF Service!Replay, Service!Unanswered, Held, Known, q
  <1>3. ASSUME NEW r \in Req, CheckReserve(r)
        PROVE  Service!Take(r)
    <2>1. Moves(r, "dispatch")
      BY <1>3, MovesFacts DEF CheckReserve
    <2>2. Held' = Held \union {r}
      BY <2>1, HeldMoves
    <2>3. reply[r] = NoReq /\ UNCHANGED <<id, reply, applied, forgotten>>
      BY <1>3 DEF CheckReserve, ServiceInv, Untouched, EarlyPC
    <2>4. ~Taken(SlotOf(r)) /\ KeySlots(r) = {}
      BY <1>3 DEF CheckReserve, Hits
    <2>5. \A q \in Held \union Known : ~Service!Same(q, r)
      <3> SUFFICES ASSUME NEW q \in Held \union Known, Service!Same(q, r) PROVE FALSE
        OBVIOUS
      <3>1. q \in Req /\ Taken(SlotOf(q)) /\ ledger[SlotOf(q)].key = id[q].key
        BY DEF Held, Known, LedgerInv, Ownership, Owed, TypeOK
      <3> QED
        BY <2>4, <3>1, SlotFacts DEF Service!Same, KeySlots, SlotOf
    <2> QED
      BY <2>2, <2>3, <2>5 DEF Service!Take, Service!Unanswered, Held, Known
  <1>4. ASSUME NEW r \in Req, CheckFault(r) \/ DispatchRejected(r)
        PROVE  Service!Fail(r)
    <2>1. PICK label \in PC :
             /\ Moves(r, label)
             /\ label \in ActivePC \union {"leaked"} <=> Holding(r)
      BY <1>4, MovesFacts DEF CheckFault, DispatchRejected, Holding, Active
    <2>2. Held' = Held
      BY <2>1, HeldMoves DEF Held
    <2>3. /\ reply[r] = NoReq /\ UNCHANGED <<id, applied, forgotten>>
          /\ reply' = [reply EXCEPT ![r] = Error]
      BY <1>4 DEF CheckFault, DispatchRejected, ServiceInv, Untouched, EarlyPC
    <2> QED
      BY <2>2, <2>3 DEF Service!Fail, Service!Unanswered, Held, Known
  <1>5. ASSUME NEW r \in Req, DispatchOk(r)
        PROVE  Service!Succeed(r)
    <2>1. PICK label \in {"record", "release"} : Moves(r, label)
      BY <1>5, MovesFacts DEF DispatchOk
    <2>2. r \in Held /\ Held' = Held
      BY <1>5, <2>1, HeldMoves DEF Held, DispatchOk, Holding, Active
    <2>3. /\ reply[r] = NoReq /\ r \notin applied /\ UNCHANGED <<id, forgotten>>
          /\ reply' = [reply EXCEPT ![r] = r] /\ applied' = applied \union {r}
      BY <1>5 DEF DispatchOk, ServiceInv, Untouched, EarlyPC
    <2>4. Known' = Known \union {r}
      BY <2>3 DEF Known, ServiceInv, ForgetsPast
    <2> QED
      BY <2>2, <2>3, <2>4 DEF Service!Succeed, Service!Unanswered, Held, Known
  <1>6. ASSUME NEW r \in Req, NEW label \in PC, Moves(r, label), r \in Held,
               UNCHANGED <<id, reply>>, label = "done",
               NEW S \in SUBSET Known, Known' = Known \ S,
               S \subseteq {r} \/ (/\ S \intersect Held \subseteq {r}
                                   /\ \E K \in SUBSET (Known \ S) :
                                        IsFiniteSet(K) /\ Cardinality(K) = Capacity)
        PROVE  Service!Settle(r)
    <2>1. Held' = Held \ {r}
      BY <1>6, HeldMoves
    <2>2. S \subseteq {r} \/ (S \intersect Held \subseteq {r} /\ Service!Full(S))
      BY <1>6, SameCounting DEF Service!Full, Known
    <2>3. \E T \in SUBSET Known :
            /\ T \subseteq {r} \/ (T \intersect Held \subseteq {r} /\ Service!Full(T))
            /\ Known' = Known \ T
      BY <1>6, <2>2
    <2> QED
      BY <1>6, <2>1, <2>3 DEF Service!Settle, Held, Known
  <1>7. ASSUME NEW r \in Req, RecordOk(r)
        PROVE  Service!Settle(r)
    <2>1. Moves(r, "done") /\ r \in Held /\ UNCHANGED <<id, reply, applied>>
      BY <1>7, MovesFacts DEF RecordOk, Held, Holding, Active, Recording
    <2>2. PICK S \in SUBSET Known :
             /\ Known' = Known \ S
             /\ S \intersect Held \subseteq {r}
             /\ S = {} \/ \E K \in SUBSET (Known \ S) :
                            IsFiniteSet(K) /\ Cardinality(K) = Capacity
      BY <1>7, <2>1, CommitKinds, CommitRemembers DEF RecordOk
    <2> QED
      BY <1>6, <2>1, <2>2
  <1>8. ASSUME NEW r \in Req, RecordLateFault(r)
        PROVE  Service!Evict \/ ServiceVars' = ServiceVars
    <2>1. AfterFault(r) \in ActivePC
      BY DEF AfterFault
    <2>2. Moves(r, AfterFault(r))
      BY <1>8, LateFaultFacts, MovesFacts
    <2>3. r \in Held /\ UNCHANGED <<id, reply, applied>>
      BY <1>8, LateFaultFacts DEF Held, Holding, Active, Recording
    <2>4. Held' = Held
      BY <2>1, <2>2, <2>3, HeldMoves
    <2>5. PICK S \in SUBSET Known :
             /\ Known' = Known \ S
             /\ S \intersect Held \subseteq {r}
             /\ S = {} \/ \E K \in SUBSET (Known \ S) :
                            IsFiniteSet(K) /\ Cardinality(K) = Capacity
             /\ r \notin S
      BY <1>8, <2>3, LateFaultFacts, CommitRemembers
    <2>6. CASE S = {}
      BY <2>3, <2>4, <2>5, <2>6 DEF ServiceVars
    <2>7. CASE S # {}
      <3>1. S \in SUBSET (Known \ Held)
        BY <2>5
      <3>2. Service!Full(S)
        BY <2>5, <2>7, SameCounting DEF Service!Full, Known
      <3>3. \E T \in SUBSET (Known \ Held) : Service!Full(T) /\ Known' = Known \ T
        BY <2>5, <3>1, <3>2
      <3> QED
        BY <2>3, <2>4, <3>3 DEF Service!Evict, Held, Known
    <2> QED
      BY <2>6, <2>7
  <1>9. ASSUME NEW r \in Req, Release(r)
        PROVE  Service!Settle(r)
    <2>1. Moves(r, "done") /\ r \in Held /\ UNCHANGED <<id, reply>>
      BY <1>9, MovesFacts DEF Release, Held, Holding, Active
    <2>2. \E S \in SUBSET Known : S \subseteq {r} /\ Known' = Known \ S
      <3>1. CASE forgotten' = forgotten
        <4>1. {} \in SUBSET Known /\ Known' = Known \ {}
          BY <1>9, <3>1 DEF Release, Known
        <4> QED
          BY <4>1
      <3>2. CASE r \in Known /\ forgotten' = forgotten \union {r}
        <4>1. {r} \in SUBSET Known /\ Known' = Known \ {r}
          BY <1>9, <3>2 DEF Release, Known
        <4> QED
          BY <4>1
      <3> QED
        BY <1>9, <3>1, <3>2 DEF Release, Known
    <2> QED
      BY <1>6, <2>1, <2>2
  <1>10. ASSUME NEW r \in Req, ReleaseFault(r)
         PROVE  Service!Settle(r) \/ ServiceVars' = ServiceVars
    <2>1. r \in Held /\ UNCHANGED <<id, reply, applied, forgotten>>
      BY <1>10 DEF ReleaseFault, Held, Holding, Active
    <2>2. CASE HasStatus(SlotOf(r), "inflight")
      <3>1. GoAndNotify(r, "leaked")
        BY <1>10, <2>2 DEF ReleaseFault
      <3>2. Moves(r, "leaked")
        BY <3>1, MovesFacts
      <3> QED
        BY <2>1, <3>2, HeldMoves DEF ServiceVars, Known
    <2>3. CASE ~HasStatus(SlotOf(r), "inflight")
      <3>1. GoAndNotify(r, "done")
        BY <1>10, <2>3 DEF ReleaseFault
      <3>2. Moves(r, "done")
        BY <3>1, MovesFacts
      <3>3. {} \in SUBSET Known /\ Known' = Known \ {}
        BY <2>1 DEF Known
      <3> QED
        BY <1>6, <2>1, <3>2, <3>3
    <2> QED
      BY <2>2, <2>3
  <1>11. CASE CrashRestart
    <2>1. /\ UNCHANGED <<id, reply, applied>>
          /\ forgotten' = forgotten \union {q \in applied : ~Durable(q)}
          /\ Held' = {}
      BY <1>11 DEF CrashRestart, Held, Holding, Active
    <2> DEFINE S == {q \in Known : ~Durable(q)}
    <2>2. S \subseteq Held
      <3> SUFFICES ASSUME NEW q \in Known, ~Durable(q) PROVE Holding(q) /\ q \in Req
        BY DEF Held
      <3>1. q \in Req /\ SlotOf(q) \in Slot
        BY SlotFacts DEF Known, TypeOK
      <3> QED
        BY <3>1 DEF LedgerInv, Owed, Durable, Known
    <2>3. S \in SUBSET (Known \intersect Held) /\ Known' = Known \ S
      BY <2>1, <2>2 DEF Known
    <2> HIDE DEF S
    <2>4. Service!Restart
      BY <2>1, <2>3 DEF Service!Restart, Held, Known
    <2> QED
      BY <2>4 DEF Service!Next
  <1>12. CASE UNCHANGED vars
    BY <1>12 DEF vars, ServiceVars, Held, Known, Holding, Active
  <1>13. ASSUME NEW r \in Req, Call(r) \/ Progress(r) \/ Fault(r)
         PROVE  Service!Next \/ ServiceVars' = ServiceVars
    <2>1. \/ ServiceVars' = ServiceVars
          \/ Service!Take(r) \/ Service!Succeed(r) \/ Service!Fail(r)
          \/ Service!Replay(r) \/ Service!Settle(r) \/ Service!Evict
      BY <1>1, <1>2, <1>3, <1>4, <1>5, <1>7, <1>8, <1>9, <1>10, <1>13
      DEF Progress, Fault, Check, Wait, Dispatch, Persist
    <2> QED
      BY <2>1 DEF Service!Next
  <1> QED
    BY <1>11, <1>12, <1>13 DEF Next

\* command(), the ledger and its restarts implement the service that executes
\* equal requests once and answers the others with what was computed.
THEOREM ServiceCorrect == Spec => ImplementsOnceService
  <1>1. Init => ServiceInv /\ Service!Init
    <2> SUFFICES ASSUME Init PROVE ServiceInv /\ Service!Init
      OBVIOUS
    <2>1. ServiceInv
      BY DEF Init, ServiceInv, Untouched, ForgetsPast, Recording, HasStatus, Taken, Slot
    <2>2. {r \in Req : Holding(r)} = {} /\ applied \ forgotten = {}
      BY DEF Init, Holding, Active, ActivePC
    <2> QED
      BY <2>1, <2>2 DEF Init, Service!Init
  <1>2. TypeOK /\ LedgerInv /\ ServiceInv /\ [Next]_vars =>
          ServiceInv' /\ [Service!Next]_(Service!svars)
    BY ServiceInvStep, ServiceStep DEF ServiceVars, Held, Known, Service!svars
  <1> QED
    BY <1>1, <1>2, TypeCorrect, LedgerCorrect, PTL
    DEF Spec, ImplementsOnceService, Service!Spec
=============================================================================
