--------------------------- MODULE CommandLedger ---------------------------
(***************************************************************************)
(* Idempotent execution of GUI commands: GuiHostAdapter::command (app),    *)
(* the IdempotencyStore with its in-process Notify map (app) and the       *)
(* SQLite command_ledger table (storage).                                  *)
(*                                                                         *)
(* Every call of the database actor is one atomic step, because the actor  *)
(* runs its closures one at a time on one connection; everything between   *)
(* two of those calls interleaves freely.  A request is one call of        *)
(* command(); a network retry is another request with the same identity.   *)
(*                                                                         *)
(* The tenant is the constant DEFAULT_CONTROL_PLANE_TENANT and is left     *)
(* out.  A response is named by the request whose dispatch produced it.    *)
(***************************************************************************)
EXTENDS Integers, FiniteSets

CONSTANTS
  Req,          \* calls of command()
  Scope,        \* client scopes (client_scope_from_source)
  Cmd,          \* command ids
  Key,          \* idempotency keys
  NoKey,        \* a command sent without a key (SQL NULL)
  NoRow,        \* no such row in command_ledger
  NoReq,        \* no response
  Error,        \* the reply is an error (host error or AppResponse::Error)
  Capacity,     \* completed rows kept (DEFAULT_COMMAND_LEDGER_CAPACITY)
  MaxFaults,    \* bound: database calls that fail without an effect
  MaxLate,      \* bound: records that commit and are reported as failed
  MaxCrashes    \* bound: process crashes

ASSUME ValueAssumption == /\ NoKey \notin Key
                          /\ NoReq \notin Req
                          /\ Error \notin Req \union {NoReq}

\* capacity.max(1) in CommandLedger::record and IdempotencyStore.
ASSUME CapacityAssumption == Capacity \in Nat \ {0}

ASSUME BoundAssumption == /\ MaxFaults \in Nat
                          /\ MaxLate \in Nat
                          /\ MaxCrashes \in Nat

ASSUME FiniteAssumption == IsFiniteSet(Scope) /\ IsFiniteSet(Cmd)

\* Enough rows (4096) for the calls whose committed record was reported as
\* failed: there is always a completed row to evict that none of them needs.
ASSUME LateAssumption == MaxLate <= Capacity

Slot == Scope \X Cmd            \* the primary key of command_ledger
Identity == [scope: Scope, cmd: Cmd, key: Key \union {NoKey}, upload: BOOLEAN]

VARIABLES
  ledger,       \* Slot -> row or NoRow; survives a crash
  waiters,      \* Slot -> requests holding the Notify now in the NotifyMap
  pc,           \* where each request is in command()
  id,           \* the identity each request carries
  reply,        \* what the request returns (or is about to return)
  faults, late, crashes,
  applied,      \* history: requests whose dispatch succeeded
  forgotten     \* history: those the ledger legitimately no longer knows

vars == <<ledger, waiters, pc, id, reply, faults, late, crashes, applied,
          forgotten>>

\* response_json is set exactly when the status becomes completed.
InflightRow  == [key: Key \union {NoKey}, status: {"inflight"}, resp: {NoReq}]
CompletedRow == [key: Key \union {NoKey}, status: {"completed"}, resp: Req]
Row == InflightRow \union CompletedRow

ASSUME NoRowAssumption == NoRow \notin Row

ActivePC == {"dispatch", "record", "retry", "release"}
WaitPC   == {"seen", "held", "armed"}
\* "leaked": answered, but the database refused to delete its inflight row.
PC == {"idle", "check", "done", "leaked", "lost"} \union WaitPC \union ActivePC

TypeOK ==
  /\ ledger \in [Slot -> Row \union {NoRow}]
  /\ waiters \in [Slot -> SUBSET Req]
  /\ pc \in [Req -> PC]
  /\ id \in [Req -> Identity]
  /\ reply \in [Req -> Req \union {NoReq, Error}]
  /\ faults \in 0..MaxFaults
  /\ late \in 0..MaxLate
  /\ crashes \in 0..MaxCrashes
  /\ applied \subseteq Req
  /\ forgotten \subseteq Req

Init ==
  /\ ledger = [x \in Slot |-> NoRow]
  /\ waiters = [x \in Slot |-> {}]
  /\ pc = [r \in Req |-> "idle"]
  /\ id \in [Req -> Identity]
  /\ reply = [r \in Req |-> NoReq]
  /\ faults = 0 /\ late = 0 /\ crashes = 0
  /\ applied = {} /\ forgotten = {}

-----------------------------------------------------------------------------
(* Rows and lookups                                                        *)

SlotOf(r) == <<id[r].scope, id[r].cmd>>
Taken(x)  == ledger[x] # NoRow
HasStatus(x, s) == Taken(x) /\ ledger[x].status = s

\* Mutated form: the key is looked up across clients.
KeySlotsAnyScope(r) ==
  {x \in Slot : id[r].key # NoKey /\ Taken(x) /\ ledger[x].key = id[r].key}

\* Slots of the request's scope whose row carries its idempotency key.
KeySlots(r) ==
  {x \in Slot : /\ id[r].key # NoKey
                /\ x[1] = id[r].scope
                /\ Taken(x)
                /\ ledger[x].key = id[r].key}

\* Mutated form: the second lookup, by idempotency key, is forgotten.
HitsById(r) == {x \in {SlotOf(r)} : Taken(x)}

\* lookup_row: by command id first, then by key.
Hits(r) == IF Taken(SlotOf(r)) THEN {SlotOf(r)} ELSE KeySlots(r)

\* Two requests the ledger must treat as the same command.
SameCommand(q, r) ==
  /\ id[q].scope = id[r].scope
  /\ \/ id[q].cmd = id[r].cmd
     \/ id[q].key = id[r].key /\ id[r].key # NoKey

Active(r) == pc[r] \in ActivePC

-----------------------------------------------------------------------------
(* The Notify map                                                          *)

\* NotifyMap::notify: the entry is removed, requests already listening on it
\* wake up; one that holds it and has not called notified() yet stays asleep.
Woken(x) == {w \in waiters[x] : pc[w] = "armed"}

GoTo(r, label) == pc' = [pc EXCEPT ![r] = label]

\* The request moves to label and notifies the waiters of its own command id.
GoAndNotify(r, label) ==
  /\ pc' = [q \in Req |-> IF q = r THEN label
                          ELSE IF q \in Woken(SlotOf(r)) THEN "check"
                          ELSE pc[q]]
  /\ waiters' = [waiters EXCEPT ![SlotOf(r)] = {}]

-----------------------------------------------------------------------------
(* command(): the check loop                                               *)

\* A client sends a command (the identity is fixed with the request).
Call(r) ==
  /\ pc[r] = "idle"
  /\ GoTo(r, "check")
  /\ UNCHANGED <<ledger, waiters, id, reply, faults, late, crashes, applied,
                 forgotten>>

CheckReplay(r) ==
  /\ pc[r] = "check"
  /\ \E x \in Hits(r) : /\ HasStatus(x, "completed")
                        /\ reply' = [reply EXCEPT ![r] = ledger[x].resp]
  /\ GoTo(r, "done")
  /\ UNCHANGED <<ledger, waiters, id, faults, late, crashes, applied,
                 forgotten>>

CheckInFlight(r) ==
  /\ pc[r] = "check"
  /\ \E x \in Hits(r) : HasStatus(x, "inflight")
  /\ GoTo(r, "seen")
  /\ UNCHANGED <<ledger, waiters, id, reply, faults, late, crashes, applied,
                 forgotten>>

\* New: the inflight row is inserted in the same database call.
CheckReserve(r) ==
  /\ pc[r] = "check"
  /\ Hits(r) = {}
  /\ ledger' = [ledger EXCEPT ![SlotOf(r)] =
                  [key |-> id[r].key, status |-> "inflight", resp |-> NoReq]]
  /\ GoTo(r, "dispatch")
  /\ UNCHANGED <<waiters, id, reply, faults, late, crashes, applied,
                 forgotten>>

\* The database call fails: command() returns an `idempotency' error.
CheckFault(r) ==
  /\ pc[r] = "check"
  /\ faults < MaxFaults
  /\ faults' = faults + 1
  /\ reply' = [reply EXCEPT ![r] = Error]
  /\ GoTo(r, "done")
  /\ UNCHANGED <<ledger, waiters, id, late, crashes, applied, forgotten>>

\* After the database call: get or insert the Notify of the request's OWN
\* command id, even when the row found belongs to another command id.
HoldNotify(r) ==
  /\ pc[r] = "seen"
  /\ waiters' = [waiters EXCEPT ![SlotOf(r)] = @ \union {r}]
  /\ GoTo(r, "held")
  /\ UNCHANGED <<ledger, id, reply, faults, late, crashes, applied, forgotten>>

\* notify.notified(): from here on notify_waiters reaches the request.
Listen(r) ==
  /\ pc[r] = "held"
  /\ GoTo(r, "armed")
  /\ UNCHANGED <<ledger, waiters, id, reply, faults, late, crashes, applied,
                 forgotten>>

\* Mutated form: the request waits for the notification alone.
NeverPoll(r) == FALSE

\* The 50 ms sleep of the select! wins: look at the ledger again.
PollTimeout(r) ==
  /\ pc[r] = "armed"
  /\ waiters' = [waiters EXCEPT ![SlotOf(r)] = @ \ {r}]
  /\ GoTo(r, "check")
  /\ UNCHANGED <<ledger, id, reply, faults, late, crashes, applied, forgotten>>

-----------------------------------------------------------------------------
(* Dispatch                                                                *)

\* The handler succeeded.  An attachment upload is never recorded: the bytes
\* live in memory only.
DispatchOk(r) ==
  /\ pc[r] = "dispatch"
  /\ applied' = applied \union {r}
  /\ reply' = [reply EXCEPT ![r] = r]
  /\ GoTo(r, IF id[r].upload THEN "release" ELSE "record")
  /\ UNCHANGED <<ledger, waiters, id, faults, late, crashes, forgotten>>

\* A host error, or AppResponse::Error, which should_cache refuses.
DispatchRejected(r) ==
  /\ pc[r] = "dispatch"
  /\ reply' = [reply EXCEPT ![r] = Error]
  /\ GoTo(r, "release")
  /\ UNCHANGED <<ledger, waiters, id, faults, late, crashes, applied,
                 forgotten>>

-----------------------------------------------------------------------------
(* persist_command_response: record, one retry, then release               *)

Recording(r) == pc[r] \in {"record", "retry"}

\* DuplicateCommand: the own row is completed already.
Duplicate(r) == HasStatus(SlotOf(r), "completed")
\* KeyConflict: the key belongs to another command id.
KeyConflict(r) == \E x \in KeySlots(r) : x # SlotOf(r)

\* UPDATE of the inflight row (COALESCE keeps a key it already has), or INSERT
\* when there is none.
Written(r) ==
  [ledger EXCEPT ![SlotOf(r)] =
     [key    |-> IF Taken(SlotOf(r)) /\ ledger[SlotOf(r)].key # NoKey
                   THEN ledger[SlotOf(r)].key ELSE id[r].key,
      status |-> "completed",
      resp   |-> r]]

CompletedSlots(rows) == {x \in Slot : rows[x] # NoRow /\ rows[x].status = "completed"}
CompletedRows(rows)  == Cardinality(CompletedSlots(rows))

\* A row goes only after Capacity younger ones completed: no other call is
\* still persisting its response by then.
Evictable(r) ==
  {x \in CompletedSlots(Written(r)) :
     Written(r)[x].resp = r \/ ~Active(Written(r)[x].resp)}

\* Mutated form: the capacity is compared after the row that overflows it.
VictimsOffByOne(r) ==
  {v \in SUBSET Evictable(r) :
     LET n == CompletedRows(Written(r)) IN
     Cardinality(v) = IF n > Capacity + 1 THEN n - Capacity ELSE 0}

\* evict_completed: the rows beyond Capacity go, inflight rows never.  They
\* are ordered by wall-clock stamps that tie and may step back, so which
\* completed rows are the oldest is left open.
Victims(r) ==
  {v \in SUBSET Evictable(r) :
     LET n == CompletedRows(Written(r)) IN
     Cardinality(v) = IF n > Capacity THEN n - Capacity ELSE 0}

\* The write, and one of the evictions.
Commit(r, evictions) ==
  /\ ~Duplicate(r)
  /\ ~KeyConflict(r)
  /\ \E gone \in evictions :
       /\ ledger' = [x \in Slot |-> IF x \in gone THEN NoRow ELSE Written(r)[x]]
       /\ forgotten' = forgotten \union {Written(r)[x].resp : x \in gone}

\* record_completed: the eviction follows the write in one database call.
CommitRecord(r) == Commit(r, Victims(r))

RecordOk(r) ==
  /\ Recording(r)
  /\ CommitRecord(r)
  /\ GoAndNotify(r, "done")
  /\ UNCHANGED <<id, reply, faults, late, crashes, applied>>

\* DuplicateCommand and KeyConflict are not retried.
RecordRefused(r) ==
  /\ Recording(r)
  /\ Duplicate(r) \/ KeyConflict(r)
  /\ GoAndNotify(r, "release")
  /\ UNCHANGED <<ledger, id, reply, faults, late, crashes, applied, forgotten>>

\* Mutated form: the retry that fails is not followed by a release.
AfterFaultGivesUp(r) == IF pc[r] = "record" THEN "retry" ELSE "done"

\* A database error is retried once; the second one releases the row.
AfterFault(r) == IF pc[r] = "record" THEN "retry" ELSE "release"

\* The database refuses the record, which notifies, or the stats() before it,
\* which returns early and does not.
RecordFault(r) ==
  /\ Recording(r)
  /\ faults < MaxFaults
  /\ faults' = faults + 1
  /\ \/ GoAndNotify(r, AfterFault(r))
     \/ GoTo(r, AfterFault(r)) /\ UNCHANGED waiters
  /\ UNCHANGED <<ledger, id, reply, late, crashes, applied, forgotten>>

\* evict_completed fails: the row is written, the surplus stays until a later
\* record evicts it, and the error notifies.
EvictFault(r) == Commit(r, {{}}) /\ GoAndNotify(r, AfterFault(r))

\* The stats() after the record fails: nobody is notified.
StatsFault(r) ==
  /\ CommitRecord(r) /\ ledger'[SlotOf(r)] # NoRow
  /\ GoTo(r, AfterFault(r)) /\ UNCHANGED waiters

\* The write commits on its own (there is no transaction around the record) and
\* an error follows.
RecordLateFault(r) ==
  /\ Recording(r)
  /\ late < MaxLate
  /\ late' = late + 1
  /\ EvictFault(r) \/ StatsFault(r)
  /\ UNCHANGED <<id, reply, faults, crashes, applied>>

\* Mutated form: DELETE without the condition status='inflight'.
ReleasedSlotsAnyStatus(r) == {SlotOf(r)}

\* release_inflight: the own inflight row, or else the inflight row of the key.
ReleasedSlots(r) ==
  IF HasStatus(SlotOf(r), "inflight")
    THEN {SlotOf(r)}
    ELSE {x \in KeySlots(r) : HasStatus(x, "inflight")}

Durable(q) == \E x \in Slot : HasStatus(x, "completed") /\ ledger[x].resp = q

Release(r) ==
  /\ pc[r] = "release"
  /\ ledger' = [x \in Slot |-> IF x \in ReleasedSlots(r) THEN NoRow ELSE ledger[x]]
  /\ forgotten' = IF r \in applied /\ ~Durable(r) THEN forgotten \union {r}
                                                   ELSE forgotten
  /\ GoAndNotify(r, "done")
  /\ UNCHANGED <<id, reply, faults, late, crashes, applied>>

\* The delete fails: logged, the waiters are notified all the same, and an
\* inflight row stays until the next start.
ReleaseFault(r) ==
  /\ pc[r] = "release"
  /\ faults < MaxFaults
  /\ faults' = faults + 1
  /\ GoAndNotify(r, IF HasStatus(SlotOf(r), "inflight") THEN "leaked" ELSE "done")
  /\ UNCHANGED <<ledger, id, reply, late, crashes, applied, forgotten>>

-----------------------------------------------------------------------------
(* Crash and restart                                                       *)

\* Mutated form: the reclaim at start deletes every row.
CrashRestartDropsAll ==
  /\ crashes < MaxCrashes
  /\ crashes' = crashes + 1
  /\ ledger' = [x \in Slot |-> NoRow]
  /\ waiters' = [x \in Slot |-> {}]
  /\ pc' = [r \in Req |->
                        IF pc[r] \in {"idle", "done"} THEN pc[r]
                        ELSE IF pc[r] = "leaked" THEN "done" ELSE "lost"]
  /\ forgotten' = forgotten \union {r \in applied : ~Durable(r)}
  /\ UNCHANGED <<id, reply, faults, late, applied>>

\* The process dies and starts again.  SessionStore::open reclaims every
\* inflight row before it serves a command.
CrashRestart ==
  /\ crashes < MaxCrashes
  /\ crashes' = crashes + 1
  /\ ledger' = [x \in Slot |-> IF HasStatus(x, "inflight") THEN NoRow ELSE ledger[x]]
  /\ waiters' = [x \in Slot |-> {}]
  /\ pc' = [r \in Req |->
                        IF pc[r] \in {"idle", "done"} THEN pc[r]
                        ELSE IF pc[r] = "leaked" THEN "done" ELSE "lost"]
  /\ forgotten' = forgotten \union {r \in applied : ~Durable(r)}
  /\ UNCHANGED <<id, reply, faults, late, applied>>

-----------------------------------------------------------------------------

Check(r)    == CheckReplay(r) \/ CheckInFlight(r) \/ CheckReserve(r)
Wait(r)     == HoldNotify(r) \/ Listen(r) \/ PollTimeout(r)
Dispatch(r) == DispatchOk(r) \/ DispatchRejected(r)
Persist(r)  == RecordOk(r) \/ RecordRefused(r) \/ Release(r)
Fault(r)    == CheckFault(r) \/ RecordFault(r) \/ RecordLateFault(r) \/ ReleaseFault(r)

\* What the process does by itself once the call has arrived.
Progress(r) == Check(r) \/ Wait(r) \/ Dispatch(r) \/ Persist(r)

Next == \/ \E r \in Req : Call(r) \/ Progress(r) \/ Fault(r)
        \/ CrashRestart

Spec == Init /\ [][Next]_vars

\* The runtime polls every ready task, the sleep of the select! fires, and
\* handlers return.  Nothing makes a client call.
FairSpec == Spec /\ \A r \in Req : WF_vars(Progress(r))

-----------------------------------------------------------------------------
(* Properties                                                              *)

\* Two requests with the same command id, or with the same idempotency key,
\* of one client never execute at the same time (check_and_reserve is a CAS).
ExclusiveExecution ==
  \A q, r \in Req : q # r /\ Active(q) /\ Active(r) => ~SameCommand(q, r)

\* A successful response that a request did not compute itself was computed
\* by a request of the same client with the same command id or key, whose
\* dispatch succeeded, and that was not an upload: errors are never replayed.
ReplayFaithful ==
  \A r \in Req : reply[r] \notin {NoReq, Error, r} =>
    /\ reply[r] \in applied
    /\ ~id[reply[r]].upload
    /\ SameCommand(reply[r], r)

\* A request starts executing only if no earlier success of the same command
\* is still owed to it: the ledger forgets a success only by eviction, by a
\* crash or a failed record before it became durable, or for an upload.
AtMostOnce ==
  [][\A r \in Req : pc[r] = "check" /\ pc'[r] = "dispatch" =>
       \A q \in applied \ forgotten : ~SameCommand(q, r)]_vars

\* A completed row is final: it keeps its response until evict_completed drops
\* it, which happens only when another row completes past the capacity.  A
\* record that succeeds leaves no surplus, however many evictions failed before
\* it; only an eviction that fails adds to the surplus, and just its own row.
CompletedIsFinal ==
  [][/\ \A x \in Slot : HasStatus(x, "completed") =>
          \/ ledger'[x] = ledger[x]
          \/ /\ ledger'[x] = NoRow
             /\ CompletedRows(ledger) >= Capacity
             /\ \E r \in Req : Recording(r) /\ pc'[r] # pc[r]
     /\ \A r \in Req : Recording(r) /\ pc'[r] = "done" => CompletedRows(ledger') <= Capacity
     /\ CompletedRows(ledger') > Capacity =>
          \/ CompletedRows(ledger') <= CompletedRows(ledger)
          \/ late' = late + 1 /\ CompletedRows(ledger') = CompletedRows(ledger) + 1]_vars

\* An inflight row always has a live executor that will complete or delete it,
\* unless the database refused the release of exactly that row.
InflightHasExecutor ==
  \A x \in Slot : HasStatus(x, "inflight") =>
    \E r \in Req : (Active(r) \/ pc[r] = "leaked") /\ SlotOf(r) = x

\* Every request is eventually answered, or lost with the process: the 50 ms
\* poll covers a wake-up that is lost or sent to another command id.  (A
\* refused release leaves the row, and its waiters, until a restart.)
EveryCallReturns ==
  \A r \in Req : pc[r] = "check" ~>
    pc[r] \in {"done", "lost"} \/ \E q \in Req : pc[q] = "leaked"

-----------------------------------------------------------------------------
(* The service the clients are promised                                    *)

\* The requests that a row is kept for.
Holding(r) == Active(r) \/ pc[r] = "leaked"

\* A row is a reservation or a success that is remembered.
Service == INSTANCE OnceService
             WITH held <- {r \in Req : Holding(r)}, remembered <- applied \ forgotten

\* command(), its wake-ups and retries, the faults of the database, eviction and
\* restarts together implement a service that executes equal requests once.
ImplementsOnceService == Service!Spec

-----------------------------------------------------------------------------
(* The inductive invariant                                                 *)

\* A holding request finds its own row, under its own key: inflight, or
\* completed by a record of its own that was reported as failed.
Ownership ==
  \A r \in Req : Holding(r) =>
    /\ Taken(SlotOf(r))
    /\ ledger[SlotOf(r)].key = id[r].key
    /\ \/ ledger[SlotOf(r)].status = "inflight"
       \/ pc[r] \in {"retry", "release"} /\ ledger[SlotOf(r)].resp = r

\* Exclusion covers the rows that a refused release left behind.
ExclusiveHolding ==
  \A q, r \in Req : q # r /\ Holding(q) /\ Holding(r) => ~SameCommand(q, r)

\* A completed row was recorded by a request with that command id and key.
Provenance ==
  \A x \in Slot : HasStatus(x, "completed") =>
    /\ ledger[x].resp \in applied
    /\ SlotOf(ledger[x].resp) = x
    /\ ledger[x].key = id[ledger[x].resp].key
    /\ ~id[ledger[x].resp].upload

RecordsSuccess == \A r \in Req : Recording(r) => r \in applied /\ ~id[r].upload

\* A success that is not forgotten still has its row.
Owed ==
  \A q \in applied \ forgotten :
    /\ Taken(SlotOf(q))
    /\ ledger[SlotOf(q)].key = id[q].key
    /\ \/ Holding(q) /\ ledger[SlotOf(q)].status = "inflight"
       \/ HasStatus(SlotOf(q), "completed") /\ ledger[SlotOf(q)].resp = q

\* What every step of the ledger and of command() preserves: rows, holders,
\* remembered successes and replayed responses agree with each other.
LedgerInv == /\ Ownership
             /\ ExclusiveHolding
             /\ Provenance
             /\ RecordsSuccess
             /\ Owed
             /\ ReplayFaithful

=============================================================================
