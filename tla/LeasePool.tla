----------------------------- MODULE LeasePool ------------------------------
(***************************************************************************)
(* InMemoryCredentialPool (crates/control-plane/src/credential) and its    *)
(* LeaseProjection, for one (tenant, account).  The pool changes under one *)
(* mutex, which is never held across the await of the projection: acquire  *)
(* counts first and persists then, every other transition is marked in     *)
(* flight, persisted, and committed only if the record is still the one    *)
(* that was read.  apply() is one transaction of a store that takes them   *)
(* in order; it answers, fails, or fails after the write.                  *)
(*                                                                         *)
(* A lease id is one call of acquire.  The host restores the pool before   *)
(* it serves, and sweeps it with reclaim_expired from time to time.        *)
(***************************************************************************)
EXTENDS Integers, FiniteSets

CONSTANTS
  Lease,     \* lease ids, each one call of acquire
  Sweeper,   \* tasks that call reclaim_expired
  NoTask,
  Cap,       \* max_for(tenant, account)
  MaxFaults, \* bound: failures of the projection
  MaxDrops,  \* bound: futures dropped while they wait for it
  MaxCrashes \* bound: crashes

ASSUME LeaseAssumption == IsFiniteSet(Lease)
ASSUME CapAssumption == Cap \in Nat
ASSUME TaskAssumption == NoTask \notin Sweeper /\ "holder" \notin Sweeper /\ NoTask # "holder"

VARIABLES
  up,     \* "up", "down", or "loaded": restore has read the projection
  acq,    \* the call of acquire and its caller
  mem,    \* leases: the state of the record, "none" when there is none
  active, \* PoolAccountState::active
  disk,   \* the projection: the snapshot; "reclaimed" when it was removed
  mark,   \* inflight: the state the transition leads to, or "none"
  job,    \* the task that awaits apply() of that transition
  late,   \* leases past their time to live
  sweep,  \* phases of reclaim_expired
  live, batch, \* what restore read: the leases it keeps, those it settles
  faults, drops, crashes,
  told,    \* history: release answered Ok with already_released = false
  twice,   \* history, since the pool came up: the roll-back found the slot
           \* already given back
  dropped  \* history: a dropped future left its lease or its mark behind

callVars == <<acq, sweep>>
poolVars == <<mem, active, mark, job>>
restVars == <<up, live, batch>>
boundVars == <<faults, drops, crashes>>
histVars == <<told, twice, dropped>>
vars == <<callVars, poolVars, restVars, boundVars, histVars, disk, late>>

MemState == {"none", "acquired", "released", "expired"}
DiskState == MemState \union {"reclaimed"}
Settled == {"released", "expired"}

Init ==
  /\ up = "up"
  /\ acq = [l \in Lease |-> "idle"]
  /\ mem = [l \in Lease |-> "none"]
  /\ active = 0
  /\ disk = [l \in Lease |-> "none"]
  /\ mark = [l \in Lease |-> "none"]
  /\ job = [l \in Lease |-> NoTask]
  /\ late = {}
  /\ sweep = [s \in Sweeper |-> "idle"]
  /\ live = {} /\ batch = {}
  /\ faults = 0 /\ drops = 0 /\ crashes = 0
  /\ told = {} /\ twice = {} /\ dropped = {}

\* saturating_sub(1)
Less(n) == IF n > 0 THEN n - 1 ELSE 0

\* A call that ends without an answer, or with an error: its write landed or
\* it did not.
Landed(l, s) == disk' = [disk EXCEPT ![l] = s] \/ UNCHANGED disk

Fault == faults < MaxFaults /\ faults' = faults + 1 /\ UNCHANGED <<drops, crashes>>
Drop == drops < MaxDrops /\ drops' = drops + 1 /\ UNCHANGED <<faults, crashes>>

-----------------------------------------------------------------------------
(* acquire                                                                 *)

\* Mutant: the cap is one too high.
HasRoomForOneMore == active <= Cap

HasRoom == active < Cap

\* Admission and counting in one section.
Admit(l) ==
  /\ up = "up" /\ acq[l] = "idle"
  /\ HasRoom
  /\ acq' = [acq EXCEPT ![l] = "applying"]
  /\ mem' = [mem EXCEPT ![l] = "acquired"]
  /\ active' = active + 1
  /\ UNCHANGED <<sweep, mark, job, restVars, boundVars, histVars, disk, late>>

AcquireOk(l) ==
  /\ acq[l] = "applying"
  /\ acq' = [acq EXCEPT ![l] = "held"]
  /\ disk' = [disk EXCEPT ![l] = "acquired"]
  /\ UNCHANGED <<sweep, poolVars, restVars, boundVars, histVars, late>>

\* rollback_acquire: whatever has become of the record in the meantime.
AcquireErr(l) ==
  /\ acq[l] = "applying"
  /\ Fault
  /\ Landed(l, "acquired")
  /\ acq' = [acq EXCEPT ![l] = "gone"]
  /\ mem' = [mem EXCEPT ![l] = "none"]
  /\ active' = Less(active)
  /\ twice' = IF mem[l] = "acquired" THEN twice ELSE twice \union {l}
  /\ UNCHANGED <<sweep, mark, job, restVars, told, dropped, late>>

DropAcquire(l) ==
  /\ acq[l] = "applying"
  /\ Drop
  /\ Landed(l, "acquired")
  /\ acq' = [acq EXCEPT ![l] = "gone"]
  /\ UNCHANGED <<sweep, poolVars, restVars, histVars, late>>

-----------------------------------------------------------------------------
(* Transitions of a record: mark, persist, commit                          *)

Plan(l, to, task) ==
  /\ mark' = [mark EXCEPT ![l] = to]
  /\ job' = [job EXCEPT ![l] = task]

Unmark(l) ==
  /\ mark' = [mark EXCEPT ![l] = "none"]
  /\ job' = [job EXCEPT ![l] = NoTask]

\* Mutant: the record is not compared with the one that was read.
GiveBackBlind(l) ==
  /\ mem' = [mem EXCEPT ![l] = mark[l]]
  /\ active' = Less(active)

\* The commit of a release or an expiry, if the record is unchanged.
GiveBack(l) ==
  IF mem[l] = "acquired"
  THEN /\ mem' = [mem EXCEPT ![l] = mark[l]]
       /\ active' = Less(active)
  ELSE UNCHANGED <<mem, active>>

\* release by the holder, or by the drop of its guard.
StartRelease(l) ==
  /\ up = "up" /\ acq[l] = "held"
  /\ mem[l] = "acquired" /\ mark[l] = "none"
  /\ Plan(l, "released", "holder")
  /\ acq' = [acq EXCEPT ![l] = "releasing"]
  /\ UNCHANGED <<sweep, mem, active, restVars, boundVars, histVars, disk, late>>

\* The record is unknown, settled or in flight: already_released = true.
AlreadyReleased(l) ==
  /\ up = "up" /\ acq[l] = "held"
  /\ mem[l] # "acquired" \/ mark[l] # "none"
  /\ acq' = [acq EXCEPT ![l] = "gone"]
  /\ UNCHANGED <<sweep, poolVars, restVars, boundVars, histVars, disk, late>>

ReleaseOk(l) ==
  /\ acq[l] = "releasing"
  /\ disk' = [disk EXCEPT ![l] = "released"]
  /\ GiveBack(l)
  /\ Unmark(l)
  /\ acq' = [acq EXCEPT ![l] = "gone"]
  /\ told' = told \union {l}
  /\ UNCHANGED <<sweep, restVars, boundVars, twice, dropped, late>>

\* Mutants: the error is swallowed; the mark is not removed.
ReleaseErrSwallowed(l) ==
  /\ acq[l] = "releasing"
  /\ Fault
  /\ Unmark(l)
  /\ acq' = [acq EXCEPT ![l] = "gone"]
  /\ told' = told \union {l}
  /\ UNCHANGED <<sweep, mem, active, restVars, twice, dropped, disk, late>>

ReleaseErrMarked(l) ==
  /\ acq[l] = "releasing"
  /\ Fault
  /\ Landed(l, "released")
  /\ acq' = [acq EXCEPT ![l] = "held"]
  /\ UNCHANGED <<sweep, poolVars, restVars, histVars, late>>

\* The holder is told and may call again.
ReleaseErr(l) ==
  /\ acq[l] = "releasing"
  /\ Fault
  /\ Landed(l, "released")
  /\ Unmark(l)
  /\ acq' = [acq EXCEPT ![l] = "held"]
  /\ UNCHANGED <<sweep, mem, active, restVars, histVars, late>>

-----------------------------------------------------------------------------
(* reclaim_expired                                                         *)

StartSweep(s) ==
  /\ up = "up" /\ sweep[s] = "idle"
  /\ sweep' = [sweep EXCEPT ![s] = "expiring"]
  /\ UNCHANGED <<acq, poolVars, restVars, boundVars, histVars, disk, late>>

Free(s) == \A l \in Lease : job[l] # s

Overdue == {l \in Lease : mem[l] = "acquired" /\ l \in late /\ mark[l] = "none"}
Closed == {l \in Lease : mem[l] \in Settled /\ mark[l] = "none"}

PlanExpire(s) ==
  /\ sweep[s] = "expiring" /\ Free(s)
  /\ IF Overdue = {}
     THEN sweep' = [sweep EXCEPT ![s] = "reclaiming"] /\ UNCHANGED <<mark, job>>
     ELSE (\E l \in Overdue : Plan(l, "expired", s)) /\ UNCHANGED sweep
  /\ UNCHANGED <<acq, mem, active, restVars, boundVars, histVars, disk, late>>

PlanReclaim(s) ==
  /\ sweep[s] = "reclaiming" /\ Free(s)
  /\ IF Closed = {}
     THEN sweep' = [sweep EXCEPT ![s] = "idle"] /\ UNCHANGED <<mark, job>>
     ELSE (\E l \in Closed : Plan(l, "reclaimed", s)) /\ UNCHANGED sweep
  /\ UNCHANGED <<acq, mem, active, restVars, boundVars, histVars, disk, late>>

\* Persisted and committed; a reclaimed record leaves the pool.
SweepOk(s, l) ==
  /\ job[l] = s
  /\ disk' = [disk EXCEPT ![l] = mark[l]]
  /\ IF mark[l] = "expired"
     THEN GiveBack(l)
     ELSE mem' = [mem EXCEPT ![l] = "none"] /\ UNCHANGED active
  /\ Unmark(l)
  /\ UNCHANGED <<callVars, restVars, boundVars, histVars, late>>

\* The sweep ends with the error.
SweepErr(s, l) ==
  /\ job[l] = s
  /\ Fault
  /\ Landed(l, mark[l])
  /\ Unmark(l)
  /\ sweep' = [sweep EXCEPT ![s] = "idle"]
  /\ UNCHANGED <<acq, mem, active, restVars, histVars, late>>

\* The future of a release or of a sweep is dropped: nobody removes the mark.
DropTransition(l) ==
  /\ job[l] # NoTask
  /\ Drop
  /\ Landed(l, mark[l])
  /\ job' = [job EXCEPT ![l] = NoTask]
  /\ acq' = [acq EXCEPT ![l] = IF job[l] = "holder" THEN "gone" ELSE @]
  /\ sweep' = [s \in Sweeper |-> IF job[l] = s THEN "idle" ELSE sweep[s]]
  /\ dropped' = dropped \union {l}
  /\ UNCHANGED <<mem, active, mark, restVars, told, twice, late>>

-----------------------------------------------------------------------------
(* Time, crash and restore                                                 *)

Expire(l) ==
  /\ acq[l] # "idle" /\ l \notin late
  /\ late' = late \union {l}
  /\ UNCHANGED <<callVars, poolVars, restVars, boundVars, histVars, disk>>

\* What the store may hold when the process dies: the writes under way landed
\* or they did not.
MayHold(l) ==
  {disk[l]} \union (IF acq[l] = "applying" THEN {"acquired"} ELSE {})
            \union (IF job[l] # NoTask THEN {mark[l]} ELSE {})

Crash ==
  /\ crashes < MaxCrashes
  /\ crashes' = crashes + 1
  /\ disk' \in [Lease -> DiskState]
  /\ \A l \in Lease : disk'[l] \in MayHold(l)
  /\ up' = "down" /\ live' = {} /\ batch' = {}
  /\ acq' = [l \in Lease |-> IF acq[l] = "idle" THEN "idle" ELSE "gone"]
  /\ mem' = [l \in Lease |-> "none"]
  /\ mark' = [l \in Lease |-> "none"]
  /\ job' = [l \in Lease |-> NoTask]
  /\ active' = 0
  /\ sweep' = [s \in Sweeper |-> "idle"]
  /\ twice' = {}
  /\ UNCHANGED <<faults, drops, told, dropped, late>>

\* load_outstanding and plan_restore.
Load ==
  /\ up = "down"
  /\ up' = "loaded"
  /\ live' = {l \in Lease : disk[l] = "acquired" /\ l \notin late}
  /\ batch' = {l \in Lease : disk[l] \in Settled \/ (disk[l] = "acquired" /\ l \in late)}
  /\ UNCHANGED <<callVars, poolVars, boundVars, histVars, disk, late>>

\* The terminal transitions are persisted first ...
Settle(l) ==
  /\ up = "loaded" /\ l \in batch
  /\ batch' = batch \ {l}
  /\ disk' = [disk EXCEPT ![l] = "reclaimed"]
  /\ UNCHANGED <<callVars, poolVars, up, live, boundVars, histVars, late>>

\* ... and if one fails the pool stays empty.
SettleErr(l) ==
  /\ up = "loaded" /\ l \in batch
  /\ Fault
  /\ Landed(l, "reclaimed")
  /\ up' = "down" /\ live' = {} /\ batch' = {}
  /\ UNCHANGED <<callVars, poolVars, histVars, late>>

Restore ==
  /\ up = "loaded" /\ batch = {}
  /\ up' = "up" /\ live' = {}
  /\ mem' = [l \in Lease |-> IF l \in live THEN "acquired" ELSE mem[l]]
  /\ active' = active + Cardinality(live)
  /\ UNCHANGED <<callVars, mark, job, batch, boundVars, histVars, disk, late>>

-----------------------------------------------------------------------------
Answer(l) ==
  \/ AcquireOk(l) \/ AcquireErr(l) \/ ReleaseOk(l) \/ ReleaseErr(l)
  \/ \E s \in Sweeper : SweepOk(s, l) \/ SweepErr(s, l)

SweepStep(s) == StartSweep(s) \/ PlanExpire(s) \/ PlanReclaim(s)

StartUp == Load \/ Restore \/ \E l \in Lease : Settle(l) \/ SettleErr(l)

Next ==
  \/ \E l \in Lease :
       \/ Admit(l) \/ DropAcquire(l)
       \/ StartRelease(l) \/ AlreadyReleased(l)
       \/ Answer(l) \/ DropTransition(l) \/ Expire(l)
  \/ \E s \in Sweeper : SweepStep(s)
  \/ Crash \/ StartUp

\* The projection answers, time passes, the host restores and sweeps again
\* and again; no holder is obliged to release.
Spec ==
  /\ Init /\ [][Next]_vars
  /\ \A l \in Lease : WF_vars(Answer(l)) /\ WF_vars(Expire(l))
  /\ \A s \in Sweeper : WF_vars(SweepStep(s))
  /\ WF_vars(StartUp)

-----------------------------------------------------------------------------
(* Properties                                                              *)

LeaseTypeOK ==
  /\ up \in {"up", "down", "loaded"}
  /\ acq \in [Lease -> {"idle", "applying", "held", "releasing", "gone"}]
  /\ mem \in [Lease -> MemState]
  /\ active \in Nat
  /\ disk \in [Lease -> DiskState]
  /\ mark \in [Lease -> {"none", "released", "expired", "reclaimed"}]
  /\ job \in [Lease -> Sweeper \union {NoTask, "holder"}]
  /\ late \subseteq Lease
  /\ sweep \in [Sweeper -> {"idle", "expiring", "reclaiming"}]
  /\ live \subseteq Lease /\ batch \subseteq Lease
  /\ faults \in Nat /\ drops \in Nat /\ crashes \in Nat
  /\ told \subseteq Lease /\ twice \subseteq Lease /\ dropped \subseteq Lease

Counted == {l \in Lease : mem[l] = "acquired"}

\* The counter never exceeds the acquired records, and falls short of them by
\* one at most for every roll-back that came after the expiry of its lease.
CountsMatch ==
  /\ active <= Cardinality(Counted)
  /\ Cardinality(Counted) <= active + Cardinality(twice)

\* Leases their callers may still use: not released, not past their time.
InUse ==
  {l \in Lease : acq[l] \in {"held", "releasing"} /\ mem[l] # "released" /\ l \notin late}

NoOvercommit == Cardinality(InUse) <= Cap + Cardinality(twice)

\* A slot is given back exactly once, whichever of release, expiry, roll-back
\* and restart gives it back, and the pool never grants more than the cap,
\* across restarts too.  A roll-back that comes after the expiry of its lease
\* gives one slot back a second time: the drift is one for each, no more, and
\* ends with the restart, which counts anew.
SlotsAddUp == CountsMatch /\ NoOvercommit

\* A release that was confirmed is never undone: not by a crash, not by a
\* restore, not by a write that lands after it.
ReleaseSurvives == \A l \in told : mem[l] # "acquired" /\ disk[l] # "acquired"

\* No slot stays taken for ever, although callers vanish, calls fail and
\* nobody releases; only a dropped future strands its lease until a restart.
SlotComesBack ==
  \A l \in Lease : mem[l] = "acquired" ~> (mem[l] # "acquired" \/ l \in dropped)
=============================================================================
