-------------------------- MODULE LeasePoolProofs ---------------------------
(***************************************************************************)
(* Proofs about LeasePool, for every finite set of leases, every set of    *)
(* sweepers, every cap and any number of faults, drops and crashes.        *)
(***************************************************************************)
EXTENDS LeasePool, FiniteSetTheorems, TLAPS

-----------------------------------------------------------------------------
(* The inductive invariant                                                 *)

\* A lease whose caller is in acquire, or may still use what it got.
Admitted == {"applying", "held", "releasing"}

\* One lease: what its caller, its record, its transition under way and the
\* projection know of each other.
LeaseOK(l) ==
  /\ up # "up" => acq[l] \in {"idle", "gone"} /\ mem[l] = "none" /\ mark[l] = "none" /\ job[l] = NoTask
  /\ acq[l] = "idle" =>
       /\ mem[l] = "none" /\ mark[l] = "none" /\ job[l] = NoTask /\ disk[l] = "none"
       /\ l \notin live \union batch
  /\ l \in live => up = "loaded"
  /\ acq[l] = "releasing" => mark[l] = "released" /\ job[l] = "holder"
  /\ job[l] \in Sweeper => mark[l] \in {"expired", "reclaimed"}
  /\ mark[l] = "reclaimed" => mem[l] # "acquired"
  /\ mem[l] = "expired" \/ mark[l] = "expired" => l \in late
  /\ acq[l] \in Admitted /\ l \notin late => mem[l] = "acquired"
  /\ l \in twice => acq[l] = "gone"
  /\ l \in told => acq[l] = "gone" /\ mem[l] # "acquired" /\ disk[l] # "acquired" /\ l \notin live

\* The leases granted by the pool that is up, and not given back.
Granted == {l \in Lease : acq[l] \in Admitted /\ mem[l] = "acquired"}

\* The counter is off by one roll-back at most for each in twice, and so is
\* the cap.
SlotsOK ==
  /\ up # "up" => active = 0
  /\ CountsMatch
  /\ Cardinality(Granted) <= Cap + Cardinality(twice)

LeaseInv ==
  /\ LeaseTypeOK
  /\ \A l \in Lease : LeaseOK(l)
  /\ SlotsOK

-----------------------------------------------------------------------------
(* Type correctness                                                        *)

LEMMA TypeStep ==
  ASSUME LeaseTypeOK, \A l \in Lease : LeaseOK(l), [Next]_vars
  PROVE  LeaseTypeOK'
  <1> USE TaskAssumption
      DEF LeaseTypeOK, MemState, DiskState, Settled, Fault, Drop, Plan, Unmark, Landed,
          callVars, poolVars, restVars, boundVars, histVars
  <1>0. Less(active) \in Nat
    BY DEF Less
  <1>1. ASSUME NEW l \in Lease, Admit(l) \/ AcquireOk(l) PROVE LeaseTypeOK'
    BY <1>1 DEF Admit, AcquireOk
  <1>2. ASSUME NEW l \in Lease, AcquireErr(l) PROVE LeaseTypeOK'
    BY <1>0, <1>2 DEF AcquireErr
  <1>3. ASSUME NEW l \in Lease, DropAcquire(l) PROVE LeaseTypeOK'
    BY <1>3 DEF DropAcquire
  <1>4. ASSUME NEW l \in Lease, StartRelease(l) \/ AlreadyReleased(l) PROVE LeaseTypeOK'
    BY <1>4 DEF StartRelease, AlreadyReleased
  <1>5. ASSUME NEW l \in Lease, GiveBack(l), mark[l] \in {"released", "expired"}
        PROVE  mem' \in [Lease -> MemState] /\ active' \in Nat
    BY <1>0, <1>5 DEF GiveBack
  <1>6. ASSUME NEW l \in Lease, ReleaseOk(l) PROVE LeaseTypeOK'
    <2>1. mem' \in [Lease -> MemState] /\ active' \in Nat
      BY <1>5, <1>6 DEF ReleaseOk, LeaseOK
    <2> QED
      BY <1>6, <2>1 DEF ReleaseOk
  <1>7. ASSUME NEW l \in Lease, ReleaseErr(l) PROVE LeaseTypeOK'
    BY <1>7 DEF ReleaseErr
  <1>8. ASSUME NEW s \in Sweeper, StartSweep(s) PROVE LeaseTypeOK'
    BY <1>8 DEF StartSweep
  <1>9. ASSUME NEW s \in Sweeper, PlanExpire(s) PROVE LeaseTypeOK'
    BY <1>9 DEF PlanExpire, Overdue
  <1>10. ASSUME NEW s \in Sweeper, PlanReclaim(s) PROVE LeaseTypeOK'
    BY <1>10 DEF PlanReclaim, Closed
  <1>11. ASSUME NEW s \in Sweeper, NEW l \in Lease, SweepOk(s, l) PROVE LeaseTypeOK'
    <2>1. mem' \in [Lease -> MemState] /\ active' \in Nat
      BY <1>5, <1>11 DEF SweepOk
    <2> QED
      BY <1>11, <2>1 DEF SweepOk
  <1>12. ASSUME NEW s \in Sweeper, NEW l \in Lease, SweepErr(s, l) PROVE LeaseTypeOK'
    BY <1>12 DEF SweepErr
  <1>13. ASSUME NEW l \in Lease, DropTransition(l) PROVE LeaseTypeOK'
    BY <1>13 DEF DropTransition
  <1>14. ASSUME NEW l \in Lease, Expire(l) PROVE LeaseTypeOK'
    BY <1>14 DEF Expire
  <1>15. ASSUME Crash PROVE LeaseTypeOK'
    BY <1>15 DEF Crash
  <1>16. ASSUME Load PROVE LeaseTypeOK'
    BY <1>16 DEF Load
  <1>17. ASSUME NEW l \in Lease, Settle(l) PROVE LeaseTypeOK'
    BY <1>17 DEF Settle
  <1>18. ASSUME NEW l \in Lease, SettleErr(l) PROVE LeaseTypeOK'
    BY <1>18 DEF SettleErr
  <1>19. ASSUME Restore PROVE LeaseTypeOK'
    <2>1. Cardinality(live) \in Nat
      BY LeaseAssumption, FS_Subset, FS_CardinalityType
    <2> QED
      BY <1>19, <2>1 DEF Restore
  <1>20. ASSUME UNCHANGED vars PROVE LeaseTypeOK'
    BY <1>20 DEF vars
  <1> QED
    BY <1>1, <1>2, <1>3, <1>4, <1>6, <1>7, <1>8, <1>9, <1>10, <1>11, <1>12, <1>13, <1>14, <1>15,
       <1>16, <1>17, <1>18, <1>19, <1>20
    DEF Next, Answer, SweepStep, StartUp

-----------------------------------------------------------------------------
(* One lease                                                               *)

\* A step that is about another lease.
LEMMA LeaseFrame ==
  ASSUME NEW l \in Lease, LeaseOK(l), LeaseTypeOK,
         up' = up, acq'[l] = acq[l], mem'[l] = mem[l], mark'[l] = mark[l],
         job'[l] = job[l], disk'[l] = disk[l],
         l \in live' => l \in live, l \in batch' => l \in batch,
         l \in late => l \in late', l \in told' => l \in told,
         l \in twice' => l \in twice
  PROVE  LeaseOK(l)'
  BY DEF LeaseOK

LEMMA LeaseStep ==
  ASSUME LeaseTypeOK, NEW l \in Lease, LeaseOK(l), [Next]_vars
  PROVE  LeaseOK(l)'
  <1> USE TaskAssumption
      DEF LeaseTypeOK, MemState, DiskState, Settled, Fault, Drop, Plan, Unmark, Landed,
          callVars, poolVars, restVars, boundVars, histVars, Admitted
  <1>1. ASSUME NEW m \in Lease, Admit(m) PROVE LeaseOK(l)'
    BY <1>1 DEF Admit, LeaseOK
  <1>2. ASSUME NEW m \in Lease, AcquireOk(m) PROVE LeaseOK(l)'
    BY <1>2 DEF AcquireOk, LeaseOK
  <1>3. ASSUME NEW m \in Lease, AcquireErr(m) PROVE LeaseOK(l)'
    BY <1>3 DEF AcquireErr, LeaseOK
  <1>4. ASSUME NEW m \in Lease, DropAcquire(m) PROVE LeaseOK(l)'
    BY <1>4 DEF DropAcquire, LeaseOK
  <1>5. ASSUME NEW m \in Lease, StartRelease(m) \/ AlreadyReleased(m) PROVE LeaseOK(l)'
    BY <1>5 DEF StartRelease, AlreadyReleased, LeaseOK
  <1>6. ASSUME NEW m \in Lease, ReleaseOk(m) PROVE LeaseOK(l)'
    <2>1. CASE l # m
      <3>1. mem'[l] = mem[l] /\ acq'[l] = acq[l] /\ mark'[l] = mark[l] /\ job'[l] = job[l]
            /\ disk'[l] = disk[l] /\ (l \in told' => l \in told) /\ twice' = twice
        BY <1>6, <2>1 DEF ReleaseOk, GiveBack
      <3> QED
        BY <1>6, <3>1, LeaseFrame DEF ReleaseOk
    <2>2. CASE l = m
      <3>1. mem'[l] = IF mem[l] = "acquired" THEN mark[l] ELSE mem[l]
        BY <1>6, <2>2 DEF ReleaseOk, GiveBack
      <3>2. mark[l] = "released" /\ acq[l] = "releasing" /\ up = "up"
        BY <1>6, <2>2 DEF ReleaseOk, LeaseOK
      <3>3. /\ acq'[l] = "gone" /\ mark'[l] = "none" /\ job'[l] = NoTask /\ disk'[l] = "released"
            /\ late' = late /\ live' = live /\ batch' = batch /\ up' = "up" /\ twice' = twice
        BY <1>6, <2>2, <3>2 DEF ReleaseOk
      <3> QED
        BY <3>1, <3>2, <3>3 DEF LeaseOK
    <2> QED
      BY <2>1, <2>2
  <1>7. ASSUME NEW m \in Lease, ReleaseErr(m) PROVE LeaseOK(l)'
    BY <1>7 DEF ReleaseErr, LeaseOK
  <1>8. ASSUME NEW s \in Sweeper, StartSweep(s) PROVE LeaseOK(l)'
    BY <1>8 DEF StartSweep, LeaseOK
  <1>9. ASSUME NEW s \in Sweeper, PlanExpire(s) PROVE LeaseOK(l)'
    BY <1>9 DEF PlanExpire, Overdue, LeaseOK
  <1>10. ASSUME NEW s \in Sweeper, PlanReclaim(s) PROVE LeaseOK(l)'
    BY <1>10 DEF PlanReclaim, Closed, LeaseOK
  <1>11. ASSUME NEW s \in Sweeper, NEW m \in Lease, SweepOk(s, m) PROVE LeaseOK(l)'
    BY <1>11 DEF SweepOk, GiveBack, LeaseOK
  <1>12. ASSUME NEW s \in Sweeper, NEW m \in Lease, SweepErr(s, m) PROVE LeaseOK(l)'
    BY <1>12 DEF SweepErr, LeaseOK
  <1>13. ASSUME NEW m \in Lease, DropTransition(m) PROVE LeaseOK(l)'
    BY <1>13 DEF DropTransition, LeaseOK
  <1>14. ASSUME NEW m \in Lease, Expire(m) PROVE LeaseOK(l)'
    BY <1>14 DEF Expire, LeaseOK
  <1>15. ASSUME Crash PROVE LeaseOK(l)'
    BY <1>15 DEF Crash, MayHold, LeaseOK
  <1>16. ASSUME Load PROVE LeaseOK(l)'
    BY <1>16 DEF Load, LeaseOK
  <1>17. ASSUME NEW m \in Lease, Settle(m) PROVE LeaseOK(l)'
    BY <1>17 DEF Settle, LeaseOK
  <1>18. ASSUME NEW m \in Lease, SettleErr(m) PROVE LeaseOK(l)'
    BY <1>18 DEF SettleErr, LeaseOK
  <1>19. ASSUME Restore PROVE LeaseOK(l)'
    BY <1>19 DEF Restore, LeaseOK
  <1>20. ASSUME UNCHANGED vars PROVE LeaseOK(l)'
    BY <1>20 DEF vars, LeaseOK
  <1> QED
    BY <1>1, <1>2, <1>3, <1>4, <1>5, <1>6, <1>7, <1>8, <1>9, <1>10, <1>11, <1>12, <1>13, <1>14,
       <1>15, <1>16, <1>17, <1>18, <1>19, <1>20
    DEF Next, Answer, SweepStep, StartUp
-----------------------------------------------------------------------------
(* The slots                                                               *)

LEMMA SlotSets ==
  ASSUME LeaseTypeOK
  PROVE  /\ IsFiniteSet(Counted) /\ Cardinality(Counted) \in Nat
         /\ IsFiniteSet(Granted) /\ Cardinality(Granted) <= Cardinality(Counted)
         /\ Cardinality(Granted) \in Nat
         /\ IsFiniteSet(twice) /\ Cardinality(twice) \in Nat
  <1>1. Counted \in SUBSET Lease /\ Granted \in SUBSET Counted
    BY DEF Counted, Granted
  <1>2. twice \in SUBSET Lease
    BY DEF LeaseTypeOK
  <1> QED
    BY <1>1, <1>2, LeaseAssumption, FS_Subset, FS_CardinalityType

\* A step that takes a slot for l.
LEMMA SlotTaken ==
  ASSUME LeaseTypeOK, SlotsOK, NEW l \in Lease,
         up' = up, up = "up", HasRoom, active' = active + 1, twice' = twice,
         l \notin Counted, Counted' = Counted \union {l}, Granted' \subseteq Granted \union {l}
  PROVE  SlotsOK'
  <1>1. Cardinality(Counted') = Cardinality(Counted) + 1
    BY SlotSets, FS_AddElement
  <1>2. IsFiniteSet(Granted \union {l}) /\ Cardinality(Granted \union {l}) <= Cardinality(Granted) + 1
    <2>1. /\ IsFiniteSet(Granted \union {l})
          /\ Cardinality(Granted \union {l})
               = IF l \in Granted THEN Cardinality(Granted) ELSE Cardinality(Granted) + 1
      BY SlotSets, FS_AddElement
    <2> QED
      BY <2>1, SlotSets
  <1>3. Cardinality(Granted') <= Cardinality(Granted) + 1 /\ Cardinality(Granted') \in Nat
    <2>1. Cardinality(Granted') \in Nat /\ Cardinality(Granted \union {l}) \in Nat
          /\ Cardinality(Granted') <= Cardinality(Granted \union {l})
      BY <1>2, FS_Subset, FS_CardinalityType
    <2> QED
      BY <1>2, <2>1, SlotSets
  <1>4. Cardinality(Granted) < Cap + Cardinality(twice)
    BY CapAssumption, SlotSets DEF SlotsOK, CountsMatch, HasRoom, LeaseTypeOK
  <1>5. Cardinality(Granted') <= Cap + Cardinality(twice')
    BY <1>3, <1>4, CapAssumption, SlotSets
  <1>6. active' <= Cardinality(Counted') /\ Cardinality(Counted') <= active' + Cardinality(twice')
    BY <1>1, SlotSets DEF SlotsOK, CountsMatch, LeaseTypeOK
  <1> QED
    BY <1>5, <1>6 DEF SlotsOK, CountsMatch

\* A step that gives the slot of l back.
LEMMA SlotGiven ==
  ASSUME LeaseTypeOK, SlotsOK, NEW l \in Lease,
         up' = up, active' = Less(active), twice' = twice,
         l \in Counted, Counted' = Counted \ {l}, Granted' \subseteq Granted
  PROVE  SlotsOK'
  <1>1. Cardinality(Counted') = Cardinality(Counted) - 1
    BY SlotSets, FS_RemoveElement
  <1>2. Cardinality(Counted) # 0
    BY SlotSets, FS_EmptySet
  <1>3. Cardinality(Granted') <= Cardinality(Granted) /\ Cardinality(Granted') \in Nat
    BY SlotSets, FS_Subset, FS_CardinalityType
  <1>4. up # "up" => active' = 0
    BY DEF SlotsOK, Less
  <1>5. active' <= Cardinality(Counted') /\ Cardinality(Counted') <= active' + Cardinality(twice')
    BY <1>1, <1>2, SlotSets DEF Less, SlotsOK, CountsMatch, LeaseTypeOK
  <1>6. Cardinality(Granted') <= Cap + Cardinality(twice')
    BY <1>3, SlotSets, CapAssumption DEF SlotsOK
  <1> QED
    BY <1>4, <1>5, <1>6 DEF SlotsOK, CountsMatch

\* A roll-back that finds the slot of l given back: the counter loses a second.
LEMMA SlotLost ==
  ASSUME LeaseTypeOK, SlotsOK, NEW l \in Lease,
         up' = up, active' = Less(active), l \notin twice, twice' = twice \union {l},
         Counted' = Counted, Granted' \subseteq Granted
  PROVE  SlotsOK'
  <1>1. Cardinality(twice') = Cardinality(twice) + 1
    BY SlotSets, FS_AddElement
  <1>2. Cardinality(Granted') <= Cardinality(Granted) /\ Cardinality(Granted') \in Nat
    BY SlotSets, FS_Subset, FS_CardinalityType
  <1>3. up # "up" => active' = 0
    BY DEF SlotsOK, Less
  <1>4. active' <= Cardinality(Counted') /\ Cardinality(Counted') <= active' + Cardinality(twice')
    BY <1>1, SlotSets DEF Less, SlotsOK, CountsMatch, LeaseTypeOK
  <1>5. Cardinality(Granted') <= Cap + Cardinality(twice')
    BY <1>1, <1>2, SlotSets, CapAssumption DEF SlotsOK
  <1> QED
    BY <1>3, <1>4, <1>5 DEF SlotsOK, CountsMatch

\* A step that leaves the slots alone.
LEMMA SlotsFrame ==
  ASSUME LeaseTypeOK, SlotsOK, active' = active, twice' = twice,
         up' # "up" => up # "up",
         Counted' = Counted, Granted' \subseteq Granted
  PROVE  SlotsOK'
  <1>1. Cardinality(Granted') <= Cardinality(Granted) /\ Cardinality(Granted') \in Nat
    BY SlotSets, FS_Subset, FS_CardinalityType
  <1>2. Cardinality(Granted') <= Cap + Cardinality(twice')
    BY <1>1, SlotSets, CapAssumption DEF SlotsOK
  <1> QED
    BY <1>2 DEF SlotsOK, CountsMatch

\* The commit of a release or an expiry.
LEMMA GiveBackStep ==
  ASSUME LeaseTypeOK, SlotsOK, NEW l \in Lease, GiveBack(l), mark[l] \in {"released", "expired"},
         up' = up, twice' = twice,
         \A m \in Lease : acq'[m] = acq[m] \/ acq'[m] = "gone"
  PROVE  SlotsOK'
  <1> USE DEF LeaseTypeOK, MemState, Counted, Granted, Admitted
  <1>1. CASE mem[l] = "acquired"
    <2>1. mem' = [mem EXCEPT ![l] = mark[l]] /\ active' = Less(active)
      BY <1>1 DEF GiveBack
    <2>2. l \in Counted /\ Counted' = Counted \ {l}
      BY <1>1, <2>1
    <2>3. Granted' \subseteq Granted
      BY <2>1
    <2> HIDE DEF LeaseTypeOK, Counted, Granted
    <2> QED
      BY <2>1, <2>2, <2>3, SlotGiven
  <1>2. CASE mem[l] # "acquired"
    <2>1. mem' = mem /\ active' = active
      BY <1>2 DEF GiveBack
    <2>2. Counted' = Counted /\ Granted' \subseteq Granted
      BY <2>1
    <2> HIDE DEF LeaseTypeOK, Counted, Granted
    <2> QED
      BY <2>1, <2>2, SlotsFrame
  <1> QED
    BY <1>1, <1>2

LEMMA SlotsStep ==
  ASSUME LeaseInv, [Next]_vars
  PROVE  SlotsOK'
  <1> USE DEF LeaseInv
  <1>1. ASSUME NEW l \in Lease, Admit(l) PROVE SlotsOK'
    <2>1. mem[l] = "none" /\ l \notin Counted
      BY <1>1 DEF Admit, LeaseOK, Counted
    <2>2. mem' = [mem EXCEPT ![l] = "acquired"] /\ acq' = [acq EXCEPT ![l] = "applying"]
      BY <1>1 DEF Admit
    <2>3. Counted' = Counted \union {l} /\ Granted' \subseteq Granted \union {l}
      BY <2>2 DEF Counted, Granted, LeaseTypeOK
    <2> QED
      BY <1>1, <2>1, <2>3, SlotTaken DEF Admit, restVars, histVars
  <1>2. ASSUME NEW l \in Lease, AcquireErr(l) PROVE SlotsOK'
    <2>1. up' = up /\ up = "up"
      BY <1>2 DEF AcquireErr, LeaseOK, restVars
    <2>2. CASE mem[l] # "acquired"
      <3>1. l \notin twice /\ twice' = twice \union {l} /\ active' = Less(active)
        BY <1>2, <2>2 DEF AcquireErr, LeaseOK
      <3>2. mem' = [mem EXCEPT ![l] = "none"] /\ acq' = [acq EXCEPT ![l] = "gone"]
        BY <1>2 DEF AcquireErr
      <3>3. Counted' = Counted /\ Granted' \subseteq Granted
        BY <2>2, <3>2 DEF Counted, Granted, LeaseTypeOK, MemState, Admitted
      <3> QED
        BY <2>1, <3>1, <3>3, SlotLost
    <2>3. CASE mem[l] = "acquired"
      <3>1. mem' = [mem EXCEPT ![l] = "none"] /\ acq' = [acq EXCEPT ![l] = "gone"]
        BY <1>2 DEF AcquireErr
      <3>2. l \in Counted /\ Counted' = Counted \ {l} /\ Granted' \subseteq Granted
        BY <2>3, <3>1 DEF Counted, Granted, LeaseTypeOK, MemState, Admitted
      <3> QED
        BY <1>2, <2>1, <2>3, <3>2, SlotGiven DEF AcquireErr
    <2> QED
      BY <2>2, <2>3
  <1>3. ASSUME NEW l \in Lease, ReleaseOk(l) PROVE SlotsOK'
    <2>1. mark[l] = "released"
      BY <1>3 DEF ReleaseOk, LeaseOK
    <2>2. \A m \in Lease : acq'[m] = acq[m] \/ acq'[m] = "gone"
      BY <1>3 DEF ReleaseOk, LeaseTypeOK
    <2> QED
      BY <1>3, <2>1, <2>2, GiveBackStep DEF ReleaseOk, restVars
  <1>4. ASSUME NEW s \in Sweeper, NEW l \in Lease, SweepOk(s, l) PROVE SlotsOK'
    <2>1. mark[l] \in {"expired", "reclaimed"}
      BY <1>4 DEF SweepOk, LeaseOK
    <2>2. acq' = acq /\ up' = up /\ twice' = twice
      BY <1>4 DEF SweepOk, callVars, restVars, histVars
    <2>3. CASE mark[l] = "expired"
      BY <1>4, <2>2, <2>3, GiveBackStep DEF SweepOk
    <2>4. CASE mark[l] = "reclaimed"
      <3>1. mem[l] # "acquired"
        BY <2>4 DEF LeaseOK
      <3>2. mem' = [mem EXCEPT ![l] = "none"] /\ active' = active
        BY <1>4, <2>4 DEF SweepOk
      <3>3. Counted' = Counted /\ Granted' \subseteq Granted
        BY <2>2, <3>1, <3>2 DEF Counted, Granted, LeaseTypeOK, MemState
      <3> QED
        BY <2>2, <3>2, <3>3, SlotsFrame
    <2> QED
      BY <2>1, <2>3, <2>4
  <1>5. ASSUME Crash PROVE SlotsOK'
    <2>1. Counted' = {} /\ Granted' = {} /\ twice' = {}
      BY <1>5 DEF Crash, Counted, Granted
    <2>2. Cardinality(Counted') = 0 /\ Cardinality(Granted') = 0 /\ Cardinality(twice') = 0
      BY <2>1, FS_EmptySet
    <2> QED
      BY <1>5, <2>2, CapAssumption DEF Crash, SlotsOK, CountsMatch
  <1>6. ASSUME Restore PROVE SlotsOK'
    <2>1. active = 0 /\ \A l \in Lease : mem[l] = "none" /\ acq[l] \in {"idle", "gone"}
      BY <1>6 DEF Restore, LeaseOK, SlotsOK
    <2>2. Counted' = live
      BY <1>6, <2>1 DEF Restore, Counted, LeaseTypeOK
    <2>3. Granted' = {}
      BY <1>6, <2>1 DEF Restore, Granted, Admitted, callVars
    <2>4. Cardinality(Granted') = 0
      BY <2>3, FS_EmptySet
    <2>5. Cardinality(live) \in Nat
      BY LeaseAssumption, FS_Subset, FS_CardinalityType DEF LeaseTypeOK
    <2>6. active' = Cardinality(Counted')
      BY <1>6, <2>1, <2>2, <2>5 DEF Restore
    <2>7. twice' = twice /\ up' = "up"
      BY <1>6 DEF Restore, histVars
    <2>8. Cardinality(twice') \in Nat /\ Cardinality(Counted') \in Nat
      BY <2>2, <2>5, <2>7, SlotSets
    <2> QED
      BY <2>4, <2>6, <2>7, <2>8, CapAssumption DEF SlotsOK, CountsMatch
  <1>7. ASSUME mem' = mem, active' = active, twice' = twice, up' = "up" \/ up # "up",
               \A m \in Lease : acq'[m] \in Admitted => acq[m] \in Admitted
        PROVE  SlotsOK'
    <2>1. Counted' = Counted /\ Granted' \subseteq Granted
      BY <1>7 DEF Counted, Granted
    <2> QED
      BY <1>7, <2>1, SlotsFrame
  <1> USE DEF LeaseTypeOK, Admitted, callVars, poolVars, restVars, histVars
  <1>8. ASSUME NEW l \in Lease,
               AcquireOk(l) \/ DropAcquire(l) \/ StartRelease(l) \/ AlreadyReleased(l) \/ ReleaseErr(l)
        PROVE  SlotsOK'
    <2>1. up = "up" /\ UNCHANGED <<mem, active, twice, up>>
      BY <1>8 DEF AcquireOk, DropAcquire, StartRelease, AlreadyReleased, ReleaseErr, LeaseOK
    <2>2. \A m \in Lease : acq'[m] \in Admitted => acq[m] \in Admitted
      BY <1>8 DEF AcquireOk, DropAcquire, StartRelease, AlreadyReleased, ReleaseErr
    <2> QED
      BY <1>7, <2>1, <2>2
  <1>9. ASSUME NEW s \in Sweeper, StartSweep(s) \/ PlanExpire(s) \/ PlanReclaim(s) PROVE SlotsOK'
    BY <1>7, <1>9 DEF StartSweep, PlanExpire, PlanReclaim
  <1>10. ASSUME NEW s \in Sweeper, NEW l \in Lease, SweepErr(s, l) PROVE SlotsOK'
    BY <1>7, <1>10 DEF SweepErr
  <1>11. ASSUME NEW l \in Lease, DropTransition(l) PROVE SlotsOK'
    BY <1>7, <1>11 DEF DropTransition
  <1>12. ASSUME NEW l \in Lease, Expire(l) PROVE SlotsOK'
    BY <1>7, <1>12 DEF Expire
  <1>13. ASSUME Load \/ \E l \in Lease : Settle(l) \/ SettleErr(l) PROVE SlotsOK'
    BY <1>7, <1>13 DEF Load, Settle, SettleErr
  <1>14. ASSUME UNCHANGED vars PROVE SlotsOK'
    BY <1>7, <1>14 DEF vars
  <1> QED
    BY <1>1, <1>2, <1>3, <1>4, <1>5, <1>6, <1>8, <1>9, <1>10, <1>11, <1>12, <1>13, <1>14
    DEF Next, Answer, SweepStep, StartUp

-----------------------------------------------------------------------------
(* The theorems                                                            *)

THEOREM LeaseInvHolds == Spec => []LeaseInv
  <1>1. Init => LeaseInv
    <2> SUFFICES ASSUME Init PROVE LeaseInv
      OBVIOUS
    <2>1. LeaseTypeOK
      BY DEF Init, LeaseTypeOK, MemState, DiskState, Settled
    <2>2. \A l \in Lease : LeaseOK(l)
      BY TaskAssumption DEF Init, LeaseOK, Admitted
    <2>3. Counted = {} /\ Granted = {} /\ twice = {}
      BY DEF Init, Counted, Granted
    <2>4. Cardinality(Counted) = 0 /\ Cardinality(Granted) = 0 /\ Cardinality(twice) = 0
      BY <2>3, FS_EmptySet
    <2>5. SlotsOK
      BY <2>4, CapAssumption DEF Init, SlotsOK, CountsMatch
    <2> QED
      BY <2>1, <2>2, <2>5 DEF LeaseInv
  <1>2. LeaseInv /\ [Next]_vars => LeaseInv'
    <2> SUFFICES ASSUME LeaseInv, [Next]_vars PROVE LeaseInv'
      OBVIOUS
    <2>1. LeaseTypeOK'
      BY TypeStep DEF LeaseInv
    <2>2. \A l \in Lease : LeaseOK(l)'
      BY LeaseStep DEF LeaseInv
    <2>3. SlotsOK'
      BY SlotsStep
    <2> QED
      BY <2>1, <2>2, <2>3 DEF LeaseInv
  <1> QED
    BY <1>1, <1>2, PTL DEF Spec

\* LeaseTypeOK: every value of the pool, the projection and the calls stays
\* in its range, the counter of active leases included.
THEOREM LeaseTypeCorrect == Spec => []LeaseTypeOK
  <1>1. LeaseInv => LeaseTypeOK
    BY DEF LeaseInv
  <1> QED
    BY <1>1, LeaseInvHolds, PTL

\* SlotsAddUp: however acquire, release, reclaim_expired and restore
\* interleave, fail and crash, the counter is the number of acquired records
\* and the leases in use never exceed the cap, up to one slot for every
\* roll-back that came after the expiry of its lease since the last restart.
THEOREM SlotsCorrect == Spec => []SlotsAddUp
  <1>1. LeaseInv => SlotsAddUp
    <2> SUFFICES ASSUME LeaseInv PROVE CountsMatch /\ NoOvercommit
      BY DEF SlotsAddUp
    <2>1. InUse \subseteq Granted
      BY DEF LeaseInv, LeaseOK, InUse, Granted, Admitted
    <2>2. Cardinality(InUse) <= Cardinality(Granted) /\ Cardinality(InUse) \in Nat
      BY <2>1, SlotSets, FS_Subset, FS_CardinalityType DEF LeaseInv
    <2>3. CountsMatch /\ Cardinality(Granted) <= Cap + Cardinality(twice)
      BY DEF LeaseInv, SlotsOK
    <2>4. Cardinality(InUse) <= Cap + Cardinality(twice)
      BY <2>2, <2>3, SlotSets, CapAssumption DEF LeaseInv
    <2> QED
      BY <2>3, <2>4 DEF NoOvercommit
  <1> QED
    BY <1>1, LeaseInvHolds, PTL

\* ReleaseSurvives: a release answered as done is never undone, in the pool or
\* in the projection, by a late write, a sweep, a crash or a restore.
THEOREM ReleaseCorrect == Spec => []ReleaseSurvives
  <1>1. LeaseInv => ReleaseSurvives
    BY DEF LeaseInv, LeaseOK, LeaseTypeOK, ReleaseSurvives
  <1> QED
    BY <1>1, LeaseInvHolds, PTL
=============================================================================
