---------------------------- MODULE StreamProofs ----------------------------
(***************************************************************************)
(* EventHub: the order of each stream and what a replay may lack, for      *)
(* every number of publishers; the implementation of OrderedLog when all   *)
(* of them take the lock.  GuiResume, for one lagging forwarder among any  *)
(* number of session publishers: types, the order of the streams, and what *)
(* the view of the client may lack.                                        *)
(***************************************************************************)
EXTENDS GuiResume, SequenceTheorems, FiniteSetTheorems, TLAPS

-----------------------------------------------------------------------------
(* Types                                                                   *)

LEMMA HubTypeStep == HubTypeOK /\ [HubNext]_hubVars => HubTypeOK'
  <1> SUFFICES ASSUME HubTypeOK, [HubNext]_hubVars PROVE HubTypeOK'
    OBVIOUS
  <1> USE HubCapacityAssumption, PubAssumption DEF HubTypeOK
  <1>1. ASSUME NEW p \in Pub, Lock(p) \/ Unlock(p) PROVE HubTypeOK'
    BY <1>1 DEF Lock, Unlock
  <1>2. ASSUME NEW p \in Pub, Number(p) PROVE HubTypeOK'
    <2>1. by' \in Seq(Pub)
      BY <1>2, AppendProperties DEF Number
    <2>2. num' \in [Pub -> Nat]
      BY <1>2 DEF Number
    <2> QED
      BY <1>2, <2>1, <2>2 DEF Number, InFlight
  <1>3. ASSUME NEW p \in Pub, Retain(p) PROVE HubTypeOK'
    <2>1. WithRoom(ring) \in Seq(Nat) /\ Len(WithRoom(ring)) < Capacity
      BY HeadTailProperties DEF WithRoom
    <2>2. ring' \in Seq(Nat) /\ Len(ring') <= Capacity
      BY <1>3, <2>1, AppendProperties DEF Retain
    <2> QED
      BY <1>3, <2>2 DEF Retain, InFlight
  <1>4. ASSUME NEW p \in Pub, Broadcast(p) PROVE HubTypeOK'
    <2>1. sent' \in Seq(Nat)
      BY <1>4, AppendProperties DEF Broadcast
    <2> QED
      BY <1>4, <2>1 DEF Broadcast
  <1>5. CASE UNCHANGED hubVars
    BY <1>5 DEF hubVars
  <1> QED
    BY <1>1, <1>2, <1>3, <1>4, <1>5 DEF HubNext, Publish

\* The hub is well typed and the ring stays within its capacity (WithRoom).
THEOREM HubTypeCorrect == HubSpec => []HubTypeOK
  <1>1. HubInit => HubTypeOK
    BY HubCapacityAssumption DEF HubInit, HubTypeOK
  <1> QED
    BY <1>1, HubTypeStep, PTL DEF HubSpec

-----------------------------------------------------------------------------
(* The inductive invariant                                                 *)

\* terminal_hold belongs to the one session publisher that is not idle.
LockInv == \A p \in SessionPub : pc[p] # "idle" => holder = p

\* A publisher in flight has a number of its own.
NumInv ==
  \A p \in Pub : pc[p] \in InFlight => num[p] \in 1..Len(by) /\ by[num[p]] = p

\* What is retained or broadcast was numbered.
KnownInv ==
  /\ \A i \in 1..Len(ring) : ring[i] \in 1..Len(by)
  /\ \A i \in 1..Len(sent) : sent[i] \in 1..Len(by)

\* The number in a publisher's hand is larger than those of its stream before.
AheadInv ==
  \A p \in Pub :
    /\ pc[p] = "numbered" =>
         \A i \in 1..Len(ring) : SameStream(by[ring[i]], p) => ring[i] < num[p]
    /\ pc[p] \in InFlight =>
         \A i \in 1..Len(sent) : SameStream(by[sent[i]], p) => sent[i] < num[p]

RingOrder == \A i, j \in 1..Len(ring) :
               i < j /\ SameStream(by[ring[i]], by[ring[j]]) => ring[i] < ring[j]
SentOrder == \A i, j \in 1..Len(sent) :
               i < j /\ SameStream(by[sent[i]], by[sent[j]]) => sent[i] < sent[j]

HubInv == /\ HubTypeOK
          /\ LockInv
          /\ NumInv
          /\ KnownInv
          /\ AheadInv
          /\ RingOrder
          /\ SentOrder

\* Two publishers of one stream are never in flight together: the lock.
LEMMA OneInFlight ==
  ASSUME HubInv, NEW p \in Pub, NEW q \in Pub, p # q,
         SameStream(p, q), pc[p] # "idle", pc[q] # "idle"
  PROVE  FALSE
  BY DEF HubInv, LockInv, SameStream

\* Numbering an event keeps the order: its number is larger than every other.
LEMMA NumberStep ==
  ASSUME HubInv, HubTypeOK', NEW p \in Pub, Number(p)
  PROVE  HubInv'
  <1> USE DEF HubInv
  <1>1. /\ Len(by') = Len(by) + 1
        /\ \A n \in 1..Len(by) : by'[n] = by[n]
        /\ by'[Len(by) + 1] = p
        /\ Len(by) \in Nat
    BY AppendProperties DEF Number
  <1>2. ring' = ring /\ sent' = sent /\ holder' = holder
    BY DEF Number
  <1>3. /\ num'[p] = Len(by) + 1 /\ pc'[p] = "numbered"
        /\ \A q \in Pub : q # p => num'[q] = num[q] /\ pc'[q] = pc[q]
    BY DEF Number, HubTypeOK
  <1>4. LockInv'
    <2>1. p \in SessionPub => holder = p
      BY DEF Number, MayNumber, LockInv
    <2> QED
      BY <1>2, <1>3, <2>1, PubAssumption DEF LockInv, Pub
  <1>5. NumInv'
    BY <1>1, <1>3 DEF NumInv
  <1>6. KnownInv'
    BY <1>1, <1>2 DEF KnownInv
  <1>7. /\ \A i \in 1..Len(ring) : ring[i] \in 1..Len(by) /\ by'[ring[i]] = by[ring[i]]
        /\ \A i \in 1..Len(sent) : sent[i] \in 1..Len(by) /\ by'[sent[i]] = by[sent[i]]
    BY <1>1 DEF KnownInv
  <1>8. AheadInv'
    <2> SUFFICES ASSUME NEW q \in Pub
                 PROVE  /\ pc'[q] = "numbered" =>
                             \A i \in 1..Len(ring) :
                                SameStream(by[ring[i]], q) => ring[i] < num'[q]
                        /\ pc'[q] \in InFlight =>
                             \A i \in 1..Len(sent) :
                                SameStream(by[sent[i]], q) => sent[i] < num'[q]
      BY <1>2, <1>7 DEF AheadInv
    <2>1. CASE q = p
      BY <2>1, <1>1, <1>3, <1>7
    <2>2. CASE q # p
      BY <2>2, <1>3 DEF AheadInv
    <2> QED
      BY <2>1, <2>2
  <1>9. RingOrder'
    BY <1>2, <1>7 DEF RingOrder
  <1>10. SentOrder'
    BY <1>2, <1>7 DEF SentOrder
  <1> QED
    BY <1>4, <1>5, <1>6, <1>8, <1>9, <1>10

\* Making room keeps the rest of the ring in place.
LEMMA RoomFacts ==
  ASSUME HubTypeOK
  PROVE  /\ WithRoom(ring) \in Seq(Nat)
         /\ \E d \in {0, 1} :
              /\ Len(WithRoom(ring)) = Len(ring) - d
              /\ \A i \in 1..Len(WithRoom(ring)) : WithRoom(ring)[i] = ring[i + d]
  <1> USE DEF HubTypeOK, WithRoom
  <1>1. CASE Len(ring) = Capacity
    <2>1. ring # <<>>
      BY <1>1, HubCapacityAssumption
    <2>2. /\ Tail(ring) \in Seq(Nat)
          /\ Len(Tail(ring)) = Len(ring) - 1
          /\ \A i \in 1..Len(Tail(ring)) : Tail(ring)[i] = ring[i + 1]
      BY <2>1, HeadTailProperties
    <2> QED
      BY <1>1, <2>2
  <1>2. CASE Len(ring) # Capacity
    <2>1. Len(ring) \in Nat
      OBVIOUS
    <2> QED
      BY <1>2, <2>1
  <1> QED
    BY <1>1, <1>2

LEMMA RetainStep ==
  ASSUME HubInv, HubTypeOK', NEW p \in Pub, Retain(p)
  PROVE  HubInv'
  <1> USE DEF HubInv
  <1> DEFINE w == WithRoom(ring)
  <1>1. PICK d \in {0, 1} :
          /\ w \in Seq(Nat)
          /\ Len(w) = Len(ring) - d
          /\ \A i \in 1..Len(w) : w[i] = ring[i + d]
    BY RoomFacts
  <1>2. /\ Len(ring') = Len(w) + 1
        /\ \A i \in 1..Len(w) : ring'[i] = w[i]
        /\ ring'[Len(w) + 1] = num[p]
        /\ Len(w) \in Nat
    BY <1>1, AppendProperties DEF Retain, HubTypeOK
  <1> HIDE DEF w
  <1>3. by' = by /\ sent' = sent /\ num' = num /\ holder' = holder
    BY DEF Retain
  <1>4. /\ pc[p] = "numbered" /\ pc'[p] = "retained"
        /\ \A q \in Pub : q # p => pc'[q] = pc[q]
    BY DEF Retain, HubTypeOK
  <1>5. \A i \in 1..Len(w) : /\ i + d \in 1..Len(ring)
                             /\ ring'[i] = ring[i + d]
    <2>1. Len(ring) \in Nat
      BY DEF HubTypeOK
    <2>2. TAKE i \in 1..Len(w)
    <2>3. i + d \in 1..Len(ring)
      BY <1>1, <1>2, <2>1
    <2> QED
      BY <1>1, <1>2, <2>3
  <1>6. LockInv' /\ NumInv'
    BY <1>3, <1>4, PubAssumption DEF LockInv, NumInv, InFlight, Pub
  <1>7. KnownInv'
    <2>1. num[p] \in 1..Len(by)
      BY <1>4 DEF NumInv, InFlight
    <2>2. ASSUME NEW i \in 1..Len(ring') PROVE ring'[i] \in 1..Len(by)
      <3>1. CASE i \in 1..Len(w)
        BY <3>1, <1>5 DEF KnownInv
      <3>2. CASE i = Len(w) + 1
        BY <3>2, <2>1, <1>2
      <3> QED
        BY <3>1, <3>2, <1>2
    <2> QED
      BY <2>2, <1>3 DEF KnownInv
  <1>8. RingOrder'
    <2> SUFFICES ASSUME NEW i \in 1..Len(ring'), NEW j \in 1..Len(ring'), i < j,
                        SameStream(by[ring'[i]], by[ring'[j]])
                 PROVE  ring'[i] < ring'[j]
      BY <1>3 DEF RingOrder
    <2>1. i \in 1..Len(w)
      BY <1>2
    <2>2. CASE j \in 1..Len(w)
      <3>1. i + d \in 1..Len(ring) /\ j + d \in 1..Len(ring) /\ i + d < j + d
        BY <2>1, <2>2, <1>1, <1>2, <1>5
      <3>2. ring'[i] = ring[i + d] /\ ring'[j] = ring[j + d]
        BY <2>1, <2>2, <1>5
      <3> QED
        BY <3>1, <3>2 DEF RingOrder
    <2>3. CASE j = Len(w) + 1
      <3>1. ring'[j] = num[p] /\ by[num[p]] = p
        BY <2>3, <1>2, <1>4 DEF NumInv, InFlight
      <3> QED
        BY <2>1, <3>1, <1>4, <1>5 DEF AheadInv
    <2> QED
      BY <2>2, <2>3, <1>2
  <1>9. SentOrder'
    BY <1>3 DEF SentOrder
  <1>10. AheadInv'
    <2> SUFFICES ASSUME NEW q \in Pub
                 PROVE  /\ pc'[q] = "numbered" =>
                             \A i \in 1..Len(ring') :
                                SameStream(by[ring'[i]], q) => ring'[i] < num[q]
                        /\ pc'[q] \in InFlight =>
                             \A i \in 1..Len(sent) :
                                SameStream(by[sent[i]], q) => sent[i] < num[q]
      BY <1>3 DEF AheadInv
    <2>1. pc'[q] \in InFlight => pc[q] \in InFlight
      BY <1>4 DEF InFlight
    <2>2. ASSUME pc'[q] = "numbered", NEW i \in 1..Len(ring'),
                 SameStream(by[ring'[i]], q)
          PROVE  ring'[i] < num[q]
      <3>1. q # p /\ pc[q] = "numbered"
        BY <2>2, <1>4
      <3>2. CASE i \in 1..Len(w)
        BY <2>2, <3>1, <3>2, <1>5 DEF AheadInv
      <3>3. CASE i = Len(w) + 1
        <4>1. by[ring'[i]] = p
          BY <3>3, <1>2, <1>4 DEF NumInv, InFlight
        <4>2. FALSE
          BY <4>1, <2>2, <3>1, <1>4, OneInFlight
        <4> QED
          BY <4>2
      <3> QED
        BY <3>2, <3>3, <1>2
    <2> QED
      BY <2>1, <2>2 DEF AheadInv
  <1> QED
    BY <1>6, <1>7, <1>8, <1>9, <1>10

\* A broadcast appends the largest number of its stream so far.
LEMMA BroadcastStep ==
  ASSUME HubInv, HubTypeOK', NEW p \in Pub, Broadcast(p)
  PROVE  HubInv'
  <1> USE DEF HubInv
  <1>1. /\ Len(sent') = Len(sent) + 1
        /\ \A i \in 1..Len(sent) : sent'[i] = sent[i]
        /\ sent'[Len(sent) + 1] = num[p]
        /\ Len(sent) \in Nat
    BY AppendProperties DEF Broadcast, HubTypeOK
  <1>2. by' = by /\ ring' = ring /\ num' = num
    BY DEF Broadcast
  <1>3. /\ pc[p] = "retained" /\ pc'[p] \in {"idle", "locked"}
        /\ \A q \in Pub : q # p => pc'[q] = pc[q]
    BY DEF Broadcast, HubTypeOK
  <1>4. num[p] \in 1..Len(by) /\ by[num[p]] = p
    BY <1>3 DEF NumInv, InFlight
  <1>5. LockInv'
    <2>1. CASE p \in SessionPub
      <3>1. \A q \in SessionPub : q # p => pc[q] = "idle"
        BY <2>1, <1>3 DEF LockInv
      <3>2. pc'[p] # "idle" => holder' = p
        BY <2>1, <1>3 DEF Broadcast, LockInv, HubTypeOK
      <3> QED
        BY <3>1, <3>2, <1>3 DEF LockInv, Pub
    <2>2. CASE p \notin SessionPub
      BY <2>2, <1>3 DEF Broadcast, LockInv, Pub
    <2> QED
      BY <2>1, <2>2
  <1>6. NumInv'
    BY <1>2, <1>3 DEF NumInv, InFlight
  <1>7. KnownInv'
    <2>1. ASSUME NEW i \in 1..Len(sent') PROVE sent'[i] \in 1..Len(by)
      <3>1. CASE i \in 1..Len(sent)
        BY <3>1, <1>1 DEF KnownInv
      <3>2. CASE i = Len(sent) + 1
        BY <3>2, <1>1, <1>4
      <3> QED
        BY <3>1, <3>2, <1>1
    <2> QED
      BY <2>1, <1>2 DEF KnownInv
  <1>8. SentOrder'
    <2> SUFFICES ASSUME NEW i \in 1..Len(sent'), NEW j \in 1..Len(sent'), i < j,
                        SameStream(by[sent'[i]], by[sent'[j]])
                 PROVE  sent'[i] < sent'[j]
      BY <1>2 DEF SentOrder
    <2>1. i \in 1..Len(sent)
      BY <1>1
    <2>2. CASE j \in 1..Len(sent)
      BY <2>1, <2>2, <1>1 DEF SentOrder
    <2>3. CASE j = Len(sent) + 1
      BY <2>1, <2>3, <1>1, <1>3, <1>4 DEF AheadInv, InFlight
    <2> QED
      BY <2>2, <2>3, <1>1
  <1>9. RingOrder'
    BY <1>2 DEF RingOrder
  <1>10. AheadInv'
    <2>1. ASSUME NEW q \in Pub, pc'[q] = "numbered", NEW i \in 1..Len(ring),
                 SameStream(by[ring[i]], q)
          PROVE  ring[i] < num[q]
      BY <2>1, <1>3 DEF AheadInv
    <2>2. ASSUME NEW q \in Pub, pc'[q] \in InFlight, NEW i \in 1..Len(sent'),
                 SameStream(by[sent'[i]], q)
          PROVE  sent'[i] < num[q]
      <3>1. q # p /\ pc[q] \in InFlight
        BY <2>2, <1>3 DEF InFlight
      <3>2. CASE i \in 1..Len(sent)
        BY <2>2, <3>1, <3>2, <1>1 DEF AheadInv
      <3>3. CASE i = Len(sent) + 1
        BY <2>2, <3>1, <3>3, <1>1, <1>3, <1>4, OneInFlight DEF InFlight
      <3> QED
        BY <3>2, <3>3, <1>1
    <2> QED
      BY <2>1, <2>2, <1>2 DEF AheadInv
  <1> QED
    BY <1>5, <1>6, <1>7, <1>8, <1>9, <1>10

\* Taking or leaving the lock with nothing in hand.
LEMMA LockStep ==
  ASSUME HubInv, HubTypeOK', NEW p \in Pub, Lock(p) \/ Unlock(p)
  PROVE  HubInv'
  <1> USE DEF HubInv
  <1>1. by' = by /\ ring' = ring /\ sent' = sent /\ num' = num
    BY DEF Lock, Unlock
  <1>2. /\ pc[p] \in {"idle", "locked"} /\ pc'[p] \in {"idle", "locked"}
        /\ \A q \in Pub : q # p => pc'[q] = pc[q]
    BY DEF Lock, Unlock, HubTypeOK
  <1>3. \A q \in Pub : pc'[q] \in InFlight => pc'[q] = pc[q]
    BY <1>2 DEF InFlight
  <1>4. LockInv'
    <2>1. CASE Lock(p)
      BY <2>1, <1>2, PubAssumption DEF Lock, LockInv, Pub
    <2>2. CASE Unlock(p)
      BY <2>2, <1>2, PubAssumption DEF Unlock, LockInv, Pub, HubTypeOK
    <2> QED
      BY <2>1, <2>2
  <1>5. NumInv'
    BY <1>1, <1>3 DEF NumInv
  <1>6. KnownInv' /\ RingOrder' /\ SentOrder'
    BY <1>1 DEF KnownInv, RingOrder, SentOrder
  <1>7. AheadInv'
    BY <1>1, <1>3 DEF AheadInv, InFlight
  <1> QED
    BY <1>4, <1>5, <1>6, <1>7

LEMMA HubInvStep == HubInv /\ [HubNext]_hubVars => HubInv'
  <1> SUFFICES ASSUME HubInv, [HubNext]_hubVars PROVE HubInv'
    OBVIOUS
  <1>1. HubTypeOK'
    BY HubTypeStep DEF HubInv
  <1>2. CASE UNCHANGED hubVars
    BY <1>2 DEF hubVars, HubInv, HubTypeOK, LockInv, NumInv, KnownInv,
                AheadInv, RingOrder, SentOrder
  <1>3. CASE HubNext
    BY <1>1, <1>3, NumberStep, RetainStep, BroadcastStep, LockStep
       DEF HubNext, Publish
  <1> QED
    BY <1>2, <1>3

LEMMA HubInvInit == HubInit => HubInv
  <1> SUFFICES ASSUME HubInit PROVE HubInv
    OBVIOUS
  <1>1. HubTypeOK
    BY HubCapacityAssumption DEF HubInit, HubTypeOK
  <1> QED
    BY <1>1 DEF HubInit, HubInv, LockInv, NumInv, KnownInv, AheadInv,
                RingOrder, SentOrder, InFlight, Pub

\* The ring and the broadcast channel keep every stream in the order of its
\* numbers, for any number of publishers of both kinds (hub.rs, bus.rs).
THEOREM StreamOrderCorrect == HubSpec => []StreamOrder
  <1>1. HubInv => StreamOrder
    BY DEF HubInv, RingOrder, SentOrder, StreamOrder
  <1> QED
    BY <1>1, HubInvInit, HubInvStep, PTL DEF HubSpec

-----------------------------------------------------------------------------
(* With session publishers only, the hub is an ordered log                 *)

\* What was numbered was broadcast, but for the event in the holder's hand.
SerialInv ==
  /\ HubInv
  /\ \A i \in 1..Len(sent) : sent[i] = i
  /\ \A p \in Pub : pc[p] \in InFlight =>
       num[p] = Len(sent) + 1 /\ Len(by) = Len(sent) + 1
  /\ (\A p \in Pub : pc[p] \notin InFlight) => Len(by) = Len(sent)

LEMMA SerialStep ==
  ASSUME FreePub = {}, SerialInv, [HubNext]_hubVars
  PROVE  SerialInv' /\ [Ordered!Next]_sent
  <1>1. HubInv'
    BY HubInvStep DEF SerialInv
  <1>2. Len(by) \in Nat /\ Len(sent) \in Nat
    BY DEF SerialInv, HubInv, HubTypeOK
  <1>3. ASSUME NEW p \in Pub, NEW q \in Pub, p # q, pc[p] # "idle"
        PROVE  pc[q] = "idle"
    BY <1>3 DEF SerialInv, HubInv, LockInv, Pub
  <1>4. ASSUME NEW p \in Pub, Lock(p) \/ Unlock(p) PROVE SerialInv' /\ sent' = sent
    <2>1. /\ pc[p] \in {"idle", "locked"} /\ pc'[p] \in {"idle", "locked"}
          /\ \A q \in Pub : q # p => pc'[q] = pc[q]
      BY <1>4 DEF Lock, Unlock, SerialInv, HubInv, HubTypeOK
    <2>2. by' = by /\ sent' = sent /\ num' = num
      BY <1>4 DEF Lock, Unlock
    <2>3. \A q \in Pub : pc'[q] \in InFlight <=> pc[q] \in InFlight
      BY <2>1 DEF InFlight
    <2> QED
      BY <1>1, <2>2, <2>3 DEF SerialInv
  <1>5. ASSUME NEW p \in Pub, Number(p) PROVE SerialInv' /\ sent' = sent
    <2>1. pc[p] = "locked"
      BY <1>5 DEF Number, MayNumber, Pub
    <2>2. \A q \in Pub : pc[q] \notin InFlight
      BY <2>1, <1>3 DEF InFlight
    <2>3. Len(by) = Len(sent)
      BY <2>2 DEF SerialInv
    <2>4. sent' = sent /\ Len(by') = Len(by) + 1
      BY <1>5, AppendProperties DEF Number, SerialInv, HubInv, HubTypeOK
    <2>5. /\ num'[p] = Len(by) + 1 /\ pc'[p] = "numbered"
          /\ \A q \in Pub : q # p => pc'[q] = pc[q]
      BY <1>5 DEF Number, SerialInv, HubInv, HubTypeOK
    <2>6. \A q \in Pub : pc'[q] \in InFlight => q = p
      BY <2>2, <2>5
    <2> QED
      BY <1>1, <2>3, <2>4, <2>5, <2>6, <1>2 DEF SerialInv, InFlight
  <1>6. ASSUME NEW p \in Pub, Retain(p) PROVE SerialInv' /\ sent' = sent
    <2>1. by' = by /\ sent' = sent /\ num' = num
      BY <1>6 DEF Retain
    <2>2. \A q \in Pub : pc'[q] \in InFlight <=> pc[q] \in InFlight
      BY <1>6 DEF Retain, InFlight, SerialInv, HubInv, HubTypeOK
    <2> QED
      BY <1>1, <2>1, <2>2 DEF SerialInv
  <1>7. ASSUME NEW p \in Pub, Broadcast(p) PROVE SerialInv' /\ Ordered!Publish
    <2>1. pc[p] = "retained" /\ num[p] = Len(sent) + 1 /\ Len(by) = Len(sent) + 1
      BY <1>7 DEF Broadcast, SerialInv, InFlight
    <2>2. sent' = Append(sent, Len(sent) + 1) /\ by' = by
      BY <1>7, <2>1 DEF Broadcast
    <2>3. /\ Len(sent') = Len(sent) + 1
          /\ \A i \in 1..Len(sent) : sent'[i] = sent[i]
          /\ sent'[Len(sent) + 1] = Len(sent) + 1
      BY <2>2, <1>2, AppendProperties DEF SerialInv, HubInv, HubTypeOK
    <2>4. \A i \in 1..Len(sent') : sent'[i] = i
      BY <2>3, <1>2 DEF SerialInv
    <2>5. \A q \in Pub : pc'[q] \notin InFlight
      <3>1. pc'[p] \in {"idle", "locked"} /\ \A q \in Pub : q # p => pc'[q] = pc[q]
        BY <1>7 DEF Broadcast, SerialInv, HubInv, HubTypeOK
      <3> QED
        BY <3>1, <2>1, <1>3 DEF InFlight
    <2> QED
      BY <1>1, <2>1, <2>2, <2>3, <2>4, <2>5 DEF SerialInv, Ordered!Publish
  <1>8. ASSUME UNCHANGED hubVars PROVE SerialInv' /\ sent' = sent
    BY <1>1, <1>8 DEF hubVars, SerialInv
  <1> QED
    BY <1>4, <1>5, <1>6, <1>7, <1>8 DEF HubNext, Publish, Ordered!Next

\* When every publisher takes terminal_hold, the numbers are drawn and
\* broadcast as one log without gaps: EventHub implements OrderedLog.
THEOREM HubImplementsOrderedLog ==
  ASSUME FreePub = {}
  PROVE  HubSpec => ImplementsOrderedLog
  <1>1. HubInit => SerialInv /\ Ordered!Init
    <2> SUFFICES ASSUME HubInit PROVE SerialInv /\ Ordered!Init
      OBVIOUS
    <2> QED
      BY HubInvInit DEF HubInit, SerialInv, Ordered!Init, InFlight
  <1>2. SerialInv /\ [HubNext]_hubVars => SerialInv' /\ [Ordered!Next]_sent
    BY SerialStep
  <1> QED
    BY <1>1, <1>2, PTL DEF HubSpec, Ordered!Spec, ImplementsOrderedLog

-----------------------------------------------------------------------------
(* With session publishers only, an available replay is complete           *)

\* The last number that was retained.
Retained == IF \E p \in Pub : pc[p] = "numbered" THEN Len(by) - 1 ELSE Len(by)

\* The ring is the window of numbers that ends there.
WindowInv ==
  /\ Len(ring) = 0 => Retained = 0
  /\ \A i \in 1..Len(ring) : ring[i] = Retained - Len(ring) + i

RingInv == SerialInv /\ WindowInv

LEMMA WindowStep ==
  ASSUME FreePub = {}, RingInv, [HubNext]_hubVars
  PROVE  WindowInv'
  <1> USE DEF RingInv
  <1>0. HubTypeOK
    BY DEF SerialInv, HubInv
  <1>1. Len(by) \in Nat /\ Len(ring) \in Nat /\ Retained \in Int
    BY <1>0 DEF HubTypeOK, Retained
  <1>2. ASSUME NEW p \in Pub, NEW q \in Pub, p # q, pc[p] # "idle"
        PROVE  pc[q] = "idle"
    BY <1>2 DEF SerialInv, HubInv, LockInv, Pub
  <1>3. ASSUME UNCHANGED <<by, ring>>,
               \A q \in Pub : pc'[q] = "numbered" <=> pc[q] = "numbered"
        PROVE  WindowInv'
    BY <1>3 DEF WindowInv, Retained
  <1>4. ASSUME NEW p \in Pub, Lock(p) \/ Unlock(p) \/ Broadcast(p) PROVE WindowInv'
    <2>1. UNCHANGED <<by, ring>>
      BY <1>4 DEF Lock, Unlock, Broadcast
    <2>2. \A q \in Pub : pc'[q] = "numbered" <=> pc[q] = "numbered"
      BY <1>0, <1>4 DEF Lock, Unlock, Broadcast, HubTypeOK
    <2> QED
      BY <2>1, <2>2, <1>3
  <1>5. ASSUME NEW p \in Pub, Number(p) PROVE WindowInv'
    <2>1. pc[p] = "locked"
      BY <1>5 DEF Number, MayNumber, Pub
    <2>2. \A q \in Pub : pc[q] # "numbered"
      BY <2>1, <1>2
    <2>3. Len(by') = Len(by) + 1 /\ ring' = ring
      BY <1>0, <1>5, AppendProperties DEF Number, HubTypeOK
    <2>4. pc'[p] = "numbered"
      BY <1>0, <1>5 DEF Number, HubTypeOK
    <2>5. Retained = Len(by) /\ Retained' = Len(by)
      BY <1>1, <2>2, <2>3, <2>4 DEF Retained
    <2> QED
      BY <2>3, <2>5 DEF WindowInv
  <1>6. ASSUME NEW p \in Pub, Retain(p) PROVE WindowInv'
    <2>1. pc[p] = "numbered" /\ num[p] = Len(by)
      BY <1>6 DEF Retain, SerialInv, InFlight
    <2>2. \A q \in Pub : pc'[q] # "numbered"
      BY <1>0, <1>2, <1>6, <2>1 DEF Retain, HubTypeOK
    <2>3. Retained = Len(by) - 1 /\ Retained' = Len(by)
      BY <1>1, <1>6, <2>1, <2>2 DEF Retained, Retain
    <2>4. /\ WithRoom(ring) \in Seq(Nat)
          /\ Len(WithRoom(ring)) = 0 => Len(ring) = 0 \/ Len(ring) = 1
          /\ \A i \in 1..Len(WithRoom(ring)) :
               WithRoom(ring)[i] = Retained - Len(WithRoom(ring)) + i
      <3>1. CASE Len(ring) = Capacity
        <4>1. /\ ring # <<>> /\ Tail(ring) \in Seq(Nat) /\ Len(Tail(ring)) = Len(ring) - 1
              /\ \A i \in 1..Len(ring) - 1 : Tail(ring)[i] = ring[i + 1]
          BY <1>0, <1>1, <3>1, HubCapacityAssumption, HeadTailProperties DEF HubTypeOK
        <4> QED
          BY <1>1, <3>1, <4>1 DEF WithRoom, WindowInv
      <3>2. CASE Len(ring) # Capacity
        BY <1>0, <1>1, <3>2 DEF WithRoom, WindowInv, HubTypeOK
      <3> QED
        BY <3>1, <3>2
    <2> DEFINE w == WithRoom(ring)
    <2>5. Len(w) \in Nat
      BY <2>4
    <2>6. ring' = Append(w, Len(by))
      BY <1>6, <2>1 DEF Retain
    <2>7. /\ Len(ring') = Len(w) + 1
          /\ \A i \in 1..Len(w) : ring'[i] = w[i]
          /\ ring'[Len(w) + 1] = Len(by)
      BY <1>1, <2>4, <2>6, AppendProperties
    <2> HIDE DEF w
    <2>8. \A i \in 1..Len(w) : w[i] = Len(by) - 1 - Len(w) + i
      BY <2>3, <2>4 DEF w
    <2>9. \A i \in 1..Len(ring') : ring'[i] = Len(by) - Len(ring') + i
      BY <1>1, <2>5, <2>7, <2>8
    <2> QED
      BY <2>3, <2>5, <2>7, <2>9 DEF WindowInv
  <1>7. CASE UNCHANGED hubVars
    BY <1>7, <1>3 DEF hubVars
  <1> QED
    BY <1>4, <1>5, <1>6, <1>7 DEF HubNext, Publish

\* With every publisher behind terminal_hold, a replay that the hub calls
\* available has every event of its window.
WindowComplete ==
  (\A p \in Pub : pc[p] \notin InFlight) =>
    \A from \in 1..Current : ReplayUnavailable(from) \/ from..Current \subseteq Elements(ring)

LEMMA WindowCorrect ==
  ASSUME FreePub = {}
  PROVE  HubSpec => []WindowComplete
  <1>1. HubInit => RingInv
    <2> SUFFICES ASSUME HubInit PROVE RingInv
      OBVIOUS
    <2> QED
      BY HubInvInit DEF HubInit, RingInv, SerialInv, WindowInv, Retained, InFlight
  <1>2. RingInv /\ [HubNext]_hubVars => RingInv'
    BY SerialStep, WindowStep DEF RingInv
  <1>3. RingInv => WindowComplete
    <2> SUFFICES ASSUME RingInv, \A p \in Pub : pc[p] \notin InFlight,
                        NEW from \in 1..Current, ~ReplayUnavailable(from),
                        NEW n \in from..Current
                 PROVE  n \in Elements(ring)
      BY DEF WindowComplete
    <2>1. Len(by) \in Nat /\ ring \in Seq(Nat) /\ Len(ring) \in Nat
      BY DEF RingInv, SerialInv, HubInv, HubTypeOK
    <2>2. Retained = Len(by)
      BY DEF Retained, InFlight
    <2>3. Len(ring) # 0 /\ ring # <<>>
      BY <2>1, <2>2 DEF RingInv, WindowInv, Current
    <2>4. Head(ring) = ring[1] /\ ring[1] = Len(by) - Len(ring) + 1
      BY <2>1, <2>2, <2>3 DEF RingInv, WindowInv
    <2>5. n - Len(by) + Len(ring) \in 1..Len(ring)
      BY <2>1, <2>3, <2>4 DEF ReplayUnavailable, Current
    <2>6. ring[n - Len(by) + Len(ring)] = n
      BY <2>1, <2>2, <2>5 DEF RingInv, WindowInv, Current
    <2> QED
      BY <2>5, <2>6 DEF Elements
  <1> QED
    BY <1>1, <1>2, <1>3, PTL DEF HubSpec

-----------------------------------------------------------------------------
(* Whoever publishes, session events leave the ring from the front         *)

\* Session events are numbered one at a time, and one that is not in the ring
\* any more is smaller than every one that is.
LateInv ==
  /\ \A p \in SessionPub : pc[p] \in InFlight => \A n \in Known : n <= num[p]
  /\ \A n \in Known :
       \/ n \in Elements(ring)
       \/ \E p \in SessionPub : pc[p] = "numbered" /\ num[p] = n
       \/ \A i \in 1..Len(ring) : ring[i] \in Known => n < ring[i]

\* What the step of one publisher leaves alone.
LEMMA LateFrame ==
  ASSUME LateInv, UNCHANGED <<by, ring>>,
         \A p \in SessionPub : pc'[p] \in InFlight => pc[p] \in InFlight /\ num'[p] = num[p],
         \A p \in SessionPub : pc[p] = "numbered" => pc'[p] = "numbered" /\ num'[p] = num[p]
  PROVE  LateInv'
  <1>1. Known' = Known /\ Elements(ring)' = Elements(ring)
    BY DEF Known, Elements
  <1>2. \A p \in SessionPub : pc'[p] \in InFlight => \A n \in Known' : n <= num'[p]
    BY <1>1 DEF LateInv
  <1>3. \A n \in Known' :
          \/ n \in Elements(ring)'
          \/ \E p \in SessionPub : pc'[p] = "numbered" /\ num'[p] = n
          \/ \A i \in 1..Len(ring') : ring'[i] \in Known' => n < ring'[i]
    BY <1>1 DEF LateInv
  <1> QED
    BY <1>2, <1>3 DEF LateInv

LEMMA LateNumber ==
  ASSUME HubInv, LateInv, NEW p \in Pub, Number(p)
  PROVE  LateInv'
  <1>1. /\ Len(by) \in Nat /\ Len(ring) \in Nat /\ HubTypeOK
        /\ \A i \in 1..Len(ring) : ring[i] \in 1..Len(by)
    BY DEF HubInv, HubTypeOK, KnownInv
  <1>2. /\ Len(by') = Len(by) + 1 /\ ring' = ring
        /\ \A n \in 1..Len(by) : by'[n] = by[n]
        /\ by'[Len(by) + 1] = p
    BY <1>1, AppendProperties DEF Number, HubTypeOK
  <1>3. /\ num'[p] = Len(by) + 1 /\ pc'[p] = "numbered"
        /\ \A q \in Pub : q # p => num'[q] = num[q] /\ pc'[q] = pc[q]
    BY <1>1 DEF Number, HubTypeOK
  <1>4. Known' = IF p \in SessionPub THEN Known \union {Len(by) + 1} ELSE Known
    BY <1>1, <1>2 DEF Known
  <1>5. pc[p] \notin InFlight
    BY DEF Number, MayNumber, InFlight
  <1>6. \A q \in SessionPub : pc'[q] \in InFlight => \A n \in Known' : n <= num'[q]
    <2> SUFFICES ASSUME NEW q \in SessionPub, pc'[q] \in InFlight, NEW n \in Known'
                 PROVE  n <= num'[q]
      OBVIOUS
    <2>1. CASE q = p
      BY <1>1, <1>2, <1>3, <2>1 DEF Known
    <2>2. CASE q # p
      <3>1. pc[q] \in InFlight /\ num'[q] = num[q]
        BY <1>3, <2>2 DEF Pub
      <3>2. p \notin SessionPub
        <4>1. p \in SessionPub => pc[p] # "idle"
          BY DEF Number, MayNumber
        <4> QED
          BY <2>2, <3>1, <4>1, OneInFlight DEF SameStream, Pub, InFlight
      <3> QED
        BY <1>4, <3>1, <3>2 DEF LateInv
    <2> QED
      BY <2>1, <2>2
  <1>7. \A n \in Known' :
          \/ n \in Elements(ring)'
          \/ \E q \in SessionPub : pc'[q] = "numbered" /\ num'[q] = n
          \/ \A i \in 1..Len(ring') : ring'[i] \in Known' => n < ring'[i]
    <2>1. CASE p \in SessionPub
      <3>1. \A i \in 1..Len(ring) : ring[i] \in Known' => ring[i] \in Known
        BY <1>1, <1>4
      <3>2. \A q \in SessionPub : pc[q] = "numbered" => pc'[q] = "numbered" /\ num'[q] = num[q]
        BY <1>3, <1>5 DEF Pub, InFlight
      <3> QED
        BY <1>2, <1>3, <1>4, <2>1, <3>1, <3>2 DEF LateInv, Elements
    <2>2. CASE p \notin SessionPub
      BY <1>2, <1>3, <1>4, <2>2 DEF LateInv, Elements, Pub
    <2> QED
      BY <2>1, <2>2
  <1> QED
    BY <1>6, <1>7 DEF LateInv

LEMMA LateRetain ==
  ASSUME HubInv, LateInv, NEW p \in Pub, Retain(p)
  PROVE  LateInv'
  <1>1. /\ Len(by) \in Nat /\ Len(ring) \in Nat /\ HubTypeOK
        /\ \A i \in 1..Len(ring) : ring[i] \in 1..Len(by)
    BY DEF HubInv, HubTypeOK, KnownInv
  <1>2. Known' = Known /\ Known \subseteq 1..Len(by) /\ num' = num
    BY <1>1 DEF Retain, Known
  <1>3. /\ pc[p] = "numbered" /\ pc'[p] = "retained"
        /\ \A q \in Pub : q # p => pc'[q] = pc[q]
    BY <1>1 DEF Retain, HubTypeOK
  <1>4. num[p] \in 1..Len(by) /\ by[num[p]] = p
    BY <1>3 DEF HubInv, NumInv, InFlight
  <1> DEFINE w == WithRoom(ring)
  <1>5. PICK d \in {0, 1} :
          /\ w \in Seq(Nat) /\ Len(w) = Len(ring) - d
          /\ \A i \in 1..Len(w) : w[i] = ring[i + d]
    <2>1. CASE Len(ring) = Capacity
      <3>1. /\ ring # <<>> /\ Tail(ring) \in Seq(Nat) /\ Len(Tail(ring)) = Len(ring) - 1
            /\ \A i \in 1..Len(ring) - 1 : Tail(ring)[i] = ring[i + 1]
        BY <1>1, <2>1, HubCapacityAssumption, HeadTailProperties DEF HubTypeOK
      <3> QED
        BY <1>1, <2>1, <3>1 DEF WithRoom
    <2>2. CASE Len(ring) # Capacity
      BY <1>1, <2>2 DEF WithRoom, HubTypeOK
    <2> QED
      BY <2>1, <2>2
  <1> HIDE DEF w
  <1>6. ring' = Append(w, num[p])
    BY DEF Retain, w
  <1>7. /\ Len(w) \in Nat /\ Len(ring') = Len(w) + 1
        /\ \A i \in 1..Len(w) : ring'[i] = ring[i + d]
        /\ ring'[Len(w) + 1] = num[p]
    BY <1>1, <1>4, <1>5, <1>6, AppendProperties
  <1>8. \A i \in 1..Len(ring') :
          ring'[i] = num[p] \/ \E j \in (1 + d)..Len(ring) : ring'[i] = ring[j]
    <2> SUFFICES ASSUME NEW i \in 1..Len(ring'), ring'[i] # num[p]
                 PROVE  \E j \in (1 + d)..Len(ring) : ring'[i] = ring[j]
      OBVIOUS
    <2>1. i \in 1..Len(w)
      BY <1>7
    <2>2. i + d \in (1 + d)..Len(ring) /\ ring'[i] = ring[i + d]
      BY <1>1, <1>5, <1>7, <2>1
    <2> QED
      BY <2>2
  <1>9. num[p] \in Elements(ring)'
    BY <1>7 DEF Elements
  <1>10. \A j \in (1 + d)..Len(ring) : ring[j] \in Elements(ring)'
    <2> SUFFICES ASSUME NEW j \in (1 + d)..Len(ring) PROVE ring[j] \in Elements(ring)'
      OBVIOUS
    <2>1. j - d \in 1..Len(w) /\ ring'[j - d] = ring[j]
      BY <1>1, <1>5, <1>7
    <2> QED
      BY <1>7, <2>1 DEF Elements
  <1>11. \A q \in SessionPub : pc'[q] \in InFlight => \A n \in Known' : n <= num'[q]
    <2>1. \A q \in SessionPub : pc'[q] \in InFlight => pc[q] \in InFlight
      BY <1>3 DEF InFlight, Pub
    <2> QED
      BY <1>2, <2>1 DEF LateInv
  \* The session event that is retained is larger than every other one.
  <1>12. ASSUME NEW n \in Known, n # num[p], num[p] \in Known PROVE n < num[p]
    <2>1. p \in SessionPub
      BY <1>4, <1>12 DEF Known
    <2>2. n <= num[p]
      BY <1>3, <2>1 DEF LateInv, InFlight
    <2> QED
      BY <1>2, <1>4, <1>12, <2>2
  <1>13. ASSUME NEW n \in Known
         PROVE  \/ n \in Elements(ring)'
                \/ \E q \in SessionPub : pc'[q] = "numbered" /\ num'[q] = n
                \/ \A i \in 1..Len(ring') : ring'[i] \in Known => n < ring'[i]
    <2>1. CASE n = num[p]
      BY <1>9, <2>1
    <2>2. CASE n # num[p] /\ \A j \in (1 + d)..Len(ring) : ring[j] \in Known => n < ring[j]
      BY <1>8, <1>12, <2>2
    <2>3. CASE n \in Elements(ring) /\ n # num[p]
      <3>1. PICK k \in 1..Len(ring) : ring[k] = n
        BY <2>3 DEF Elements
      <3>2. CASE k >= 1 + d
        BY <1>1, <1>10, <3>1, <3>2
      <3>3. CASE ~(k >= 1 + d)
        <4>1. \A j \in (1 + d)..Len(ring) : k < j
          BY <1>1, <3>3
        <4>2. \A j \in (1 + d)..Len(ring) : ring[j] \in Known => SameStream(by[n], by[ring[j]])
          BY DEF SameStream, Known
        <4>3. \A j \in (1 + d)..Len(ring) : ring[j] \in Known => n < ring[j]
          BY <1>1, <3>1, <4>1, <4>2 DEF HubInv, RingOrder
        <4> QED
          BY <2>2, <2>3, <4>3
      <3> QED
        BY <3>2, <3>3
    <2>4. CASE \E q \in SessionPub : pc[q] = "numbered" /\ num[q] = n /\ q # p
      BY <1>2, <1>3, <2>4 DEF Pub
    <2>5. CASE \A i \in 1..Len(ring) : ring[i] \in Known => n < ring[i]
      <3>1. \A j \in (1 + d)..Len(ring) : ring[j] \in Known => n < ring[j]
        BY <1>1, <2>5
      <3> QED
        BY <2>1, <2>2, <3>1
    <2> QED
      BY <2>1, <2>3, <2>4, <2>5 DEF LateInv
  <1> QED
    BY <1>2, <1>11, <1>13 DEF LateInv

LEMMA LateStep ==
  ASSUME HubInv, LateInv, [HubNext]_hubVars
  PROVE  LateInv'
  <1>0. HubTypeOK
    BY DEF HubInv
  <1>1. ASSUME NEW p \in Pub, Lock(p) \/ Unlock(p) \/ Broadcast(p) PROVE LateInv'
    <2>1. UNCHANGED <<by, ring, num>>
      BY <1>1 DEF Lock, Unlock, Broadcast
    <2>2. \A q \in Pub : /\ pc'[q] \in InFlight => pc[q] \in InFlight
                         /\ pc[q] = "numbered" => pc'[q] = "numbered"
      BY <1>0, <1>1 DEF Lock, Unlock, Broadcast, InFlight, HubTypeOK
    <2> QED
      BY <2>1, <2>2, LateFrame DEF Pub
  <1>2. CASE UNCHANGED hubVars
    BY <1>2, LateFrame DEF hubVars
  <1> QED
    BY <1>1, <1>2, LateNumber, LateRetain DEF HubNext, Publish

\* Where a session event of the front is left, no later one is missing.
SessionsComplete ==
  (\A p \in Pub : pc[p] \notin InFlight) =>
    \A m \in Known \intersect Elements(ring), n \in Known : n >= m => n \in Elements(ring)

LEMMA SessionsCorrect == HubSpec => []SessionsComplete
  <1>1. HubInit => LateInv
    BY DEF HubInit, LateInv, Known, InFlight, Pub
  <1>2. HubInv /\ LateInv /\ [HubNext]_hubVars => HubInv' /\ LateInv'
    BY HubInvStep, LateStep
  <1>3. HubInv /\ LateInv => SessionsComplete
    <2> SUFFICES ASSUME HubInv, LateInv, \A p \in Pub : pc[p] \notin InFlight,
                        NEW m \in Known \intersect Elements(ring), NEW n \in Known, n >= m
                 PROVE  n \in Elements(ring)
      BY DEF SessionsComplete
    <2>1. \A p \in SessionPub : pc[p] # "numbered"
      BY DEF InFlight, Pub
    <2>2. PICK k \in 1..Len(ring) : ring[k] = m
      BY DEF Elements
    <2>3. m \in Nat /\ n \in Nat
      BY DEF Known, HubInv, HubTypeOK
    <2>4. ~(n < ring[k])
      BY <2>2, <2>3
    <2> QED
      BY <2>1, <2>2, <2>4 DEF LateInv
  <1> QED
    BY <1>1, <1>2, <1>3, HubInvInit, PTL DEF HubSpec

\* With every publisher behind terminal_hold an available replay is complete,
\* and whoever publishes besides, session events are missing from a replay only
\* where no earlier one is left in the ring (EventHub::replay).
THEOREM ReplayCorrect == HubSpec => []ReplayIsGapFree
  <1>1. (FreePub = {} => WindowComplete) /\ SessionsComplete => ReplayIsGapFree
    <2> SUFFICES ASSUME FreePub = {} => WindowComplete, SessionsComplete,
                        \A p \in Pub : pc[p] \notin InFlight, NEW from \in 1..Current
                 PROVE  /\ FreePub = {} =>
                             ReplayUnavailable(from) \/ from..Current \subseteq Elements(ring)
                        /\ (\E n \in Known \intersect Elements(ring) : n <= from) =>
                             \A n \in Known : n >= from => n \in Elements(ring)
      BY DEF ReplayIsGapFree
    <2>1. FreePub = {} => ReplayUnavailable(from) \/ from..Current \subseteq Elements(ring)
      BY DEF WindowComplete
    <2>2. ASSUME NEW m \in Known \intersect Elements(ring), m <= from, NEW n \in Known, n >= from
          PROVE  n \in Elements(ring)
      <3>1. n >= m
        BY <2>2 DEF Known
      <3> QED
        BY <3>1 DEF SessionsComplete
    <2> QED
      BY <2>1, <2>2
  <1>2. CASE FreePub = {}
    <2>1. WindowComplete /\ SessionsComplete => ReplayIsGapFree
      BY <1>1
    <2> QED
      BY <1>2, <2>1, WindowCorrect, SessionsCorrect, PTL
  <1>3. CASE FreePub # {}
    <2>1. SessionsComplete => ReplayIsGapFree
      BY <1>1, <1>3
    <2> QED
      BY <2>1, SessionsCorrect, PTL
  <1> QED
    BY <1>2, <1>3

-----------------------------------------------------------------------------
(* A client next to one lagging forwarder: facts about the hub             *)

\* Session events are numbered one at a time: the number in hand is the
\* largest, and every other one was broadcast.  A late diagnostic is retained
\* after the session events of one publication only.
SessionInv ==
  /\ \A p \in SessionPub : pc[p] \in InFlight => \A n \in Known : n <= num[p]
  /\ \A n \in Known : \/ n \in Elements(sent)
                      \/ \E p \in SessionPub : pc[p] \in InFlight /\ num[p] = n
  /\ \A i, j \in 1..Len(ring) :
       i < j /\ ring[i] \notin Known /\ ring[j] \in Known =>
         \A n \in Known : ~(ring[j] < n /\ n < ring[i])

LEMMA Lengths ==
  ASSUME HubTypeOK
  PROVE  /\ Len(by) \in Nat /\ Len(ring) \in Nat /\ Len(sent) \in Nat
         /\ Known \subseteq 1..Len(by)
         /\ \A i \in 1..Len(sent) : sent[i] \in Nat
         /\ \A i \in 1..Len(ring) : ring[i] \in Nat
  BY ElementOfSeq DEF HubTypeOK, Known

\* What one publisher's step does to the stream.
LEMMA Grows ==
  ASSUME HubInv, HubTypeOK', NEW p \in Pub, Publish(p)
  PROVE  /\ Len(by) <= Len(by')
         /\ Known \subseteq Known'
         /\ \A n \in Known' : n \in Known \/ n > Len(by)
         /\ Len(sent) <= Len(sent')
         /\ \A j \in 1..Len(sent) : sent'[j] = sent[j]
         /\ p \in SessionPub =>
              \A j \in (Len(sent) + 1)..Len(sent') : sent'[j] \in Known'
         /\ \A q \in Pub : q # p => pc'[q] = pc[q]
  <1>0. HubTypeOK /\ Len(by) \in Nat /\ Len(sent) \in Nat /\ Known \subseteq 1..Len(by)
    BY Lengths DEF HubInv
  <1>1. CASE Number(p)
    <2>1. /\ Len(by') = Len(by) + 1
          /\ \A n \in 1..Len(by) : by'[n] = by[n]
          /\ sent' = sent
      BY <1>0, <1>1, AppendProperties DEF Number, HubTypeOK
    <2>2. \A q \in Pub : q # p => pc'[q] = pc[q]
      BY <1>0, <1>1 DEF Number, HubTypeOK
    <2> QED
      BY <1>0, <2>1, <2>2 DEF Known
  <1>2. CASE Broadcast(p)
    <2>1. /\ Len(sent') = Len(sent) + 1
          /\ \A j \in 1..Len(sent) : sent'[j] = sent[j]
          /\ sent'[Len(sent) + 1] = num[p]
          /\ by' = by
      BY <1>0, <1>2, AppendProperties DEF Broadcast, HubTypeOK
    <2>2. num[p] \in 1..Len(by) /\ by[num[p]] = p
      BY <1>2 DEF Broadcast, HubInv, NumInv, InFlight
    <2>3. \A q \in Pub : q # p => pc'[q] = pc[q]
      BY <1>0, <1>2 DEF Broadcast, HubTypeOK
    <2> QED
      BY <1>0, <2>1, <2>2, <2>3 DEF Known
  <1>3. CASE Lock(p) \/ Unlock(p) \/ Retain(p)
    <2>1. by' = by /\ sent' = sent
      BY <1>3 DEF Lock, Unlock, Retain
    <2>2. \A q \in Pub : q # p => pc'[q] = pc[q]
      BY <1>0, <1>3 DEF Lock, Unlock, Retain, HubTypeOK
    <2> QED
      BY <1>0, <2>1, <2>2 DEF Known
  <1> QED
    BY <1>1, <1>2, <1>3 DEF Publish

LEMMA SessionStep ==
  ASSUME FreePub = {Lagger}, HubInv, HubTypeOK', SessionInv, NEW p \in Pub, Publish(p)
  PROVE  SessionInv'
  <1>0. HubTypeOK
    BY DEF HubInv
  <1>1. /\ Len(by) \in Nat /\ Len(ring) \in Nat /\ Len(sent) \in Nat
        /\ Known \subseteq 1..Len(by)
    BY <1>0, Lengths
  <1>2. /\ \A i \in 1..Len(ring) : ring[i] \in 1..Len(by)
        /\ \A i \in 1..Len(sent) : sent[i] \in 1..Len(by)
    BY DEF HubInv, KnownInv
  <1>3. \A q \in SessionPub : q # p /\ pc[p] # "idle" /\ p \in SessionPub => pc[q] = "idle"
    BY OneInFlight DEF SameStream, Pub
  <1>4. \A q \in SessionPub : pc[q] \in InFlight => num[q] \in 1..Len(by) /\ by[num[q]] = q
    BY DEF HubInv, NumInv, Pub
  <1>5. CASE Lock(p) \/ Unlock(p)
    <2>1. by' = by /\ ring' = ring /\ sent' = sent /\ num' = num /\ Known' = Known
      BY <1>5 DEF Lock, Unlock, Known
    <2>2. \A q \in SessionPub : pc'[q] \in InFlight <=> pc[q] \in InFlight
      BY <1>0, <1>5 DEF Lock, Unlock, InFlight, HubTypeOK, Pub
    <2> QED
      BY <2>1, <2>2 DEF SessionInv, Elements
  <1>6. CASE Number(p)
    <2>1. /\ Len(by') = Len(by) + 1
          /\ \A n \in 1..Len(by) : by'[n] = by[n]
          /\ by'[Len(by) + 1] = p
          /\ sent' = sent /\ ring' = ring
      BY <1>0, <1>6, AppendProperties DEF Number, HubTypeOK
    <2>2. /\ num'[p] = Len(by) + 1 /\ pc'[p] = "numbered"
          /\ \A q \in Pub : q # p => num'[q] = num[q] /\ pc'[q] = pc[q]
      BY <1>0, <1>6 DEF Number, HubTypeOK
    <2>3. CASE p \in SessionPub
      <3>1. Known' = Known \union {Len(by) + 1}
        BY <1>1, <2>1, <2>3 DEF Known
      <3>2. pc[p] = "locked"
        BY <1>6, <2>3 DEF Number, MayNumber
      <3>3. \A q \in SessionPub : q # p => pc[q] = "idle"
        BY <1>3, <2>3, <3>2
      <3>4. \A q \in SessionPub : pc'[q] \in InFlight => q = p
        BY <2>2, <3>3 DEF InFlight, Pub
      <3>5. \A n \in Known : n \in Elements(sent)
        BY <3>2, <3>3 DEF SessionInv, InFlight
      <3>6. \A q \in SessionPub : pc'[q] \in InFlight => \A n \in Known' : n <= num'[q]
        <4> SUFFICES ASSUME NEW n \in Known' PROVE n <= Len(by) + 1
          BY <2>2, <3>4
        <4>1. n \in 1..Len(by) \/ n = Len(by) + 1
          BY <1>1, <3>1
        <4> QED
          BY <1>1, <4>1
      <3>7. \A n \in Known' : \/ n \in Elements(sent)
                              \/ \E q \in SessionPub : pc'[q] \in InFlight /\ num'[q] = n
        BY <2>2, <2>3, <3>1, <3>5 DEF InFlight
      <3>8. \A i, j \in 1..Len(ring) :
              i < j /\ ring[i] \notin Known' /\ ring[j] \in Known' =>
                \A n \in Known' : ~(ring[j] < n /\ n < ring[i])
        BY <1>1, <1>2, <3>1 DEF SessionInv
      <3> QED
        BY <2>1, <3>6, <3>7, <3>8 DEF SessionInv, Elements
    <2>4. CASE p \notin SessionPub
      <3>1. Known' = Known
        BY <1>1, <2>1, <2>4 DEF Known
      <3>2. \A q \in SessionPub : num'[q] = num[q] /\ pc'[q] = pc[q]
        BY <2>2, <2>4 DEF Pub
      <3> QED
        BY <2>1, <3>1, <3>2 DEF SessionInv, Elements
    <2> QED
      BY <2>3, <2>4
  <1>7. CASE Retain(p)
    <2>1. by' = by /\ sent' = sent /\ num' = num /\ Known' = Known
      BY <1>7 DEF Retain, Known
    <2>2. \A q \in SessionPub : pc'[q] \in InFlight <=> pc[q] \in InFlight
      BY <1>0, <1>7 DEF Retain, InFlight, HubTypeOK, Pub
    <2>3. PICK d \in {0, 1} :
            /\ WithRoom(ring) \in Seq(Nat)
            /\ Len(WithRoom(ring)) = Len(ring) - d
            /\ \A i \in 1..Len(WithRoom(ring)) : WithRoom(ring)[i] = ring[i + d]
      BY <1>0, RoomFacts
    <2> DEFINE w == WithRoom(ring)
    <2>4. /\ Len(ring') = Len(w) + 1
          /\ \A i \in 1..Len(w) : ring'[i] = w[i]
          /\ ring'[Len(w) + 1] = num[p]
          /\ Len(w) \in Nat /\ Len(w) = Len(ring) - d
          /\ \A i \in 1..Len(w) : w[i] = ring[i + d]
      <3>1. ring' = Append(w, num[p]) /\ num[p] \in Nat
        BY <1>0, <1>7 DEF Retain, HubTypeOK
      <3>2. /\ Len(ring') = Len(w) + 1
            /\ \A i \in 1..Len(w) : ring'[i] = w[i]
            /\ ring'[Len(w) + 1] = num[p]
        BY <2>3, <3>1, AppendProperties
      <3>3. Len(w) \in Nat
        BY <2>3
      <3> QED
        BY <2>3, <3>2, <3>3
    <2> HIDE DEF w
    <2>5. \A i \in 1..Len(w) : i + d \in 1..Len(ring) /\ ring'[i] = ring[i + d]
      <3> TAKE i \in 1..Len(w)
      <3>1. i + d \in 1..Len(ring)
        BY <1>1, <2>4
      <3> QED
        BY <2>4
    <2>6. ASSUME NEW i \in 1..Len(ring'), NEW j \in 1..Len(ring'), i < j,
                 ring'[i] \notin Known, ring'[j] \in Known,
                 NEW n \in Known, ring'[j] < n, n < ring'[i]
          PROVE  FALSE
      <3>1. i \in 1..Len(w)
        BY <2>4, <2>6
      <3>2. CASE j \in 1..Len(w)
        <4>1. i + d < j + d
          BY <2>6
        <4> QED
          BY <2>5, <2>6, <3>1, <3>2, <4>1 DEF SessionInv
      <3>3. CASE j = Len(w) + 1
        <4>1. num[p] \in Known /\ num[p] < n
          BY <2>4, <2>6, <3>3
        <4>2. pc[p] \in InFlight
          BY <1>7 DEF Retain, InFlight
        <4>3. p \in SessionPub
          BY <4>1, <4>2 DEF Known, HubInv, NumInv
        <4>4. n <= num[p]
          BY <4>2, <4>3 DEF SessionInv
        <4>5. n \in 1..Len(by) /\ num[p] \in 1..Len(by)
          BY <1>1, <4>1
        <4> QED
          BY <1>1, <4>1, <4>4, <4>5
      <3> QED
        BY <2>4, <3>2, <3>3
    <2> QED
      BY <2>1, <2>2, <2>6 DEF SessionInv, Elements
  <1>8. CASE Broadcast(p)
    <2>1. /\ Len(sent') = Len(sent) + 1
          /\ \A j \in 1..Len(sent) : sent'[j] = sent[j]
          /\ sent'[Len(sent) + 1] = num[p]
          /\ by' = by /\ ring' = ring /\ num' = num /\ Known' = Known
      BY <1>0, <1>8, AppendProperties DEF Broadcast, HubTypeOK, Known
    <2>2. /\ pc'[p] \notin InFlight
          /\ \A q \in SessionPub : q # p => pc'[q] = pc[q]
      BY <1>0, <1>8 DEF Broadcast, InFlight, HubTypeOK, Pub
    <2>3. \A n \in Elements(sent) : n \in Elements(sent)'
      BY <1>1, <2>1 DEF Elements
    <2>4. num[p] \in Elements(sent)'
      BY <1>1, <2>1 DEF Elements
    <2>5. ASSUME NEW n \in Known
          PROVE  \/ n \in Elements(sent)'
                 \/ \E q \in SessionPub : pc'[q] \in InFlight /\ num'[q] = n
      BY <2>1, <2>2, <2>3, <2>4 DEF SessionInv
    <2>6. \A q \in SessionPub : pc'[q] \in InFlight => \A n \in Known : n <= num[q]
      BY <2>2 DEF SessionInv
    <2> QED
      BY <2>1, <2>5, <2>6 DEF SessionInv
  <1> QED
    BY <1>5, <1>6, <1>7, <1>8 DEF Publish

\* A session event comes through the broadcast after all those before it.
LEMMA SentBefore ==
  ASSUME HubInv, SessionInv, NEW j \in 1..Len(sent), sent[j] \in Known,
         NEW n \in Known, n < sent[j]
  PROVE  \E i \in 1..(j - 1) : sent[i] = n
  <1>1. Len(sent) \in Nat /\ n \in Nat /\ \A i \in 1..Len(sent) : sent[i] \in Nat
    BY Lengths DEF HubInv
  <1>2. ASSUME NEW p \in SessionPub, pc[p] \in InFlight, num[p] = n PROVE FALSE
    BY <1>1, <1>2 DEF HubInv, AheadInv, SameStream, Known, Pub
  <1>3. PICK i \in 1..Len(sent) : sent[i] = n
    BY <1>2 DEF SessionInv, Elements
  <1>4. ~(j < i)
    BY <1>1, <1>3 DEF HubInv, SentOrder, SameStream, Known
  <1> QED
    BY <1>1, <1>3, <1>4

\* What was broadcast is in no publisher's hand any more.
LEMMA SentNotInHand ==
  ASSUME HubInv, NEW j \in 1..Len(sent), sent[j] \in Known,
         NEW p \in Pub, pc[p] = "numbered"
  PROVE  num[p] # sent[j]
  <1> SUFFICES ASSUME num[p] = sent[j] PROVE FALSE
    OBVIOUS
  <1>1. by[num[p]] = p /\ pc[p] \in InFlight
    BY DEF HubInv, NumInv, InFlight
  <1>2. sent[j] < num[p]
    BY <1>1 DEF HubInv, AheadInv, SameStream
  <1> QED
    BY <1>2, Lengths DEF HubInv

-----------------------------------------------------------------------------
(* What a replay returns                                                   *)

\* The listing of the window is onto: no retained event of it is left out.
LEMMA ReplayFacts ==
  ASSUME HubInv, NEW from \in Int, NEW to \in Int, NEW es \in Replays(from, to)
  PROVE  /\ es \in Seq(1..Len(by))
         /\ Len(es) \in Nat
         /\ \A i \in 1..Len(es) : from <= es[i] /\ es[i] <= to
         /\ \A n \in Elements(ring) : from <= n /\ n <= to => n \in Elements(es)
         /\ \A i, j \in 1..Len(es) : i <= j =>
              \E a, b \in 1..Len(ring) : a <= b /\ ring[a] = es[i] /\ ring[b] = es[j]
  <1> DEFINE W == Window(from, to)
             c == Cardinality(W)
  <1>1. Len(ring) \in Nat /\ \A i \in 1..Len(ring) : ring[i] \in 1..Len(by)
    BY Lengths DEF HubInv, KnownInv
  <1>2. W \subseteq 1..Len(ring) /\ \A i \in W : from <= ring[i] /\ ring[i] <= to
    BY DEF Window
  <1>3. IsFiniteSet(W) /\ c \in Nat
    <2>1. IsFiniteSet(1..Len(ring))
      BY <1>1, FS_Interval
    <2>2. IsFiniteSet(W)
      BY <1>2, <2>1, FS_Subset
    <2> QED
      BY <2>2, FS_CardinalityType
  <1>4. PICK f \in [1..c -> W] :
          /\ \A i, j \in DOMAIN f : i < j => f[i] < f[j]
          /\ es = [i \in 1..c |-> ring[f[i]]]
    BY DEF Replays
  <1> HIDE DEF W, c
  <1>5. \A i \in 1..c : f[i] \in W /\ f[i] \in 1..Len(ring)
    BY <1>2, <1>4
  <1>6. \A i, j \in 1..c : f[i] = f[j] => i = j
    <2> SUFFICES ASSUME NEW i \in 1..c, NEW j \in 1..c, i < j PROVE f[i] # f[j]
      BY <1>3
    <2>1. f[i] < f[j]
      BY <1>4
    <2> QED
      BY <1>1, <1>5, <2>1
  <1>7. f \in Surjection(1..c, W)
    <2>1. f \in Injection(1..c, W)
      BY <1>4, <1>6 DEF Injection, IsInjective
    <2>2. Cardinality(1..c) = c
      BY <1>3, FS_Interval
    <2> QED
      BY <1>3, <2>1, <2>2, FS_Injection DEF c
  <1>8. \A i \in 1..c : es[i] = ring[f[i]] /\ es[i] \in 1..Len(by)
    BY <1>1, <1>4, <1>5
  <1>9. es \in Seq(1..Len(by)) /\ Len(es) = c
    BY <1>3, <1>4, <1>8
  <1>10. \A i \in 1..Len(es) : from <= es[i] /\ es[i] <= to
    BY <1>2, <1>5, <1>8, <1>9
  <1>11. ASSUME NEW n \in Elements(ring), from <= n, n <= to PROVE n \in Elements(es)
    <2>1. PICK a \in 1..Len(ring) : ring[a] = n
      BY DEF Elements
    <2>2. a \in W
      BY <1>11, <2>1 DEF W, Window
    <2>3. PICK i \in 1..c : f[i] = a
      BY <1>7, <2>2 DEF Surjection
    <2> QED
      BY <1>8, <1>9, <2>1, <2>3 DEF Elements
  <1>12. ASSUME NEW i \in 1..Len(es), NEW j \in 1..Len(es), i <= j
         PROVE  \E a, b \in 1..Len(ring) : a <= b /\ ring[a] = es[i] /\ ring[b] = es[j]
    <2>1. f[i] <= f[j]
      <3>1. CASE i = j
        BY <1>1, <1>5, <1>9, <3>1
      <3>2. CASE i < j
        <4>1. f[i] < f[j]
          BY <1>4, <1>9, <3>2
        <4> QED
          BY <1>1, <1>5, <1>9, <4>1
      <3> QED
        BY <1>3, <1>9, <1>12, <3>1, <3>2
    <2> QED
      BY <1>5, <1>8, <1>9, <2>1
  <1> QED
    BY <1>3, <1>9, <1>10, <1>11, <1>12

-----------------------------------------------------------------------------
(* The client: the inductive invariant                                     *)

\* What goes with the connection, with its forwarder and its diagnostics.
LinkInv ==
  /\ fwd = "none" <=> cp \in {"down", "hello", "stamped"}
  /\ subscribed => cp \in {"subscribed", "live"}
  /\ cp \in {"hello", "stamped"} => pc[Lagger] = "idle"
  /\ fwd = "on" => pc[Lagger] = "idle"
  /\ fwd \in {"none", "on", "lagging"} => host = <<>>
  /\ fwd = "telling" => Len(host) <= 1

\* A forwarder that runs sees session events only, and queues them in order.
QueueInv ==
  /\ fwd = "on" => \A j \in (cursor + 1)..Len(sent) : sent[j] \in Known
  /\ ~subscribed => queue = <<>>
  /\ \A i \in 1..Len(queue) : /\ queue[i] \in Known
                              /\ \E j \in 1..cursor : sent[j] = queue[i]
  /\ \A i, j \in 1..Len(queue) : i < j => queue[i] < queue[j]

\* What each phase of the handshake may rely on.
PhaseInv ==
  /\ opened \/ cp \in {"asked", "replaying", "resumed", "subscribed", "live"}
       => acked # NoAck
  /\ cp \in {"stamped", "spawned"} => snapSeq <= Len(by)
  /\ cp \in {"asked", "replaying"} =>
       /\ rCur <= Len(by)
       /\ \A j \in 1..cursor : sent[j] <= rCur \/ sent[j] \in missed
  /\ cp = "replaying" => acked < rCur
  /\ cp \notin {"resumed", "subscribed"} => ~rebase /\ replayed = {}
  /\ cp \notin {"resumed", "subscribed", "live"} => inbox = <<>>
  /\ (Len(by) + 1)..acked \subseteq missed

\* In the view, or held by the client for it, or let go.
Near == have \union replayed \union Elements(inbox) \union missed

BelowAcked == \A n \in Known : n <= acked => n \in Near
BelowStashed == \A i \in 1..Len(inbox) : \A n \in Known : n < inbox[i] => n \in Near
\* A forwarder that found the queue full has taken one event too many.
ForwardedHeld ==
  cp \in {"resumed", "subscribed", "live"} =>
    \A j \in 1..(IF fwd = "on" THEN cursor ELSE cursor - 1) :
      sent[j] \in Known => sent[j] \in Near \union Elements(queue)

ViewInv == opened /\ ~rebase => BelowAcked /\ BelowStashed /\ ForwardedHeld

GuiInv == /\ HubInv /\ SessionInv /\ GuiTypeOK
          /\ LinkInv /\ QueueInv /\ PhaseInv /\ ViewInv

LEMMA GuiLengths ==
  ASSUME HubInv, GuiTypeOK
  PROVE  /\ Len(by) \in Nat /\ Len(ring) \in Nat /\ Len(sent) \in Nat
         /\ Known \subseteq 1..Len(by)
         /\ \A i \in 1..Len(sent) : sent[i] \in 1..Len(by)
         /\ Len(inbox) \in Nat /\ Len(queue) \in Nat /\ Len(host) \in Nat
         /\ \A i \in 1..Len(inbox) : inbox[i] \in 1..Len(by)
         /\ \A i \in 1..Len(queue) : queue[i] \in 1..Len(by)
         /\ acked \in Int /\ cursor \in Nat
  BY Lengths, ElementOfSeq DEF HubInv, KnownInv, GuiTypeOK, NoAck

\* ResumeReplay when the ring reaches: what is asked for and retained comes.
LEMMA Resumed ==
  ASSUME GuiInv, ResumeReplay, ~ReplayUnavailable(ReplayFrom)
  PROVE  \E through \in 0..rCur :
           /\ cp' = "resumed" /\ rebase' = rebase
           /\ acked' = Higher(acked, through)
           /\ replayed' \subseteq 1..Len(by)
           /\ inbox' \in Seq(1..Len(by)) /\ Len(inbox') \in Nat
           /\ \A n \in Elements(ring) :
                acked < n /\ n <= rCur => n \in replayed' \union Elements(inbox)'
           /\ \A i \in 1..Len(inbox') :
                /\ inbox'[i] <= rCur
                /\ \E a, b \in 1..Len(ring) :
                     a <= b /\ ring[a] = inbox'[i] /\ ring[b] = through
           /\ missed' = missed \union
                {n \in (acked + 1)..rCur : n \notin Elements(ring)
                                           /\ (n <= through \/ n \in Evicted)}
  <1>1. cp = "replaying" /\ acked \in Nat /\ rCur \in Nat /\ acked < rCur
    BY DEF ResumeReplay, GuiInv, GuiTypeOK, PhaseInv
  <1> DEFINE Through(es) == IF es = <<>> THEN rCur ELSE es[Len(es)]
  <1>2. PICK es \in Replays(ReplayFrom, rCur), k \in 0..Len(ring) :
          /\ k <= Len(es)
          /\ cp' = "resumed" /\ rebase' = rebase
          /\ replayed' = {es[i] : i \in 1..k}
          /\ inbox' = SubSeq(es, k + 1, Len(es))
          /\ acked' = Higher(acked, Through(es))
          /\ missed' = missed \union
                {n \in (acked + 1)..rCur : n \notin Elements(ring)
                                           /\ (n <= Through(es) \/ n \in Evicted)}
    BY DEF ResumeReplay, LetGo
  <1>3. /\ es \in Seq(1..Len(by))
        /\ Len(es) \in Nat
        /\ \A i \in 1..Len(es) : acked + 1 <= es[i] /\ es[i] <= rCur
        /\ \A n \in Elements(ring) : acked + 1 <= n /\ n <= rCur => n \in Elements(es)
        /\ \A i, j \in 1..Len(es) : i <= j =>
             \E a, b \in 1..Len(ring) : a <= b /\ ring[a] = es[i] /\ ring[b] = es[j]
    BY <1>1, ReplayFacts DEF GuiInv, ReplayFrom
  <1>4. Len(by) \in Nat /\ \A i \in 1..Len(es) : es[i] \in 1..Len(by)
    BY <1>3, GuiLengths, ElementOfSeq DEF GuiInv
  <1>5. Through(es) \in 0..rCur
    <2>1. CASE es = <<>>
      BY <1>1, <2>1
    <2>2. CASE es # <<>>
      <3>1. Len(es) \in 1..Len(es)
        BY <1>3, <2>2, EmptySeq
      <3> QED
        BY <1>1, <1>3, <1>4, <2>2, <3>1
    <2> QED
      BY <2>1, <2>2
  <1>6. k \in Nat /\ k <= Len(es)
    BY <1>2, GuiLengths DEF GuiInv
  <1>7. /\ inbox' \in Seq(1..Len(by))
        /\ Len(inbox') = Len(es) - k
        /\ \A i \in 1..Len(inbox') : k + i \in 1..Len(es) /\ inbox'[i] = es[k + i]
    <2>1. \A i \in (k + 1)..Len(es) : es[i] \in 1..Len(by)
      BY <1>3, <1>4, <1>6
    <2>2. /\ inbox' \in Seq(1..Len(by))
          /\ Len(inbox') = IF k + 1 <= Len(es) THEN Len(es) - (k + 1) + 1 ELSE 0
          /\ \A i \in 1..(Len(es) - (k + 1) + 1) : inbox'[i] = es[k + 1 + i - 1]
      BY <1>2, <1>3, <1>6, <2>1, SubSeqProperties
    <2>3. Len(inbox') = Len(es) - k
      BY <1>3, <1>6, <2>2
    <2>4. ASSUME NEW i \in 1..Len(inbox')
          PROVE  k + i \in 1..Len(es) /\ inbox'[i] = es[k + i]
      <3>1. i \in 1..(Len(es) - (k + 1) + 1) /\ k + i \in 1..Len(es)
        BY <1>3, <1>6, <2>3
      <3>2. inbox'[i] = es[k + 1 + i - 1]
        BY <2>2, <3>1
      <3>3. k + 1 + i - 1 = k + i
        BY <1>6
      <3> QED
        BY <3>1, <3>2, <3>3
    <2> QED
      BY <2>2, <2>3, <2>4
  <1>8. ASSUME NEW n \in Elements(ring), acked < n, n <= rCur
        PROVE  n \in replayed' \union Elements(inbox)'
    <2>1. n \in Nat
      BY Lengths DEF GuiInv, HubInv, Elements
    <2>2. n \in Elements(es)
      BY <1>1, <1>3, <1>8, <2>1
    <2>3. PICK i \in 1..Len(es) : es[i] = n
      BY <2>2 DEF Elements
    <2>4. CASE i <= k
      BY <1>2, <1>6, <2>3, <2>4
    <2>5. CASE i > k
      <3>1. i - k \in 1..Len(inbox') /\ k + (i - k) = i
        BY <1>3, <1>6, <1>7, <2>5
      <3>2. inbox'[i - k] = n
        BY <1>7, <2>3, <3>1
      <3> QED
        BY <3>1, <3>2 DEF Elements
    <2> QED
      BY <1>6, <2>4, <2>5
  <1>9. ASSUME NEW i \in 1..Len(inbox')
        PROVE  /\ inbox'[i] <= rCur
               /\ \E a, b \in 1..Len(ring) :
                     a <= b /\ ring[a] = inbox'[i] /\ ring[b] = Through(es)
    <2>1. k + i \in 1..Len(es) /\ inbox'[i] = es[k + i]
      BY <1>7
    <2>2. Len(es) \in 1..Len(es) /\ k + i <= Len(es) /\ es # <<>>
      BY <1>3, <2>1, EmptySeq
    <2>3. PICK a \in 1..Len(ring), b \in 1..Len(ring) :
            a <= b /\ ring[a] = es[k + i] /\ ring[b] = es[Len(es)]
      BY <1>3, <2>1, <2>2
    <2>4. es[k + i] <= rCur /\ Through(es) = es[Len(es)]
      BY <1>3, <2>1, <2>2
    <2> HIDE DEF Through
    <2> QED
      BY <2>1, <2>3, <2>4
  <1>10. replayed' \subseteq 1..Len(by)
    BY <1>2, <1>3, <1>4, <1>6
  <1>11. Len(inbox') \in Nat
    BY <1>3, <1>6, <1>7
  <1> HIDE DEF Through
  <1> QED
    BY <1>2, <1>5, <1>7, <1>8, <1>9, <1>10, <1>11

-----------------------------------------------------------------------------
(* The client: types                                                       *)

\* Sequences of numbers stay so when more numbers are drawn.
LEMMA MoreNumbers ==
  ASSUME NEW a \in Nat, NEW b \in Nat, a <= b, NEW low \in Nat
  PROVE  low..a \subseteq low..b /\ Seq(low..a) \subseteq Seq(low..b)
  <1>1. low..a \subseteq low..b
    OBVIOUS
  <1>2. ASSUME NEW s \in Seq(low..a) PROVE s \in Seq(low..b)
    BY <1>1, SeqMonotonic
  <1> QED
    BY <1>1, <1>2

LEMMA HangUpTypes ==
  ASSUME GuiTypeOK, HangUp, UNCHANGED <<acked, opened, snapSeq, rCur>>,
         Len(by') \in Nat, Len(sent') \in Nat, torn' \in BOOLEAN,
         have' \subseteq 1..Len(by'), missed' \subseteq Nat
  PROVE  GuiTypeOK'
  <1>1. <<>> \in Seq(1..Len(by')) /\ <<>> \in Seq(0..Len(by')) /\ Len(<<>>) = 0
    BY EmptySeq
  <1> QED
    <2>1. cursor' \in 0..Len(sent') /\ QueueCapacity \in Nat
      BY QueueAssumption DEF HangUp
    <2>2. /\ queue' = <<>> /\ host' = <<>> /\ inbox' = <<>> /\ replayed' = {}
          /\ cp' = "down" /\ fwd' = "none" /\ subscribed' = FALSE /\ rebase' = FALSE
      BY DEF HangUp
    <2>3. /\ inbox' \in Seq(1..Len(by')) /\ queue' \in Seq(1..Len(by'))
          /\ host' \in Seq(0..Len(by'))
          /\ Len(queue') <= QueueCapacity /\ Len(host') <= 2
      BY <1>1, <2>1, <2>2
    <2>4. replayed' \subseteq 1..Len(by') /\ cp' \in Connecting \union {"down", "subscribed", "live"}
      BY <2>2
    <2>5. /\ acked' \in Nat \union {NoAck} /\ opened' \in BOOLEAN
          /\ snapSeq' \in Nat /\ rCur' \in Nat
      BY DEF GuiTypeOK
    <2> QED
      BY <2>1, <2>2, <2>3, <2>4, <2>5 DEF GuiTypeOK, Connecting, NoAck

\* The steps of the connection, the handshake and the user.
LEMMA HandshakeTypes ==
  ASSUME GuiInv, Connect \/ Handshake \/ OpenSession
  PROVE  GuiTypeOK'
  <1>0. /\ Len(by) \in Nat /\ Len(sent) \in Nat /\ GuiTypeOK
        /\ acked \in Int
    BY GuiLengths DEF GuiInv
  <1>1. CASE Connect
    <2>1. <<>> \in Seq(1..Len(by))
      BY EmptySeq
    <2> QED
      BY <1>0, <1>1, <2>1 DEF Connect, GuiTypeOK, Connecting, hubVars, viewVars, linkVars
  <1>2. CASE Stamp
    BY <1>0, <1>2 DEF Stamp, GuiTypeOK, Connecting, Current,
                      hubVars, viewVars, linkVars, countVars
  <1>3. CASE Spawn
    BY <1>0, <1>3 DEF Spawn, GuiTypeOK, Connecting,
                      hubVars, viewVars, outcomeVars, countVars
  <1>4. CASE Fresh
    BY <1>0, <1>4 DEF Fresh, GuiTypeOK, Connecting,
                      hubVars, outcomeVars, linkVars, countVars
  <1>5. CASE ResumeRead
    BY <1>0, <1>5 DEF ResumeRead, GuiTypeOK, Connecting, Current,
                      hubVars, viewVars, linkVars, countVars
  <1>6. ASSUME RequireSnapshot, UNCHANGED <<hubVars, have, opened, torn, snapSeq,
                                            rCur, linkVars, countVars>>
        PROVE  GuiTypeOK'
    <2>1. acked' \in Nat
      BY <1>0, <1>6 DEF RequireSnapshot, Higher, Current, GuiTypeOK, NoAck
    <2> QED
      BY <1>0, <1>6, <2>1 DEF RequireSnapshot, GuiTypeOK, Connecting,
                              hubVars, linkVars, countVars
  <1>7. CASE ResumeDecide
    <2>1. CASE cp' \in {"resumed", "replaying"} /\ UNCHANGED <<rebase, replayed, inbox, acked, missed>>
      BY <1>0, <1>7, <2>1 DEF ResumeDecide, GuiTypeOK, Connecting,
                              hubVars, linkVars, countVars
    <2> QED
      BY <1>6, <1>7, <2>1 DEF ResumeDecide
  <1>8. CASE ResumeReplay
    <2>1. UNCHANGED <<hubVars, have, opened, torn, snapSeq, rCur, linkVars, countVars>>
      BY <1>8 DEF ResumeReplay
    <2>2. CASE ReplayUnavailable(ReplayFrom)
      BY <1>6, <1>8, <2>1, <2>2 DEF ResumeReplay
    <2>3. CASE ~ReplayUnavailable(ReplayFrom)
      <3>1. PICK through \in 0..rCur :
              /\ cp' = "resumed" /\ rebase' = rebase
              /\ acked' = Higher(acked, through)
              /\ replayed' \subseteq 1..Len(by)
              /\ inbox' \in Seq(1..Len(by))
              /\ missed' = missed \union
                   {n \in (acked + 1)..rCur : n \notin Elements(ring)
                                              /\ (n <= through \/ n \in Evicted)}
        BY <1>8, <2>3, Resumed
      <3>2. acked \in Nat /\ rCur \in Nat
        BY <1>8 DEF ResumeReplay, GuiInv, GuiTypeOK, PhaseInv
      <3>3. acked' \in Nat
        BY <3>1, <3>2 DEF Higher
      <3>4. missed' \subseteq Nat
        <4>1. missed \subseteq Nat /\ (acked + 1)..rCur \subseteq Nat
          BY <1>0, <3>2 DEF GuiTypeOK
        <4> QED
          BY <3>1, <4>1
      <3> QED
        BY <1>0, <2>1, <3>1, <3>3, <3>4 DEF GuiTypeOK, Connecting,
                                            hubVars, linkVars, countVars
    <2> QED
      BY <2>2, <2>3
  <1>9. CASE Subscribe
    BY <1>0, <1>9 DEF Subscribe, GuiTypeOK, Connecting,
                      hubVars, viewVars, outcomeVars, countVars
  <1>10. CASE OnConnected
    <2>1. have' \subseteq 1..Len(by)
      BY <1>0, <1>10 DEF OnConnected, GuiTypeOK, Current
    <2> QED
      BY <1>0, <1>10, <2>1 DEF OnConnected, GuiTypeOK, Connecting,
                               hubVars, linkVars, countVars
  <1>11. CASE OpenSession
    BY <1>0, <1>11 DEF OpenSession, GuiTypeOK, Connecting, Current,
                       hubVars, outcomeVars, linkVars, countVars
  <1> QED
    BY <1>1, <1>2, <1>3, <1>4, <1>5, <1>7, <1>8, <1>9, <1>10, <1>11 DEF Handshake

\* The steps of the forwarder that do not publish.
LEMMA ForwarderTypes ==
  ASSUME GuiInv, FwdSkip \/ Forward \/ FwdLagged \/ LagError
  PROVE  GuiTypeOK'
  <1>0. /\ Len(by) \in Nat /\ Len(sent) \in Nat /\ cursor \in Nat
        /\ \A i \in 1..Len(sent) : sent[i] \in 1..Len(by)
        /\ GuiTypeOK /\ QueueCapacity \in Nat
    BY GuiLengths, QueueAssumption DEF GuiInv
  <1>1. CASE FwdSkip
    <2>1. cursor + 1 \in 1..Len(sent)
      BY <1>0, <1>1 DEF FwdSkip
    <2>2. missed' \subseteq Nat
      <3>1. missed' = missed \union {sent[cursor + 1]}
        BY <1>1 DEF FwdSkip, LetGo
      <3>2. sent[cursor + 1] \in Nat /\ missed \subseteq Nat
        BY <1>0, <2>1 DEF GuiTypeOK
      <3> QED
        BY <3>1, <3>2
    <2> QED
      BY <1>0, <1>1, <2>1, <2>2 DEF FwdSkip, GuiTypeOK, Connecting,
                              hubVars, viewVars, outcomeVars, countVars
  <1>2. CASE Forward
    <2>1. cursor + 1 \in 1..Len(sent) /\ sent[cursor + 1] \in 1..Len(by)
      BY <1>0, <1>2 DEF Forward
    <2>2. queue' \in Seq(1..Len(by)) /\ Len(queue') <= QueueCapacity
      <3>1. CASE HasRoom /\ queue' = Append(queue, sent[cursor + 1])
        BY <1>0, <2>1, <3>1, AppendProperties DEF HasRoom, GuiTypeOK
      <3> QED
        BY <1>0, <1>2, <3>1 DEF Forward, GuiTypeOK
    <2> QED
      BY <1>0, <1>2, <2>1, <2>2 DEF Forward, GuiTypeOK, Connecting,
                                    hubVars, viewVars, outcomeVars, countVars
  <1>3. CASE FwdLagged
    BY <1>0, <1>3 DEF FwdLagged, GuiTypeOK, Connecting,
                      hubVars, viewVars, outcomeVars, countVars
  <1>4. CASE LagError
    <2>1. ErrorFrame \in 0..Len(by) /\ Len(host) <= 1
      BY <1>0, <1>4 DEF LagError, ErrorFrame, GuiInv, LinkInv
    <2>2. host' \in Seq(0..Len(by)) /\ Len(host') <= 2
      BY <1>0, <1>4, <2>1, AppendProperties DEF LagError, GuiTypeOK
    <2> QED
      BY <1>0, <1>4, <2>2 DEF LagError, GuiTypeOK, Connecting,
                              hubVars, viewVars, outcomeVars, countVars
  <1> QED
    BY <1>1, <1>2, <1>3, <1>4

\* The pump takes a frame: from the stash, around the queue, from the queue.
LEMMA PumpTypes ==
  ASSUME GuiInv, Pump
  PROVE  GuiTypeOK'
  <1>0. /\ Len(by) \in Nat /\ Len(sent) \in Nat /\ GuiTypeOK /\ acked \in Int
        /\ QueueCapacity \in Nat
    BY GuiLengths, QueueAssumption DEF GuiInv
  <1>1. ASSUME NEW n \in 1..Len(by), Receive(n)
        PROVE  /\ acked' \in Nat /\ have' \subseteq 1..Len(by)
               /\ UNCHANGED <<cp, opened, torn, rebase, replayed, subscribed, cursor, fwd>>
    <2>1. acked' \in Nat
      BY <1>0, <1>1 DEF Receive, Higher, GuiTypeOK, NoAck
    <2> QED
      BY <1>0, <1>1, <2>1 DEF Receive, GuiTypeOK
  <1>2. CASE DeliverStashed
    <2>1. Head(inbox) \in 1..Len(by) /\ inbox' \in Seq(1..Len(by))
      BY <1>0, <1>2, HeadTailProperties DEF DeliverStashed, GuiTypeOK
    <2> QED
      BY <1>0, <1>1, <1>2, <2>1 DEF DeliverStashed, GuiTypeOK, Connecting, hubVars, countVars
  <1>3. CASE DeliverHost
    <2>1. /\ Head(host) \in 0..Len(by) /\ host' \in Seq(0..Len(by))
          /\ Len(host') = Len(host) - 1 /\ Len(host) \in Nat
      BY <1>0, <1>3, HeadTailProperties DEF DeliverHost, GuiTypeOK
    <2>2. Head(host) \in 1..Len(by)
      BY <1>0, <1>3, <2>1 DEF DeliverHost, ErrorFrame
    <2>3. acked \in Nat
      BY <1>3 DEF DeliverHost, GuiInv, GuiTypeOK, PhaseInv
    <2>4. missed' \subseteq Nat
      <3>1. missed \subseteq Nat /\ (acked + 1)..Head(host) \subseteq Nat
        BY <1>0, <2>2, <2>3 DEF GuiTypeOK
      <3> QED
        BY <1>3, <3>1 DEF DeliverHost, LetGo
    <2>5. Receive(Head(host)) /\ UNCHANGED <<by, sent, queue, inbox, snapSeq, rCur>>
      BY <1>3 DEF DeliverHost, hubVars
    <2>6. /\ acked' \in Nat /\ have' \subseteq 1..Len(by)
          /\ UNCHANGED <<cp, opened, torn, rebase, replayed, subscribed, cursor, fwd>>
      BY <1>1, <2>2, <2>5
    <2> QED
      BY <1>0, <2>1, <2>4, <2>5, <2>6 DEF GuiTypeOK, Connecting
  <1>4. CASE DeliverQueued
    <2>1. /\ Head(queue) \in 1..Len(by) /\ queue' \in Seq(1..Len(by))
          /\ Len(queue') = Len(queue) - 1 /\ Len(queue) \in Nat
      BY <1>0, <1>4, HeadTailProperties DEF DeliverQueued, GuiTypeOK
    <2>2. Receive(Head(queue)) /\ UNCHANGED <<by, sent, host, inbox, snapSeq, rCur, missed>>
      BY <1>4 DEF DeliverQueued, hubVars
    <2>3. /\ acked' \in Nat /\ have' \subseteq 1..Len(by)
          /\ UNCHANGED <<cp, opened, torn, rebase, replayed, subscribed, cursor, fwd>>
      BY <1>1, <2>1, <2>2
    <2> QED
      BY <1>0, <2>1, <2>2, <2>3 DEF GuiTypeOK, Connecting
  <1>5. CASE LagTeardown
    BY <1>0, <1>5, HangUpTypes DEF LagTeardown, GuiTypeOK, hubVars
  <1> QED
    BY <1>2, <1>3, <1>4, <1>5 DEF Pump

LEMMA LossTypes ==
  ASSUME GuiInv, ConnectionLost \/ HostRestart
  PROVE  GuiTypeOK'
  <1>0. /\ Len(by) \in Nat /\ Len(sent) \in Nat /\ GuiTypeOK /\ acked \in Int
    BY GuiLengths DEF GuiInv
  <1>1. CASE ConnectionLost
    <2>1. \A n \in Elements(inbox) : n \in 1..Len(by)
      BY GuiLengths DEF GuiInv, Elements
    <2>2. missed' \subseteq Nat
      <3>1. /\ missed \subseteq Nat /\ replayed \subseteq Nat /\ Elements(inbox) \subseteq Nat
            /\ 1..acked \subseteq Nat
        BY <1>0, <2>1 DEF GuiTypeOK
      <3> QED
        BY <1>1, <3>1 DEF ConnectionLost, LetGo
    <2>3. have' \subseteq 1..Len(by)
      BY <1>0, <1>1 DEF ConnectionLost, GuiTypeOK
    <2>4. HangUp /\ torn' \in BOOLEAN /\ UNCHANGED <<acked, opened, snapSeq, rCur, by, sent>>
      BY <1>1 DEF ConnectionLost, hubVars
    <2> QED
      BY <1>0, <2>2, <2>3, <2>4, HangUpTypes
  <1>2. CASE HostRestart
    <2>1. Len(by') = 0 /\ Len(sent') = 0
      BY <1>2 DEF HostRestart
    <2>2. missed' \subseteq Nat /\ have' \subseteq 1..Len(by')
      BY <1>0, <1>2 DEF HostRestart
    <2>3. HangUp /\ torn' \in BOOLEAN /\ UNCHANGED <<acked, opened, snapSeq, rCur>>
      BY <1>2 DEF HostRestart
    <2> QED
      BY <1>0, <2>1, <2>2, <2>3, HangUpTypes
  <1> QED
    BY <1>1, <1>2

-----------------------------------------------------------------------------
(* The client: the connection, its queue and its phases                    *)

\* The steps that leave the hub alone.
HubIdle == \/ Connect \/ Handshake \/ OpenSession
           \/ FwdSkip \/ Forward \/ FwdLagged \/ LagError
           \/ Pump \/ ConnectionLost

LEMMA HubIdleStep ==
  ASSUME HubIdle
  PROVE  UNCHANGED <<by, ring, sent, pc, num, holder>> /\ Known' = Known
  <1>1. UNCHANGED <<by, ring, sent, pc, num, holder>>
    BY DEF HubIdle, Connect, Handshake, Stamp, Spawn, Fresh, ResumeRead,
           ResumeDecide, ResumeReplay, Subscribe, OnConnected, OpenSession,
           FwdSkip, Forward, FwdLagged, LagError, Pump, DeliverStashed,
           DeliverHost, DeliverQueued, LagTeardown, ConnectionLost, hubVars
  <1> QED
    BY <1>1 DEF Known

LEMMA LinkIdle ==
  ASSUME GuiInv, HubIdle
  PROVE  LinkInv'
  <1>0. LinkInv /\ GuiTypeOK /\ pc' = pc
    BY HubIdleStep DEF GuiInv
  <1>1. CASE Connect
    BY <1>0, <1>1 DEF Connect, LinkInv, linkVars
  <1>2. CASE Stamp \/ Fresh \/ ResumeRead \/ OpenSession
    BY <1>0, <1>2 DEF Stamp, Fresh, ResumeRead, OpenSession, LinkInv, linkVars
  <1>3. CASE Spawn
    BY <1>0, <1>3 DEF Spawn, LinkInv
  <1>4. CASE ResumeDecide
    <2>1. cp = "asked" /\ cp' \in {"resumed", "replaying"} /\ UNCHANGED linkVars
      BY <1>4 DEF ResumeDecide, RequireSnapshot
    <2> QED
      BY <1>0, <2>1 DEF LinkInv, linkVars
  <1>5. CASE ResumeReplay
    <2>1. cp = "replaying" /\ cp' = "resumed" /\ UNCHANGED linkVars
      BY <1>5 DEF ResumeReplay, RequireSnapshot
    <2> QED
      BY <1>0, <2>1 DEF LinkInv, linkVars
  <1>6. CASE Subscribe \/ OnConnected
    BY <1>0, <1>6 DEF Subscribe, OnConnected, LinkInv, linkVars
  <1>7. CASE FwdSkip \/ Forward \/ FwdLagged
    BY <1>0, <1>7 DEF FwdSkip, Forward, FwdLagged, LinkInv
  <1>8. CASE LagError
    BY <1>0, <1>8 DEF LagError, LinkInv
  <1>9. CASE DeliverStashed \/ DeliverQueued
    BY <1>0, <1>9 DEF DeliverStashed, DeliverQueued, Receive, LinkInv
  <1>10. CASE DeliverHost
    <2>1. Len(host') = Len(host) - 1 /\ Len(host) \in Nat /\ host # <<>>
      BY <1>0, <1>10, HeadTailProperties DEF DeliverHost, GuiTypeOK
    <2>2. UNCHANGED <<cp, fwd, subscribed>>
      BY <1>10 DEF DeliverHost, Receive
    <2> QED
      BY <1>0, <2>1, <2>2 DEF LinkInv
  <1>11. CASE LagTeardown \/ ConnectionLost
    BY <1>0, <1>11 DEF LagTeardown, ConnectionLost, HangUp, LinkInv
  <1> QED
    BY <1>1, <1>2, <1>3, <1>4, <1>5, <1>6, <1>7, <1>8, <1>9, <1>10, <1>11
       DEF HubIdle, Handshake, Pump

LEMMA QueueIdle ==
  ASSUME GuiInv, HubIdle
  PROVE  QueueInv'
  <1>0. /\ QueueInv /\ LinkInv /\ GuiTypeOK /\ sent' = sent /\ Known' = Known
        /\ Len(sent) \in Nat /\ cursor \in Nat /\ Len(queue) \in Nat
        /\ \A i \in 1..Len(sent) : sent[i] \in 1..Len(by)
    BY HubIdleStep, GuiLengths DEF GuiInv
  <1>1. ASSUME UNCHANGED <<subscribed, cursor, queue>>, fwd' = "on" => fwd = "on"
        PROVE  QueueInv'
    BY <1>0, <1>1 DEF QueueInv
  <1>2. CASE Connect \/ Stamp \/ Fresh \/ ResumeRead \/ ResumeDecide \/ ResumeReplay
             \/ OnConnected \/ OpenSession \/ FwdLagged \/ LagError
             \/ DeliverStashed \/ DeliverHost
    BY <1>1, <1>2 DEF Connect, Stamp, Fresh, ResumeRead, ResumeDecide, ResumeReplay,
                      OnConnected, OpenSession, FwdLagged, LagError,
                      DeliverStashed, DeliverHost, Receive, linkVars
  <1>3. CASE Spawn
    <2>1. queue = <<>>
      BY <1>0, <1>3 DEF Spawn, QueueInv, LinkInv
    <2>2. cursor' = Len(sent) /\ UNCHANGED <<subscribed, queue>>
      BY <1>3 DEF Spawn
    <2> QED
      BY <1>0, <2>1, <2>2 DEF QueueInv
  <1>4. CASE Subscribe
    BY <1>0, <1>4 DEF Subscribe, QueueInv
  <1>5. CASE FwdSkip
    <2>1. cursor' = cursor + 1 /\ ~subscribed /\ UNCHANGED <<subscribed, queue, fwd>>
      BY <1>5 DEF FwdSkip
    <2> QED
      BY <1>0, <2>1 DEF QueueInv
  <1>6. CASE Forward
    <2>1. /\ fwd = "on" /\ cursor + 1 \in 1..Len(sent)
          /\ cursor' = cursor + 1 /\ subscribed /\ subscribed' = subscribed
      BY <1>0, <1>6 DEF Forward
    <2>2. sent[cursor + 1] \in Known
      BY <1>0, <2>1 DEF QueueInv
    <2>3. CASE ~HasRoom
      BY <1>0, <1>6, <2>1, <2>3 DEF Forward, QueueInv
    <2>4. CASE HasRoom
      <3>1. /\ Len(queue') = Len(queue) + 1
            /\ \A i \in 1..Len(queue) : queue'[i] = queue[i]
            /\ queue'[Len(queue) + 1] = sent[cursor + 1]
            /\ fwd' = fwd
        <4>1. queue \in Seq(1..Len(by)) /\ sent[cursor + 1] \in 1..Len(by)
          BY <1>0, <2>1 DEF GuiTypeOK
        <4>2. queue' = Append(queue, sent[cursor + 1]) /\ fwd' = fwd
          BY <1>6, <2>4 DEF Forward
        <4> QED
          BY <4>1, <4>2, AppendProperties
      <3>2. \A i \in 1..Len(queue) : queue[i] < sent[cursor + 1]
        <4> TAKE i \in 1..Len(queue)
        <4>1. PICK j \in 1..cursor : sent[j] = queue[i] /\ queue[i] \in Known
          BY <1>0 DEF QueueInv
        <4>2. j \in 1..Len(sent) /\ j < cursor + 1
          BY <1>0, <2>1
        <4>3. SameStream(by[sent[j]], by[sent[cursor + 1]])
          BY <2>2, <4>1 DEF Known, SameStream
        <4> QED
          BY <2>1, <4>1, <4>2, <4>3 DEF GuiInv, HubInv, SentOrder
      <3>3. ASSUME NEW i \in 1..Len(queue')
            PROVE  queue'[i] \in Known /\ \E j \in 1..cursor' : sent[j] = queue'[i]
        <4>1. CASE i \in 1..Len(queue)
          <5>1. PICK j \in 1..cursor : sent[j] = queue[i] /\ queue[i] \in Known
            BY <1>0, <4>1 DEF QueueInv
          <5>2. j \in 1..cursor'
            BY <1>0, <2>1
          <5> QED
            BY <3>1, <4>1, <5>1, <5>2
        <4>2. CASE i = Len(queue) + 1
          <5>1. cursor + 1 \in 1..cursor'
            BY <1>0, <2>1
          <5> QED
            BY <2>2, <3>1, <4>2, <5>1
        <4> QED
          BY <1>0, <3>1, <4>1, <4>2
      <3>4. ASSUME NEW i \in 1..Len(queue'), NEW j \in 1..Len(queue'), i < j
            PROVE  queue'[i] < queue'[j]
        <4>1. i \in 1..Len(queue)
          BY <1>0, <3>1, <3>4
        <4>2. CASE j \in 1..Len(queue)
          BY <1>0, <3>1, <3>4, <4>1, <4>2 DEF QueueInv
        <4>3. CASE j = Len(queue) + 1
          BY <3>1, <3>2, <4>1, <4>3
        <4> QED
          BY <1>0, <3>1, <4>2, <4>3
      <3>5. \A j \in (cursor' + 1)..Len(sent) : fwd = "on" => sent[j] \in Known
        BY <1>0, <2>1 DEF QueueInv
      <3> QED
        BY <1>0, <2>1, <3>1, <3>3, <3>4, <3>5 DEF QueueInv
    <2> QED
      BY <2>3, <2>4
  <1>7. CASE DeliverQueued
    <2>1. /\ Len(queue') = Len(queue) - 1
          /\ \A i \in 1..Len(queue') : queue'[i] = queue[i + 1]
          /\ queue # <<>>
      BY <1>0, <1>7, HeadTailProperties DEF DeliverQueued, GuiTypeOK
    <2>2. UNCHANGED <<subscribed, cursor, fwd>> /\ subscribed
      BY <1>0, <1>7 DEF DeliverQueued, Receive, QueueInv
    <2>3. ASSUME NEW i \in 1..Len(queue')
          PROVE  i + 1 \in 1..Len(queue) /\ queue'[i] = queue[i + 1]
      BY <1>0, <2>1
    <2>4. \A i, j \in 1..Len(queue') : i < j => queue'[i] < queue'[j]
      <3> TAKE i, j \in 1..Len(queue')
      <3> HAVE i < j
      <3>1. i + 1 < j + 1
        BY <1>0, <2>1
      <3> QED
        BY <1>0, <2>3, <3>1 DEF QueueInv
    <2> QED
      BY <1>0, <2>2, <2>3, <2>4 DEF QueueInv
  <1>8. CASE LagTeardown \/ ConnectionLost
    <2>1. queue' = <<>> /\ fwd' = "none"
      BY <1>8 DEF LagTeardown, ConnectionLost, HangUp
    <2> QED
      BY <2>1 DEF QueueInv
  <1> QED
    BY <1>2, <1>3, <1>4, <1>5, <1>6, <1>7, <1>8 DEF HubIdle, Handshake, Pump

LEMMA PhaseIdle ==
  ASSUME GuiInv, HubIdle
  PROVE  PhaseInv'
  <1>0. /\ PhaseInv /\ GuiTypeOK /\ UNCHANGED <<by, sent>>
        /\ Len(by) \in Nat /\ Len(sent) \in Nat /\ cursor \in Nat /\ acked \in Int
        /\ \A i \in 1..Len(sent) : sent[i] \in 1..Len(by)
        /\ \A i \in 1..Len(inbox) : inbox[i] \in 1..Len(by)
    BY HubIdleStep, GuiLengths DEF GuiInv
  <1>1. CASE Connect
    BY <1>0, <1>1 DEF Connect, PhaseInv, viewVars, linkVars
  <1>2. CASE Stamp
    BY <1>0, <1>2 DEF Stamp, Current, PhaseInv, viewVars, linkVars
  <1>3. CASE Spawn
    BY <1>0, <1>3 DEF Spawn, PhaseInv, viewVars, outcomeVars
  <1>4. CASE Fresh
    <2>1. acked' \in 0..Len(by)
      BY <1>0, <1>4 DEF Fresh, PhaseInv, GuiTypeOK
    <2>2. (Len(by) + 1)..acked' = {}
      BY <1>0, <2>1
    <2> QED
      BY <1>0, <1>4, <2>1, <2>2 DEF Fresh, PhaseInv, NoAck, outcomeVars, linkVars
  <1>5. CASE ResumeRead
    <2>1. \A j \in 1..cursor : sent[j] <= Len(by)
      BY <1>0 DEF GuiTypeOK
    <2> QED
      BY <1>0, <1>5, <2>1 DEF ResumeRead, Current, PhaseInv, viewVars, linkVars
  <1>6. ASSUME RequireSnapshot, cp \in {"asked", "replaying"}, opened' = opened
        PROVE  PhaseInv'
    <2>1. acked' # NoAck /\ (Len(by) + 1)..acked' \subseteq (Len(by) + 1)..acked
      BY <1>0, <1>6 DEF RequireSnapshot, Higher, Current, NoAck
    <2> QED
      BY <1>0, <1>6, <2>1 DEF RequireSnapshot, PhaseInv
  <1>7. CASE ResumeDecide
    <2>1. CASE UpToDate /\ cp' = "resumed" /\ UNCHANGED <<rebase, replayed, inbox, acked, missed>>
      BY <1>0, <1>7, <2>1 DEF ResumeDecide, PhaseInv
    <2>2. CASE InWindow /\ cp' = "replaying" /\ UNCHANGED <<rebase, replayed, inbox, acked, missed>>
      BY <1>0, <1>7, <2>2 DEF ResumeDecide, InWindow, PhaseInv, linkVars
    <2> QED
      BY <1>6, <1>7, <2>1, <2>2 DEF ResumeDecide
  <1>8. CASE ResumeReplay
    <2>1. CASE ReplayUnavailable(ReplayFrom)
      BY <1>6, <1>8, <2>1 DEF ResumeReplay
    <2>2. CASE ~ReplayUnavailable(ReplayFrom)
      <3>1. PICK through \in 0..rCur :
              /\ cp' = "resumed" /\ acked' = Higher(acked, through)
              /\ missed \subseteq missed'
        BY <1>8, <2>2, Resumed
      <3>2. acked \in Nat /\ acked < rCur /\ rCur \in Nat /\ rCur <= Len(by) /\ opened' = opened
        BY <1>0, <1>8 DEF ResumeReplay, PhaseInv, GuiTypeOK
      <3>3. acked' \in Nat /\ acked' <= Len(by)
        BY <1>0, <3>1, <3>2 DEF Higher
      <3>4. (Len(by) + 1)..acked' = {}
        BY <1>0, <3>3
      <3> QED
        BY <1>0, <3>1, <3>3, <3>4 DEF PhaseInv, NoAck
    <2> QED
      BY <2>1, <2>2
  <1>9. CASE Subscribe
    BY <1>0, <1>9 DEF Subscribe, PhaseInv, viewVars, outcomeVars
  <1>10. CASE OnConnected
    BY <1>0, <1>10 DEF OnConnected, PhaseInv
  <1>11. CASE OpenSession
    BY <1>0, <1>11 DEF OpenSession, PhaseInv, outcomeVars
  <1>12. CASE FwdSkip
    <2>1. cursor + 1 \in 1..Len(sent) /\ cursor' = cursor + 1
          /\ missed' = missed \union {sent[cursor + 1]}
          /\ UNCHANGED <<cp, viewVars, outcomeVars>>
      BY <1>0, <1>12 DEF FwdSkip, LetGo
    <2>2. cp \in {"asked", "replaying"} =>
            \A j \in 1..cursor' : sent[j] <= rCur \/ sent[j] \in missed'
      BY <1>0, <2>1 DEF PhaseInv
    <2> QED
      BY <1>0, <2>1, <2>2 DEF PhaseInv, viewVars, outcomeVars
  <1>13. CASE Forward
    <2>1. cp \in {"subscribed", "live"}
      BY <1>13 DEF Forward, GuiInv, LinkInv
    <2> QED
      BY <1>0, <1>13, <2>1 DEF Forward, PhaseInv, viewVars, outcomeVars
  <1>14. CASE FwdLagged \/ LagError
    BY <1>0, <1>14 DEF FwdLagged, LagError, PhaseInv, viewVars, outcomeVars
  <1>15. ASSUME NEW n \in 1..Len(by), Receive(n), cp = "live", missed \subseteq missed'
         PROVE  PhaseInv'
    <2>1. acked' # NoAck /\ (Len(by) + 1)..acked' \subseteq (Len(by) + 1)..acked
      BY <1>0, <1>15 DEF Receive, Higher, PhaseInv, NoAck
    <2>2. cp' = "live" /\ ~rebase' /\ replayed' = {}
      BY <1>0, <1>15 DEF Receive, PhaseInv
    <2> QED
      BY <1>0, <1>15, <2>1, <2>2 DEF PhaseInv
  <1>16. CASE DeliverStashed
    <2>1. Head(inbox) \in 1..Len(by)
      BY <1>0, <1>16, HeadTailProperties DEF DeliverStashed, GuiTypeOK
    <2> QED
      BY <1>15, <1>16, <2>1 DEF DeliverStashed
  <1>17. CASE DeliverHost
    <2>1. Head(host) \in 0..Len(by) /\ Head(host) # 0
      BY <1>0, <1>17, HeadTailProperties DEF DeliverHost, GuiTypeOK, ErrorFrame
    <2>2. Head(host) \in 1..Len(by)
      BY <1>0, <2>1
    <2> QED
      BY <1>15, <1>17, <2>2 DEF DeliverHost, LetGo
  <1>18. CASE DeliverQueued
    <2>1. Head(queue) \in 1..Len(by)
      BY <1>0, <1>18, HeadTailProperties DEF DeliverQueued, GuiTypeOK
    <2> QED
      BY <1>15, <1>18, <2>1 DEF DeliverQueued
  <1>19. CASE LagTeardown \/ ConnectionLost
    <2>1. /\ cp' = "down" /\ ~rebase' /\ replayed' = {} /\ inbox' = <<>>
          /\ missed \subseteq missed' /\ UNCHANGED <<acked, opened>>
      BY <1>19 DEF LagTeardown, ConnectionLost, HangUp, LetGo
    <2> QED
      BY <1>0, <2>1 DEF PhaseInv
  <1> QED
    BY <1>1, <1>2, <1>3, <1>4, <1>5, <1>7, <1>8, <1>9, <1>10, <1>11, <1>12,
       <1>13, <1>14, <1>16, <1>17, <1>18, <1>19 DEF HubIdle, Handshake, Pump

-----------------------------------------------------------------------------
(* The client: what the view lacks                                         *)

\* A larger view, and nothing else that matters, keeps ViewInv.
LEMMA NearGrows ==
  ASSUME ViewInv, UNCHANGED <<by, sent>>, Near \subseteq Near',
         opened' => opened, ~rebase' => ~rebase,
         UNCHANGED <<acked, inbox, cursor, fwd, queue>>,
         cp' \in {"resumed", "subscribed", "live"} => cp \in {"resumed", "subscribed", "live"}
  PROVE  ViewInv'
  <1>1. Known' = Known /\ Elements(queue)' = Elements(queue)
    BY DEF Known, Elements
  <1> QED
    BY <1>1 DEF ViewInv, BelowAcked, BelowStashed, ForwardedHeld

\* The view of a reopened session has every event.
LEMMA AllNear ==
  ASSUME Known' \subseteq Near'
  PROVE  ViewInv'
  BY DEF ViewInv, BelowAcked, BelowStashed, ForwardedHeld

\* handle_resume reads the ring after the sequence: what is not in it any more,
\* or not yet, is the only thing the view goes without.
LEMMA ReplayView ==
  ASSUME FreePub = {Lagger}, GuiInv, ResumeReplay
  PROVE  ViewInv'
  <1>1. CASE ReplayUnavailable(ReplayFrom)
    BY <1>1 DEF ResumeReplay, RequireSnapshot, ViewInv
  <1>2. CASE ~ReplayUnavailable(ReplayFrom)
    <2> SUFFICES ASSUME opened', ~rebase' PROVE (BelowAcked /\ BelowStashed /\ ForwardedHeld)'
      BY DEF ViewInv
    <2>1. PICK through \in 0..rCur :
            /\ cp' = "resumed" /\ rebase' = rebase
            /\ acked' = Higher(acked, through)
            /\ \A n \in Elements(ring) :
                 acked < n /\ n <= rCur => n \in replayed' \union Elements(inbox)'
            /\ \A i \in 1..Len(inbox') :
                 /\ inbox'[i] <= rCur
                 /\ \E a, b \in 1..Len(ring) :
                      a <= b /\ ring[a] = inbox'[i] /\ ring[b] = through
            /\ missed' = missed \union
                 {n \in (acked + 1)..rCur : n \notin Elements(ring)
                                            /\ (n <= through \/ n \in Evicted)}
      BY <1>2, Resumed
    <2>2. /\ cp = "replaying" /\ acked \in Nat /\ rCur \in Nat /\ rCur <= Len(by)
          /\ replayed = {} /\ Elements(inbox) = {} /\ ~rebase /\ opened
          /\ \A j \in 1..cursor : sent[j] <= rCur \/ sent[j] \in missed
      <3>1. cp = "replaying" /\ opened' = opened
        BY DEF ResumeReplay
      <3>2. inbox = <<>>
        BY <3>1 DEF GuiInv, PhaseInv
      <3>3. Elements(inbox) = {}
        BY <3>2 DEF Elements
      <3> QED
        BY <2>1, <3>1, <3>3 DEF GuiInv, PhaseInv, GuiTypeOK
    <2>3. UNCHANGED <<by, ring, sent, pc, num, cursor, fwd, queue, have>> /\ Known' = Known
      BY DEF ResumeReplay, hubVars, linkVars, Known
    <2>4. /\ Len(by) \in Nat /\ Known \subseteq 1..Len(by) /\ Len(sent) \in Nat
          /\ \A i \in 1..Len(sent) : sent[i] \in 1..Len(by)
          /\ \A i \in 1..Len(ring) : ring[i] \in 1..Len(by)
          /\ cursor \in 0..Len(sent)
      BY GuiLengths DEF GuiInv, GuiTypeOK, HubInv, KnownInv
    <2>5. \A n \in Known : n <= acked => n \in Near'
      <3>1. \A n \in Known : n <= acked => n \in have \union missed
        BY <2>2 DEF GuiInv, ViewInv, BelowAcked, Near
      <3> QED
        BY <2>1, <2>3, <3>1 DEF Near
    \* Retained, or not retained below what was replayed, or evicted.
    <2>6. ASSUME NEW n \in Known, n <= rCur,
                 n \in Elements(ring) \/ n <= through \/ n \in Evicted
          PROVE  n \in Near'
      <3>1. CASE n <= acked
        BY <2>5, <3>1
      <3>2. CASE ~(n <= acked)
        <4>1. n \in (acked + 1)..rCur /\ acked < n
          BY <2>2, <2>4, <2>6, <3>2
        <4>2. CASE n \in Elements(ring)
          <5>1. n \in replayed' \union Elements(inbox)'
            BY <2>1, <2>6, <4>1, <4>2
          <5> QED
            BY <5>1 DEF Near
        <4>3. CASE n \notin Elements(ring)
          <5>1. n \in missed'
            BY <2>1, <2>6, <4>1, <4>3
          <5> QED
            BY <5>1 DEF Near
        <4> QED
          BY <4>2, <4>3
      <3> QED
        BY <3>1, <3>2
    <2>7. ASSUME NEW n \in Known, n <= acked' PROVE n \in Near'
      <3>1. CASE n <= acked
        BY <2>5, <3>1
      <3>2. CASE ~(n <= acked)
        <4>1. n <= through /\ n <= rCur
          BY <2>1, <2>2, <2>4, <2>7, <3>2 DEF Higher
        <4> QED
          BY <2>6, <4>1
      <3> QED
        BY <3>1, <3>2
    <2>8. ASSUME NEW i \in 1..Len(inbox'), NEW n \in Known, n < inbox'[i]
          PROVE  n \in Near'
      <3>1. PICK a \in 1..Len(ring), b \in 1..Len(ring) :
              a <= b /\ ring[a] = inbox'[i] /\ ring[b] = through
        BY <2>1
      <3>2. inbox'[i] <= rCur /\ inbox'[i] \in Nat /\ n \in Nat /\ n \in 1..Len(by)
        BY <2>1, <2>4, <3>1
      <3>3. n <= rCur /\ n < ring[a]
        BY <2>2, <2>8, <3>1, <3>2
      <3>4. CASE n <= through
        BY <2>6, <3>3, <3>4
      <3>5. CASE n > through
        <4>1. a < b
          BY <2>4, <3>1, <3>3, <3>5
        <4>2. ASSUME NEW p \in Pub, pc[p] = "numbered", num[p] = n PROVE FALSE
          <5>1. by[n] = p /\ by[n] \in SessionPub
            BY <4>2 DEF GuiInv, HubInv, NumInv, InFlight, Known
          <5>2. CASE ring[a] \in Known
            <6>1. SameStream(by[ring[a]], p)
              BY <5>1, <5>2 DEF SameStream, Known
            <6>2. ring[a] < num[p]
              BY <4>2, <6>1 DEF GuiInv, HubInv, AheadInv
            <6> QED
              BY <2>4, <3>2, <3>3, <4>2, <6>2
          <5>3. CASE ring[a] \notin Known /\ ring[b] \in Known
            BY <3>1, <3>3, <3>5, <4>1, <5>3 DEF GuiInv, SessionInv
          <5>4. CASE ring[a] \notin Known /\ ring[b] \notin Known
            <6>1. by[ring[a]] \notin SessionPub /\ by[ring[b]] \notin SessionPub
              BY <2>4, <5>4 DEF Known
            <6>2. \A m \in 1..Len(by) : by[m] \in SessionPub \union {Lagger}
              BY ElementOfSeq DEF GuiInv, HubInv, HubTypeOK, Pub
            <6>3. by[ring[a]] = by[ring[b]]
              BY <2>4, <6>1, <6>2
            <6>4. ring[a] < ring[b]
              BY <4>1, <6>3 DEF GuiInv, HubInv, RingOrder, SameStream
            <6> QED
              BY <2>2, <2>4, <3>1, <3>2, <3>3, <3>5, <6>4
          <5> QED
            BY <5>2, <5>3, <5>4
        <4>3. n \in Evicted \/ n \in Elements(ring)
          BY <3>2, <4>2 DEF Evicted, Current
        <4> QED
          BY <2>6, <3>3, <4>3
      <3> QED
        BY <2>2, <2>1, <2>4, <3>1, <3>2, <3>4, <3>5
    <2>9. ASSUME NEW j \in 1..cursor, sent[j] \in Known PROVE sent[j] \in Near'
      <3>1. j \in 1..Len(sent)
        BY <2>4
      <3>2. CASE sent[j] \in missed
        BY <2>1, <3>2 DEF Near
      <3>3. CASE sent[j] <= rCur
        <4>1. \A p \in Pub : pc[p] = "numbered" => num[p] # sent[j]
          BY <2>9, <3>1, SentNotInHand DEF GuiInv
        <4>2. sent[j] \in Evicted \/ sent[j] \in Elements(ring)
          BY <2>4, <3>1, <4>1 DEF Evicted, Current
        <4> QED
          BY <2>6, <2>9, <3>3, <4>2
      <3> QED
        BY <2>2, <3>2, <3>3
    <2>10. ForwardedHeld'
      <3>1. \A j \in 1..(IF fwd = "on" THEN cursor ELSE cursor - 1) : j \in 1..cursor
        BY <2>4
      <3> QED
        BY <2>3, <2>9, <3>1 DEF ForwardedHeld
    <2> QED
      BY <2>3, <2>7, <2>8, <2>10 DEF BelowAcked, BelowStashed
  <1> QED
    BY <1>1, <1>2

\* A frame reaches the pump.
LEMMA DeliverView ==
  ASSUME GuiInv, DeliverStashed \/ DeliverHost \/ DeliverQueued
  PROVE  ViewInv'
  <1> SUFFICES ASSUME opened', ~rebase' PROVE (BelowAcked /\ BelowStashed /\ ForwardedHeld)'
    BY DEF ViewInv
  <1>0. /\ UNCHANGED <<by, sent, cp, opened, rebase, replayed, cursor, fwd>>
        /\ Known' = Known /\ cp = "live" /\ opened /\ ~rebase /\ replayed = {}
    BY HubIdleStep DEF HubIdle, Pump, DeliverStashed, DeliverHost, DeliverQueued,
                       Receive, GuiInv, PhaseInv
  <1>1. /\ Len(by) \in Nat /\ Known \subseteq 1..Len(by) /\ Len(sent) \in Nat
        /\ acked \in Int /\ cursor \in 0..Len(sent)
        /\ Len(inbox) \in Nat /\ Len(queue) \in Nat
        /\ \A i \in 1..Len(sent) : sent[i] \in 1..Len(by)
        /\ \A i \in 1..Len(inbox) : inbox[i] \in 1..Len(by)
        /\ \A i \in 1..Len(queue) : queue[i] \in 1..Len(by)
        /\ GuiTypeOK
    BY GuiLengths DEF GuiInv, GuiTypeOK
  <1>2. BelowAcked /\ BelowStashed /\ ForwardedHeld
    BY <1>0 DEF GuiInv, ViewInv
  <1>3. CASE DeliverStashed
    <2>1. /\ inbox # <<>> /\ inbox' = Tail(inbox) /\ Receive(inbox[1])
          /\ queue' = queue /\ missed' = missed
      BY <1>1, <1>3 DEF DeliverStashed, GuiTypeOK
    <2>2. /\ Len(inbox') = Len(inbox) - 1 /\ Len(inbox) >= 1
          /\ \A i \in 1..Len(inbox') : inbox'[i] = inbox[i + 1]
      BY <1>1, <2>1, HeadTailProperties, EmptySeq DEF GuiTypeOK
    <2>3. have' = have \union {inbox[1]} /\ acked' = Higher(acked, inbox[1])
      BY <1>0, <2>1 DEF Receive
    <2>4. \A n \in Elements(inbox) : n = inbox[1] \/ n \in Elements(inbox)'
      <3> SUFFICES ASSUME NEW i \in 1..Len(inbox), i # 1 PROVE inbox[i] \in Elements(inbox)'
        BY DEF Elements
      <3>1. i - 1 \in 1..Len(inbox') /\ inbox'[i - 1] = inbox[i]
        BY <1>1, <2>2
      <3> QED
        BY <3>1 DEF Elements
    <2>5. Near \subseteq Near'
      BY <1>0, <2>1, <2>3, <2>4 DEF Near
    <2>6. inbox[1] \in Near' /\ 1 \in 1..Len(inbox) /\ inbox[1] \in 1..Len(by)
      BY <1>1, <2>2, <2>3 DEF Near
    <2>7. ASSUME NEW n \in Known, n <= acked' PROVE n \in Near'
      <3>1. n <= acked \/ n = inbox[1] \/ n < inbox[1]
        BY <1>1, <2>3, <2>6, <2>7 DEF Higher
      <3> QED
        BY <1>2, <2>5, <2>6, <3>1 DEF BelowAcked, BelowStashed
    <2>8. ASSUME NEW i \in 1..Len(inbox'), NEW n \in Known, n < inbox'[i]
          PROVE  n \in Near'
      <3>1. i + 1 \in 1..Len(inbox) /\ n < inbox[i + 1]
        BY <1>1, <2>2, <2>8
      <3> QED
        BY <1>2, <2>5, <3>1 DEF BelowStashed
    <2>9. ForwardedHeld'
      BY <1>0, <1>2, <2>1, <2>5 DEF ForwardedHeld, Elements
    <2> QED
      BY <1>0, <2>7, <2>8, <2>9 DEF BelowAcked, BelowStashed
  <1>4. CASE DeliverHost
    <2>1. /\ inbox = <<>> /\ inbox' = inbox /\ queue' = queue
          /\ missed' = missed \union ((acked + 1)..Head(host))
          /\ Head(host) \in 0..Len(by)
      BY <1>1, <1>4, HeadTailProperties DEF DeliverHost, LetGo, GuiTypeOK
    <2>2. have \subseteq have' /\ acked' = Higher(acked, Head(host))
      BY <1>4 DEF DeliverHost, Receive
    <2>3. Near \subseteq Near'
      BY <1>0, <2>1, <2>2 DEF Near, Elements
    <2>4. ASSUME NEW n \in Known, n <= acked' PROVE n \in Near'
      <3>1. n <= acked \/ n \in (acked + 1)..Head(host)
        BY <1>1, <2>1, <2>2, <2>4 DEF Higher
      <3>2. CASE n <= acked
        BY <1>2, <2>3, <3>2 DEF BelowAcked
      <3>3. CASE n \in (acked + 1)..Head(host)
        BY <2>1, <3>3 DEF Near
      <3> QED
        BY <3>1, <3>2, <3>3
    <2>5. BelowStashed'
      BY <2>1 DEF BelowStashed
    <2>6. ForwardedHeld'
      BY <1>0, <1>2, <2>1, <2>3 DEF ForwardedHeld, Elements
    <2> QED
      BY <1>0, <2>4, <2>5, <2>6 DEF BelowAcked
  <1>5. CASE DeliverQueued
    <2>1. /\ queue # <<>> /\ queue' = Tail(queue) /\ Receive(queue[1])
          /\ inbox = <<>> /\ inbox' = inbox /\ missed' = missed
      BY <1>1, <1>5 DEF DeliverQueued, GuiTypeOK
    <2>2. /\ Len(queue') = Len(queue) - 1 /\ Len(queue) >= 1
          /\ \A i \in 1..Len(queue') : queue'[i] = queue[i + 1]
      BY <1>1, <2>1, HeadTailProperties, EmptySeq DEF GuiTypeOK
    <2>3. have' = have \union {queue[1]} /\ acked' = Higher(acked, queue[1])
      BY <1>0, <2>1 DEF Receive
    <2>4. \A n \in Elements(queue) : n = queue[1] \/ n \in Elements(queue)'
      <3> SUFFICES ASSUME NEW i \in 1..Len(queue), i # 1 PROVE queue[i] \in Elements(queue)'
        BY DEF Elements
      <3>1. i - 1 \in 1..Len(queue') /\ queue'[i - 1] = queue[i]
        BY <1>1, <2>2
      <3> QED
        BY <3>1 DEF Elements
    <2>5. Near \subseteq Near'
      BY <1>0, <2>1, <2>3 DEF Near, Elements
    <2>6. queue[1] \in Near' /\ 1 \in 1..Len(queue) /\ queue[1] \in 1..Len(by)
      BY <1>1, <2>2, <2>3 DEF Near
    \* What was published before the head of the queue was forwarded before it.
    <2>7. ASSUME NEW n \in Known, n < queue[1] PROVE n \in Near
      <3>1. PICK j \in 1..cursor : sent[j] = queue[1] /\ queue[1] \in Known
        BY <2>6 DEF GuiInv, QueueInv
      <3>2. j \in 1..Len(sent)
        BY <1>1
      <3>3. PICK i \in 1..(j - 1) : sent[i] = n
        BY <2>7, <3>1, <3>2, SentBefore DEF GuiInv
      <3>4. i \in 1..(IF fwd = "on" THEN cursor ELSE cursor - 1)
        BY <1>1, <3>2
      <3>5. n \in Near \union Elements(queue)
        BY <1>0, <1>2, <3>3, <3>4 DEF ForwardedHeld
      <3>6. \A k \in 1..Len(queue) : queue[k] # n
        <4> TAKE k \in 1..Len(queue)
        <4>1. k = 1 \/ queue[1] < queue[k]
          BY <1>1, <2>6 DEF GuiInv, QueueInv
        <4> QED
          BY <1>1, <2>6, <2>7, <4>1
      <3> QED
        BY <3>5, <3>6 DEF Elements
    <2>8. ASSUME NEW n \in Known, n <= acked' PROVE n \in Near'
      <3>1. n <= acked \/ n = queue[1] \/ n < queue[1]
        BY <1>1, <2>3, <2>6, <2>8 DEF Higher
      <3> QED
        BY <1>2, <2>5, <2>6, <2>7, <3>1 DEF BelowAcked
    <2>9. BelowStashed'
      BY <2>1 DEF BelowStashed
    <2>10. ForwardedHeld'
      <3> SUFFICES ASSUME NEW j \in 1..(IF fwd = "on" THEN cursor ELSE cursor - 1),
                          sent[j] \in Known
                   PROVE  sent[j] \in Near' \union Elements(queue)'
        BY <1>0 DEF ForwardedHeld
      <3>1. sent[j] \in Near \union Elements(queue)
        BY <1>0, <1>2 DEF ForwardedHeld
      <3> QED
        BY <2>4, <2>5, <2>6, <3>1
    <2> QED
      BY <1>0, <2>8, <2>9, <2>10 DEF BelowAcked
  <1> QED
    BY <1>3, <1>4, <1>5

LEMMA ViewIdle ==
  ASSUME FreePub = {Lagger}, GuiInv, HubIdle
  PROVE  ViewInv'
  <1>0. /\ ViewInv /\ PhaseInv /\ LinkInv /\ QueueInv /\ GuiTypeOK
        /\ UNCHANGED <<by, ring, sent, pc, num, holder>> /\ Known' = Known
        /\ Len(by) \in Nat /\ Known \subseteq 1..Len(by)
        /\ cursor \in Nat /\ acked \in Int /\ Len(queue) \in Nat
    BY HubIdleStep, GuiLengths DEF GuiInv
  <1>1. CASE Connect
    <2>1. UNCHANGED <<viewVars, linkVars, missed, rebase, replayed, inbox>> /\ cp' = "hello"
      BY <1>0, <1>1 DEF Connect, PhaseInv, GuiTypeOK
    <2>2. Near' = Near
      BY <2>1 DEF viewVars, Near, Elements
    <2> QED
      BY <1>0, <2>1, <2>2, NearGrows DEF viewVars, linkVars
  <1>2. CASE Stamp \/ ResumeRead
    <2>1. UNCHANGED <<viewVars, linkVars, missed, rebase, replayed, inbox>>
          /\ cp' \in {"stamped", "asked"}
      BY <1>2 DEF Stamp, ResumeRead
    <2>2. Near' = Near
      BY <2>1 DEF viewVars, Near, Elements
    <2> QED
      BY <1>0, <2>1, <2>2, NearGrows DEF viewVars, linkVars
  <1>3. CASE Spawn
    <2>1. UNCHANGED <<viewVars, outcomeVars, missed>> /\ cp' = "spawned"
      BY <1>3 DEF Spawn
    <2>2. Near' = Near
      BY <2>1 DEF viewVars, outcomeVars, Near, Elements
    <2> QED
      BY <1>0, <2>1, <2>2 DEF viewVars, outcomeVars, ViewInv, BelowAcked, BelowStashed,
                              ForwardedHeld
  <1>4. CASE Fresh
    BY <1>0, <1>4 DEF Fresh, PhaseInv, ViewInv
  <1>5. CASE ResumeDecide
    <2>1. CASE RequireSnapshot
      BY <2>1 DEF RequireSnapshot, ViewInv
    <2>2. CASE InWindow /\ cp' = "replaying" /\ UNCHANGED <<rebase, replayed, inbox, acked, missed>>
      <3>1. UNCHANGED <<have, opened, linkVars>>
        BY <1>5 DEF ResumeDecide
      <3>2. Near' = Near
        BY <2>2, <3>1 DEF Near, Elements
      <3> QED
        BY <1>0, <2>2, <3>1, <3>2, NearGrows DEF linkVars
    <2>3. CASE UpToDate /\ cp' = "resumed" /\ UNCHANGED <<rebase, replayed, inbox, acked, missed>>
      <3>1. UNCHANGED <<have, opened, linkVars>> /\ cp = "asked" /\ acked = rCur
        BY <1>5, <2>3 DEF ResumeDecide, UpToDate
      <3>2. Near' = Near
        BY <2>3, <3>1 DEF Near, Elements
      <3>3. \A j \in 1..cursor : sent[j] \in Known /\ opened /\ ~rebase => sent[j] \in Near
        BY <1>0, <3>1 DEF PhaseInv, ViewInv, BelowAcked, Near
      <3>4. opened /\ ~rebase => ForwardedHeld'
        BY <1>0, <3>1, <3>2, <3>3 DEF ForwardedHeld, linkVars
      <3> QED
        BY <1>0, <2>3, <3>1, <3>2, <3>4 DEF ViewInv, BelowAcked, BelowStashed
    <2> QED
      BY <1>5, <2>1, <2>2, <2>3 DEF ResumeDecide
  <1>6. CASE ResumeReplay
    BY <1>6, ReplayView
  <1>7. CASE Subscribe
    <2>1. UNCHANGED <<viewVars, outcomeVars, cursor, fwd, queue, missed>> /\ cp = "resumed"
      BY <1>7 DEF Subscribe
    <2>2. Near' = Near
      BY <2>1 DEF viewVars, outcomeVars, Near, Elements
    <2> QED
      BY <1>0, <2>1, <2>2, NearGrows DEF viewVars, outcomeVars
  <1>8. CASE OnConnected
    <2>1. /\ UNCHANGED <<acked, opened, inbox, linkVars, missed>>
          /\ cp = "subscribed" /\ replayed' = {}
      BY <1>8 DEF OnConnected
    <2>2. CASE opened /\ rebase
      <3>1. have' = 1..Len(by)
        BY <1>8, <2>2 DEF OnConnected, Current
      <3> QED
        BY <1>0, <3>1, AllNear DEF Near
    <2>3. CASE opened /\ ~rebase
      <3>1. have' = have \union replayed
        BY <1>8, <2>3 DEF OnConnected
      <3>2. Near' = Near
        BY <2>1, <3>1 DEF Near, Elements
      <3> QED
        BY <1>0, <2>1, <2>3, <3>2, NearGrows DEF linkVars
    <2>4. CASE ~opened
      BY <2>1, <2>4 DEF ViewInv
    <2> QED
      BY <2>2, <2>3, <2>4
  <1>9. CASE OpenSession
    <2>1. have' = 1..Len(by)
      BY <1>9 DEF OpenSession, Current
    <2> QED
      BY <1>0, <2>1, AllNear DEF Near
  <1>10. CASE FwdSkip
    <2>1. /\ UNCHANGED <<cp, viewVars, outcomeVars, fwd, queue>> /\ fwd = "on"
          /\ cursor' = cursor + 1 /\ missed' = missed \union {sent[cursor + 1]}
      BY <1>10 DEF FwdSkip, LetGo
    <2>2. Near \subseteq Near' /\ sent[cursor + 1] \in Near'
      BY <2>1 DEF viewVars, outcomeVars, Near, Elements
    <2>3. ForwardedHeld => ForwardedHeld'
      <3> SUFFICES ASSUME ForwardedHeld, cp \in {"resumed", "subscribed", "live"},
                          NEW j \in 1..cursor', sent[j] \in Known
                   PROVE  sent[j] \in Near' \union Elements(queue)
        BY <1>0, <2>1 DEF ForwardedHeld, Elements
      <3>1. j \in 1..cursor \/ j = cursor + 1
        BY <1>0, <2>1
      <3> QED
        BY <2>1, <2>2, <3>1 DEF ForwardedHeld
    <2> QED
      BY <1>0, <2>1, <2>2, <2>3 DEF viewVars, outcomeVars, ViewInv, BelowAcked, BelowStashed
  <1>11. CASE Forward
    <2>1. /\ UNCHANGED <<cp, viewVars, outcomeVars, missed>> /\ fwd = "on"
          /\ cursor' = cursor + 1 /\ cursor + 1 \in 1..Len(sent)
      BY <1>0, <1>11, GuiLengths DEF Forward, GuiInv
    <2>2. Near' = Near
      BY <2>1 DEF viewVars, outcomeVars, Near, Elements
    <2>3. ForwardedHeld => ForwardedHeld'
      <3> SUFFICES ASSUME ForwardedHeld, cp \in {"resumed", "subscribed", "live"},
                          NEW j \in 1..(IF fwd' = "on" THEN cursor' ELSE cursor' - 1),
                          sent[j] \in Known
                   PROVE  sent[j] \in Near \union Elements(queue)'
        BY <1>0, <2>1, <2>2 DEF ForwardedHeld
      <3>1. CASE ~HasRoom
        <4>1. queue' = queue /\ fwd' = "lagging"
          BY <1>11, <3>1 DEF Forward
        <4>2. j \in 1..cursor
          BY <1>0, <2>1, <4>1
        <4> QED
          BY <2>1, <4>1, <4>2 DEF ForwardedHeld, Elements
      <3>2. CASE HasRoom
        <4>1. queue' = Append(queue, sent[cursor + 1]) /\ fwd' = "on"
          BY <1>11, <2>1, <3>2 DEF Forward
        <4>2. queue \in Seq(1..Len(by)) /\ sent[cursor + 1] \in 1..Len(by)
          BY <2>1, GuiLengths DEF GuiInv, GuiTypeOK
        <4>3. /\ Len(queue') = Len(queue) + 1
              /\ \A i \in 1..Len(queue) : queue'[i] = queue[i]
              /\ queue'[Len(queue) + 1] = sent[cursor + 1]
          BY <4>1, <4>2, AppendProperties
        <4>4. \A n \in Elements(queue) : n \in Elements(queue)'
          BY <1>0, <4>3 DEF Elements
        <4>5. sent[cursor + 1] \in Elements(queue)'
          BY <1>0, <4>3 DEF Elements
        <4>6. j \in 1..cursor \/ j = cursor + 1
          BY <1>0, <2>1, <4>1
        <4> QED
          BY <2>1, <4>4, <4>5, <4>6 DEF ForwardedHeld
      <3> QED
        BY <3>1, <3>2
    <2> QED
      BY <1>0, <2>1, <2>2, <2>3 DEF viewVars, outcomeVars, ViewInv, BelowAcked, BelowStashed
  <1>12. CASE FwdLagged \/ LagError
    <2>1. /\ UNCHANGED <<cp, viewVars, outcomeVars, cursor, queue, missed>>
          /\ fwd' # "on"
      BY <1>12 DEF FwdLagged, LagError
    <2>2. Near' = Near /\ Elements(queue)' = Elements(queue)
      BY <2>1 DEF viewVars, outcomeVars, Near, Elements
    <2>3. \A j \in 1..(cursor - 1) : j \in 1..(IF fwd = "on" THEN cursor ELSE cursor - 1)
      BY <1>0
    <2>4. ForwardedHeld => ForwardedHeld'
      BY <1>0, <2>1, <2>2, <2>3 DEF ForwardedHeld
    <2> QED
      BY <1>0, <2>1, <2>2, <2>4 DEF viewVars, outcomeVars, ViewInv, BelowAcked, BelowStashed
  <1>13. CASE DeliverStashed \/ DeliverHost \/ DeliverQueued
    BY <1>13, DeliverView
  <1>14. CASE LagTeardown \/ ConnectionLost
    <2> SUFFICES ASSUME opened, NEW n \in Known, n <= acked PROVE n \in Near'
      <3>1. cp' = "down" /\ inbox' = <<>> /\ UNCHANGED <<acked, opened>>
        BY <1>14 DEF LagTeardown, ConnectionLost, HangUp
      <3> QED
        BY <1>0, <3>1 DEF ViewInv, BelowAcked, BelowStashed, ForwardedHeld
    <2>1. CASE LagTeardown
      <3>1. ~rebase /\ replayed = {} /\ inbox = <<>> /\ UNCHANGED <<have, missed>>
        BY <1>0, <2>1 DEF LagTeardown, PhaseInv
      <3>2. n \in have \union missed
        BY <1>0, <3>1 DEF ViewInv, BelowAcked, Near, Elements
      <3> QED
        BY <3>1, <3>2 DEF Near
    <2>2. CASE ConnectionLost
      <3>1. missed' = missed \union (IF rebase THEN 1..acked
                        ELSE IF cp = "resumed" THEN replayed \union Elements(inbox)
                        ELSE Elements(inbox))
        BY <2>2 DEF ConnectionLost, LetGo
      <3>2. CASE rebase
        <4>1. n \in missed'
          BY <1>0, <3>1, <3>2
        <4> QED
          BY <4>1 DEF Near
      <3>3. CASE ~rebase
        <4>1. n \in have \union replayed \union Elements(inbox) \union missed
          BY <1>0, <3>3 DEF ViewInv, BelowAcked, Near
        <4>2. have' = (IF cp # "subscribed" THEN have ELSE have \union replayed)
          BY <2>2, <3>3 DEF ConnectionLost
        <4>3. cp \notin {"resumed", "subscribed"} => replayed = {}
          BY <1>0 DEF PhaseInv
        <4>4. n \in have' \union missed'
          BY <3>1, <3>3, <4>1, <4>2, <4>3
        <4> QED
          BY <4>4 DEF Near
      <3> QED
        BY <3>2, <3>3
    <2> QED
      BY <1>14, <2>1, <2>2
  <1> QED
    BY <1>1, <1>2, <1>3, <1>4, <1>5, <1>6, <1>7, <1>8, <1>9, <1>10, <1>11,
       <1>12, <1>13, <1>14 DEF HubIdle, Handshake, Pump

-----------------------------------------------------------------------------
(* The client: publications, restart, and the theorems                     *)

\* A publication that the client has no part in, or the lag diagnostic up to
\* its broadcast.
LEMMA PublishKeeps ==
  ASSUME FreePub = {Lagger}, GuiInv, HubTypeOK', NEW p \in Pub, Publish(p),
         UNCHANGED guiVars, p = Lagger => fwd \notin {"none", "on"} \/ ~Number(p)
  PROVE  GuiTypeOK' /\ LinkInv' /\ QueueInv' /\ PhaseInv' /\ ViewInv'
  <1>0. /\ GuiTypeOK /\ LinkInv /\ QueueInv /\ PhaseInv /\ ViewInv /\ HubInv
        /\ Len(by) \in Nat /\ Len(sent) \in Nat /\ cursor \in Nat /\ acked \in Int
        /\ Known \subseteq 1..Len(by)
        /\ Len(inbox) \in Nat /\ Len(queue) \in Nat
        /\ \A i \in 1..Len(inbox) : inbox[i] \in 1..Len(by)
        /\ \A i \in 1..Len(sent) : sent[i] \in 1..Len(by)
        /\ Lagger \in Pub
        /\ p # Lagger => p \in SessionPub
    BY GuiLengths DEF GuiInv, Pub
  <1>1. /\ Len(by) <= Len(by')
        /\ Known \subseteq Known'
        /\ \A n \in Known' : n \in Known \/ n > Len(by)
        /\ Len(sent) <= Len(sent')
        /\ \A j \in 1..Len(sent) : sent'[j] = sent[j]
        /\ p \in SessionPub => \A j \in (Len(sent) + 1)..Len(sent') : sent'[j] \in Known'
        /\ \A q \in Pub : q # p => pc'[q] = pc[q]
    BY <1>0, Grows
  <1>2. Len(by') \in Nat /\ Len(sent') \in Nat /\ Known' \subseteq 1..Len(by')
    <2>1. by' \in Seq(Pub) /\ sent' \in Seq(Nat)
      BY DEF HubTypeOK
    <2> QED
      BY <2>1 DEF Known
  <1>3. UNCHANGED <<cp, acked, have, opened, rebase, replayed, inbox, snapSeq, rCur,
                    subscribed, cursor, fwd, queue, host, torn, missed>>
    BY DEF guiVars, viewVars, outcomeVars, linkVars
  <1>4. GuiTypeOK'
    <2>1. 1..Len(by) \subseteq 1..Len(by') /\ Seq(1..Len(by)) \subseteq Seq(1..Len(by'))
          /\ Seq(0..Len(by)) \subseteq Seq(0..Len(by'))
      BY <1>0, <1>1, <1>2, MoreNumbers
    <2>2. cursor \in 0..Len(sent')
      BY <1>0, <1>1, <1>2 DEF GuiTypeOK
    <2>3. /\ have \subseteq 1..Len(by') /\ replayed \subseteq 1..Len(by')
          /\ inbox \in Seq(1..Len(by')) /\ queue \in Seq(1..Len(by'))
          /\ host \in Seq(0..Len(by'))
      BY <1>0, <2>1 DEF GuiTypeOK
    <2> QED
      BY <1>0, <1>3, <2>2, <2>3 DEF GuiTypeOK, Connecting
  <1>5. pc'[Lagger] = "idle" \/ fwd \notin {"none", "on"} \/ pc[Lagger] # "idle"
    <2>1. CASE p = Lagger
      <3>1. ~Lock(p) /\ ~Unlock(p)
        BY <2>1, LaggerAssumption DEF Lock, Unlock
      <3>2. Retain(p) \/ Broadcast(p) => pc[Lagger] # "idle"
        BY <2>1 DEF Retain, Broadcast
      <3> QED
        BY <2>1, <3>1, <3>2 DEF Publish
    <2>2. CASE p # Lagger
      BY <1>0, <1>1, <2>2
    <2> QED
      BY <2>1, <2>2
  <1>6. LinkInv'
    BY <1>0, <1>3, <1>5 DEF LinkInv
  <1>7. fwd = "on" => p \in SessionPub
    <2>1. CASE p = Lagger
      <3>1. ~Lock(p) /\ ~Unlock(p)
        BY <2>1, LaggerAssumption DEF Lock, Unlock
      <3>2. Retain(p) \/ Broadcast(p) => pc[Lagger] # "idle"
        BY <2>1 DEF Retain, Broadcast
      <3> QED
        BY <1>0, <2>1, <3>1, <3>2 DEF Publish, LinkInv
    <2> QED
      BY <1>0, <2>1
  <1>8. QueueInv'
    <2>1. ASSUME fwd = "on", NEW j \in (cursor + 1)..Len(sent') PROVE sent'[j] \in Known'
      <3>1. CASE j <= Len(sent)
        <4>1. j \in (cursor + 1)..Len(sent) /\ j \in 1..Len(sent)
          BY <1>0, <1>2, <3>1
        <4>2. sent[j] \in Known
          BY <1>0, <2>1, <4>1 DEF QueueInv
        <4> QED
          BY <1>1, <4>1, <4>2
      <3>2. CASE ~(j <= Len(sent))
        <4>1. j \in (Len(sent) + 1)..Len(sent')
          BY <1>0, <1>2, <3>2
        <4> QED
          BY <1>1, <1>7, <2>1, <4>1
      <3> QED
        BY <3>1, <3>2
    <2>2. ASSUME NEW i \in 1..Len(queue)
          PROVE  queue[i] \in Known' /\ \E j \in 1..cursor : sent'[j] = queue[i]
      <3>1. PICK j \in 1..cursor : sent[j] = queue[i] /\ queue[i] \in Known
        BY <1>0 DEF QueueInv
      <3>2. j \in 1..Len(sent)
        BY <1>0 DEF GuiTypeOK
      <3> QED
        BY <1>1, <3>1, <3>2
    <2> QED
      BY <1>0, <1>3, <2>1, <2>2 DEF QueueInv
  <1>9. \A j \in 1..cursor : j \in 1..Len(sent) /\ sent'[j] = sent[j]
    <2>1. cursor \in 0..Len(sent) /\ Len(sent) \in Nat
      BY <1>0 DEF GuiTypeOK
    <2>2. \A j \in 1..cursor : j \in 1..Len(sent)
      BY <2>1
    <2> QED
      BY <1>1, <2>2
  <1>10. PhaseInv'
    <2>1. (Len(by') + 1)..acked \subseteq (Len(by) + 1)..acked
      BY <1>0, <1>1, <1>2
    <2>2. rCur <= Len(by) => rCur <= Len(by')
      BY <1>0, <1>1, <1>2 DEF GuiTypeOK
    <2>3. snapSeq <= Len(by) => snapSeq <= Len(by')
      BY <1>0, <1>1, <1>2 DEF GuiTypeOK
    <2>4. (Len(by') + 1)..acked \subseteq missed
      BY <1>0, <2>1 DEF PhaseInv
    <2>5. cp \in {"asked", "replaying"} =>
            rCur <= Len(by') /\ \A j \in 1..cursor : sent'[j] <= rCur \/ sent'[j] \in missed
      BY <1>0, <1>9, <2>2 DEF PhaseInv
    <2> QED
      BY <1>0, <1>3, <2>3, <2>4, <2>5 DEF PhaseInv
  <1>11. ViewInv'
    <2> SUFFICES ASSUME opened, ~rebase PROVE (BelowAcked /\ BelowStashed /\ ForwardedHeld)'
      BY <1>3 DEF ViewInv
    <2>1. Near' = Near /\ Elements(queue)' = Elements(queue)
      BY <1>3 DEF Near, Elements
    <2>2. BelowAcked'
      <3> SUFFICES ASSUME NEW n \in Known', n <= acked PROVE n \in Near
        BY <1>3, <2>1 DEF BelowAcked
      <3>1. CASE n \in Known
        BY <1>0, <3>1 DEF ViewInv, BelowAcked
      <3>2. CASE n > Len(by)
        <4>1. n \in (Len(by) + 1)..acked
          BY <1>0, <1>2, <3>2
        <4> QED
          BY <1>0, <4>1 DEF PhaseInv, Near
      <3> QED
        BY <1>1, <3>1, <3>2
    <2>3. BelowStashed'
      <3> SUFFICES ASSUME NEW i \in 1..Len(inbox), NEW n \in Known', n < inbox[i]
                   PROVE  n \in Near
        BY <1>3, <2>1 DEF BelowStashed
      <3>1. n \in Known
        BY <1>0, <1>1, <1>2
      <3> QED
        BY <1>0, <3>1 DEF ViewInv, BelowStashed
    <2>4. ForwardedHeld'
      <3> SUFFICES ASSUME cp \in {"resumed", "subscribed", "live"},
                          NEW j \in 1..(IF fwd = "on" THEN cursor ELSE cursor - 1),
                          sent'[j] \in Known'
                   PROVE  sent'[j] \in Near \union Elements(queue)
        BY <1>3, <2>1 DEF ForwardedHeld
      <3>1. j \in 1..cursor
        BY <1>0
      <3>2. sent'[j] = sent[j] /\ sent[j] \in 1..Len(by)
        BY <1>0, <1>9, <3>1
      <3>3. sent[j] \in Known
        BY <1>0, <1>1, <3>2
      <3> QED
        BY <1>0, <3>2, <3>3 DEF ViewInv, ForwardedHeld
    <2> QED
      BY <2>2, <2>3, <2>4
  <1> QED
    BY <1>4, <1>6, <1>8, <1>10, <1>11

\* The diagnostic is broadcast, and on its way around the queue.
LEMMA LagSendKeeps ==
  ASSUME FreePub = {Lagger}, GuiInv, HubTypeOK', LagSend
  PROVE  GuiTypeOK' /\ LinkInv' /\ QueueInv' /\ PhaseInv' /\ ViewInv'
  <1>0. /\ GuiTypeOK /\ LinkInv /\ QueueInv /\ PhaseInv /\ ViewInv /\ HubInv
        /\ Len(by) \in Nat /\ Len(sent) \in Nat /\ cursor \in Nat /\ acked \in Int
        /\ Lagger \in Pub /\ Lagger \notin SessionPub
    BY GuiLengths, LaggerAssumption DEF GuiInv, Pub
  <1>1. /\ by' = by /\ pc[Lagger] = "retained" /\ pc'[Lagger] = "idle"
        /\ UNCHANGED <<cp, acked, have, opened, torn, rebase, replayed, inbox, snapSeq,
                       rCur, subscribed, cursor, queue, missed>>
        /\ fwd # "on" /\ fwd' # "on"
    <2>1. by' = by /\ pc[Lagger] = "retained" /\ pc'[Lagger] = "idle"
      BY <1>0 DEF LagSend, Broadcast, HubInv, HubTypeOK
    <2>2. UNCHANGED <<cp, acked, have, opened, torn, rebase, replayed, inbox, snapSeq,
                      rCur, subscribed, cursor, queue, missed>>
      BY DEF LagSend, viewVars, outcomeVars
    <2> QED
      BY <1>0, <2>1, <2>2 DEF LagSend, LinkInv
  <1>2. /\ Len(sent) <= Len(sent') /\ Len(sent') \in Nat
        /\ \A j \in 1..Len(sent) : sent'[j] = sent[j]
    <2>1. Publish(Lagger)
      BY DEF LagSend, Publish
    <2>2. sent' \in Seq(Nat)
      BY DEF HubTypeOK
    <2> QED
      BY <1>0, <2>1, <2>2, Grows
  <1>3. /\ Known' = Known
        /\ \A j \in 1..cursor : j \in 1..Len(sent) /\ sent'[j] = sent[j]
    BY <1>0, <1>1, <1>2 DEF Known, GuiTypeOK
  <1>4. \/ fwd = "lagging" /\ fwd' = "telling" /\ host = <<>>
           /\ host' = Append(host, num[Lagger])
        \/ UNCHANGED <<fwd, host>> /\ fwd # "lagging"
    BY <1>0 DEF LagSend, LinkInv
  <1>5. num[Lagger] \in 0..Len(by)
    BY <1>0, <1>1 DEF HubInv, NumInv, InFlight
  <1>6. host' \in Seq(0..Len(by)) /\ Len(host') <= 2 /\ (fwd' = "telling" => Len(host') <= 1)
    <2>1. CASE host = <<>> /\ host' = Append(host, num[Lagger])
      <3>1. host' \in Seq(0..Len(by)) /\ Len(host') = Len(host) + 1 /\ Len(host) = 0
        BY <1>0, <1>5, <2>1, AppendProperties, EmptySeq DEF GuiTypeOK
      <3> QED
        BY <3>1
    <2>2. CASE UNCHANGED <<fwd, host>>
      BY <1>0, <2>2 DEF GuiTypeOK, LinkInv
    <2> QED
      BY <1>4, <2>1, <2>2
  <1>7. GuiTypeOK'
    <2>1. cursor \in 0..Len(sent')
      BY <1>0, <1>2 DEF GuiTypeOK
    <2>2. fwd' \in {"none", "on", "lagging", "telling", "stopped"}
      BY <1>0, <1>4 DEF GuiTypeOK
    <2> QED
      BY <1>0, <1>1, <1>6, <2>1, <2>2 DEF GuiTypeOK, Connecting
  <1>8. LinkInv'
    BY <1>0, <1>1, <1>4, <1>6 DEF LinkInv
  <1>9. QueueInv'
    <2>1. \A i \in 1..Len(queue) : /\ queue[i] \in Known
                                   /\ \E j \in 1..cursor : sent'[j] = queue[i]
      BY <1>0, <1>3 DEF QueueInv
    <2>2. UNCHANGED <<subscribed, cursor, queue>> /\ fwd' # "on"
      BY <1>1
    <2> QED
      BY <1>0, <1>3, <2>1, <2>2 DEF QueueInv
  <1>10. PhaseInv'
    BY <1>0, <1>1, <1>3 DEF PhaseInv
  <1>11. ViewInv'
    <2>1. Near' = Near /\ Elements(queue)' = Elements(queue)
      BY <1>1 DEF Near, Elements
    <2>2. \A j \in 1..(cursor - 1) : j \in 1..cursor
      BY <1>0
    <2>3. ForwardedHeld => ForwardedHeld'
      BY <1>1, <1>3, <2>1, <2>2 DEF ForwardedHeld
    <2>4. (BelowAcked => BelowAcked') /\ (BelowStashed => BelowStashed')
      BY <1>1, <1>3, <2>1 DEF BelowAcked, BelowStashed
    <2> QED
      BY <1>0, <1>1, <2>3, <2>4 DEF ViewInv
  <1> QED
    BY <1>7, <1>8, <1>9, <1>10, <1>11

NothingPublished == HubInv /\ SessionInv /\ Known = {} /\ Len(by) = 0

LEMMA EmptyHub == HubInit => NothingPublished
  <1> SUFFICES ASSUME HubInit PROVE NothingPublished
    OBVIOUS
  <1>1. Len(by) = 0 /\ Len(sent) = 0 /\ Len(ring) = 0
    BY DEF HubInit
  <1>2. Known = {}
    BY <1>1 DEF Known
  <1>3. \A p \in SessionPub : pc[p] \notin InFlight
    BY DEF HubInit, InFlight, Pub
  <1> QED
    BY <1>1, <1>2, <1>3, HubInvInit DEF SessionInv, NothingPublished

LEMMA RestartKeeps ==
  ASSUME FreePub = {Lagger}, GuiInv, HostRestart
  PROVE  GuiInv'
  <1>0. GuiTypeOK /\ PhaseInv
    BY DEF GuiInv
  <1>1. HubInit'
    BY DEF HostRestart, HubInit
  <1>2. HubInv' /\ SessionInv' /\ Known' = {} /\ Len(by') = 0
    <2>1. HubInit' => NothingPublished'
      BY EmptyHub, PTL
    <2> QED
      BY <1>1, <2>1 DEF NothingPublished
  <1>3. GuiTypeOK'
    BY LossTypes
  <1>4. /\ cp' = "down" /\ fwd' = "none" /\ queue' = <<>> /\ host' = <<>> /\ inbox' = <<>>
        /\ ~subscribed' /\ ~rebase' /\ replayed' = {} /\ missed' = 1..acked
        /\ acked # NoAck /\ UNCHANGED acked
    BY DEF HostRestart, HangUp
  <1>5. LinkInv' /\ QueueInv'
    BY <1>4 DEF LinkInv, QueueInv
  <1>6. PhaseInv'
    BY <1>2, <1>4 DEF PhaseInv
  <1>7. ViewInv'
    BY <1>2, AllNear
  <1> QED
    BY <1>2, <1>3, <1>5, <1>6, <1>7 DEF GuiInv

LEMMA GuiInvStep ==
  ASSUME FreePub = {Lagger}, GuiInv, [GuiNext]_vars
  PROVE  GuiInv'
  <1>1. CASE HubIdle
    <2>1. UNCHANGED <<by, ring, sent, pc, num, holder>> /\ Known' = Known
      BY <1>1, HubIdleStep
    <2>2. HubInv' /\ SessionInv'
      <3>1. UNCHANGED hubVars
        BY <2>1 DEF hubVars
      <3>2. SessionInv'
        BY <2>1 DEF GuiInv, SessionInv, Elements
      <3> QED
        BY <3>1, <3>2, HubInvStep DEF GuiInv
    <2>3. GuiTypeOK'
      BY <1>1, HandshakeTypes, ForwarderTypes, PumpTypes, LossTypes DEF HubIdle
    <2> QED
      BY <1>1, <2>2, <2>3, LinkIdle, QueueIdle, PhaseIdle, ViewIdle DEF GuiInv
  <1>2. ASSUME NEW p \in Pub, Publish(p) PROVE HubInv' /\ HubTypeOK' /\ SessionInv'
    <2>1. HubInv' /\ HubTypeOK'
      BY <1>2, HubInvStep DEF GuiInv, HubNext, HubInv
    <2> QED
      BY <1>2, <2>1, SessionStep DEF GuiInv
  <1>3. CASE Others
    <2>1. PICK p \in Pub \ {Lagger} : Publish(p)
      BY <1>3 DEF Others
    <2>2. UNCHANGED guiVars
      BY <1>3 DEF Others
    <2> QED
      BY <1>2, <2>1, <2>2, PublishKeeps DEF GuiInv
  <1>4. CASE LagPublish
    <2>1. Lagger \in Pub /\ Publish(Lagger) /\ UNCHANGED guiVars
      BY <1>4 DEF LagPublish, Publish, Pub
    <2>2. fwd \notin {"none", "on"} \/ ~Number(Lagger)
      <3>1. Retain(Lagger) => ~Number(Lagger)
        BY LaggerAssumption DEF Retain, Number, MayNumber
      <3> QED
        BY <1>4, <3>1 DEF LagPublish
    <2> QED
      BY <1>2, <2>1, <2>2, PublishKeeps DEF GuiInv
  <1>5. CASE LagSend
    <2>1. Lagger \in Pub /\ Publish(Lagger)
      BY <1>5 DEF LagSend, Publish, Pub
    <2> QED
      BY <1>2, <1>5, <2>1, LagSendKeeps DEF GuiInv
  <1>6. CASE HostRestart
    BY <1>6, RestartKeeps
  <1>7. CASE UNCHANGED vars
    <2>1. /\ UNCHANGED <<by, ring, sent, pc, num, holder>>
          /\ UNCHANGED <<cp, acked, have, opened, rebase, replayed, inbox, snapSeq, rCur,
                         subscribed, cursor, fwd, queue, host, torn, missed>>
      BY <1>7 DEF vars, hubVars, guiVars, viewVars, outcomeVars, linkVars
    <2>2. HubInv'
      <3>1. UNCHANGED hubVars
        BY <2>1 DEF hubVars
      <3> QED
        BY <3>1, HubInvStep DEF GuiInv
    <2>3. Known' = Known /\ Near' = Near /\ Elements(queue)' = Elements(queue)
          /\ Elements(sent)' = Elements(sent)
      BY <2>1 DEF Known, Near, Elements
    <2>4. SessionInv'
      BY <2>1, <2>3 DEF GuiInv, SessionInv
    <2>5. GuiTypeOK' /\ LinkInv' /\ QueueInv' /\ PhaseInv'
      BY <2>1, <2>3 DEF GuiInv, GuiTypeOK, LinkInv, QueueInv, PhaseInv
    <2>6. ViewInv'
      BY <2>1, <2>3 DEF GuiInv, ViewInv, BelowAcked, BelowStashed, ForwardedHeld
    <2> QED
      BY <2>2, <2>4, <2>5, <2>6 DEF GuiInv
  <1> QED
    BY <1>1, <1>3, <1>4, <1>5, <1>6, <1>7 DEF GuiNext, HubIdle, Forwarder

LEMMA GuiInvInit == GuiInit => GuiInv
  <1> SUFFICES ASSUME GuiInit PROVE GuiInv
    OBVIOUS
  <1>1. HubInv /\ SessionInv /\ Known = {} /\ Len(by) = 0
    BY EmptyHub DEF GuiInit, NothingPublished
  <1>2. Len(sent) = 0 /\ pc[Lagger] = pc[Lagger]
    BY DEF GuiInit, HubInit
  <1>3. GuiTypeOK
    <2>1. <<>> \in Seq(1..Len(by)) /\ <<>> \in Seq(0..Len(by)) /\ Len(<<>>) = 0
      BY EmptySeq
    <2>2. /\ inbox \in Seq(1..Len(by)) /\ queue \in Seq(1..Len(by)) /\ host \in Seq(0..Len(by))
          /\ Len(queue) <= QueueCapacity /\ Len(host) <= 2
      BY <2>1, QueueAssumption DEF GuiInit
    <2>3. cursor \in 0..Len(sent) /\ have \subseteq 1..Len(by) /\ replayed \subseteq 1..Len(by)
      BY <1>2 DEF GuiInit
    <2> QED
      BY <2>2, <2>3 DEF GuiInit, GuiTypeOK, Connecting
  <1>4. LinkInv /\ QueueInv
    BY <1>2 DEF GuiInit, LinkInv, QueueInv
  <1>5. PhaseInv
    BY <1>1 DEF GuiInit, PhaseInv, NoAck
  <1>6. ViewInv
    BY DEF GuiInit, ViewInv
  <1> QED
    BY <1>1, <1>3, <1>4, <1>5, <1>6 DEF GuiInv

\* Every variable of the connection, of its queues and of the view is well
\* typed; the event queue keeps its capacity (HasRoom), and what is sent around
\* it is at most the diagnostic and the error (connection.rs).
THEOREM GuiTypeCorrect ==
  ASSUME FreePub = {Lagger}
  PROVE  GuiSpec => []GuiTypeOK
  <1>1. GuiInv /\ [GuiNext]_vars => GuiInv'
    BY GuiInvStep
  <1>2. GuiInv => GuiTypeOK
    BY DEF GuiInv
  <1> QED
    BY <1>1, <1>2, GuiInvInit, PTL DEF GuiSpec

\* The forwarder's diagnostics and the restarts of the host leave every stream
\* in order too (publish_lagged_degrade_envelope, dispatch).
THEOREM GuiStreamOrder ==
  ASSUME FreePub = {Lagger}
  PROVE  GuiSpec => []StreamOrder
  <1>1. GuiInv /\ [GuiNext]_vars => GuiInv'
    BY GuiInvStep
  <1>2. GuiInv => StreamOrder
    BY DEF GuiInv, HubInv, RingOrder, SentOrder, StreamOrder
  <1> QED
    BY <1>1, <1>2, GuiInvInit, PTL DEF GuiSpec

\* What the client acknowledged is in the view, on its way, or let go at one of
\* the five points, for every capacity and any number of session publishers.
THEOREM AckedCorrect ==
  ASSUME FreePub = {Lagger}
  PROVE  GuiSpec => []AckedIsHeld
  <1>1. GuiInv /\ [GuiNext]_vars => GuiInv'
    BY GuiInvStep
  <1>2. GuiInv => AckedIsHeld
    BY DEF GuiInv, ViewInv, BelowAcked, AckedIsHeld, Near, OnTheWay
  <1> QED
    BY <1>1, <1>2, GuiInvInit, PTL DEF GuiSpec

\* A live connection that has caught up shows every session event that was not
\* let go: nothing is lost between the replay, the subscription and the queue.
THEOREM ViewCorrect ==
  ASSUME FreePub = {Lagger}
  PROVE  GuiSpec => []LiveViewComplete
  <1>1. GuiInv /\ [GuiNext]_vars => GuiInv'
    BY GuiInvStep
  <1>2. GuiInv => LiveViewComplete
    <2> SUFFICES ASSUME GuiInv, Quiet, opened, NEW n \in Known
                 PROVE  n \in have \union missed
      BY DEF LiveViewComplete
    <2>1. /\ cp = "live" /\ fwd = "on" /\ cursor = Len(sent)
          /\ inbox = <<>> /\ queue = <<>>
          /\ \A p \in SessionPub : pc[p] \notin InFlight
      BY DEF Quiet, Pub
    <2>2. ~rebase /\ replayed = {}
      BY <2>1 DEF GuiInv, PhaseInv
    <2>3. PICK j \in 1..Len(sent) : sent[j] = n
      BY <2>1 DEF GuiInv, SessionInv, Elements
    <2>4. n \in Near \union Elements(queue)
      BY <2>1, <2>2, <2>3 DEF GuiInv, ViewInv, ForwardedHeld
    <2> QED
      BY <2>1, <2>2, <2>4 DEF Near, Elements
  <1> QED
    BY <1>1, <1>2, GuiInvInit, PTL DEF GuiSpec

=============================================================================
