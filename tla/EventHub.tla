------------------------------ MODULE EventHub ------------------------------
(***************************************************************************)
(* EventHub (app/hub.rs): the global sequence, the ring buffer and the     *)
(* broadcast channel, with the publishers of GuiEventBus (app/gui_host).   *)
(*                                                                         *)
(* A publication is three steps that no lock holds together: fetch_add     *)
(* numbers the event, a ring lock retains it, the channel broadcasts it.   *)
(* Session events go through dispatch or flush_held_session and keep the   *)
(* terminal_hold mutex for all three; terminal output, provider auth and   *)
(* lag diagnostics call EventHub::publish without it.                      *)
(*                                                                         *)
(* An event is named by its global sequence number; by[n] published n.     *)
(***************************************************************************)
EXTENDS Integers, Sequences, FiniteSets

CONSTANTS
  SessionPub,   \* threads that publish session events
  FreePub,      \* threads that publish without terminal_hold
  NoPub,        \* terminal_hold is free
  Capacity,     \* EventHub::capacity (ring)
  MaxEvents     \* bound: events published

Pub == SessionPub \union FreePub

ASSUME PubAssumption == SessionPub \intersect FreePub = {} /\ NoPub \notin Pub
\* with_capacity takes capacity.max(1).
ASSUME HubCapacityAssumption == Capacity \in Nat \ {0}

VARIABLES
  by,           \* Seq of publishers; Len(by) is next_sequence
  ring,         \* Seq of sequence numbers retained, oldest insertion first
  sent,         \* Seq of sequence numbers, in the order of sender.send
  pc,           \* where each publisher is
  num,          \* the number of the event a publisher has in hand
  holder        \* who has the terminal_hold mutex

hubVars == <<by, ring, sent, pc, num, holder>>

InFlight == {"numbered", "retained"}

HubTypeOK ==
  /\ by \in Seq(Pub)
  /\ ring \in Seq(Nat)
  /\ sent \in Seq(Nat)
  /\ pc \in [Pub -> {"idle", "locked"} \union InFlight]
  /\ num \in [Pub -> Nat]
  /\ holder \in SessionPub \union {NoPub}
  /\ Len(ring) <= Capacity

HubInit ==
  /\ by = <<>> /\ ring = <<>> /\ sent = <<>>
  /\ pc = [p \in Pub |-> "idle"]
  /\ num = [p \in Pub |-> 0]
  /\ holder = NoPub

-----------------------------------------------------------------------------

\* dispatch and flush_held_session take terminal_hold.
Lock(p) ==
  /\ p \in SessionPub
  /\ pc[p] = "idle"
  /\ holder = NoPub
  /\ holder' = p
  /\ pc' = [pc EXCEPT ![p] = "locked"]
  /\ UNCHANGED <<by, ring, sent, num>>

\* Mutated form: a session event is published without terminal_hold.
MayNumberUnlocked(p) == pc[p] = "idle" \/ pc[p] = "locked"

MayNumber(p) == pc[p] = (IF p \in SessionPub THEN "locked" ELSE "idle")

\* next_sequence.fetch_add(1) + 1
Number(p) ==
  /\ MayNumber(p)
  /\ Len(by) < MaxEvents
  /\ by' = Append(by, p)
  /\ num' = [num EXCEPT ![p] = Len(by) + 1]
  /\ pc' = [pc EXCEPT ![p] = "numbered"]
  /\ UNCHANGED <<ring, sent, holder>>

\* Mutated form: the full ring drops its newest event instead.
WithRoomPopBack(r) == IF Len(r) = Capacity THEN SubSeq(r, 1, Len(r) - 1) ELSE r

WithRoom(r) == IF Len(r) = Capacity THEN Tail(r) ELSE r

\* pop_front when full, push_back: one critical section of the ring lock.
Retain(p) ==
  /\ pc[p] = "numbered"
  /\ ring' = Append(WithRoom(ring), num[p])
  /\ pc' = [pc EXCEPT ![p] = "retained"]
  /\ UNCHANGED <<by, sent, num, holder>>

\* sender.send; the mutex goes with the last event of a flush.
Broadcast(p) ==
  /\ pc[p] = "retained"
  /\ sent' = Append(sent, num[p])
  /\ IF p \in SessionPub
       THEN \/ /\ pc' = [pc EXCEPT ![p] = "idle"]
               /\ holder' = NoPub
            \/ /\ pc' = [pc EXCEPT ![p] = "locked"]
               /\ UNCHANGED holder
       ELSE /\ pc' = [pc EXCEPT ![p] = "idle"]
            /\ UNCHANGED holder
  /\ UNCHANGED <<by, ring, num>>

\* dispatch queued the event in TerminalHold (or the flush had none left).
Unlock(p) ==
  /\ p \in SessionPub
  /\ pc[p] = "locked"
  /\ holder' = NoPub
  /\ pc' = [pc EXCEPT ![p] = "idle"]
  /\ UNCHANGED <<by, ring, sent, num>>

Publish(p) == Lock(p) \/ Number(p) \/ Retain(p) \/ Broadcast(p) \/ Unlock(p)

HubNext == \E p \in Pub : Publish(p)

HubSpec == HubInit /\ [][HubNext]_hubVars

-----------------------------------------------------------------------------
(* What the readers of the hub call                                        *)

\* EventHub::current
Current == Len(by)
\* GuiHost::earliest_available().unwrap_or(0)
Earliest == IF ring = <<>> THEN 0 ELSE Head(ring)

\* EventHub::replay: ReplayUnavailable, or the retained events of the window in
\* the order of the ring.
ReplayUnavailable(from) == ring # <<>> /\ from < Head(ring)
Window(from, to) == {i \in 1..Len(ring) : from <= ring[i] /\ ring[i] <= to}
\* The set has one element.
Replays(from, to) ==
  LET W == Window(from, to)
      InOrder == {f \in [1..Cardinality(W) -> W] :
                    \A i, j \in DOMAIN f : i < j => f[i] < f[j]} IN
  {[i \in 1..Cardinality(W) |-> ring[f[i]]] : f \in InOrder}

-----------------------------------------------------------------------------
(* Properties                                                              *)

Elements(s) == {s[i] : i \in 1..Len(s)}

\* The session events.
Known == {n \in 1..Len(by) : by[n] \in SessionPub}

SameStream(p, q) == p = q \/ {p, q} \subseteq SessionPub

\* The events of one stream are retained and broadcast in the order of their
\* numbers, whoever else publishes at the same time: what terminal_hold buys
\* for session events (flush_held_session, dispatch).
StreamOrder ==
  \A s \in {ring, sent} : \A i, j \in 1..Len(s) :
    i < j /\ SameStream(by[s[i]], by[s[j]]) => s[i] < s[j]

\* docs/spec/crates/app.md: the sequence is continuous, and a replay that does
\* not reach is ReplayUnavailable, never a silent gap.  With no publication
\* under way, the whole window of a replay that is available is retained if
\* every publisher holds terminal_hold.  Others may be numbered and then
\* retained late, and make a full ring let go of larger numbers; but where the
\* ring still has a session event of the window's front or before it, the
\* window lacks no session event, whoever publishes besides.
ReplayIsGapFree ==
  (\A p \in Pub : pc[p] \notin InFlight) =>
    \A from \in 1..Current :
      /\ FreePub = {} => ReplayUnavailable(from) \/ from..Current \subseteq Elements(ring)
      /\ (\E n \in Known \intersect Elements(ring) : n <= from) =>
           \A n \in Known : n >= from => n \in Elements(ring)

Ordered == INSTANCE OrderedLog WITH log <- sent
\* With session publishers only, the hub implements OrderedLog.
ImplementsOrderedLog == Ordered!Spec

=============================================================================
