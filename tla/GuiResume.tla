----------------------------- MODULE GuiResume -----------------------------
(***************************************************************************)
(* One Desktop client on the event stream of the GUI server: handshake,    *)
(* resume, subscription, forwarding with a bounded queue, lag, connection  *)
(* loss and host restart (gui-server session.rs and connection.rs, client, *)
(* desktop controller and projection), on top of EventHub.                 *)
(*                                                                         *)
(* The view is the timeline of the session that is open in the client: the *)
(* set of session events it reflects.  Pages are read from the store,      *)
(* where an event is before it is published, so a page fetch reflects all  *)
(* events numbered so far.  Frames on the wire keep their order; a frame   *)
(* is sent and received in one step.  The client holds every capability.   *)
(***************************************************************************)
EXTENDS EventHub

CONSTANTS
  Lagger,         \* the forwarder task, as the free publisher of lag diagnostics
  QueueCapacity,  \* ConnectionConfig::queue_capacity
  MaxPublished,   \* bound: events numbered by the others, and fails and restarts
  MaxConnects,    \* bound: connection attempts
  MaxFailed,      \* bound: connections lost before connect() returned
  MaxRestarts     \* bound: host restarts

\* send_lagged_degrade publishes without terminal_hold.
ASSUME LaggerAssumption == Lagger \notin SessionPub
ASSUME QueueAssumption == QueueCapacity \in Nat \ {0}

VARIABLES
  cp,           \* how far the connection is
  acked,        \* SharedState::last_acked, kept across connections
  have,         \* events the open timeline reflects
  opened,       \* a session is open
  rebase,       \* the resume outcome is SnapshotRequired
  replayed,     \* ResumeOutcome::replayed, not applied yet
  inbox,        \* frames stashed by the client
  snapSeq,      \* snapshot_sequence of the handshake snapshot
  rCur,         \* current_sequence as handle_resume read it
  subscribed,   \* the connection has a subscription
  cursor,       \* position of the forwarder in the broadcast
  fwd,          \* the forwarder: none, on, lagging, telling, stopped
  queue,        \* the bounded event queue of the connection
  host,         \* frames sent around the queue (host_tx); 0 is the error
  torn,         \* the last connection ended with the lag error
  connects, fails, restarts,
  missed        \* history: events the code let go, see LetGo below

linkVars == <<subscribed, cursor, fwd, queue, host>>
outcomeVars == <<rebase, replayed, inbox, snapSeq, rCur>>
viewVars == <<acked, have, opened, torn>>
countVars == <<connects, fails, restarts>>
guiVars == <<cp, viewVars, outcomeVars, linkVars, countVars, missed>>
vars == <<hubVars, guiVars>>

NoAck == -1
ErrorFrame == 0
Higher(a, b) == IF a > b THEN a ELSE b

\* connect() has not returned: a loss discards what resume returned.
Connecting == {"hello", "stamped", "spawned", "asked", "replaying", "resumed"}

GuiTypeOK ==
  /\ cp \in Connecting \union {"down", "subscribed", "live"}
  /\ acked \in Nat \union {NoAck}
  /\ opened \in BOOLEAN /\ rebase \in BOOLEAN /\ subscribed \in BOOLEAN
  /\ torn \in BOOLEAN
  /\ have \subseteq 1..Len(by) /\ replayed \subseteq 1..Len(by)
  /\ inbox \in Seq(1..Len(by)) /\ snapSeq \in Nat /\ rCur \in Nat
  /\ cursor \in 0..Len(sent)
  /\ fwd \in {"none", "on", "lagging", "telling", "stopped"}
  /\ queue \in Seq(1..Len(by)) /\ Len(queue) <= QueueCapacity
  /\ host \in Seq(0..Len(by)) /\ Len(host) <= 2
  /\ missed \subseteq Nat

GuiInit ==
  /\ HubInit
  /\ cp = "down" /\ acked = NoAck /\ have = {} /\ opened = FALSE
  /\ torn = FALSE
  /\ rebase = FALSE /\ replayed = {} /\ inbox = <<>> /\ snapSeq = 0 /\ rCur = 0
  /\ subscribed = FALSE /\ cursor = 0 /\ fwd = "none" /\ queue = <<>> /\ host = <<>>
  /\ connects = 0 /\ fails = 0 /\ restarts = 0
  /\ missed = {}

\* History: the events in ns will not be asked for again.
LetGo(ns) == missed' = missed \union ns

-----------------------------------------------------------------------------
(* Connection, snapshot, forwarder                                         *)

\* A new connection is registered under a new client id.  The forwarder of
\* the one before has finished the publication it was in.
Connect ==
  /\ cp = "down"
  /\ connects < MaxConnects
  /\ pc[Lagger] = "idle"
  /\ connects' = connects + 1
  /\ cp' = "hello"
  /\ rebase' = FALSE /\ replayed' = {} /\ inbox' = <<>>
  /\ UNCHANGED <<hubVars, viewVars, snapSeq, rCur, linkVars, fails, restarts, missed>>

\* snapshot(): the sequence is read after the sections were collected.
Stamp ==
  /\ cp = "hello"
  /\ snapSeq' = Current
  /\ cp' = "stamped"
  /\ UNCHANGED <<hubVars, viewVars, rebase, replayed, inbox, rCur, linkVars,
                 countVars, missed>>

\* spawn_forwarder: the receiver sees what is sent from here on.
Spawn ==
  /\ cp = "stamped"
  /\ fwd' = "on"
  /\ cursor' = Len(sent)
  /\ cp' = "spawned"
  /\ UNCHANGED <<hubVars, viewVars, outcomeVars, subscribed, queue, host,
                 countVars, missed>>

-----------------------------------------------------------------------------
(* Resume                                                                  *)

\* The first connection acknowledges the handshake snapshot instead.
Fresh ==
  /\ cp = "spawned"
  /\ acked = NoAck
  /\ acked' = snapSeq
  /\ cp' = "resumed"
  /\ UNCHANGED <<hubVars, have, opened, torn, outcomeVars, linkVars, countVars,
                 missed>>

\* handle_resume reads current_sequence first, and the rest later.
ResumeRead ==
  /\ cp = "spawned"
  /\ acked # NoAck
  /\ rCur' = Current
  /\ cp' = "asked"
  /\ UNCHANGED <<hubVars, viewVars, rebase, replayed, inbox, snapSeq, linkVars,
                 countVars, missed>>

UpToDate == acked = rCur
InWindow == acked < rCur /\ acked + 1 >= Earliest

\* SnapshotRequired with a snapshot of this moment, which is acknowledged.
RequireSnapshot ==
  /\ rebase' = TRUE
  /\ acked' = Higher(acked, Current)
  /\ cp' = "resumed"
  /\ UNCHANGED <<replayed, inbox, missed>>

\* compute_resume_disposition
ResumeDecide ==
  /\ cp = "asked"
  /\ \/ /\ UpToDate
        /\ cp' = "resumed"
        /\ UNCHANGED <<rebase, replayed, inbox, acked, missed>>
     \/ /\ InWindow
        /\ cp' = "replaying"
        /\ UNCHANGED <<rebase, replayed, inbox, acked, missed>>
     \/ ~UpToDate /\ ~InWindow /\ RequireSnapshot
  /\ UNCHANGED <<hubVars, have, opened, torn, snapSeq, rCur, linkVars, countVars>>

\* Mutated form: the replay starts one event too late.
ReplayFromLate == acked + 2
ReplayFrom == acked + 1

\* GuiClient::resume takes events up to the last one of the replay; one that
\* is larger ends it, and with what follows is left for next_event.
Takes(es, k) ==
  /\ \A i \in 1..k : es[i] <= es[Len(es)]
  /\ k < Len(es) => es[k + 1] > es[Len(es)]

\* Numbers that were retained and that the ring does not hold any more.
Evicted == {n \in 1..Current : /\ n \notin Elements(ring)
                              /\ \A p \in Pub : pc[p] = "numbered" => num[p] # n}

\* The ring is read; an empty window is reported as UpToDate through rCur.
\* A number whose publication is still under way is not in the ring, and a
\* number retained late makes a full ring let go of a larger one.
ResumeReplay ==
  /\ cp = "replaying"
  /\ \/ ReplayUnavailable(ReplayFrom) /\ RequireSnapshot
     \/ /\ ~ReplayUnavailable(ReplayFrom)
        /\ \E es \in Replays(ReplayFrom, rCur), k \in 0..Len(ring) :
             LET through == IF es = <<>> THEN rCur ELSE es[Len(es)] IN
             /\ k <= Len(es) /\ Takes(es, k)
             /\ replayed' = {es[i] : i \in 1..k}
             /\ inbox' = SubSeq(es, k + 1, Len(es))
             /\ acked' = Higher(acked, through)
             /\ LetGo({n \in (acked + 1)..rCur : n \notin Elements(ring)
                                               /\ (n <= through \/ n \in Evicted)})
        /\ cp' = "resumed"
        /\ UNCHANGED rebase
  /\ UNCHANGED <<hubVars, have, opened, torn, snapSeq, rCur, linkVars, countVars>>

\* Mutated form: the forwarder's receiver is created with the subscription.
SubscribeLate ==
  /\ cp = "resumed"
  /\ subscribed' = TRUE
  /\ cursor' = Len(sent)
  /\ cp' = "subscribed"
  /\ UNCHANGED <<hubVars, viewVars, outcomeVars, fwd, queue, host, countVars,
                 missed>>

\* subscribe_all and its Pong barrier: the last step of connect().
Subscribe ==
  /\ cp = "resumed"
  /\ subscribed' = TRUE
  /\ cp' = "subscribed"
  /\ UNCHANGED <<hubVars, viewVars, outcomeVars, cursor, fwd, queue, host,
                 countVars, missed>>

\* on_connected: SnapshotRequired reopens the session and fetches its pages;
\* Replay continues the timeline, UpToDate leaves it.
OnConnected ==
  /\ cp = "subscribed"
  /\ have' = IF ~opened THEN have
             ELSE IF rebase THEN 1..Current ELSE have \union replayed
  /\ rebase' = FALSE
  /\ replayed' = {}
  /\ torn' = FALSE
  /\ cp' = "live"
  /\ UNCHANGED <<hubVars, acked, opened, inbox, snapSeq, rCur, linkVars,
                 countVars, missed>>

\* The user opens a session: its pages are fetched.
OpenSession ==
  /\ cp = "live"
  /\ ~opened
  /\ opened' = TRUE
  /\ have' = 1..Current
  /\ UNCHANGED <<cp, hubVars, acked, torn, outcomeVars, linkVars, countVars,
                 missed>>

-----------------------------------------------------------------------------
(* Forwarding                                                              *)

\* RecvError::Lagged: the receiver fell out of the broadcast buffer.
Overrun == Len(sent) - cursor > Capacity

\* should_forward: an event is dropped while there is no subscription.
FwdSkip ==
  /\ fwd = "on" /\ cursor < Len(sent) /\ ~Overrun
  /\ ~subscribed
  /\ cursor' = cursor + 1
  /\ LetGo({sent[cursor + 1]})
  /\ UNCHANGED <<cp, hubVars, viewVars, outcomeVars, subscribed, fwd, queue,
                 host, countVars>>

HasRoom == Len(queue) < QueueCapacity

\* Mutated form: an event that finds the queue full is dropped silently.
ForwardDropsWhenFull ==
  /\ fwd = "on" /\ cursor < Len(sent) /\ ~Overrun
  /\ subscribed
  /\ cursor' = cursor + 1
  /\ queue' = IF HasRoom THEN Append(queue, sent[cursor + 1]) ELSE queue
  /\ UNCHANGED <<fwd, cp, hubVars, viewVars, outcomeVars, subscribed, host,
                 countVars, missed>>

\* enqueue: try_send, or Lagged when the queue is full.
Forward ==
  /\ fwd = "on" /\ cursor < Len(sent) /\ ~Overrun
  /\ subscribed
  /\ cursor' = cursor + 1
  /\ \/ /\ HasRoom
        /\ queue' = Append(queue, sent[cursor + 1])
        /\ UNCHANGED fwd
     \/ /\ ~HasRoom
        /\ fwd' = "lagging"
        /\ UNCHANGED queue
  /\ UNCHANGED <<cp, hubVars, viewVars, outcomeVars, subscribed, host,
                 countVars, missed>>

FwdLagged ==
  /\ fwd = "on" /\ Overrun
  /\ fwd' = "lagging"
  /\ UNCHANGED <<cp, hubVars, viewVars, outcomeVars, subscribed, cursor, queue,
                 host, countVars, missed>>

\* send_lagged_degrade: publish on the hub, then send the frame directly.
LagPublish ==
  /\ \/ fwd = "lagging" /\ Number(Lagger)
     \/ Retain(Lagger)
  /\ UNCHANGED guiVars

LagSend ==
  /\ Broadcast(Lagger)
  /\ IF fwd = "lagging"
       THEN fwd' = "telling" /\ host' = Append(host, num[Lagger])
       ELSE UNCHANGED <<fwd, host>>
  /\ UNCHANGED <<cp, viewVars, outcomeVars, subscribed, cursor, queue,
                 countVars, missed>>

\* send_lagged_error: ReplayUnavailable without a request id; the task ends.
LagError ==
  /\ fwd = "telling"
  /\ fwd' = "stopped"
  /\ host' = Append(host, ErrorFrame)
  /\ UNCHANGED <<cp, hubVars, viewVars, outcomeVars, subscribed, cursor, queue,
                 countVars, missed>>

\* What the end of a connection does on both sides.
HangUp ==
  /\ cp' = "down"
  /\ subscribed' = FALSE /\ cursor' = 0 /\ fwd' = "none"
  /\ queue' = <<>> /\ host' = <<>>
  /\ rebase' = FALSE /\ replayed' = {} /\ inbox' = <<>>

\* The pump records and acknowledges each event, whatever its sequence.
Receive(n) ==
  /\ acked' = Higher(acked, n)
  /\ have' = IF opened THEN have \union {n} ELSE have
  /\ UNCHANGED <<cp, opened, torn, rebase, replayed, subscribed, cursor, fwd>>

\* next_event: stashed frames, then the biased loop's host_rx, then event_rx.
DeliverStashed ==
  /\ cp = "live" /\ inbox # <<>>
  /\ inbox' = Tail(inbox)
  /\ Receive(Head(inbox))
  /\ UNCHANGED <<hubVars, queue, host, snapSeq, rCur, countVars, missed>>

\* The lag diagnostic overtakes the queue; its number becomes last_acked.
DeliverHost ==
  /\ cp = "live" /\ inbox = <<>> /\ host # <<>> /\ Head(host) # ErrorFrame
  /\ host' = Tail(host)
  /\ Receive(Head(host))
  /\ LetGo((acked + 1)..Head(host))
  /\ UNCHANGED <<hubVars, queue, inbox, snapSeq, rCur, countVars>>

DeliverQueued ==
  /\ cp = "live" /\ inbox = <<>> /\ host = <<>> /\ queue # <<>>
  /\ queue' = Tail(queue)
  /\ Receive(Head(queue))
  /\ UNCHANGED <<hubVars, host, inbox, snapSeq, rCur, countVars, missed>>

\* The error reaches the pump: teardown_stale_connection.
LagTeardown ==
  /\ cp = "live" /\ inbox = <<>> /\ host # <<>> /\ Head(host) = ErrorFrame
  /\ HangUp
  /\ torn' = TRUE
  /\ UNCHANGED <<hubVars, acked, have, opened, snapSeq, rCur, countVars, missed>>

-----------------------------------------------------------------------------
(* Loss and restart                                                        *)

\* The connection breaks (network, heartbeat timeout).  A connect() under way
\* fails and its resume outcome is dropped, after last_acked was recorded; an
\* outcome that was returned is applied, but its pages cannot be fetched.
ConnectionLost ==
  /\ cp # "down"
  /\ cp \in Connecting => fails < MaxFailed
  /\ fails' = IF cp \in Connecting THEN fails + 1 ELSE fails
  /\ have' = IF cp # "subscribed" \/ ~opened THEN have
             ELSE IF rebase THEN {} ELSE have \union replayed
  /\ LetGo(IF rebase THEN 1..acked
           ELSE IF cp = "resumed" THEN replayed \union Elements(inbox)
           ELSE Elements(inbox))
  /\ HangUp
  /\ torn' = FALSE
  /\ UNCHANGED <<hubVars, acked, opened, snapSeq, rCur, connects, restarts>>

\* A new host process starts a new sequence; the client keeps last_acked and
\* compares no instance id.  `have' speaks of the new instance.  Bound: restarts
\* that a later connection notices.
HostRestart ==
  /\ restarts < MaxRestarts
  /\ acked # NoAck /\ connects < MaxConnects
  /\ restarts' = restarts + 1
  /\ by' = <<>> /\ ring' = <<>> /\ sent' = <<>> /\ holder' = NoPub
  /\ pc' = [p \in Pub |-> "idle"] /\ num' = [p \in Pub |-> 0]
  /\ HangUp
  /\ have' = {} /\ missed' = 1..acked
  /\ torn' = FALSE
  /\ UNCHANGED <<acked, opened, snapSeq, rCur, connects, fails>>

-----------------------------------------------------------------------------

\* The other publishers leave room for the diagnostics under MaxEvents, and
\* publish less in a history with failures.
Others == /\ \E p \in Pub \ {Lagger} : Publish(p)
          /\ Len(by') <= Higher(Len(by), MaxPublished - fails - restarts)
          /\ UNCHANGED guiVars

Handshake == Stamp \/ Spawn \/ Fresh \/ ResumeRead \/ ResumeDecide
             \/ ResumeReplay \/ Subscribe \/ OnConnected
Forwarder == FwdSkip \/ Forward \/ FwdLagged \/ LagPublish \/ LagSend \/ LagError
Pump == DeliverStashed \/ DeliverHost \/ DeliverQueued \/ LagTeardown

GuiNext == \/ Others
           \/ Connect \/ Handshake \/ OpenSession
           \/ Forwarder \/ Pump
           \/ ConnectionLost \/ HostRestart

GuiSpec == GuiInit /\ [][GuiNext]_vars

\* Both processes run their tasks.  The network, the user and the publishers
\* promise nothing.
GuiFairSpec == /\ GuiSpec
               /\ WF_vars(Handshake) /\ WF_vars(Forwarder) /\ WF_vars(Pump)

-----------------------------------------------------------------------------
(* Properties                                                              *)

\* Frames that will still reach the timeline on this connection.
OnTheWay ==
  replayed \union Elements(inbox) \union Elements(queue)
    \union (IF subscribed /\ fwd = "on"
              THEN {sent[i] : i \in (cursor + 1)..Len(sent)} ELSE {})

\* An event at or below last_acked is never asked for again.  It is in the
\* open timeline, or on its way there, or it was let go at one of five points:
\* forwarded before the subscription, overtaken by a lag diagnostic, not in the
\* ring (not yet, or not any more) when it was read, in what a lost connection
\* had resumed and not applied, or numbered by another host instance.  What was
\* forwarded and not received when a live connection is lost is not let go.
AckedIsHeld ==
  opened /\ ~rebase =>
    \A n \in Known : n <= acked => n \in have \union OnTheWay \union missed

Quiet == /\ cp = "live" /\ fwd = "on" /\ cursor = Len(sent)
         /\ inbox = <<>> /\ host = <<>> /\ queue = <<>>
         /\ \A p \in Pub : pc[p] \notin InFlight

\* Once everything published has been forwarded and received, the timeline
\* reflects every session event that was not let go.
LiveViewComplete == Quiet /\ opened => Known \subseteq have \union missed

\* What the forwarder has to forward reaches the view, or the connection ends:
\* a slow client is told, it does not just fall behind.
EventuallyTold ==
  \A n \in 1..MaxEvents :
    (cp = "live" /\ opened /\ n \in OnTheWay) ~> (n \in have \/ cp = "down")

\* docs/spec/crates/app.md 4.3: after a lag the client recovers through the
\* snapshot path (or, at least, it lacks nothing).
LagRecoversBySnapshot ==
  torn /\ opened /\ cp = "subscribed" /\ ~rebase =>
    \A n \in Known : n <= acked => n \in have \union OnTheWay

=============================================================================
