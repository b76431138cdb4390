---------------------------- MODULE OnceService ----------------------------
(***************************************************************************)
(* What idempotent execution promises the clients: a request executes only *)
(* while no equal one is executing or remembered; otherwise it is answered *)
(* with what an equal one computed.  Successes are remembered until the    *)
(* service is full, or cannot keep the one it just computed.               *)
(***************************************************************************)
EXTENDS Naturals, FiniteSets

CONSTANTS
  Req,
  Identity,     \* what a client names a request by
  NoKey, NoReq, Error,
  Capacity      \* successes that are remembered whatever else happens

VARIABLES
  id,
  held,         \* requests for which their identity is reserved
  remembered,   \* requests whose success the service still knows
  reply

svars == <<id, held, remembered, reply>>

Same(q, r) ==
  /\ id[q].scope = id[r].scope
  /\ id[q].cmd = id[r].cmd \/ (id[q].key = id[r].key /\ id[r].key # NoKey)

Init ==
  /\ id \in [Req -> Identity]
  /\ held = {} /\ remembered = {}
  /\ reply = [r \in Req |-> NoReq]

Unanswered(r) == reply[r] = NoReq

\* What remains without S fills the service.
Full(S) ==
  \E K \in SUBSET (remembered \ S) : IsFiniteSet(K) /\ Cardinality(K) = Capacity

Take(r) ==
  /\ Unanswered(r)
  /\ \A q \in held \union remembered : ~Same(q, r)
  /\ held' = held \union {r}
  /\ UNCHANGED <<id, remembered, reply>>

Succeed(r) ==
  /\ r \in held
  /\ Unanswered(r)
  /\ reply' = [reply EXCEPT ![r] = r]
  /\ remembered' = remembered \union {r}
  /\ UNCHANGED <<id, held>>

\* An error is the answer of this request only.
Fail(r) ==
  /\ Unanswered(r)
  /\ reply' = [reply EXCEPT ![r] = Error]
  /\ UNCHANGED <<id, held, remembered>>

Replay(r) ==
  /\ Unanswered(r)
  /\ \E q \in remembered : /\ Same(q, r)
                           /\ ~id[q].upload
                           /\ reply' = [reply EXCEPT ![r] = q]
  /\ UNCHANGED <<id, held, remembered>>

\* The reservation ends, with the success kept or not, or kept at the cost of
\* older ones.
Settle(r) ==
  /\ r \in held
  /\ held' = held \ {r}
  /\ \E S \in SUBSET remembered :
       /\ S \subseteq {r} \/ (S \intersect held \subseteq {r} /\ Full(S))
       /\ remembered' = remembered \ S
  /\ UNCHANGED <<id, reply>>

Evict ==
  /\ \E S \in SUBSET (remembered \ held) : Full(S) /\ remembered' = remembered \ S
  /\ UNCHANGED <<id, held, reply>>

\* Reservations do not survive; a success survives unless it was not settled.
Restart ==
  /\ held' = {}
  /\ \E S \in SUBSET (remembered \intersect held) : remembered' = remembered \ S
  /\ UNCHANGED <<id, reply>>

Next ==
  \/ \E r \in Req : Take(r) \/ Succeed(r) \/ Fail(r) \/ Replay(r) \/ Settle(r)
  \/ Evict \/ Restart

Spec == Init /\ [][Next]_svars

=============================================================================
