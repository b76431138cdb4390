--------------------------- MODULE CoreLockProofs ---------------------------
(***************************************************************************)
(* Proofs about CoreLock, for every set of runs, approvals, models and     *)
(* efforts.                                                                *)
(***************************************************************************)
EXTENDS CoreLock, SequenceTheorems, TLAPS

-----------------------------------------------------------------------------
(* The queue                                                               *)

Tasks == Run \union Approve
Member(q, t) == \E i \in DOMAIN q : q[i] = t
Distinct(q) == \A i, j \in DOMAIN q : q[i] = q[j] => i = j

\* A task that was not in the queue joins it at the end.
LEMMA AppendMember ==
  ASSUME NEW S, NEW q \in Seq(S), NEW t \in S, Distinct(q), ~Member(q, t)
  PROVE  /\ Append(q, t) \in Seq(S)
         /\ Distinct(Append(q, t))
         /\ \A u : Member(Append(q, t), u) <=> Member(q, u) \/ u = t
  <1>1. /\ Append(q, t) \in Seq(S)
        /\ Len(Append(q, t)) = Len(q) + 1
        /\ \A i \in 1..Len(q) : Append(q, t)[i] = q[i]
        /\ Append(q, t)[Len(q) + 1] = t
    BY AppendProperties
  <1>2. DOMAIN q = 1..Len(q) /\ DOMAIN Append(q, t) = 1..(Len(q) + 1) /\ Len(q) \in Nat
    BY <1>1, LenProperties
  <1>3. \A i \in 1..(Len(q) + 1) : i \in 1..Len(q) \/ i = Len(q) + 1
    BY <1>2
  <1>4. 1..Len(q) \subseteq 1..(Len(q) + 1) /\ Len(q) + 1 \in 1..(Len(q) + 1)
    BY <1>2
  <1>5. Distinct(Append(q, t))
    BY <1>1, <1>2, <1>3 DEF Distinct, Member
  <1>6. ASSUME NEW u PROVE Member(Append(q, t), u) <=> Member(q, u) \/ u = t
    BY <1>1, <1>2, <1>3, <1>4 DEF Member
  <1> QED
    BY <1>1, <1>5, <1>6

\* The first task leaves the queue.
LEMMA TailMember ==
  ASSUME NEW S, NEW q \in Seq(S), q # <<>>, Distinct(q)
  PROVE  /\ Tail(q) \in Seq(S)
         /\ Distinct(Tail(q))
         /\ Member(q, Head(q)) /\ Head(q) \in S
         /\ \A u : Member(Tail(q), u) <=> Member(q, u) /\ u # Head(q)
  <1>1. /\ Head(q) \in S /\ Tail(q) \in Seq(S)
        /\ Len(Tail(q)) = Len(q) - 1
        /\ \A i \in 1..Len(Tail(q)) : Tail(q)[i] = q[i + 1]
    BY HeadTailProperties
  <1>2. /\ DOMAIN q = 1..Len(q) /\ DOMAIN Tail(q) = 1..(Len(q) - 1)
        /\ Len(q) \in Nat /\ Len(q) >= 1
    BY <1>1, LenProperties, EmptySeq
  <1>3. Head(q) = q[1] /\ 1 \in 1..Len(q)
    BY <1>2
  <1>4. \A i \in 1..(Len(q) - 1) : i + 1 \in 1..Len(q) /\ i + 1 # 1
    BY <1>2
  <1>5. \A i \in 1..Len(q) : i # 1 => i - 1 \in 1..(Len(q) - 1) /\ (i - 1) + 1 = i
    BY <1>2
  <1>6. Distinct(Tail(q))
    <2> SUFFICES ASSUME NEW i \in 1..(Len(q) - 1), NEW j \in 1..(Len(q) - 1),
                        Tail(q)[i] = Tail(q)[j]
                 PROVE  i = j
      BY <1>2 DEF Distinct
    <2>1. q[i + 1] = q[j + 1]
      BY <1>1, <1>2
    <2>2. i + 1 = j + 1
      BY <2>1, <1>2, <1>4 DEF Distinct
    <2> QED
      BY <2>2
  <1>7. ASSUME NEW u PROVE Member(Tail(q), u) <=> Member(q, u) /\ u # Head(q)
    <2>1. ASSUME Member(Tail(q), u) PROVE Member(q, u) /\ u # Head(q)
      <3>1. PICK i \in 1..(Len(q) - 1) : q[i + 1] = u
        BY <2>1, <1>1, <1>2 DEF Member
      <3>2. i + 1 \in DOMAIN q /\ i + 1 # 1
        BY <1>2, <1>4
      <3> QED
        BY <3>1, <3>2, <1>2, <1>3 DEF Member, Distinct
    <2>2. ASSUME Member(q, u), u # Head(q) PROVE Member(Tail(q), u)
      <3>1. PICK i \in 1..Len(q) : q[i] = u
        BY <2>2, <1>2 DEF Member
      <3>2. i - 1 \in 1..(Len(q) - 1) /\ (i - 1) + 1 = i
        BY <2>2, <3>1, <1>3, <1>5
      <3>3. Tail(q)[i - 1] = u
        BY <3>1, <3>2, <1>1, <1>2
      <3> QED
        BY <3>2, <3>3, <1>2 DEF Member
    <2> QED
      BY <2>1, <2>2
  <1> QED
    BY <1>1, <1>2, <1>3, <1>6, <1>7 DEF Member

\* The part of the type invariant that is about the queue.
QueueOK == queue \in Seq(Run \union Approve) /\ Distinct(queue)
QueueMatches ==
  /\ QueueOK
  /\ step \in [Run -> Steps]
  /\ apc \in [Approve -> {"idle", "asking", "over"}]
  /\ \A r \in Run : InQueue(r) <=> step[r] \in Writing \union Reading
  /\ \A a \in Approve : InQueue(a) <=> apc[a] = "asking"

LEMMA Joins ==
  ASSUME QueueOK, NEW t \in Run \union Approve, ~InQueue(t), queue' = Append(queue, t)
  PROVE  QueueOK' /\ \A u : InQueue(u)' <=> InQueue(u) \/ u = t
  <1>1. \A u : InQueue(u) <=> Member(queue, u)
    BY DEF InQueue, Member
  <1>2. \A u : InQueue(u)' <=> Member(queue', u)
    BY DEF InQueue, Member
  <1>3. QueueOK' <=> queue' \in Seq(Run \union Approve) /\ Distinct(queue')
    BY DEF QueueOK, Distinct
  <1> QED
    BY <1>1, <1>2, <1>3, AppendMember DEF QueueOK

LEMMA Leaves ==
  ASSUME QueueOK, queue # <<>>, queue' = Tail(queue)
  PROVE  /\ QueueOK' /\ InQueue(Head(queue))
         /\ \A u : InQueue(u)' <=> InQueue(u) /\ u # Head(queue)
  <1>1. \A u : InQueue(u) <=> Member(queue, u)
    BY DEF InQueue, Member
  <1>2. \A u : InQueue(u)' <=> Member(queue', u)
    BY DEF InQueue, Member
  <1>3. QueueOK' <=> queue' \in Seq(Run \union Approve) /\ Distinct(queue')
    BY DEF QueueOK, Distinct
  <1> QED
    BY <1>1, <1>2, <1>3, TailMember DEF QueueOK

\* The first task goes to the end.
LEMMA Requeues ==
  ASSUME QueueOK, queue # <<>>, queue' = Append(Tail(queue), Head(queue))
  PROVE  QueueOK' /\ InQueue(Head(queue)) /\ \A u : InQueue(u)' <=> InQueue(u)
  <1>1. /\ Tail(queue) \in Seq(Run \union Approve) /\ Distinct(Tail(queue))
        /\ Member(queue, Head(queue)) /\ Head(queue) \in Run \union Approve
        /\ \A u : Member(Tail(queue), u) <=> Member(queue, u) /\ u # Head(queue)
    BY TailMember DEF QueueOK
  <1>2. /\ queue' \in Seq(Run \union Approve) /\ Distinct(queue')
        /\ \A u : Member(queue', u) <=> Member(Tail(queue), u) \/ u = Head(queue)
    BY <1>1, AppendMember
  <1>3. \A u : InQueue(u) <=> Member(queue, u)
    BY DEF InQueue, Member
  <1>4. \A u : InQueue(u)' <=> Member(queue', u)
    BY DEF InQueue, Member
  <1>5. QueueOK' <=> queue' \in Seq(Run \union Approve) /\ Distinct(queue')
    BY DEF QueueOK, Distinct
  <1> QED
    BY <1>1, <1>2, <1>3, <1>4, <1>5

-----------------------------------------------------------------------------
(* How the steps move a run or an approval                                 *)

LEMMA RunJoins ==
  ASSUME QueueMatches, NEW r \in Run, NEW n \in Writing \union Reading,
         step[r] \notin Writing \union Reading,
         queue' = Append(queue, r), step' = [step EXCEPT ![r] = n], apc' = apc
  PROVE  QueueMatches'
  <1>1. QueueOK' /\ \A u : InQueue(u)' <=> InQueue(u) \/ u = r
    BY Joins DEF QueueMatches
  <1>2. \A a \in Approve : a # r
    BY TaskAssumption
  <1>3. step' \in [Run -> Steps] /\ \A q \in Run : step'[q] = IF q = r THEN n ELSE step[q]
    BY DEF QueueMatches, Steps
  <1> QED
    BY <1>1, <1>2, <1>3 DEF QueueMatches

LEMMA RunAgain ==
  ASSUME QueueMatches, NEW r \in Run, NEW n \in Writing \union Reading,
         Enters(r), Again(r, n), apc' = apc
  PROVE  QueueMatches'
  <1>1. QueueOK' /\ InQueue(r) /\ \A u : InQueue(u)' <=> InQueue(u)
    BY Requeues DEF QueueMatches, Enters, Again
  <1>2. step' \in [Run -> Steps] /\ \A q \in Run : step'[q] = IF q = r THEN n ELSE step[q]
    BY DEF QueueMatches, Steps, Again
  <1> QED
    BY <1>1, <1>2 DEF QueueMatches

LEMMA RunLeaves ==
  ASSUME QueueMatches, NEW r \in Run, NEW n \in Steps \ (Writing \union Reading),
         Enters(r), Leave(r, n), apc' = apc
  PROVE  QueueMatches'
  <1>1. /\ QueueOK' /\ InQueue(r)
        /\ \A u : InQueue(u)' <=> InQueue(u) /\ u # r
    BY Leaves DEF QueueMatches, Enters, Leave
  <1>2. \A a \in Approve : a # r
    BY TaskAssumption
  <1>3. step' \in [Run -> Steps] /\ \A q \in Run : step'[q] = IF q = r THEN n ELSE step[q]
    BY DEF QueueMatches, Leave
  <1> QED
    BY <1>1, <1>2, <1>3 DEF QueueMatches

LEMMA RunStays ==
  ASSUME QueueMatches, NEW r \in Run, NEW n \in Steps \ (Writing \union Reading),
         step[r] \notin Writing \union Reading,
         queue' = queue, step' = [step EXCEPT ![r] = n], apc' = apc
  PROVE  QueueMatches'
  <1>1. QueueOK' /\ \A u : InQueue(u)' <=> InQueue(u)
    BY DEF QueueMatches, QueueOK, InQueue, Distinct
  <1>2. step' \in [Run -> Steps] /\ \A q \in Run : step'[q] = IF q = r THEN n ELSE step[q]
    BY DEF QueueMatches
  <1> QED
    BY <1>1, <1>2 DEF QueueMatches

-----------------------------------------------------------------------------
(* Type correctness                                                        *)

LEMMA QueueStep == QueueMatches /\ [CoreNext]_vars => QueueMatches'
  <1> SUFFICES ASSUME QueueMatches, [CoreNext]_vars PROVE QueueMatches'
    OBVIOUS
  <1> USE DEF Writing, Reading, InTurn
  <1>1. ASSUME NEW r \in Run, RunStart(r) PROVE QueueMatches'
    BY <1>1, RunJoins DEF RunStart
  <1>2. ASSUME NEW r \in Run, Compare(r) PROVE QueueMatches'
    <2>1. PICK n \in {"switch", "effort"} : Again(r, n)
      BY <1>2 DEF Compare
    <2> QED
      BY <1>2, <2>1, RunAgain DEF Compare
  <1>3. ASSUME NEW r \in Run, Switch(r) \/ SetEffort(r) \/ Install(r) \/ Check(r) \/ SealRun(r)
        PROVE  QueueMatches'
    <2>1. PICK n \in {"effort", "install", "check", "scope", "close"} : Again(r, n)
      BY <1>3 DEF Switch, SetEffort, Install, Check, SealRun
    <2> QED
      BY <1>3, <2>1, RunAgain DEF Switch, SetEffort, Install, Check, SealRun
  <1>4. ASSUME NEW r \in Run, Refuse(r) \/ SwitchFails(r) \/ OpenScope(r) \/ Begin(r) \/ Close(r)
        PROVE  QueueMatches'
    <2>1. PICK n \in {"refused", "accepted", "turn", "closed"} : Leave(r, n)
      BY <1>4 DEF Refuse, SwitchFails, OpenScope, Begin, Close
    <2> QED
      BY <1>4, <2>1, RunLeaves DEF Refuse, SwitchFails, OpenScope, Begin, Close, Steps
  <1>5. ASSUME NEW r \in Run, Accept(r) PROVE QueueMatches'
    BY <1>5, RunJoins DEF Accept
  <1>6. ASSUME NEW r \in Run, TurnEnds(r) PROVE QueueMatches'
    <2>1. PICK n \in {"seal", "close"} : step' = [step EXCEPT ![r] = n]
      BY <1>6 DEF TurnEnds
    <2> QED
      BY <1>6, <2>1, RunJoins DEF TurnEnds
  <1>7. ASSUME NEW r \in Run, Wait(r) \/ WaitEnds(r) \/ RequestApproval(r) \/ ToolApprove(r)
                              \/ ApprovalCancelled(r) \/ Remove(r)
        PROVE  QueueMatches'
    <2> USE DEF Wait, WaitEnds, RequestApproval, ToolApprove, ApprovalCancelled, Remove
    <2>1. PICK n \in {"waiting", "prompted", "turn", "over"} : step' = [step EXCEPT ![r] = n]
      BY <1>7
    <2> QED
      BY <1>7, <2>1, RunStays DEF Steps
  <1>8. ASSUME NEW a \in Approve, Ask(a) PROVE QueueMatches'
    <2>1. QueueOK' /\ \A u : InQueue(u)' <=> InQueue(u) \/ u = a
      BY <1>8, Joins DEF Ask, QueueMatches
    <2>2. /\ apc' \in [Approve -> {"idle", "asking", "over"}]
          /\ \A b \in Approve : apc'[b] = IF b = a THEN "asking" ELSE apc[b]
      BY <1>8 DEF Ask, QueueMatches
    <2>3. \A r \in Run : r # a
      BY TaskAssumption
    <2>4. step' = step
      BY <1>8 DEF Ask
    <2> QED
      BY <2>1, <2>2, <2>3, <2>4 DEF QueueMatches
  <1>9. ASSUME NEW a \in Approve, Grant(a) PROVE QueueMatches'
    <2>1. QueueOK' /\ \A u : InQueue(u)' <=> InQueue(u) /\ u # a
      BY <1>9, Leaves DEF Grant, Enters, QueueMatches
    <2>2. /\ apc' \in [Approve -> {"idle", "asking", "over"}]
          /\ \A b \in Approve : apc'[b] = IF b = a THEN "over" ELSE apc[b]
      BY <1>9 DEF Grant, QueueMatches
    <2>3. \A r \in Run : r # a
      BY TaskAssumption
    <2>4. step' = step
      BY <1>9 DEF Grant
    <2> QED
      BY <2>1, <2>2, <2>3, <2>4 DEF QueueMatches
  <1>10. ASSUME UNCHANGED <<queue, step, apc>> PROVE QueueMatches'
    BY <1>10 DEF QueueMatches, QueueOK, InQueue, Distinct
  <1>11. ASSUME NEW r \in Run, RunCancel(r) PROVE QueueMatches'
    BY <1>10, <1>11 DEF RunCancel
  <1>12. ASSUME Finished \/ UNCHANGED vars PROVE QueueMatches'
    BY <1>10, <1>12 DEF Finished, vars
  <1> QED
    BY <1>1, <1>2, <1>3, <1>4, <1>5, <1>6, <1>7, <1>8, <1>9, <1>11, <1>12
       DEF CoreNext, RunStep

\* Only a RunStart that names a model switches.
Named == \A r \in Run : step[r] = "switch" => AskedModel[r] \in Model

\* A step of one run leaves the steps of the others.
LEMMA OthersStay ==
  ASSUME QueueMatches, NEW r \in Run, NEW n, step' = [step EXCEPT ![r] = n]
  PROVE  \A q \in Run : step'[q] = IF q = r THEN n ELSE step[q]
  BY DEF QueueMatches

LEMMA NamedStep == QueueMatches /\ Named /\ [CoreNext]_vars => Named'
  <1> SUFFICES ASSUME QueueMatches, Named, [CoreNext]_vars,
                      NEW q \in Run, step'[q] = "switch"
               PROVE  AskedModel[q] \in Model
    BY DEF Named
  <1>1. ASSUME NEW r \in Run, Compare(r) PROVE AskedModel[q] \in Model
    <2>1. CASE AskedModel[r] \in {NotNamed, model}
      <3>1. step'[q] = IF q = r THEN "effort" ELSE step[q]
        BY <1>1, <2>1, OthersStay DEF Compare, Again
      <3> QED
        BY <3>1 DEF Named
    <2>2. CASE AskedModel[r] \notin {NotNamed, model}
      <3>1. step'[q] = IF q = r THEN "switch" ELSE step[q]
        BY <1>1, <2>2, OthersStay DEF Compare, Again
      <3>2. AskedModel[r] \in Model
        BY <2>2, AskedAssumption
      <3> QED
        BY <3>1, <3>2 DEF Named
    <2> QED
      BY <2>1, <2>2
  <1>2. ASSUME NEW r \in Run, NEW n, n # "switch", step' = [step EXCEPT ![r] = n]
        PROVE  AskedModel[q] \in Model
    <2>1. step'[q] = IF q = r THEN n ELSE step[q]
      BY <1>2, OthersStay
    <2> QED
      BY <1>2, <2>1 DEF Named
  <1>3. ASSUME NEW r \in Run, Switch(r) \/ SwitchFails(r) \/ SetEffort(r) \/ Install(r) \/ Check(r)
                              \/ Refuse(r) \/ OpenScope(r) \/ Begin(r) \/ SealRun(r) \/ Close(r)
        PROVE  AskedModel[q] \in Model
    BY <1>2, <1>3 DEF Switch, SwitchFails, SetEffort, Install, Check, Refuse, OpenScope, Begin,
                      SealRun, Close, Again, Leave
  <1>4. ASSUME NEW r \in Run, RunStart(r) \/ Accept(r) \/ Wait(r) \/ WaitEnds(r)
                              \/ RequestApproval(r) \/ ToolApprove(r) \/ ApprovalCancelled(r)
                              \/ TurnEnds(r) \/ Remove(r)
        PROVE  AskedModel[q] \in Model
    BY <1>2, <1>4 DEF RunStart, Accept, Wait, WaitEnds, RequestApproval, ToolApprove,
                      ApprovalCancelled, TurnEnds, Remove
  <1>5. ASSUME UNCHANGED step PROVE AskedModel[q] \in Model
    BY <1>5 DEF Named
  <1>6. ASSUME NEW r \in Run, RunCancel(r) PROVE AskedModel[q] \in Model
    BY <1>5, <1>6 DEF RunCancel
  <1>7. ASSUME NEW a \in Approve, Ask(a) \/ Grant(a) PROVE AskedModel[q] \in Model
    BY <1>5, <1>7 DEF Ask, Grant
  <1>8. ASSUME Finished \/ UNCHANGED vars PROVE AskedModel[q] \in Model
    BY <1>5, <1>8 DEF Finished, vars
  <1> QED
    BY <1>1, <1>3, <1>4, <1>6, <1>7, <1>8 DEF CoreNext, RunStep

\* The rest of the state.
DataOK ==
  /\ model \in Model /\ effort \in Effort \union {NotNamed}
  /\ used \in [Run -> [model : Model, effort : Effort \union {NotNamed}]]
  /\ over \in [Run -> SUBSET {"model", "effort"}]
  /\ registered \subseteq Run /\ token \subseteq Run
  /\ open \subseteq Run /\ granted \subseteq Run
  /\ target \in [Approve -> Run]

LEMMA DataStep == Named /\ DataOK /\ [CoreNext]_vars => DataOK'
  <1> SUFFICES ASSUME Named, DataOK, [CoreNext]_vars PROVE DataOK'
    OBVIOUS
  <1> USE AskedAssumption DEF DataOK
  <1>1. ASSUME NEW r \in Run, RunStart(r) \/ Install(r) \/ Check(r) \/ Refuse(r) \/ Wait(r)
                              \/ WaitEnds(r) \/ RequestApproval(r) \/ ToolApprove(r)
                              \/ ApprovalCancelled(r) \/ SealRun(r)
        PROVE  DataOK'
    BY <1>1 DEF RunStart, Install, Check, Refuse, Wait, WaitEnds, RequestApproval, ToolApprove,
                ApprovalCancelled, SealRun, coreVars, scopeVars
  <1>2. ASSUME NEW r \in Run, Compare(r) \/ Switch(r) \/ SwitchFails(r) \/ SetEffort(r)
        PROVE  DataOK'
    <2>1. ASSUME NEW what \in {"model", "effort"}, Own(r, what) \/ Writes(r, what)
          PROVE  over' \in [Run -> SUBSET {"model", "effort"}]
      BY <2>1 DEF Own, Writes
    <2>2. over' \in [Run -> SUBSET {"model", "effort"}]
      BY <1>2, <2>1 DEF Compare, Switch, SwitchFails, SetEffort
    <2>3. CASE Compare(r)
      BY <2>2, <2>3 DEF Compare, scopeVars
    <2>4. CASE Switch(r)
      <3>1. AskedModel[r] \in Model
        BY <2>4 DEF Switch, Named
      <3> QED
        BY <2>2, <2>4, <3>1 DEF Switch, scopeVars
    <2>5. CASE SwitchFails(r) \/ SetEffort(r)
      BY <2>2, <2>5 DEF SwitchFails, SetEffort, scopeVars
    <2> QED
      BY <1>2, <2>3, <2>4, <2>5
  <1>3. ASSUME NEW r \in Run, OpenScope(r) \/ TurnEnds(r) \/ Close(r) PROVE DataOK'
    BY <1>3 DEF OpenScope, TurnEnds, Close, CloseScope, coreVars, scopeVars
  <1>4. ASSUME NEW r \in Run, Accept(r) \/ Remove(r) \/ RunCancel(r) PROVE DataOK'
    BY <1>4 DEF Accept, Remove, RunCancel, coreVars, scopeVars
  <1>5. ASSUME NEW r \in Run, Begin(r) PROVE DataOK'
    BY <1>5 DEF Begin, coreVars, scopeVars
  <1>6. ASSUME NEW a \in Approve, Ask(a) PROVE DataOK'
    BY <1>6 DEF Ask, coreVars, scopeVars
  <1>7. ASSUME NEW a \in Approve, Grant(a) PROVE DataOK'
    BY <1>7 DEF Grant, Granted, coreVars
  <1>8. ASSUME Finished \/ UNCHANGED vars PROVE DataOK'
    BY <1>8 DEF Finished, vars, coreVars, scopeVars
  <1> QED
    BY <1>1, <1>2, <1>3, <1>4, <1>5, <1>6, <1>7, <1>8 DEF CoreNext, RunStep

LEMMA TypeParts == CoreTypeOK <=> QueueMatches /\ Named /\ DataOK
  BY DEF CoreTypeOK, QueueMatches, QueueOK, Named, DataOK, Distinct

\* Every task is in the queue of the lock exactly while its code asks for it,
\* once, and the state is well typed (RunStart, the turn, the approvals).
THEOREM CoreTypeCorrect == CoreSpec => []CoreTypeOK
  <1>1. CoreInit => CoreTypeOK
    <2> SUFFICES ASSUME CoreInit PROVE CoreTypeOK
      OBVIOUS
    <2>1. queue \in Seq(Run \union Approve) /\ DOMAIN queue = {}
      BY DEF CoreInit
    <2>2. \A t : ~InQueue(t)
      BY <2>1 DEF InQueue
    <2> QED
      BY <2>1, <2>2, AskedAssumption DEF CoreInit, CoreTypeOK, Steps, Writing, Reading, InTurn
  <1>2. CoreTypeOK /\ [CoreNext]_vars => CoreTypeOK'
    <2>1. CoreTypeOK' <=> QueueMatches' /\ Named' /\ DataOK'
      BY DEF CoreTypeOK, QueueMatches, QueueOK, Named, DataOK, Distinct
    <2> QED
      BY <2>1, TypeParts, QueueStep, NamedStep, DataStep
  <1> QED
    BY <1>1, <1>2, PTL DEF CoreSpec

-----------------------------------------------------------------------------
(* Grants and the turn                                                     *)

\* Once the host has closed the scope of a run it is closed, and holds no
\* grant, for good: an approval that was late for the lock approves nothing
\* (close_target_scope, TargetRegistry::grant).
THEOREM NoGrantCorrect == CoreSpec => []NoGrantAfterEnd
  <1>1. CoreInit => NoGrantAfterEnd
    BY DEF CoreInit, NoGrantAfterEnd
  <1>2. CoreTypeOK /\ NoGrantAfterEnd /\ [CoreNext]_vars => NoGrantAfterEnd'
    <2> SUFFICES ASSUME CoreTypeOK, NoGrantAfterEnd, [CoreNext]_vars,
                        NEW q \in Run, step'[q] \in {"closed", "over"}
                 PROVE  q \notin open' /\ q \notin granted'
      BY DEF NoGrantAfterEnd
    <2> USE DEF CoreTypeOK, NoGrantAfterEnd
    <2>1. ASSUME NEW r \in Run, RunStart(r) \/ Accept(r) \/ WaitEnds(r) \/ Wait(r)
                                \/ RequestApproval(r) \/ ToolApprove(r) \/ ApprovalCancelled(r)
          PROVE  q \notin open' /\ q \notin granted'
      BY <2>1 DEF RunStart, Accept, WaitEnds, Wait, RequestApproval, ToolApprove,
                  ApprovalCancelled, scopeVars
    <2>2. ASSUME NEW r \in Run, Compare(r) \/ Switch(r) \/ SwitchFails(r) \/ SetEffort(r)
                                \/ Install(r) \/ Check(r) \/ Refuse(r) \/ Begin(r) \/ SealRun(r)
          PROVE  q \notin open' /\ q \notin granted'
      BY <2>2 DEF Compare, Switch, SwitchFails, SetEffort, Install, Check, Refuse, Begin, SealRun,
                  Again, Leave, scopeVars
    <2>3. ASSUME NEW r \in Run, OpenScope(r) PROVE q \notin open' /\ q \notin granted'
      BY <2>3 DEF OpenScope, Leave
    <2>4. ASSUME NEW r \in Run, TurnEnds(r) PROVE q \notin open' /\ q \notin granted'
      BY <2>4 DEF TurnEnds, CloseScope, scopeVars
    <2>5. ASSUME NEW r \in Run, Close(r) PROVE q \notin open' /\ q \notin granted'
      BY <2>5 DEF Close, CloseScope, Leave
    <2>6. ASSUME NEW r \in Run, Remove(r) \/ RunCancel(r)
          PROVE  q \notin open' /\ q \notin granted'
      BY <2>6 DEF Remove, RunCancel, scopeVars
    <2>7. ASSUME NEW a \in Approve, Ask(a) PROVE q \notin open' /\ q \notin granted'
      BY <2>7 DEF Ask, scopeVars
    <2>8. ASSUME NEW a \in Approve, Grant(a) PROVE q \notin open' /\ q \notin granted'
      BY <2>8 DEF Grant, Granted
    <2>9. ASSUME Finished \/ UNCHANGED vars PROVE q \notin open' /\ q \notin granted'
      BY <2>9 DEF Finished, vars, scopeVars
    <2> QED
      BY <2>1, <2>2, <2>3, <2>4, <2>5, <2>6, <2>7, <2>8, <2>9 DEF CoreNext, RunStep
  <1> QED
    BY <1>1, <1>2, CoreTypeCorrect, PTL DEF CoreSpec

\* The settings of a turn, and of a RunStart on its way to it: the model from the
\* comparison or the switch on, the effort from its write on.
Chosen == {"effort", "install", "check", "scope", "accepted", "begin"}
ModelIs(r, m) == AskedModel[r] \in {NotNamed, m} \/ "model" \in over[r]
EffortIs(r, e) == AskedEffort[r] = e \/ "effort" \in over[r]
SettingsInv ==
  \A r \in Run :
    /\ step[r] \in Chosen => ModelIs(r, model)
    /\ step[r] \in Chosen \ {"effort"} => EffortIs(r, effort)
    /\ step[r] \in InTurn => ModelIs(r, used[r].model) /\ EffortIs(r, used[r].effort)

LEMMA SettingsStep == CoreTypeOK /\ SettingsInv /\ [CoreNext]_vars => SettingsInv'
  <1> SUFFICES ASSUME CoreTypeOK, SettingsInv, [CoreNext]_vars, NEW q \in Run
               PROVE  /\ step'[q] \in Chosen => ModelIs(q, model)'
                      /\ step'[q] \in Chosen \ {"effort"} => EffortIs(q, effort)'
                      /\ step'[q] \in InTurn => ModelIs(q, used[q].model)'
                                                /\ EffortIs(q, used[q].effort)'
    BY DEF SettingsInv
  <1> DEFINE Good ==
        /\ step'[q] \in Chosen => ModelIs(q, model)'
        /\ step'[q] \in Chosen \ {"effort"} => EffortIs(q, effort)'
        /\ step'[q] \in InTurn => ModelIs(q, used[q].model)' /\ EffortIs(q, used[q].effort)'
  <1> USE DEF Chosen, InTurn
  <1>0. /\ step \in [Run -> Steps]
        /\ over \in [Run -> SUBSET {"model", "effort"}]
        /\ used \in [Run -> [model : Model, effort : Effort \union {NotNamed}]]
    BY DEF CoreTypeOK
  <1>1. ASSUME NEW r \in Run, NEW n, step' = [step EXCEPT ![r] = n],
               n \in Chosen => step[r] \in Chosen /\ n # "effort",
               n \in Chosen \ {"effort"} => step[r] \in Chosen \ {"effort"},
               n \in InTurn => step[r] \in InTurn, UNCHANGED <<coreVars, used>>
        PROVE  Good
    <2>1. step'[q] = IF q = r THEN n ELSE step[q]
      BY <1>0, <1>1
    <2>2. model' = model /\ effort' = effort /\ over' = over /\ used' = used
      BY <1>1 DEF coreVars
    <2> QED
      BY <1>1, <2>1, <2>2 DEF SettingsInv, ModelIs, EffortIs
  <1>2. ASSUME NEW r \in Run, RunStart(r) \/ Accept(r) \/ Wait(r) \/ WaitEnds(r)
                              \/ RequestApproval(r) \/ ToolApprove(r) \/ ApprovalCancelled(r)
                              \/ TurnEnds(r) \/ Remove(r)
        PROVE  Good
    BY <1>1, <1>2 DEF RunStart, Accept, Wait, WaitEnds, RequestApproval, ToolApprove,
                      ApprovalCancelled, TurnEnds, Remove
  <1>3. ASSUME NEW r \in Run, Install(r) \/ Check(r) \/ Refuse(r) \/ OpenScope(r)
                              \/ SealRun(r) \/ Close(r)
        PROVE  Good
    BY <1>1, <1>3 DEF Install, Check, Refuse, OpenScope, SealRun, Close, Again, Leave
  <1>4. ASSUME NEW r \in Run, Compare(r) PROVE Good
    <2>1. PICK n \in {"switch", "effort"} :
            /\ step' = [step EXCEPT ![r] = n]
            /\ n = "effort" => AskedModel[r] \in {NotNamed, model}
      BY <1>4 DEF Compare, Again
    <2>2. step'[q] = IF q = r THEN n ELSE step[q]
      BY <1>0, <2>1
    <2>3. /\ over'[q] = IF q = r THEN over[r] \ {"model"} ELSE over[q]
          /\ model' = model /\ effort' = effort /\ used' = used
      BY <1>0, <1>4 DEF Compare, Own
    <2> QED
      BY <2>1, <2>2, <2>3 DEF SettingsInv, ModelIs, EffortIs
  <1>5. ASSUME NEW r \in Run, Switch(r) \/ SwitchFails(r) PROVE Good
    <2>1. PICK n \in {"effort", "refused"} :
            /\ step' = [step EXCEPT ![r] = n]
            /\ n = "effort" => AskedModel[r] = model'
      BY <1>5 DEF Switch, SwitchFails, Again, Leave
    <2>2. step'[q] = IF q = r THEN n ELSE step[q]
      BY <1>0, <2>1
    <2>3. /\ over'[q] = IF q = r THEN over[q] \ {"model"} ELSE over[q] \union {"model"}
          /\ effort' = effort /\ used' = used
      BY <1>5 DEF Switch, SwitchFails, Writes
    <2> QED
      BY <2>1, <2>2, <2>3 DEF SettingsInv, ModelIs, EffortIs
  <1>6. ASSUME NEW r \in Run, SetEffort(r) PROVE Good
    <2>1. step'[q] = IF q = r THEN "install" ELSE step[q]
      BY <1>0, <1>6 DEF SetEffort, Again
    <2>2. /\ over'[q] = IF q = r THEN over[q] \ {"effort"} ELSE over[q] \union {"effort"}
          /\ effort' = AskedEffort[r] /\ model' = model /\ used' = used
      BY <1>6 DEF SetEffort, Writes
    <2>3. step[r] = "effort"
      BY <1>6 DEF SetEffort
    <2> QED
      BY <2>1, <2>2, <2>3 DEF SettingsInv, ModelIs, EffortIs
  <1>7. ASSUME NEW r \in Run, Begin(r) PROVE Good
    <2>1. step'[q] = IF q = r THEN "turn" ELSE step[q]
      BY <1>0, <1>7 DEF Begin, Leave
    <2>2. /\ used'[q] = IF q = r THEN [model |-> model, effort |-> effort] ELSE used[q]
          /\ model' = model /\ effort' = effort /\ over' = over
      BY <1>0, <1>7 DEF Begin, coreVars
    <2>3. step[r] = "begin"
      BY <1>7 DEF Begin
    <2> QED
      BY <2>1, <2>2, <2>3 DEF SettingsInv, ModelIs, EffortIs
  <1>8. ASSUME UNCHANGED <<step, coreVars, used>> PROVE Good
    BY <1>8 DEF coreVars, SettingsInv, ModelIs, EffortIs
  <1>9. ASSUME NEW r \in Run, RunCancel(r) PROVE Good
    BY <1>8, <1>9 DEF RunCancel
  <1>10. ASSUME NEW a \in Approve, Ask(a) \/ Grant(a) PROVE Good
    BY <1>8, <1>10 DEF Ask, Grant
  <1>11. ASSUME Finished \/ UNCHANGED vars PROVE Good
    BY <1>8, <1>11 DEF Finished, vars
  <1> HIDE DEF Good
  <1>12. Good
    BY <1>2, <1>3, <1>4, <1>5, <1>6, <1>7, <1>9, <1>10, <1>11 DEF CoreNext, RunStep
  <1> QED
    BY <1>12 DEF Good

\* A turn runs with the model and the effort that its RunStart named, unless the
\* RunStart of another session wrote after it: neither an effort left by an
\* earlier turn nor a model left by a refused RunStart gets into it (start,
\* set_effort, chat_turn_with_run_id).
THEOREM SettingsCorrect == CoreSpec => []SettingsAreAsked
  <1>1. CoreInit => SettingsInv
    BY DEF CoreInit, SettingsInv, Chosen, InTurn
  <1>2. SettingsInv => SettingsAreAsked
    BY DEF SettingsInv, SettingsAreAsked, ModelIs, EffortIs
  <1> QED
    BY <1>1, <1>2, SettingsStep, CoreTypeCorrect, PTL DEF CoreSpec

=============================================================================
