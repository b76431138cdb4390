--------------------------- MODULE ToolLoopProofs ---------------------------
(***************************************************************************)
(* Proofs about ToolLoop, for every finite set of runs and calls, every    *)
(* number of slots and every limit of rounds.                              *)
(***************************************************************************)
EXTENDS ToolLoop, FiniteSetTheorems, TLAPS

-----------------------------------------------------------------------------
(* The inductive invariant                                                 *)

InBatch == {"gate", "waiting", "running", "stopping"}

\* The scheduler's side of a run: a call at work is one of the batch and has
\* no result yet, and outside a round nothing is left of one.
RoundOK(r) ==
  /\ phase[r] \notin {"exec", "commit"} => at[r] = NoCalls /\ raw[r] = NoCalls
  /\ phase[r] # "exec" => todo[r] = {} /\ batch[r] = {}
  /\ \A c \in Call : at[r][c] \in InBatch => c \in batch[r] /\ raw[r][c] = "none"
  /\ \A c \in todo[r] : raw[r][c] = "none" /\ c \notin batch[r]
  /\ \A c \in batch[r] : c \in Serial => batch[r] = {c}
  /\ todo[r] \union batch[r] \subseteq calls[r]

\* The history's side: what is not paired, or not saved, belongs to the round.
PairingOK(r) ==
  /\ phase[r] \in {"approve", "exec", "commit"} => open[r] = calls[r]
  /\ phase[r] \in {"idle", "loop", "stream"} => open[r] = {}
  /\ phase[r] \notin {"exec", "commit", "broken"} => unsaved[r] = {}
  /\ phase[r] \in {"exec", "commit"} =>
       \A c \in unsaved[r] : c \in calls[r] /\ IsFact(raw[r][c])

\* The order of a round: what is still to run was asked for and let run, comes
\* after the batch, and what is neither to run nor refused has returned.
TurnOK(r) ==
  /\ phase[r] = "approve" =>
       \A c \in calls[r] \intersect Asking : c \in toAsk[r] \/ decided[r][c] # "none"
  /\ phase[r] = "exec" =>
       /\ \A c \in todo[r] \union batch[r] :
            /\ c \notin Refused(r)
            /\ c \in Asking => decided[r][c] \in {"once", "run"}
       /\ \A c \in batch[r], d \in todo[r] : c < d
       /\ \A d \in calls[r] \ Refused(r) : d \in todo[r] \union batch[r] \/ raw[r][d] # "none"

\* A tool at work holds a permit.
SlotsOK == tools = Holding /\ Cardinality(tools) <= Slots

ToolInv ==
  /\ ToolTypeOK
  /\ \A r \in Run : RoundOK(r) /\ PairingOK(r) /\ TurnOK(r)
  /\ SlotsOK

-----------------------------------------------------------------------------
(* Batches and permits                                                     *)

\* execute_batch gets calls of the round, and a serial one alone.
LEMMA BatchFact ==
  ASSUME NEW S \in SUBSET Call
  PROVE  /\ NextBatch(S) \subseteq S
         /\ \A c \in NextBatch(S) : c \in Serial => NextBatch(S) = {c}
  <1>1. S \subseteq Nat
    BY CallAssumption
  <1>2. \A c, d \in First(S) : c = d
    BY <1>1 DEF First
  <1>3. \A c \in S : c <= c
    BY <1>1
  <1>4. First(S) \subseteq S
    BY DEF First
  <1> QED
    BY <1>2, <1>3, <1>4 DEF NextBatch

\* ... and the calls that come first.
LEMMA BatchFirst ==
  ASSUME NEW S \in SUBSET Call, NEW c \in NextBatch(S), NEW d \in S \ NextBatch(S)
  PROVE  c < d
  <1> DEFINE front == {e \in S : \A x \in S : x <= e => x \notin Serial}
  <1>1. S \subseteq Nat /\ c \in S
    BY CallAssumption, BatchFact
  <1>2. CASE front = {}
    <2>1. NextBatch(S) = First(S)
      BY <1>2 DEF NextBatch
    <2>2. c <= d /\ c # d
      BY <2>1 DEF First
    <2> QED
      BY <1>1, <2>2
  <1>3. CASE front # {}
    <2>1. NextBatch(S) = front
      BY <1>3 DEF NextBatch
    <2>2. PICK x \in S : x <= d /\ x \in Serial
      BY <2>1
    <2>3. ~(x <= c)
      BY <2>1, <2>2
    <2> QED
      BY <1>1, <2>2, <2>3
  <1> QED
    BY <1>2, <1>3

LEMMA HoldingFact ==
  IsFiniteSet(Holding) /\ Holding \subseteq Run \X Call
  <1>1. IsFiniteSet(Run \X Call)
    BY RunAssumption, CallAssumption, FS_Product
  <1> QED
    BY <1>1, FS_Subset DEF Holding

-----------------------------------------------------------------------------
(* Type correctness                                                        *)

TypesOK ==
  /\ phase \in [Run -> Ended \union {"idle", "loop", "stream", "approve", "exec", "commit"}]
  /\ cancelled \subseteq Run
  /\ round \in [Run -> Nat]
  /\ toAsk \in [Run -> SUBSET Call]
  /\ approved \in [Run -> BOOLEAN]
  /\ open \in [Run -> SUBSET Call] /\ unsaved \in [Run -> SUBSET Call]

RoundTypesOK ==
  /\ calls \in [Run -> SUBSET Call] /\ todo \in [Run -> SUBSET Call]
  /\ batch \in [Run -> SUBSET Call] /\ tools \subseteq Run \X Call
  /\ decided \in [Run -> [Call -> {"none", "once", "run", "denied", "cancelled"}]]
  /\ at \in [Run -> [Call -> {"none", "gate", "waiting", "running", "stopping", "done"}]]
  /\ raw \in [Run -> [Call -> Result \union {"none"}]]

RoundsLeft == \A r \in Run : round[r] < MaxRounds[r] \/ phase[r] \in Ended

LEMMA TypeParts == ToolTypeOK <=> TypesOK /\ RoundTypesOK /\ RoundsLeft
  BY DEF ToolTypeOK, TypesOK, RoundTypesOK, RoundsLeft

LEMMA TypesStep == TypesOK /\ RoundTypesOK /\ [Next]_vars => TypesOK'
  <1> SUFFICES ASSUME TypesOK, RoundTypesOK, [Next]_vars PROVE TypesOK'
    OBVIOUS
  <1> USE DEF TypesOK, RoundTypesOK, Ended, Go, roundVars, execVars, histVars
  <1>1. ASSUME NEW r \in Run, Start(r) \/ LoopTop(r) \/ StreamEnds(r) \/ StreamCancelled(r)
        PROVE  TypesOK'
    BY <1>1 DEF Start, LoopTop, StreamEnds, StreamCancelled
  <1>2. ASSUME NEW r \in Run, StreamCalls(r) PROVE TypesOK'
    BY <1>2, KindAssumption DEF StreamCalls
  <1>3. ASSUME NEW r \in Run, Decide(r) \/ DecideApproved(r) \/ DecideCancelled(r)
        PROVE  TypesOK'
    <2>1. PICK d : Answer(r, d)
      BY <1>3 DEF Decide, DecideApproved, DecideCancelled
    <2> QED
      BY <2>1 DEF Answer
  <1>4. ASSUME NEW r \in Run, Apply(r) \/ ApplyCancelled(r) PROVE TypesOK'
    BY <1>4 DEF Apply, ApplyCancelled
  <1>5. ASSUME NEW r \in Run, Break(r) \/ Cancel(r) PROVE TypesOK'
    BY <1>5 DEF Break, Cancel
  <1>6. ASSUME NEW r \in Run, StartBatch(r) \/ EndBatch(r) \/ Executed(r) PROVE TypesOK'
    BY <1>6 DEF StartBatch, EndBatch, Executed
  <1>7. ASSUME NEW r \in Run, NEW c \in Call,
               GateRefuses(r, c) \/ GatePasses(r, c) \/ Acquire(r, c)
                 \/ AcquireCancelled(r, c) \/ Timeout(r, c)
        PROVE  TypesOK'
    BY <1>7 DEF GateRefuses, GatePasses, Acquire, AcquireCancelled, Timeout
  <1>8. ASSUME NEW r \in Run, NEW c \in Call, ToolEnds(r, c) PROVE TypesOK'
    BY <1>8 DEF ToolEnds
  <1>9. ASSUME NEW r \in Run, CommitRound(r) PROVE TypesOK'
    BY <1>9 DEF CommitRound, Commit
  <1>10. ASSUME NEW r \in Run, CommitCancelled(r) PROVE TypesOK'
    <2>1. open' \in [Run -> SUBSET Call] /\ unsaved' \in [Run -> SUBSET Call]
      <3> DEFINE paired == [c \in calls[r] |-> Paired(r, c)]
      <3>1. CASE HasFact(r)
        <4>1. Commit(r, paired)
          BY <1>10, <3>1 DEF CommitCancelled
        <4> HIDE DEF paired
        <4> QED
          BY <4>1 DEF Commit
      <3>2. CASE ~HasFact(r)
        BY <1>10, <3>2 DEF CommitCancelled
      <3> QED
        BY <3>1, <3>2
    <2> QED
      BY <1>10, <2>1 DEF CommitCancelled
  <1>11. ASSUME UNCHANGED vars PROVE TypesOK'
    BY <1>11 DEF vars
  <1> QED
    BY <1>1, <1>2, <1>3, <1>4, <1>5, <1>6, <1>7, <1>8, <1>9, <1>10, <1>11
    DEF Next, Advance, Schedule

LEMMA RoundTypesStep == TypesOK /\ RoundTypesOK /\ [Next]_vars => RoundTypesOK'
  <1> SUFFICES ASSUME TypesOK, RoundTypesOK, [Next]_vars PROVE RoundTypesOK'
    OBVIOUS
  <1> USE DEF RoundTypesOK, Result, NoCalls
  <1>1. ASSUME NEW r \in Run,
               Start(r) \/ LoopTop(r) \/ StreamEnds(r) \/ StreamCancelled(r)
                 \/ Executed(r) \/ Cancel(r)
        PROVE  RoundTypesOK'
    BY <1>1 DEF Start, LoopTop, StreamEnds, StreamCancelled, Executed, Cancel, roundVars, execVars
  <1>2. ASSUME NEW r \in Run, StreamCalls(r) PROVE RoundTypesOK'
    BY <1>2 DEF StreamCalls, execVars
  <1>3. ASSUME NEW r \in Run, Decide(r) \/ DecideApproved(r) \/ DecideCancelled(r)
        PROVE  RoundTypesOK'
    <2>1. ASSUME NEW d \in {"once", "run", "denied", "cancelled"}, Answer(r, d)
          PROVE  RoundTypesOK'
      BY <2>1 DEF Answer, First, TypesOK, execVars
    <2> QED
      BY <1>3, <2>1 DEF Decide, DecideApproved, DecideCancelled
  <1>4. ASSUME NEW r \in Run, Apply(r) PROVE RoundTypesOK'
    BY <1>4 DEF Apply, roundVars
  <1>5. ASSUME NEW r \in Run,
               ApplyCancelled(r) \/ Break(r) \/ CommitRound(r) \/ CommitCancelled(r)
        PROVE  RoundTypesOK'
    <2>1. EndRound(r)
      BY <1>5 DEF ApplyCancelled, Break, CommitRound, CommitCancelled
    <2> QED
      BY <2>1 DEF EndRound
  <1>6. ASSUME NEW r \in Run, StartBatch(r) PROVE RoundTypesOK'
    <2>1. NextBatch(todo[r]) \subseteq Call
      BY <1>6, BatchFact DEF StartBatch
    <2> QED
      BY <1>6, <2>1 DEF StartBatch, roundVars
  <1>7. ASSUME NEW r \in Run, EndBatch(r) PROVE RoundTypesOK'
    BY <1>7 DEF EndBatch, roundVars
  <1>8. ASSUME NEW r \in Run, NEW c \in Call, GateRefuses(r, c) \/ AcquireCancelled(r, c)
        PROVE  RoundTypesOK'
    <2>1. Return(r, c, "err") /\ UNCHANGED <<roundVars, todo, batch, tools>>
      BY <1>8 DEF GateRefuses, AcquireCancelled
    <2> QED
      BY <2>1 DEF Return, roundVars
  <1>9. ASSUME NEW r \in Run, NEW c \in Call, GatePasses(r, c) \/ Timeout(r, c)
        PROVE  RoundTypesOK'
    <2>1. PICK v \in {"waiting", "stopping"} : at' = [at EXCEPT ![r][c] = v]
      BY <1>9 DEF GatePasses, Timeout
    <2> QED
      BY <1>9, <2>1 DEF GatePasses, Timeout, roundVars
  <1>10. ASSUME NEW r \in Run, NEW c \in Call, Acquire(r, c) PROVE RoundTypesOK'
    BY <1>10 DEF Acquire, roundVars
  <1>11. ASSUME NEW r \in Run, NEW c \in Call, ToolEnds(r, c) PROVE RoundTypesOK'
    BY <1>11 DEF ToolEnds, Return, roundVars
  <1>12. ASSUME UNCHANGED vars PROVE RoundTypesOK'
    BY <1>12 DEF vars, roundVars, execVars
  <1> QED
    BY <1>1, <1>2, <1>3, <1>4, <1>5, <1>6, <1>7, <1>8, <1>9, <1>10, <1>11, <1>12
    DEF Next, Advance, Schedule

\* The provider is asked again only below the limit.
LEMMA RoundsStep == TypesOK /\ RoundsLeft /\ [Next]_vars => RoundsLeft'
  <1> SUFFICES ASSUME TypesOK, RoundsLeft, [Next]_vars PROVE RoundsLeft'
    OBVIOUS
  <1> USE RoundsAssumption DEF TypesOK, RoundsLeft, Go, roundVars
  <1>1. ASSUME NEW r \in Run, CommitRound(r) PROVE RoundsLeft'
    BY <1>1 DEF CommitRound, AtLimit, Ended
  <1>2. ASSUME UNCHANGED <<phase, round>> PROVE RoundsLeft'
    BY <1>2
  <1>3. ASSUME NEW r \in Run, NEW p, Go(r, p), round' = round, phase[r] \notin Ended
        PROVE  RoundsLeft'
    BY <1>3
  <1>4. ASSUME NEW r \in Run, Advance(r) \/ StreamEnds(r) \/ StreamCalls(r) \/ Break(r)
        PROVE  RoundsLeft'
    <2>1. CASE CommitRound(r)
      BY <2>1, <1>1
    <2>2. CASE StartBatch(r) \/ EndBatch(r) \/ DecideApproved(r) \/ DecideCancelled(r)
      BY <2>2, <1>2 DEF StartBatch, EndBatch, DecideApproved, DecideCancelled, Answer
    <2>3. CASE Start(r) \/ LoopTop(r) \/ StreamCancelled(r) \/ Apply(r) \/ ApplyCancelled(r)
      BY <2>3, <1>3 DEF Start, LoopTop, StreamCancelled, Apply, ApplyCancelled, Ended
    <2>4. CASE Executed(r) \/ CommitCancelled(r) \/ StreamEnds(r) \/ StreamCalls(r) \/ Break(r)
      BY <2>4, <1>3 DEF Executed, CommitCancelled, StreamEnds, StreamCalls, Break, Ended
    <2> QED
      BY <1>4, <2>1, <2>2, <2>3, <2>4 DEF Advance
  <1>5. ASSUME NEW r \in Run, Decide(r) \/ Cancel(r) PROVE RoundsLeft'
    BY <1>5, <1>2 DEF Decide, Answer, Cancel
  <1>6. ASSUME NEW r \in Run, NEW c \in Call,
               Schedule(r, c) \/ Acquire(r, c) \/ Timeout(r, c) \/ ToolEnds(r, c)
        PROVE  RoundsLeft'
    BY <1>6, <1>2 DEF Schedule, GateRefuses, GatePasses, AcquireCancelled, Acquire, Timeout, ToolEnds
  <1>7. ASSUME UNCHANGED vars PROVE RoundsLeft'
    BY <1>7, <1>2 DEF vars
  <1> QED
    BY <1>4, <1>5, <1>6, <1>7 DEF Next

LEMMA TypeStep == ToolTypeOK /\ [Next]_vars => ToolTypeOK'
  <1>1. TypesOK' /\ RoundTypesOK' /\ RoundsLeft' => ToolTypeOK'
    BY DEF ToolTypeOK, TypesOK, RoundTypesOK, RoundsLeft
  <1> QED
    BY <1>1, TypeParts, TypesStep, RoundTypesStep, RoundsStep

\* Every reachable state is well typed and no run passes max_tool_rounds.
THEOREM ToolTypeCorrect == Spec => []ToolTypeOK
  <1>1. Init => ToolTypeOK
    BY RoundsAssumption DEF Init, ToolTypeOK, NoCalls, Ended, Result
  <1> QED
    BY <1>1, TypeStep, PTL DEF Spec

-----------------------------------------------------------------------------
(* Slots: a tool at work holds a permit                                    *)

LEMMA SlotsStep ==
  ASSUME ToolTypeOK, \A r \in Run : RoundOK(r), SlotsOK, [Next]_vars
  PROVE  SlotsOK'
  <1> USE TypeParts DEF RoundTypesOK
  <1>0. /\ tools = Holding /\ Cardinality(tools) <= Slots
        /\ IsFiniteSet(tools)
    BY HoldingFact DEF SlotsOK
  \* What a step leaves alone or takes away stays within the slots.
  <1>1. ASSUME tools' = Holding', tools' \subseteq tools PROVE SlotsOK'
    <2>1. Cardinality(tools') <= Cardinality(tools)
      BY <1>0, <1>1, FS_Subset
    <2>2. Cardinality(tools) \in Nat /\ Cardinality(tools') \in Nat
      BY <1>0, <1>1, FS_Subset, FS_CardinalityType
    <2> QED
      BY <1>0, <1>1, <2>1, <2>2, SlotsAssumption DEF SlotsOK
  <1>2. ASSUME UNCHANGED <<at, tools>> PROVE SlotsOK'
    BY <1>0, <1>1, <1>2 DEF Holding
  <1>3. ASSUME NEW r \in Run, NEW c \in Call, Acquire(r, c) PROVE SlotsOK'
    <2>1. tools' = tools \union {<<r, c>>} /\ <<r, c>> \notin tools
      BY <1>0, <1>3 DEF Acquire, Holding
    <2>2. tools' = Holding'
      BY <1>0, <1>3, <2>1 DEF Acquire, Holding
    <2>3. Cardinality(tools') = Cardinality(tools) + 1
      BY <1>0, <2>1, FS_AddElement
    <2>4. Cardinality(tools) \in Nat /\ Cardinality(tools) < Slots
      BY <1>0, <1>3, FS_CardinalityType DEF Acquire
    <2> QED
      BY <2>2, <2>3, <2>4, SlotsAssumption DEF SlotsOK
  <1>4. ASSUME NEW r \in Run, NEW c \in Call, ToolEnds(r, c) PROVE SlotsOK'
    <2>1. /\ tools' = tools \ {<<r, c>>}
          /\ at' = [at EXCEPT ![r][c] = "done"]
      BY <1>4 DEF ToolEnds, Return
    <2>2. tools' = Holding'
      BY <1>0, <2>1 DEF Holding
    <2> QED
      BY <1>1, <2>1, <2>2
  <1>5. ASSUME NEW r \in Run, NEW c \in Call,
               GateRefuses(r, c) \/ GatePasses(r, c) \/ AcquireCancelled(r, c)
        PROVE  SlotsOK'
    <2>1. /\ tools' = tools /\ at[r][c] \in {"gate", "waiting"}
          /\ \E v \in {"done", "waiting"} : at' = [at EXCEPT ![r][c] = v]
      BY <1>5 DEF GateRefuses, GatePasses, AcquireCancelled, Return
    <2>2. tools' = Holding'
      BY <1>0, <2>1 DEF Holding
    <2> QED
      BY <1>1, <2>1, <2>2
  <1>6. ASSUME NEW r \in Run, NEW c \in Call, Timeout(r, c) PROVE SlotsOK'
    <2>1. /\ tools' = tools /\ at[r][c] = "running"
          /\ at' = [at EXCEPT ![r][c] = "stopping"]
      BY <1>6 DEF Timeout
    <2>2. tools' = Holding'
      BY <1>0, <2>1 DEF Holding
    <2> QED
      BY <1>1, <2>1, <2>2
  <1>7. ASSUME NEW r \in Run, EndRound(r), phase[r] # "exec" PROVE SlotsOK'
    <2>1. \A c \in Call : at[r][c] \notin InBatch
      BY <1>7 DEF RoundOK
    <2>2. tools' = tools /\ at' = [at EXCEPT ![r] = NoCalls]
      BY <1>7 DEF EndRound
    <2>3. tools' = Holding'
      BY <1>0, <2>1, <2>2 DEF Holding, InBatch, NoCalls
    <2> QED
      BY <1>1, <2>2, <2>3
  <1>8. ASSUME NEW r \in Run, StartBatch(r) PROVE SlotsOK'
    <2>1. \A c \in Call : at[r][c] \notin InBatch
      BY <1>8 DEF StartBatch, RoundOK
    <2>2. /\ tools' = tools
          /\ at' = [at EXCEPT ![r] =
               [c \in Call |-> IF c \in NextBatch(todo[r]) THEN "gate" ELSE @[c]]]
      BY <1>8 DEF StartBatch
    <2>3. tools' = Holding'
      BY <1>0, <2>1, <2>2 DEF Holding, InBatch
    <2> QED
      BY <1>1, <2>2, <2>3
  <1>9. ASSUME NEW r \in Run,
               CommitRound(r) \/ CommitCancelled(r) \/ ApplyCancelled(r) \/ Break(r)
        PROVE  SlotsOK'
    BY <1>7, <1>9 DEF CommitRound, CommitCancelled, ApplyCancelled, Break
  <1>10. ASSUME NEW r \in Run,
                \/ Start(r) \/ LoopTop(r) \/ StreamCancelled(r) \/ StreamEnds(r)
                \/ StreamCalls(r) \/ Decide(r) \/ DecideApproved(r) \/ DecideCancelled(r)
                \/ Apply(r) \/ EndBatch(r) \/ Executed(r) \/ Cancel(r)
         PROVE  SlotsOK'
    BY <1>2, <1>10 DEF Start, LoopTop, StreamCancelled, StreamEnds, StreamCalls, Decide,
       DecideApproved, DecideCancelled, Answer, Apply, EndBatch, Executed, Cancel, execVars
  <1>11. ASSUME UNCHANGED vars PROVE SlotsOK'
    BY <1>2, <1>11 DEF vars, execVars
  <1> QED
    BY <1>3, <1>4, <1>5, <1>6, <1>8, <1>9, <1>10, <1>11 DEF Next, Advance, Schedule

-----------------------------------------------------------------------------
(* The round of one run                                                    *)

\* A step of one run leaves the round of the others alone.
LEMMA RoundFrame ==
  ASSUME NEW s \in Run, RoundOK(s),
         phase'[s] = phase[s], calls'[s] = calls[s], todo'[s] = todo[s],
         batch'[s] = batch[s], at'[s] = at[s], raw'[s] = raw[s]
  PROVE  RoundOK(s)'
  BY DEF RoundOK

\* After EndRound nothing of a round is left.
LEMMA RoundEnds ==
  ASSUME ToolTypeOK, NEW r \in Run, EndRound(r), RoundOK(r), phase[r] # "exec",
         phase'[r] \notin {"exec", "commit"}
  PROVE  RoundOK(r)'
  BY TypeParts DEF EndRound, RoundOK, NoCalls, InBatch, RoundTypesOK

LEMMA RoundStep ==
  ASSUME ToolTypeOK, SlotsOK, NEW s \in Run, RoundOK(s), [Next]_vars
  PROVE  RoundOK(s)'
  <1> USE TypeParts DEF RoundTypesOK, TypesOK, Go
  <1>1. ASSUME NEW r \in Run,
               CommitRound(r) \/ CommitCancelled(r) \/ ApplyCancelled(r) \/ Break(r)
        PROVE  RoundOK(s)'
    <2>1. EndRound(r) /\ phase[r] # "exec"
      BY <1>1 DEF CommitRound, CommitCancelled, ApplyCancelled, Break
    <2>2. /\ phase'[r] \notin {"exec", "commit"}
          /\ s # r => phase'[s] = phase[s]
      BY <1>1 DEF CommitRound, CommitCancelled, ApplyCancelled, Break
    <2>3. CASE s = r
      BY <2>1, <2>2, <2>3, RoundEnds
    <2>4. CASE s # r
      BY <2>1, <2>2, <2>4, RoundFrame DEF EndRound
    <2> QED
      BY <2>3, <2>4
  <1>2. ASSUME UNCHANGED <<phase, calls, todo, batch, at, raw>> PROVE RoundOK(s)'
    BY <1>2, RoundFrame
  \* Outside a round only the phase and, at its start, the calls change.
  <1>3. ASSUME NEW r \in Run, NEW p, p \notin {"exec", "commit"},
               phase[r] \notin {"exec", "commit"}, Go(r, p),
               UNCHANGED execVars, \A t \in Run : t # r => calls'[t] = calls[t]
        PROVE  RoundOK(s)'
    <2>1. CASE s = r
      BY <1>3, <2>1 DEF RoundOK, execVars
    <2>2. CASE s # r
      BY <1>3, <2>2, RoundFrame DEF execVars
    <2> QED
      BY <2>1, <2>2
  <1>4. ASSUME NEW r \in Run,
               Start(r) \/ LoopTop(r) \/ StreamCancelled(r) \/ StreamEnds(r)
        PROVE  RoundOK(s)'
    BY <1>3, <1>4 DEF Start, LoopTop, StreamCancelled, StreamEnds, roundVars
  <1>5. ASSUME NEW r \in Run, StreamCalls(r) PROVE RoundOK(s)'
    BY <1>3, <1>5 DEF StreamCalls
  <1>6. ASSUME NEW r \in Run,
               Decide(r) \/ DecideApproved(r) \/ DecideCancelled(r) \/ Cancel(r)
        PROVE  RoundOK(s)'
    BY <1>2, <1>6 DEF Decide, DecideApproved, DecideCancelled, Answer, Cancel, roundVars, execVars
  <1>7. ASSUME NEW r \in Run, Apply(r) PROVE RoundOK(s)'
    <2>1. CASE s = r
      BY <1>7, <2>1 DEF Apply, RoundOK, NoCalls, Refused, InBatch, roundVars
    <2>2. CASE s # r
      BY <1>7, <2>2, RoundFrame DEF Apply, roundVars
    <2> QED
      BY <2>1, <2>2
  <1>8. ASSUME NEW r \in Run, StartBatch(r) PROVE RoundOK(s)'
    <2>1. /\ NextBatch(todo[r]) \subseteq todo[r]
          /\ \A c \in NextBatch(todo[r]) : c \in Serial => NextBatch(todo[r]) = {c}
      BY BatchFact
    <2>2. CASE s = r
      BY <1>8, <2>1, <2>2 DEF StartBatch, RoundOK, InBatch, roundVars
    <2>3. CASE s # r
      BY <1>8, <2>3, RoundFrame DEF StartBatch, roundVars
    <2> QED
      BY <2>2, <2>3
  <1>9. ASSUME NEW r \in Run, EndBatch(r) PROVE RoundOK(s)'
    <2>1. CASE s = r
      BY <1>9, <2>1 DEF EndBatch, RoundOK, InBatch, roundVars
    <2>2. CASE s # r
      BY <1>9, <2>2, RoundFrame DEF EndBatch, roundVars
    <2> QED
      BY <2>1, <2>2
  <1>10. ASSUME NEW r \in Run, Executed(r) PROVE RoundOK(s)'
    <2>1. CASE s = r
      BY <1>10, <2>1 DEF Executed, RoundOK, InBatch, roundVars, execVars
    <2>2. CASE s # r
      BY <1>10, <2>2, RoundFrame DEF Executed, roundVars, execVars
    <2> QED
      BY <2>1, <2>2
  \* A step of the scheduler moves one call of the batch.
  <1>11. ASSUME NEW r \in Run, NEW c \in Call, at[r][c] \in InBatch,
                NEW v \in InBatch, at' = [at EXCEPT ![r][c] = v],
                UNCHANGED <<phase, roundVars, todo, batch, raw>>
         PROVE  RoundOK(s)'
    <2>1. CASE s = r
      BY <1>11, <2>1 DEF RoundOK, roundVars, NoCalls, InBatch
    <2>2. CASE s # r
      BY <1>11, <2>2, RoundFrame DEF roundVars
    <2> QED
      BY <2>1, <2>2
  <1>12. ASSUME NEW r \in Run, NEW c \in Call, at[r][c] \in InBatch,
                NEW res \in Result, Return(r, c, res),
                UNCHANGED <<phase, roundVars, todo, batch>>
         PROVE  RoundOK(s)'
    <2>1. CASE s = r
      <3>1. /\ c \in batch[r] /\ phase[r] \in {"exec", "commit"} /\ c \notin todo[r]
            /\ at'[r] = [at[r] EXCEPT ![c] = "done"]
            /\ raw'[r] = [raw[r] EXCEPT ![c] = res]
        BY <1>12, <2>1 DEF RoundOK, Return, NoCalls, InBatch
      <3> QED
        BY <1>12, <2>1, <3>1 DEF RoundOK, roundVars, InBatch
    <2>2. CASE s # r
      BY <1>12, <2>2, RoundFrame DEF roundVars, Return
    <2> QED
      BY <2>1, <2>2
  <1>13. ASSUME NEW r \in Run, NEW c \in Call,
                Schedule(r, c) \/ Acquire(r, c) \/ Timeout(r, c)
         PROVE  RoundOK(s)'
    <2>1. CASE GateRefuses(r, c) \/ AcquireCancelled(r, c)
      BY <1>12, <2>1 DEF GateRefuses, AcquireCancelled, InBatch, Result
    <2>2. CASE GatePasses(r, c) \/ Acquire(r, c) \/ Timeout(r, c)
      BY <1>11, <2>2 DEF GatePasses, Acquire, Timeout, InBatch
    <2> QED
      BY <1>13, <2>1, <2>2 DEF Schedule
  <1>14. ASSUME NEW r \in Run, NEW c \in Call, ToolEnds(r, c), SlotsOK PROVE RoundOK(s)'
    <2>1. at[r][c] \in InBatch
      BY <1>14 DEF ToolEnds, SlotsOK, Holding, InBatch
    <2>2. PICK res \in Result : Return(r, c, res)
      BY <1>14 DEF ToolEnds, Result
    <2> QED
      BY <1>12, <1>14, <2>1, <2>2 DEF ToolEnds
  <1>15. ASSUME UNCHANGED vars PROVE RoundOK(s)'
    BY <1>2, <1>15 DEF vars, roundVars, execVars
  <1> QED
    BY <1>1, <1>4, <1>5, <1>6, <1>7, <1>8, <1>9, <1>10, <1>13, <1>14, <1>15
    DEF Next, Advance

-----------------------------------------------------------------------------
(* The order of a round                                                    *)

LEMMA TurnFrame ==
  ASSUME NEW s \in Run, TurnOK(s),
         phase'[s] = phase[s], calls'[s] = calls[s], toAsk'[s] = toAsk[s],
         decided'[s] = decided[s], todo'[s] = todo[s], batch'[s] = batch[s],
         \A c \in Call : raw[s][c] # "none" => raw'[s][c] # "none",
         calls[s] \subseteq Call
  PROVE  TurnOK(s)'
  BY DEF TurnOK, Refused

\* Outside the approval and the execution of a round there is nothing to say.
LEMMA TurnElsewhere ==
  ASSUME NEW s \in Run, phase'[s] \notin {"approve", "exec"}
  PROVE  TurnOK(s)'
  BY DEF TurnOK

\* A decision is noted for a call that waits for it.
LEMMA TurnAnswered ==
  ASSUME TypesOK, RoundTypesOK, NEW r \in Run, TurnOK(r), NEW d, d # "none", Answer(r, d)
  PROVE  TurnOK(r)'
  <1> USE DEF TypesOK, RoundTypesOK
  <1>1. PICK c \in First(toAsk[r]) :
          /\ toAsk' = [toAsk EXCEPT ![r] = @ \ {c}]
          /\ decided' = [decided EXCEPT ![r][c] = d]
    BY DEF Answer
  <1>2. c \in Call
    BY <1>1 DEF First
  <1>3. phase[r] = "approve" /\ phase' = phase /\ calls' = calls
    BY DEF Answer
  <1>4. \A e \in calls[r] \intersect Asking : e \in toAsk'[r] \/ decided'[r][e] # "none"
    BY <1>1, <1>2, <1>3 DEF TurnOK
  <1> QED
    BY <1>3, <1>4 DEF TurnOK

LEMMA TurnStep ==
  ASSUME ToolTypeOK, SlotsOK, NEW s \in Run, RoundOK(s), TurnOK(s), [Next]_vars
  PROVE  TurnOK(s)'
  <1> USE TypeParts DEF TypesOK, RoundTypesOK, Go
  <1>0. calls[s] \subseteq Call
    OBVIOUS
  <1>1. ASSUME NEW r \in Run,
               \/ Start(r) \/ LoopTop(r) \/ StreamCancelled(r) \/ StreamEnds(r)
               \/ ApplyCancelled(r) \/ Executed(r) \/ Break(r)
               \/ CommitRound(r) \/ CommitCancelled(r)
        PROVE  TurnOK(s)'
    <2>1. CASE s = r
      <3>1. phase'[r] \notin {"approve", "exec"}
        BY <1>1 DEF Start, LoopTop, StreamCancelled, StreamEnds, ApplyCancelled, Executed,
           Break, CommitRound, CommitCancelled
      <3> QED
        BY <2>1, <3>1, TurnElsewhere
    <2>2. CASE s # r
      <3>1. /\ phase'[s] = phase[s] /\ calls'[s] = calls[s] /\ toAsk'[s] = toAsk[s]
            /\ decided'[s] = decided[s] /\ todo'[s] = todo[s] /\ batch'[s] = batch[s]
            /\ raw'[s] = raw[s]
        BY <1>1, <2>2 DEF Start, LoopTop, StreamCancelled, StreamEnds, ApplyCancelled, Executed,
           Break, CommitRound, CommitCancelled, EndRound, roundVars, execVars
      <3> QED
        BY <1>0, <3>1, TurnFrame
    <2> QED
      BY <2>1, <2>2
  <1>2. ASSUME NEW r \in Run, StreamCalls(r) PROVE TurnOK(s)'
    <2>1. CASE s = r
      <3>1. phase'[r] = "approve" /\ toAsk'[r] = calls'[r] \intersect Asking
        BY <1>2 DEF StreamCalls
      <3> QED
        BY <2>1, <3>1 DEF TurnOK
    <2>2. CASE s # r
      BY <1>0, <1>2, <2>2, TurnFrame DEF StreamCalls, execVars
    <2> QED
      BY <2>1, <2>2
  <1>3. ASSUME NEW r \in Run, Decide(r) \/ DecideApproved(r) \/ DecideCancelled(r)
        PROVE  TurnOK(s)'
    <2>1. PICK d \in {"once", "run", "denied", "cancelled"} : Answer(r, d)
      BY <1>3 DEF Decide, DecideApproved, DecideCancelled
    <2>2. CASE s = r
      BY <2>1, <2>2, TurnAnswered
    <2>3. CASE s # r
      <3>1. /\ phase'[s] = phase[s] /\ calls'[s] = calls[s] /\ toAsk'[s] = toAsk[s]
            /\ decided'[s] = decided[s] /\ todo'[s] = todo[s] /\ batch'[s] = batch[s]
            /\ raw'[s] = raw[s]
        BY <2>1, <2>3 DEF Answer, execVars
      <3> QED
        BY <1>0, <3>1, TurnFrame
    <2> QED
      BY <2>2, <2>3
  <1>4. ASSUME NEW r \in Run, Apply(r) PROVE TurnOK(s)'
    <2>1. CASE s = r
      <3>1. /\ phase[r] = "approve" /\ phase'[r] = "exec" /\ toAsk[r] = {}
            /\ todo'[r] = calls[r] \ Refused(r) /\ batch' = batch
            /\ calls' = calls /\ decided' = decided /\ raw' = raw
        BY <1>4 DEF Apply, roundVars
      <3>2. batch[r] = {}
        BY <2>1, <3>1 DEF RoundOK
      <3>3. Refused(r)' = Refused(r)
        BY <3>1 DEF Refused
      <3>4. \A c \in calls[r] \ Refused(r) : c \in Asking => decided[r][c] \in {"once", "run"}
        BY <2>1, <3>1 DEF TurnOK, Refused
      <3> QED
        BY <2>1, <3>1, <3>2, <3>3, <3>4 DEF TurnOK
    <2>2. CASE s # r
      BY <1>0, <1>4, <2>2, TurnFrame DEF Apply, roundVars
    <2> QED
      BY <2>1, <2>2
  <1>5. ASSUME NEW r \in Run, StartBatch(r) PROVE TurnOK(s)'
    <2>1. CASE s = r
      <3>1. /\ phase[r] = "exec" /\ phase' = phase /\ batch[r] = {}
            /\ calls' = calls /\ decided' = decided /\ toAsk' = toAsk /\ raw' = raw
            /\ batch'[r] = NextBatch(todo[r]) /\ todo'[r] = todo[r] \ NextBatch(todo[r])
        BY <1>5 DEF StartBatch, roundVars
      <3>2. NextBatch(todo[r]) \subseteq todo[r]
        BY BatchFact
      <3>3. \A c \in NextBatch(todo[r]), d \in todo[r] \ NextBatch(todo[r]) : c < d
        BY BatchFirst
      <3>4. Refused(r)' = Refused(r) /\ todo'[r] \union batch'[r] = todo[r] \union batch[r]
        BY <3>1, <3>2 DEF Refused
      <3> QED
        BY <2>1, <3>1, <3>3, <3>4 DEF TurnOK
    <2>2. CASE s # r
      BY <1>0, <1>5, <2>2, TurnFrame DEF StartBatch, roundVars
    <2> QED
      BY <2>1, <2>2
  <1>6. ASSUME NEW r \in Run, EndBatch(r) PROVE TurnOK(s)'
    <2>1. CASE s = r
      <3>1. /\ phase[r] = "exec" /\ phase' = phase /\ todo' = todo /\ batch'[r] = {}
            /\ calls' = calls /\ decided' = decided /\ toAsk' = toAsk /\ raw' = raw
            /\ \A c \in batch[r] : raw[r][c] # "none"
        BY <1>6 DEF EndBatch, roundVars
      <3>2. Refused(r)' = Refused(r)
        BY <3>1 DEF Refused
      <3> QED
        BY <2>1, <3>1, <3>2 DEF TurnOK
    <2>2. CASE s # r
      BY <1>0, <1>6, <2>2, TurnFrame DEF EndBatch, roundVars
    <2> QED
      BY <2>1, <2>2
  \* The scheduler only adds results.
  <1>7. ASSUME UNCHANGED <<phase, roundVars, todo, batch>>,
               \A c \in Call : raw[s][c] # "none" => raw'[s][c] # "none"
        PROVE  TurnOK(s)'
    BY <1>0, <1>7, TurnFrame DEF roundVars
  <1>8. ASSUME NEW r \in Run, NEW c \in Call, NEW res \in Result, Return(r, c, res)
        PROVE  \A e \in Call : raw[s][e] # "none" => raw'[s][e] # "none"
    BY <1>8 DEF Return, Result
  <1>9. ASSUME NEW r \in Run, NEW c \in Call,
               Schedule(r, c) \/ Acquire(r, c) \/ Timeout(r, c) \/ ToolEnds(r, c)
        PROVE  TurnOK(s)'
    <2>1. CASE GatePasses(r, c) \/ Acquire(r, c) \/ Timeout(r, c)
      BY <1>7, <2>1 DEF GatePasses, Acquire, Timeout
    <2>2. CASE GateRefuses(r, c) \/ AcquireCancelled(r, c)
      BY <1>7, <1>8, <2>2 DEF GateRefuses, AcquireCancelled, Result
    <2>3. CASE ToolEnds(r, c)
      <3>1. PICK res \in Result : Return(r, c, res)
        BY <2>3 DEF ToolEnds, Result
      <3> QED
        BY <1>7, <1>8, <2>3, <3>1 DEF ToolEnds
    <2> QED
      BY <1>9, <2>1, <2>2, <2>3 DEF Schedule
  <1>10. ASSUME NEW r \in Run, Cancel(r) PROVE TurnOK(s)'
    BY <1>7, <1>10 DEF Cancel, execVars
  <1>11. ASSUME UNCHANGED vars PROVE TurnOK(s)'
    BY <1>7, <1>11 DEF vars, execVars
  <1> QED
    BY <1>1, <1>2, <1>3, <1>4, <1>5, <1>6, <1>9, <1>10, <1>11 DEF Next, Advance

-----------------------------------------------------------------------------
(* The history of one run                                                  *)

LEMMA PairingFrame ==
  ASSUME NEW s \in Run, PairingOK(s),
         phase'[s] = phase[s], calls'[s] = calls[s], raw'[s] = raw[s],
         open'[s] = open[s], unsaved'[s] = unsaved[s]
  PROVE  PairingOK(s)'
  BY DEF PairingOK, IsFact

\* A message with a result for every call, where a fact stays a fact.
LEMMA CommitPairs ==
  ASSUME ToolTypeOK, NEW r \in Run, phase[r] = "commit", PairingOK(r), NEW res, Commit(r, res),
         \A c \in calls[r] : IsFact(raw[r][c]) => res[c] = raw[r][c]
  PROVE  open'[r] = {} /\ unsaved'[r] = {}
  BY TypeParts DEF Commit, PairingOK, IsFact, TypesOK

LEMMA PairingStep ==
  ASSUME ToolTypeOK, SlotsOK, NEW s \in Run, RoundOK(s), PairingOK(s), [Next]_vars
  PROVE  PairingOK(s)'
  <1> USE TypeParts DEF TypesOK, RoundTypesOK, Go
  <1>1. ASSUME UNCHANGED <<phase, calls, raw, histVars>> PROVE PairingOK(s)'
    BY <1>1, PairingFrame DEF histVars
  \* Outside a round only the phase changes.
  <1>2. ASSUME NEW r \in Run, NEW p \in {"loop", "stream", "completed", "failed", "cancelled"},
               phase[r] \in {"idle", "loop", "stream"}, Go(r, p),
               UNCHANGED <<calls, raw, histVars>>
        PROVE  PairingOK(s)'
    <2>1. CASE s = r
      BY <1>2, <2>1 DEF PairingOK, histVars
    <2>2. CASE s # r
      BY <1>2, <2>2, PairingFrame DEF histVars
    <2> QED
      BY <2>1, <2>2
  <1>3. ASSUME NEW r \in Run,
               Start(r) \/ LoopTop(r) \/ StreamCancelled(r) \/ StreamEnds(r)
        PROVE  PairingOK(s)'
    BY <1>2, <1>3 DEF Start, LoopTop, StreamCancelled, StreamEnds, roundVars, execVars
  <1>4. ASSUME NEW r \in Run, StreamCalls(r) PROVE PairingOK(s)'
    <2>1. CASE s = r
      BY <1>4, <2>1 DEF StreamCalls, PairingOK, execVars
    <2>2. CASE s # r
      BY <1>4, <2>2, PairingFrame DEF StreamCalls, execVars
    <2> QED
      BY <2>1, <2>2
  <1>5. ASSUME NEW r \in Run,
               \/ Decide(r) \/ DecideApproved(r) \/ DecideCancelled(r) \/ Cancel(r)
               \/ StartBatch(r) \/ EndBatch(r)
        PROVE  PairingOK(s)'
    BY <1>1, <1>5 DEF Decide, DecideApproved, DecideCancelled, Answer, Cancel, StartBatch,
       EndBatch, roundVars, execVars
  <1>6. ASSUME NEW r \in Run, Apply(r) \/ Executed(r) PROVE PairingOK(s)'
    <2>1. UNCHANGED <<calls, raw, histVars>>
      BY <1>6 DEF Apply, Executed, roundVars, execVars
    <2>2. CASE s = r
      BY <1>6, <2>1, <2>2 DEF Apply, Executed, PairingOK, histVars
    <2>3. CASE s # r
      BY <1>6, <2>1, <2>3, PairingFrame DEF Apply, Executed, histVars
    <2> QED
      BY <2>2, <2>3
  <1>7. ASSUME NEW r \in Run, ApplyCancelled(r) \/ Break(r) PROVE PairingOK(s)'
    <2>1. CASE s = r
      BY <1>7, <2>1 DEF ApplyCancelled, Break, EndRound, PairingOK, histVars
    <2>2. CASE s # r
      BY <1>7, <2>2, PairingFrame DEF ApplyCancelled, Break, EndRound, histVars
    <2> QED
      BY <2>1, <2>2
  \* The scheduler gives a result to a call that had none.
  <1>8. ASSUME NEW r \in Run, NEW c \in Call, NEW res \in Result, at[r][c] \in InBatch,
               Return(r, c, res), UNCHANGED <<phase, calls, open>>,
               \/ unsaved' = unsaved
               \/ IsFact(res) /\ unsaved' = [unsaved EXCEPT ![r] = @ \union {c}]
        PROVE  PairingOK(s)'
    <2>1. CASE s = r
      <3>1. /\ c \in calls[r] /\ phase[r] \in {"exec", "commit"} /\ raw[r][c] = "none"
            /\ raw'[r] = [raw[r] EXCEPT ![c] = res]
        BY <1>8, <2>1 DEF RoundOK, Return, NoCalls, InBatch
      <3>2. c \notin unsaved[r]
        BY <2>1, <3>1 DEF PairingOK, IsFact
      <3> QED
        BY <1>8, <2>1, <3>1, <3>2 DEF PairingOK, IsFact
    <2>2. CASE s # r
      BY <1>8, <2>2, PairingFrame DEF Return
    <2> QED
      BY <2>1, <2>2
  <1>9. ASSUME NEW r \in Run, NEW c \in Call,
               Schedule(r, c) \/ Acquire(r, c) \/ Timeout(r, c)
        PROVE  PairingOK(s)'
    <2>1. CASE GateRefuses(r, c) \/ AcquireCancelled(r, c)
      BY <1>8, <2>1 DEF GateRefuses, AcquireCancelled, InBatch, Result, roundVars, histVars
    <2>2. CASE GatePasses(r, c) \/ Acquire(r, c) \/ Timeout(r, c)
      BY <1>1, <2>2 DEF GatePasses, Acquire, Timeout, roundVars
    <2> QED
      BY <1>9, <2>1, <2>2 DEF Schedule
  <1>10. ASSUME NEW r \in Run, NEW c \in Call, ToolEnds(r, c) PROVE PairingOK(s)'
    <2>1. at[r][c] \in InBatch
      BY <1>10 DEF ToolEnds, SlotsOK, Holding, InBatch
    <2>2. PICK res \in {"ok", "fact", "err"} :
            /\ Return(r, c, res)
            /\ unsaved' = [unsaved EXCEPT ![r] = IF res = "err" THEN @ ELSE @ \union {c}]
      BY <1>10 DEF ToolEnds
    <2>3. \/ unsaved' = unsaved
          \/ IsFact(res) /\ unsaved' = [unsaved EXCEPT ![r] = @ \union {c}]
      BY <2>2 DEF IsFact
    <2>4. UNCHANGED <<phase, calls, open>> /\ res \in Result
      BY <1>10 DEF ToolEnds, Result, roundVars
    <2> QED
      BY <1>8, <2>1, <2>2, <2>3, <2>4
  <1>11. ASSUME NEW r \in Run, EndRound(r), unsaved'[r] = {},
                phase'[r] \in {"loop", "failed", "cancelled"}, phase'[r] = "loop" => open'[r] = {},
                \A t \in Run : t # r => /\ phase'[t] = phase[t]
                                       /\ open'[t] = open[t] /\ unsaved'[t] = unsaved[t]
         PROVE  PairingOK(s)'
    <2>1. CASE s = r
      BY <1>11, <2>1 DEF PairingOK
    <2>2. CASE s # r
      BY <1>11, <2>2, PairingFrame DEF EndRound
    <2> QED
      BY <2>1, <2>2
  <1>12. ASSUME NEW r \in Run, CommitRound(r), PairingOK(r) PROVE PairingOK(s)'
    <2> DEFINE res == [c \in calls[r] |-> Aligned(r, c)]
    <2>1. /\ Commit(r, res) /\ phase[r] = "commit" /\ EndRound(r)
          /\ Go(r, IF AtLimit(r) THEN "failed" ELSE "loop")
      BY <1>12 DEF CommitRound
    <2>2. \A c \in calls[r] : IsFact(raw[r][c]) => res[c] = raw[r][c]
      BY DEF Aligned, IsFact
    <2> HIDE DEF res
    <2>3. open'[r] = {} /\ unsaved'[r] = {}
      BY <1>12, <2>1, <2>2, CommitPairs
    <2>4. \A t \in Run : t # r => /\ phase'[t] = phase[t]
                                  /\ open'[t] = open[t] /\ unsaved'[t] = unsaved[t]
      BY <2>1 DEF Commit
    <2>5. phase'[r] \in {"loop", "failed"}
      BY <2>1
    <2> QED
      BY <1>11, <2>1, <2>3, <2>4, <2>5
  <1>13. ASSUME NEW r \in Run, CommitCancelled(r), PairingOK(r) PROVE PairingOK(s)'
    <2> DEFINE res == [c \in calls[r] |-> Paired(r, c)]
    <2>1. /\ phase[r] = "commit" /\ EndRound(r) /\ Go(r, "cancelled")
          /\ IF HasFact(r) THEN Commit(r, res) ELSE UNCHANGED histVars
      BY <1>13 DEF CommitCancelled
    <2>2. \A c \in calls[r] : IsFact(raw[r][c]) => res[c] = raw[r][c]
      BY DEF Paired
    <2> HIDE DEF res
    <2>5. phase'[r] = "cancelled"
      BY <2>1
    <2>3. CASE HasFact(r)
      <3>1. open'[r] = {} /\ unsaved'[r] = {}
        BY <1>13, <2>1, <2>2, <2>3, CommitPairs
      <3>2. \A t \in Run : t # r => /\ phase'[t] = phase[t]
                                    /\ open'[t] = open[t] /\ unsaved'[t] = unsaved[t]
        BY <2>1, <2>3 DEF Commit
      <3> QED
        BY <1>11, <2>1, <2>5, <3>1, <3>2
    <2>4. CASE ~HasFact(r)
      <3>1. unsaved[r] = {}
        BY <1>13, <2>1, <2>4 DEF PairingOK, HasFact
      <3>2. \A t \in Run : t # r => /\ phase'[t] = phase[t]
                                    /\ open'[t] = open[t] /\ unsaved'[t] = unsaved[t]
        BY <2>1, <2>4 DEF histVars
      <3>3. unsaved'[r] = {}
        BY <2>1, <2>4, <3>1 DEF histVars
      <3> QED
        BY <1>11, <2>1, <2>5, <3>2, <3>3
    <2> QED
      BY <2>3, <2>4
  <1>14. ASSUME UNCHANGED vars PROVE PairingOK(s)'
    BY <1>1, <1>14 DEF vars, roundVars, execVars
  <1>15. ASSUME NEW r \in Run, CommitRound(r) \/ CommitCancelled(r) PROVE PairingOK(s)'
    <2>1. CASE s = r
      BY <1>12, <1>13, <1>15, <2>1
    <2>2. CASE s # r
      BY <1>15, <2>2, PairingFrame DEF CommitRound, CommitCancelled, Commit, EndRound, histVars
    <2> QED
      BY <2>1, <2>2
  <1> QED
    BY <1>3, <1>4, <1>5, <1>6, <1>7, <1>9, <1>10, <1>14, <1>15 DEF Next, Advance

-----------------------------------------------------------------------------
(* The theorems                                                            *)

LEMMA ToolInvHolds == Spec => []ToolInv
  <1>1. Init => ToolInv
    <2> SUFFICES ASSUME Init PROVE ToolInv
      OBVIOUS
    <2>1. ToolTypeOK
      BY RoundsAssumption DEF Init, ToolTypeOK, NoCalls, Ended, Result
    <2>2. \A r \in Run : RoundOK(r) /\ PairingOK(r) /\ TurnOK(r)
      BY DEF Init, RoundOK, PairingOK, TurnOK, NoCalls, InBatch
    <2>3. tools = {} /\ Holding = {}
      BY DEF Init, Holding, NoCalls
    <2> QED
      BY <2>1, <2>2, <2>3, FS_EmptySet, SlotsAssumption DEF ToolInv, SlotsOK
  <1>2. ToolInv /\ [Next]_vars => ToolInv'
    BY TypeStep, SlotsStep, RoundStep, PairingStep, TurnStep DEF ToolInv
  <1> QED
    BY <1>1, <1>2, PTL DEF Spec

\* A tool works only for a call of the batch its run waits for, within the
\* slots, and a serial one alone (execute_with_tool awaits the tool's end).
THEOREM BatchCorrect == Spec => []ToolsStayInTheirBatch
  <1>1. ToolInv => ToolsStayInTheirBatch
    <2> SUFFICES ASSUME ToolInv, NEW r \in Run, NEW c \in Call, <<r, c>> \in tools
                 PROVE  /\ phase[r] = "exec" /\ c \in batch[r]
                        /\ c \in Serial => batch[r] = {c}
      BY DEF ToolsStayInTheirBatch, ToolInv, SlotsOK
    <2>1. at[r][c] \in InBatch
      BY DEF ToolInv, SlotsOK, Holding, InBatch
    <2> QED
      BY <2>1 DEF ToolInv, RoundOK
  <1> QED
    BY <1>1, ToolInvHolds, PTL

\* A tool acts only for a call that was let run, after every earlier call of the
\* round it may not run beside, and within max_tool_rounds (execute_tools).
THEOREM TurnsCorrect == Spec => []ToolsInTurn
  <1>1. ToolInv => ToolsInTurn
    <2> SUFFICES ASSUME ToolInv, NEW r \in Run, NEW c \in Call, <<r, c>> \in tools
                 PROVE  /\ round[r] < MaxRounds[r]
                        /\ c \notin Refused(r)
                        /\ c \in Asking => decided[r][c] \in {"once", "run"}
                        /\ \A d \in calls[r] \ Refused(r) :
                             d < c /\ {c, d} \intersect Serial # {} => raw[r][d] # "none"
      BY DEF ToolsInTurn
    <2>1. /\ at[r][c] \in InBatch
          /\ ToolTypeOK /\ RoundOK(r) /\ TurnOK(r)
      BY DEF ToolInv, SlotsOK, Holding, InBatch
    <2>2. phase[r] = "exec" /\ c \in batch[r]
      BY <2>1 DEF RoundOK
    <2>3. round[r] < MaxRounds[r]
      BY <2>1, <2>2 DEF ToolTypeOK, Ended
    <2>4. c \notin Refused(r) /\ (c \in Asking => decided[r][c] \in {"once", "run"})
      BY <2>1, <2>2 DEF TurnOK
    <2>5. ASSUME NEW d \in calls[r] \ Refused(r), d < c, {c, d} \intersect Serial # {}
          PROVE  raw[r][d] # "none"
      <3>1. d \in Call
        BY <2>1 DEF ToolTypeOK
      <3>2. d \in Nat /\ c \in Nat
        BY <3>1, CallAssumption
      <3>3. d \notin todo[r]
        <4>1. d \in todo[r] => c < d
          BY <2>1, <2>2 DEF TurnOK
        <4> QED
          BY <2>5, <3>2, <4>1
      <3>4. d \notin batch[r]
        <4>1. d \in batch[r] => d = c
          BY <2>1, <2>2, <2>5 DEF RoundOK
        <4> QED
          BY <2>5, <3>2, <4>1
      <3> QED
        BY <2>1, <2>2, <3>3, <3>4 DEF TurnOK
    <2> QED
      BY <2>3, <2>4, <2>5
  <1> QED
    BY <1>1, ToolInvHolds, PTL

\* The provider never sees a call without its result, and what a tool did is in
\* the history of every run that ends (pair_cancelled_results).
THEOREM PairingCorrect == Spec => []HistoryPaired
  <1>1. ToolInv => HistoryPaired
    BY DEF ToolInv, PairingOK, HistoryPaired
  <1> QED
    BY <1>1, ToolInvHolds, PTL

=============================================================================
