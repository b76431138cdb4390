---------------------------- MODULE GuiRunProofs ----------------------------
(***************************************************************************)
(* Proofs about GuiRun, for every set of runs, sessions and approvals.     *)
(***************************************************************************)
EXTENDS GuiRun, SequenceTheorems, FiniteSetTheorems, TLAPS

-----------------------------------------------------------------------------
(* Type correctness, in three parts                                        *)

ControlOK ==
  /\ pc \in [Run -> Idle \union Holding \union {"publishing", "flushed"}]
  /\ busy \subseteq Session
  /\ registered \subseteq Run /\ token \subseteq Run
  /\ stop \in {"no", "stopping", "draining", "joining", "done"}
  /\ pending \subseteq Run /\ queued \subseteq Run /\ answered \subseteq Run
  /\ deferred \subseteq Session
  /\ lock \in Run \union {Nobody}
  /\ reported \subseteq Run
  /\ apc \in [Approval -> {"idle", "queued", "orphan", "found", "responding", "executing", "over"}]
  /\ target \in [Approval -> Run \union {Nobody}]

StoreOK ==
  /\ log \in [Session -> Seq(Event)]
  /\ next \in [Run \union Approval -> Nat]

BusOK ==
  /\ held \in [Session -> Seq(Event)]
  /\ out \in [Run -> Seq(Event)]
  /\ stream \in [Session -> Seq(Event)]

\* A ToolApprove that is under way is about a run.
TargetsOK == \A c \in Approval : apc[c] # "idle" => target[c] \in Run

LEMMA EventFacts ==
  /\ \A r \in Run : Home[r] \in Session
  /\ \A r \in Run, k \in Kind : Ev(r, k) \in Event
  /\ \A e \in Event : e.run \in Run /\ e.kind \in Kind
  BY HomeAssumption DEF Ev, Event

-----------------------------------------------------------------------------
LEMMA ControlStep ==
  ControlOK /\ BusOK /\ [RunNext]_vars => ControlOK'
  <1> SUFFICES ASSUME ControlOK, BusOK, [RunNext]_vars PROVE ControlOK'
    OBVIOUS
  <1> USE EventFacts DEF ControlOK, Idle, Holding, InEngine, Closing, Goto
  <1>1. ASSUME NEW r \in Run, Publish(r) PROVE ControlOK'
    <2>1. Head(out[r]) \in Event
      BY <1>1, HeadTailProperties DEF Publish, BusOK
    <2>2. reported' \subseteq Run
      BY <1>1 DEF Publish
    <2> QED
      BY <1>1, <2>2 DEF Publish, registryVars, approvalVars, commandVars
  <1>2. ASSUME NEW r \in Run, RunStart(r) \/ Refuse(r) PROVE ControlOK'
    BY <1>2 DEF RunStart, Refuse, approvalVars, commandVars, busVars, holdVars
  <1>3. ASSUME NEW r \in Run, Accept(r) PROVE ControlOK'
    BY <1>3 DEF Accept, Registered, approvalVars, commandVars, busVars, holdVars
  <1>4. ASSUME NEW r \in Run, BeginHold(r) \/ EarlyError(r) \/ ReadSequence(r) PROVE ControlOK'
    BY <1>4 DEF BeginHold, EarlyError, ReadSequence, registryVars, approvalVars, commandVars,
                busVars, holdVars
  <1>5. ASSUME NEW r \in Run, NEW k, NEW then \in Closing \union InEngine \union {"completed", "errored"},
               Emit(r, k, then)
        PROVE  ControlOK'
    BY <1>5 DEF Emit, registryVars, approvalVars, commandVars, holdVars
  <1>6. ASSUME NEW r \in Run,
               Started(r) \/ Complete(r) \/ Fail(r) \/ Ask(r) \/ Respond(r) \/ Execute(r)
                 \/ EmitCancelled(r)
        PROVE  ControlOK'
    BY <1>6, <1>5 DEF Started, Complete, Fail, Ask, Respond, Execute, EmitCancelled
  <1>7. ASSUME NEW r \in Run, Decide(r) \/ DecideCancelled(r) \/ DecideAnswered(r) PROVE ControlOK'
    BY <1>7 DEF Decide, DecideCancelled, DecideAnswered, registryVars, approvalVars, commandVars,
                busVars, holdVars
  <1>8. ASSUME NEW r \in Run, SeeCancel(r) \/ Completed(r) \/ ClearRun(r) \/ Remove(r)
        PROVE  ControlOK'
    BY <1>8 DEF SeeCancel, Completed, ClearRun, Remove, registryVars, approvalVars, commandVars,
                busVars, holdVars
  <1>9. ASSUME NEW r \in Run, SealRead(r) PROVE ControlOK'
    BY <1>9 DEF SealRead, registryVars, approvalVars, commandVars, busVars, holdVars
  <1>10. ASSUME NEW r \in Run, SealStarted(r) \/ SealFailed(r) \/ SealSynthetic(r) PROVE ControlOK'
    BY <1>10 DEF SealStarted, SealFailed, SealSynthetic, registryVars, approvalVars, commandVars,
                 busVars, holdVars
  <1>11. ASSUME NEW r \in Run, FlushTake(r) \/ FlushPublish(r) \/ ClearReported(r) PROVE ControlOK'
    BY <1>11 DEF FlushTake, FlushPublish, ClearReported, registryVars, approvalVars, commandVars,
                 holdVars
  <1>12. ASSUME NEW r \in Run, RunCancel(r) PROVE ControlOK'
    BY <1>12 DEF RunCancel, approvalVars, commandVars, busVars, holdVars
  <1>13. ASSUME NEW c \in Approval, NEW r \in Run, Resolve(c, r) PROVE ControlOK'
    BY <1>13 DEF Resolve, registryVars, busVars, holdVars
  <1>14. ASSUME NEW c \in Approval, CommandStep(c) PROVE ControlOK'
    <2>1. PICK l \in {"over", "orphan", "found", "responding", "executing"} :
            apc' = [apc EXCEPT ![c] = l]
      BY <1>14 DEF CommandStep, CheckLive, ReadWaiting, ReadTail, SealResponded, SealExecuted,
                   CommandAt, Seal
    <2>2. UNCHANGED <<pc, registryVars, stop, approvalVars, busVars, target>>
      BY <1>14 DEF CommandStep, CheckLive, ReadWaiting, ReadTail, SealResponded, SealExecuted,
                   CommandAt, Seal
    <2> QED
      BY <2>1, <2>2 DEF registryVars, approvalVars, busVars, holdVars
  <1>15. ASSUME BeginStop \/ StopStep PROVE ControlOK'
    BY <1>15 DEF BeginStop, StopStep, CancelAll, Drain, Joined, Stop, approvalVars, commandVars,
                 busVars, holdVars
  <1>16. ASSUME Exited \/ UNCHANGED vars PROVE ControlOK'
    BY <1>16 DEF Exited, vars, registryVars, approvalVars, commandVars, busVars, holdVars
  <1> QED
    BY <1>1, <1>2, <1>3, <1>4, <1>6, <1>7, <1>8, <1>9, <1>10, <1>11, <1>12, <1>13, <1>14, <1>15,
       <1>16 DEF RunNext, RunStep, EngineStep

-----------------------------------------------------------------------------
LEMMA TargetStep ==
  ControlOK /\ TargetsOK /\ [RunNext]_vars => TargetsOK'
  <1> SUFFICES ASSUME ControlOK, TargetsOK, [RunNext]_vars PROVE TargetsOK'
    OBVIOUS
  <1> USE DEF TargetsOK, ControlOK
  <1>1. ASSUME UNCHANGED commandVars PROVE TargetsOK'
    BY <1>1 DEF commandVars
  <1>2. ASSUME NEW c \in Approval, NEW r \in Run, Resolve(c, r) PROVE TargetsOK'
    BY <1>2 DEF Resolve
  <1>3. ASSUME NEW c \in Approval, CommandStep(c) PROVE TargetsOK'
    <2>1. /\ apc[c] # "idle" /\ target' = target
          /\ \E l : apc' = [apc EXCEPT ![c] = l]
      BY <1>3 DEF CommandStep, CheckLive, ReadWaiting, ReadTail, SealResponded, SealExecuted,
                  CommandAt, Seal
    <2> QED
      BY <2>1
  <1>4. ASSUME NEW r \in Run, RunStart(r) \/ RunStep(r) \/ EngineStep(r) \/ RunCancel(r)
        PROVE  UNCHANGED commandVars
    <2>1. ASSUME NEW k, NEW then, Emit(r, k, then) PROVE UNCHANGED commandVars
      BY <2>1 DEF Emit
    <2>2. ASSUME Started(r) \/ Complete(r) \/ Fail(r) \/ Ask(r) \/ Respond(r) \/ Execute(r)
                   \/ EmitCancelled(r)
          PROVE  UNCHANGED commandVars
      BY <2>1, <2>2 DEF Started, Complete, Fail, Ask, Respond, Execute, EmitCancelled
    <2> QED
      BY <1>4, <2>2
         DEF RunStep, EngineStep, RunStart, RunCancel, Publish, Refuse, Accept, BeginHold, EarlyError,
             ReadSequence, Decide, DecideCancelled, DecideAnswered, SeeCancel, SealRead, SealStarted,
             SealFailed, SealSynthetic, Completed, ClearRun, Remove, FlushTake, FlushPublish,
             ClearReported
  <1>5. ASSUME BeginStop \/ StopStep \/ Exited \/ UNCHANGED vars PROVE UNCHANGED commandVars
    BY <1>5 DEF BeginStop, StopStep, CancelAll, Drain, Joined, Stop, Exited, vars
  <1> QED
    BY <1>1, <1>2, <1>3, <1>4, <1>5 DEF RunNext

-----------------------------------------------------------------------------
LEMMA SequenceType ==
  ASSUME StoreOK, NEW s \in Session
  PROVE  NextSequence(s) \in Nat
  BY LenProperties DEF StoreOK, NextSequence

LEMMA PersistType ==
  ASSUME StoreOK, NEW w \in Run \union Approval, NEW r \in Run, NEW k \in Kind, Persist(w, r, k)
  PROVE  StoreOK'
  <1>1. Append(log[Home[r]], Ev(r, k)) \in Seq(Event)
    BY EventFacts, AppendProperties DEF StoreOK
  <1>2. next[w] + 1 \in Nat
    BY DEF StoreOK
  <1> QED
    BY <1>1, <1>2, EventFacts DEF StoreOK, Persist

LEMMA StoreStep ==
  ControlOK /\ TargetsOK /\ StoreOK /\ [RunNext]_vars => StoreOK'
  <1> SUFFICES ASSUME ControlOK, TargetsOK, StoreOK, [RunNext]_vars PROVE StoreOK'
    OBVIOUS
  <1>1. ASSUME UNCHANGED storeVars PROVE StoreOK'
    BY <1>1 DEF StoreOK, storeVars
  <1>2. ASSUME NEW w \in Run \union Approval, NEW s \in Session,
               log' = log, next' = [next EXCEPT ![w] = NextSequence(s)]
        PROVE  StoreOK'
    BY <1>2, SequenceType DEF StoreOK
  <1>3. ASSUME NEW r \in Run, NEW k \in Kind, NEW then, Emit(r, k, then) PROVE StoreOK'
    BY <1>1, <1>3, PersistType DEF Emit
  <1>4. ASSUME NEW r \in Run,
               Started(r) \/ Complete(r) \/ Fail(r) \/ Ask(r) \/ Respond(r) \/ Execute(r)
                 \/ EmitCancelled(r)
        PROVE  StoreOK'
    BY <1>3, <1>4 DEF Started, Complete, Fail, Ask, Respond, Execute, EmitCancelled, Kind, Shown,
                      Terminal
  <1>5. ASSUME NEW r \in Run, ReadSequence(r) \/ SealRead(r) PROVE StoreOK'
    BY <1>5, <1>1, <1>2, EventFacts DEF ReadSequence, SealRead, storeVars
  <1>6. ASSUME NEW r \in Run, SealStarted(r) \/ SealFailed(r) PROVE StoreOK'
    BY <1>6, PersistType DEF SealStarted, SealFailed, Kind, Shown, Terminal
  <1>7. ASSUME NEW c \in Approval, CommandStep(c) PROVE StoreOK'
    <2>1. target[c] \in Run
      BY <1>7 DEF TargetsOK, CommandStep, CheckLive, ReadWaiting, ReadTail, SealResponded,
                  SealExecuted, CommandAt, Seal
    <2>2. ASSUME NEW where, NEW k \in Kind, NEW then, Seal(c, where, k, then) PROVE StoreOK'
      BY <2>1, <2>2, <1>1, PersistType DEF Seal
    <2>3. ASSUME CheckLive(c) \/ ReadWaiting(c) PROVE StoreOK'
      BY <2>3, <1>1 DEF CheckLive, ReadWaiting, CommandAt, storeVars
    <2>4. ASSUME ReadTail(c) PROVE StoreOK'
      BY <2>1, <2>4, <1>2, EventFacts DEF ReadTail, CommandAt
    <2> QED
      BY <1>7, <2>2, <2>3, <2>4 DEF CommandStep, SealResponded, SealExecuted, Kind
  <1>8. ASSUME NEW r \in Run,
               \/ RunStart(r) \/ Publish(r) \/ Refuse(r) \/ Accept(r) \/ BeginHold(r) \/ EarlyError(r)
               \/ Decide(r) \/ DecideCancelled(r) \/ DecideAnswered(r) \/ SeeCancel(r)
               \/ SealSynthetic(r) \/ Completed(r) \/ ClearRun(r) \/ Remove(r) \/ FlushTake(r)
               \/ FlushPublish(r) \/ ClearReported(r) \/ RunCancel(r)
        PROVE  UNCHANGED storeVars
    BY <1>8 DEF RunStart, Publish, Refuse, Accept, BeginHold, EarlyError, Decide, DecideCancelled,
                DecideAnswered, SeeCancel, SealSynthetic, Completed, ClearRun, Remove, FlushTake,
                FlushPublish, ClearReported, RunCancel
  <1>9. ASSUME NEW c \in Approval, NEW r \in Run, Resolve(c, r) PROVE UNCHANGED storeVars
    BY <1>9 DEF Resolve
  <1>10. ASSUME BeginStop \/ StopStep \/ Exited \/ UNCHANGED vars PROVE UNCHANGED storeVars
    BY <1>10 DEF BeginStop, StopStep, CancelAll, Drain, Joined, Stop, Exited, vars
  <1> QED
    BY <1>1, <1>4, <1>5, <1>6, <1>7, <1>8, <1>9, <1>10 DEF RunNext, RunStep, EngineStep

-----------------------------------------------------------------------------
LEMMA BusStep ==
  ControlOK /\ BusOK /\ [RunNext]_vars => BusOK'
  <1> SUFFICES ASSUME ControlOK, BusOK, [RunNext]_vars PROVE BusOK'
    OBVIOUS
  <1>1. ASSUME UNCHANGED <<held, out, stream>> PROVE BusOK'
    BY <1>1 DEF BusOK
  <1>2. ASSUME NEW r \in Run, NEW es \in Seq(Event),
               out' = [out EXCEPT ![r] = es], UNCHANGED <<held, stream>>
        PROVE  BusOK'
    BY <1>2 DEF BusOK
  <1>3. ASSUME NEW r \in Run, Publish(r) PROVE BusOK'
    <2>1. Head(out[r]) \in Event /\ Tail(out[r]) \in Seq(Event)
      BY <1>3, HeadTailProperties DEF Publish, BusOK
    <2>2. PICK e \in Event : Dispatch(e)
      BY <1>3, <2>1 DEF Publish
    <2>3. Home[e.run] \in Session
      BY EventFacts
    <2>4. <<e>> \in Seq(Event) /\ Append(held[Home[e.run]], e) \in Seq(Event)
          /\ Append(stream[Home[e.run]], e) \in Seq(Event)
      BY <2>3, AppendProperties DEF BusOK
    <2>5. held' \in [Session -> Seq(Event)] /\ stream' \in [Session -> Seq(Event)]
      BY <2>2, <2>3, <2>4 DEF Dispatch, BusOK
    <2> QED
      BY <1>3, <2>1, <2>5 DEF Publish, BusOK
  <1>4. ASSUME NEW r \in Run, NEW k \in Kind, NEW then, Emit(r, k, then) PROVE BusOK'
    <2>1. <<Ev(r, k)>> \in Seq(Event)
      BY EventFacts
    <2> QED
      BY <1>1, <1>2, <1>4, <2>1 DEF Emit, holdVars
  <1>5. ASSUME NEW r \in Run,
               Started(r) \/ Complete(r) \/ Fail(r) \/ Ask(r) \/ Respond(r) \/ Execute(r)
                 \/ EmitCancelled(r)
        PROVE  BusOK'
    BY <1>4, <1>5 DEF Started, Complete, Fail, Ask, Respond, Execute, EmitCancelled, Kind, Shown,
                      Terminal
  <1>6. ASSUME NEW r \in Run, SealFailed(r) \/ SealSynthetic(r) PROVE BusOK'
    <2>1. {Ev(r, "started"), Ev(r, "failed"), Ev(r, "synthetic")} \subseteq Event
      BY EventFacts DEF Kind, Shown, Terminal
    <2>2. /\ <<Ev(r, "started"), Ev(r, "failed")>> \in Seq(Event)
          /\ <<Ev(r, "failed")>> \in Seq(Event) /\ <<Ev(r, "synthetic")>> \in Seq(Event)
      BY <2>1
    <2> QED
      BY <1>2, <1>6, <2>2 DEF SealFailed, SealSynthetic, holdVars
  <1>7. ASSUME NEW r \in Run, FlushTake(r) PROVE BusOK'
    <2>1. held[Home[r]] \in Seq(Event) /\ <<>> \in Seq(Event)
      BY EventFacts DEF BusOK
    <2> QED
      BY <1>7, <2>1 DEF FlushTake, BusOK
  <1>8. ASSUME NEW r \in Run, FlushPublish(r) PROVE BusOK'
    <2>1. stream[Home[r]] \o out[r] \in Seq(Event) /\ <<>> \in Seq(Event)
      BY EventFacts, ConcatProperties DEF BusOK
    <2> QED
      BY <1>8, <2>1 DEF FlushPublish, BusOK
  <1>9. ASSUME NEW r \in Run,
               \/ RunStart(r) \/ Refuse(r) \/ Accept(r) \/ BeginHold(r) \/ EarlyError(r)
               \/ ReadSequence(r) \/ Decide(r) \/ DecideCancelled(r) \/ DecideAnswered(r)
               \/ SeeCancel(r) \/ SealRead(r) \/ SealStarted(r) \/ Completed(r) \/ ClearRun(r)
               \/ Remove(r) \/ ClearReported(r) \/ RunCancel(r)
        PROVE  UNCHANGED <<held, out, stream>>
    BY <1>9 DEF RunStart, Refuse, Accept, BeginHold, EarlyError, ReadSequence, Decide,
                DecideCancelled, DecideAnswered, SeeCancel, SealRead, SealStarted, Completed,
                ClearRun, Remove, ClearReported, RunCancel, busVars, holdVars
  <1>10. ASSUME NEW c \in Approval, CommandStep(c) \/ \E r \in Run : Resolve(c, r)
         PROVE  UNCHANGED <<held, out, stream>>
    BY <1>10 DEF Resolve, CommandStep, CheckLive, ReadWaiting, ReadTail, SealResponded, SealExecuted,
                 CommandAt, Seal, busVars, holdVars
  <1>11. ASSUME BeginStop \/ StopStep \/ Exited \/ UNCHANGED vars
         PROVE  UNCHANGED <<held, out, stream>>
    BY <1>11 DEF BeginStop, StopStep, CancelAll, Drain, Joined, Stop, Exited, vars, busVars, holdVars
  <1> QED
    BY <1>1, <1>3, <1>5, <1>6, <1>7, <1>8, <1>9, <1>10, <1>11 DEF RunNext, RunStep, EngineStep

RunTypes == ControlOK /\ TargetsOK /\ StoreOK /\ BusOK

LEMMA RunTypesInit == RunInit => RunTypes
  <1> SUFFICES ASSUME RunInit PROVE RunTypes
    OBVIOUS
  <1>1. <<>> \in Seq(Event)
    OBVIOUS
  <1> QED
    BY <1>1 DEF RunInit, RunTypes, ControlOK, TargetsOK, StoreOK, BusOK, Idle

LEMMA RunTypesStep == RunTypes /\ [RunNext]_vars => RunTypes'
  BY ControlStep, TargetStep, StoreStep, BusStep DEF RunTypes

LEMMA RunTypesHold == RunSpec => []RunTypes
  BY RunTypesInit, RunTypesStep, PTL DEF RunSpec

\* The state of runs, registry, store, approvals and bus is well typed in
\* every reachable state (run_start.rs, bus.rs, approval.rs).
THEOREM RunTypeCorrect == RunSpec => []RunTypeOK
  <1>1. RunTypes => RunTypeOK
    BY DEF RunTypes, ControlOK, StoreOK, BusOK, RunTypeOK
  <1> QED
    BY <1>1, RunTypesHold, PTL

-----------------------------------------------------------------------------
(* The slot of a session                                                   *)

LEMMA SlotFrame ==
  ASSUME OneRunPerSession, busy' = busy,
         \A q \in Run : pc'[q] \in Holding <=> pc[q] \in Holding
  PROVE  OneRunPerSession'
  BY DEF OneRunPerSession

\* A run that moves from one holding place to another.
LEMMA SlotKept ==
  ASSUME OneRunPerSession, ControlOK, busy' = busy, NEW r \in Run, pc[r] \in Holding,
         NEW l \in Holding, pc' = [pc EXCEPT ![r] = l]
  PROVE  OneRunPerSession'
  <1>1. \A q \in Run : pc'[q] \in Holding <=> pc[q] \in Holding
    BY DEF ControlOK
  <1> QED
    BY <1>1, SlotFrame

\* A run that gives the slot back.
LEMMA SlotFreed ==
  ASSUME OneRunPerSession, ControlOK, NEW r \in Run, pc[r] \in Holding,
         busy' = busy \ {Home[r]}, NEW l, l \notin Holding, pc' = [pc EXCEPT ![r] = l]
  PROVE  OneRunPerSession'
  <1>1. \A q \in Run : pc'[q] \in Holding <=> pc[q] \in Holding /\ q # r
    BY DEF ControlOK
  <1>2. \A q \in Run : q # r /\ pc[q] \in Holding => Home[q] # Home[r]
    BY DEF OneRunPerSession
  <1> QED
    BY <1>1, <1>2 DEF OneRunPerSession

LEMMA SlotStep == ControlOK /\ OneRunPerSession /\ [RunNext]_vars => OneRunPerSession'
  <1> SUFFICES ASSUME ControlOK, OneRunPerSession, [RunNext]_vars PROVE OneRunPerSession'
    OBVIOUS
  <1>1. ASSUME NEW r \in Run, RunStart(r) PROVE OneRunPerSession'
    <2>1. /\ busy' = busy \union {Home[r]} /\ Home[r] \notin busy /\ pc[r] = "idle"
          /\ \A q \in Run : pc'[q] = IF q = r THEN "starting" ELSE pc[q]
      BY <1>1 DEF RunStart, Goto, ControlOK
    <2>2. \A q \in Run : pc'[q] \in Holding <=> pc[q] \in Holding \/ q = r
      BY <2>1 DEF Holding
    <2>3. \A q \in Run : pc[q] \in Holding => Home[q] # Home[r]
      BY <2>1 DEF OneRunPerSession
    <2> QED
      BY <2>1, <2>2, <2>3 DEF OneRunPerSession
  <1>2. ASSUME NEW r \in Run, Refuse(r) \/ FlushTake(r) PROVE OneRunPerSession'
    BY <1>2, SlotFreed DEF Refuse, FlushTake, Goto, Holding, InEngine, Closing
  <1>3. ASSUME NEW r \in Run, Publish(r) \/ RunCancel(r) PROVE OneRunPerSession'
    BY <1>3, SlotFrame DEF Publish, RunCancel, registryVars
  <1>4. ASSUME NEW r \in Run, NEW k, NEW then \in Holding, pc[r] \in Holding, Emit(r, k, then)
        PROVE  OneRunPerSession'
    BY <1>4, SlotKept DEF Emit, Goto, registryVars, Holding
  <1>5. ASSUME NEW r \in Run,
               Started(r) \/ Complete(r) \/ Fail(r) \/ Ask(r) \/ Respond(r) \/ Execute(r)
                 \/ EmitCancelled(r)
        PROVE  OneRunPerSession'
    BY <1>4, <1>5 DEF Started, Complete, Fail, Ask, Respond, Execute, EmitCancelled, Holding,
                      InEngine
  <1>6. ASSUME NEW r \in Run,
               \/ Accept(r) \/ BeginHold(r) \/ EarlyError(r) \/ ReadSequence(r) \/ Decide(r)
               \/ DecideCancelled(r) \/ DecideAnswered(r) \/ SeeCancel(r) \/ SealRead(r)
               \/ SealStarted(r) \/ SealFailed(r) \/ SealSynthetic(r) \/ Completed(r)
               \/ ClearRun(r) \/ Remove(r)
        PROVE  OneRunPerSession'
    <2>1. PICK l \in Holding : pc' = [pc EXCEPT ![r] = l]
      BY <1>6 DEF Accept, BeginHold, EarlyError, ReadSequence, Decide, DecideCancelled,
                  DecideAnswered, SeeCancel, SealRead, SealStarted, SealFailed, SealSynthetic,
                  Completed, ClearRun, Remove, Goto, Holding, InEngine, Closing
    <2>2. pc[r] \in Holding
      BY <1>6 DEF Accept, BeginHold, EarlyError, ReadSequence, Decide, DecideCancelled,
                  DecideAnswered, SeeCancel, SealRead, SealStarted, SealFailed, SealSynthetic,
                  Completed, ClearRun, Remove, Holding, InEngine, Closing
    <2>3. busy' = busy
      BY <1>6 DEF Accept, BeginHold, EarlyError, ReadSequence, Decide, DecideCancelled,
                  DecideAnswered, SeeCancel, SealRead, SealStarted, SealFailed, SealSynthetic,
                  Completed, ClearRun, Remove, registryVars
    <2> QED
      BY <2>1, <2>2, <2>3, SlotKept
  <1>7. ASSUME NEW r \in Run, FlushPublish(r) \/ ClearReported(r) PROVE OneRunPerSession'
    <2>1. /\ pc[r] \in {"publishing", "flushed"} /\ busy' = busy
          /\ \E l \in {"flushed", "done"} : pc' = [pc EXCEPT ![r] = l]
      BY <1>7 DEF FlushPublish, ClearReported, Goto, registryVars
    <2>2. \A q \in Run : pc'[q] \in Holding <=> pc[q] \in Holding
      BY <2>1 DEF ControlOK, Holding, InEngine, Closing
    <2> QED
      BY <2>1, <2>2, SlotFrame
  <1>8. ASSUME NEW c \in Approval, CommandStep(c) \/ \E r \in Run : Resolve(c, r)
        PROVE  OneRunPerSession'
    <2>1. pc' = pc /\ busy' = busy
      BY <1>8 DEF Resolve, CommandStep, CheckLive, ReadWaiting, ReadTail, SealResponded,
                  SealExecuted, CommandAt, Seal, registryVars
    <2> QED
      BY <2>1, SlotFrame
  <1>9. ASSUME BeginStop \/ StopStep \/ Exited \/ UNCHANGED vars PROVE OneRunPerSession'
    <2>1. pc' = pc /\ busy' = busy
      BY <1>9 DEF BeginStop, StopStep, CancelAll, Drain, Joined, Stop, Exited, vars, registryVars
    <2> QED
      BY <2>1, SlotFrame
  <1> QED
    BY <1>1, <1>2, <1>3, <1>5, <1>6, <1>7, <1>8, <1>9 DEF RunNext, RunStep, EngineStep

\* A session's slot is taken exactly while one run of it owns it, for any
\* number of sessions and runs and however the runs before ended
\* (SessionSlotGuard, flush_held_session).
THEOREM SlotCorrect == RunSpec => []OneRunPerSession
  <1>1. RunInit => OneRunPerSession
    BY DEF RunInit, OneRunPerSession, Holding, InEngine, Closing
  <1>2. RunTypes => ControlOK
    BY DEF RunTypes
  <1> QED
    BY <1>1, <1>2, RunTypesHold, SlotStep, PTL DEF RunSpec

-----------------------------------------------------------------------------
(* Cancellation by the shutdown                                            *)

Live == InEngine \union {"spawned"}

\* A live run can be found in the registry, or has been cancelled.
CancelInv ==
  /\ \A r \in Run : pc[r] \in Live => r \in registered \union token
  /\ stop \in {"draining", "joining"} => \A r \in Run : pc[r] \in Live => r \in token

LEMMA CancelFrame ==
  ASSUME CancelInv, stop' = stop, token \subseteq token',
         \A q \in Run : pc'[q] \in Live =>
           pc[q] \in Live /\ (q \in registered => q \in registered' \union token')
  PROVE  CancelInv'
  BY DEF CancelInv

LEMMA CancelMoved ==
  ASSUME CancelInv, ControlOK, UNCHANGED <<registered, token, stop>>, NEW r \in Run, NEW l,
         pc' = [pc EXCEPT ![r] = l], l \in Live => pc[r] \in Live
  PROVE  CancelInv'
  <1>1. \A q \in Run : pc'[q] \in Live => pc[q] \in Live
    BY DEF ControlOK
  <1> QED
    BY <1>1, CancelFrame

LEMMA CancelStep == ControlOK /\ CancelInv /\ [RunNext]_vars => CancelInv'
  <1> SUFFICES ASSUME ControlOK, CancelInv, [RunNext]_vars PROVE CancelInv'
    OBVIOUS
  <1>1. ASSUME NEW r \in Run, RunCancel(r) PROVE CancelInv'
    BY <1>1, CancelFrame DEF RunCancel
  <1>2. ASSUME NEW r \in Run, Remove(r) PROVE CancelInv'
    <2>1. \A q \in Run : pc'[q] = IF q = r THEN "flushing" ELSE pc[q]
      BY <1>2 DEF Remove, Goto, ControlOK
    <2> QED
      BY <1>2, <2>1, CancelFrame DEF Remove, Live, InEngine
  <1>3. ASSUME NEW r \in Run, Accept(r) PROVE CancelInv'
    <2>1. \A q \in Run : pc'[q] = IF q = r THEN "spawned" ELSE pc[q]
      BY <1>3 DEF Accept, Goto, ControlOK
    <2>2. registered' = registered \union {r} /\ token \subseteq token' /\ stop' = stop
          /\ (stop # "no" => r \in token')
      BY <1>3 DEF Accept, Registered
    <2> QED
      BY <2>1, <2>2 DEF CancelInv
  <1>4. ASSUME CancelAll \/ Drain PROVE CancelInv'
    BY <1>4 DEF CancelAll, Drain, Stop, CancelInv
  <1>5. ASSUME BeginStop \/ Joined PROVE CancelInv'
    BY <1>5 DEF BeginStop, Joined, Stop, CancelInv
  <1>6. ASSUME UNCHANGED <<pc, registered, token, stop>> PROVE CancelInv'
    BY <1>6 DEF CancelInv
  <1>7. ASSUME NEW r \in Run, Publish(r) PROVE CancelInv'
    BY <1>6, <1>7 DEF Publish, registryVars
  <1>8. ASSUME NEW c \in Approval, CommandStep(c) \/ \E r \in Run : Resolve(c, r)
        PROVE  CancelInv'
    BY <1>6, <1>8 DEF Resolve, CommandStep, CheckLive, ReadWaiting, ReadTail, SealResponded,
                      SealExecuted, CommandAt, Seal, registryVars
  <1>9. ASSUME NEW r \in Run, NEW k, NEW then, pc[r] \in Live, Emit(r, k, then) PROVE CancelInv'
    BY <1>9, CancelMoved DEF Emit, Goto, registryVars
  <1>10. ASSUME NEW r \in Run,
                Started(r) \/ Complete(r) \/ Fail(r) \/ Ask(r) \/ Respond(r) \/ Execute(r)
                  \/ EmitCancelled(r)
         PROVE  CancelInv'
    BY <1>9, <1>10 DEF Started, Complete, Fail, Ask, Respond, Execute, EmitCancelled, Live, InEngine
  <1>11. ASSUME NEW r \in Run,
                \/ BeginHold(r) \/ EarlyError(r) \/ ReadSequence(r) \/ Decide(r)
                \/ DecideCancelled(r) \/ DecideAnswered(r) \/ SeeCancel(r)
         PROVE  CancelInv'
    <2>1. /\ pc[r] \in Live /\ UNCHANGED <<registered, token, stop>>
          /\ \E l : pc' = [pc EXCEPT ![r] = l]
      BY <1>11 DEF BeginHold, EarlyError, ReadSequence, Decide, DecideCancelled, DecideAnswered,
                   SeeCancel, Goto, registryVars, Live, InEngine
    <2> QED
      BY <2>1, CancelMoved
  <1>12. ASSUME NEW r \in Run,
                \/ RunStart(r) \/ Refuse(r) \/ SealRead(r) \/ SealStarted(r) \/ SealFailed(r)
                \/ SealSynthetic(r) \/ Completed(r) \/ ClearRun(r) \/ FlushTake(r)
                \/ FlushPublish(r) \/ ClearReported(r)
         PROVE  CancelInv'
    <2>1. /\ UNCHANGED <<registered, token, stop>>
          /\ \E l : l \notin Live /\ pc' = [pc EXCEPT ![r] = l]
      BY <1>12 DEF RunStart, Refuse, SealRead, SealStarted, SealFailed, SealSynthetic, Completed,
                   ClearRun, FlushTake, FlushPublish, ClearReported, Goto, registryVars, Live,
                   InEngine
    <2> QED
      BY <2>1, CancelMoved
  <1>13. ASSUME Exited \/ UNCHANGED vars PROVE CancelInv'
    BY <1>6, <1>13 DEF Exited, vars, registryVars
  <1> QED
    BY <1>1, <1>2, <1>3, <1>4, <1>5, <1>7, <1>8, <1>10, <1>11, <1>12, <1>13
       DEF RunNext, RunStep, EngineStep, StopStep

\* Once the shutdown has cancelled what it found in the registry, every live
\* run is cancelled: also one that was registered behind its back, and one
\* that RunCancel had taken out (begin_shutdown, register, cancel).
THEOREM CancelCorrect == RunSpec => []CancelReachesAll
  <1>1. RunInit => CancelInv
    BY DEF RunInit, CancelInv, Live, InEngine
  <1>2. RunTypes => ControlOK
    BY DEF RunTypes
  <1>3. CancelInv => CancelReachesAll
    BY DEF CancelInv, CancelReachesAll, Live
  <1> QED
    BY <1>1, <1>2, <1>3, RunTypesHold, CancelStep, PTL DEF RunSpec

-----------------------------------------------------------------------------
(* The terminal that is held back                                          *)

\* Between the hold and the flush.
Deferring == InEngine \union Closing \union {"completed", "errored"}

\* While a run is there, its session's terminals are held back.
HoldIsOn == \A r \in Run : pc[r] \in Deferring => Home[r] \in deferred
\* A run publishes its own events, while it is there.
OutIsOwn ==
  \A r \in Run :
    /\ out[r] # <<>> => pc[r] \in Deferring \union {"publishing"}
    /\ \A i \in DOMAIN out[r] : out[r][i].run = r
\* What is held back belongs to the run that has the slot.
HeldIsOwn ==
  \A s \in Session : \A i \in DOMAIN held[s] :
    Home[held[s][i].run] = s /\ pc[held[s][i].run] \in Deferring
TerminalIsLast ==
  \A s \in Session : \A i \in DOMAIN stream[s] :
    stream[s][i].kind \in Terminal => pc[stream[s][i].run] \in {"flushed", "done"}
NothingIsLeft ==
  \A r \in Run :
    /\ pc[r] \in {"removing", "flushing", "publishing", "flushed", "done"} => r \notin pending
    /\ pc[r] \in {"flushing", "publishing", "flushed", "done"} => r \notin registered

FreeInv == HoldIsOn /\ OutIsOwn /\ HeldIsOwn /\ TerminalIsLast /\ NothingIsLeft

\* How a step may move a run.
LEMMA Moves ==
  ASSUME ControlOK, [RunNext]_vars, NEW q \in Run
  PROVE  /\ pc[q] \in Deferring => pc'[q] \in Deferring \/ FlushTake(q)
         /\ pc'[q] \in Deferring => pc[q] \in Deferring \/ BeginHold(q)
         /\ pc[q] = "publishing" => pc'[q] = "publishing" \/ FlushPublish(q)
         /\ pc[q] \in {"flushed", "done"} => pc'[q] \in {"flushed", "done"}
  <1> DEFINE Goal == /\ pc[q] \in Deferring => pc'[q] \in Deferring \/ FlushTake(q)
                     /\ pc'[q] \in Deferring => pc[q] \in Deferring \/ BeginHold(q)
                     /\ pc[q] = "publishing" => pc'[q] = "publishing" \/ FlushPublish(q)
                     /\ pc[q] \in {"flushed", "done"} => pc'[q] \in {"flushed", "done"}
  <1>1. ASSUME pc' = pc PROVE Goal
    BY <1>1
  <1>2. ASSUME NEW r \in Run, NEW l, pc' = [pc EXCEPT ![r] = l]
        PROVE  /\ q # r => pc'[q] = pc[q]
               /\ pc'[r] = l
    BY <1>2 DEF ControlOK
  <1>3. ASSUME NEW r \in Run, NEW l \in Deferring, pc[r] \in Deferring, pc' = [pc EXCEPT ![r] = l]
        PROVE  Goal
    BY <1>2, <1>3 DEF Deferring, InEngine, Closing
  <1>4. ASSUME NEW r \in Run, NEW k, NEW then \in Deferring, pc[r] \in Deferring, Emit(r, k, then)
        PROVE  Goal
    BY <1>3, <1>4 DEF Emit, Goto, Deferring
  <1>5. ASSUME NEW r \in Run,
               Started(r) \/ Complete(r) \/ Fail(r) \/ Ask(r) \/ Respond(r) \/ Execute(r)
                 \/ EmitCancelled(r)
        PROVE  Goal
    BY <1>4, <1>5 DEF Started, Complete, Fail, Ask, Respond, Execute, EmitCancelled, Deferring,
                      InEngine
  <1>6. ASSUME NEW r \in Run,
               \/ EarlyError(r) \/ ReadSequence(r) \/ Decide(r) \/ DecideCancelled(r)
               \/ DecideAnswered(r) \/ SeeCancel(r) \/ SealRead(r) \/ SealStarted(r)
               \/ SealFailed(r) \/ SealSynthetic(r) \/ Completed(r) \/ ClearRun(r) \/ Remove(r)
        PROVE  Goal
    <2>1. PICK l \in Deferring : pc' = [pc EXCEPT ![r] = l]
      BY <1>6 DEF EarlyError, ReadSequence, Decide, DecideCancelled, DecideAnswered, SeeCancel,
                  SealRead, SealStarted, SealFailed, SealSynthetic, Completed, ClearRun, Remove,
                  Goto, Deferring, InEngine, Closing
    <2>2. pc[r] \in Deferring
      BY <1>6 DEF EarlyError, ReadSequence, Decide, DecideCancelled, DecideAnswered, SeeCancel,
                  SealRead, SealStarted, SealFailed, SealSynthetic, Completed, ClearRun, Remove,
                  Deferring, InEngine, Closing
    <2> QED
      BY <2>1, <2>2, <1>3
  <1>7. ASSUME NEW r \in Run, RunStart(r) \/ Refuse(r) \/ Accept(r) PROVE Goal
    <2>1. /\ pc[r] \in {"idle", "starting"}
          /\ \E l \in {"starting", "refused", "spawned"} : pc' = [pc EXCEPT ![r] = l]
      BY <1>7 DEF RunStart, Refuse, Accept, Goto
    <2> QED
      BY <2>1, <1>2 DEF Deferring, InEngine, Closing
  <1>8. ASSUME NEW r \in Run, FlushPublish(r) \/ ClearReported(r) PROVE Goal
    <2>1. /\ (pc[r] = "publishing" /\ FlushPublish(r)) \/ pc[r] = "flushed"
          /\ \E l \in {"flushed", "done"} : pc' = [pc EXCEPT ![r] = l]
      BY <1>8 DEF FlushPublish, ClearReported, Goto
    <2> QED
      BY <2>1, <1>2 DEF Deferring, InEngine, Closing
  <1>9. ASSUME NEW r \in Run, BeginHold(r) PROVE Goal
    <2>1. pc[r] = "spawned" /\ pc' = [pc EXCEPT ![r] = "begun"]
      BY <1>9 DEF BeginHold, Goto
    <2> QED
      BY <2>1, <1>2, <1>9 DEF Deferring, InEngine, Closing
  <1>10. ASSUME NEW r \in Run, FlushTake(r) PROVE Goal
    <2>1. pc[r] = "flushing" /\ pc' = [pc EXCEPT ![r] = "publishing"]
      BY <1>10 DEF FlushTake, Goto
    <2> QED
      BY <2>1, <1>2, <1>10 DEF Deferring, InEngine, Closing
  <1>11. ASSUME NEW r \in Run, Publish(r) \/ RunCancel(r) PROVE Goal
    BY <1>1, <1>11 DEF Publish, RunCancel
  <1>12. ASSUME NEW c \in Approval, CommandStep(c) \/ \E r \in Run : Resolve(c, r) PROVE Goal
    BY <1>1, <1>12 DEF Resolve, CommandStep, CheckLive, ReadWaiting, ReadTail, SealResponded,
                       SealExecuted, CommandAt, Seal
  <1>13. ASSUME BeginStop \/ StopStep \/ Exited \/ UNCHANGED vars PROVE Goal
    BY <1>1, <1>13 DEF BeginStop, StopStep, CancelAll, Drain, Joined, Stop, Exited, vars
  <1> QED
    BY <1>5, <1>6, <1>7, <1>8, <1>9, <1>10, <1>11, <1>12, <1>13 DEF RunNext, RunStep, EngineStep

\* A step leaves the events that are under way alone, publishes, or gives a run
\* that is there events of its own to publish.
LEMMA Outgoing ==
  ASSUME ControlOK, [RunNext]_vars
  PROVE  \/ UNCHANGED <<held, stream, out>>
         \/ \E r \in Run : Publish(r) \/ FlushTake(r) \/ FlushPublish(r)
         \/ \E r \in Run, es \in Seq(Event) :
              /\ UNCHANGED <<held, stream>>
              /\ out' = [out EXCEPT ![r] = es]
              /\ pc[r] \in Deferring /\ pc'[r] \in Deferring
              /\ \A i \in DOMAIN es : es[i].run = r
  <1> DEFINE Gives(r, es) == /\ UNCHANGED <<held, stream>>
                             /\ out' = [out EXCEPT ![r] = es]
                             /\ pc[r] \in Deferring /\ pc'[r] \in Deferring
                             /\ \A i \in DOMAIN es : es[i].run = r
             Quiet == UNCHANGED <<held, stream, out>>
  <1>1. ASSUME NEW r \in Run, NEW k \in Kind
        PROVE  <<Ev(r, k)>> \in Seq(Event) /\ \A i \in DOMAIN <<Ev(r, k)>> : <<Ev(r, k)>>[i].run = r
    BY EventFacts DEF Ev
  <1>2. ASSUME NEW r \in Run, NEW k \in Kind, NEW then \in Deferring, pc[r] \in Deferring,
               Emit(r, k, then)
        PROVE  Quiet \/ \E es \in Seq(Event) : Gives(r, es)
    <2>1. CASE UNCHANGED out
      BY <1>2, <2>1 DEF Emit, holdVars
    <2>2. CASE out' = [out EXCEPT ![r] = <<Ev(r, k)>>] /\ pc' = [pc EXCEPT ![r] = then]
      <3>1. pc'[r] \in Deferring
        BY <2>2 DEF ControlOK
      <3>2. Gives(r, <<Ev(r, k)>>)
        BY <1>1, <1>2, <2>2, <3>1 DEF Emit, holdVars
      <3> QED
        BY <1>1, <3>2
    <2> QED
      BY <1>2, <2>1, <2>2 DEF Emit, Goto
  <1>3. ASSUME NEW r \in Run,
               Started(r) \/ Complete(r) \/ Fail(r) \/ Ask(r) \/ Respond(r) \/ Execute(r)
                 \/ EmitCancelled(r)
        PROVE  Quiet \/ \E es \in Seq(Event) : Gives(r, es)
    BY <1>2, <1>3 DEF Started, Complete, Fail, Ask, Respond, Execute, EmitCancelled, Deferring,
                      InEngine, Kind, Shown, Terminal
  <1>4. ASSUME NEW r \in Run, SealFailed(r) \/ SealSynthetic(r)
        PROVE  \E es \in Seq(Event) : Gives(r, es)
    <2>1. {Ev(r, "started"), Ev(r, "failed")} \subseteq Event
      BY EventFacts DEF Kind, Shown, Terminal
    <2>2. /\ <<Ev(r, "started"), Ev(r, "failed")>> \in Seq(Event)
          /\ \A i \in DOMAIN <<Ev(r, "started"), Ev(r, "failed")>> :
               <<Ev(r, "started"), Ev(r, "failed")>>[i].run = r
      BY <2>1 DEF Ev
    <2>3. {"failed", "synthetic"} \subseteq Kind
      BY DEF Kind, Shown, Terminal
    <2>4. PICK es \in {<<Ev(r, "started"), Ev(r, "failed")>>, <<Ev(r, "failed")>>,
                       <<Ev(r, "synthetic")>>} :
            out' = [out EXCEPT ![r] = es]
      BY <1>4 DEF SealFailed, SealSynthetic
    <2>7. es \in Seq(Event) /\ \A i \in DOMAIN es : es[i].run = r
      <3>1. CASE es = <<Ev(r, "started"), Ev(r, "failed")>>
        BY <2>2, <3>1
      <3>2. CASE es = <<Ev(r, "failed")>>
        BY <1>1, <2>3, <3>2
      <3>3. CASE es = <<Ev(r, "synthetic")>>
        BY <1>1, <2>3, <3>3
      <3> QED
        BY <2>4, <3>1, <3>2, <3>3
    <2>5. /\ pc[r] \in {"opening", "opened", "sealing"} /\ pc' = [pc EXCEPT ![r] = "clearing"]
          /\ UNCHANGED <<held, stream>>
      BY <1>4 DEF SealFailed, SealSynthetic, Goto, holdVars
    <2>6. pc[r] \in Deferring /\ pc'[r] \in Deferring
      BY <2>5 DEF ControlOK, Deferring, Closing
    <2> QED
      BY <2>4, <2>5, <2>6, <2>7
  <1>5. ASSUME NEW r \in Run,
               \/ RunStart(r) \/ Refuse(r) \/ Accept(r) \/ BeginHold(r) \/ EarlyError(r)
               \/ ReadSequence(r) \/ Decide(r) \/ DecideCancelled(r) \/ DecideAnswered(r)
               \/ SeeCancel(r) \/ SealRead(r) \/ SealStarted(r) \/ Completed(r) \/ ClearRun(r)
               \/ Remove(r) \/ ClearReported(r) \/ RunCancel(r)
        PROVE  Quiet
    BY <1>5 DEF RunStart, Refuse, Accept, BeginHold, EarlyError, ReadSequence, Decide,
                DecideCancelled, DecideAnswered, SeeCancel, SealRead, SealStarted, Completed,
                ClearRun, Remove, ClearReported, RunCancel, busVars, holdVars
  <1>6. ASSUME NEW c \in Approval, CommandStep(c) \/ \E r \in Run : Resolve(c, r) PROVE Quiet
    BY <1>6 DEF Resolve, CommandStep, CheckLive, ReadWaiting, ReadTail, SealResponded, SealExecuted,
                CommandAt, Seal, busVars, holdVars
  <1>7. ASSUME BeginStop \/ StopStep \/ Exited \/ UNCHANGED vars PROVE Quiet
    BY <1>7 DEF BeginStop, StopStep, CancelAll, Drain, Joined, Stop, Exited, vars, busVars, holdVars
  <1> QED
    BY <1>3, <1>4, <1>5, <1>6, <1>7 DEF RunNext, RunStep, EngineStep

LEMMA HoldChanges ==
  ASSUME [RunNext]_vars, ~(\E r \in Run : BeginHold(r) \/ FlushTake(r))
  PROVE  deferred' = deferred
  <1>1. ASSUME NEW r \in Run, NEW k, NEW then, Emit(r, k, then) PROVE deferred' = deferred
    BY <1>1 DEF Emit, holdVars
  <1> QED
    BY <1>1 DEF RunNext, RunStep, EngineStep, CommandStep, StopStep, vars, busVars, holdVars,
       RunStart, Refuse, Accept, EarlyError, ReadSequence, Decide, DecideCancelled, DecideAnswered,
       SeeCancel, SealRead, SealStarted, SealFailed, SealSynthetic, Completed, ClearRun, Remove,
       ClearReported, RunCancel, Publish, FlushPublish, Started, Complete, Fail, Ask, Respond,
       Execute, EmitCancelled, Resolve, CheckLive, ReadWaiting, ReadTail, SealResponded,
       SealExecuted, CommandAt, Seal, BeginStop, CancelAll, Drain, Joined, Stop, Exited

LEMMA HoldStep ==
  ASSUME ControlOK, OneRunPerSession, HoldIsOn, [RunNext]_vars
  PROVE  HoldIsOn'
  <1> SUFFICES ASSUME NEW q \in Run, pc'[q] \in Deferring PROVE Home[q] \in deferred'
    BY DEF HoldIsOn
  <1>1. CASE \E r \in Run : FlushTake(r)
    <2>1. PICK r \in Run : FlushTake(r)
      BY <1>1
    <2>2. pc[r] \in Holding /\ deferred' = deferred \ {Home[r]} /\ pc'[r] = "publishing"
          /\ (q # r => pc'[q] = pc[q])
      BY <2>1 DEF FlushTake, Goto, ControlOK, Holding, Closing
    <2>3. q # r /\ pc[q] \in Deferring
      BY <2>2 DEF Deferring, InEngine, Closing
    <2>4. pc[q] \in Holding
      BY <2>3 DEF Deferring, Holding
    <2> QED
      BY <2>2, <2>3, <2>4 DEF OneRunPerSession, HoldIsOn
  <1>2. CASE \E r \in Run : BeginHold(r)
    <2>1. PICK r \in Run : BeginHold(r)
      BY <1>2
    <2>2. deferred' = deferred \union {Home[r]} /\ (q # r => pc'[q] = pc[q])
      BY <2>1 DEF BeginHold, Goto, ControlOK
    <2> QED
      BY <2>2 DEF HoldIsOn
  <1>3. CASE ~(\E r \in Run : FlushTake(r) \/ BeginHold(r))
    <2>1. pc[q] \in Deferring
      BY <1>3, Moves
    <2>2. deferred' = deferred
      BY <1>3, HoldChanges
    <2> QED
      BY <2>1, <2>2 DEF HoldIsOn
  <1> QED
    BY <1>1, <1>2, <1>3


\* What the slot's run finds held is its own.
LEMMA HeldByOne ==
  ASSUME OneRunPerSession, BusOK, HeldIsOwn, NEW r \in Run, pc[r] \in Holding
  PROVE  \A i \in DOMAIN held[Home[r]] : held[Home[r]][i].run = r
  <1> SUFFICES ASSUME NEW i \in DOMAIN held[Home[r]] PROVE held[Home[r]][i].run = r
    OBVIOUS
  <1>1. Home[r] \in Session /\ held[Home[r]] \in Seq(Event)
    BY EventFacts DEF BusOK
  <1>2. held[Home[r]][i] \in Event
    BY <1>1, ElementOfSeq, LenProperties
  <1>3. held[Home[r]][i].run \in Run
    BY <1>2, EventFacts
  <1>4. /\ Home[held[Home[r]][i].run] = Home[r]
        /\ pc[held[Home[r]][i].run] \in Holding
    BY <1>1 DEF HeldIsOwn, Deferring, Holding
  <1> QED
    BY <1>3, <1>4 DEF OneRunPerSession

\* The next event of a run is its own, and is published while it is there.
LEMMA NextIsOwn ==
  ASSUME BusOK, OutIsOwn, NEW r \in Run, Publish(r)
  PROVE  /\ Head(out[r]) \in Event /\ Head(out[r]).run = r /\ pc[r] \in Deferring
         /\ Tail(out[r]) \in Seq(Event)
         /\ \A i \in DOMAIN Tail(out[r]) : Tail(out[r])[i].run = r
  <1>1. out[r] \in Seq(Event) /\ out[r] # <<>>
    BY DEF BusOK, Publish
  <1>2. /\ Head(out[r]) \in Event /\ Tail(out[r]) \in Seq(Event)
        /\ Len(Tail(out[r])) = Len(out[r]) - 1
        /\ \A i \in 1..Len(Tail(out[r])) : Tail(out[r])[i] = out[r][i + 1]
    BY <1>1, HeadTailProperties
  <1>3. /\ DOMAIN out[r] = 1..Len(out[r]) /\ DOMAIN Tail(out[r]) = 1..(Len(out[r]) - 1)
        /\ Len(out[r]) \in Nat /\ Len(out[r]) >= 1
    BY <1>1, <1>2, LenProperties, EmptySeq
  <1>4. Head(out[r]) = out[r][1] /\ 1 \in DOMAIN out[r]
    BY <1>3
  <1>5. \A i \in DOMAIN Tail(out[r]) : i + 1 \in DOMAIN out[r] /\ Tail(out[r])[i] = out[r][i + 1]
    BY <1>2, <1>3
  <1> QED
    BY <1>1, <1>2, <1>4, <1>5 DEF OutIsOwn, Publish

LEMMA OutStep ==
  ASSUME ControlOK, OneRunPerSession, BusOK, OutIsOwn, HeldIsOwn, [RunNext]_vars
  PROVE  OutIsOwn'
  <1> SUFFICES ASSUME NEW q \in Run
               PROVE  /\ out'[q] # <<>> => pc'[q] \in Deferring \union {"publishing"}
                      /\ \A i \in DOMAIN out'[q] : out'[q][i].run = q
    BY DEF OutIsOwn
  <1>1. ASSUME pc[q] \in Deferring \union {"publishing"}, out'[q] # <<>>
        PROVE  pc'[q] \in Deferring \union {"publishing"}
    <2>1. FlushTake(q) => pc'[q] = "publishing"
      BY DEF FlushTake, Goto, ControlOK
    <2>2. ~FlushPublish(q)
      BY <1>1 DEF FlushPublish, BusOK
    <2> QED
      BY <1>1, <2>1, <2>2, Moves
  <1>2. CASE out'[q] = out[q]
    BY <1>1, <1>2 DEF OutIsOwn
  <1>3. ASSUME NEW r \in Run, Publish(r) PROVE out'[q] = out[q] \/ (q = r /\ out'[q] = Tail(out[q]))
    BY <1>3 DEF Publish, BusOK
  <1>4. CASE Publish(q) /\ out'[q] = Tail(out[q])
    BY <1>1, <1>4, NextIsOwn
  <1>5. ASSUME NEW r \in Run, FlushTake(r)
        PROVE  out'[q] = out[q] \/ (q = r /\ out'[q] = held[Home[q]])
    BY <1>5 DEF FlushTake, BusOK
  <1>6. CASE FlushTake(q) /\ out'[q] = held[Home[q]]
    <2>1. pc[q] \in Holding /\ pc'[q] = "publishing"
      BY <1>6 DEF FlushTake, Goto, ControlOK, Holding, Closing
    <2> QED
      BY <1>6, <2>1, HeldByOne
  <1>7. ASSUME NEW r \in Run, FlushPublish(r) PROVE out'[q] = out[q] \/ out'[q] = <<>>
    BY <1>7 DEF FlushPublish, BusOK
  <1>8. CASE out'[q] = <<>>
    BY <1>8
  <1>9. ASSUME NEW r \in Run, NEW es \in Seq(Event), out' = [out EXCEPT ![r] = es],
               pc'[r] \in Deferring, \A i \in DOMAIN es : es[i].run = r
        PROVE  \/ out'[q] = out[q]
               \/ pc'[q] \in Deferring /\ \A i \in DOMAIN out'[q] : out'[q][i].run = q
    BY <1>9 DEF BusOK
  <1> QED
    BY <1>2, <1>3, <1>4, <1>5, <1>6, <1>7, <1>8, <1>9, Outgoing

LEMMA HeldStep ==
  ASSUME ControlOK, OneRunPerSession, BusOK, OutIsOwn, HeldIsOwn, [RunNext]_vars
  PROVE  HeldIsOwn'
  <1> SUFFICES ASSUME NEW s \in Session, NEW i \in DOMAIN held'[s]
               PROVE  Home[held'[s][i].run] = s /\ pc'[held'[s][i].run] \in Deferring
    BY DEF HeldIsOwn
  <1>1. CASE i \in DOMAIN held[s] /\ held'[s][i] = held[s][i]
    <2>1. held[s] \in Seq(Event)
      BY DEF BusOK
    <2>2. held[s][i] \in Event
      BY <1>1, <2>1, ElementOfSeq, LenProperties
    <2>3. PICK q \in Run : held[s][i].run = q /\ Home[q] = s /\ pc[q] \in Deferring
      BY <1>1, <2>2, EventFacts DEF HeldIsOwn
    <2>4. FlushTake(q) => held'[s] = <<>>
      BY <2>3 DEF FlushTake, BusOK
    <2>5. ~FlushTake(q)
      BY <2>4
    <2> QED
      BY <1>1, <2>3, <2>5, Moves
  <1>2. CASE \E r \in Run : Publish(r)
    <2>1. PICK r \in Run : Publish(r)
      BY <1>2
    <2>2. /\ Head(out[r]) \in Event /\ Head(out[r]).run = r
          /\ pc[r] \in Deferring /\ pc'[r] \in Deferring
      BY <2>1, NextIsOwn DEF Publish
    <2>3. CASE held' = held
      BY <1>1, <2>3
    <2>4. CASE held' = [held EXCEPT ![Home[r]] = <<Head(out[r])>>]
      <3>1. held'[s] = IF s = Home[r] THEN <<Head(out[r])>> ELSE held[s]
        BY <2>4 DEF BusOK
      <3> QED
        BY <1>1, <2>2, <3>1
    <2>5. CASE held' = [held EXCEPT ![Home[r]] = Append(@, Head(out[r]))]
      <3>1. held'[s] = IF s = Home[r] THEN Append(held[s], Head(out[r])) ELSE held[s]
        BY <2>5 DEF BusOK
      <3>2. held[s] \in Seq(Event)
        BY DEF BusOK
      <3>3. /\ Len(Append(held[s], Head(out[r]))) = Len(held[s]) + 1
            /\ \A j \in 1..Len(held[s]) : Append(held[s], Head(out[r]))[j] = held[s][j]
            /\ Append(held[s], Head(out[r]))[Len(held[s]) + 1] = Head(out[r])
            /\ DOMAIN Append(held[s], Head(out[r])) = 1..(Len(held[s]) + 1)
            /\ DOMAIN held[s] = 1..Len(held[s]) /\ Len(held[s]) \in Nat
        BY <2>2, <3>2, AppendProperties, LenProperties
      <3>4. CASE s = Home[r] /\ i = Len(held[s]) + 1
        BY <2>2, <3>1, <3>3, <3>4
      <3> QED
        BY <1>1, <3>1, <3>3, <3>4
    <2> QED
      BY <2>1, <2>2, <2>3, <2>4, <2>5 DEF Publish, Dispatch
  <1>3. CASE \E r \in Run : FlushTake(r)
    <2>1. PICK r \in Run : held' = [held EXCEPT ![Home[r]] = <<>>]
      BY <1>3 DEF FlushTake
    <2>2. held'[s] = IF s = Home[r] THEN <<>> ELSE held[s]
      BY <2>1 DEF BusOK
    <2> QED
      BY <1>1, <2>2
  <1>4. CASE held' = held
    BY <1>1, <1>4
  <1>5. ASSUME NEW r \in Run, FlushPublish(r) PROVE held' = held
    BY <1>5 DEF FlushPublish
  <1> QED
    BY <1>2, <1>3, <1>4, <1>5, Outgoing

\* Appending to a sequence, position by position.
LEMMA AppendAt ==
  ASSUME NEW S, NEW q \in Seq(S), NEW e \in S, NEW i \in DOMAIN Append(q, e)
  PROVE  (i \in DOMAIN q /\ Append(q, e)[i] = q[i]) \/ Append(q, e)[i] = e
  <1>1. /\ DOMAIN q = 1..Len(q) /\ DOMAIN Append(q, e) = 1..(Len(q) + 1) /\ Len(q) \in Nat
        /\ \A j \in 1..Len(q) : Append(q, e)[j] = q[j]
        /\ Append(q, e)[Len(q) + 1] = e
    BY AppendProperties, LenProperties
  <1>2. i \in 1..Len(q) \/ i = Len(q) + 1
    BY <1>1
  <1> QED
    BY <1>1, <1>2

LEMMA ConcatAt ==
  \A q, p \in Seq(Event) : \A i \in DOMAIN (q \o p) :
    \/ i \in DOMAIN q /\ (q \o p)[i] = q[i]
    \/ \E j \in DOMAIN p : (q \o p)[i] = p[j]
  <1> SUFFICES ASSUME NEW q \in Seq(Event), NEW p \in Seq(Event), NEW i \in DOMAIN (q \o p)
               PROVE  \/ i \in DOMAIN q /\ (q \o p)[i] = q[i]
                      \/ \E j \in DOMAIN p : (q \o p)[i] = p[j]
    OBVIOUS
  <1>1. /\ q \o p \in Seq(Event) /\ Len(q \o p) = Len(q) + Len(p)
        /\ \A j \in 1..(Len(q) + Len(p)) : (q \o p)[j] = IF j <= Len(q) THEN q[j] ELSE p[j - Len(q)]
    BY ConcatProperties
  <1>2. /\ DOMAIN q = 1..Len(q) /\ DOMAIN p = 1..Len(p) /\ Len(q) \in Nat /\ Len(p) \in Nat
        /\ DOMAIN (q \o p) = 1..(Len(q) + Len(p))
    BY <1>1, LenProperties
  <1>3. CASE i <= Len(q)
    BY <1>1, <1>2, <1>3
  <1>4. CASE ~(i <= Len(q))
    <2>1. i - Len(q) \in DOMAIN p
      BY <1>2, <1>4
    <2> QED
      BY <1>1, <1>2, <1>4, <2>1
  <1> QED
    BY <1>3, <1>4

LEMMA ShownStep ==
  ASSUME ControlOK, BusOK, HoldIsOn, OutIsOwn, TerminalIsLast, [RunNext]_vars
  PROVE  TerminalIsLast'
  <1> SUFFICES ASSUME NEW s \in Session, NEW i \in DOMAIN stream'[s],
                      stream'[s][i].kind \in Terminal
               PROVE  pc'[stream'[s][i].run] \in {"flushed", "done"}
    BY DEF TerminalIsLast
  <1>1. stream[s] \in Seq(Event)
    BY DEF BusOK
  <1>2. CASE i \in DOMAIN stream[s] /\ stream'[s][i] = stream[s][i]
    <2>1. stream[s][i].run \in Run
      BY <1>1, <1>2, ElementOfSeq, LenProperties, EventFacts
    <2> QED
      BY <1>2, <2>1, Moves DEF TerminalIsLast
  <1>3. CASE \E r \in Run : Publish(r)
    <2>1. PICK r \in Run : Publish(r)
      BY <1>3
    <2>2. /\ Head(out[r]) \in Event /\ Head(out[r]).run = r /\ pc[r] \in Deferring
      BY <2>1, NextIsOwn
    <2>3. Home[r] \in deferred
      BY <2>2 DEF HoldIsOn
    <2>4. CASE stream' = stream
      BY <1>2, <2>4
    <2>5. CASE /\ Head(out[r]).kind \notin Terminal
               /\ stream' = [stream EXCEPT ![Home[r]] = Append(@, Head(out[r]))]
      <3>1. stream'[s] = IF s = Home[r] THEN Append(stream[s], Head(out[r])) ELSE stream[s]
        BY <2>5 DEF BusOK
      <3>2. (i \in DOMAIN stream[s] /\ stream'[s][i] = stream[s][i]) \/ stream'[s][i] = Head(out[r])
        BY <1>1, <2>2, <3>1, AppendAt
      <3> QED
        BY <1>2, <2>5, <3>2
    <2> QED
      BY <2>1, <2>2, <2>3, <2>4, <2>5 DEF Publish, Dispatch
  <1>4. CASE \E r \in Run : FlushPublish(r)
    <2>1. PICK r \in Run : FlushPublish(r)
      BY <1>4
    <2>2. pc'[r] = "flushed" /\ stream' = [stream EXCEPT ![Home[r]] = @ \o out[r]]
      BY <2>1 DEF FlushPublish, Goto, ControlOK
    <2>3. stream'[s] = IF s = Home[r] THEN stream[s] \o out[r] ELSE stream[s]
      BY <2>2 DEF BusOK
    <2>4. out[r] \in Seq(Event)
      BY DEF BusOK
    <2>5. CASE s = Home[r]
      <3>1. i \in DOMAIN (stream[s] \o out[r]) /\ stream'[s][i] = (stream[s] \o out[r])[i]
        BY <2>3, <2>5
      <3>2. i \in DOMAIN (stream[s] \o out[r])
        BY <3>1
      <3>3. \/ i \in DOMAIN stream[s] /\ (stream[s] \o out[r])[i] = stream[s][i]
            \/ \E j \in DOMAIN out[r] : (stream[s] \o out[r])[i] = out[r][j]
        BY ONLY <1>1, <2>4, <3>2, ConcatAt
      <3>4. \/ i \in DOMAIN stream[s] /\ stream'[s][i] = stream[s][i]
            \/ \E j \in DOMAIN out[r] : stream'[s][i] = out[r][j]
        BY <3>1, <3>3
      <3> QED
        BY <1>2, <2>2, <3>4 DEF OutIsOwn
    <2> QED
      BY <1>2, <2>3, <2>5
  <1>5. ASSUME NEW r \in Run, FlushTake(r) PROVE stream' = stream
    BY <1>5 DEF FlushTake
  <1> QED
    BY <1>2, <1>3, <1>4, <1>5, Outgoing

LEMMA NothingStep == ControlOK /\ NothingIsLeft /\ [RunNext]_vars => NothingIsLeft'
  <1> SUFFICES ASSUME ControlOK, NothingIsLeft, [RunNext]_vars PROVE NothingIsLeft'
    OBVIOUS
  <1> DEFINE Cleared == {"removing", "flushing", "publishing", "flushed", "done"}
             Removed == {"flushing", "publishing", "flushed", "done"}
  <1>1. ASSUME pending' \subseteq pending, registered' \subseteq registered,
               \A q \in Run : /\ pc'[q] \in Cleared => pc[q] \in Cleared \/ q \notin pending'
                              /\ pc'[q] \in Removed => pc[q] \in Removed \/ q \notin registered'
        PROVE  NothingIsLeft'
    BY <1>1 DEF NothingIsLeft
  <1>2. ASSUME NEW r \in Run, NEW l, l \notin Cleared, pc' = [pc EXCEPT ![r] = l],
               pending' \subseteq pending \union {r}, registered' \subseteq registered \union {r}
        PROVE  NothingIsLeft'
    <2>1. \A q \in Run : pc'[q] = IF q = r THEN l ELSE pc[q]
      BY <1>2 DEF ControlOK
    <2> QED
      BY <1>2, <2>1 DEF NothingIsLeft
  <1>3. ASSUME NEW r \in Run, NEW k, NEW then, then \notin Cleared, Emit(r, k, then) PROVE NothingIsLeft'
    BY <1>2, <1>3 DEF Emit, Goto, registryVars, approvalVars
  <1>4. ASSUME NEW r \in Run,
               Started(r) \/ Complete(r) \/ Fail(r) \/ Ask(r) \/ Respond(r) \/ Execute(r)
                 \/ EmitCancelled(r)
        PROVE  NothingIsLeft'
    BY <1>3, <1>4 DEF Started, Complete, Fail, Ask, Respond, Execute, EmitCancelled
  <1>5. ASSUME NEW r \in Run,
               \/ RunStart(r) \/ Refuse(r) \/ Accept(r) \/ BeginHold(r) \/ EarlyError(r)
               \/ ReadSequence(r) \/ Decide(r) \/ DecideCancelled(r) \/ DecideAnswered(r)
               \/ SeeCancel(r) \/ SealRead(r) \/ SealStarted(r) \/ SealFailed(r)
               \/ SealSynthetic(r) \/ Completed(r)
        PROVE  NothingIsLeft'
    <2>1. /\ \E l : l \notin Cleared /\ pc' = [pc EXCEPT ![r] = l]
          /\ pending' \subseteq pending \union {r} /\ registered' \subseteq registered \union {r}
      BY <1>5 DEF RunStart, Refuse, Accept, Registered, BeginHold, EarlyError, ReadSequence, Decide,
                  DecideCancelled, DecideAnswered, SeeCancel, SealRead, SealStarted, SealFailed,
                  SealSynthetic, Completed, Goto, registryVars, approvalVars
    <2> QED
      BY <2>1, <1>2
  <1>6. ASSUME NEW r \in Run,
               ClearRun(r) \/ Remove(r) \/ FlushTake(r) \/ FlushPublish(r) \/ ClearReported(r)
        PROVE  NothingIsLeft'
    <2>1. PICK l : pc' = [pc EXCEPT ![r] = l]
      BY <1>6 DEF ClearRun, Remove, FlushTake, FlushPublish, ClearReported, Goto
    <2>2. \A q \in Run : pc'[q] = IF q = r THEN l ELSE pc[q]
      BY <2>1 DEF ControlOK
    <2>3. pending' \subseteq pending /\ registered' \subseteq registered
      BY <1>6 DEF ClearRun, Remove, FlushTake, FlushPublish, ClearReported, registryVars,
                  approvalVars
    <2>4. /\ r \notin pending' \/ pc[r] \in Cleared
          /\ r \notin registered' \/ pc[r] \in Removed \/ pc'[r] = "removing"
      BY <1>6 DEF ClearRun, Remove, FlushTake, FlushPublish, ClearReported, Goto, ControlOK
    <2> QED
      BY <1>1, <2>2, <2>3, <2>4
  <1>7. ASSUME UNCHANGED pc, pending' \subseteq pending, registered' \subseteq registered
        PROVE  NothingIsLeft'
    BY <1>1, <1>7
  <1>8. ASSUME NEW r \in Run, Publish(r) \/ RunCancel(r) PROVE NothingIsLeft'
    BY <1>7, <1>8 DEF Publish, RunCancel, registryVars, approvalVars
  <1>9. ASSUME NEW c \in Approval, CommandStep(c) \/ \E r \in Run : Resolve(c, r)
        PROVE  NothingIsLeft'
    BY <1>7, <1>9 DEF Resolve, CommandStep, CheckLive, ReadWaiting, ReadTail, SealResponded,
                      SealExecuted, CommandAt, Seal, registryVars, approvalVars
  <1>10. ASSUME BeginStop \/ StopStep \/ Exited \/ UNCHANGED vars PROVE NothingIsLeft'
    BY <1>7, <1>10 DEF BeginStop, StopStep, CancelAll, Drain, Joined, Stop, Exited, vars,
                       registryVars, approvalVars
  <1> QED
    BY <1>4, <1>5, <1>6, <1>8, <1>9, <1>10 DEF RunNext, RunStep, EngineStep

LEMMA FreeInit == RunInit => FreeInv
  BY DEF RunInit, FreeInv, HoldIsOn, OutIsOwn, HeldIsOwn, TerminalIsLast, NothingIsLeft, Deferring,
         InEngine, Closing

LEMMA FreeMeans == RunTypes /\ FreeInv => TerminalMeansFree
  <1> SUFFICES ASSUME RunTypes, FreeInv, NEW r \in Run, NEW i \in ShownOf(r, Terminal)
               PROVE  pc[r] \in {"flushed", "done"} /\ r \notin registered /\ r \notin pending
    BY DEF TerminalMeansFree
  <1>1. /\ i \in DOMAIN stream[Home[r]] /\ stream[Home[r]][i].kind \in Terminal
        /\ stream[Home[r]][i].run = r
    BY DEF ShownOf, Places
  <1>2. pc[r] \in {"flushed", "done"}
    BY <1>1, EventFacts DEF FreeInv, TerminalIsLast
  <1> QED
    BY <1>2 DEF FreeInv, NothingIsLeft

LEMMA FreeHolds == RunSpec => []FreeInv
  <1>1. RunTypes /\ OneRunPerSession /\ FreeInv /\ [RunNext]_vars => FreeInv'
    BY HoldStep, OutStep, HeldStep, ShownStep, NothingStep DEF RunTypes, FreeInv
  <1> QED
    BY <1>1, FreeInit, RunTypesHold, SlotCorrect, PTL DEF RunSpec

\* Whoever sees the terminal of a run finds its slot, its registration and its
\* approval gone, for any number of sessions, runs and approvals and however
\* the run ended (begin_terminal_hold, dispatch, flush_held_session).
THEOREM TerminalCorrect == RunSpec => []TerminalMeansFree
  BY FreeHolds, FreeMeans, RunTypesHold, PTL

-----------------------------------------------------------------------------
(* The terminal of a run, from the engine to the stream                    *)

AtMostOne(S) == \A i, j \in S : i = j
At(sq, q, K) == {i \in DOMAIN sq : sq[i].run = q /\ sq[i].kind \in K}
Stored(q, K) == At(log[Home[q]], q, K)
IsEnd(q, es) == \E k \in Terminal : es = <<Ev(q, k)>>

Before  == {"idle", "starting", "refused", "spawned", "begun", "ready"}
Turning == {"streaming", "deciding", "waiting", "answering", "executing", "cancelling"}
SealAt  == {"opening", "opened", "sealing"}

\* No terminal has been stored, and none is under way.
NoEnd(q) == Stored(q, Terminal) = {} /\ q \notin reported
\* The engine's own terminal is about to be published, or is held and reported.
Ended(q) ==
  \/ IsEnd(q, out[q]) /\ Head(out[q]).kind # "synthetic" /\ held[Home[q]] = <<>>
  \/ out[q] = <<>> /\ IsEnd(q, held[Home[q]]) /\ q \in reported
\* So is one that the engine or the sealing left.
Closed(q) ==
  \/ IsEnd(q, out[q]) /\ held[Home[q]] = <<>>
  \/ out[q] = <<>> /\ IsEnd(q, held[Home[q]])
  \/ /\ out[q] = <<Ev(q, "started"), Ev(q, "failed")>>
     /\ held[Home[q]] = <<>>
     /\ ShownOf(q, {"started"}) = {}

\* Where the start and the terminal of a run are, at each of its steps.
LifeOK(q) ==
  /\ AtMostOne(Stored(q, Terminal)) /\ AtMostOne(ShownOf(q, {"started"}))
  /\ IF pc[q] \in {"flushed", "done"}
       THEN out[q] = <<>> /\ \E i : ShownOf(q, Terminal) = {i}
       ELSE ShownOf(q, Terminal) = {}
  /\ pc[q] \in Before \union Turning \union SealAt => NoEnd(q)
  /\ pc[q] \in Before \union SealAt => out[q] = <<>>
  /\ pc[q] \in Before \union {"opening", "opened"} => ShownOf(q, {"started"}) = {}
  /\ pc[q] \in {"begun", "ready"} \union Turning \union SealAt => held[Home[q]] = <<>>
  /\ pc[q] \in Turning =>
       /\ Logged(q, "started")
       /\ \/ out[q] = <<>>
          \/ out[q] = <<Ev(q, "started")>> /\ ShownOf(q, {"started"}) = {}
  /\ pc[q] = "completed" => Ended(q)
  /\ pc[q] = "errored" =>
       \/ Ended(q)
       \/ /\ NoEnd(q) /\ out[q] = <<>> /\ held[Home[q]] = <<>>
          /\ Logged(q, "started") \/ ShownOf(q, {"started"}) = {}
  /\ pc[q] = "clearing" => Closed(q)
  /\ pc[q] \in {"removing", "flushing"} => out[q] = <<>> /\ IsEnd(q, held[Home[q]])
  /\ pc[q] = "publishing" => lock = q /\ IsEnd(q, out[q])

LifeInv == \A q \in Run : LifeOK(q)

\* Every place of a run is named.
LEMMA PlaceCases ==
  ASSUME ControlOK, NEW q \in Run
  PROVE  pc[q] \in Before \union Turning \union SealAt \union
           {"completed", "errored", "clearing", "removing", "flushing", "publishing",
            "flushed", "done"}
  BY DEF ControlOK, Idle, Holding, InEngine, Closing, Before, Turning, SealAt

\* A run none of whose own things change.
LEMMA LifeFrame ==
  ASSUME NEW q \in Run, LifeOK(q), pc'[q] = pc[q], out'[q] = out[q],
         q \in reported' <=> q \in reported,
         Stored(q, Terminal)' = Stored(q, Terminal),
         Logged(q, "started")' <=> Logged(q, "started"),
         ShownOf(q, Terminal)' = ShownOf(q, Terminal),
         ShownOf(q, {"started"})' = ShownOf(q, {"started"}),
         pc[q] \in Deferring => held'[Home[q]] = held[Home[q]],
         pc[q] = "publishing" => lock' = lock
  PROVE  LifeOK(q)'
  <1>1. CASE pc[q] \in Deferring
    BY <1>1 DEF LifeOK, NoEnd, Ended, Closed
  <1>2. CASE pc[q] \notin Deferring
    BY <1>2 DEF LifeOK, NoEnd, Deferring, InEngine, Closing, Turning, SealAt, Before
  <1> QED
    BY <1>1, <1>2

\* Where the events of a run are after one more event.
LEMMA AppendPlaces ==
  ASSUME NEW sq \in Seq(Event), NEW r \in Run, NEW k \in Kind, NEW q \in Run, NEW K
  PROVE  At(Append(sq, Ev(r, k)), q, K)
           = At(sq, q, K) \union (IF q = r /\ k \in K THEN {Len(sq) + 1} ELSE {})
  <1> DEFINE e == Ev(r, k)
             sq2 == Append(sq, e)
  <1>1. e \in Event /\ e.run = r /\ e.kind = k
    BY EventFacts DEF Ev
  <1>2. /\ DOMAIN sq = 1..Len(sq) /\ DOMAIN sq2 = 1..(Len(sq) + 1) /\ Len(sq) \in Nat
        /\ \A j \in 1..Len(sq) : sq2[j] = sq[j]
        /\ sq2[Len(sq) + 1] = e
    BY <1>1, AppendProperties, LenProperties
  <1>3. DOMAIN sq2 = DOMAIN sq \union {Len(sq) + 1}
    BY <1>2
  <1> HIDE DEF e, sq2
  <1>4. At(sq2, q, K) = At(sq, q, K) \union (IF q = r /\ k \in K THEN {Len(sq) + 1} ELSE {})
    BY <1>1, <1>2, <1>3 DEF At
  <1> QED
    BY <1>4 DEF e, sq2

LEMMA PersistPlaces ==
  ASSUME StoreOK, NEW r \in Run, NEW k \in Kind, NEW q \in Run,
         log' = [log EXCEPT ![Home[r]] = Append(@, Ev(r, k))]
  PROVE  /\ Stored(q, Terminal)' = Stored(q, Terminal)
              \union (IF q = r /\ k \in Terminal THEN {Len(log[Home[r]]) + 1} ELSE {})
         /\ Logged(q, "started")' <=> Logged(q, "started") \/ (q = r /\ k = "started")
  <1>1. Home[q] \in Session /\ Home[r] \in Session /\ log[Home[r]] \in Seq(Event)
        /\ log[Home[q]] \in Seq(Event)
    BY EventFacts DEF StoreOK
  <1>2. log'[Home[q]] = IF Home[q] = Home[r] THEN Append(log[Home[r]], Ev(r, k)) ELSE log[Home[q]]
    BY <1>1 DEF StoreOK
  <1>3. Home[q] # Home[r] => q # r
    OBVIOUS
  <1>4. ASSUME NEW K
        PROVE  Stored(q, K)' = Stored(q, K)
                 \union (IF q = r /\ k \in K THEN {Len(log[Home[r]]) + 1} ELSE {})
    <2>1. CASE Home[q] = Home[r]
      <3>1. At(Append(log[Home[r]], Ev(r, k)), q, K)
              = At(log[Home[r]], q, K)
                  \union (IF q = r /\ k \in K THEN {Len(log[Home[r]]) + 1} ELSE {})
        BY <1>1, AppendPlaces
      <3> QED
        BY <1>2, <2>1, <3>1 DEF Stored
    <2>2. CASE Home[q] # Home[r]
      BY <1>2, <1>3, <2>2 DEF Stored
    <2> QED
      BY <2>1, <2>2
  <1>5. Logged(q, "started") <=> Stored(q, {"started"}) # {}
    <2>1. \A i \in DOMAIN log[Home[q]] :
            log[Home[q]][i] = Ev(q, "started") <=>
              log[Home[q]][i].run = q /\ log[Home[q]][i].kind \in {"started"}
      <3> SUFFICES ASSUME NEW i \in DOMAIN log[Home[q]]
                   PROVE  log[Home[q]][i] = Ev(q, "started") <=>
                            log[Home[q]][i].run = q /\ log[Home[q]][i].kind \in {"started"}
        OBVIOUS
      <3>1. log[Home[q]][i] \in Event
        BY <1>1, ElementOfSeq, LenProperties
      <3> QED
        BY <3>1 DEF Event, Ev
    <2> QED
      BY <2>1 DEF Logged, Stored, At
  <1>6. Logged(q, "started")' <=> Stored(q, {"started"})' # {}
    <2>1. log'[Home[q]] \in Seq(Event)
      BY <1>1, <1>2, EventFacts, AppendProperties
    <2>2. \A i \in DOMAIN log'[Home[q]] :
            log'[Home[q]][i] = Ev(q, "started") <=>
              log'[Home[q]][i].run = q /\ log'[Home[q]][i].kind \in {"started"}
      <3> SUFFICES ASSUME NEW i \in DOMAIN log'[Home[q]]
                   PROVE  log'[Home[q]][i] = Ev(q, "started") <=>
                            log'[Home[q]][i].run = q /\ log'[Home[q]][i].kind \in {"started"}
        OBVIOUS
      <3>1. log'[Home[q]][i] \in Event
        BY <2>1, ElementOfSeq, LenProperties
      <3> QED
        BY <3>1 DEF Event, Ev
    <2> QED
      BY <2>2 DEF Logged, Stored, At
  <1> QED
    BY <1>4, <1>5, <1>6

LEMMA ShowPlaces ==
  ASSUME BusOK, NEW r \in Run, NEW k \in Kind, NEW q \in Run,
         stream' = [stream EXCEPT ![Home[r]] = Append(@, Ev(r, k))]
  PROVE  /\ ShownOf(q, Terminal)' = ShownOf(q, Terminal)
              \union (IF q = r /\ k \in Terminal THEN {Len(stream[Home[r]]) + 1} ELSE {})
         /\ ShownOf(q, {"started"})' = ShownOf(q, {"started"})
              \union (IF q = r /\ k = "started" THEN {Len(stream[Home[r]]) + 1} ELSE {})
  <1>1. Home[q] \in Session /\ Home[r] \in Session /\ stream[Home[r]] \in Seq(Event)
    BY EventFacts DEF BusOK
  <1>2. stream'[Home[q]] = IF Home[q] = Home[r] THEN Append(stream[Home[r]], Ev(r, k))
                                                ELSE stream[Home[q]]
    BY <1>1 DEF BusOK
  <1>3. ASSUME NEW K
        PROVE  At(stream'[Home[q]], q, K) = At(stream[Home[q]], q, K)
                 \union (IF q = r /\ k \in K THEN {Len(stream[Home[r]]) + 1} ELSE {})
    <2>1. At(Append(stream[Home[r]], Ev(r, k)), q, K)
            = At(stream[Home[r]], q, K)
                \union (IF q = r /\ k \in K THEN {Len(stream[Home[r]]) + 1} ELSE {})
      BY <1>1, AppendPlaces
    <2> QED
      BY <1>2, <2>1
  <1>4. /\ ShownOf(q, Terminal) = At(stream[Home[q]], q, Terminal)
        /\ ShownOf(q, Terminal)' = At(stream'[Home[q]], q, Terminal)
        /\ ShownOf(q, {"started"}) = At(stream[Home[q]], q, {"started"})
        /\ ShownOf(q, {"started"})' = At(stream'[Home[q]], q, {"started"})
    BY DEF ShownOf, Places, At
  <1> QED
    BY <1>3, <1>4

\* A step that only moves one run: everybody else is where it was.
LEMMA LifeMove ==
  ASSUME ControlOK, LifeInv, NEW r \in Run, NEW l, pc' = [pc EXCEPT ![r] = l],
         UNCHANGED <<log, held, out, stream, reported, lock>>
  PROVE  /\ pc'[r] = l
         /\ \A q \in Run \ {r} : LifeOK(q)'
         /\ \A q \in Run :
              /\ Stored(q, Terminal)' = Stored(q, Terminal)
              /\ Logged(q, "started")' = Logged(q, "started")
              /\ \A K : ShownOf(q, K)' = ShownOf(q, K)
              /\ IsEnd(q, out[q])' = IsEnd(q, out[q])
              /\ IsEnd(q, held[Home[q]])' = IsEnd(q, held[Home[q]])
              /\ NoEnd(q)' = NoEnd(q) /\ Ended(q)' = Ended(q) /\ Closed(q)' = Closed(q)
  <1>1. \A q \in Run : pc'[q] = IF q = r THEN l ELSE pc[q]
    BY DEF ControlOK
  <1>2. ASSUME NEW q \in Run
        PROVE  /\ Stored(q, Terminal)' = Stored(q, Terminal)
               /\ Logged(q, "started")' = Logged(q, "started")
               /\ \A K : ShownOf(q, K)' = ShownOf(q, K)
               /\ IsEnd(q, out[q])' = IsEnd(q, out[q])
               /\ IsEnd(q, held[Home[q]])' = IsEnd(q, held[Home[q]])
    BY DEF Stored, Logged, ShownOf, Places, IsEnd
  <1>3. ASSUME NEW q \in Run
        PROVE  NoEnd(q)' = NoEnd(q) /\ Ended(q)' = Ended(q) /\ Closed(q)' = Closed(q)
    <2>1. NoEnd(q)' = NoEnd(q)
      BY <1>2 DEF NoEnd
    <2>2. Ended(q)' = Ended(q)
      BY <1>2 DEF Ended
    <2>3. Closed(q)' = Closed(q)
      BY <1>2 DEF Closed
    <2> QED
      BY <2>1, <2>2, <2>3
  <1>4. ASSUME NEW q \in Run \ {r} PROVE LifeOK(q)'
    BY <1>1, <1>2, LifeFrame DEF LifeInv
  <1> QED
    BY <1>1, <1>2, <1>3, <1>4

\* Steps that neither store nor publish.
LEMMA LifeQuiet ==
  ASSUME RunTypes, OneRunPerSession, FreeInv, LifeInv, NEW r \in Run,
         \/ RunStart(r) \/ Refuse(r) \/ Accept(r) \/ BeginHold(r) \/ EarlyError(r)
         \/ ReadSequence(r) \/ Decide(r) \/ DecideCancelled(r) \/ DecideAnswered(r)
         \/ SeeCancel(r) \/ SealRead(r) \/ Completed(r) \/ ClearRun(r) \/ Remove(r)
  PROVE  LifeInv'
  <1>1. PICK l : pc' = [pc EXCEPT ![r] = l]
    BY DEF RunStart, Refuse, Accept, BeginHold, EarlyError, ReadSequence, Decide,
       DecideCancelled, DecideAnswered, SeeCancel, SealRead, Completed, ClearRun, Remove, Goto
  <1>2. UNCHANGED <<log, held, out, stream, reported, lock>>
    BY DEF RunStart, Refuse, Accept, BeginHold, EarlyError, ReadSequence, Decide,
       DecideCancelled, DecideAnswered, SeeCancel, SealRead, Completed, ClearRun, Remove,
       busVars, holdVars, storeVars
  <1>3. ControlOK
    BY DEF RunTypes
  <1>4. /\ pc'[r] = l
        /\ \A q \in Run \ {r} : LifeOK(q)'
        /\ Stored(r, Terminal)' = Stored(r, Terminal)
        /\ Logged(r, "started")' = Logged(r, "started")
        /\ ShownOf(r, Terminal)' = ShownOf(r, Terminal)
        /\ ShownOf(r, {"started"})' = ShownOf(r, {"started"})
        /\ IsEnd(r, out[r])' = IsEnd(r, out[r])
        /\ IsEnd(r, held[Home[r]])' = IsEnd(r, held[Home[r]])
        /\ NoEnd(r)' = NoEnd(r) /\ Ended(r)' = Ended(r) /\ Closed(r)' = Closed(r)
    BY <1>1, <1>2, <1>3, LifeMove
  <1> DEFINE Own == /\ AtMostOne(Stored(r, Terminal))' /\ AtMostOne(ShownOf(r, {"started"}))'
                    /\ ShownOf(r, Terminal) = {} => ShownOf(r, Terminal)' = {}
  <1>5. LifeOK(r) /\ Own
    <2>1. LifeOK(r)
      BY DEF LifeInv
    <2>2. AtMostOne(Stored(r, Terminal)) /\ AtMostOne(ShownOf(r, {"started"}))
      BY <2>1 DEF LifeOK
    <2> QED
      BY <1>4, <2>1, <2>2 DEF AtMostOne
  <1>6. out' = out /\ held' = held
    BY <1>2
  <1>7. CASE RunStart(r) \/ Refuse(r) \/ Accept(r) \/ ReadSequence(r)
    <2>1. /\ pc[r] \in Before /\ l \in Before
          /\ l \in {"begun", "ready"} => pc[r] \in {"begun", "ready"}
      BY <1>3, <1>4, <1>7 DEF RunStart, Refuse, Accept, ReadSequence, Goto, Before, ControlOK
    <2>2. LifeOK(r)'
      BY <1>4, <1>5, <1>6, <2>1 DEF LifeOK, Before, Turning, SealAt
    <2> QED
      BY <1>4, <2>2 DEF LifeInv
  <1>8. CASE BeginHold(r)
    <2>1. pc[r] = "spawned" /\ l = "begun"
      BY <1>3, <1>4, <1>8 DEF BeginHold, Goto, ControlOK
    <2>2. held[Home[r]] = <<>>
      <3>1. pc[r] \in Holding /\ pc[r] \notin Deferring
        BY <2>1 DEF Holding, Deferring, InEngine, Closing
      <3>2. \A i \in DOMAIN held[Home[r]] : held[Home[r]][i].run = r
        BY <3>1, HeldByOne DEF RunTypes, FreeInv
      <3>3. Home[r] \in Session /\ held[Home[r]] \in Seq(Event)
        BY EventFacts DEF RunTypes, BusOK
      <3>4. DOMAIN held[Home[r]] = {}
        BY <3>1, <3>2, <3>3 DEF FreeInv, HeldIsOwn
      <3>5. DOMAIN held[Home[r]] = 1..Len(held[Home[r]]) /\ Len(held[Home[r]]) \in Nat
        BY <3>3, LenProperties
      <3>6. ~(Len(held[Home[r]]) \in Nat \ {0})
        <4>1. 1 \notin DOMAIN held[Home[r]]
          BY <3>4
        <4> QED
          BY <3>5, <4>1
      <3> QED
        BY <3>3, <3>6, EmptySeq
    <2>3. LifeOK(r)'
      BY <1>4, <1>5, <1>6, <2>1, <2>2 DEF LifeOK, Before, Turning, SealAt
    <2> QED
      BY <1>4, <2>3 DEF LifeInv
  <1>9. CASE EarlyError(r)
    <2>1. pc[r] = "begun" /\ l = "errored"
      BY <1>3, <1>4, <1>9 DEF EarlyError, Goto, ControlOK
    <2>2. LifeOK(r)'
      BY <1>4, <1>5, <1>6, <2>1 DEF LifeOK, Before, Turning, SealAt
    <2> QED
      BY <1>4, <2>2 DEF LifeInv
  <1>10. CASE Decide(r) \/ DecideCancelled(r) \/ DecideAnswered(r) \/ SeeCancel(r)
    <2>1. pc[r] \in Turning /\ l \in Turning
      BY <1>3, <1>4, <1>10 DEF Decide, DecideCancelled, DecideAnswered, SeeCancel, Goto, Turning,
                               ControlOK
    <2>2. LifeOK(r)'
      BY <1>4, <1>5, <1>6, <2>1 DEF LifeOK, Before, Turning, SealAt
    <2> QED
      BY <1>4, <2>2 DEF LifeInv
  <1>11. CASE SealRead(r)
    <2>1. /\ pc[r] = "errored" /\ out[r] = <<>>
          /\ \/ r \notin reported /\ l = IF Logged(r, "started") THEN "sealing" ELSE "opening"
             \/ r \in reported /\ l = "clearing"
      BY <1>3, <1>4, <1>11 DEF SealRead, NeedsSeal, Goto, ControlOK
    <2>2. ~IsEnd(r, out[r])
      BY <2>1 DEF IsEnd
    <2>3. LifeOK(r)'
      BY <1>4, <1>5, <1>6, <2>1, <2>2
      DEF LifeOK, Ended, Closed, NoEnd, Before, Turning, SealAt
    <2> QED
      BY <1>4, <2>3 DEF LifeInv
  <1>12. CASE Completed(r)
    <2>1. pc[r] = "completed" /\ out[r] = <<>> /\ l = "clearing"
      BY <1>3, <1>4, <1>12 DEF Completed, Goto, ControlOK
    <2>2. ~IsEnd(r, out[r])
      BY <2>1 DEF IsEnd
    <2>3. LifeOK(r)'
      BY <1>4, <1>5, <1>6, <2>1, <2>2 DEF LifeOK, Ended, Closed, Before, Turning, SealAt
    <2> QED
      BY <1>4, <2>3 DEF LifeInv
  <1>13. CASE ClearRun(r) \/ Remove(r)
    <2>1. \/ pc[r] = "clearing" /\ out[r] = <<>> /\ l = "removing"
          \/ pc[r] = "removing" /\ l = "flushing"
      BY <1>3, <1>4, <1>13 DEF ClearRun, Remove, Goto, ControlOK
    <2>2. out[r] = <<>> => ~IsEnd(r, out[r])
      BY DEF IsEnd
    <2>3. LifeOK(r)'
      BY <1>4, <1>5, <1>6, <2>1, <2>2 DEF LifeOK, Closed, Before, Turning, SealAt
    <2> QED
      BY <1>4, <2>3 DEF LifeInv
  <1> QED
    BY <1>7, <1>8, <1>9, <1>10, <1>11, <1>12, <1>13

\* What the engine and the sealing append, and hand over to be published.
LEMMA LifeEmit ==
  ASSUME RunTypes, OneRunPerSession, FreeInv, LifeInv, NEW r \in Run, NEW k \in Kind,
         NEW l, pc' = [pc EXCEPT ![r] = l],
         log' = [log EXCEPT ![Home[r]] = Append(@, Ev(r, k))],
         NEW es, out' = [out EXCEPT ![r] = es],
         UNCHANGED <<held, stream, reported, lock>>
  PROVE  /\ pc'[r] = l /\ out'[r] = es
         /\ \A q \in Run \ {r} : LifeOK(q)'
         /\ Stored(r, Terminal)' = Stored(r, Terminal)
              \union (IF k \in Terminal THEN {Len(log[Home[r]]) + 1} ELSE {})
         /\ Logged(r, "started")' <=> Logged(r, "started") \/ k = "started"
         /\ ShownOf(r, Terminal)' = ShownOf(r, Terminal)
         /\ ShownOf(r, {"started"})' = ShownOf(r, {"started"})
         /\ AtMostOne(ShownOf(r, {"started"}))'
  <1>1. /\ \A q \in Run : pc'[q] = IF q = r THEN l ELSE pc[q]
        /\ \A q \in Run : out'[q] = IF q = r THEN es ELSE out[q]
    BY DEF RunTypes, ControlOK, BusOK
  <1>2. ASSUME NEW q \in Run
        PROVE  /\ ShownOf(q, Terminal)' = ShownOf(q, Terminal)
               /\ ShownOf(q, {"started"})' = ShownOf(q, {"started"})
    BY DEF ShownOf, Places
  <1>3. ASSUME NEW q \in Run
        PROVE  /\ Stored(q, Terminal)' = Stored(q, Terminal)
                    \union (IF q = r /\ k \in Terminal THEN {Len(log[Home[r]]) + 1} ELSE {})
               /\ Logged(q, "started")' <=> Logged(q, "started") \/ (q = r /\ k = "started")
    BY PersistPlaces DEF RunTypes
  <1>4. ASSUME NEW q \in Run \ {r} PROVE LifeOK(q)'
    BY <1>1, <1>2, <1>3, LifeFrame DEF LifeInv
  <1>5. AtMostOne(ShownOf(r, {"started"}))'
    BY <1>2 DEF LifeInv, LifeOK, AtMostOne
  <1> QED
    BY <1>1, <1>2, <1>3, <1>4, <1>5

LEMMA LifeEngine ==
  ASSUME RunTypes, OneRunPerSession, FreeInv, LifeInv, NEW r \in Run,
         \/ Started(r) \/ Complete(r) \/ Fail(r) \/ Ask(r) \/ Respond(r) \/ Execute(r)
         \/ EmitCancelled(r)
  PROVE  LifeInv'
  <1>1. PICK k \in {"started", "completed", "failed", "asked", "responded", "executed",
                    "cancelled"}, then \in Turning \union {"completed", "errored"} :
          /\ Emit(r, k, then)
          /\ \/ pc[r] = "ready" /\ k = "started" /\ then \in Turning
             \/ pc[r] \in Turning /\ k \in {"asked", "responded", "executed"} /\ then \in Turning
             \/ pc[r] \in Turning /\ k = "completed" /\ then = "completed"
             \/ pc[r] \in Turning /\ k \in {"failed", "cancelled"} /\ then = "errored"
    BY DEF Started, Complete, Fail, Ask, Respond, Execute, EmitCancelled, Turning
  <1>2. k \in Kind /\ ControlOK /\ BusOK /\ out[r] = <<>> /\ LifeOK(r)
    BY <1>1 DEF Kind, Shown, Terminal, RunTypes, Emit, LifeInv
  <1>3. UNCHANGED <<held, stream, reported, lock>>
    BY <1>1 DEF Emit, holdVars
  <1>4. ShownOf(r, Terminal) = {} /\ NoEnd(r) /\ held[Home[r]] = <<>>
        /\ (pc[r] \in Turning => Logged(r, "started"))
        /\ (pc[r] = "ready" => ShownOf(r, {"started"}) = {})
    BY <1>1, <1>2 DEF LifeOK, Before, Turning, SealAt
  <1>5. CASE UNCHANGED storeVars /\ UNCHANGED out /\ pc' = [pc EXCEPT ![r] = "errored"]
    <2>1. UNCHANGED <<log, held, out, stream, reported, lock>>
      BY <1>3, <1>5 DEF storeVars
    <2>2. /\ pc'[r] = "errored"
          /\ \A q \in Run \ {r} : LifeOK(q)'
          /\ Stored(r, Terminal)' = Stored(r, Terminal)
          /\ Logged(r, "started")' = Logged(r, "started")
          /\ ShownOf(r, Terminal)' = ShownOf(r, Terminal)
          /\ ShownOf(r, {"started"})' = ShownOf(r, {"started"})
          /\ NoEnd(r)' = NoEnd(r)
      BY <1>2, <1>5, <2>1, LifeMove
    <2>3. AtMostOne(Stored(r, Terminal))' /\ AtMostOne(ShownOf(r, {"started"}))'
      BY <1>2, <2>2 DEF LifeOK, AtMostOne
    <2>4. LifeOK(r)'
      BY <1>1, <1>2, <1>4, <2>1, <2>2, <2>3 DEF LifeOK, Before, Turning, SealAt
    <2> QED
      BY <2>2, <2>4 DEF LifeInv
  <1>6. CASE /\ Persist(r, r, k) /\ pc' = [pc EXCEPT ![r] = then]
             /\ out' = IF k \in Shown THEN [out EXCEPT ![r] = <<Ev(r, k)>>] ELSE out
    <2> DEFINE es == IF k \in Shown THEN <<Ev(r, k)>> ELSE <<>>
    <2>1. out' = [out EXCEPT ![r] = es]
      BY <1>2, <1>6 DEF BusOK
    <2>2. log' = [log EXCEPT ![Home[r]] = Append(@, Ev(r, k))]
      BY <1>6 DEF Persist
    <2> HIDE DEF es
    <2>3. /\ pc'[r] = then /\ out'[r] = es
          /\ \A q \in Run \ {r} : LifeOK(q)'
          /\ Stored(r, Terminal)' = Stored(r, Terminal)
               \union (IF k \in Terminal THEN {Len(log[Home[r]]) + 1} ELSE {})
          /\ Logged(r, "started")' <=> Logged(r, "started") \/ k = "started"
          /\ ShownOf(r, Terminal)' = ShownOf(r, Terminal)
          /\ ShownOf(r, {"started"})' = ShownOf(r, {"started"})
          /\ AtMostOne(ShownOf(r, {"started"}))'
      BY <1>2, <1>3, <1>6, <2>1, <2>2, LifeEmit
    <2>4. AtMostOne(Stored(r, Terminal))'
      BY <1>4, <2>3 DEF NoEnd, AtMostOne
    <2>5. CASE k \in Terminal
      <3>1. k # "synthetic" /\ es = <<Ev(r, k)>> /\ Head(es).kind = k
        BY <1>1, <2>5 DEF es, Shown, Ev
      <3>2. then \in {"completed", "errored"}
        BY <1>1, <2>5 DEF Terminal
      <3>4. Ended(r)'
        <4>1. IsEnd(r, out[r])'
          BY <2>3, <2>5, <3>1 DEF IsEnd
        <4>2. Head(out'[r]).kind # "synthetic" /\ held'[Home[r]] = <<>>
          BY <1>3, <1>4, <2>3, <3>1
        <4> QED
          BY <4>1, <4>2 DEF Ended
      <3>3. LifeOK(r)'
        BY <1>4, <2>3, <2>4, <3>2, <3>4 DEF LifeOK, Before, Turning, SealAt
      <3> QED
        BY <2>3, <3>3 DEF LifeInv
    <2>6. CASE k = "started"
      <3>1. es = <<Ev(r, "started")>> /\ then \in Turning /\ k \notin Terminal /\ pc[r] = "ready"
        BY <1>1, <2>6 DEF es, Shown, Terminal, Turning
      <3>2. NoEnd(r)'
        BY <1>3, <1>4, <2>3, <3>1 DEF NoEnd
      <3>3. LifeOK(r)'
        BY <1>3, <1>4, <2>3, <2>4, <2>6, <3>1, <3>2 DEF LifeOK, Before, Turning, SealAt, Ev
      <3> QED
        BY <2>3, <3>3 DEF LifeInv
    <2>7. CASE k \in {"asked", "responded", "executed"}
      <3>1. es = <<>> /\ then \in Turning /\ k \notin Terminal /\ pc[r] \in Turning
        BY <1>1, <2>7 DEF es, Shown, Terminal
      <3>2. NoEnd(r)'
        BY <1>3, <1>4, <2>3, <3>1 DEF NoEnd
      <3>3. LifeOK(r)'
        BY <1>3, <1>4, <2>3, <2>4, <3>1, <3>2 DEF LifeOK, Before, Turning, SealAt
      <3> QED
        BY <2>3, <3>3 DEF LifeInv
    <2> QED
      BY <1>1, <2>5, <2>6, <2>7 DEF Terminal
  <1> QED
    BY <1>1, <1>5, <1>6 DEF Emit, Goto

LEMMA LifeSeal ==
  ASSUME RunTypes, OneRunPerSession, FreeInv, LifeInv, NEW r \in Run,
         SealStarted(r) \/ SealFailed(r) \/ SealSynthetic(r)
  PROVE  LifeInv'
  <1>1. ControlOK /\ BusOK /\ LifeOK(r) /\ pc[r] \in SealAt
        /\ UNCHANGED <<held, stream, reported, lock>>
    BY DEF RunTypes, LifeInv, SealAt, SealStarted, SealFailed, SealSynthetic, busVars, holdVars
  <1>2. /\ ShownOf(r, Terminal) = {} /\ NoEnd(r) /\ held[Home[r]] = <<>> /\ out[r] = <<>>
        /\ (pc[r] \in {"opening", "opened"} => ShownOf(r, {"started"}) = {})
    BY <1>1 DEF LifeOK, SealAt, Before, Turning
  <1>3. CASE SealStarted(r)
    <2>1. /\ "started" \in Kind /\ out' = [out EXCEPT ![r] = <<>>]
          /\ pc[r] = "opening" /\ pc' = [pc EXCEPT ![r] = "opened"]
          /\ log' = [log EXCEPT ![Home[r]] = Append(@, Ev(r, "started"))]
      BY <1>1, <1>2, <1>3 DEF SealStarted, Persist, Goto, Kind, Shown, busVars, BusOK
    <2>2. /\ pc'[r] = "opened" /\ out'[r] = <<>>
          /\ \A q \in Run \ {r} : LifeOK(q)'
          /\ Stored(r, Terminal)' = Stored(r, Terminal)
               \union (IF "started" \in Terminal THEN {Len(log[Home[r]]) + 1} ELSE {})
          /\ ShownOf(r, Terminal)' = ShownOf(r, Terminal)
          /\ ShownOf(r, {"started"})' = ShownOf(r, {"started"})
          /\ AtMostOne(ShownOf(r, {"started"}))'
      BY <1>1, <2>1, LifeEmit
    <2>3. AtMostOne(Stored(r, Terminal))' /\ NoEnd(r)'
      BY <1>1, <1>2, <2>2 DEF NoEnd, AtMostOne, Terminal
    <2>4. LifeOK(r)'
      BY <1>1, <1>2, <2>1, <2>2, <2>3 DEF LifeOK, Before, Turning, SealAt
    <2> QED
      BY <2>2, <2>4 DEF LifeInv
  <1>4. CASE SealFailed(r)
    <2> DEFINE es == IF pc[r] = "opened" THEN <<Ev(r, "started"), Ev(r, "failed")>>
                                         ELSE <<Ev(r, "failed")>>
    <2>1. out' = [out EXCEPT ![r] = es]
      BY <1>4 DEF SealFailed
    <2> HIDE DEF es
    <2>2. /\ "failed" \in Kind /\ "failed" \in Terminal
          /\ pc' = [pc EXCEPT ![r] = "clearing"]
          /\ log' = [log EXCEPT ![Home[r]] = Append(@, Ev(r, "failed"))]
      BY <1>4 DEF SealFailed, Persist, Goto, Kind, Shown, Terminal
    <2>3. /\ pc'[r] = "clearing" /\ out'[r] = es
          /\ \A q \in Run \ {r} : LifeOK(q)'
          /\ Stored(r, Terminal)' = Stored(r, Terminal)
               \union (IF "failed" \in Terminal THEN {Len(log[Home[r]]) + 1} ELSE {})
          /\ ShownOf(r, Terminal)' = ShownOf(r, Terminal)
          /\ ShownOf(r, {"started"})' = ShownOf(r, {"started"})
          /\ AtMostOne(ShownOf(r, {"started"}))'
      BY <1>1, <2>1, <2>2, LifeEmit
    <2>4. AtMostOne(Stored(r, Terminal))'
      BY <1>2, <2>3 DEF NoEnd, AtMostOne
    <2>5. Closed(r)'
      BY <1>1, <1>2, <2>2, <2>3 DEF Closed, IsEnd, es
    <2>6. LifeOK(r)'
      BY <1>2, <2>3, <2>4, <2>5 DEF LifeOK, Before, Turning, SealAt
    <2> QED
      BY <2>3, <2>6 DEF LifeInv
  <1>5. CASE SealSynthetic(r)
    <2>1. /\ \A q \in Run : pc'[q] = IF q = r THEN "clearing" ELSE pc[q]
          /\ \A q \in Run : out'[q] = IF q = r THEN <<Ev(r, "synthetic")>> ELSE out[q]
          /\ log' = log
      BY <1>1, <1>5 DEF SealSynthetic, Goto, ControlOK, BusOK, storeVars
    <2>2. ASSUME NEW q \in Run
          PROVE  /\ Stored(q, Terminal)' = Stored(q, Terminal)
                 /\ Logged(q, "started")' = Logged(q, "started")
                 /\ ShownOf(q, Terminal)' = ShownOf(q, Terminal)
                 /\ ShownOf(q, {"started"})' = ShownOf(q, {"started"})
      BY <1>1, <2>1 DEF Stored, Logged, ShownOf, Places
    <2>3. ASSUME NEW q \in Run \ {r} PROVE LifeOK(q)'
      BY <1>1, <2>1, <2>2, LifeFrame DEF LifeInv
    <2>4. Closed(r)'
      BY <1>1, <1>2, <2>1 DEF Closed, IsEnd, Ev, Terminal
    <2>5. AtMostOne(Stored(r, Terminal))' /\ AtMostOne(ShownOf(r, {"started"}))'
      BY <1>1, <2>2 DEF LifeOK, AtMostOne
    <2>6. LifeOK(r)'
      BY <1>2, <2>1, <2>2, <2>4, <2>5 DEF LifeOK, Before, Turning, SealAt
    <2> QED
      BY <2>3, <2>6 DEF LifeInv
  <1> QED
    BY <1>3, <1>4, <1>5

\* A run that has the slot is alone with what its session holds back.
LEMMA HeldElsewhere ==
  ASSUME OneRunPerSession, NEW r \in Run, pc[r] \in Deferring, NEW q \in Run, q # r,
         pc[q] \in Deferring
  PROVE  Home[q] # Home[r]
  BY DEF OneRunPerSession, Deferring, Holding

\* What a run publishes next: its start goes to the stream, its terminal is
\* held back.
LEMMA NextKind ==
  ASSUME RunTypes, FreeInv, LifeInv, NEW r \in Run, Publish(r)
  PROVE  /\ held[Home[r]] = <<>>
         /\ \/ /\ Head(out[r]) = Ev(r, "started") /\ ShownOf(r, {"started"}) = {}
               /\ \/ pc[r] \in Turning /\ Tail(out[r]) = <<>>
                  \/ pc[r] = "clearing" /\ Tail(out[r]) = <<Ev(r, "failed")>>
            \/ /\ \E k \in Terminal :
                    /\ Head(out[r]) = Ev(r, k)
                    /\ pc[r] # "clearing" => k # "synthetic"
               /\ pc[r] \in {"completed", "errored", "clearing"} /\ Tail(out[r]) = <<>>
  <1>1. LifeOK(r) /\ ControlOK /\ out[r] # <<>> /\ pc[r] \notin {"flushing", "publishing"}
    BY DEF LifeInv, RunTypes, Publish
  <1>2. pc[r] \in Turning \union {"completed", "errored", "clearing"}
    BY <1>1, PlaceCases DEF LifeOK
  <1>3. ASSUME NEW k \in Terminal, out[r] = <<Ev(r, k)>>
        PROVE  Head(out[r]) = Ev(r, k) /\ Tail(out[r]) = <<>>
    BY <1>3
  <1>4. CASE pc[r] \in Turning
    <2>1. out[r] = <<Ev(r, "started")>> /\ ShownOf(r, {"started"}) = {} /\ held[Home[r]] = <<>>
      BY <1>1, <1>4 DEF LifeOK
    <2> QED
      BY <1>4, <2>1
  <1>5. CASE pc[r] \in {"completed", "errored"}
    <2>1. Ended(r)
      BY <1>1, <1>5 DEF LifeOK
    <2>2. held[Home[r]] = <<>> /\ \E k \in Terminal : out[r] = <<Ev(r, k)>> /\ Head(out[r]).kind # "synthetic"
      BY <1>1, <2>1 DEF Ended, IsEnd
    <2>3. PICK k \in Terminal : out[r] = <<Ev(r, k)>> /\ Head(out[r]).kind # "synthetic"
      BY <2>2
    <2>4. k # "synthetic"
      BY <1>3, <2>3 DEF Ev
    <2> QED
      BY <1>3, <1>5, <2>2, <2>3, <2>4
  <1>6. CASE pc[r] = "clearing"
    <2>1. Closed(r)
      BY <1>1, <1>6 DEF LifeOK
    <2>2. CASE IsEnd(r, out[r]) /\ held[Home[r]] = <<>>
      <3>1. PICK k \in Terminal : out[r] = <<Ev(r, k)>>
        BY <2>2 DEF IsEnd
      <3> QED
        BY <1>3, <1>6, <2>2, <3>1
    <2>3. CASE /\ out[r] = <<Ev(r, "started"), Ev(r, "failed")>>
               /\ held[Home[r]] = <<>> /\ ShownOf(r, {"started"}) = {}
      BY <1>6, <2>3
    <2> QED
      BY <1>1, <2>1, <2>2, <2>3 DEF Closed
  <1> QED
    BY <1>2, <1>4, <1>5, <1>6

LEMMA LifePublish ==
  ASSUME RunTypes, OneRunPerSession, FreeInv, LifeInv, NEW r \in Run, Publish(r)
  PROVE  LifeInv'
  <1>1. ControlOK /\ BusOK /\ LifeOK(r) /\ held[Home[r]] = <<>> /\ Home[r] \in Session
    BY NextKind, EventFacts DEF RunTypes, LifeInv
  <1>2. pc[r] \in Deferring /\ Home[r] \in deferred
    BY NextIsOwn DEF RunTypes, FreeInv, HoldIsOn
  <1>3. /\ pc' = pc /\ log' = log /\ lock' = lock
        /\ \A q \in Run : out'[q] = IF q = r THEN Tail(out[r]) ELSE out[q]
        /\ \A q \in Run : q # r => (q \in reported' <=> q \in reported)
    BY <1>1 DEF Publish, BusOK, storeVars
  <1>4. ASSUME NEW q \in Run
        PROVE  /\ Stored(q, Terminal)' = Stored(q, Terminal)
               /\ Logged(q, "started")' = Logged(q, "started")
    BY <1>3 DEF Stored, Logged
  <1>5. CASE Head(out[r]) = Ev(r, "started")
    <2>1. /\ stream' = [stream EXCEPT ![Home[r]] = Append(@, Ev(r, "started"))]
          /\ held' = held /\ reported' = reported
          /\ "started" \in Kind /\ "started" \notin Terminal
      <3>1. Dispatch(Ev(r, "started")) /\ Ev(r, "started").run = r /\ Ev(r, "started").kind = "started"
        BY <1>5 DEF Publish, Ev
      <3>2. "started" \in Kind /\ "started" \notin Terminal
        BY DEF Kind, Shown, Terminal
      <3>3. reported' = reported
        BY <1>5, <3>1, <3>2 DEF Publish
      <3> QED
        BY <1>1, <3>1, <3>2, <3>3 DEF Dispatch
    <2>2. ASSUME NEW q \in Run
          PROVE  /\ ShownOf(q, Terminal)' = ShownOf(q, Terminal)
                 /\ ShownOf(q, {"started"})' = ShownOf(q, {"started"})
                      \union (IF q = r THEN {Len(stream[Home[r]]) + 1} ELSE {})
      <3>1. /\ ShownOf(q, Terminal)' = ShownOf(q, Terminal)
                 \union (IF q = r /\ "started" \in Terminal THEN {Len(stream[Home[r]]) + 1} ELSE {})
            /\ ShownOf(q, {"started"})' = ShownOf(q, {"started"})
                 \union (IF q = r /\ "started" = "started" THEN {Len(stream[Home[r]]) + 1} ELSE {})
        BY <1>1, <2>1, ShowPlaces
      <3> QED
        BY <2>1, <3>1
    <2>3. ASSUME NEW q \in Run, q # r PROVE LifeOK(q)'
      BY <1>3, <1>4, <2>1, <2>2, <2>3, LifeFrame DEF LifeInv
    <2>4. /\ ShownOf(r, {"started"}) = {}
          /\ \/ pc[r] \in Turning /\ Tail(out[r]) = <<>>
             \/ pc[r] = "clearing" /\ Tail(out[r]) = <<Ev(r, "failed")>>
      <3>1. \A k \in Terminal : Head(out[r]) # Ev(r, k)
        BY <1>5 DEF Ev, Terminal
      <3> QED
        BY <3>1, NextKind
    <2>5. AtMostOne(Stored(r, Terminal))' /\ AtMostOne(ShownOf(r, {"started"}))'
      BY <1>1, <1>4, <2>2, <2>4 DEF LifeOK, AtMostOne
    <2>6. CASE pc[r] \in Turning /\ Tail(out[r]) = <<>>
      <3>1. ShownOf(r, Terminal) = {} /\ NoEnd(r) /\ Logged(r, "started")
        BY <1>1, <2>6 DEF LifeOK, Before, Turning, SealAt
      <3>2. NoEnd(r)' /\ out'[r] = <<>> /\ held'[Home[r]] = <<>> /\ pc'[r] \in Turning
        BY <1>1, <1>3, <1>4, <2>1, <2>6, <3>1 DEF NoEnd
      <3>3. LifeOK(r)'
        BY <1>4, <2>2, <2>5, <3>1, <3>2 DEF LifeOK, Before, Turning, SealAt
      <3> QED
        BY <2>3, <3>3 DEF LifeInv
    <2>7. CASE pc[r] = "clearing" /\ Tail(out[r]) = <<Ev(r, "failed")>>
      <3>1. ShownOf(r, Terminal) = {}
        BY <1>1, <2>7 DEF LifeOK
      <3>2. Closed(r)'
        BY <1>1, <1>3, <2>1, <2>7 DEF Closed, IsEnd, Terminal
      <3>3. LifeOK(r)'
        BY <1>3, <2>2, <2>5, <2>7, <3>1, <3>2 DEF LifeOK, Before, Turning, SealAt
      <3> QED
        BY <2>3, <3>3 DEF LifeInv
    <2> QED
      BY <2>4, <2>6, <2>7
  <1>6. ASSUME NEW k \in Terminal, Head(out[r]) = Ev(r, k), pc[r] # "clearing" => k # "synthetic",
               pc[r] \in {"completed", "errored", "clearing"}, Tail(out[r]) = <<>>
        PROVE  LifeInv'
    <2>1. /\ held' = [held EXCEPT ![Home[r]] = <<Ev(r, k)>>] /\ stream' = stream
          /\ pc[r] # "clearing" => r \in reported'
      <3>1. Dispatch(Ev(r, k)) /\ Ev(r, k).run = r /\ Ev(r, k).kind = k
        BY <1>6 DEF Publish, Ev
      <3>2. pc[r] # "clearing" => r \in reported'
        BY <1>6, <3>1 DEF Publish
      <3> QED
        BY <1>1, <1>2, <3>1, <3>2 DEF Dispatch
    <2>2. ASSUME NEW q \in Run
          PROVE  /\ ShownOf(q, Terminal)' = ShownOf(q, Terminal)
                 /\ ShownOf(q, {"started"})' = ShownOf(q, {"started"})
      BY <2>1 DEF ShownOf, Places
    <2>3. ASSUME NEW q \in Run, q # r PROVE LifeOK(q)'
      <3>1. pc[q] \in Deferring => held'[Home[q]] = held[Home[q]]
        BY <1>2, <2>1, <2>3, HeldElsewhere
      <3> QED
        BY <1>3, <1>4, <2>2, <2>3, <3>1, LifeFrame DEF LifeInv
    <2>4. /\ out'[r] = <<>> /\ IsEnd(r, held[Home[r]])' /\ pc'[r] = pc[r]
          /\ AtMostOne(Stored(r, Terminal))' /\ AtMostOne(ShownOf(r, {"started"}))'
      <3>1. held'[Home[r]] = <<Ev(r, k)>>
        BY <1>1, <2>1 DEF BusOK
      <3> QED
        BY <1>1, <1>3, <1>4, <1>6, <2>2, <3>1 DEF LifeOK, AtMostOne, IsEnd
    <2>5. pc[r] # "clearing" => Ended(r)'
      BY <2>1, <2>4 DEF Ended
    <2>6. Closed(r)'
      BY <2>4 DEF Closed
    <2>7. LifeOK(r)'
      BY <1>1, <1>6, <2>2, <2>4, <2>5, <2>6 DEF LifeOK, Before, Turning, SealAt
    <2> QED
      BY <2>3, <2>7 DEF LifeInv
  <1> QED
    BY <1>5, <1>6, NextKind

\* The flush: what is held goes out and is published under the lock.
LEMMA LifeFlush ==
  ASSUME RunTypes, OneRunPerSession, FreeInv, LifeInv, NEW r \in Run,
         FlushTake(r) \/ FlushPublish(r) \/ ClearReported(r)
  PROVE  LifeInv'
  <1>1. ControlOK /\ BusOK /\ LifeOK(r) /\ Home[r] \in Session /\ log' = log
    BY EventFacts DEF RunTypes, LifeInv, FlushTake, FlushPublish, ClearReported, storeVars
  <1>2. ASSUME NEW q \in Run
        PROVE  /\ Stored(q, Terminal)' = Stored(q, Terminal)
               /\ Logged(q, "started")' = Logged(q, "started")
    BY <1>1 DEF Stored, Logged
  <1>3. CASE FlushTake(r)
    <2>1. /\ \A q \in Run : pc'[q] = IF q = r THEN "publishing" ELSE pc[q]
          /\ \A q \in Run : out'[q] = IF q = r THEN held[Home[r]] ELSE out[q]
          /\ held' = [held EXCEPT ![Home[r]] = <<>>]
          /\ UNCHANGED <<stream, reported>> /\ lock = Nobody /\ lock' = r
          /\ pc[r] = "flushing"
      BY <1>1, <1>3 DEF FlushTake, Goto, ControlOK, BusOK
    <2>2. ASSUME NEW q \in Run
          PROVE  /\ ShownOf(q, Terminal)' = ShownOf(q, Terminal)
                 /\ ShownOf(q, {"started"})' = ShownOf(q, {"started"})
      BY <2>1 DEF ShownOf, Places
    <2>3. ASSUME NEW q \in Run, q # r PROVE LifeOK(q)'
      <3>1. pc[q] \in Deferring => held'[Home[q]] = held[Home[q]]
        <4>1. pc[r] \in Deferring
          BY <2>1 DEF Deferring, Closing
        <4> QED
          BY <2>1, <2>3, <4>1, HeldElsewhere
      <3>2. pc[q] # "publishing"
        BY <2>1, <2>3, WriterAssumption DEF LifeInv, LifeOK
      <3> QED
        BY <1>2, <2>1, <2>2, <2>3, <3>1, <3>2, LifeFrame DEF LifeInv
    <2>4. IsEnd(r, held[Home[r]]) /\ ShownOf(r, Terminal) = {}
      BY <1>1, <2>1 DEF LifeOK
    <2>5. IsEnd(r, out[r])'
      BY <2>1, <2>4 DEF IsEnd
    <2>6. AtMostOne(Stored(r, Terminal))' /\ AtMostOne(ShownOf(r, {"started"}))'
      BY <1>1, <1>2, <2>2 DEF LifeOK, AtMostOne
    <2>7. LifeOK(r)'
      BY <2>1, <2>2, <2>4, <2>5, <2>6 DEF LifeOK, Before, Turning, SealAt
    <2> QED
      BY <2>3, <2>7 DEF LifeInv
  <1>4. CASE FlushPublish(r)
    <2>1. /\ \A q \in Run : pc'[q] = IF q = r THEN "flushed" ELSE pc[q]
          /\ \A q \in Run : out'[q] = IF q = r THEN <<>> ELSE out[q]
          /\ stream' = [stream EXCEPT ![Home[r]] = @ \o out[r]]
          /\ UNCHANGED <<held, reported>>
          /\ pc[r] = "publishing"
      BY <1>1, <1>4 DEF FlushPublish, Goto, ControlOK, BusOK
    <2>2. PICK k \in Terminal : out[r] = <<Ev(r, k)>>
      BY <1>1, <2>1 DEF LifeOK, IsEnd
    <2>3. stream' = [stream EXCEPT ![Home[r]] = Append(@, Ev(r, k))]
      <3>1. stream[Home[r]] \o <<Ev(r, k)>> = Append(stream[Home[r]], Ev(r, k))
        <4>1. stream[Home[r]] \in Seq(Event)
          BY <1>1 DEF BusOK
        <4> QED
          BY <4>1
      <3> QED
        BY <2>1, <2>2, <3>1
    <2>4. k \in Kind /\ k # "started"
      BY <2>2 DEF Terminal, Kind, Shown
    <2>5. ASSUME NEW q \in Run
          PROVE  /\ ShownOf(q, Terminal)' = ShownOf(q, Terminal)
                      \union (IF q = r THEN {Len(stream[Home[r]]) + 1} ELSE {})
                 /\ ShownOf(q, {"started"})' = ShownOf(q, {"started"})
      <3>1. /\ ShownOf(q, Terminal)' = ShownOf(q, Terminal)
                 \union (IF q = r /\ k \in Terminal THEN {Len(stream[Home[r]]) + 1} ELSE {})
            /\ ShownOf(q, {"started"})' = ShownOf(q, {"started"})
                 \union (IF q = r /\ k = "started" THEN {Len(stream[Home[r]]) + 1} ELSE {})
        BY <1>1, <2>3, <2>4, ShowPlaces
      <3> QED
        BY <2>2, <2>4, <3>1
    <2>6. ASSUME NEW q \in Run, q # r PROVE LifeOK(q)'
      <3>1. pc[q] # "publishing"
        BY <1>1, <2>1, <2>6 DEF LifeInv, LifeOK
      <3> QED
        BY <1>2, <2>1, <2>5, <2>6, <3>1, LifeFrame DEF LifeInv
    <2>7. AtMostOne(Stored(r, Terminal))' /\ AtMostOne(ShownOf(r, {"started"}))'
      BY <1>1, <1>2, <2>5 DEF LifeOK, AtMostOne
    <2>8. ShownOf(r, Terminal)' = {Len(stream[Home[r]]) + 1}
      BY <1>1, <2>1, <2>5 DEF LifeOK
    <2>9. LifeOK(r)'
      BY <2>1, <2>7, <2>8 DEF LifeOK, Before, Turning, SealAt
    <2> QED
      BY <2>6, <2>9 DEF LifeInv
  <1>5. CASE ClearReported(r)
    <2>1. /\ \A q \in Run : pc'[q] = IF q = r THEN "done" ELSE pc[q]
          /\ UNCHANGED <<held, out, stream, lock>> /\ reported' = reported \ {r}
          /\ pc[r] = "flushed"
      BY <1>1, <1>5 DEF ClearReported, Goto, ControlOK, holdVars
    <2>2. ASSUME NEW q \in Run
          PROVE  /\ ShownOf(q, Terminal)' = ShownOf(q, Terminal)
                 /\ ShownOf(q, {"started"})' = ShownOf(q, {"started"})
      BY <2>1 DEF ShownOf, Places
    <2>3. ASSUME NEW q \in Run, q # r PROVE LifeOK(q)'
      BY <1>2, <2>1, <2>2, <2>3, LifeFrame DEF LifeInv
    <2>4. AtMostOne(Stored(r, Terminal))' /\ AtMostOne(ShownOf(r, {"started"}))'
      BY <1>1, <1>2, <2>2 DEF LifeOK, AtMostOne
    <2>5. LifeOK(r)'
      BY <1>1, <2>1, <2>2, <2>4 DEF LifeOK, Before, Turning, SealAt
    <2> QED
      BY <2>3, <2>5 DEF LifeInv
  <1> QED
    BY <1>3, <1>4, <1>5

LEMMA LifeStep ==
  ASSUME RunTypes, OneRunPerSession, FreeInv, LifeInv, [RunNext]_vars
  PROVE  LifeInv'
  <1>1. ASSUME UNCHANGED <<pc, held, out, stream, reported, lock>>,
               \A q \in Run : /\ Stored(q, Terminal)' = Stored(q, Terminal)
                              /\ Logged(q, "started")' <=> Logged(q, "started")
        PROVE  LifeInv'
    <2> SUFFICES ASSUME NEW q \in Run PROVE LifeOK(q)'
      BY DEF LifeInv
    <2>1. /\ ShownOf(q, Terminal)' = ShownOf(q, Terminal)
          /\ ShownOf(q, {"started"})' = ShownOf(q, {"started"})
      BY <1>1 DEF ShownOf, Places
    <2> QED
      BY <1>1, <2>1, LifeFrame DEF LifeInv
  <1>2. ASSUME UNCHANGED <<pc, log, held, out, stream, reported, lock>> PROVE LifeInv'
    <2>1. \A q \in Run : /\ Stored(q, Terminal)' = Stored(q, Terminal)
                         /\ Logged(q, "started")' <=> Logged(q, "started")
      BY <1>2 DEF Stored, Logged
    <2> QED
      BY <1>1, <1>2, <2>1
  <1>3. ASSUME NEW c \in Approval, CommandStep(c) PROVE LifeInv'
    <2>1. UNCHANGED <<pc, held, out, stream, reported, lock>>
      BY <1>3 DEF CommandStep, CheckLive, ReadWaiting, ReadTail, SealResponded, SealExecuted,
                  CommandAt, Seal, busVars, holdVars
    <2>2. target[c] \in Run
      BY <1>3 DEF RunTypes, TargetsOK, CommandStep, CheckLive, ReadWaiting, ReadTail,
                  SealResponded, SealExecuted, CommandAt, Seal
    <2>3. \/ log' = log
          \/ \E k \in {"responded", "executed"} :
               log' = [log EXCEPT ![Home[target[c]]] = Append(@, Ev(target[c], k))]
      BY <1>3 DEF CommandStep, CheckLive, ReadWaiting, ReadTail, SealResponded, SealExecuted,
                  CommandAt, Seal, Persist, storeVars
    <2>4. ASSUME NEW k \in {"responded", "executed"}, NEW q \in Run,
                 log' = [log EXCEPT ![Home[target[c]]] = Append(@, Ev(target[c], k))]
          PROVE  /\ Stored(q, Terminal)' = Stored(q, Terminal)
                 /\ Logged(q, "started")' <=> Logged(q, "started")
      <3>1. k \in Kind /\ k \notin Terminal /\ k # "started" /\ StoreOK
        BY DEF Kind, Shown, Terminal, RunTypes
      <3>2. /\ Stored(q, Terminal)' = Stored(q, Terminal)
                 \union (IF q = target[c] /\ k \in Terminal
                           THEN {Len(log[Home[target[c]]]) + 1} ELSE {})
            /\ Logged(q, "started")' <=> Logged(q, "started") \/ (q = target[c] /\ k = "started")
        BY <2>2, <2>4, <3>1, PersistPlaces
      <3> QED
        BY <3>1, <3>2
    <2> QED
      BY <1>1, <1>2, <2>1, <2>3, <2>4
  <1>4. ASSUME NEW r \in Run, RunCancel(r) PROVE LifeInv'
    BY <1>2, <1>4 DEF RunCancel, storeVars, busVars, holdVars
  <1>5. ASSUME NEW c \in Approval, NEW r \in Run, Resolve(c, r) PROVE LifeInv'
    BY <1>2, <1>5 DEF Resolve, storeVars, busVars, holdVars
  <1>6. ASSUME BeginStop \/ StopStep \/ Exited \/ UNCHANGED vars PROVE LifeInv'
    BY <1>2, <1>6 DEF BeginStop, StopStep, CancelAll, Drain, Joined, Stop, Exited, vars, storeVars,
                      busVars, holdVars
  <1>7. ASSUME NEW r \in Run, RunStart(r) \/ RunStep(r) \/ EngineStep(r) PROVE LifeInv'
    <2>1. CASE \/ RunStart(r) \/ Refuse(r) \/ Accept(r) \/ BeginHold(r) \/ EarlyError(r)
               \/ ReadSequence(r) \/ Decide(r) \/ DecideCancelled(r) \/ DecideAnswered(r)
               \/ SeeCancel(r) \/ SealRead(r) \/ Completed(r) \/ ClearRun(r) \/ Remove(r)
      BY <2>1, LifeQuiet
    <2>2. CASE \/ Started(r) \/ Complete(r) \/ Fail(r) \/ Ask(r) \/ Respond(r) \/ Execute(r)
               \/ EmitCancelled(r)
      BY <2>2, LifeEngine
    <2>3. CASE SealStarted(r) \/ SealFailed(r) \/ SealSynthetic(r)
      BY <2>3, LifeSeal
    <2>4. CASE Publish(r)
      BY <2>4, LifePublish
    <2>5. CASE FlushTake(r) \/ FlushPublish(r) \/ ClearReported(r)
      BY <2>5, LifeFlush
    <2> QED
      BY <1>7, <2>1, <2>2, <2>3, <2>4, <2>5 DEF RunStep, EngineStep
  <1> QED
    BY <1>3, <1>4, <1>5, <1>6, <1>7 DEF RunNext

LEMMA LifeInit == RunInit => LifeInv
  <1> SUFFICES ASSUME RunInit, NEW q \in Run PROVE LifeOK(q)
    BY DEF LifeInv
  <1>1. Home[q] \in Session
    BY EventFacts
  <1>2. Stored(q, Terminal) = {} /\ ShownOf(q, Terminal) = {} /\ ShownOf(q, {"started"}) = {}
    BY <1>1 DEF RunInit, Stored, At, ShownOf, Places
  <1> QED
    BY <1>1, <1>2 DEF RunInit, LifeOK, NoEnd, AtMostOne, Before, Turning, SealAt

\* The start and the terminal of every run are where its step says.
LEMMA LifeHolds == RunSpec => []LifeInv
  BY LifeInit, LifeStep, FreeHolds, RunTypesHold, SlotCorrect, PTL DEF RunSpec

LEMMA FewTerminals == LifeInv => OneTerminal
  <1> SUFFICES ASSUME LifeInv, NEW r \in Run
               PROVE  /\ Cardinality(ShownOf(r, Terminal))
                           = IF pc[r] \in {"flushed", "done"} THEN 1 ELSE 0
                      /\ Cardinality(Stored(r, Terminal)) <= 1
    BY DEF OneTerminal, Stored, At
  <1>1. /\ AtMostOne(Stored(r, Terminal))
        /\ IF pc[r] \in {"flushed", "done"} THEN \E i : ShownOf(r, Terminal) = {i}
                                            ELSE ShownOf(r, Terminal) = {}
    BY DEF LifeInv, LifeOK
  <1>2. Cardinality(ShownOf(r, Terminal)) = IF pc[r] \in {"flushed", "done"} THEN 1 ELSE 0
    BY <1>1, FS_EmptySet, FS_Singleton
  <1>3. Stored(r, Terminal) = {} \/ \E i : Stored(r, Terminal) = {i}
    BY <1>1 DEF AtMostOne
  <1>4. Cardinality(Stored(r, Terminal)) \in {0, 1}
    BY <1>3, FS_EmptySet, FS_Singleton
  <1> QED
    BY <1>2, <1>4

\* Every accepted run shows exactly one terminal and the store never has two,
\* for any number of runs, sessions and approvals, whether the engine or the
\* sealing ended it (terminal_reported, seal_run_without_terminal).
THEOREM OneTerminalCorrect == RunSpec => []OneTerminal
  BY LifeHolds, FewTerminals, PTL

-----------------------------------------------------------------------------
(* The turns of a session                                                  *)

\* A turn that has begun in the stream has ended in it, or its run is there.
OpenTurns ==
  \A s \in Session : \A i \in Places(s, {"started"}) :
    /\ Home[stream[s][i].run] = s
    /\ \/ \E k \in Places(s, Terminal) : i < k /\ stream[s][k].run = stream[s][i].run
       \/ pc[stream[s][i].run] \in Deferring \union {"publishing"}

LEMMA TurnsStep ==
  ASSUME RunTypes, OneRunPerSession, FreeInv, LifeInv, OpenTurns, TurnsInOrder, [RunNext]_vars
  PROVE  OpenTurns' /\ TurnsInOrder'
  <1>1. ControlOK /\ BusOK
    BY DEF RunTypes
  <1>2. ASSUME NEW s \in Session
        PROVE  /\ stream[s] \in Seq(Event) /\ DOMAIN stream[s] = 1..Len(stream[s])
               /\ Len(stream[s]) \in Nat
               /\ \A i \in DOMAIN stream[s] : stream[s][i].run \in Run
    BY <1>1, ElementOfSeq, LenProperties, EventFacts DEF BusOK
  \* One event is appended, or the stream is left alone.
  <1>3. ASSUME stream' = stream, \A r \in Run : ~FlushPublish(r)
        PROVE  OpenTurns' /\ TurnsInOrder'
    <2>1. ASSUME NEW q \in Run, pc[q] \in Deferring \union {"publishing"}
          PROVE  pc'[q] \in Deferring \union {"publishing"}
      <3>1. FlushTake(q) => pc'[q] = "publishing"
        BY <1>1 DEF FlushTake, Goto, ControlOK
      <3> QED
        BY <1>1, <1>3, <2>1, <3>1, Moves
    <2>2. \A s, K : Places(s, K)' = Places(s, K)
      BY <1>3 DEF Places
    <2>3. \A s \in Session : \A i \in Places(s, {"started"}) : stream[s][i].run \in Run
      BY <1>2 DEF Places
    <2> QED
      BY <1>3, <2>1, <2>2, <2>3 DEF OpenTurns, TurnsInOrder
  <1>4. ASSUME NEW r \in Run, NEW k \in Kind, Home[r] \in Session,
               stream' = [stream EXCEPT ![Home[r]] = Append(@, Ev(r, k))]
        PROVE  /\ \A s \in Session \ {Home[r]} : stream'[s] = stream[s]
               /\ DOMAIN stream'[Home[r]] = DOMAIN stream[Home[r]] \union {Len(stream[Home[r]]) + 1}
               /\ \A i \in DOMAIN stream[Home[r]] : stream'[Home[r]][i] = stream[Home[r]][i]
               /\ stream'[Home[r]][Len(stream[Home[r]]) + 1] = Ev(r, k)
               /\ \A i \in DOMAIN stream[Home[r]] : i < Len(stream[Home[r]]) + 1
    <2>1. stream'[Home[r]] = Append(stream[Home[r]], Ev(r, k)) /\ Ev(r, k) \in Event
      BY <1>1, <1>4, EventFacts DEF BusOK
    <2>2. /\ DOMAIN stream'[Home[r]] = 1..(Len(stream[Home[r]]) + 1)
          /\ \A j \in 1..Len(stream[Home[r]]) : stream'[Home[r]][j] = stream[Home[r]][j]
          /\ stream'[Home[r]][Len(stream[Home[r]]) + 1] = Ev(r, k)
      BY <1>2, <1>4, <2>1, AppendProperties, LenProperties
    <2>3. \A s \in Session \ {Home[r]} : stream'[s] = stream[s]
      BY <1>1, <1>4 DEF BusOK
    <2> QED
      BY <1>2, <1>4, <2>2, <2>3
  <1>5. ASSUME NEW r \in Run, Publish(r), stream' # stream
        PROVE  OpenTurns' /\ TurnsInOrder'
    <2> DEFINE n == Len(stream[Home[r]]) + 1
    <2>1. Home[r] \in Session /\ pc[r] \in Deferring /\ Home[r] \in deferred
          /\ lock = Nobody /\ pc' = pc
      BY <1>1, <1>5, NextIsOwn, EventFacts DEF FreeInv, HoldIsOn, Publish
    <2>2. /\ Head(out[r]) = Ev(r, "started") /\ ShownOf(r, {"started"}) = {}
          /\ stream' = [stream EXCEPT ![Home[r]] = Append(@, Ev(r, "started"))]
      <3>1. Dispatch(Head(out[r])) /\ held[Home[r]] = <<>>
        BY <1>5, NextKind DEF Publish
      <3>2. ASSUME NEW k \in Terminal, Head(out[r]) = Ev(r, k) PROVE FALSE
        <4>1. Dispatch(Ev(r, k)) /\ Ev(r, k).run = r /\ Ev(r, k).kind = k
          BY <3>1, <3>2 DEF Ev
        <4> QED
          BY <1>5, <2>1, <3>1, <4>1 DEF Dispatch
      <3>3. Head(out[r]) = Ev(r, "started") /\ ShownOf(r, {"started"}) = {}
        BY <1>5, <3>2, NextKind
      <3> QED
        <4>1. /\ Dispatch(Ev(r, "started"))
              /\ Ev(r, "started").run = r /\ Ev(r, "started").kind = "started"
          BY <3>1, <3>3 DEF Ev
        <4> QED
          BY <1>5, <3>1, <3>3, <4>1 DEF Dispatch
    <2>3. /\ \A s \in Session \ {Home[r]} : stream'[s] = stream[s]
          /\ DOMAIN stream'[Home[r]] = DOMAIN stream[Home[r]] \union {n}
          /\ \A i \in DOMAIN stream[Home[r]] : stream'[Home[r]][i] = stream[Home[r]][i]
          /\ stream'[Home[r]][n] = Ev(r, "started")
          /\ \A i \in DOMAIN stream[Home[r]] : i < n
      <3>1. "started" \in Kind
        BY DEF Kind, Shown
      <3> QED
        BY <1>4, <2>1, <2>2, <3>1
    <2> HIDE DEF n
    <2>4. /\ Places(Home[r], Terminal)' = Places(Home[r], Terminal)
          /\ Places(Home[r], {"started"})' = Places(Home[r], {"started"}) \union {n}
      BY <2>3 DEF Places, Ev, Terminal
    \* Whatever began before in this session has ended.
    <2>5. ASSUME NEW i \in Places(Home[r], {"started"})
          PROVE  \E k \in Places(Home[r], Terminal) :
                   i < k /\ stream[Home[r]][k].run = stream[Home[r]][i].run
      <3> DEFINE q == stream[Home[r]][i].run
      <3>1. q \in Run /\ i \in DOMAIN stream[Home[r]] /\ Home[q] = Home[r]
        BY <1>2, <2>1 DEF OpenTurns, Places
      <3>2. q # r
        BY <2>2, <3>1 DEF ShownOf
      <3>3. pc[q] \notin Deferring
        BY <2>1, <3>1, <3>2, HeldElsewhere
      <3>4. pc[q] # "publishing"
        BY <2>1, <3>1, WriterAssumption DEF LifeInv, LifeOK
      <3> QED
        BY <2>1, <3>3, <3>4 DEF OpenTurns
    <2>6. OpenTurns'
      <3> SUFFICES ASSUME NEW s \in Session, NEW i \in Places(s, {"started"})'
                   PROVE  /\ Home[stream'[s][i].run] = s
                          /\ \/ \E k \in Places(s, Terminal)' :
                                  i < k /\ stream'[s][k].run = stream'[s][i].run
                             \/ pc'[stream'[s][i].run] \in Deferring \union {"publishing"}
        BY DEF OpenTurns
      <3>1. CASE s # Home[r]
        BY <2>1, <2>3, <3>1 DEF OpenTurns, Places
      <3>2. CASE s = Home[r] /\ i \in Places(s, {"started"})
        <4>1. PICK k \in Places(s, Terminal) : i < k /\ stream[s][k].run = stream[s][i].run
          BY <2>5, <3>2
        <4>2. i \in DOMAIN stream[s] /\ k \in DOMAIN stream[s] /\ Home[stream[s][i].run] = s
          BY <3>2 DEF Places, OpenTurns
        <4> QED
          BY <2>3, <2>4, <3>2, <4>1, <4>2
      <3>3. CASE s = Home[r] /\ i = n
        BY <2>1, <2>3, <3>3 DEF Ev
      <3> QED
        BY <2>4, <3>1, <3>2, <3>3
    <2>7. TurnsInOrder'
      <3> SUFFICES ASSUME NEW s \in Session, NEW i \in Places(s, {"started"})',
                          NEW j \in Places(s, {"started"})', i < j
                   PROVE  \E k \in Places(s, Terminal)' :
                            i < k /\ k < j /\ stream'[s][k].run = stream'[s][i].run
        BY DEF TurnsInOrder
      <3>1. CASE s # Home[r]
        BY <2>3, <3>1 DEF TurnsInOrder, Places
      <3>2. CASE s = Home[r] /\ i \in Places(s, {"started"}) /\ j = n
        <4>1. PICK k \in Places(s, Terminal) : i < k /\ stream[s][k].run = stream[s][i].run
          BY <2>5, <3>2
        <4>2. i \in DOMAIN stream[s] /\ k \in DOMAIN stream[s]
          BY <3>2 DEF Places
        <4> QED
          BY <2>3, <2>4, <3>2, <4>1, <4>2
      <3>3. CASE s = Home[r] /\ i \in Places(s, {"started"}) /\ j \in Places(s, {"started"})
        <4>1. PICK k \in Places(s, Terminal) :
                i < k /\ k < j /\ stream[s][k].run = stream[s][i].run
          BY <3>3 DEF TurnsInOrder
        <4>2. i \in DOMAIN stream[s] /\ k \in DOMAIN stream[s]
          BY <3>3 DEF Places
        <4> QED
          BY <2>3, <2>4, <3>3, <4>1, <4>2
      <3>4. CASE s = Home[r] /\ i = n
        <4>1. j = n \/ j < n
          BY <2>3, <2>4, <3>4 DEF Places
        <4>2. n \in Nat
          BY <1>2, <2>1 DEF n
        <4>3. j \in Nat
          BY <1>2, <2>1, <2>4, <3>4, <4>2 DEF Places
        <4> QED
          BY <3>4, <4>1, <4>2, <4>3
      <3> QED
        BY <2>4, <3>1, <3>2, <3>3, <3>4
    <2> QED
      BY <2>6, <2>7
  <1>6. ASSUME NEW r \in Run, FlushPublish(r)
        PROVE  OpenTurns' /\ TurnsInOrder'
    <2> DEFINE n == Len(stream[Home[r]]) + 1
    <2>1. Home[r] \in Session /\ pc[r] = "publishing"
          /\ \A q \in Run : q # r => pc'[q] = pc[q]
      BY <1>1, <1>6, EventFacts DEF FlushPublish, Goto, ControlOK
    <2>2. PICK k \in Terminal : out[r] = <<Ev(r, k)>>
      BY <2>1 DEF LifeInv, LifeOK, IsEnd
    <2>3. k \in Kind /\ k # "started"
      BY <2>2 DEF Terminal, Kind, Shown
    <2>4. stream' = [stream EXCEPT ![Home[r]] = Append(@, Ev(r, k))]
      <3>1. stream[Home[r]] \in Seq(Event)
        BY <1>2, <2>1
      <3>2. stream[Home[r]] \o <<Ev(r, k)>> = Append(stream[Home[r]], Ev(r, k))
        BY <3>1
      <3> QED
        BY <1>6, <2>2, <3>2 DEF FlushPublish
    <2>5. /\ \A s \in Session \ {Home[r]} : stream'[s] = stream[s]
          /\ DOMAIN stream'[Home[r]] = DOMAIN stream[Home[r]] \union {n}
          /\ \A i \in DOMAIN stream[Home[r]] : stream'[Home[r]][i] = stream[Home[r]][i]
          /\ stream'[Home[r]][n] = Ev(r, k)
          /\ \A i \in DOMAIN stream[Home[r]] : i < n
      BY <1>4, <2>1, <2>3, <2>4
    <2> HIDE DEF n
    <2>6. /\ Places(Home[r], Terminal)' = Places(Home[r], Terminal) \union {n}
          /\ Places(Home[r], {"started"})' = Places(Home[r], {"started"})
      BY <2>2, <2>3, <2>5 DEF Places, Ev
    <2>7. ASSUME NEW s \in Session
          PROVE  /\ Places(s, {"started"})' = Places(s, {"started"})
                 /\ Places(s, Terminal) \subseteq Places(s, Terminal)'
                 /\ \A i \in DOMAIN stream[s] : stream'[s][i] = stream[s][i]
      <3>1. CASE s = Home[r]
        BY <2>5, <2>6, <3>1
      <3>2. CASE s # Home[r]
        BY <2>5, <3>2 DEF Places
      <3> QED
        BY <3>1, <3>2
    <2>8. TurnsInOrder'
      <3> SUFFICES ASSUME NEW s \in Session, NEW i \in Places(s, {"started"}),
                          NEW j \in Places(s, {"started"}), i < j
                   PROVE  \E m \in Places(s, Terminal)' :
                            i < m /\ m < j /\ stream'[s][m].run = stream'[s][i].run
        BY <2>7 DEF TurnsInOrder
      <3>1. PICK m \in Places(s, Terminal) :
              i < m /\ m < j /\ stream[s][m].run = stream[s][i].run
        BY DEF TurnsInOrder
      <3>2. i \in DOMAIN stream[s] /\ m \in DOMAIN stream[s]
        BY DEF Places
      <3> QED
        BY <2>7, <3>1, <3>2
    <2>9. OpenTurns'
      <3> SUFFICES ASSUME NEW s \in Session, NEW i \in Places(s, {"started"})
                   PROVE  /\ Home[stream'[s][i].run] = s
                          /\ \/ \E m \in Places(s, Terminal)' :
                                  i < m /\ stream'[s][m].run = stream'[s][i].run
                             \/ pc'[stream'[s][i].run] \in Deferring \union {"publishing"}
        BY <2>7 DEF OpenTurns
      <3> DEFINE q == stream[s][i].run
      <3>1. i \in DOMAIN stream[s] /\ stream'[s][i] = stream[s][i] /\ q \in Run /\ Home[q] = s
        BY <1>2, <2>7 DEF Places, OpenTurns
      <3>2. CASE \E m \in Places(s, Terminal) : i < m /\ stream[s][m].run = q
        <4>1. PICK m \in Places(s, Terminal) : i < m /\ stream[s][m].run = q
          BY <3>2
        <4>2. m \in DOMAIN stream[s]
          BY DEF Places
        <4> QED
          BY <2>7, <3>1, <4>1, <4>2
      <3>3. CASE q # r /\ pc[q] \in Deferring \union {"publishing"}
        BY <2>1, <3>1, <3>3
      <3>4. CASE q = r
        BY <2>5, <2>6, <3>1, <3>4 DEF Ev
      <3> QED
        BY <3>1, <3>2, <3>3, <3>4 DEF OpenTurns
    <2> QED
      BY <2>8, <2>9
  <1>7. ASSUME NEW r \in Run, Publish(r) \/ FlushTake(r) PROVE \A q \in Run : ~FlushPublish(q)
    <2>1. lock = Nobody
      BY <1>7 DEF Publish, FlushTake
    <2> QED
      BY <2>1, WriterAssumption DEF FlushPublish, LifeInv, LifeOK
  <1>8. CASE \E r \in Run : FlushPublish(r)
    BY <1>6, <1>8
  <1>9. CASE stream' # stream /\ ~\E r \in Run : FlushPublish(r)
    <2>1. ASSUME NEW r \in Run, FlushTake(r) PROVE stream' = stream
      BY <2>1 DEF FlushTake
    <2>2. \E r \in Run : Publish(r)
      BY <1>1, <1>9, <2>1, Outgoing
    <2> QED
      BY <1>5, <1>9, <2>2
  <1> QED
    BY <1>3, <1>8, <1>9

\* The live stream shows the turns of a session one after the other, for any
\* number of runs and sessions: a run starts there only after the terminal of
\* the one before has been flushed (flush_held_session under terminal_hold).
THEOREM TurnsCorrect == RunSpec => []TurnsInOrder
  <1>1. RunInit => OpenTurns /\ TurnsInOrder
    BY DEF RunInit, OpenTurns, TurnsInOrder, Places
  <1> QED
    BY <1>1, FreeHolds, TurnsStep, LifeHolds, RunTypesHold, SlotCorrect, PTL DEF RunSpec

-----------------------------------------------------------------------------
(* What is shown has been recorded                                         *)

Start(q) == <<Ev(q, "started")>>
StartAndEnd(q) == <<Ev(q, "started"), Ev(q, "failed")>>

HasEnding(q) == \E k \in Terminal : Logged(q, k)
\* An ending is in the store, except the one the sealing makes up because the
\* store took none.
Backed(q, k) == IF k = "synthetic" THEN ~HasEnding(q) ELSE Logged(q, k)

\* What the store has of a run, at each of its steps.
RecordOK(q) ==
  /\ pc[q] \in Before => \A k \in Kind : ~Logged(q, k)
  /\ pc[q] = "opening" => ~Logged(q, "started")
  /\ pc[q] \in {"opened", "sealing"} => Logged(q, "started")
  /\ pc[q] \in {"deciding", "waiting", "answering", "executing"} => Logged(q, "asked")
  /\ HasEnding(q) => Logged(q, "started")
  /\ \A k \in Terminal : out[q] = <<Ev(q, k)>> => Backed(q, k)
  /\ \A k \in Terminal : pc[q] \in Deferring /\ held[Home[q]] = <<Ev(q, k)>> => Backed(q, k)
  /\ out[q] = StartAndEnd(q) => Logged(q, "started") /\ Logged(q, "failed")
  /\ /\ Logged(q, "started")
     /\ HasEnding(q) \/ pc[q] \in Turning \union {"completed", "errored", "sealing"}
     => ShownOf(q, {"started"}) # {} \/ out[q] = Start(q) \/ out[q] = StartAndEnd(q)

RecordInv ==
  /\ \A q \in Run : RecordOK(q)
  /\ \A c \in Approval : apc[c] # "idle" => Logged(target[c], "asked")
  /\ lock # Nobody => pc[lock] = "publishing"

\* What one more event in the store changes.
LEMMA PersistLogged ==
  ASSUME StoreOK, NEW r \in Run, NEW k \in Kind, NEW q \in Run, NEW j \in Kind,
         log' = [log EXCEPT ![Home[r]] = Append(@, Ev(r, k))]
  PROVE  Logged(q, j)' <=> Logged(q, j) \/ (q = r /\ j = k)
  <1> DEFINE sq == log[Home[q]]
             e == Ev(r, k)
  <1>1. Home[q] \in Session /\ Home[r] \in Session /\ sq \in Seq(Event) /\ e \in Event
    BY EventFacts DEF StoreOK
  <1>2. log'[Home[q]] = IF Home[q] = Home[r] THEN Append(sq, e) ELSE sq
    BY <1>1 DEF StoreOK
  <1>3. Ev(q, j) = e <=> q = r /\ j = k
    BY DEF Ev
  <1>4. CASE Home[q] # Home[r]
    BY <1>2, <1>3, <1>4 DEF Logged
  <1>5. CASE Home[q] = Home[r]
    <2>1. /\ DOMAIN sq = 1..Len(sq) /\ DOMAIN Append(sq, e) = 1..(Len(sq) + 1) /\ Len(sq) \in Nat
          /\ \A i \in 1..Len(sq) : Append(sq, e)[i] = sq[i]
          /\ Append(sq, e)[Len(sq) + 1] = e
      BY <1>1, AppendProperties, LenProperties
    <2>2. DOMAIN Append(sq, e) = DOMAIN sq \union {Len(sq) + 1}
      BY <2>1
    <2>3. (\E i \in DOMAIN Append(sq, e) : Append(sq, e)[i] = Ev(q, j))
            <=> (\E i \in DOMAIN sq : sq[i] = Ev(q, j)) \/ e = Ev(q, j)
      <3> HIDE DEF e, sq
      <3> QED
        BY <2>1, <2>2
    <2>4. log'[Home[q]] = Append(sq, e)
      BY <1>2, <1>5
    <2> HIDE DEF e
    <2> QED
      BY <1>3, <2>3, <2>4 DEF Logged
  <1> QED
    BY <1>4, <1>5

\* A run that does not act: at most its calls are closed by a command.
LEMMA RecordFrame ==
  ASSUME NEW q \in Run, RecordOK(q), pc'[q] = pc[q], out'[q] = out[q],
         pc[q] \in Deferring => held'[Home[q]] = held[Home[q]],
         ShownOf(q, {"started"}) \subseteq ShownOf(q, {"started"})',
         \A j \in Kind : Logged(q, j)' <=> Logged(q, j) \/ (j \in {"responded", "executed"} /\ Logged(q, j)'),
         (\E j \in Kind : Logged(q, j)' /\ ~Logged(q, j)) => Logged(q, "asked")
  PROVE  RecordOK(q)'
  <1>1. {"asked", "started", "failed", "synthetic"} \subseteq Kind /\ Terminal \subseteq Kind
        /\ {"responded", "executed"} \intersect Terminal = {}
    BY DEF Kind, Shown, Terminal
  <1>2. /\ Logged(q, "started")' <=> Logged(q, "started")
        /\ Logged(q, "asked")' <=> Logged(q, "asked")
        /\ Logged(q, "failed")' <=> Logged(q, "failed")
        /\ \A k \in Terminal : Logged(q, k)' <=> Logged(q, k)
    BY <1>1
  <1>3. HasEnding(q)' <=> HasEnding(q)
    BY <1>2 DEF HasEnding
  <1>4. \A k \in Terminal : Backed(q, k)' <=> Backed(q, k)
    BY <1>2, <1>3 DEF Backed
  <1>5. pc[q] \in Before => \A j \in Kind : ~Logged(q, j)'
    BY <1>1 DEF RecordOK
  <1> QED
    BY <1>2, <1>3, <1>4, <1>5 DEF RecordOK, Start, StartAndEnd

\* A step that leaves the store alone and publishes no start.
LEMMA RecordIdle ==
  ASSUME RecordInv, UNCHANGED <<log, stream>>, NEW q \in Run, pc'[q] = pc[q], out'[q] = out[q],
         pc[q] \in Deferring => held'[Home[q]] = held[Home[q]]
  PROVE  RecordOK(q)'
  <1>1. ShownOf(q, {"started"})' = ShownOf(q, {"started"})
    BY DEF ShownOf, Places
  <1>2. \A j \in Kind : Logged(q, j)' <=> Logged(q, j)
    BY DEF Logged
  <1> QED
    BY <1>1, <1>2, RecordFrame DEF RecordInv

\* A run that moves and neither stores nor publishes.
LEMMA RecordQuiet ==
  ASSUME RunTypes, LifeInv, LifeInv', RecordInv, NEW r \in Run,
         \/ RunStart(r) \/ Refuse(r) \/ Accept(r) \/ BeginHold(r) \/ EarlyError(r)
         \/ ReadSequence(r) \/ Decide(r) \/ DecideCancelled(r) \/ DecideAnswered(r)
         \/ SeeCancel(r) \/ SealRead(r) \/ Completed(r) \/ ClearRun(r) \/ Remove(r)
  PROVE  \A q \in Run : RecordOK(q)'
  <1>1. UNCHANGED <<log, held, out, stream>>
    BY DEF RunStart, Refuse, Accept, BeginHold, EarlyError, ReadSequence, Decide,
       DecideCancelled, DecideAnswered, SeeCancel, SealRead, Completed, ClearRun, Remove,
       busVars, holdVars, storeVars
  <1>2. PICK l : pc' = [pc EXCEPT ![r] = l]
    BY DEF RunStart, Refuse, Accept, BeginHold, EarlyError, ReadSequence, Decide,
       DecideCancelled, DecideAnswered, SeeCancel, SealRead, Completed, ClearRun, Remove, Goto
  <1>3. \A q \in Run : pc'[q] = IF q = r THEN l ELSE pc[q]
    BY <1>2 DEF RunTypes, ControlOK
  <1>4. ASSUME NEW q \in Run, q # r PROVE RecordOK(q)'
    BY <1>1, <1>3, <1>4, RecordIdle
  <1>5. /\ ShownOf(r, {"started"})' = ShownOf(r, {"started"})
        /\ \A k : Logged(r, k)' <=> Logged(r, k)
    BY <1>1 DEF ShownOf, Places, Logged
  <1>6. (HasEnding(r)' <=> HasEnding(r)) /\ \A k : Backed(r, k)' <=> Backed(r, k)
    BY <1>5 DEF HasEnding, Backed
  <1>7. RecordOK(r) /\ LifeOK(r) /\ pc'[r] = l
    BY <1>3 DEF RecordInv, LifeInv
  <1>8. RecordOK(r)'
    <2>1. \/ pc[r] \in Before /\ l \in Before
          \/ pc[r] = "begun" /\ l = "errored"
          \/ pc[r] \in {"deciding", "waiting"} /\ l \in {"waiting", "answering", "cancelling"}
          \/ pc[r] \in Turning /\ l = "cancelling"
          \/ pc[r] = "errored" /\ out[r] = <<>> /\ l = "clearing"
          \/ pc[r] = "errored" /\ out[r] = <<>>
             /\ l = IF Logged(r, "started") THEN "sealing" ELSE "opening"
          \/ pc[r] \in {"completed", "clearing", "removing"}
             /\ l \in {"clearing", "removing", "flushing"}
      BY <1>7, <1>2 DEF RunStart, Refuse, Accept, BeginHold, EarlyError, ReadSequence, Decide,
         DecideCancelled, DecideAnswered, SeeCancel, SealRead, NeedsSeal, Completed, ClearRun,
         Remove, Goto, Before, Turning, RunTypes, ControlOK
    <2>2. pc[r] \in Before => ~HasEnding(r)
      BY <1>7 DEF RecordOK, HasEnding, Kind, Shown
    <2>3. l = "begun" => held[Home[r]] = <<>>
      BY <1>1, <1>7 DEF LifeInv, LifeOK
    <2>4. ASSUME NEW k \in Terminal, pc[r] \in Deferring \/ l = "begun" \/ l \notin Deferring
          PROVE  l \in Deferring /\ held[Home[r]] = <<Ev(r, k)>> => Backed(r, k)
      BY <1>7, <2>3, <2>4 DEF RecordOK
    <2>5. CASE pc[r] \in Before /\ l \in Before
      <3>1. pc[r] \in Deferring \/ l = "begun" \/ l \notin Deferring
        BY <1>2, <1>7, <2>5 DEF RunStart, Refuse, Accept, BeginHold, EarlyError, ReadSequence,
           Decide, DecideCancelled, DecideAnswered, SeeCancel, SealRead, Completed, ClearRun,
           Remove, Goto, Deferring, InEngine, Closing, Before, RunTypes, ControlOK
      <3> QED
        BY <1>1, <1>5, <1>6, <1>7, <2>2, <2>4, <2>5, <3>1 DEF RecordOK, Start, StartAndEnd, Before,
           Turning
    <2>6. CASE pc[r] \in Turning \union {"begun"} /\ l \in Turning \union {"errored"}
               /\ (pc[r] = "begun" => l = "errored") /\ (l \in {"waiting", "answering"} => pc[r] \in {"deciding", "waiting"})
               /\ l \notin {"deciding", "executing"}
      <3>1. pc[r] \in Deferring
        BY <2>6 DEF Deferring, InEngine, Turning
      <3>2. ~Logged(r, "started") \/ pc[r] \in Turning
        BY <1>7, <2>6 DEF RecordOK, Before, Kind, Shown
      <3>3. l \notin {"opening", "opened", "sealing", "deciding", "executing"}
        BY <2>6 DEF Turning
      <3> QED
        BY <1>1, <1>5, <1>6, <1>7, <2>2, <2>4, <2>6, <3>1, <3>2, <3>3
        DEF RecordOK, Start, StartAndEnd, Before, Turning
    <2>7. CASE /\ pc[r] \in {"errored", "completed", "clearing", "removing"}
               /\ \/ l \in {"clearing", "removing", "flushing"}
                  \/ pc[r] = "errored" /\ l = IF Logged(r, "started") THEN "sealing" ELSE "opening"
      <3>1. pc[r] \in Deferring
        BY <2>7 DEF Deferring, Closing
      <3> QED
        BY <1>1, <1>5, <1>6, <1>7, <2>4, <2>7, <3>1 DEF RecordOK, Start, StartAndEnd, Before, Turning
    <2> QED
      BY <2>1, <2>5, <2>6, <2>7 DEF Turning
  <1> QED
    BY <1>4, <1>8

\* What the engine stores, and where it stands before and after.
LEMMA EngineEmits ==
  ASSUME NEW r \in Run,
         \/ Started(r) \/ Complete(r) \/ Fail(r) \/ Ask(r) \/ Respond(r) \/ Execute(r)
         \/ EmitCancelled(r)
  PROVE  \E k \in Kind \ {"synthetic"}, then \in {"streaming", "deciding", "executing", "completed", "errored"} :
           /\ Emit(r, k, then)
           /\ \/ pc[r] = "ready" /\ k = "started" /\ then = "streaming"
              \/ pc[r] = "streaming" /\ k = "asked" /\ then = "deciding"
              \/ pc[r] = "answering" /\ k = "responded" /\ then = "executing"
              \/ pc[r] = "executing" /\ k = "executed" /\ then = "streaming"
              \/ pc[r] = "streaming" /\ k = "completed" /\ then = "completed"
              \/ pc[r] = "streaming" /\ k = "failed" /\ then = "errored"
              \/ pc[r] = "cancelling" /\ k = "cancelled" /\ then = "errored"
  <1>1. {"started", "completed", "failed", "asked", "responded", "executed", "cancelled"}
          \subseteq Kind \ {"synthetic"}
    BY DEF Kind, Shown, Terminal
  <1> QED
    BY <1>1 DEF Started, Complete, Fail, Ask, Respond, Execute, EmitCancelled

LEMMA NoEndLogged ==
  ASSUME NEW q \in Run, Stored(q, Terminal) = {}
  PROVE  ~HasEnding(q)
  <1> SUFFICES ASSUME NEW k \in Terminal, NEW i \in DOMAIN log[Home[q]],
                      log[Home[q]][i] = Ev(q, k)
               PROVE  FALSE
    BY DEF HasEnding, Logged
  <1>1. log[Home[q]][i].run = q /\ log[Home[q]][i].kind = k
    BY DEF Ev
  <1>2. i \in Stored(q, Terminal)
    BY <1>1 DEF Stored, At
  <1> QED
    BY <1>2

LEMMA RecordEngine ==
  ASSUME RunTypes, LifeInv, RecordInv, NEW r \in Run,
         \/ Started(r) \/ Complete(r) \/ Fail(r) \/ Ask(r) \/ Respond(r) \/ Execute(r)
         \/ EmitCancelled(r)
  PROVE  \A q \in Run : RecordOK(q)'
  <1>1. PICK k \in Kind \ {"synthetic"}, then \in {"streaming", "deciding", "executing", "completed", "errored"} :
           /\ Emit(r, k, then)
           /\ \/ pc[r] = "ready" /\ k = "started" /\ then = "streaming"
              \/ pc[r] = "streaming" /\ k = "asked" /\ then = "deciding"
              \/ pc[r] = "answering" /\ k = "responded" /\ then = "executing"
              \/ pc[r] = "executing" /\ k = "executed" /\ then = "streaming"
              \/ pc[r] = "streaming" /\ k = "completed" /\ then = "completed"
              \/ pc[r] = "streaming" /\ k = "failed" /\ then = "errored"
              \/ pc[r] = "cancelling" /\ k = "cancelled" /\ then = "errored"
    BY EngineEmits
  <1>2. /\ pc[r] \in Turning \union {"ready"} /\ pc[r] \in Deferring /\ out[r] = <<>>
        /\ UNCHANGED <<held, stream>>
    BY <1>1 DEF Emit, holdVars, Turning, Deferring, InEngine
  <1>3. RecordOK(r) /\ LifeOK(r) /\ StoreOK /\ ControlOK /\ BusOK
    BY DEF RecordInv, LifeInv, RunTypes
  <1>4. /\ \A q \in Run : ShownOf(q, {"started"})' = ShownOf(q, {"started"})
        /\ pc[r] = "ready" => ~Logged(r, "started")
        /\ pc[r] \in Turning => Logged(r, "started") /\ ShownOf(r, {"started"}) # {}
        /\ ~HasEnding(r)
    <2>1. \A q \in Run : ShownOf(q, {"started"})' = ShownOf(q, {"started"})
      BY <1>2 DEF ShownOf, Places
    <2>2. pc[r] = "ready" => \A j \in Kind : ~Logged(r, j)
      BY <1>3 DEF RecordOK, Before
    <2>3. pc[r] \in Turning => Logged(r, "started") /\ ShownOf(r, {"started"}) # {}
      BY <1>2, <1>3 DEF LifeOK, RecordOK, Start, StartAndEnd
    <2>4. Stored(r, Terminal) = {}
      BY <1>2, <1>3 DEF LifeOK, NoEnd, Before
    <2>5. ~HasEnding(r)
      BY <2>4, NoEndLogged
    <2> QED
      BY <2>1, <2>2, <2>3, <2>5 DEF Kind, Shown
  <1>5. held[Home[r]] = <<>>
    BY <1>2, <1>3 DEF LifeOK
  <1>6. CASE UNCHANGED storeVars /\ UNCHANGED out /\ pc' = [pc EXCEPT ![r] = "errored"]
    <2>1. (\A q \in Run : pc'[q] = IF q = r THEN "errored" ELSE pc[q]) /\ UNCHANGED <<log, out>>
      BY <1>3, <1>6 DEF ControlOK, storeVars
    <2>2. ASSUME NEW q \in Run, q # r PROVE RecordOK(q)'
      BY <1>2, <2>1, <2>2, RecordIdle
    <2>3. (\A k1 : Logged(r, k1)' <=> Logged(r, k1)) /\ (HasEnding(r)' <=> HasEnding(r))
      BY <2>1 DEF Logged, HasEnding
    <2>4. RecordOK(r)'
      BY <1>2, <1>3, <1>4, <1>5, <2>1, <2>3
      DEF RecordOK, Start, StartAndEnd, Before, Turning
    <2> QED
      BY <2>2, <2>4
  <1>7. CASE /\ Persist(r, r, k) /\ pc' = [pc EXCEPT ![r] = then]
             /\ out' = IF k \in Shown THEN [out EXCEPT ![r] = <<Ev(r, k)>>] ELSE out
    <2>1. /\ \A q \in Run : pc'[q] = IF q = r THEN then ELSE pc[q]
          /\ \A q \in Run : out'[q] = IF q = r THEN (IF k \in Shown THEN <<Ev(r, k)>> ELSE <<>>)
                                      ELSE out[q]
      BY <1>2, <1>3, <1>7 DEF ControlOK, BusOK
    <2>2. ASSUME NEW q \in Run, NEW j \in Kind
          PROVE  Logged(q, j)' <=> Logged(q, j) \/ (q = r /\ j = k)
      BY <1>3, <1>7, PersistLogged DEF Persist
    <2>3. ASSUME NEW q \in Run, q # r PROVE RecordOK(q)'
      BY <1>2, <1>4, <2>1, <2>2, <2>3, RecordFrame DEF RecordInv
    <2>4. HasEnding(r)' <=> k \in Terminal
      BY <1>4, <2>2 DEF HasEnding, Kind, Shown
    <2>5. /\ Logged(r, "started")'
          /\ pc[r] = "ready" => out'[r] = Start(r)
          /\ pc[r] # "ready" => ShownOf(r, {"started"})' # {}
      BY <1>1, <1>2, <1>4, <2>1, <2>2 DEF Start, Kind, Shown, Terminal
    <2>6. then \in {"deciding", "executing"} => Logged(r, "asked")'
      <3>1. "asked" \in Kind
        BY DEF Kind
      <3> QED
        BY <1>1, <1>3, <2>2, <3>1 DEF RecordOK
    <2>7. \A e \in Terminal : out'[r] = <<Ev(r, e)>> => Backed(r, e)'
      <3> SUFFICES ASSUME NEW e \in Terminal, out'[r] = <<Ev(r, e)>> PROVE Backed(r, e)'
        OBVIOUS
      <3>1. k \in Shown /\ <<Ev(r, k)>> = <<Ev(r, e)>>
        BY <2>1
      <3>2. e = k
        BY <3>1 DEF Ev
      <3> QED
        BY <2>2, <3>2 DEF Backed
    <2>8. out'[r] # StartAndEnd(r) /\ held'[Home[r]] = <<>>
      BY <1>2, <1>5, <2>1 DEF StartAndEnd
    <2>9. RecordOK(r)'
      BY <1>1, <2>1, <2>4, <2>5, <2>6, <2>7, <2>8 DEF RecordOK, Before, Turning
    <2> QED
      BY <2>3, <2>9
  <1> QED
    BY <1>1, <1>6, <1>7 DEF Emit, Goto

LEMMA RecordSeal ==
  ASSUME RunTypes, LifeInv, RecordInv, NEW r \in Run,
         SealStarted(r) \/ SealFailed(r) \/ SealSynthetic(r)
  PROVE  \A q \in Run : RecordOK(q)'
  <1>1. /\ pc[r] \in SealAt /\ pc[r] \in Deferring /\ UNCHANGED <<held, stream>>
        /\ RecordOK(r) /\ LifeOK(r) /\ StoreOK /\ ControlOK /\ BusOK
    BY DEF SealStarted, SealFailed, SealSynthetic, SealAt, Deferring, Closing, busVars, holdVars,
       RecordInv, LifeInv, RunTypes
  <1>2. /\ out[r] = <<>> /\ held[Home[r]] = <<>> /\ Stored(r, Terminal) = {}
        /\ \A q \in Run : ShownOf(q, {"started"})' = ShownOf(q, {"started"})
    BY <1>1 DEF LifeOK, NoEnd, ShownOf, Places
  <1>3. ~HasEnding(r)
    BY <1>2, NoEndLogged
  <1>4. {"started", "failed"} \subseteq Kind /\ "failed" \in Terminal /\ Terminal \subseteq Kind
        /\ "started" \notin Terminal
    BY DEF Kind, Shown, Terminal
  <1>5. ASSUME NEW k \in {"started", "failed"}, Persist(r, r, k)
        PROVE  \A q \in Run, j \in Kind : Logged(q, j)' <=> Logged(q, j) \/ (q = r /\ j = k)
    BY <1>1, <1>4, <1>5, PersistLogged DEF Persist
  <1>6. CASE SealStarted(r)
    <2>1. /\ pc[r] = "opening" /\ (\A q \in Run : pc'[q] = IF q = r THEN "opened" ELSE pc[q])
          /\ out' = out
          /\ \A q \in Run, j \in Kind : Logged(q, j)' <=> Logged(q, j) \/ (q = r /\ j = "started")
      BY <1>1, <1>5, <1>6 DEF SealStarted, Goto, ControlOK, busVars
    <2>2. ASSUME NEW q \in Run, q # r PROVE RecordOK(q)'
      BY <1>1, <1>2, <2>1, <2>2, RecordFrame DEF RecordInv
    <2>3. ~HasEnding(r)' /\ Logged(r, "started")'
      BY <1>3, <1>4, <2>1 DEF HasEnding
    <2>5. out'[r] = <<>> /\ held'[Home[r]] = <<>> /\ pc'[r] = "opened"
      BY <1>1, <1>2, <2>1
    <2>6. out'[r] # StartAndEnd(r)
      BY <2>5 DEF StartAndEnd
    <2>4. RecordOK(r)'
      BY <2>3, <2>5, <2>6 DEF RecordOK, StartAndEnd, Before, Turning
    <2> QED
      BY <2>2, <2>4
  <1>7. CASE SealFailed(r)
    <2>1. /\ pc[r] \in {"opened", "sealing"}
          /\ \A q \in Run : pc'[q] = IF q = r THEN "clearing" ELSE pc[q]
          /\ \A q \in Run : out'[q] = IF q = r THEN (IF pc[r] = "opened" THEN StartAndEnd(r)
                                                                        ELSE <<Ev(r, "failed")>>)
                                      ELSE out[q]
          /\ \A q \in Run, j \in Kind : Logged(q, j)' <=> Logged(q, j) \/ (q = r /\ j = "failed")
      BY <1>1, <1>5, <1>7 DEF SealFailed, Goto, ControlOK, BusOK, StartAndEnd
    <2>2. ASSUME NEW q \in Run, q # r PROVE RecordOK(q)'
      BY <1>1, <1>2, <2>1, <2>2, RecordFrame DEF RecordInv
    <2>3. /\ Logged(r, "started")' /\ Logged(r, "failed")'
          /\ pc[r] = "sealing" => ShownOf(r, {"started"})' # {}
      <3>1. Logged(r, "started")
        BY <1>1, <2>1 DEF RecordOK
      <3>2. pc[r] = "sealing" => ShownOf(r, {"started"}) # {}
        BY <1>1, <1>2, <3>1 DEF RecordOK, Start, StartAndEnd
      <3> QED
        BY <1>2, <1>4, <2>1, <3>1, <3>2
    <2>4. \A e \in Terminal : out'[r] = <<Ev(r, e)>> => Backed(r, e)'
      <3> SUFFICES ASSUME NEW e \in Terminal, out'[r] = <<Ev(r, e)>> PROVE Backed(r, e)'
        OBVIOUS
      <3>1. <<Ev(r, "failed")>> = <<Ev(r, e)>>
        BY <2>1 DEF StartAndEnd
      <3>2. e = "failed"
        BY <3>1 DEF Ev
      <3> QED
        BY <2>3, <3>2 DEF Backed
    <2>5. pc[r] = "opened" => out'[r] = StartAndEnd(r)
      BY <2>1
    <2>6. RecordOK(r)'
      BY <1>2, <1>1, <2>1, <2>3, <2>4, <2>5 DEF RecordOK, Before, Turning
    <2> QED
      BY <2>2, <2>6
  <1>8. CASE SealSynthetic(r)
    <2>1. /\ \A q \in Run : pc'[q] = IF q = r THEN "clearing" ELSE pc[q]
          /\ \A q \in Run : out'[q] = IF q = r THEN <<Ev(r, "synthetic")>> ELSE out[q]
          /\ log' = log
      BY <1>1, <1>8 DEF SealSynthetic, Goto, ControlOK, BusOK, storeVars
    <2>2. ASSUME NEW q \in Run, q # r PROVE RecordOK(q)'
      BY <1>1, <2>1, <2>2, RecordIdle
    <2>3. ~HasEnding(r)'
      BY <1>3, <2>1 DEF HasEnding, Logged
    <2>4. \A e \in Terminal : out'[r] = <<Ev(r, e)>> => Backed(r, e)'
      <3> SUFFICES ASSUME NEW e \in Terminal, out'[r] = <<Ev(r, e)>> PROVE Backed(r, e)'
        OBVIOUS
      <3>1. <<Ev(r, "synthetic")>> = <<Ev(r, e)>>
        BY <2>1
      <3>2. e = "synthetic"
        BY <3>1 DEF Ev
      <3> QED
        BY <2>3, <3>2 DEF Backed
    <2>5. out'[r] # StartAndEnd(r)
      BY <2>1 DEF StartAndEnd
    <2>6. RecordOK(r)'
      BY <1>1, <1>2, <2>1, <2>3, <2>4, <2>5 DEF RecordOK, Before, Turning
    <2> QED
      BY <2>2, <2>6
  <1> QED
    BY <1>6, <1>7, <1>8

LEMMA NotAStart ==
  ASSUME NEW q \in Run, NEW k \in Terminal
  PROVE  <<Ev(q, k)>> # Start(q) /\ <<Ev(q, k)>> # StartAndEnd(q)
  <1>1. Ev(q, k) # Ev(q, "started")
    BY DEF Ev, Terminal
  <1> QED
    BY <1>1 DEF Start, StartAndEnd

LEMMA RecordPublish ==
  ASSUME RunTypes, OneRunPerSession, FreeInv, LifeInv, RecordInv, NEW r \in Run, Publish(r)
  PROVE  \A q \in Run : RecordOK(q)'
  <1>1. /\ ControlOK /\ BusOK /\ RecordOK(r) /\ LifeOK(r) /\ Home[r] \in Session
        /\ out[r] \in Seq(Event) /\ out[r] # <<>> /\ pc[r] \in Deferring
    BY EventFacts, NextIsOwn DEF RunTypes, LifeInv, RecordInv, BusOK, Publish, FreeInv
  <1>2. /\ UNCHANGED <<pc, log>>
        /\ \A q \in Run : out'[q] = IF q = r THEN Tail(out[r]) ELSE out[q]
    BY <1>1 DEF Publish, storeVars, BusOK
  <1>3. ASSUME NEW q \in Run
        PROVE  /\ \A k : Logged(q, k)' <=> Logged(q, k)
               /\ HasEnding(q)' <=> HasEnding(q)
               /\ \A k : Backed(q, k)' <=> Backed(q, k)
    <2>1. \A k : Logged(q, k)' <=> Logged(q, k)
      BY <1>2 DEF Logged
    <2> QED
      BY <2>1 DEF HasEnding, Backed
  <1>4. CASE Head(out[r]) = Ev(r, "started")
    <2>1. /\ stream' = [stream EXCEPT ![Home[r]] = Append(@, Ev(r, "started"))] /\ held' = held
          /\ "started" \in Kind /\ "started" \notin Terminal
      <3>1. Ev(r, "started").run = r /\ Ev(r, "started").kind = "started" /\ "started" \notin Terminal
        BY DEF Ev, Terminal
      <3>2. held[Home[r]] = <<>>
        BY NextKind
      <3> QED
        BY <1>4, <3>1, <3>2 DEF Publish, Dispatch, Kind, Shown
    <2>2. \A q \in Run : ShownOf(q, {"started"})' = ShownOf(q, {"started"})
                           \union (IF q = r THEN {Len(stream[Home[r]]) + 1} ELSE {})
      <3>1. \A q \in Run : ShownOf(q, {"started"})' = ShownOf(q, {"started"})
              \union (IF q = r /\ "started" = "started" THEN {Len(stream[Home[r]]) + 1} ELSE {})
        BY <1>1, <2>1, ShowPlaces
      <3> QED
        BY <3>1
    <2>3. ASSUME NEW q \in Run, q # r PROVE RecordOK(q)'
      BY <1>2, <1>3, <2>1, <2>2, <2>3, RecordFrame DEF RecordInv
    <2>4. /\ \A k \in Terminal : Head(out[r]) # Ev(r, k)
          /\ \A k \in Terminal : out[r] # <<Ev(r, k)>>
      <3>1. \A k \in Terminal : Head(out[r]) # Ev(r, k)
        BY <1>4 DEF Ev, Terminal
      <3>2. \A k : Head(<<Ev(r, k)>>) = Ev(r, k)
        OBVIOUS
      <3> QED
        BY <3>1, <3>2
    <2>5. \/ pc[r] \in Turning /\ out'[r] = <<>>
          \/ /\ pc[r] = "clearing" /\ out'[r] = <<Ev(r, "failed")>>
             /\ Logged(r, "failed")
      <3>1. \/ pc[r] \in Turning /\ Tail(out[r]) = <<>>
            \/ pc[r] = "clearing" /\ Tail(out[r]) = <<Ev(r, "failed")>>
        BY <2>4, NextKind
      <3>2. pc[r] = "clearing" => out[r] = StartAndEnd(r)
        BY <1>1, <2>4 DEF LifeOK, Closed, IsEnd, StartAndEnd
      <3> QED
        BY <1>1, <1>2, <3>1, <3>2 DEF RecordOK
    <2>6. ShownOf(r, {"started"})' # {}
      BY <2>2
    <2>7. \A k \in Terminal : out'[r] = <<Ev(r, k)>> => Backed(r, k)
      <3> SUFFICES ASSUME NEW k \in Terminal, out'[r] = <<Ev(r, k)>> PROVE Backed(r, k)
        OBVIOUS
      <3>1. <<Ev(r, k)>> = <<Ev(r, "failed")>> /\ Logged(r, "failed")
        BY <2>5
      <3>2. k = "failed"
        BY <3>1 DEF Ev
      <3> QED
        BY <3>1, <3>2 DEF Backed
    <2>8. out'[r] # StartAndEnd(r)
      <3>1. Len(StartAndEnd(r)) = 2
        BY DEF StartAndEnd
      <3>2. Len(out'[r]) \in {0, 1}
        <4>1. Len(<<>>) = 0 /\ Len(<<Ev(r, "failed")>>) = 1
          OBVIOUS
        <4> QED
          BY <2>5, <4>1
      <3> QED
        BY <3>1, <3>2
    <2>9. RecordOK(r)'
      BY <1>1, <1>2, <1>3, <2>1, <2>6, <2>7, <2>8 DEF RecordOK
    <2> QED
      BY <2>3, <2>9
  <1>5. CASE Head(out[r]) # Ev(r, "started")
    <2>1. PICK k \in Terminal : Head(out[r]) = Ev(r, k)
      BY <1>5, NextKind
    <2>2. Tail(out[r]) = <<>> /\ out[r] = <<Ev(r, k)>> /\ held[Home[r]] = <<>>
      <3>1. Tail(out[r]) = <<>> /\ held[Home[r]] = <<>>
        BY <1>5, NextKind
      <3>2. Len(Tail(out[r])) = Len(out[r]) - 1 /\ Len(out[r]) \in Nat /\ Len(Tail(out[r])) = 0
        BY <1>1, <3>1, HeadTailProperties, LenProperties
      <3>3. Len(out[r]) = 1 /\ Head(out[r]) = out[r][1]
        BY <3>2
      <3> QED
        BY <1>1, <2>1, <3>1, <3>3
    <2>3. stream' = stream /\ held' = [held EXCEPT ![Home[r]] = <<Ev(r, k)>>]
      <3>1. Ev(r, k).run = r /\ Ev(r, k).kind = k /\ Home[r] \in deferred
        BY <1>1 DEF Ev, FreeInv, HoldIsOn
      <3> QED
        BY <2>1, <2>2, <3>1 DEF Publish, Dispatch
    <2>4. \A q \in Run : ShownOf(q, {"started"})' = ShownOf(q, {"started"})
      BY <2>3 DEF ShownOf, Places
    <2>5. ASSUME NEW q \in Run, q # r PROVE RecordOK(q)'
      <3>1. pc[q] \in Deferring => held'[Home[q]] = held[Home[q]]
        BY <1>1, <2>3, <2>5, HeldElsewhere
      <3> QED
        BY <1>2, <1>3, <2>4, <2>5, <3>1, RecordFrame DEF RecordInv
    <2>6. Backed(r, k)
      BY <1>1, <2>2 DEF RecordOK
    <2>7. \A e \in Terminal : held'[Home[r]] = <<Ev(r, e)>> => Backed(r, e)
      <3> SUFFICES ASSUME NEW e \in Terminal, held'[Home[r]] = <<Ev(r, e)>> PROVE Backed(r, e)
        OBVIOUS
      <3>1. <<Ev(r, k)>> = <<Ev(r, e)>>
        BY <1>1, <2>3 DEF BusOK
      <3>2. e = k
        BY <3>1 DEF Ev
      <3> QED
        BY <2>6, <3>2
    <2>8. out[r] # Start(r) /\ out[r] # StartAndEnd(r)
      BY <2>2, NotAStart
    <2>9. RecordOK(r)'
      BY <1>1, <1>2, <1>3, <2>2, <2>4, <2>7, <2>8 DEF RecordOK, StartAndEnd
    <2> QED
      BY <2>5, <2>9
  <1> QED
    BY <1>4, <1>5

LEMMA RecordFlush ==
  ASSUME RunTypes, OneRunPerSession, FreeInv, LifeInv, RecordInv, NEW r \in Run,
         FlushTake(r) \/ FlushPublish(r) \/ ClearReported(r)
  PROVE  \A q \in Run : RecordOK(q)'
  <1>1. ControlOK /\ BusOK /\ RecordOK(r) /\ LifeOK(r) /\ Home[r] \in Session /\ log' = log
    BY EventFacts DEF RunTypes, LifeInv, RecordInv, FlushTake, FlushPublish, ClearReported, storeVars
  <1>2. ASSUME NEW q \in Run
        PROVE  /\ \A k : Logged(q, k)' <=> Logged(q, k)
               /\ HasEnding(q)' <=> HasEnding(q)
               /\ \A k : Backed(q, k)' <=> Backed(q, k)
    <2>1. \A k : Logged(q, k)' <=> Logged(q, k)
      BY <1>1 DEF Logged
    <2> QED
      BY <2>1 DEF HasEnding, Backed
  <1>3. CASE FlushTake(r)
    <2>1. /\ \A q \in Run : pc'[q] = IF q = r THEN "publishing" ELSE pc[q]
          /\ \A q \in Run : out'[q] = IF q = r THEN held[Home[r]] ELSE out[q]
          /\ held' = [held EXCEPT ![Home[r]] = <<>>]
          /\ stream' = stream /\ pc[r] = "flushing" /\ pc[r] \in Deferring
      BY <1>1, <1>3 DEF FlushTake, Goto, ControlOK, BusOK, Deferring, Closing
    <2>2. \A q \in Run : ShownOf(q, {"started"})' = ShownOf(q, {"started"})
      BY <2>1 DEF ShownOf, Places
    <2>3. ASSUME NEW q \in Run, q # r PROVE RecordOK(q)'
      <3>1. pc[q] \in Deferring => held'[Home[q]] = held[Home[q]]
        BY <2>1, <2>3, HeldElsewhere
      <3> QED
        BY <1>2, <2>1, <2>2, <2>3, <3>1, RecordFrame DEF RecordInv
    <2>4. PICK k \in Terminal : held[Home[r]] = <<Ev(r, k)>>
      BY <1>1, <2>1 DEF LifeOK, IsEnd
    <2>5. /\ \A e \in Terminal : out'[r] = <<Ev(r, e)>> => Backed(r, e)
          /\ out'[r] # StartAndEnd(r)
      BY <1>1, <2>1, <2>4, NotAStart DEF RecordOK
    <2>6. out[r] # Start(r) /\ out[r] # StartAndEnd(r)
      BY <1>1, <2>1 DEF LifeOK, Start, StartAndEnd
    <2>7. pc'[r] = "publishing" /\ "publishing" \notin Deferring
      BY <2>1 DEF Deferring, InEngine, Closing
    <2>8. RecordOK(r)'
      BY <1>1, <1>2, <2>2, <2>5, <2>6, <2>7 DEF RecordOK, Before, Turning
    <2> QED
      BY <2>3, <2>8
  <1>4. CASE FlushPublish(r)
    <2>1. /\ \A q \in Run : pc'[q] = IF q = r THEN "flushed" ELSE pc[q]
          /\ \A q \in Run : out'[q] = IF q = r THEN <<>> ELSE out[q]
          /\ stream' = [stream EXCEPT ![Home[r]] = @ \o out[r]]
          /\ held' = held /\ pc[r] = "publishing"
      BY <1>1, <1>4 DEF FlushPublish, Goto, ControlOK, BusOK
    <2>2. PICK k \in Terminal : out[r] = <<Ev(r, k)>>
      BY <1>1, <2>1 DEF LifeOK, IsEnd
    <2>3. stream' = [stream EXCEPT ![Home[r]] = Append(@, Ev(r, k))]
      <3>1. stream[Home[r]] \in Seq(Event)
        BY <1>1 DEF BusOK
      <3>2. stream[Home[r]] \o <<Ev(r, k)>> = Append(stream[Home[r]], Ev(r, k))
        BY <3>1
      <3> QED
        BY <2>1, <2>2, <3>2
    <2>4. \A q \in Run : ShownOf(q, {"started"}) \subseteq ShownOf(q, {"started"})'
      <3>1. k \in Kind
        BY DEF Kind, Shown
      <3>2. ASSUME NEW q \in Run
            PROVE  ShownOf(q, {"started"})' = ShownOf(q, {"started"})
                     \union (IF q = r /\ k = "started" THEN {Len(stream[Home[r]]) + 1} ELSE {})
        BY <1>1, <2>3, <3>1, ShowPlaces
      <3> QED
        BY <3>2
    <2>5. ASSUME NEW q \in Run, q # r PROVE RecordOK(q)'
      BY <1>2, <2>1, <2>4, <2>5, RecordFrame DEF RecordInv
    <2>6. out[r] # Start(r) /\ out[r] # StartAndEnd(r)
      BY <2>2, NotAStart
    <2>7. pc'[r] = "flushed" /\ "flushed" \notin Deferring /\ out'[r] = <<>>
      BY <2>1 DEF Deferring, InEngine, Closing
    <2>8. RecordOK(r)'
      BY <1>1, <1>2, <2>4, <2>6, <2>7 DEF RecordOK, StartAndEnd, Before, Turning
    <2> QED
      BY <2>5, <2>8
  <1>5. CASE ClearReported(r)
    <2>1. /\ \A q \in Run : pc'[q] = IF q = r THEN "done" ELSE pc[q]
          /\ UNCHANGED <<held, out, stream>> /\ pc[r] = "flushed"
      BY <1>1, <1>5 DEF ClearReported, Goto, ControlOK, holdVars
    <2>2. ASSUME NEW q \in Run, q # r PROVE RecordOK(q)'
      BY <1>1, <2>1, <2>2, RecordIdle
    <2>3. ShownOf(r, {"started"})' = ShownOf(r, {"started"}) /\ pc'[r] = "done"
      BY <2>1 DEF ShownOf, Places
    <2>4. "done" \notin Deferring /\ out[r] = <<>>
      BY <1>1, <2>1 DEF Deferring, InEngine, Closing, LifeOK
    <2>5. RecordOK(r)'
      BY <1>1, <1>2, <2>1, <2>3, <2>4 DEF RecordOK, Start, StartAndEnd, Before, Turning
    <2> QED
      BY <2>2, <2>5
  <1> QED
    BY <1>3, <1>4, <1>5

LEMMA LockChanges ==
  ASSUME [RunNext]_vars, ~(\E r \in Run : FlushTake(r) \/ FlushPublish(r))
  PROVE  lock' = lock
  <1>1. ASSUME NEW r \in Run, NEW k, NEW then, Emit(r, k, then) PROVE lock' = lock
    BY <1>1 DEF Emit, holdVars
  <1> QED
    BY <1>1 DEF RunNext, RunStep, EngineStep, CommandStep, StopStep, vars, busVars, holdVars,
       RunStart, Refuse, Accept, BeginHold, EarlyError, ReadSequence, Decide, DecideCancelled,
       DecideAnswered, SeeCancel, SealRead, SealStarted, SealFailed, SealSynthetic, Completed,
       ClearRun, Remove, ClearReported, RunCancel, Publish, Started, Complete, Fail, Ask, Respond,
       Execute, EmitCancelled, Resolve, CheckLive, ReadWaiting, ReadTail, SealResponded,
       SealExecuted, CommandAt, Seal, BeginStop, CancelAll, Drain, Joined, Stop, Exited

\* What reaches the store: the run's own events at their steps, and the closing
\* of a call that asked.
MayStore(q, k) ==
  \/ k = "started" /\ pc[q] \in {"ready", "opening"}
  \/ k \in Kind \ {"synthetic", "started"} /\ pc[q] \in Turning \union {"opened", "sealing"}
  \/ k \in {"responded", "executed"} /\ \E c \in Approval : apc[c] # "idle" /\ target[c] = q

LEMMA Storing ==
  ASSUME RunTypes, [RunNext]_vars
  PROVE  \/ log' = log
         \/ \E q \in Run, k \in Kind \ {"synthetic"} :
              log' = [log EXCEPT ![Home[q]] = Append(@, Ev(q, k))] /\ MayStore(q, k)
  <1> DEFINE Puts(q, k) == log' = [log EXCEPT ![Home[q]] = Append(@, Ev(q, k))]
  <1>1. {"started", "completed", "failed", "asked", "responded", "executed", "cancelled"}
          \subseteq Kind \ {"synthetic"}
    BY DEF Kind, Shown, Terminal
  <1>2. ASSUME NEW r \in Run,
               \/ Started(r) \/ Complete(r) \/ Fail(r) \/ Ask(r) \/ Respond(r) \/ Execute(r)
               \/ EmitCancelled(r)
        PROVE  log' = log \/ \E k \in Kind \ {"synthetic"} : Puts(r, k) /\ MayStore(r, k)
    <2>1. PICK k \in Kind \ {"synthetic"},
               then \in {"streaming", "deciding", "executing", "completed", "errored"} :
            /\ Emit(r, k, then)
            /\ \/ pc[r] = "ready" /\ k = "started"
               \/ pc[r] \in Turning /\ k # "started"
      BY <1>2, EngineEmits DEF Turning
    <2>2. log' = log \/ Puts(r, k)
      BY <2>1 DEF Emit, Persist, storeVars
    <2> QED
      BY <2>1, <2>2 DEF MayStore
  <1>3. ASSUME NEW r \in Run, SealStarted(r) \/ SealFailed(r)
        PROVE  \E k \in Kind \ {"synthetic"} : Puts(r, k) /\ MayStore(r, k)
    BY <1>1, <1>3 DEF SealStarted, SealFailed, Persist, MayStore
  <1>4. ASSUME NEW c \in Approval, SealResponded(c) \/ SealExecuted(c)
        PROVE  \/ log' = log
               \/ \E q \in Run, k \in Kind \ {"synthetic"} : Puts(q, k) /\ MayStore(q, k)
    <2>1. PICK k \in {"responded", "executed"} :
            apc[c] # "idle" /\ (Puts(target[c], k) \/ log' = log)
      BY <1>4 DEF SealResponded, SealExecuted, Seal, Persist, storeVars
    <2>2. target[c] \in Run
      BY <2>1 DEF RunTypes, TargetsOK
    <2>3. MayStore(target[c], k) /\ k \in Kind \ {"synthetic"}
      BY <1>1, <2>1 DEF MayStore
    <2> QED
      BY <2>1, <2>2, <2>3
  <1>5. ASSUME NEW r \in Run,
               \/ RunStart(r) \/ Refuse(r) \/ Accept(r) \/ BeginHold(r) \/ EarlyError(r)
               \/ ReadSequence(r) \/ Decide(r) \/ DecideCancelled(r) \/ DecideAnswered(r)
               \/ SeeCancel(r) \/ SealRead(r) \/ SealSynthetic(r) \/ Completed(r) \/ ClearRun(r)
               \/ Remove(r) \/ ClearReported(r) \/ RunCancel(r) \/ Publish(r) \/ FlushTake(r)
               \/ FlushPublish(r)
        PROVE  log' = log
    BY <1>5 DEF RunStart, Refuse, Accept, BeginHold, EarlyError, ReadSequence, Decide,
                DecideCancelled, DecideAnswered, SeeCancel, SealRead, SealSynthetic, Completed,
                ClearRun, Remove, ClearReported, RunCancel, Publish, FlushTake, FlushPublish,
                storeVars
  <1>6. ASSUME NEW c \in Approval,
               CheckLive(c) \/ ReadWaiting(c) \/ ReadTail(c) \/ \E r \in Run : Resolve(c, r)
        PROVE  log' = log
    BY <1>6 DEF Resolve, CheckLive, ReadWaiting, ReadTail, CommandAt, storeVars
  <1>7. ASSUME BeginStop \/ StopStep \/ Exited \/ UNCHANGED vars PROVE log' = log
    BY <1>7 DEF BeginStop, StopStep, CancelAll, Drain, Joined, Stop, Exited, vars, storeVars
  <1> HIDE DEF Puts
  <1>8. log' = log \/ \E q \in Run, k \in Kind \ {"synthetic"} : Puts(q, k) /\ MayStore(q, k)
    BY <1>2, <1>3, <1>4, <1>5, <1>6, <1>7 DEF RunNext, RunStep, EngineStep, CommandStep
  <1> QED
    BY <1>8 DEF Puts

\* What is in the store stays there.
LEMMA StaysLogged ==
  ASSUME RunTypes, [RunNext]_vars, NEW q \in Run, NEW j \in Kind, Logged(q, j)
  PROVE  Logged(q, j)'
  <1>1. CASE log' = log
    BY <1>1 DEF Logged
  <1>2. CASE log' # log
    BY <1>2, Storing, PersistLogged DEF RunTypes
  <1> QED
    BY <1>1, <1>2

LEMMA RecordOthers ==
  ASSUME RunTypes, RecordInv,
         \/ \E c \in Approval : CommandStep(c) \/ \E r \in Run : Resolve(c, r)
         \/ \E r \in Run : RunCancel(r)
         \/ BeginStop \/ StopStep \/ Exited \/ UNCHANGED vars
  PROVE  \A q \in Run : RecordOK(q)'
  <1> SUFFICES ASSUME NEW q \in Run PROVE RecordOK(q)'
    OBVIOUS
  <1>1. ASSUME UNCHANGED <<pc, log, held, out, stream>> PROVE RecordOK(q)'
    BY <1>1, RecordIdle
  <1>2. ASSUME NEW c \in Approval, SealResponded(c) \/ SealExecuted(c) PROVE RecordOK(q)'
    <2>1. UNCHANGED <<pc, held, out, stream>> /\ apc[c] # "idle"
      BY <1>2 DEF SealResponded, SealExecuted, Seal, busVars, holdVars
    <2>2. target[c] \in Run /\ Logged(target[c], "asked") /\ StoreOK
      BY <2>1 DEF RunTypes, TargetsOK, RecordInv
    <2>3. CASE log' = log
      BY <1>1, <2>1, <2>3
    <2>4. ASSUME NEW k \in {"responded", "executed"},
                 log' = [log EXCEPT ![Home[target[c]]] = Append(@, Ev(target[c], k))]
          PROVE  RecordOK(q)'
      <3>1. k \in Kind
        BY DEF Kind
      <3>2. ASSUME NEW j \in Kind
            PROVE  Logged(q, j)' <=> Logged(q, j) \/ (q = target[c] /\ j = k)
        BY <2>2, <2>4, <3>1, PersistLogged
      <3>3. ShownOf(q, {"started"})' = ShownOf(q, {"started"})
        BY <2>1 DEF ShownOf, Places
      <3> QED
        BY <2>1, <2>2, <3>2, <3>3, RecordFrame DEF RecordInv
    <2> QED
      BY <1>2, <2>3, <2>4 DEF SealResponded, SealExecuted, Seal, Persist, storeVars
  <1>3. ASSUME NEW c \in Approval,
               CheckLive(c) \/ ReadWaiting(c) \/ ReadTail(c) \/ \E r \in Run : Resolve(c, r)
        PROVE  UNCHANGED <<pc, log, held, out, stream>>
    BY <1>3 DEF Resolve, CheckLive, ReadWaiting, ReadTail, CommandAt, storeVars, busVars, holdVars
  <1>4. ASSUME (\E r \in Run : RunCancel(r)) \/ BeginStop \/ StopStep \/ Exited \/ UNCHANGED vars
        PROVE  UNCHANGED <<pc, log, held, out, stream>>
    BY <1>4 DEF RunCancel, BeginStop, StopStep, CancelAll, Drain, Joined, Stop, Exited, vars,
                storeVars, busVars, holdVars
  <1> QED
    BY <1>1, <1>2, <1>3, <1>4 DEF CommandStep

LEMMA RecordStep ==
  ASSUME RunTypes, OneRunPerSession, FreeInv, LifeInv, LifeInv', RecordInv, [RunNext]_vars
  PROVE  RecordInv'
  <1>1. \A q \in Run : RecordOK(q)'
    <2>1. CASE \/ \E c \in Approval : CommandStep(c) \/ \E r \in Run : Resolve(c, r)
               \/ \E r \in Run : RunCancel(r)
               \/ BeginStop \/ StopStep \/ Exited \/ UNCHANGED vars
      BY <2>1, RecordOthers
    <2>2. ASSUME NEW r \in Run, RunStart(r) \/ RunStep(r) \/ EngineStep(r)
          PROVE  \A q \in Run : RecordOK(q)'
      <3>1. CASE \/ RunStart(r) \/ Refuse(r) \/ Accept(r) \/ BeginHold(r) \/ EarlyError(r)
                 \/ ReadSequence(r) \/ Decide(r) \/ DecideCancelled(r) \/ DecideAnswered(r)
                 \/ SeeCancel(r) \/ SealRead(r) \/ Completed(r) \/ ClearRun(r) \/ Remove(r)
        BY <3>1, RecordQuiet
      <3>2. CASE \/ Started(r) \/ Complete(r) \/ Fail(r) \/ Ask(r) \/ Respond(r) \/ Execute(r)
                 \/ EmitCancelled(r)
        BY <3>2, RecordEngine
      <3>3. CASE SealStarted(r) \/ SealFailed(r) \/ SealSynthetic(r)
        BY <3>3, RecordSeal
      <3>4. CASE Publish(r)
        BY <3>4, RecordPublish
      <3>5. CASE FlushTake(r) \/ FlushPublish(r) \/ ClearReported(r)
        BY <3>5, RecordFlush
      <3> QED
        BY <2>2, <3>1, <3>2, <3>3, <3>4, <3>5 DEF RunStep, EngineStep
    <2> QED
      BY <2>1, <2>2 DEF RunNext
  <1>2. ASSUME NEW c \in Approval, apc'[c] # "idle" PROVE Logged(target[c], "asked")'
    <2>1. "asked" \in Kind
      BY DEF Kind
    <2>9. ASSUME NEW q \in Run, Logged(q, "asked"), target'[c] = q
          PROVE  Logged(target[c], "asked")'
      <3>1. Logged(q, "asked")'
        BY <2>1, <2>9, StaysLogged
      <3> QED
        BY <2>9, <3>1 DEF Logged
    <2>2. CASE apc[c] # "idle" /\ target'[c] = target[c]
      BY <2>2, <2>9 DEF RecordInv, RunTypes, TargetsOK
    <2>3. ASSUME NEW d \in Approval, NEW r \in Run, Resolve(d, r)
          PROVE  IF c = d THEN target'[c] = r /\ Logged(r, "asked")
                          ELSE apc'[c] = apc[c] /\ target'[c] = target[c]
      BY <2>3 DEF Resolve, RunTypes, ControlOK
    <2>4. CASE \E d \in Approval, r \in Run : Resolve(d, r)
      <3>1. PICK d \in Approval, r \in Run : Resolve(d, r)
        BY <2>4
      <3>2. CASE c = d
        BY <2>3, <2>9, <3>1, <3>2
      <3>3. CASE c # d
        BY <1>2, <2>2, <2>3, <3>1, <3>3
      <3> QED
        BY <3>2, <3>3
    <2>5. ASSUME NEW d \in Approval, CommandStep(d) PROVE apc[c] # "idle" /\ target' = target
      BY <1>2, <2>5 DEF CommandStep, CheckLive, ReadWaiting, ReadTail, SealResponded, SealExecuted,
                        CommandAt, Seal, RunTypes, ControlOK
    <2>6. CASE UNCHANGED commandVars
      BY <1>2, <2>2, <2>6 DEF commandVars
    <2>7. ASSUME NEW r \in Run, RunStart(r) \/ RunStep(r) \/ EngineStep(r) \/ RunCancel(r)
          PROVE  UNCHANGED commandVars
      <3>1. ASSUME NEW k, NEW then, Emit(r, k, then) PROVE UNCHANGED commandVars
        BY <3>1 DEF Emit
      <3> QED
        BY <2>7, <3>1 DEF RunStep, EngineStep, RunStart, Refuse, Accept, BeginHold, EarlyError,
           ReadSequence, Decide, DecideCancelled, DecideAnswered, SeeCancel, SealRead, SealStarted,
           SealFailed, SealSynthetic, Completed, ClearRun, Remove, FlushTake, FlushPublish,
           ClearReported, RunCancel, Publish, Started, Complete, Fail, Ask, Respond, Execute,
           EmitCancelled
    <2>8. ASSUME BeginStop \/ StopStep \/ Exited \/ UNCHANGED vars PROVE UNCHANGED commandVars
      BY <2>8 DEF BeginStop, StopStep, CancelAll, Drain, Joined, Stop, Exited, vars, commandVars
    <2> QED
      BY <2>2, <2>4, <2>5, <2>6, <2>7, <2>8 DEF RunNext
  <1>3. lock' # Nobody => pc'[lock'] = "publishing"
    <2>1. ASSUME NEW r \in Run, FlushTake(r) PROVE lock' = r /\ pc'[r] = "publishing"
      BY <2>1 DEF FlushTake, Goto, RunTypes, ControlOK
    <2>2. ASSUME NEW r \in Run, FlushPublish(r) PROVE lock' = Nobody
      BY <2>2 DEF FlushPublish
    <2>3. CASE ~(\E r \in Run : FlushTake(r) \/ FlushPublish(r))
      <3>1. lock' = lock
        BY <2>3, LockChanges
      <3>2. lock # Nobody => lock \in Run /\ pc[lock] = "publishing"
        BY DEF RecordInv, RunTypes, ControlOK
      <3> QED
        BY <2>3, <3>1, <3>2, Moves DEF RunTypes
    <2> QED
      BY <2>1, <2>2, <2>3
  <1> QED
    BY <1>1, <1>2, <1>3 DEF RecordInv

LEMMA RecordInit == RunInit => RecordInv
  <1> SUFFICES ASSUME RunInit PROVE RecordInv
    OBVIOUS
  <1>1. ASSUME NEW q \in Run PROVE RecordOK(q)
    <2>1. /\ \A k : ~Logged(q, k)
          /\ out[q] = <<>> /\ held[Home[q]] = <<>> /\ pc[q] = "idle"
      BY EventFacts DEF RunInit, Logged
    <2>2. ~HasEnding(q) /\ "idle" \notin Deferring
      BY <2>1 DEF HasEnding, Deferring, InEngine, Closing
    <2> QED
      BY <2>1, <2>2 DEF RecordOK, StartAndEnd, Turning
  <1> QED
    BY <1>1 DEF RunInit, RecordInv

\* What a run has under way is in the store, with the start before the ending.
LEMMA RecordHolds == RunSpec => []RecordInv
  BY RecordInit, RecordStep, LifeHolds, FreeHolds, RunTypesHold, SlotCorrect, PTL DEF RunSpec

-----------------------------------------------------------------------------
(* The turns as a service                                                  *)

Phases == [q \in Run |-> Phase(q)]
Feeds == [s \in Session |-> stream[s] \o Flushing(s)]

Gone == {"publishing", "flushed", "done"}

LEMMA PhaseIs ==
  ControlOK =>
    \A q \in Run :
      /\ pc[q] \in {"idle", "refused"} \union Holding \union Gone
      /\ Phase(q) = IF pc[q] = "idle" THEN "new" ELSE IF pc[q] = "refused" THEN "refused"
                    ELSE IF pc[q] \in Holding THEN "open" ELSE "over"
      /\ pc[q] \in Holding => pc[q] \notin {"idle", "refused"} \union Gone
  BY DEF ControlOK, Idle, Holding, InEngine, Closing, Gone, Phase

\* One run changes its phase.
LEMMA PhaseMoved ==
  ASSUME ControlOK, NEW r \in Run, NEW l, pc' = [pc EXCEPT ![r] = l]
  PROVE  Phases' = [Phases EXCEPT ![r] = Phase(r)']
  <1>1. \A q \in Run : q # r => pc'[q] = pc[q]
    BY DEF ControlOK
  <1>2. \A q \in Run : q # r => Phase(q)' = Phase(q)
    BY <1>1 DEF Phase
  <1>3. Phases' = [q \in Run |-> Phase(q)']
    BY DEF Phases
  <1> QED
    BY <1>2, <1>3 DEF Phases

LEMMA PhaseKept ==
  ASSUME ControlOK, ControlOK', [RunNext]_vars,
         ~(\E r \in Run : RunStart(r) \/ Refuse(r) \/ FlushTake(r))
  PROVE  Phases' = Phases
  <1>1. ASSUME pc' = pc PROVE Phases' = Phases
    <2>1. \A q \in Run : Phase(q)' = Phase(q)
      BY <1>1 DEF Phase
    <2> QED
      BY <2>1 DEF Phases
  <1>2. ASSUME NEW r \in Run, NEW l, pc' = [pc EXCEPT ![r] = l],
               (pc[r] \in Holding /\ l \in Holding) \/ (pc[r] \in Gone /\ l \in Gone)
        PROVE  Phases' = Phases
    <2>1. pc'[r] = l
      BY <1>2 DEF ControlOK
    <2>2. Phase(r)' = Phase(r)
      <3>1. \A g \in Gone : g \notin Holding \union {"idle", "refused"}
        BY DEF Gone, Holding, InEngine, Closing
      <3>2. Phase(r) = IF pc[r] = "idle" THEN "new" ELSE IF pc[r] = "refused" THEN "refused"
                       ELSE IF pc[r] \in Holding THEN "open" ELSE "over"
        BY PhaseIs
      <3>3. Phase(r)' = IF pc'[r] = "idle" THEN "new" ELSE IF pc'[r] = "refused" THEN "refused"
                        ELSE IF pc'[r] \in Holding THEN "open" ELSE "over"
        BY DEF ControlOK, Idle, Holding, InEngine, Closing, Phase
      <3>4. {"idle", "refused"} \intersect Holding = {}
        BY DEF Holding, InEngine, Closing
      <3> QED
        BY <1>2, <2>1, <3>1, <3>2, <3>3, <3>4
    <2> QED
      BY <1>2, <2>2, PhaseMoved DEF Phases
  <1>3. ASSUME NEW r \in Run,
               \/ Accept(r) \/ BeginHold(r) \/ EarlyError(r) \/ ReadSequence(r) \/ Decide(r)
               \/ DecideCancelled(r) \/ DecideAnswered(r) \/ SeeCancel(r) \/ SealRead(r)
               \/ SealStarted(r) \/ SealFailed(r) \/ SealSynthetic(r) \/ Completed(r)
               \/ ClearRun(r) \/ Remove(r) \/ FlushPublish(r) \/ ClearReported(r)
        PROVE  Phases' = Phases
    <2>1. CASE FlushPublish(r) \/ ClearReported(r)
      BY <1>2, <2>1 DEF FlushPublish, ClearReported, Goto, Gone
    <2>2. CASE ~(FlushPublish(r) \/ ClearReported(r))
      <3>1. pc[r] \in Holding
        BY <1>3, <2>2 DEF Accept, BeginHold, EarlyError, ReadSequence, Decide, DecideCancelled,
           DecideAnswered, SeeCancel, SealRead, SealStarted, SealFailed, SealSynthetic,
           Completed, ClearRun, Remove, Holding, InEngine, Closing
      <3>2. PICK l \in Holding : pc' = [pc EXCEPT ![r] = l]
        BY <1>3, <2>2 DEF Accept, BeginHold, EarlyError, ReadSequence, Decide, DecideCancelled,
           DecideAnswered, SeeCancel, SealRead, SealStarted, SealFailed, SealSynthetic,
           Completed, ClearRun, Remove, Goto, Holding, InEngine, Closing
      <3> QED
        BY <1>2, <3>1, <3>2
    <2> QED
      BY <2>1, <2>2
  <1>4. ASSUME NEW r \in Run,
               \/ Started(r) \/ Complete(r) \/ Fail(r) \/ Ask(r) \/ Respond(r) \/ Execute(r)
               \/ EmitCancelled(r)
        PROVE  Phases' = Phases
    <2>1. PICK k \in Kind \ {"synthetic"},
               then \in {"streaming", "deciding", "executing", "completed", "errored"} :
            /\ Emit(r, k, then)
            /\ \/ pc[r] = "ready" /\ k = "started" /\ then = "streaming"
               \/ pc[r] = "streaming" /\ k = "asked" /\ then = "deciding"
               \/ pc[r] = "answering" /\ k = "responded" /\ then = "executing"
               \/ pc[r] = "executing" /\ k = "executed" /\ then = "streaming"
               \/ pc[r] = "streaming" /\ k = "completed" /\ then = "completed"
               \/ pc[r] = "streaming" /\ k = "failed" /\ then = "errored"
               \/ pc[r] = "cancelling" /\ k = "cancelled" /\ then = "errored"
      BY <1>4, EngineEmits
    <2>2. pc[r] \in Holding /\ then \in Holding /\ "errored" \in Holding
      BY <2>1 DEF Holding, InEngine
    <2>3. PICK l \in {then, "errored"} : pc' = [pc EXCEPT ![r] = l]
      BY <2>1 DEF Emit, Goto
    <2> QED
      BY <1>2, <2>2, <2>3
  <1>5. ASSUME NEW c \in Approval, CommandStep(c) \/ \E r \in Run : Resolve(c, r) PROVE pc' = pc
    BY <1>5 DEF Resolve, CommandStep, CheckLive, ReadWaiting, ReadTail, SealResponded,
                SealExecuted, CommandAt, Seal
  <1>6. ASSUME (\E r \in Run : Publish(r) \/ RunCancel(r)) \/ BeginStop \/ StopStep \/ Exited
               \/ UNCHANGED vars
        PROVE  pc' = pc
    BY <1>6 DEF Publish, RunCancel, BeginStop, StopStep, CancelAll, Drain, Joined, Stop, Exited,
                vars
  <1> QED
    BY <1>1, <1>3, <1>4, <1>5, <1>6 DEF RunNext, RunStep, EngineStep

\* A flush is the only one to publish while it holds the lock.
LEMMA FeedKept ==
  ASSUME RunTypes, RunTypes', LifeInv, RecordInv, [RunNext]_vars, ~(\E r \in Run : FlushTake(r)),
         (\E r \in Run : Publish(r)) => stream' = stream
  PROVE  Feeds' = Feeds
  <1> SUFFICES ASSUME NEW s \in Session
               PROVE  (stream[s] \o Flushing(s))' = stream[s] \o Flushing(s)
    BY DEF Feeds
  <1>1. \A q \in Seq(Event) : q \o <<>> = q
    OBVIOUS
  <1>2. CASE \E r \in Run : FlushPublish(r)
    <2>1. PICK r \in Run : FlushPublish(r)
      BY <1>2
    <2>2. /\ pc[r] = "publishing" /\ lock' = Nobody
          /\ stream'[s] = IF s = Home[r] THEN stream[s] \o out[r] ELSE stream[s]
      BY <2>1 DEF FlushPublish, RunTypes, BusOK
    <2>3. lock = r /\ r # Nobody
      BY <2>2, WriterAssumption DEF LifeInv, LifeOK
    <2>4. Flushing(s) = IF s = Home[r] THEN out[r] ELSE <<>>
      BY <2>3 DEF Flushing
    <2>5. Flushing(s)' = <<>>
      BY <2>2 DEF Flushing
    <2>6. stream[s] \in Seq(Event) /\ stream'[s] \in Seq(Event)
      BY DEF RunTypes, BusOK
    <2> QED
      BY <1>1, <2>2, <2>4, <2>5, <2>6
  <1>3. CASE \E r \in Run : Publish(r)
    <2>1. lock = Nobody /\ lock' = Nobody
      BY <1>3 DEF Publish
    <2>2. Flushing(s) = <<>> /\ Flushing(s)' = <<>>
      BY <2>1 DEF Flushing
    <2> QED
      BY <1>3, <2>2
  <1>4. CASE ~(\E r \in Run : Publish(r) \/ FlushPublish(r))
    <2>1. lock' = lock
      BY <1>4, LockChanges
    <2>2. lock # Nobody => lock \in Run /\ pc[lock] = "publishing"
      BY DEF RecordInv, RunTypes, ControlOK
    <2>3. stream' = stream /\ (lock # Nobody => out'[lock] = out[lock])
      <3>1. CASE UNCHANGED <<held, stream, out>>
        BY <3>1
      <3>2. ASSUME NEW r \in Run, NEW es, UNCHANGED <<held, stream>>, out' = [out EXCEPT ![r] = es],
                   pc[r] \in Deferring
            PROVE  stream' = stream /\ (lock # Nobody => out'[lock] = out[lock])
        <4>1. pc[r] # "publishing"
          BY <3>2 DEF Deferring, InEngine, Closing
        <4> QED
          BY <2>2, <3>2, <4>1 DEF RunTypes, BusOK
      <3> QED
        BY <1>4, <3>1, <3>2, Outgoing DEF RunTypes
    <2>4. Flushing(s)' = Flushing(s)
      BY <2>1, <2>3 DEF Flushing
    <2> QED
      BY <2>3, <2>4
  <1> QED
    BY <1>2, <1>3, <1>4

LEMMA StartsTurn ==
  ASSUME RunTypes, RunTypes', OneRunPerSession, LifeInv, RecordInv, NEW r \in Run, RunStart(r)
  PROVE  Service!Open(r)
  <1>1. /\ pc[r] = "idle" /\ pc' = [pc EXCEPT ![r] = "starting"] /\ Home[r] \notin busy
        /\ UNCHANGED <<log, stream, out, lock>>
    BY DEF RunStart, Goto, storeVars, busVars, holdVars
  <1>2. Feeds' = Feeds
    <2>1. \A s \in Session : (stream[s] \o Flushing(s))' = stream[s] \o Flushing(s)
      BY <1>1 DEF Flushing
    <2> QED
      BY <2>1 DEF Feeds
  <1>3. Phases[r] = "new" /\ Phase(r)' = "open"
    BY <1>1 DEF Phases, Phase, Holding, InEngine, Closing, RunTypes, ControlOK
  <1>4. Phases' = [Phases EXCEPT ![r] = "open"]
    BY <1>1, <1>3, PhaseMoved DEF RunTypes
  <1>5. \A q \in Run : Phases[q] = "open" => Home[q] # Home[r]
    <2> SUFFICES ASSUME NEW q \in Run, Phases[q] = "open" PROVE Home[q] # Home[r]
      OBVIOUS
    <2>1. pc[q] \in Holding
      BY PhaseIs DEF Phases, RunTypes
    <2> QED
      BY <1>1, <2>1 DEF OneRunPerSession
  <1> QED
    BY <1>1, <1>2, <1>3, <1>4, <1>5 DEF Service!Open, Phases, Feeds

LEMMA RefusesTurn ==
  ASSUME RunTypes, RunTypes', RecordInv, NEW r \in Run, Refuse(r)
  PROVE  Service!Refuse(r)
  <1>1. /\ pc[r] = "starting" /\ pc' = [pc EXCEPT ![r] = "refused"]
        /\ UNCHANGED <<log, stream, out, lock>>
    BY DEF Refuse, Goto, storeVars, busVars, holdVars
  <1>2. Feeds' = Feeds
    <2>1. \A s \in Session : (stream[s] \o Flushing(s))' = stream[s] \o Flushing(s)
      BY <1>1 DEF Flushing
    <2> QED
      BY <2>1 DEF Feeds
  <1>3. Phases[r] = "open" /\ Phase(r)' = "refused"
    BY <1>1 DEF Phases, Phase, Holding, InEngine, Closing, RunTypes, ControlOK
  <1>4. Phases' = [Phases EXCEPT ![r] = "refused"]
    BY <1>1, <1>3, PhaseMoved DEF RunTypes
  <1>5. \A i \in DOMAIN log[Home[r]] : log[Home[r]][i].run # r
    <2> SUFFICES ASSUME NEW i \in DOMAIN log[Home[r]], log[Home[r]][i].run = r PROVE FALSE
      OBVIOUS
    <2>1. log[Home[r]] \in Seq(Event)
      BY EventFacts DEF RunTypes, StoreOK
    <2>2. log[Home[r]][i] \in Event
      BY <2>1, ElementOfSeq, LenProperties
    <2>3. PICK k \in Kind : log[Home[r]][i] = Ev(r, k)
      BY <2>2 DEF Event, Ev
    <2> QED
      BY <1>1, <2>3 DEF RecordInv, RecordOK, Before, Logged
  <1> QED
    BY <1>1, <1>2, <1>3, <1>4, <1>5 DEF Service!Refuse, Phases, Feeds

\* What the service calls recorded, and what it calls shown.
LEMMA ServiceWords ==
  ASSUME RunTypes, NEW r \in Run, NEW k
  PROVE  /\ Service!Recorded(r, k) <=> Logged(r, k)
         /\ lock = Nobody /\ k \in Kind => (Service!Shown(r, k) <=> ShownOf(r, {k}) # {})
         /\ Service!E(r, k) = Ev(r, k)
  <1>1. Service!Recorded(r, k) <=> Logged(r, k)
    BY DEF Service!Recorded, Service!Has, Service!E, Logged, Ev
  <1>2. ASSUME lock = Nobody, k \in Kind PROVE Service!Shown(r, k) <=> ShownOf(r, {k}) # {}
    <2>1. /\ Home[r] \in Session /\ stream[Home[r]] \in Seq(Event)
      BY EventFacts DEF RunTypes, BusOK
    <2>2. Feeds[Home[r]] = stream[Home[r]]
      <3>1. Flushing(Home[r]) = <<>>
        BY <1>2 DEF Flushing
      <3>2. stream[Home[r]] \o <<>> = stream[Home[r]]
        BY <2>1
      <3> QED
        BY <2>1, <3>1, <3>2 DEF Feeds
    <2>3. Service!Shown(r, k) <=> \E i \in DOMAIN stream[Home[r]] : stream[Home[r]][i] = Ev(r, k)
      BY <2>2 DEF Service!Shown, Service!Has, Service!E, Feeds, Ev
    <2>4. ASSUME NEW i \in DOMAIN stream[Home[r]]
          PROVE  stream[Home[r]][i] = Ev(r, k) <=> i \in ShownOf(r, {k})
      <3>1. stream[Home[r]][i] \in Event
        BY <2>1, ElementOfSeq, LenProperties
      <3>2. stream[Home[r]][i] = Ev(r, k) <=> stream[Home[r]][i].run = r /\ stream[Home[r]][i].kind = k
        BY <3>1 DEF Event, Ev
      <3> QED
        BY <3>2 DEF ShownOf, Places
    <2>5. \A i \in ShownOf(r, {k}) : i \in DOMAIN stream[Home[r]]
      BY DEF ShownOf, Places
    <2> QED
      BY <2>3, <2>4, <2>5
  <1>3. Service!E(r, k) = Ev(r, k)
    BY DEF Service!E, Ev
  <1> QED
    BY <1>1, <1>2, <1>3

\* One more event at the end of what a session is shown.
LEMMA FeedGrows ==
  ASSUME NEW r \in Run, NEW e, Home[r] \in Session,
         (stream[Home[r]] \o Flushing(Home[r]))' = Append(stream[Home[r]] \o Flushing(Home[r]), e),
         \A s \in Session \ {Home[r]} : (stream[s] \o Flushing(s))' = stream[s] \o Flushing(s)
  PROVE  Feeds' = [Feeds EXCEPT ![Home[r]] = Append(@, e)]
  <1>1. Feeds' = [s \in Session |-> (stream[s] \o Flushing(s))']
    BY DEF Feeds
  <1>2. \A s \in Session : Feeds[s] = stream[s] \o Flushing(s)
    BY DEF Feeds
  <1> QED
    BY <1>1, <1>2 DEF Feeds

LEMMA ShowsStart ==
  ASSUME RunTypes, RunTypes', OneRunPerSession, FreeInv, LifeInv, RecordInv, NEW r \in Run,
         Publish(r), Head(out[r]) = Ev(r, "started"), Phases' = Phases
  PROVE  Service!Start(r)
  <1>1. /\ Home[r] \in Session /\ lock = Nobody /\ lock' = Nobody /\ log' = log
        /\ stream[Home[r]] \in Seq(Event) /\ Ev(r, "started") \in Event
        /\ RecordOK(r) /\ LifeOK(r) /\ "started" \in Kind
    BY EventFacts DEF RunTypes, BusOK, Publish, RecordInv, LifeInv, storeVars, Kind, Shown
  <1>2. stream' = [stream EXCEPT ![Home[r]] = Append(@, Ev(r, "started"))]
    <2>1. Ev(r, "started").run = r /\ Ev(r, "started").kind = "started" /\ "started" \notin Terminal
      BY DEF Ev, Terminal
    <2>2. held[Home[r]] = <<>>
      BY NextKind
    <2> QED
      BY <2>1, <2>2 DEF Publish, Dispatch
  <1>3. Feeds' = [Feeds EXCEPT ![Home[r]] = Append(@, Ev(r, "started"))]
    <2>1. \A s : Flushing(s) = <<>> /\ Flushing(s)' = <<>>
      BY <1>1 DEF Flushing
    <2>2. \A s \in Session : stream'[s] = IF s = Home[r] THEN Append(stream[s], Ev(r, "started"))
                                          ELSE stream[s]
      BY <1>2 DEF RunTypes, BusOK
    <2>3. stream[Home[r]] \o <<>> = stream[Home[r]]
          /\ Append(stream[Home[r]], Ev(r, "started")) \o <<>> = Append(stream[Home[r]], Ev(r, "started"))
      BY <1>1
    <2>4. (stream[Home[r]] \o Flushing(Home[r]))'
            = Append(stream[Home[r]] \o Flushing(Home[r]), Ev(r, "started"))
      BY <1>1, <2>1, <2>2, <2>3
    <2>5. \A s \in Session \ {Home[r]} : (stream[s] \o Flushing(s))' = stream[s] \o Flushing(s)
      BY <2>1, <2>2
    <2> QED
      BY <1>1, <2>4, <2>5, FeedGrows
  <1>4. /\ ShownOf(r, {"started"}) = {}
        /\ pc[r] \in Turning \union {"clearing"}
        /\ Logged(r, "started")
    <2>1. \A k \in Terminal : Head(out[r]) # Ev(r, k)
      BY DEF Ev, Terminal
    <2>2. /\ ShownOf(r, {"started"}) = {}
          /\ pc[r] \in Turning \union {"clearing"}
      BY <2>1, NextKind
    <2>3. pc[r] = "clearing" => out[r] = StartAndEnd(r)
      <3>1. \A k : Head(<<Ev(r, k)>>) = Ev(r, k)
        OBVIOUS
      <3>2. \A k \in Terminal : out[r] # <<Ev(r, k)>>
        BY <2>1, <3>1
      <3> QED
        BY <1>1, <3>2 DEF LifeOK, Closed, IsEnd, StartAndEnd, Publish
    <2> QED
      BY <1>1, <2>2, <2>3 DEF LifeOK, RecordOK
  <1>5. Phases[r] = "open"
    <2>1. pc[r] \in Holding
      BY <1>4 DEF Turning, Holding, InEngine, Closing
    <2> QED
      BY <2>1, PhaseIs DEF Phases, RunTypes
  <1>6. Service!Recorded(r, "started") /\ ~Service!Shown(r, "started")
    BY <1>1, <1>4, ServiceWords
  <1>7. Service!Show(r, "started")
    BY <1>3, ServiceWords DEF Service!Show, Feeds
  <1> QED
    BY <1>1, <1>5, <1>6, <1>7 DEF Service!Start, Phases

LEMMA EndsTurn ==
  ASSUME RunTypes, RunTypes', LifeInv, RecordInv, NEW r \in Run, FlushTake(r)
  PROVE  \E k \in Terminal : Service!End(r, k)
  <1>1. /\ Home[r] \in Session /\ lock = Nobody /\ lock' = r /\ r # Nobody /\ UNCHANGED <<log, stream>>
        /\ stream[Home[r]] \in Seq(Event)
        /\ RecordOK(r) /\ LifeOK(r) /\ pc[r] = "flushing" /\ pc' = [pc EXCEPT ![r] = "publishing"]
    BY EventFacts, WriterAssumption
    DEF RunTypes, BusOK, FlushTake, RecordInv, LifeInv, storeVars, Goto
  <1>2. PICK k \in Terminal : held[Home[r]] = <<Ev(r, k)>>
    BY <1>1 DEF LifeOK, IsEnd
  <1>3. Ev(r, k) \in Event /\ out'[r] = <<Ev(r, k)>>
    BY <1>2, EventFacts DEF FlushTake, RunTypes, BusOK, Kind, Shown
  <1>4. Feeds' = [Feeds EXCEPT ![Home[r]] = Append(@, Ev(r, k))]
    <2>1. \A s : /\ Flushing(s) = <<>>
                 /\ Flushing(s)' = IF s = Home[r] THEN <<Ev(r, k)>> ELSE <<>>
      BY <1>1, <1>3 DEF Flushing
    <2>2. stream[Home[r]] \o <<Ev(r, k)>> = Append(stream[Home[r]] \o <<>>, Ev(r, k))
      BY <1>1, <1>3
    <2>3. (stream[Home[r]] \o Flushing(Home[r]))'
            = Append(stream[Home[r]] \o Flushing(Home[r]), Ev(r, k))
      BY <1>1, <2>1, <2>2
    <2>4. \A s \in Session \ {Home[r]} : (stream[s] \o Flushing(s))' = stream[s] \o Flushing(s)
      BY <1>1, <2>1
    <2> QED
      BY <1>1, <2>3, <2>4, FeedGrows
  <1>5. Phases[r] = "open" /\ Phase(r)' = "over"
    BY <1>1 DEF Phases, Phase, Holding, InEngine, Closing, RunTypes, ControlOK
  <1>6. Phases' = [Phases EXCEPT ![r] = "over"]
    BY <1>1, <1>5, PhaseMoved DEF RunTypes
  <1>7. Backed(r, k) /\ (HasEnding(r) => ShownOf(r, {"started"}) # {})
    <2>1. pc[r] \in Deferring /\ out[r] = <<>>
      BY <1>1 DEF LifeOK, Deferring, Closing
    <2>2. out[r] # Start(r) /\ out[r] # StartAndEnd(r)
      BY <2>1 DEF Start, StartAndEnd
    <2> QED
      BY <1>1, <1>2, <2>1, <2>2 DEF RecordOK
  <1>8. \/ k \in Service!Ending /\ Service!Recorded(r, k) /\ Service!Shown(r, "started")
        \/ k = Service!MadeUp /\ \A e \in Service!Ending : ~Service!Recorded(r, e)
    <2>1. CASE k = "synthetic"
      <3>1. Service!Ending \subseteq Terminal
        BY DEF Service!Ending, Terminal
      <3>2. \A e \in Terminal : ~Logged(r, e)
        BY <1>7, <2>1 DEF Backed, HasEnding
      <3> QED
        BY <2>1, <3>1, <3>2, ServiceWords DEF Service!MadeUp
    <2>2. CASE k # "synthetic"
      <3>1. Logged(r, k)
        BY <1>7, <2>2 DEF Backed
      <3>2. ShownOf(r, {"started"}) # {} /\ "started" \in Kind
        BY <1>7, <3>1 DEF HasEnding, Kind, Shown
      <3>3. k \in Service!Ending
        BY <2>2 DEF Service!Ending, Terminal
      <3> QED
        BY <1>1, <3>1, <3>2, <3>3, ServiceWords
    <2> QED
      BY <2>1, <2>2
  <1>9. Service!Show(r, k)
    BY <1>4, ServiceWords DEF Service!Show, Feeds
  <1> QED
    BY <1>1, <1>5, <1>6, <1>8, <1>9 DEF Service!End, Phases

LEMMA StoresEvent ==
  ASSUME RunTypes, LifeInv, RecordInv, NEW r \in Run, NEW k \in Kind \ {"synthetic"},
         MayStore(r, k), log' = [log EXCEPT ![Home[r]] = Append(@, Ev(r, k))],
         Phases' = Phases, Feeds' = Feeds
  PROVE  Service!Record(r, k)
  <1>1. RecordOK(r) /\ LifeOK(r)
    BY DEF RecordInv, LifeInv
  <1>2. Service!MayRecord(r, k) \/ Service!MayClose(r, k)
    <2>1. ASSUME ~HasEnding(r), pc[r] \in Holding, Logged(r, "started") <=> k # "started"
          PROVE  Service!MayRecord(r, k)
      <3>1. Phases[r] = "open"
        BY <2>1, PhaseIs DEF Phases, RunTypes
      <3>2. \A e \in Service!Ending : ~Service!Recorded(r, e)
        <4>1. Service!Ending \subseteq Terminal
          BY DEF Service!Ending, Terminal
        <4> QED
          BY <2>1, <4>1, ServiceWords DEF HasEnding
      <3>3. Service!Recorded(r, "started") <=> k # "started"
        BY <2>1, ServiceWords
      <3> QED
        BY <3>1, <3>2, <3>3 DEF Service!MayRecord, Phases
    <2>2. CASE k = "started" /\ pc[r] \in {"ready", "opening"}
      <3>1. ~Logged(r, "started")
        BY <1>1, <2>2 DEF RecordOK, Before, Kind, Shown
      <3>2. ~HasEnding(r)
        BY <1>1, <3>1 DEF RecordOK
      <3>3. pc[r] \in Holding
        BY <2>2 DEF Holding, InEngine, Closing
      <3> QED
        BY <2>1, <2>2, <3>1, <3>2, <3>3
    <2>3. CASE k # "started" /\ pc[r] \in Turning \union {"opened", "sealing"}
      <3>1. Logged(r, "started")
        BY <1>1, <2>3 DEF RecordOK, LifeOK
      <3>2. Stored(r, Terminal) = {}
        BY <1>1, <2>3 DEF LifeOK, NoEnd, SealAt
      <3>3. pc[r] \in Holding
        BY <2>3 DEF Holding, InEngine, Closing, Turning
      <3> QED
        BY <2>1, <2>3, <3>1, <3>2, <3>3, NoEndLogged
    <2>4. CASE k \in {"responded", "executed"} /\ \E c \in Approval : apc[c] # "idle" /\ target[c] = r
      <3>1. Logged(r, "asked")
        BY <2>4 DEF RecordInv
      <3> QED
        BY <2>4, <3>1, ServiceWords DEF Service!MayClose
    <2> QED
      BY <2>2, <2>3, <2>4 DEF MayStore
  <1>3. log' = [log EXCEPT ![Home[r]] = Append(@, Service!E(r, k))]
    BY ServiceWords
  <1> QED
    BY <1>2, <1>3 DEF Service!Record, Service!MadeUp, Phases, Feeds

LEMMA ServiceStep ==
  ASSUME RunTypes, RunTypes', OneRunPerSession, FreeInv, LifeInv, RecordInv, [RunNext]_vars
  PROVE  [Service!Next]_Service!svars
  <1> DEFINE Same == Phases' = Phases /\ Feeds' = Feeds
             Turn(r) == RunStart(r) \/ Refuse(r) \/ FlushTake(r)
  <1>1. Terminal \union Kind \subseteq Service!Kinds
    BY DEF Terminal, Kind, Shown, Service!Kinds, Service!Ending, Service!MadeUp
  <1>2. ASSUME Same, log' = log PROVE UNCHANGED Service!svars
    BY <1>2 DEF Service!svars, Phases, Feeds
  <1>3. CASE \E r \in Run : RunStart(r)
    BY <1>3, StartsTurn DEF Service!Next
  <1>4. CASE \E r \in Run : Refuse(r)
    BY <1>4, RefusesTurn DEF Service!Next
  <1>5. CASE \E r \in Run : FlushTake(r)
    <2>1. PICK r \in Run, k \in Terminal : Service!End(r, k)
      BY <1>5, EndsTurn
    <2>2. k \in Service!Kinds
      BY <1>1
    <2> QED
      BY <2>1, <2>2 DEF Service!Next
  <1>6. CASE ~(\E r \in Run : Turn(r)) /\ \E r \in Run : Publish(r)
    <2>1. PICK r \in Run : Publish(r)
      BY <1>6
    <2>2. Phases' = Phases
      BY <1>6, PhaseKept DEF RunTypes
    <2>3. CASE Head(out[r]) = Ev(r, "started")
      BY <2>1, <2>2, <2>3, ShowsStart DEF Service!Next
    <2>4. CASE Head(out[r]) # Ev(r, "started")
      <3>1. PICK k \in Terminal : Head(out[r]) = Ev(r, k)
        BY <2>1, <2>4, NextKind
      <3>2. pc[r] \in Deferring /\ Ev(r, k).run = r /\ Ev(r, k).kind = k
        BY <2>1, NextIsOwn DEF Ev, RunTypes, FreeInv
      <3>3. held[Home[r]] = <<>> /\ Home[r] \in deferred
        BY <2>1, <3>2, NextKind DEF FreeInv, HoldIsOn
      <3>4. stream' = stream /\ log' = log
        BY <2>1, <3>1, <3>2, <3>3 DEF Publish, Dispatch, storeVars
      <3>5. Feeds' = Feeds
        BY <1>6, <3>4, FeedKept
      <3> QED
        BY <1>2, <2>2, <3>4, <3>5
    <2> QED
      BY <2>3, <2>4
  <1>7. CASE ~(\E r \in Run : Turn(r) \/ Publish(r))
    <2>1. Same
      BY <1>7, PhaseKept, FeedKept DEF RunTypes
    <2>2. CASE log' = log
      BY <1>2, <2>1, <2>2
    <2>3. CASE log' # log
      <3>1. PICK r \in Run, k \in Kind \ {"synthetic"} :
              log' = [log EXCEPT ![Home[r]] = Append(@, Ev(r, k))] /\ MayStore(r, k)
        BY <2>3, Storing
      <3>2. Service!Record(r, k)
        BY <2>1, <3>1, StoresEvent
      <3>3. k \in Service!Kinds
        BY <1>1
      <3> QED
        BY <3>2, <3>3 DEF Service!Next
    <2> QED
      BY <2>2, <2>3
  <1> QED
    BY <1>3, <1>4, <1>5, <1>6, <1>7

LEMMA ServiceInit == RunInit => Service!Init
  <1> SUFFICES ASSUME RunInit PROVE Service!Init
    OBVIOUS
  <1>1. \A q \in Run : Phase(q) = "new"
    BY DEF RunInit, Phase, Holding, InEngine, Closing
  <1>2. \A s \in Session : stream[s] \o Flushing(s) = <<>>
    BY DEF RunInit, Flushing
  <1> QED
    BY <1>1, <1>2 DEF RunInit, Service!Init

\* The host, its hold, its sealing and its shutdown together give whoever
\* watches a session one run after the other: recorded from its start to its
\* ending, shown as recorded, and over in the step that frees the session
\* (SessionSlotGuard, begin_terminal_hold, flush_held_session,
\* seal_run_without_terminal).
THEOREM RunImplementsTurnService == RunSpec => ImplementsTurnService
  <1>1. RunTypes /\ RunTypes' /\ OneRunPerSession /\ FreeInv /\ LifeInv /\ RecordInv
        /\ [RunNext]_vars => [Service!Next]_Service!svars
    BY ServiceStep
  <1>2. RunSpec => Service!Spec
    BY <1>1, ServiceInit, RunTypesHold, SlotCorrect, FreeHolds, LifeHolds, RecordHolds, PTL
    DEF RunSpec, Service!Spec
  <1> QED
    BY <1>2 DEF ImplementsTurnService

-----------------------------------------------------------------------------
(* The decision about a call                                               *)

DecisionOK(q) ==
  /\ pc[q] = "deciding" => q \notin answered
  /\ pc[q] = "waiting" =>
       (q \in pending <=> q \notin answered) /\ (q \in queued => q \in answered)
  /\ q \in pending => pc[q] = "waiting"
  /\ q \in answered => Logged(q, "asked")

DecisionInv == \A q \in Run : DecisionOK(q)

\* A call that nobody decides about, and that neither begins nor ends its wait.
LEMMA DecisionFrame ==
  ASSUME RunTypes, [RunNext]_vars, NEW q \in Run, DecisionOK(q),
         pc'[q] = pc[q] \/ {pc[q], pc'[q]} \intersect {"deciding", "waiting"} = {},
         q \in pending' <=> q \in pending,
         q \in queued' <=> q \in queued,
         q \in answered' <=> q \in answered
  PROVE  DecisionOK(q)'
  <1>1. "asked" \in Kind
    BY DEF Kind
  <1>2. q \in answered => Logged(q, "asked")'
    BY <1>1, StaysLogged DEF DecisionOK
  <1> QED
    BY <1>2 DEF DecisionOK

LEMMA DecisionStep ==
  ASSUME RunTypes, RecordInv, DecisionInv, [RunNext]_vars
  PROVE  DecisionInv'
  <1> SUFFICES ASSUME NEW q \in Run PROVE DecisionOK(q)'
    BY DEF DecisionInv
  <1>1. DecisionOK(q) /\ ControlOK
    BY DEF DecisionInv, RunTypes
  <1>2. ASSUME UNCHANGED <<pc, pending, queued, answered>> PROVE DecisionOK(q)'
    BY <1>1, <1>2, DecisionFrame
  <1>3. ASSUME NEW r \in Run, NEW l, pc' = [pc EXCEPT ![r] = l], UNCHANGED approvalVars,
               {pc[r], l} \intersect {"deciding", "waiting"} = {}
        PROVE  DecisionOK(q)'
    <2>1. pc'[q] = IF q = r THEN l ELSE pc[q]
      BY <1>1, <1>3 DEF ControlOK
    <2> QED
      BY <1>1, <1>3, <2>1, DecisionFrame DEF approvalVars
  <1>4. ASSUME NEW c \in Approval, NEW r \in Run, Resolve(c, r) PROVE DecisionOK(q)'
    <2>1. pc' = pc /\ log' = log
      BY <1>4 DEF Resolve, storeVars
    <2>2. CASE q # r
      BY <1>1, <1>4, <2>1, <2>2, DecisionFrame DEF Resolve
    <2>3. CASE q = r
      <3>1. Logged(q, "asked")'
        BY <1>4, <2>1, <2>3 DEF Resolve, Logged
      <3> QED
        BY <1>1, <1>4, <2>1, <2>3, <3>1 DEF Resolve, DecisionOK
    <2> QED
      BY <2>2, <2>3
  <1>5. ASSUME NEW r \in Run, Decide(r) \/ DecideCancelled(r) \/ DecideAnswered(r) \/ ClearRun(r)
        PROVE  DecisionOK(q)'
    <2>1. PICK l \in {"waiting", "answering", "cancelling", "removing"} :
            pc' = [pc EXCEPT ![r] = l]
      BY <1>5 DEF Decide, DecideCancelled, DecideAnswered, ClearRun, Goto
    <2>2. pc'[q] = IF q = r THEN l ELSE pc[q]
      BY <1>1, <2>1 DEF ControlOK
    <2>3. CASE q # r
      BY <1>1, <1>5, <2>2, <2>3, DecisionFrame
      DEF Decide, DecideCancelled, DecideAnswered, ClearRun, approvalVars
    <2>4. CASE q = r
      <3>1. log' = log
        BY <1>5 DEF Decide, DecideCancelled, DecideAnswered, ClearRun, storeVars
      <3>2. Logged(q, "asked")' <=> Logged(q, "asked")
        BY <3>1 DEF Logged
      <3>3. CASE Decide(r)
        BY <1>1, <2>2, <2>4, <3>2, <3>3 DEF Decide, Goto, DecisionOK, ControlOK
      <3>4. CASE DecideCancelled(r)
        BY <1>1, <2>2, <2>4, <3>2, <3>4 DEF DecideCancelled, Goto, DecisionOK, ControlOK
      <3>5. CASE DecideAnswered(r)
        BY <1>1, <2>2, <2>4, <3>2, <3>5
        DEF DecideAnswered, Goto, DecisionOK, ControlOK, approvalVars
      <3>6. CASE ClearRun(r)
        BY <1>1, <2>2, <2>4, <3>2, <3>6 DEF ClearRun, Goto, DecisionOK, ControlOK
      <3> QED
        BY <1>5, <3>3, <3>4, <3>5, <3>6
    <2> QED
      BY <2>3, <2>4
  <1>6. ASSUME NEW r \in Run, Ask(r) PROVE DecisionOK(q)'
    <2>1. pc[r] = "streaming" /\ ~Logged(r, "asked") /\ UNCHANGED approvalVars
      BY <1>6 DEF Ask, Emit
    <2>2. PICK l \in {"deciding", "errored"} : pc' = [pc EXCEPT ![r] = l]
      BY <1>6 DEF Ask, Emit, Goto
    <2>3. pc'[q] = IF q = r THEN l ELSE pc[q]
      BY <1>1, <2>2 DEF ControlOK
    <2>4. CASE q # r
      BY <1>1, <2>1, <2>3, <2>4, DecisionFrame DEF approvalVars
    <2>5. CASE q = r
      <3>1. r \notin answered /\ r \notin pending
        BY <1>1, <2>1, <2>5 DEF DecisionOK
      <3> QED
        BY <2>1, <2>3, <2>5, <3>1 DEF DecisionOK, approvalVars
    <2> QED
      BY <2>4, <2>5
  <1>7. ASSUME NEW r \in Run,
               Started(r) \/ Complete(r) \/ Fail(r) \/ Respond(r) \/ Execute(r) \/ EmitCancelled(r)
        PROVE  DecisionOK(q)'
    <2>1. UNCHANGED approvalVars /\ pc[r] \notin {"deciding", "waiting"}
      BY <1>7 DEF Started, Complete, Fail, Respond, Execute, EmitCancelled, Emit
    <2>2. PICK l \in {"streaming", "completed", "errored", "executing"} :
            pc' = [pc EXCEPT ![r] = l]
      BY <1>7 DEF Started, Complete, Fail, Respond, Execute, EmitCancelled, Emit, Goto
    <2> QED
      BY <1>3, <2>1, <2>2
  <1>8. ASSUME NEW r \in Run,
               \/ RunStart(r) \/ Refuse(r) \/ Accept(r) \/ BeginHold(r) \/ EarlyError(r)
               \/ ReadSequence(r) \/ SeeCancel(r) \/ SealRead(r) \/ SealStarted(r)
               \/ SealFailed(r) \/ SealSynthetic(r) \/ Completed(r) \/ Remove(r)
               \/ FlushTake(r) \/ FlushPublish(r) \/ ClearReported(r)
        PROVE  DecisionOK(q)'
    <2>1. UNCHANGED approvalVars /\ pc[r] \notin {"deciding", "waiting"}
      BY <1>8 DEF RunStart, Refuse, Accept, BeginHold, EarlyError, ReadSequence, SeeCancel,
         SealRead, SealStarted, SealFailed, SealSynthetic, Completed, Remove, FlushTake,
         FlushPublish, ClearReported
    <2>2. PICK l : pc' = [pc EXCEPT ![r] = l] /\ l \notin {"deciding", "waiting"}
      BY <1>8 DEF RunStart, Refuse, Accept, BeginHold, EarlyError, ReadSequence, SeeCancel,
         SealRead, SealStarted, SealFailed, SealSynthetic, Completed, Remove, FlushTake,
         FlushPublish, ClearReported, Goto
    <2> QED
      BY <1>3, <2>1, <2>2
  <1>9. ASSUME NEW c \in Approval, CommandStep(c) PROVE DecisionOK(q)'
    BY <1>2, <1>9 DEF CommandStep, CheckLive, ReadWaiting, ReadTail, SealResponded, SealExecuted,
                      CommandAt, Seal, approvalVars
  <1>10. ASSUME (\E r \in Run : Publish(r) \/ RunCancel(r)) \/ BeginStop \/ StopStep \/ Exited
                \/ UNCHANGED vars
         PROVE  DecisionOK(q)'
    BY <1>2, <1>10 DEF Publish, RunCancel, BeginStop, StopStep, CancelAll, Drain, Joined, Stop,
                       Exited, vars, approvalVars
  <1> QED
    BY <1>4, <1>5, <1>6, <1>7, <1>8, <1>9, <1>10 DEF RunNext, RunStep, EngineStep

\* No wake-up of an approval is lost, for any number of runs and commands and
\* in whatever order they come (resolve, decide, clear_run).
THEOREM DecisionsAreKept == RunSpec => []NoDecisionIsLost
  <1>1. RunInit => DecisionInv
    BY DEF RunInit, DecisionInv, DecisionOK
  <1>2. DecisionInv => NoDecisionIsLost
    BY DEF DecisionInv, DecisionOK, NoDecisionIsLost
  <1> QED
    BY <1>1, <1>2, DecisionStep, RecordHolds, RunTypesHold, PTL DEF RunSpec

=============================================================================
