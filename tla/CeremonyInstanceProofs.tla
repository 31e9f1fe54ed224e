----------------------- MODULE CeremonyInstanceProofs -----------------------
(***************************************************************************)
(* Proofs about the ceremony aggregate, for every definition, every set of *)
(* owners, keys and results, and every bound, in three parts: the types of *)
(* the aggregate, the coordinates of the work of the current state and the *)
(* phases of a session; the answers its claims get; the order of work      *)
(* within a visit.                                                         *)
(***************************************************************************)
EXTENDS CeremonyInstance, TLAPS, FiniteSetTheorems

-----------------------------------------------------------------------------
(* The building blocks stay within their types.                           *)

(* A pending record is a record, with no lease.                           *)
LEMMA PendingType ==
    ASSUME NEW v \in Nat, NEW si \in Nat, NEW it \in Nat
    PROVE  Pending(v, si, it) \in Records
  BY DEF Pending, Records, Statuses, ResultStatuses

(* Claiming a record leaves a record.                                     *)
LEMMA WithStartedType ==
    ASSUME NEW r \in Records, NEW l \in Leases, NEW a \in Nat, NEW role \in SUBSET Roles
    PROVE  WithStarted(r, l, a, role) \in Records
  BY DEF WithStarted, Records, Statuses

(* Filing a result leaves a record.                                       *)
LEMMA WithResultType ==
    ASSUME NEW r \in Records,
           NEW res \in [status : ResultStatuses, output : SUBSET Conditions]
    PROVE  WithResult(r, res) \in Records
  BY DEF WithResult, Records, Statuses

(* A lease that is acquired is a lease.                                   *)
LEMMA AcquireType ==
    ASSUME NEW o \in Owners, NEW k \in Keys, NEW now \in Nat
    PROVE  Acquire(o, k, now) \in Leases
  BY LeaseAssumption DEF Acquire, Leases

(* The fences of a record's claim are fences.                             *)
LEMMA FenceType ==
    ASSUME NEW step \in Steps, NEW r \in Records
    PROVE  StepClaimFence(step, r) \subseteq Fences
  BY DEF StepClaimFence, Records, Fences

(* The steps of a state are steps.                                        *)
LEMMA InStateSteps ==
    ASSUME NEW st \in States
    PROVE  InState(st) \subseteq Steps
  <1>1. StepsForState[st] \in Seq(Steps)
    BY DefinitionAssumption
  <1> QED
    BY <1>1 DEF InState

(* The earliest of some instants is one of them.                          *)
LEMMA EarliestType ==
    ASSUME NEW T \in SUBSET Nat
    PROVE  EarliestOf(T) \in SUBSET Nat
  BY DEF EarliestOf

(* An observed time is a time.                                            *)
LEMMA ObservedType ==
    ASSUME TypeOK
    PROVE  Observed \subseteq Nat
  BY DEF Observed, TypeOK

-----------------------------------------------------------------------------
(* The session as it is opened is well typed.                             *)
LEMMA InitType == Init => TypeOK
  <1> SUFFICES ASSUME Init PROVE TypeOK
    OBVIOUS
  <1>1. records \in [Steps -> Records]
    BY PendingType DEF Init
  <1>2. ceremonyDeadline \in SUBSET Nat /\ stateDeadline \in SUBSET Nat
    BY TimeoutAssumption DEF Init
  <1>3. currentState \in States
    BY DefinitionAssumption DEF Init
  <1>4. lifecycle \in Lifecycles /\ (lifecycle.phase = "ended" <=> lifecycle.endReason # {})
    BY DEF Init, Lifecycles, Phases
  <1>5. history \in [Steps -> Seq(Records)]
    BY DEF Init
  <1>6. transitions \in Seq([edge : Transitions, visit : Nat, iteration : Nat])
    BY DEF Init
  <1>7. stepDeadlines \in [Steps -> SUBSET StepDeadlines]
    BY DEF Init
  <1>8. interventions \in [Interventions -> {"absent", "open", "closed"}]
    BY DEF Init
  <1> QED
    BY <1>1, <1>2, <1>3, <1>4, <1>5, <1>6, <1>7, <1>8 DEF Init, TypeOK

(* Claiming a step keeps the session well typed.                          *)
LEMMA StartStepType ==
    ASSUME TypeOK, NEW step \in Steps, NEW role \in Roles, NEW owner \in Owners,
           NEW key \in Keys, NEW now \in Observed, NEW ceiling \in HostCeilings,
           StartStep(step, role, owner, key, now, ceiling)
    PROVE  TypeOK'
  <1> DEFINE claimed == ClaimedRecord(step, role, owner, key, now)
             fence == StepClaimFence(step, claimed)
  <1>0. now \in Nat
    BY ObservedType
  <1>1. NextStartAttempt(records[step]) \in Nat
    BY DEF NextStartAttempt, TypeOK, Records
  <1>2. claimed \in Records
    <2>1. records[step] \in Records
      BY DEF TypeOK
    <2> QED
      BY <1>0, <1>1, <2>1, AcquireType, WithStartedType DEF ClaimedRecord
  <1>3. fence \subseteq Fences
    BY <1>2, FenceType
  <1>4. StepDeadlineAt(step, now) \in SUBSET Nat
    <2>1. { now + t : t \in StepTimeout[step] } \in SUBSET Nat
      BY <1>0, TimeoutAssumption
    <2> QED
      BY <2>1, EarliestType DEF StepDeadlineAt, TypeOK
  <1>5. records' \in [Steps -> Records]
    <2>1. records' = [records EXCEPT ![step] = claimed]
      BY DEF StartStep
    <2> HIDE DEF claimed
    <2> QED
      BY <1>2, <2>1 DEF TypeOK
  <1>6. stepDeadlines' \in [Steps -> SUBSET StepDeadlines]
    <2> DEFINE D == { [fence |-> f, at |-> t] : f \in fence, t \in StepDeadlineAt(step, now) }
    <2>1. stepDeadlines' = [stepDeadlines EXCEPT ![step] = D]
      BY DEF StartStep
    <2>2. D \in SUBSET StepDeadlines
      <3> HIDE DEF fence
      <3> QED
        BY <1>3, <1>4 DEF StepDeadlines
    <2> HIDE DEF D
    <2> QED
      BY <2>1, <2>2 DEF TypeOK
  <1>7. receipts' \subseteq Fences
    <2>1. receipts' = receipts \cup fence
      BY DEF StartStep
    <2> HIDE DEF fence
    <2> QED
      BY <1>3, <2>1 DEF TypeOK
  <1>8. idempotencyKeys' \subseteq Keys
    BY DEF StartStep, TypeOK
  <1>9. UNCHANGED <<clock, positionVars, history, resultVars, lifeVars,
                    limitVars, humanVars, otherVars>>
    BY DEF StartStep
  <1> QED
    BY <1>5, <1>6, <1>7, <1>8, <1>9
    DEF TypeOK, positionVars, resultVars, lifeVars, limitVars, humanVars, otherVars

(* Renewing a lease keeps the session well typed.                         *)
LEMMA RenewStepLeaseType ==
    ASSUME TypeOK, NEW fence \in receipts, NEW owner \in Owners, NEW now \in RenewalTimes,
           NEW request \in SUBSET RequestIds,
           RenewStepLease(fence, owner, request, now)
    PROVE  TypeOK'
  <1> DEFINE step == fence.step
             expiry == RenewedExpiry(step, now)
  <1>1. fence \in Fences /\ step \in Steps
    BY DEF TypeOK, Fences
  <1>2. records[step] \in Records
    BY <1>1 DEF TypeOK
  <1>3. now \in Nat
    BY DEF RenewalTimes, TypeOK
  <1>4. EffectiveLeaseExpiresAt(records[step]) \in SUBSET Nat
    BY <1>2 DEF EffectiveLeaseExpiresAt, Records, Leases
  <1>5. DeadlinesOf(step) \in SUBSET Nat
    <2>1. stepDeadlines[step] \in SUBSET [fence : Fences, at : Nat]
      BY <1>1 DEF TypeOK, StepDeadlines
    <2>2. { d.at : d \in stepDeadlines[step] } \in SUBSET Nat
      BY <2>1
    <2> HIDE DEF step
    <2> QED
      BY <2>2 DEF DeadlinesOf, TypeOK
  <1>6. expiry \in SUBSET Nat
    <2>1. EarliestOf({now + LeaseTtl} \cup DeadlinesOf(step)) \in SUBSET Nat
      BY <1>3, <1>5, EarliestType, LeaseAssumption
    <2> QED
      BY <1>4, <2>1 DEF RenewedExpiry
  <1>7. records' \in [Steps -> Records]
    <2>1. records' = [records EXCEPT ![step].renewed = expiry]
      BY DEF RenewStepLease
    <2> HIDE DEF expiry, step
    <2>2. [records[step] EXCEPT !.renewed = expiry] \in Records
      BY <1>2, <1>6 DEF Records
    <2> QED
      BY <1>1, <1>2, <2>1, <2>2 DEF TypeOK
  <1>8. leaseRenewals' \subseteq [id : RequestIds, fence : Fences, expires : Nat]
    <2>1. leaseRenewals' = leaseRenewals \cup
             { [id |-> id, fence |-> fence, expires |-> t] : id \in request, t \in expiry }
      BY DEF RenewStepLease
    <2> HIDE DEF expiry
    <2> QED
      BY <1>1, <1>6, <2>1 DEF TypeOK
  <1>9. UNCHANGED <<clock, positionVars, history, stepDeadlines, claimVars,
                    resultVars, lifeVars, limitVars, humanVars, successorPlan>>
    BY DEF RenewStepLease
  <1> QED
    BY <1>7, <1>8, <1>9
    DEF TypeOK, positionVars, claimVars, resultVars, lifeVars, limitVars, humanVars

(* A result that is filed, with the fence it is filed under.              *)
LEMMA SealedType ==
    ASSUME TypeOK, NEW fence \in receipts, NEW result \in Results
    PROVE  /\ fence \in Fences
           /\ fence.step \in Steps
           /\ records[fence.step] \in Records
           /\ result \in [status : ResultStatuses, output : SUBSET Conditions]
           /\ [fence |-> fence, result |-> result] \in SealedResults
  <1>1. fence \in Fences /\ fence.step \in Steps
    BY DEF TypeOK, Fences
  <1>2. result \in [status : ResultStatuses, output : SUBSET Conditions]
    BY ResultAssumption
  <1>3. records[fence.step] \in Records
    BY <1>1 DEF TypeOK
  <1>4. [fence |-> fence, result |-> result] \in SealedResults
    BY <1>1, <1>2 DEF SealedResults
  <1> QED
    BY <1>1, <1>2, <1>3, <1>4

(* Observing a late result keeps the session well typed.                  *)
LEMMA ObserveLateResultType ==
    ASSUME TypeOK, NEW fence \in receipts, NEW result \in Results,
           ObserveLateResult(fence, result)
    PROVE  TypeOK'
  BY SealedType
  DEF ObserveLateResult, TypeOK, positionVars, workVars, claimVars, lifeVars,
      limitVars, humanVars, otherVars

(* Failing a step keeps the session well typed.                           *)
LEMMA FailStepType ==
    ASSUME TypeOK, NEW fence \in receipts, NEW result \in Results,
           FailStep(fence, result)
    PROVE  TypeOK'
  <1>1. WithResult(records[fence.step], result) \in Records
    BY SealedType, WithResultType
  <1>2. records' \in [Steps -> Records]
    BY <1>1, SealedType DEF FailStep, TypeOK
  <1>3. stepDeadlines' \in [Steps -> SUBSET StepDeadlines]
    BY SealedType DEF FailStep, TypeOK
  <1>4. sealed' \subseteq SealedResults
    BY SealedType DEF FailStep, Seal, TypeOK
  <1>5. UNCHANGED <<clock, positionVars, history, claimVars, retired,
                    lateResults, lifeVars, limitVars, humanVars, otherVars>>
    BY DEF FailStep
  <1> QED
    BY <1>2, <1>3, <1>4, <1>5
    DEF TypeOK, positionVars, claimVars, lifeVars, limitVars, humanVars, otherVars

(* The records and histories a completion and an iteration leave.         *)
LEMMA CompletionType ==
    ASSUME TypeOK, NEW fence \in receipts, NEW result \in Results
    PROVE  /\ RecordsAfterCompletion(fence.step, result) \in [Steps -> Records]
           /\ HistoryAfterCompletion(fence.step, result) \in [Steps -> Seq(Records)]
  <1> DEFINE step == fence.step
             r == records[step]
  <1>1. step \in Steps /\ r \in Records
    BY SealedType
  <1>2. WithResult(r, result) \in Records
    BY SealedType, WithResultType
  <1>3. Pending(r.visit, r.stateIteration, r.iteration + 1) \in Records
    <2>1. r.visit \in Nat /\ r.stateIteration \in Nat /\ r.iteration + 1 \in Nat
      BY <1>1 DEF Records
    <2> QED
      BY <2>1, PendingType
  <1>4. RecordsAfterCompletion(step, result) \in [Steps -> Records]
    BY <1>1, <1>2, <1>3 DEF RecordsAfterCompletion, TypeOK
  <1>5. HistoryAfterCompletion(step, result) \in [Steps -> Seq(Records)]
    <2>1. history[step] \in Seq(Records)
      BY <1>1 DEF TypeOK
    <2>2. Append(history[step], WithResult(r, result)) \in Seq(Records)
      BY <1>2, <2>1
    <2> QED
      BY <1>1, <2>2 DEF HistoryAfterCompletion, TypeOK
  <1> QED
    BY <1>4, <1>5

(* Opening a whole state again keeps records and histories well typed.    *)
LEMMA IterationType ==
    ASSUME TypeOK, NEW recs \in [Steps -> Records], NEW hist \in [Steps -> Seq(Records)]
    PROVE  /\ RecordsAfterIteration(recs) \in [Steps -> Records]
           /\ HistoryAfterIteration(recs, hist) \in [Steps -> Seq(Records)]
  <1>1. Pending(stateVisit, stateIteration + 1, 1) \in Records
    BY PendingType DEF TypeOK
  <1>2. \A step \in Steps : Append(hist[step], recs[step]) \in Seq(Records)
    OBVIOUS
  <1> QED
    BY <1>1, <1>2 DEF RecordsAfterIteration, HistoryAfterIteration

(* Completing a step keeps the session well typed.                        *)
LEMMA CompleteStepType ==
    ASSUME TypeOK, NEW fence \in receipts, NEW result \in Results,
           CompleteStep(fence, result)
    PROVE  TypeOK'
  <1> DEFINE recs == RecordsAfterCompletion(fence.step, result)
             hist == HistoryAfterCompletion(fence.step, result)
  <1>1. recs \in [Steps -> Records] /\ hist \in [Steps -> Seq(Records)]
    BY CompletionType
  <1>2. /\ records' \in [Steps -> Records]
        /\ history' \in [Steps -> Seq(Records)]
        /\ stateIteration' \in Nat
    <2>1. \/ /\ records' = RecordsAfterIteration(recs)
             /\ history' = HistoryAfterIteration(recs, hist)
             /\ stateIteration' = stateIteration + 1
          \/ /\ records' = recs
             /\ history' = hist
             /\ stateIteration' = stateIteration
      BY DEF CompleteStep
    <2> HIDE DEF recs, hist
    <2>2. /\ RecordsAfterIteration(recs) \in [Steps -> Records]
          /\ HistoryAfterIteration(recs, hist) \in [Steps -> Seq(Records)]
      BY <1>1, IterationType
    <2> QED
      BY <1>1, <2>1, <2>2 DEF TypeOK
  <1>3. stepDeadlines' \in [Steps -> SUBSET StepDeadlines]
    BY SealedType DEF CompleteStep, TypeOK
  <1>4. sealed' \subseteq SealedResults
    BY SealedType DEF CompleteStep, Seal, TypeOK
  <1>5. UNCHANGED <<clock, currentState, stateVisit, transitions, claimVars,
                    retired, lateResults, lifeVars, limitVars, humanVars, otherVars>>
    BY DEF CompleteStep
  <1> QED
    BY <1>2, <1>3, <1>4, <1>5
    DEF TypeOK, claimVars, lifeVars, limitVars, humanVars, otherVars

(* Moving keeps the session well typed.                                   *)
LEMMA ApplyTransitionType ==
    ASSUME TypeOK, NEW tr \in Transitions, NEW now \in Observed,
           ApplyTransition(tr, now)
    PROVE  TypeOK'
  <1>1. tr.to \in States
    BY DefinitionAssumption
  <1>2. Pending(stateVisit + 1, 1, 1) \in Records
    <2>1. stateVisit + 1 \in Nat
      BY DEF TypeOK
    <2> QED
      BY <2>1, PendingType
  <1>3. records' \in [Steps -> Records]
    BY <1>2 DEF ApplyTransition, RecordsAfterEntry, TypeOK
  <1>4. history' \in [Steps -> Seq(Records)]
    <2>1. \A step \in Steps : Append(history[step], records[step]) \in Seq(Records)
      BY DEF TypeOK
    <2> QED
      BY <2>1 DEF ApplyTransition, HistoryAfterEntry, TypeOK
  <1>5. transitions' \in Seq([edge : Transitions, visit : Nat, iteration : Nat])
    <2>1. [edge |-> tr, visit |-> stateVisit, iteration |-> stateIteration]
             \in [edge : Transitions, visit : Nat, iteration : Nat]
      BY DEF TypeOK
    <2> QED
      BY <2>1 DEF ApplyTransition, TypeOK
  <1>6. stateDeadline' \in SUBSET Nat
    BY ObservedType, TimeoutAssumption DEF ApplyTransition
  <1>7. /\ currentState' \in States
        /\ stateVisit' \in Nat
        /\ stateIteration' \in Nat
        /\ completed' \in BOOLEAN
    BY <1>1 DEF ApplyTransition, TypeOK
  <1>8. UNCHANGED <<clock, stepDeadlines, claimVars, resultVars, lifecycle,
                    ceremonyDeadline, humanVars, otherVars>>
    BY DEF ApplyTransition
  <1> QED
    BY <1>3, <1>4, <1>5, <1>6, <1>7, <1>8
    DEF TypeOK, claimVars, resultVars, humanVars, otherVars

(* What people decide keeps the session well typed.                       *)
LEMMA HumanType ==
    ASSUME TypeOK,
           \/ \E g \in Guards : ApproveGuard(g) \/ DeferGuard(g)
           \/ \E i \in Interventions : RequestIntervention(i) \/ CloseIntervention(i)
    PROVE  TypeOK'
  <1> USE DEF positionVars, workVars, claimVars, resultVars, lifeVars, limitVars, otherVars
  <1>1. ASSUME NEW g \in Guards, ApproveGuard(g) PROVE TypeOK'
    BY <1>1 DEF ApproveGuard, TypeOK
  <1>2. ASSUME NEW g \in Guards, DeferGuard(g) PROVE TypeOK'
    BY <1>2 DEF DeferGuard, TypeOK
  <1>3. ASSUME NEW i \in Interventions, RequestIntervention(i) PROVE TypeOK'
    BY <1>3 DEF RequestIntervention, TypeOK
  <1>4. ASSUME NEW i \in Interventions, CloseIntervention(i) PROVE TypeOK'
    BY <1>4 DEF CloseIntervention, TypeOK
  <1> QED
    BY <1>1, <1>2, <1>3, <1>4

(* A change of lifecycle keeps the session well typed.                    *)
LEMMA LifecycleType ==
    ASSUME TypeOK, Pause \/ Resume \/ Cancel
    PROVE  TypeOK'
  <1>1. lifecycle' \in Lifecycles /\ (lifecycle'.phase = "ended" <=> lifecycle'.endReason # {})
    <2>1. CASE Pause
      BY <2>1 DEF Pause, LifecycleChangesTo, TypeOK, Lifecycles, Phases
    <2>2. CASE Resume
      BY <2>2 DEF Resume, MayResume, LifecycleChangesTo, TypeOK, Lifecycles, Phases
    <2>3. CASE Cancel
      BY <2>3 DEF Cancel, LifecycleChangesTo, EndWith, Lifecycles, Phases, EndReasons
    <2> QED
      BY <2>1, <2>2, <2>3
  <1>2. UNCHANGED <<clock, positionVars, workVars, claimVars, resultVars,
                    completed, limitVars, humanVars, otherVars>>
    BY DEF Pause, Resume, Cancel, LifecycleChangesTo
  <1> QED
    BY <1>1, <1>2
    DEF TypeOK, positionVars, workVars, claimVars, resultVars, limitVars, humanVars, otherVars

(* The deadlines that fall due are among the ones sealed.                 *)
LEMMA DueStepsType ==
    ASSUME TypeOK, NEW now \in Nat
    PROVE  DueSteps(now) \subseteq StepDeadlines
  BY DEF DueSteps, TypeOK

(* Enforcing deadlines keeps the session well typed.                      *)
LEMMA EnforceDeadlinesType ==
    ASSUME TypeOK, NEW now \in Observed, EnforceDeadlines(now)
    PROVE  TypeOK'
  <1>1. \A step \in Steps : WithResult(records[step], TimedOut) \in Records
    <2>1. TimedOut \in [status : ResultStatuses, output : SUBSET Conditions]
      BY DEF TimedOut, ResultStatuses
    <2> QED
      BY <2>1, WithResultType DEF TypeOK
  <1>2. records' \in [Steps -> Records]
    BY <1>1 DEF EnforceDeadlines, TypeOK
  <1>3. stepDeadlines' \in [Steps -> SUBSET StepDeadlines]
    BY DEF EnforceDeadlines, TypeOK
  <1>4. retired' \subseteq StepDeadlines
    BY ObservedType, DueStepsType DEF EnforceDeadlines, TypeOK
  <1>5. lifecycle' \in Lifecycles /\ (lifecycle'.phase = "ended" <=> lifecycle'.endReason # {})
    <2>1. lifecycle' = lifecycle \/ lifecycle' = EndWith(DeadlineEndReason(now))
      BY DEF EnforceDeadlines
    <2>2. DeadlineEndReason(now) \in EndReasons
      BY DEF DeadlineEndReason, EndReasons
    <2>3. \A reason \in EndReasons : /\ EndWith(reason) \in Lifecycles
                                     /\ EndWith(reason).phase = "ended"
                                     /\ EndWith(reason).endReason # {}
      BY DEF EndWith, Lifecycles, Phases
    <2> QED
      BY <2>1, <2>2, <2>3 DEF TypeOK
  <1>6. UNCHANGED <<clock, positionVars, history, claimVars, sealed, lateResults,
                    completed, limitVars, humanVars, otherVars>>
    BY DEF EnforceDeadlines
  <1> QED
    BY <1>2, <1>3, <1>4, <1>5, <1>6
    DEF TypeOK, positionVars, claimVars, limitVars, humanVars, otherVars

(* Sealing a succession plan keeps the session well typed.                *)
LEMMA PlanSuccessorType ==
    ASSUME TypeOK, NEW steps \in SUBSET Steps, PlanSuccessor(steps)
    PROVE  TypeOK'
  <1>1. OutstandingClaims \subseteq Fences
    BY FenceType DEF OutstandingClaims, CurrentFence, TypeOK
  <1>2. \A step \in steps : SourceRef(step) \in SourceRefs
    BY DEF SourceRef, SourceRefs, TypeOK, Records
  <1>3. successorPlan' \in SUBSET [dispositions : SUBSET Fences, carried : SUBSET SourceRefs]
    BY <1>1, <1>2 DEF PlanSuccessor
  <1> QED
    BY <1>3
    DEF PlanSuccessor, TypeOK, positionVars, workVars, claimVars, resultVars,
        lifeVars, limitVars, humanVars

(* Every step of the specification keeps the session well typed.          *)
LEMMA NextType == TypeOK /\ [Next]_vars => TypeOK'
  <1> SUFFICES ASSUME TypeOK, [Next]_vars PROVE TypeOK'
    OBVIOUS
  <1>1. ASSUME NEW step \in Steps, NEW role \in Roles, NEW owner \in Owners, NEW key \in Keys,
               NEW now \in Observed, NEW ceiling \in HostCeilings,
               StartStep(step, role, owner, key, now, ceiling)
        PROVE  TypeOK'
    BY <1>1, StartStepType
  <1>2. ASSUME NEW fence \in receipts, NEW owner \in Owners, NEW now \in RenewalTimes,
               NEW request \in { {} } \cup { {id} : id \in RequestIds },
               RenewStepLease(fence, owner, request, now)
        PROVE  TypeOK'
    <2>1. request \in SUBSET RequestIds
      OBVIOUS
    <2> QED
      BY <1>2, <2>1, RenewStepLeaseType
  <1>3. ASSUME NEW fence \in receipts, NEW result \in Results,
               \/ CompleteStep(fence, result)
               \/ FailStep(fence, result)
               \/ ObserveLateResult(fence, result)
        PROVE  TypeOK'
    BY <1>3, CompleteStepType, FailStepType, ObserveLateResultType
  <1>4. ASSUME NEW tr \in Transitions, NEW now \in Observed, ApplyTransition(tr, now)
        PROVE  TypeOK'
    BY <1>4, ApplyTransitionType
  <1>5. CASE \/ \E g \in Guards : ApproveGuard(g) \/ DeferGuard(g)
             \/ \E i \in Interventions : RequestIntervention(i) \/ CloseIntervention(i)
    BY <1>5, HumanType
  <1>6. CASE Pause \/ Resume \/ Cancel
    BY <1>6, LifecycleType
  <1>7. ASSUME NEW now \in Observed, EnforceDeadlines(now)
        PROVE  TypeOK'
    BY <1>7, EnforceDeadlinesType
  <1>8. ASSUME NEW steps \in SUBSET Steps, PlanSuccessor(steps)
        PROVE  TypeOK'
    BY <1>8, PlanSuccessorType
  <1>9. CASE Tick
    BY <1>9
    DEF Tick, TypeOK, positionVars, workVars, claimVars, resultVars, lifeVars,
        limitVars, humanVars, otherVars
  <1>10. CASE UNCHANGED vars
    BY <1>10
    DEF vars, TypeOK, positionVars, workVars, claimVars, resultVars, lifeVars,
        limitVars, humanVars, otherVars
  <1> QED
    BY <1>1, <1>2, <1>3, <1>4, <1>5, <1>6, <1>7, <1>8, <1>9, <1>10 DEF Next

(* Every reachable session is well typed: in particular no claim, result, *)
(* renewal, move or expiry ever leaves a record that is not one, and the  *)
(* phase is ended exactly when a reason for the end was recorded.         *)
THEOREM TypeCorrect == Spec => []TypeOK
  BY InitType, NextType, PTL DEF Spec

-----------------------------------------------------------------------------
(* Every step of the session leaves the records of the current state at   *)
(* the current visit and state iteration.                                 *)
LEMMA KeepingCoordinates ==
    ASSUME TypeOK, RecordsCarryCurrentCoordinates,
           UNCHANGED <<currentState, stateVisit, stateIteration>>,
           \A step \in Steps : /\ records'[step].visit = records[step].visit
                               /\ records'[step].stateIteration = records[step].stateIteration
    PROVE  RecordsCarryCurrentCoordinates'
  <1>1. InState(currentState) \subseteq Steps
    BY InStateSteps DEF TypeOK
  <1> QED
    BY <1>1 DEF RecordsCarryCurrentCoordinates

(* Completing a step moves the whole state to its next iteration, or      *)
(* leaves every coordinate but the step's own iteration alone.            *)
LEMMA CompleteStepCoordinates ==
    ASSUME TypeOK, RecordsCarryCurrentCoordinates,
           NEW fence \in receipts, NEW result \in Results, CompleteStep(fence, result)
    PROVE  RecordsCarryCurrentCoordinates'
  <1> DEFINE recs == RecordsAfterCompletion(fence.step, result)
  <1>1. fence.step \in Steps /\ InState(currentState) \subseteq Steps
    BY SealedType, InStateSteps DEF TypeOK
  <1>2. UNCHANGED <<currentState, stateVisit>>
    BY DEF CompleteStep
  <1>3. CASE records' = recs /\ UNCHANGED stateIteration
    <2>1. \A step \in Steps : /\ recs[step].visit = records[step].visit
                              /\ recs[step].stateIteration = records[step].stateIteration
      BY <1>1 DEF RecordsAfterCompletion, Pending, WithResult, TypeOK, Records
    <2> HIDE DEF recs
    <2> QED
      BY <1>2, <1>3, <2>1, KeepingCoordinates
  <1>4. CASE records' = RecordsAfterIteration(recs) /\ stateIteration' = stateIteration + 1
    <2> HIDE DEF recs
    <2> QED
      BY <1>1, <1>2, <1>4 DEF RecordsAfterIteration, Pending, RecordsCarryCurrentCoordinates
  <1> QED
    BY <1>3, <1>4 DEF CompleteStep

(* The records of the current state stand at the current coordinates      *)
(* after every step.                                                      *)
LEMMA NextCoordinates ==
    TypeOK /\ RecordsCarryCurrentCoordinates /\ [Next]_vars => RecordsCarryCurrentCoordinates'
  <1> SUFFICES ASSUME TypeOK, RecordsCarryCurrentCoordinates, [Next]_vars
               PROVE  RecordsCarryCurrentCoordinates'
    OBVIOUS
  <1>1. ASSUME NEW step \in Steps, NEW role \in Roles, NEW owner \in Owners, NEW key \in Keys,
               NEW now \in Observed, NEW ceiling \in HostCeilings,
               StartStep(step, role, owner, key, now, ceiling)
        PROVE  RecordsCarryCurrentCoordinates'
    <2>1. /\ records' = [records EXCEPT ![step] = ClaimedRecord(step, role, owner, key, now)]
          /\ UNCHANGED <<currentState, stateVisit, stateIteration>>
      BY <1>1 DEF StartStep, positionVars
    <2>2. /\ ClaimedRecord(step, role, owner, key, now).visit = records[step].visit
          /\ ClaimedRecord(step, role, owner, key, now).stateIteration
               = records[step].stateIteration
      BY DEF ClaimedRecord, WithStarted, TypeOK, Records
    <2> QED
      BY <2>1, <2>2, KeepingCoordinates DEF TypeOK
  <1>2. ASSUME NEW fence \in receipts, NEW owner \in Owners, NEW now \in RenewalTimes,
               NEW request, RenewStepLease(fence, owner, request, now)
        PROVE  RecordsCarryCurrentCoordinates'
    <2>1. /\ records' = [records EXCEPT ![fence.step].renewed = RenewedExpiry(fence.step, now)]
          /\ UNCHANGED <<currentState, stateVisit, stateIteration>>
      BY <1>2 DEF RenewStepLease, positionVars
    <2> QED
      BY <2>1, KeepingCoordinates DEF TypeOK, Records
  <1>3. ASSUME NEW fence \in receipts, NEW result \in Results, FailStep(fence, result)
        PROVE  RecordsCarryCurrentCoordinates'
    <2>1. /\ records' = [records EXCEPT ![fence.step] = WithResult(@, result)]
          /\ UNCHANGED <<currentState, stateVisit, stateIteration>>
      BY <1>3 DEF FailStep, positionVars
    <2>2. fence.step \in Steps
      BY SealedType
    <2>3. \A step \in Steps :
             /\ records'[step].visit = records[step].visit
             /\ records'[step].stateIteration = records[step].stateIteration
      BY <2>1, <2>2 DEF WithResult, TypeOK, Records
    <2> QED
      BY <2>1, <2>3, KeepingCoordinates
  <1>4. ASSUME NEW tr \in Transitions, NEW now \in Observed, ApplyTransition(tr, now)
        PROVE  RecordsCarryCurrentCoordinates'
    <2>1. InState(tr.to) \subseteq Steps
      BY InStateSteps, DefinitionAssumption
    <2> QED
      BY <1>4, <2>1
      DEF ApplyTransition, RecordsAfterEntry, Pending, RecordsCarryCurrentCoordinates
  <1>5. ASSUME NEW now \in Observed, EnforceDeadlines(now)
        PROVE  RecordsCarryCurrentCoordinates'
    BY <1>5, KeepingCoordinates DEF EnforceDeadlines, positionVars, WithResult, TypeOK, Records
  <1>6. CASE \/ \E g \in Guards : ApproveGuard(g) \/ DeferGuard(g)
             \/ \E i \in Interventions : RequestIntervention(i) \/ CloseIntervention(i)
             \/ Pause \/ Resume \/ Cancel \/ Tick
             \/ \E steps \in SUBSET Steps : PlanSuccessor(steps)
             \/ \E fence \in receipts, result \in Results : ObserveLateResult(fence, result)
             \/ UNCHANGED vars
    <2>1. UNCHANGED <<positionVars, workVars>>
      BY <1>6
      DEF ApproveGuard, DeferGuard, RequestIntervention, CloseIntervention, Pause, Resume,
          Cancel, LifecycleChangesTo, Tick, PlanSuccessor, ObserveLateResult, vars
    <2> QED
      BY <2>1, KeepingCoordinates DEF positionVars, workVars
  <1> QED
    BY <1>1, <1>2, <1>3, <1>4, <1>5, <1>6, CompleteStepCoordinates DEF Next

(* A result accepted for the current state counts for the visit and the   *)
(* iteration the ceremony is in.                                          *)
THEOREM CoordinatesAreCurrent == Spec => []RecordsCarryCurrentCoordinates
  <1>1. Init => TypeOK /\ RecordsCarryCurrentCoordinates
    <2>1. Init => RecordsCarryCurrentCoordinates
      BY InStateSteps, DefinitionAssumption DEF Init, RecordsCarryCurrentCoordinates, Pending
    <2> QED
      BY <2>1, InitType
  <1>2. TypeOK /\ RecordsCarryCurrentCoordinates /\ [Next]_vars
           => TypeOK' /\ RecordsCarryCurrentCoordinates'
    BY NextType, NextCoordinates
  <1> QED
    BY <1>1, <1>2, PTL DEF Spec

-----------------------------------------------------------------------------
(* The steps that leave the lifecycle and the succession plan alone.      *)
LifecycleSteady ==
    \/ \E step \in Steps, role \in Roles, owner \in Owners, key \in Keys,
          now \in Observed, ceiling \in HostCeilings :
          StartStep(step, role, owner, key, now, ceiling)
    \/ \E fence \in receipts, owner \in Owners, now \in RenewalTimes :
          \E request \in { {} } \cup { {id} : id \in RequestIds } :
             RenewStepLease(fence, owner, request, now)
    \/ \E fence \in receipts, result \in Results :
          \/ CompleteStep(fence, result)
          \/ FailStep(fence, result)
          \/ ObserveLateResult(fence, result)
    \/ \E tr \in Transitions, now \in Observed : ApplyTransition(tr, now)
    \/ \E g \in Guards : ApproveGuard(g) \/ DeferGuard(g)
    \/ \E i \in Interventions : RequestIntervention(i) \/ CloseIntervention(i)
    \/ Tick

(* They do.                                                               *)
LEMMA SteadyLifecycle ==
    ASSUME LifecycleSteady
    PROVE  UNCHANGED <<lifecycle, successorPlan>>
  <1>1. ASSUME NEW step, NEW role, NEW owner, NEW key, NEW now, NEW ceiling,
               StartStep(step, role, owner, key, now, ceiling)
        PROVE  UNCHANGED <<lifecycle, successorPlan>>
    BY <1>1 DEF StartStep, lifeVars, otherVars
  <1>2. ASSUME NEW fence, NEW owner, NEW request, NEW now,
               RenewStepLease(fence, owner, request, now)
        PROVE  UNCHANGED <<lifecycle, successorPlan>>
    BY <1>2 DEF RenewStepLease, lifeVars
  <1>3. ASSUME NEW fence, NEW result,
               \/ CompleteStep(fence, result)
               \/ FailStep(fence, result)
               \/ ObserveLateResult(fence, result)
        PROVE  UNCHANGED <<lifecycle, successorPlan>>
    BY <1>3 DEF CompleteStep, FailStep, ObserveLateResult, lifeVars, otherVars
  <1>4. ASSUME NEW tr, NEW now, ApplyTransition(tr, now)
        PROVE  UNCHANGED <<lifecycle, successorPlan>>
    BY <1>4 DEF ApplyTransition, otherVars
  <1>5. CASE \/ \E g \in Guards : ApproveGuard(g) \/ DeferGuard(g)
             \/ \E i \in Interventions : RequestIntervention(i) \/ CloseIntervention(i)
             \/ Tick
    BY <1>5 DEF ApproveGuard, DeferGuard, RequestIntervention, CloseIntervention, Tick,
                lifeVars, otherVars
  <1> QED
    BY <1>1, <1>2, <1>3, <1>4, <1>5 DEF LifecycleSteady

(* Only a session that is not superseded is set running.                  *)
LEMMA NextSuperseded == SupersededNeverRuns /\ [Next]_vars => SupersededNeverRuns'
  <1> SUFFICES ASSUME SupersededNeverRuns, [Next]_vars PROVE SupersededNeverRuns'
    OBVIOUS
  <1>1. CASE LifecycleSteady
    BY <1>1, SteadyLifecycle DEF SupersededNeverRuns, IsSuperseded
  <1>2. CASE Pause
    BY <1>2 DEF Pause, LifecycleChangesTo, SupersededNeverRuns
  <1>3. CASE Resume
    BY <1>3 DEF Resume, MayResume, LifecycleChangesTo, SupersededNeverRuns, IsSuperseded, otherVars
  <1>4. CASE Cancel
    BY <1>4 DEF Cancel, EndWith, LifecycleChangesTo, SupersededNeverRuns
  <1>5. ASSUME NEW now \in Observed, EnforceDeadlines(now)
        PROVE  SupersededNeverRuns'
    <2>1. UNCHANGED successorPlan /\ (UNCHANGED lifecycle \/ lifecycle'.phase = "ended")
      BY <1>5 DEF EnforceDeadlines, EndWith, otherVars
    <2> QED
      BY <2>1 DEF SupersededNeverRuns, IsSuperseded
  <1>6. ASSUME NEW steps \in SUBSET Steps, PlanSuccessor(steps)
        PROVE  SupersededNeverRuns'
    BY <1>6 DEF PlanSuccessor, SupersededNeverRuns, lifeVars
  <1>7. CASE UNCHANGED vars
    BY <1>7 DEF vars, lifeVars, otherVars, SupersededNeverRuns, IsSuperseded
  <1> QED
    BY <1>1, <1>2, <1>3, <1>4, <1>5, <1>6, <1>7 DEF Next, LifecycleSteady

(* A session that sealed its succession plan is never set running again,  *)
(* so that it and its successor never both hand out work.                 *)
THEOREM SupersededStaysStopped == Spec => []SupersededNeverRuns
  <1>1. Init => SupersededNeverRuns
    BY DEF Init, SupersededNeverRuns, IsSuperseded
  <1> QED
    BY <1>1, NextSuperseded, PTL DEF Spec

-----------------------------------------------------------------------------
(* A phase other than running was set explicitly, so that the lifecycle   *)
(* read from a completed session never hides a pause or an end.           *)
PhaseIsExplicit == lifecycle.phase # "running" => lifecycle.explicit

(* Every change of the lifecycle is explicit.                             *)
LEMMA NextExplicit == PhaseIsExplicit /\ [Next]_vars => PhaseIsExplicit'
  <1> SUFFICES ASSUME PhaseIsExplicit, [Next]_vars PROVE PhaseIsExplicit'
    OBVIOUS
  <1>1. CASE LifecycleSteady
    BY <1>1, SteadyLifecycle DEF PhaseIsExplicit
  <1>2. CASE Pause \/ Resume \/ Cancel
    <2>1. lifecycle'.explicit = TRUE
      BY <1>2 DEF Pause, Resume, Cancel, EndWith, LifecycleChangesTo
    <2> QED
      BY <2>1 DEF PhaseIsExplicit
  <1>3. ASSUME NEW now \in Observed, EnforceDeadlines(now)
        PROVE  PhaseIsExplicit'
    <2>1. UNCHANGED lifecycle \/ lifecycle'.explicit = TRUE
      BY <1>3 DEF EnforceDeadlines, EndWith
    <2> QED
      BY <2>1 DEF PhaseIsExplicit
  <1>4. ASSUME NEW steps \in SUBSET Steps, PlanSuccessor(steps)
        PROVE  PhaseIsExplicit'
    BY <1>4 DEF PlanSuccessor, PhaseIsExplicit, lifeVars
  <1>5. CASE UNCHANGED vars
    BY <1>5 DEF vars, lifeVars, PhaseIsExplicit
  <1> QED
    BY <1>1, <1>2, <1>3, <1>4, <1>5 DEF Next, LifecycleSteady

(* What a session that reads as ended may still do.                       *)
Frozen == UNCHANGED <<positionVars, workVars, claimVars, sealed, retired,
                      lifeVars, limitVars, humanVars, otherVars>>

(* An ended session accepts nothing but a late result.                    *)
LEMMA EndedStep == PhaseIsExplicit /\ IsEnded /\ [Next]_vars => Frozen
  <1> SUFFICES ASSUME PhaseIsExplicit, IsEnded, [Next]_vars PROVE Frozen
    OBVIOUS
  <1>1. ~(lifecycle.phase = "paused")
    BY DEF PhaseIsExplicit, IsEnded, LifecycleView
  <1>2. ASSUME NEW fence \in receipts, NEW result \in Results,
               ObserveLateResult(fence, result)
        PROVE  Frozen
    BY <1>2 DEF ObserveLateResult, Frozen
  <1>3. CASE Tick
    BY <1>3 DEF Tick, Frozen, resultVars
  <1>4. CASE UNCHANGED vars
    BY <1>4 DEF vars, Frozen, resultVars
  <1>5. ASSUME NEW step \in Steps, NEW role \in Roles, NEW owner \in Owners, NEW key \in Keys,
               NEW now \in Observed, NEW ceiling \in HostCeilings,
               StartStep(step, role, owner, key, now, ceiling)
        PROVE  FALSE
    BY <1>5 DEF StartStep, AdmitsNewWork
  <1>6. ASSUME NEW fence \in receipts, NEW owner \in Owners, NEW now \in RenewalTimes,
               NEW request, RenewStepLease(fence, owner, request, now)
        PROVE  FALSE
    BY <1>6 DEF RenewStepLease, IsActive
  <1>7. ASSUME NEW fence \in receipts, NEW result \in Results,
               CompleteStep(fence, result) \/ FailStep(fence, result)
        PROVE  FALSE
    BY <1>7 DEF CompleteStep, FailStep, ResultIsAdmitted
  <1>8. ASSUME NEW tr \in Transitions, NEW now \in Observed, ApplyTransition(tr, now)
        PROVE  FALSE
    BY <1>8 DEF ApplyTransition, AdmitsNewWork
  <1>9. CASE \/ \E g \in Guards : ApproveGuard(g) \/ DeferGuard(g)
             \/ \E i \in Interventions : RequestIntervention(i) \/ CloseIntervention(i)
    BY <1>9 DEF ApproveGuard, DeferGuard, RequestIntervention, CloseIntervention, IsActive
  <1>10. CASE Pause \/ Resume \/ Cancel
    BY <1>10 DEF Pause, Resume, MayResume, Cancel, MayCancel
  <1>11. ASSUME NEW now \in Observed, EnforceDeadlines(now)
         PROVE  FALSE
    BY <1>11 DEF EnforceDeadlines, DeadlinesApply
  <1>12. ASSUME NEW steps \in SUBSET Steps, PlanSuccessor(steps)
         PROVE  FALSE
    BY <1>1, <1>12 DEF PlanSuccessor
  <1> QED
    BY <1>2, <1>3, <1>4, <1>5, <1>6, <1>7, <1>8, <1>9, <1>10, <1>11, <1>12 DEF Next

(* Once a session reads as ended, no command of any actor, and no         *)
(* deadline, changes it again; a late result is observed beside it.       *)
THEOREM EndedIsFrozen == Spec => EndedFreezesExecution
  <1>1. Init => PhaseIsExplicit
    BY DEF Init, PhaseIsExplicit
  <1>2. PhaseIsExplicit /\ [Next]_vars => (IsEnded => Frozen)
    BY EndedStep
  <1> QED
    BY <1>1, <1>2, NextExplicit, PTL DEF Spec, EndedFreezesExecution, Frozen

-----------------------------------------------------------------------------
(***************************************************************************)
(* A claim is answered at most once, and no accepted success is lost.      *)
(*                                                                         *)
(* The first is not inductive.  It rests on idempotency keys never being   *)
(* used twice, so that a new claim's fence is unlike every fence handed    *)
(* out before, and on a sealed claim being neither held by a record nor    *)
(* watched by a deadline any more.                                         *)
(***************************************************************************)

(* A fence that was handed out used up its idempotency key.               *)
KeysTaken == \A f \in receipts : f.lease.key \in idempotencyKeys

(* Every claim the session speaks of was handed out to a worker.          *)
ClaimsGranted ==
    /\ \A a \in sealed : a.fence \in receipts
    /\ \A d \in retired : d.fence \in receipts
    /\ \A step \in Steps : CurrentFence(step) \subseteq receipts
    /\ \A step \in Steps : \A d \in stepDeadlines[step] :
          d.fence \in receipts /\ d.fence.step = step

(* A claim whose result was accepted is neither held nor watched.         *)
SealedClaimsAreClosed ==
    \A a \in sealed :
        /\ a.fence \notin CurrentFence(a.fence.step)
        /\ \A d \in stepDeadlines[a.fence.step] : d.fence # a.fence

ClaimInv == OneResultPerClaim /\ KeysTaken /\ ClaimsGranted /\ SealedClaimsAreClosed

-----------------------------------------------------------------------------
(* The fences of a step's claim name that step.                           *)
LEMMA CurrentFenceStep ==
    ASSUME NEW step, NEW f \in CurrentFence(step)
    PROVE  f.step = step /\ f.lease \in records[step].lease
  BY DEF CurrentFence, StepClaimFence

(* A record without a lease holds no claim.                               *)
LEMMA NoLeaseNoFence ==
    ASSUME NEW step, records[step].lease = {}
    PROVE  CurrentFence(step) = {}
  BY DEF CurrentFence, StepClaimFence

(* Whatever lets go of claims and deadlines, and takes up none, keeps the *)
(* invariant.                                                             *)
LEMMA LettingGo ==
    ASSUME TypeOK, ClaimInv,
           UNCHANGED <<claimVars, resultVars>>,
           \A step \in Steps : CurrentFence(step)' \subseteq CurrentFence(step),
           \A step \in Steps : stepDeadlines'[step] \subseteq stepDeadlines[step]
    PROVE  ClaimInv'
  <1>1. \A a \in sealed : a.fence.step \in Steps
    BY DEF TypeOK, SealedResults, Fences
  <1>2. OneResultPerClaim' /\ KeysTaken'
    BY DEF ClaimInv, OneResultPerClaim, KeysTaken, claimVars, resultVars
  <1>3. ClaimsGranted'
    BY DEF ClaimInv, ClaimsGranted, claimVars, resultVars
  <1>4. SealedClaimsAreClosed'
    BY <1>1 DEF ClaimInv, SealedClaimsAreClosed, resultVars
  <1> QED
    BY <1>2, <1>3, <1>4 DEF ClaimInv

(* A new claim is unlike every claim handed out before.                   *)
LEMMA StartStepClaims ==
    ASSUME TypeOK, ClaimInv, NEW step \in Steps, NEW role \in Roles, NEW owner \in Owners,
           NEW key \in Keys, NEW now \in Observed, NEW ceiling \in HostCeilings,
           StartStep(step, role, owner, key, now, ceiling)
    PROVE  ClaimInv'
  <1> DEFINE claimed == ClaimedRecord(step, role, owner, key, now)
             fence == StepClaimFence(step, claimed)
  <1>1. claimed.lease = {Acquire(owner, key, now)}
    BY DEF ClaimedRecord, WithStarted, TypeOK, Records
  <1>2. \A f \in fence : f.step = step /\ f.lease.key = key
    BY <1>1 DEF StepClaimFence, Acquire
  <1>3. \A f \in fence : f \notin receipts
    BY <1>2 DEF StartStep, ClaimInv, KeysTaken
  <1>4. /\ records' = [records EXCEPT ![step] = claimed]
        /\ stepDeadlines' = [stepDeadlines EXCEPT ![step] =
              { [fence |-> f, at |-> t] : f \in fence, t \in StepDeadlineAt(step, now) }]
        /\ receipts' = receipts \cup fence
        /\ idempotencyKeys' = idempotencyKeys \cup {key}
        /\ UNCHANGED resultVars
    BY DEF StartStep
  <1>5. /\ CurrentFence(step)' = fence
        /\ \A other \in Steps \ {step} : CurrentFence(other)' = CurrentFence(other)
    BY <1>4 DEF CurrentFence, TypeOK
  <1>6. /\ \A d \in stepDeadlines'[step] : d.fence \in fence
        /\ \A other \in Steps \ {step} : stepDeadlines'[other] = stepDeadlines[other]
    BY <1>4 DEF TypeOK
  <1> HIDE DEF fence, claimed
  <1>7. OneResultPerClaim'
    BY <1>4 DEF ClaimInv, OneResultPerClaim, resultVars
  <1>8. KeysTaken'
    BY <1>2, <1>4 DEF ClaimInv, KeysTaken
  <1>9. ClaimsGranted'
    BY <1>2, <1>4, <1>5, <1>6 DEF ClaimInv, ClaimsGranted, resultVars
  <1>10. SealedClaimsAreClosed'
    <2>1. \A a \in sealed : a.fence.step \in Steps
      BY DEF TypeOK, SealedResults, Fences
    <2>2. \A a \in sealed : a.fence \notin fence
      BY <1>3 DEF ClaimInv, ClaimsGranted
    <2> QED
      BY <1>4, <1>5, <1>6, <2>1, <2>2 DEF ClaimInv, SealedClaimsAreClosed, resultVars
  <1> QED
    BY <1>7, <1>8, <1>9, <1>10 DEF ClaimInv

(* Accepting a result closes its claim for good.                          *)
LEMMA SealingClaims ==
    ASSUME TypeOK, ClaimInv, NEW fence \in receipts, NEW result \in Results,
           ResultIsAdmitted(fence),
           Seal(fence, result),
           UNCHANGED <<claimVars, retired, lateResults>>,
           CurrentFence(fence.step)' = {},
           \A step \in Steps : CurrentFence(step)' \subseteq CurrentFence(step),
           stepDeadlines' = [stepDeadlines EXCEPT ![fence.step] = {}]
    PROVE  ClaimInv'
  <1>1. fence.step \in Steps
    BY SealedType
  <1>2. \A a \in sealed : a.fence # fence
    BY DEF ResultIsAdmitted, IsLiveClaim, ClaimInv, SealedClaimsAreClosed
  <1>3. OneResultPerClaim'
    BY <1>2 DEF ClaimInv, OneResultPerClaim, ResultIsAdmitted, IsRetired, Seal
  <1>4. KeysTaken'
    BY DEF ClaimInv, KeysTaken, claimVars
  <1>5. \A step \in Steps : stepDeadlines'[step] \subseteq stepDeadlines[step]
    BY <1>1 DEF TypeOK
  <1>6. ClaimsGranted'
    BY <1>5 DEF ClaimInv, ClaimsGranted, claimVars, Seal
  <1>7. SealedClaimsAreClosed'
    <2>1. \A a \in sealed : a.fence.step \in Steps
      BY DEF TypeOK, SealedResults, Fences
    <2>2. stepDeadlines'[fence.step] = {}
      BY <1>1 DEF TypeOK
    <2>3. \A a \in sealed : /\ a.fence \notin CurrentFence(a.fence.step)'
                            /\ \A d \in stepDeadlines'[a.fence.step] : d.fence # a.fence
      BY <1>5, <2>1 DEF ClaimInv, SealedClaimsAreClosed
    <2> QED
      BY <2>2, <2>3 DEF SealedClaimsAreClosed, Seal
  <1> QED
    BY <1>3, <1>4, <1>6, <1>7 DEF ClaimInv

(* Failing a step.                                                        *)
LEMMA FailStepClaims ==
    ASSUME TypeOK, ClaimInv, NEW fence \in receipts, NEW result \in Results,
           FailStep(fence, result)
    PROVE  ClaimInv'
  <1>1. fence.step \in Steps /\ records[fence.step] \in Records
    BY SealedType
  <1>2. records' = [records EXCEPT ![fence.step] = WithResult(records[fence.step], result)]
    BY <1>1 DEF FailStep, TypeOK
  <1>3. CurrentFence(fence.step)' = {}
    BY <1>1, <1>2 DEF CurrentFence, StepClaimFence, WithResult, TypeOK, Records
  <1>4. \A step \in Steps \ {fence.step} : CurrentFence(step)' = CurrentFence(step)
    BY <1>1, <1>2 DEF CurrentFence, TypeOK
  <1> QED
    BY <1>3, <1>4, SealingClaims DEF FailStep

(* Completing a step, and the iterations that follow from it.             *)
LEMMA CompleteStepClaims ==
    ASSUME TypeOK, ClaimInv, NEW fence \in receipts, NEW result \in Results,
           CompleteStep(fence, result)
    PROVE  ClaimInv'
  <1> DEFINE recs == RecordsAfterCompletion(fence.step, result)
  <1>1. fence.step \in Steps /\ records[fence.step] \in Records
    BY SealedType
  <1>2. recs[fence.step].lease = {}
    BY <1>1 DEF RecordsAfterCompletion, WithResult, Pending, TypeOK, Records
  <1>3. \A step \in Steps \ {fence.step} : recs[step] = records[step]
    BY <1>1 DEF RecordsAfterCompletion, TypeOK
  <1>4. \A step \in Steps : records'[step] = recs[step] \/ records'[step].lease = {}
    <2>1. records' = recs \/ records' = RecordsAfterIteration(recs)
      BY DEF CompleteStep
    <2> HIDE DEF recs
    <2> QED
      BY <2>1 DEF RecordsAfterIteration, Pending
  <1>5. CurrentFence(fence.step)' = {}
    BY <1>1, <1>2, <1>4 DEF CurrentFence, StepClaimFence
  <1>6. \A step \in Steps : CurrentFence(step)' \subseteq CurrentFence(step)
    <2> TAKE step \in Steps
    <2>1. CASE step = fence.step
      BY <1>5, <2>1
    <2>2. CASE step # fence.step
      BY <1>3, <1>4, <2>2 DEF CurrentFence, StepClaimFence
    <2> QED
      BY <2>1, <2>2
  <1> QED
    BY <1>5, <1>6, SealingClaims DEF CompleteStep

(* A late result is observed for a claim that is retired, or still held.  *)
LEMMA ObserveLateResultClaims ==
    ASSUME TypeOK, ClaimInv, NEW fence \in receipts, NEW result \in Results,
           ObserveLateResult(fence, result)
    PROVE  ClaimInv'
  <1>1. UNCHANGED <<workVars, claimVars, sealed, retired>>
    BY DEF ObserveLateResult
  <1>2. \A a \in sealed : a.fence # fence
    BY DEF ObserveLateResult, IsRetired, IsLiveClaim, ClaimInv, OneResultPerClaim,
           SealedClaimsAreClosed
  <1>3. OneResultPerClaim'
    BY <1>1, <1>2 DEF ObserveLateResult, ClaimInv, OneResultPerClaim
  <1>4. \A step \in Steps : CurrentFence(step)' = CurrentFence(step)
    BY <1>1 DEF CurrentFence, workVars
  <1>5. KeysTaken' /\ ClaimsGranted'
    BY <1>1, <1>4 DEF ClaimInv, KeysTaken, ClaimsGranted, workVars, claimVars
  <1>6. SealedClaimsAreClosed'
    BY <1>1 DEF ClaimInv, SealedClaimsAreClosed, CurrentFence, workVars
  <1> QED
    BY <1>3, <1>5, <1>6 DEF ClaimInv

(* An expired deadline retires a claim that was never answered.           *)
LEMMA EnforceDeadlinesClaims ==
    ASSUME TypeOK, ClaimInv, NEW now \in Observed, EnforceDeadlines(now)
    PROVE  ClaimInv'
  <1>1. /\ \A step \in Steps : \/ records'[step] = records[step]
                               \/ records'[step] = WithResult(records[step], TimedOut)
        /\ \A step \in Steps : stepDeadlines'[step] \subseteq stepDeadlines[step]
        /\ retired' = retired \cup DueSteps(now)
        /\ UNCHANGED <<claimVars, sealed, lateResults>>
    BY DEF EnforceDeadlines
  <1>2. \A step \in Steps : CurrentFence(step)' \subseteq CurrentFence(step)
    <2> TAKE step \in Steps
    <2>1. WithResult(records[step], TimedOut).lease = {}
      BY DEF WithResult, TypeOK, Records
    <2> QED
      BY <1>1, <2>1 DEF CurrentFence, StepClaimFence
  <1>3. \A d \in DueSteps(now) : d.fence \in receipts /\ \A a \in sealed : a.fence # d.fence
    BY DEF DueSteps, ClaimInv, ClaimsGranted, SealedClaimsAreClosed
  <1>4. OneResultPerClaim'
    BY <1>1, <1>3 DEF ClaimInv, OneResultPerClaim
  <1>5. KeysTaken' /\ ClaimsGranted'
    BY <1>1, <1>2, <1>3 DEF ClaimInv, KeysTaken, ClaimsGranted, claimVars
  <1>6. SealedClaimsAreClosed'
    <2>1. \A a \in sealed : a.fence.step \in Steps
      BY DEF TypeOK, SealedResults, Fences
    <2> QED
      BY <1>1, <1>2, <2>1 DEF ClaimInv, SealedClaimsAreClosed
  <1> QED
    BY <1>4, <1>5, <1>6 DEF ClaimInv

(* A renewal keeps the claim it prolongs.                                 *)
LEMMA RenewStepLeaseClaims ==
    ASSUME TypeOK, ClaimInv, NEW fence \in receipts, NEW owner \in Owners,
           NEW now \in RenewalTimes, NEW request, RenewStepLease(fence, owner, request, now)
    PROVE  ClaimInv'
  <1>1. fence.step \in Steps
    BY DEF TypeOK, Fences
  <1>2. records' = [records EXCEPT ![fence.step].renewed = RenewedExpiry(fence.step, now)]
    BY DEF RenewStepLease
  <1>3. \A step \in Steps : CurrentFence(step)' = CurrentFence(step)
    BY <1>1, <1>2 DEF CurrentFence, StepClaimFence, TypeOK, Records
  <1> QED
    BY <1>3, LettingGo DEF RenewStepLease

(* A move lets go of the claims of the state it enters.                   *)
LEMMA ApplyTransitionClaims ==
    ASSUME TypeOK, ClaimInv, NEW tr \in Transitions, NEW now \in Observed,
           ApplyTransition(tr, now)
    PROVE  ClaimInv'
  <1>1. \A step \in Steps : records'[step] = records[step] \/ records'[step].lease = {}
    BY DEF ApplyTransition, RecordsAfterEntry, Pending
  <1>2. \A step \in Steps : CurrentFence(step)' \subseteq CurrentFence(step)
    BY <1>1 DEF CurrentFence, StepClaimFence
  <1> QED
    BY <1>2, LettingGo DEF ApplyTransition

(* The steps that leave work, claims and results alone.                   *)
LEMMA IdleClaims ==
    ASSUME TypeOK, ClaimInv, UNCHANGED <<workVars, claimVars, resultVars>>
    PROVE  ClaimInv'
  <1>1. \A step \in Steps : CurrentFence(step)' = CurrentFence(step)
    BY DEF CurrentFence, workVars
  <1> QED
    BY <1>1, LettingGo DEF workVars

(* Every step keeps the invariant of claims.                              *)
LEMMA NextClaims == TypeOK /\ ClaimInv /\ [Next]_vars => ClaimInv'
  <1> SUFFICES ASSUME TypeOK, ClaimInv, [Next]_vars PROVE ClaimInv'
    OBVIOUS
  <1>1. ASSUME NEW step \in Steps, NEW role \in Roles, NEW owner \in Owners, NEW key \in Keys,
               NEW now \in Observed, NEW ceiling \in HostCeilings,
               StartStep(step, role, owner, key, now, ceiling)
        PROVE  ClaimInv'
    BY <1>1, StartStepClaims
  <1>2. ASSUME NEW fence \in receipts, NEW owner \in Owners, NEW now \in RenewalTimes,
               NEW request, RenewStepLease(fence, owner, request, now)
        PROVE  ClaimInv'
    BY <1>2, RenewStepLeaseClaims
  <1>3. ASSUME NEW fence \in receipts, NEW result \in Results,
               \/ CompleteStep(fence, result)
               \/ FailStep(fence, result)
               \/ ObserveLateResult(fence, result)
        PROVE  ClaimInv'
    BY <1>3, CompleteStepClaims, FailStepClaims, ObserveLateResultClaims
  <1>4. ASSUME NEW tr \in Transitions, NEW now \in Observed, ApplyTransition(tr, now)
        PROVE  ClaimInv'
    BY <1>4, ApplyTransitionClaims
  <1>5. CASE \/ \E g \in Guards : ApproveGuard(g) \/ DeferGuard(g)
             \/ \E i \in Interventions : RequestIntervention(i) \/ CloseIntervention(i)
             \/ Pause \/ Resume \/ Cancel \/ Tick
             \/ \E steps \in SUBSET Steps : PlanSuccessor(steps)
    <2>1. UNCHANGED <<workVars, claimVars, resultVars>>
      BY <1>5
      DEF ApproveGuard, DeferGuard, RequestIntervention, CloseIntervention, Pause, Resume,
          Cancel, LifecycleChangesTo, Tick, PlanSuccessor
    <2> QED
      BY <2>1, IdleClaims
  <1>6. ASSUME NEW now \in Observed, EnforceDeadlines(now)
        PROVE  ClaimInv'
    BY <1>6, EnforceDeadlinesClaims
  <1>7. CASE UNCHANGED vars
    <2>1. UNCHANGED <<workVars, claimVars, resultVars>>
      BY <1>7 DEF vars
    <2> QED
      BY <2>1, IdleClaims
  <1> QED
    BY <1>1, <1>2, <1>3, <1>4, <1>5, <1>6, <1>7 DEF Next

(* Initially nothing was claimed.                                         *)
LEMMA InitClaims == Init => ClaimInv
  BY DEF Init, ClaimInv, OneResultPerClaim, KeysTaken, ClaimsGranted, SealedClaimsAreClosed,
         CurrentFence, StepClaimFence, Pending

(* A claim is answered at most once, whatever the definition, the number  *)
(* of workers and the order in which results, takeovers, re-entries and   *)
(* deadlines arrive.                                                      *)
THEOREM ClaimsAnsweredOnce == Spec => []OneResultPerClaim
  <1>1. Init => TypeOK /\ ClaimInv
    BY InitType, InitClaims
  <1>2. TypeOK /\ ClaimInv /\ [Next]_vars => TypeOK' /\ ClaimInv'
    BY NextType, NextClaims
  <1>3. ClaimInv => OneResultPerClaim
    BY DEF ClaimInv
  <1> QED
    BY <1>1, <1>2, <1>3, PTL DEF Spec

-----------------------------------------------------------------------------
(* No accepted success is lost.  The property is not inductive: a deadline *)
(* that fires overwrites the record of the step it watches, so the         *)
(* invariant also says that no deadline, current or left over from an      *)
(* earlier visit, watches a step that is completed.  That a deadline       *)
(* watches the step its fence names comes from the invariant of claims.    *)

(* A deadline, even one left over from an earlier visit, never watches a  *)
(* step that is completed: expiry would overwrite its result.             *)
WatchedStepsAreUnfinished ==
    \A step \in Steps :
        stepDeadlines[step] # {} => records[step].status \in {"pending", "in_progress"}

WorkInv == CompletedWorkIsKept /\ WatchedStepsAreUnfinished

-----------------------------------------------------------------------------
(* The records a history holds.                                           *)
Held(h) == { h[i] : i \in DOMAIN h }

(* The sequence g continues h by the record r.                            *)
Continues(g, h, r) ==
    /\ Len(h) \in Nat
    /\ DOMAIN h = 1..Len(h)
    /\ DOMAIN g = 1..(Len(h) + 1)
    /\ g[Len(h) + 1] = r
    /\ \A i \in 1..Len(h) : g[i] = h[i]

(* A continuation holds what it continues, and its last record.           *)
LEMMA HeldByContinuation ==
    ASSUME NEW g, NEW h, NEW r, Continues(g, h, r)
    PROVE  Held(h) \subseteq Held(g) /\ r \in Held(g)
  BY DEF Held, Continues

(* Appending to a history keeps what it held and adds the record.         *)
LEMMA AppendKeeps ==
    ASSUME NEW S, NEW h \in Seq(S), NEW r \in S, NEW h2, h2 = Append(h, r)
    PROVE  Held(h) \subseteq Held(h2) /\ r \in Held(h2)
  <1>1. Continues(h2, h, r)
    BY DEF Continues
  <1> QED
    BY <1>1, HeldByContinuation, Zenon

(* Every success a step's records hold, they go on holding.               *)
SuccessesStay ==
    \A step \in Steps : \A r \in RecordsOf(step) : IsSuccess(r) => r \in RecordsOf(step)'

(* What keeps every successful record of every step keeps accepted work.  *)
LEMMA KeepingRecords ==
    ASSUME TypeOK, CompletedWorkIsKept, UNCHANGED sealed, SuccessesStay
    PROVE  CompletedWorkIsKept'
  <1>1. \A a \in sealed : a.fence.step \in Steps
    BY DEF TypeOK, SealedResults, Fences
  <1> SUFFICES ASSUME NEW a \in sealed, a.result.status = "completed"
               PROVE  \E r \in RecordsOf(a.fence.step)' : Reports(r, a.fence, a.result)
    BY DEF CompletedWorkIsKept, Reports
  <1>2. PICK r \in RecordsOf(a.fence.step) : Reports(r, a.fence, a.result)
    BY DEF CompletedWorkIsKept
  <1>3. IsSuccess(r)
    BY <1>2 DEF Reports, IsSuccess
  <1> QED
    BY <1>1, <1>2, <1>3 DEF SuccessesStay

(* A claim takes an unfinished record only.                               *)
LEMMA StartStepWork ==
    ASSUME TypeOK, WorkInv, NEW step \in Steps, NEW role \in Roles, NEW owner \in Owners,
           NEW key \in Keys, NEW now \in Observed, NEW ceiling \in HostCeilings,
           StartStep(step, role, owner, key, now, ceiling)
    PROVE  WorkInv' /\ SuccessesStay
  <1> DEFINE claimed == ClaimedRecord(step, role, owner, key, now)
  <1>1. records' = [records EXCEPT ![step] = claimed] /\ UNCHANGED <<history, sealed>>
    BY DEF StartStep, resultVars
  <1>2. claimed.status = "in_progress"
    BY DEF ClaimedRecord, WithStarted, TypeOK, Records
  <1>3. ~IsSuccess(records[step])
    BY DEF StartStep, CanBeStartedAt, Executable, IsSuccess
  <1>4. \A other \in Steps \ {step} : stepDeadlines'[other] = stepDeadlines[other]
    BY DEF StartStep, TypeOK
  <1> HIDE DEF claimed
  <1>5. SuccessesStay
    BY <1>1, <1>3 DEF SuccessesStay, RecordsOf, TypeOK
  <1>6. WatchedStepsAreUnfinished'
    BY <1>1, <1>2, <1>4 DEF WorkInv, WatchedStepsAreUnfinished, TypeOK
  <1> QED
    BY <1>1, <1>5, <1>6, KeepingRecords DEF WorkInv

(* A renewal leaves the status of every record alone.                     *)
LEMMA RenewStepLeaseWork ==
    ASSUME TypeOK, WorkInv, NEW fence \in receipts, NEW owner \in Owners,
           NEW now \in RenewalTimes, NEW request, RenewStepLease(fence, owner, request, now)
    PROVE  WorkInv' /\ SuccessesStay
  <1>1. fence.step \in Steps
    BY DEF TypeOK, Fences
  <1>2. records' = [records EXCEPT ![fence.step].renewed = RenewedExpiry(fence.step, now)]
        /\ UNCHANGED <<history, stepDeadlines, sealed>>
    BY DEF RenewStepLease, resultVars
  <1>3. records[fence.step].status = "in_progress"
    BY DEF RenewStepLease, HasLiveLeaseAt
  <1>4. \A step \in Steps : records'[step].status = records[step].status
    BY <1>1, <1>2 DEF TypeOK, Records
  <1>5. SuccessesStay
    BY <1>1, <1>2, <1>3 DEF SuccessesStay, RecordsOf, IsSuccess, TypeOK
  <1> QED
    BY <1>2, <1>4, <1>5, KeepingRecords DEF WorkInv, WatchedStepsAreUnfinished

(* A failure replaces a record in progress.                               *)
LEMMA FailStepWork ==
    ASSUME TypeOK, WorkInv, NEW fence \in receipts, NEW result \in Results,
           FailStep(fence, result)
    PROVE  WorkInv' /\ SuccessesStay
  <1>1. fence.step \in Steps /\ fence \in Fences
    BY SealedType
  <1>2. /\ records' = [records EXCEPT ![fence.step] = WithResult(records[fence.step], result)]
        /\ stepDeadlines' = [stepDeadlines EXCEPT ![fence.step] = {}]
        /\ sealed' = sealed \cup {[fence |-> fence, result |-> result]}
        /\ UNCHANGED history
        /\ result.status # "completed"
        /\ records[fence.step].status = "in_progress"
    BY <1>1 DEF FailStep, Seal, ResultIsAdmitted, IsLiveClaim, TypeOK
  <1>3. SuccessesStay
    BY <1>1, <1>2 DEF SuccessesStay, RecordsOf, IsSuccess, TypeOK
  <1>4. CompletedWorkIsKept'
    <2> SUFFICES ASSUME NEW a \in sealed, a.result.status = "completed"
                 PROVE  \E r \in RecordsOf(a.fence.step)' : Reports(r, a.fence, a.result)
      BY <1>2 DEF CompletedWorkIsKept, Reports
    <2>1. PICK r \in RecordsOf(a.fence.step) : Reports(r, a.fence, a.result)
      BY DEF WorkInv, CompletedWorkIsKept
    <2>2. a.fence.step \in Steps
      BY DEF TypeOK, SealedResults, Fences
    <2> QED
      BY <1>3, <2>1, <2>2 DEF Reports, IsSuccess, SuccessesStay
  <1>5. WatchedStepsAreUnfinished'
    BY <1>1, <1>2 DEF WorkInv, WatchedStepsAreUnfinished, TypeOK
  <1> QED
    BY <1>3, <1>4, <1>5 DEF WorkInv

(* A completion stands in the step's record, or in its history when the   *)
(* step or the whole state is opened again.                               *)
LEMMA CompleteStepWork ==
    ASSUME TypeOK, WorkInv, NEW fence \in receipts, NEW result \in Results,
           CompleteStep(fence, result)
    PROVE  WorkInv' /\ SuccessesStay
  <1> DEFINE step == fence.step
             done == WithResult(records[step], result)
             recs == RecordsAfterCompletion(step, result)
             hist == HistoryAfterCompletion(step, result)
             After(s) == { hist[s][i] : i \in DOMAIN hist[s] } \cup { recs[s] }
  <1>1. step \in Steps /\ fence \in Fences /\ records[step] \in Records
    BY SealedType
  <1>2. /\ recs \in [Steps -> Records]
        /\ hist \in [Steps -> Seq(Records)]
        /\ done \in Records
    BY CompletionType, SealedType, WithResultType
  <1>3. result.status = "completed" /\ IsLiveClaim(fence)
    BY DEF CompleteStep, ResultIsAdmitted
  <1>4. Reports(done, fence, result)
    <2>1. \A f \in CurrentFence(step) :
             /\ f.visit = records[step].visit
             /\ f.stateIteration = records[step].stateIteration
             /\ f.iteration = records[step].iteration
             /\ f.attempt = records[step].attempt
      BY DEF CurrentFence, StepClaimFence
    <2>2. fence \in CurrentFence(step)
      BY <1>3 DEF IsLiveClaim
    <2> QED
      BY <1>1, <2>1, <2>2 DEF Reports, WithResult, Records
  <1>5. done \in After(step)
    <2>1. CASE StepReopens(step, result)
      <3>1. hist[step] = Append(history[step], done)
        BY <1>1, <2>1 DEF HistoryAfterCompletion, TypeOK
      <3>2. history[step] \in Seq(Records)
        BY <1>1 DEF TypeOK
      <3> HIDE DEF hist, done
      <3>3. done \in Held(hist[step])
        BY <1>2, <3>1, <3>2, AppendKeeps
      <3> QED
        BY <3>3 DEF Held
    <2>2. CASE ~StepReopens(step, result)
      BY <1>1, <2>2 DEF RecordsAfterCompletion, TypeOK
    <2> QED
      BY <2>1, <2>2
  <1>6. \A s \in Steps : \A r \in RecordsOf(s) : IsSuccess(r) => r \in After(s)
    <2> TAKE s \in Steps
    <2>1. CASE s # step
      BY <1>1, <2>1 DEF RecordsAfterCompletion, HistoryAfterCompletion, RecordsOf, TypeOK
    <2>2. CASE s = step
      <3>1. ~IsSuccess(records[s])
        BY <1>3, <2>2 DEF IsLiveClaim, IsSuccess
      <3>2. \/ hist[s] = history[s]
            \/ hist[s] = Append(history[s], done)
        BY <1>1, <2>2 DEF HistoryAfterCompletion, TypeOK
      <3>3. history[s] \in Seq(Records)
        BY DEF TypeOK
      <3>4. Held(history[s]) \subseteq Held(hist[s])
        <4> HIDE DEF hist, done
        <4>1. CASE hist[s] = Append(history[s], done)
          BY <1>2, <3>3, <4>1, AppendKeeps
        <4>2. CASE hist[s] = history[s]
          BY <4>2
        <4> QED
          BY <3>2, <4>1, <4>2
      <3> HIDE DEF hist, recs
      <3> QED
        BY <3>1, <3>4 DEF RecordsOf, Held
    <2> QED
      BY <2>1, <2>2
  <1>7. \A s \in Steps : After(s) \subseteq RecordsOf(s)'
    <2>1. CASE records' = recs /\ history' = hist
      BY <2>1 DEF RecordsOf
    <2>2. CASE /\ records' = RecordsAfterIteration(recs)
               /\ history' = HistoryAfterIteration(recs, hist)
      <3> HIDE DEF recs, hist
      <3> TAKE s \in Steps
      <3>1. hist[s] \in Seq(Records) /\ recs[s] \in Records
        BY <1>2
      <3>2. CASE s \in InState(currentState)
        <4>1. history'[s] = Append(hist[s], recs[s])
          BY <2>2, <3>2 DEF HistoryAfterIteration
        <4>2. Held(hist[s]) \subseteq Held(history'[s]) /\ recs[s] \in Held(history'[s])
          BY <3>1, <4>1, AppendKeeps
        <4> QED
          BY <4>2 DEF RecordsOf, Held
      <3>3. CASE s \notin InState(currentState)
        BY <2>2, <3>3 DEF RecordsAfterIteration, HistoryAfterIteration, RecordsOf
      <3> QED
        BY <3>2, <3>3
    <2> QED
      BY <2>1, <2>2 DEF CompleteStep
  <1>8. CompletedWorkIsKept'
    <2>1. sealed' = sealed \cup {[fence |-> fence, result |-> result]}
      BY DEF CompleteStep, Seal
    <2> SUFFICES ASSUME NEW a \in sealed', a.result.status = "completed"
                 PROVE  \E r \in RecordsOf(a.fence.step)' : Reports(r, a.fence, a.result)
      BY DEF CompletedWorkIsKept, Reports
    <2> HIDE DEF done, After
    <2>2. CASE a = [fence |-> fence, result |-> result]
      BY <1>1, <1>4, <1>5, <1>7, <2>2
    <2>3. CASE a \in sealed
      <3>1. PICK r \in RecordsOf(a.fence.step) : Reports(r, a.fence, a.result)
        BY <2>3 DEF WorkInv, CompletedWorkIsKept
      <3>2. a.fence.step \in Steps
        BY <2>3 DEF TypeOK, SealedResults, Fences
      <3> QED
        BY <1>6, <1>7, <3>1, <3>2 DEF Reports, IsSuccess
    <2> QED
      BY <2>1, <2>2, <2>3
  <1>9. WatchedStepsAreUnfinished'
    <2>1. stepDeadlines' = [stepDeadlines EXCEPT ![step] = {}]
      BY DEF CompleteStep
    <2>2. \A s \in Steps \ {step} : records'[s] = records[s] \/ records'[s].status = "pending"
      <3>1. \A s \in Steps \ {step} : recs[s] = records[s]
        BY <1>1 DEF RecordsAfterCompletion, TypeOK
      <3>2. records' = recs \/ records' = RecordsAfterIteration(recs)
        BY DEF CompleteStep
      <3> HIDE DEF recs
      <3> QED
        BY <3>1, <3>2 DEF RecordsAfterIteration, Pending
    <2> QED
      BY <1>1, <2>1, <2>2 DEF WorkInv, WatchedStepsAreUnfinished, TypeOK
  <1>10. SuccessesStay
    <2> HIDE DEF After
    <2> QED
      BY <1>6, <1>7 DEF SuccessesStay
  <1> QED
    BY <1>8, <1>9, <1>10 DEF WorkInv

(* Entering a state archives what its steps had done there before.        *)
LEMMA ApplyTransitionWork ==
    ASSUME TypeOK, WorkInv, NEW tr \in Transitions, NEW now \in Observed,
           ApplyTransition(tr, now)
    PROVE  WorkInv' /\ SuccessesStay
  <1>1. /\ records' = RecordsAfterEntry(tr.to)
        /\ history' = HistoryAfterEntry(tr.to)
        /\ UNCHANGED <<sealed, stepDeadlines>>
    BY DEF ApplyTransition, resultVars
  <1>2. SuccessesStay
    <2> SUFFICES ASSUME NEW step \in Steps
                 PROVE  \A r \in RecordsOf(step) : IsSuccess(r) => r \in RecordsOf(step)'
      BY DEF SuccessesStay
    <2>1. history[step] \in Seq(Records) /\ records[step] \in Records
      BY DEF TypeOK
    <2>2. CASE step \in InState(tr.to) /\ records[step].status # "pending"
      <3>1. history'[step] = Append(history[step], records[step])
        BY <1>1, <2>2 DEF HistoryAfterEntry
      <3>2. Held(history[step]) \subseteq Held(history'[step]) /\ records[step] \in Held(history'[step])
        BY <2>1, <3>1, AppendKeeps
      <3> QED
        BY <3>2 DEF RecordsOf, Held
    <2>3. CASE step \in InState(tr.to) /\ records[step].status = "pending"
      <3>1. history'[step] = history[step] /\ ~IsSuccess(records[step])
        BY <1>1, <2>3 DEF HistoryAfterEntry, IsSuccess
      <3> QED
        BY <3>1 DEF RecordsOf
    <2>4. CASE step \notin InState(tr.to)
      BY <1>1, <2>4 DEF RecordsAfterEntry, HistoryAfterEntry, RecordsOf
    <2> QED
      BY <2>2, <2>3, <2>4
  <1>3. WatchedStepsAreUnfinished'
    BY <1>1 DEF RecordsAfterEntry, Pending, WorkInv, WatchedStepsAreUnfinished
  <1> QED
    BY <1>1, <1>2, <1>3, KeepingRecords DEF WorkInv

(* An expiry fails a step that is not completed.                          *)
LEMMA EnforceDeadlinesWork ==
    ASSUME TypeOK, WorkInv, NEW now \in Observed, EnforceDeadlines(now),
           \A step \in Steps : \A d \in stepDeadlines[step] : d.fence.step = step
    PROVE  WorkInv' /\ SuccessesStay
  <1> DEFINE expired == { d.fence.step : d \in DueSteps(now) }
  <1>1. /\ records' = [step \in Steps |->
              IF step \in expired THEN WithResult(records[step], TimedOut) ELSE records[step]]
        /\ stepDeadlines' = [step \in Steps |->
              IF step \in expired THEN {} ELSE stepDeadlines[step]]
        /\ UNCHANGED <<history, sealed>>
    BY DEF EnforceDeadlines
  <1>2. \A step \in Steps : step \in expired => stepDeadlines[step] # {}
    BY DEF DueSteps
  <1> HIDE DEF expired
  <1>3. \A step \in Steps : step \in expired => ~IsSuccess(records[step])
    BY <1>2 DEF WorkInv, WatchedStepsAreUnfinished, IsSuccess
  <1>4. SuccessesStay
    BY <1>1, <1>3 DEF SuccessesStay, RecordsOf
  <1>5. WatchedStepsAreUnfinished'
    BY <1>1 DEF WorkInv, WatchedStepsAreUnfinished
  <1> QED
    BY <1>1, <1>4, <1>5, KeepingRecords DEF WorkInv

(* The steps that leave work and accepted results alone.                  *)
LEMMA IdleWork ==
    ASSUME TypeOK, WorkInv, UNCHANGED <<workVars, sealed>>
    PROVE  WorkInv' /\ SuccessesStay
  BY DEF WorkInv, CompletedWorkIsKept, WatchedStepsAreUnfinished, RecordsOf, Reports, workVars, SuccessesStay

(* Every step keeps the invariant of work.                                *)
LEMMA NextWork == TypeOK /\ ClaimInv /\ WorkInv /\ [Next]_vars => WorkInv' /\ SuccessesStay
  <1> SUFFICES ASSUME TypeOK, ClaimInv, WorkInv, [Next]_vars PROVE WorkInv' /\ SuccessesStay
    OBVIOUS
  <1>1. ASSUME NEW step \in Steps, NEW role \in Roles, NEW owner \in Owners, NEW key \in Keys,
               NEW now \in Observed, NEW ceiling \in HostCeilings,
               StartStep(step, role, owner, key, now, ceiling)
        PROVE  WorkInv' /\ SuccessesStay
    BY <1>1, StartStepWork
  <1>2. ASSUME NEW fence \in receipts, NEW owner \in Owners, NEW now \in RenewalTimes,
               NEW request, RenewStepLease(fence, owner, request, now)
        PROVE  WorkInv' /\ SuccessesStay
    BY <1>2, RenewStepLeaseWork
  <1>3. ASSUME NEW fence \in receipts, NEW result \in Results,
               CompleteStep(fence, result) \/ FailStep(fence, result)
        PROVE  WorkInv' /\ SuccessesStay
    BY <1>3, CompleteStepWork, FailStepWork
  <1>4. ASSUME NEW tr \in Transitions, NEW now \in Observed, ApplyTransition(tr, now)
        PROVE  WorkInv' /\ SuccessesStay
    BY <1>4, ApplyTransitionWork
  <1>5. CASE \/ \E g \in Guards : ApproveGuard(g) \/ DeferGuard(g)
             \/ \E i \in Interventions : RequestIntervention(i) \/ CloseIntervention(i)
             \/ Pause \/ Resume \/ Cancel \/ Tick
             \/ \E steps \in SUBSET Steps : PlanSuccessor(steps)
             \/ \E fence \in receipts, result \in Results : ObserveLateResult(fence, result)
    <2>1. UNCHANGED <<workVars, sealed>>
      BY <1>5
      DEF ApproveGuard, DeferGuard, RequestIntervention, CloseIntervention, Pause, Resume,
          Cancel, LifecycleChangesTo, Tick, PlanSuccessor, ObserveLateResult, resultVars
    <2> QED
      BY <2>1, IdleWork
  <1>6. ASSUME NEW now \in Observed, EnforceDeadlines(now)
        PROVE  WorkInv' /\ SuccessesStay
    <2>1. \A step \in Steps : \A d \in stepDeadlines[step] : d.fence.step = step
      BY DEF ClaimInv, ClaimsGranted
    <2> QED
      BY <1>6, <2>1, EnforceDeadlinesWork
  <1>7. CASE UNCHANGED vars
    <2>1. UNCHANGED <<workVars, sealed>>
      BY <1>7 DEF vars, resultVars
    <2> QED
      BY <2>1, IdleWork
  <1> QED
    BY <1>1, <1>2, <1>3, <1>4, <1>5, <1>6, <1>7 DEF Next

(* Initially nothing was accepted and nothing is watched.                 *)
LEMMA InitWork == Init => WorkInv
  BY DEF Init, WorkInv, CompletedWorkIsKept, WatchedStepsAreUnfinished, Pending

(* Every success the session accepted stays readable with its output and  *)
(* its coordinates, whatever is repeated, entered again, taken over or    *)
(* expired afterwards.                                                    *)
THEOREM AcceptedWorkIsKept == Spec => []CompletedWorkIsKept
  <1>1. Init => TypeOK /\ ClaimInv /\ WorkInv
    BY InitType, InitClaims, InitWork
  <1>2. TypeOK /\ ClaimInv /\ WorkInv /\ [Next]_vars => TypeOK' /\ ClaimInv' /\ WorkInv'
    BY NextType, NextClaims, NextWork
  <1>3. WorkInv => CompletedWorkIsKept
    BY DEF WorkInv
  <1> QED
    BY <1>1, <1>2, <1>3, PTL DEF Spec

-----------------------------------------------------------------------------
(* The evidence a succession plan carries.                                *)
LEMMA NextEvidence ==
    TypeOK /\ ClaimInv /\ WorkInv /\ CarriedEvidenceStands /\ [Next]_vars => CarriedEvidenceStands'
  <1> SUFFICES ASSUME TypeOK, ClaimInv, WorkInv, CarriedEvidenceStands, [Next]_vars
               PROVE  CarriedEvidenceStands'
    OBVIOUS
  <1>1. SuccessesStay
    BY NextWork
  <1>2. ASSUME NEW plan \in successorPlan, NEW ref \in plan.carried
        PROVE  \E r \in RecordsOf(ref.step)' : /\ IsSuccess(r) /\ r.visit = ref.visit
                                               /\ r.attempt = ref.attempt /\ r.output = ref.output
    <2>1. plan.carried \in SUBSET SourceRefs
      BY DEF TypeOK
    <2>2. ref.step \in Steps
      BY <2>1 DEF SourceRefs
    <2>3. PICK r \in RecordsOf(ref.step) : /\ IsSuccess(r) /\ r.visit = ref.visit
                                           /\ r.attempt = ref.attempt /\ r.output = ref.output
      BY DEF CarriedEvidenceStands
    <2>4. r \in RecordsOf(ref.step)'
      <3>1. \A step \in Steps : \A q \in RecordsOf(step) : IsSuccess(q) => q \in RecordsOf(step)'
        BY <1>1 DEF SuccessesStay
      <3> QED
        BY <2>2, <2>3, <3>1
    <2> QED
      BY <2>3, <2>4
  <1>3. ASSUME UNCHANGED successorPlan PROVE CarriedEvidenceStands'
    <2> SUFFICES ASSUME NEW plan \in successorPlan, NEW ref \in plan.carried
                 PROVE  \E r \in RecordsOf(ref.step)' : /\ IsSuccess(r) /\ r.visit = ref.visit
                                                        /\ r.attempt = ref.attempt /\ r.output = ref.output
      BY <1>3 DEF CarriedEvidenceStands, IsSuccess
    <2> QED
      BY <1>2
  <1>4. ASSUME NEW steps \in SUBSET Steps, PlanSuccessor(steps) PROVE CarriedEvidenceStands'
    <2>1. /\ successorPlan' = {[dispositions |-> OutstandingClaims,
                                carried |-> { SourceRef(step) : step \in steps }]}
          /\ UNCHANGED <<records, history>> /\ \A step \in steps : IsSuccess(records[step])
      BY <1>4 DEF PlanSuccessor, workVars
    <2>2. \A plan \in successorPlan' : plan.carried = { SourceRef(step) : step \in steps }
      BY <2>1
    <2> SUFFICES ASSUME NEW plan \in successorPlan', NEW ref \in plan.carried
                 PROVE  \E r \in RecordsOf(ref.step)' : /\ IsSuccess(r) /\ r.visit = ref.visit
                                                        /\ r.attempt = ref.attempt /\ r.output = ref.output
      BY DEF CarriedEvidenceStands, IsSuccess
    <2>3. PICK step \in steps : ref = SourceRef(step)
      BY <2>2
    <2>4. records[step] \in RecordsOf(step)'
      BY <2>1 DEF RecordsOf
    <2> QED
      BY <2>1, <2>3, <2>4 DEF SourceRef
  <1>5. CASE LifecycleSteady
    BY <1>3, <1>5, SteadyLifecycle
  <1>6. CASE Pause \/ Resume \/ Cancel \/ UNCHANGED vars
    BY <1>3, <1>6 DEF Pause, Resume, Cancel, LifecycleChangesTo, otherVars, vars
  <1>7. ASSUME NEW now \in Observed, EnforceDeadlines(now) PROVE UNCHANGED successorPlan
    BY <1>7 DEF EnforceDeadlines, otherVars
  <1> QED
    BY <1>3, <1>4, <1>5, <1>6, <1>7 DEF Next, LifecycleSteady

(* The evidence a session sealed for its successor stays readable in it,  *)
(* whatever late results and deadlines arrive afterwards.                 *)
THEOREM EvidenceStands == Spec => []CarriedEvidenceStands
  <1>1. Init => TypeOK /\ ClaimInv /\ WorkInv /\ CarriedEvidenceStands
    BY InitType, InitClaims, InitWork DEF Init, CarriedEvidenceStands
  <1>2. TypeOK /\ ClaimInv /\ WorkInv /\ CarriedEvidenceStands /\ [Next]_vars
           => TypeOK' /\ ClaimInv' /\ WorkInv' /\ CarriedEvidenceStands'
    BY NextType, NextClaims, NextWork, NextEvidence
  <1> QED
    BY <1>1, <1>2, PTL DEF Spec

-----------------------------------------------------------------------------
(***************************************************************************)
(* The order of work within a visit: what is taken in a sequential state,  *)
(* by which roles and how much of it at once in a concurrent one.          *)
(*                                                                         *)
(* Most steps of a session touch the records of the current state in one   *)
(* of four ways: a claim, a move, a new iteration of the whole state, or a *)
(* quiet step that lets each record evolve by itself.  The invariants are  *)
(* shown for each of the four.                                             *)
(***************************************************************************)

(* What a record may become by itself: a claim in progress is renewed,     *)
(* answered or opened again; a pending one may be failed by a deadline     *)
(* left over from an earlier visit.                                        *)
Evolves(r, q) ==
    \/ q = r
    \/ /\ r.status = "in_progress"
       /\ q.status = "pending" \/ q.role = r.role
    \/ r.status = "pending" /\ q.status = "failed"

Quiet ==
    /\ UNCHANGED <<currentState, stateVisit, stateIteration>>
    /\ \A s \in Steps : Evolves(records[s], records'[s])
    /\ \A s \in Steps : HasLiveLeaseAt(records'[s], clock') => HasLiveLeaseAt(records[s], clock)

Iterates ==
    /\ UNCHANGED currentState
    /\ \A s \in InState(currentState) : records'[s].status = "pending"

Claims(step, role, now, ceiling) ==
    /\ UNCHANGED <<clock, currentState, stateVisit, stateIteration>>
    /\ now \in Nat /\ now <= clock
    /\ step \in InState(currentState) /\ RoleIsAvailable(step, role)
    /\ StepIsClaimableAt(step, now, ceiling)
    /\ ~IsSuccess(records[step])
    /\ \A s \in Steps \ {step} : records'[s] = records[s]
    /\ records'[step].status = "in_progress"
    /\ currentState \in ConcurrentStates => WorkingRole(step, records'[step]) = {role}

Moves(tr) ==
    /\ currentState' = tr.to
    /\ \A s \in InState(tr.to) : records'[s].status = "pending"

-----------------------------------------------------------------------------
(* A record left alone while no time is won evolves.                       *)
LEMMA QuietByRecord ==
    ASSUME TypeOK, UNCHANGED <<currentState, stateVisit, stateIteration>>, clock' \in Nat, clock <= clock',
           \A s \in Steps : \/ records'[s] = records[s]
                            \/ /\ Evolves(records[s], records'[s])
                               /\ records'[s].status # "in_progress" \/ HasLiveLeaseAt(records[s], clock)
    PROVE  Quiet
  <1>1. ASSUME NEW s \in Steps
        PROVE  /\ Evolves(records[s], records'[s])
               /\ HasLiveLeaseAt(records'[s], clock') => HasLiveLeaseAt(records[s], clock)
    <2>1. CASE records'[s] = records[s]
      <3>1. /\ clock \in Nat /\ records[s] \in Records
        BY DEF TypeOK
      <3>2. \A e \in EffectiveLeaseExpiresAt(records[s]) : e \in Nat
        BY <3>1 DEF EffectiveLeaseExpiresAt, Records, Leases
      <3> QED
        BY <2>1, <3>1, <3>2 DEF Evolves, HasLiveLeaseAt
    <2>2. CASE Evolves(records[s], records'[s])
               /\ (records'[s].status # "in_progress" \/ HasLiveLeaseAt(records[s], clock))
      BY <2>2 DEF HasLiveLeaseAt
    <2> QED
      BY <2>1, <2>2
  <1> QED
    BY <1>1 DEF Quiet

(* A claim changes the record of one step, which was claimable.            *)
LEMMA StartStepClaimsOne ==
    ASSUME TypeOK, NEW step \in Steps, NEW role \in Roles, NEW owner \in Owners, NEW key \in Keys,
           NEW now \in Observed, NEW ceiling \in HostCeilings,
           StartStep(step, role, owner, key, now, ceiling)
    PROVE  Claims(step, role, now, ceiling)
  <1> DEFINE claimed == ClaimedRecord(step, role, owner, key, now)
  <1>1. /\ records' = [records EXCEPT ![step] = claimed]
        /\ UNCHANGED <<clock, currentState, stateVisit, stateIteration>>
        /\ step \in InState(currentState) /\ RoleIsAvailable(step, role)
        /\ StepIsClaimableAt(step, now, ceiling)
    BY DEF StartStep, positionVars
  <1>2. claimed.status = "in_progress"
    BY DEF ClaimedRecord, WithStarted, TypeOK, Records
  <1>3. claimed.role = IF currentState \in ConcurrentStates /\ role # RoleIdForStep[step] THEN {role} ELSE {}
    BY DEF ClaimedRecord, WithStarted, TypeOK, Records
  <1>4. ~IsSuccess(records[step])
    BY DEF StartStep, CanBeStartedAt, Executable, IsSuccess
  <1>5. now \in Nat /\ now <= clock
    BY DEF Observed, TypeOK
  <1> HIDE DEF claimed
  <1>6. records'[step] = claimed /\ \A s \in Steps \ {step} : records'[s] = records[s]
    BY <1>1 DEF TypeOK
  <1>7. currentState \in ConcurrentStates => WorkingRole(step, claimed) = {role}
    BY <1>3 DEF WorkingRole
  <1> QED
    BY <1>1, <1>2, <1>4, <1>5, <1>6, <1>7 DEF Claims

(* A renewal begins no work: the lease it prolongs was live.               *)
LEMMA RenewIsQuiet ==
    ASSUME TypeOK, NEW fence \in receipts, NEW owner \in Owners, NEW now \in RenewalTimes, NEW request,
           RenewStepLease(fence, owner, request, now)
    PROVE  Quiet
  <1>1. /\ records' = [records EXCEPT ![fence.step].renewed = RenewedExpiry(fence.step, now)]
        /\ UNCHANGED <<clock, currentState, stateVisit, stateIteration>>
        /\ HasLiveLeaseAt(records[fence.step], clock)
    BY DEF RenewStepLease, positionVars, RenewalTimes
  <1>2. fence.step \in Steps
    BY DEF TypeOK, Fences
  <1>3. records[fence.step].status = "in_progress"
    BY <1>1 DEF HasLiveLeaseAt
  <1>4. /\ records'[fence.step].role = records[fence.step].role
        /\ \A s \in Steps \ {fence.step} : records'[s] = records[s]
    BY <1>1, <1>2 DEF TypeOK, Records
  <1>5. clock \in Nat
    BY DEF TypeOK
  <1> QED
    BY <1>1, <1>3, <1>4, <1>5, QuietByRecord DEF Evolves

(* A failure only ends work.                                               *)
LEMMA FailIsQuiet ==
    ASSUME TypeOK, NEW fence \in receipts, NEW result \in Results, FailStep(fence, result)
    PROVE  Quiet
  <1>1. /\ records' = [records EXCEPT ![fence.step] = WithResult(@, result)]
        /\ UNCHANGED <<clock, currentState, stateVisit, stateIteration>>
        /\ records[fence.step].status = "in_progress"
    BY DEF FailStep, positionVars, ResultIsAdmitted, IsLiveClaim
  <1>2. fence.step \in Steps /\ result.status \in ResultStatuses
    BY SealedType
  <1>3. /\ records'[fence.step].role = records[fence.step].role
        /\ records'[fence.step].status # "in_progress"
        /\ \A s \in Steps \ {fence.step} : records'[s] = records[s]
    BY <1>1, <1>2 DEF TypeOK, Records, WithResult, ResultStatuses
  <1>4. clock \in Nat
    BY DEF TypeOK
  <1> QED
    BY <1>1, <1>3, <1>4, QuietByRecord DEF Evolves

(* A completion ends work or begins the next iteration.                    *)
LEMMA CompleteIsQuietOrIterates ==
    ASSUME TypeOK, NEW fence \in receipts, NEW result \in Results, CompleteStep(fence, result)
    PROVE  Quiet \/ Iterates
  <1> DEFINE recs == RecordsAfterCompletion(fence.step, result)
  <1>1. /\ UNCHANGED <<clock, currentState, stateVisit>>
        /\ records[fence.step].status = "in_progress" /\ result.status = "completed"
        /\ \/ records' = recs /\ UNCHANGED stateIteration
           \/ records' = RecordsAfterIteration(recs)
    BY DEF CompleteStep, ResultIsAdmitted, IsLiveClaim
  <1>2. fence.step \in Steps /\ InState(currentState) \subseteq Steps /\ clock \in Nat
    BY SealedType, InStateSteps DEF TypeOK
  <1>3. /\ recs[fence.step].status # "in_progress"
        /\ recs[fence.step].status = "pending" \/ recs[fence.step].role = records[fence.step].role
        /\ \A s \in Steps \ {fence.step} : recs[s] = records[s]
    BY <1>1, <1>2 DEF RecordsAfterCompletion, Pending, WithResult, TypeOK, Records
  <1> HIDE DEF recs
  <1>4. CASE records' = recs /\ UNCHANGED stateIteration
    BY <1>1, <1>2, <1>3, <1>4, QuietByRecord DEF Evolves
  <1>5. CASE records' = RecordsAfterIteration(recs)
    BY <1>1, <1>2, <1>5 DEF Iterates, RecordsAfterIteration, Pending
  <1> QED
    BY <1>1, <1>4, <1>5

(* An expired step ends; it begins no work.                                *)
LEMMA ExpiryIsQuiet ==
    ASSUME TypeOK, ClaimInv, WorkInv, NEW now \in Observed, EnforceDeadlines(now)
    PROVE  Quiet
  <1> DEFINE expired == { d.fence.step : d \in DueSteps(now) }
  <1>1. /\ records' = [step \in Steps |->
              IF step \in expired THEN WithResult(records[step], TimedOut) ELSE records[step]]
        /\ UNCHANGED <<clock, currentState, stateVisit, stateIteration>>
    BY DEF EnforceDeadlines, positionVars
  <1>2. \A step \in Steps : step \in expired => stepDeadlines[step] # {}
    BY DEF DueSteps, ClaimInv, ClaimsGranted
  <1> HIDE DEF expired
  <1>3. \A s \in Steps : s \in expired => records[s].status \in {"pending", "in_progress"}
    BY <1>2 DEF WorkInv, WatchedStepsAreUnfinished
  <1>4. \A s \in Steps : /\ WithResult(records[s], TimedOut).status = "failed"
                         /\ WithResult(records[s], TimedOut).role = records[s].role
    BY DEF WithResult, TimedOut, TypeOK, Records
  <1>5. clock \in Nat
    BY DEF TypeOK
  <1> QED
    BY <1>1, <1>3, <1>4, <1>5, QuietByRecord DEF Evolves

(* Every step of a session is one of the four.                             *)
LEMMA StepKinds ==
    ASSUME TypeOK, ClaimInv, WorkInv, [Next]_vars
    PROVE  \/ Quiet
           \/ Iterates
           \/ \E tr \in Transitions : Moves(tr)
           \/ \E step \in Steps, role \in Roles, now \in Nat, ceiling \in HostCeilings :
                 Claims(step, role, now, ceiling)
  <1>1. ASSUME NEW step \in Steps, NEW role \in Roles, NEW owner \in Owners, NEW key \in Keys,
               NEW now \in Observed, NEW ceiling \in HostCeilings,
               StartStep(step, role, owner, key, now, ceiling)
        PROVE  now \in Nat /\ Claims(step, role, now, ceiling)
    BY <1>1, StartStepClaimsOne, ObservedType
  <1>2. ASSUME NEW fence \in receipts, NEW owner \in Owners, NEW now \in RenewalTimes,
               NEW request, RenewStepLease(fence, owner, request, now)
        PROVE  Quiet
    BY <1>2, RenewIsQuiet
  <1>3. ASSUME NEW fence \in receipts, NEW result \in Results,
               CompleteStep(fence, result) \/ FailStep(fence, result)
        PROVE  Quiet \/ Iterates
    BY <1>3, CompleteIsQuietOrIterates, FailIsQuiet
  <1>4. ASSUME NEW tr \in Transitions, NEW now \in Observed, ApplyTransition(tr, now)
        PROVE  Moves(tr)
    <2>1. InState(tr.to) \subseteq Steps
      BY InStateSteps, DefinitionAssumption
    <2> QED
      BY <1>4, <2>1 DEF ApplyTransition, RecordsAfterEntry, Pending, Moves
  <1>5. ASSUME NEW now \in Observed, EnforceDeadlines(now)
        PROVE  Quiet
    BY <1>5, ExpiryIsQuiet
  <1>6. CASE \/ \E g \in Guards : ApproveGuard(g) \/ DeferGuard(g)
             \/ \E i \in Interventions : RequestIntervention(i) \/ CloseIntervention(i)
             \/ Pause \/ Resume \/ Cancel \/ Tick
             \/ \E steps \in SUBSET Steps : PlanSuccessor(steps)
             \/ \E fence \in receipts, result \in Results : ObserveLateResult(fence, result)
             \/ UNCHANGED vars
    <2>1. UNCHANGED <<positionVars, workVars>> /\ (clock' = clock \/ clock' = clock + 1)
      BY <1>6
      DEF ApproveGuard, DeferGuard, RequestIntervention, CloseIntervention, Pause, Resume,
          Cancel, LifecycleChangesTo, Tick, PlanSuccessor, ObserveLateResult, vars
    <2>2. clock' \in Nat /\ clock <= clock'
      BY <2>1 DEF TypeOK
    <2> QED
      BY <2>1, <2>2, QuietByRecord DEF positionVars, workVars
  <1> QED
    BY <1>1, <1>2, <1>3, <1>4, <1>5, <1>6 DEF Next

-----------------------------------------------------------------------------
(* Sequential states.                                                      *)
LEMMA NextSequential == TypeOK /\ ClaimInv /\ WorkInv /\ SequentialOrder /\ [Next]_vars => SequentialOrder'
  <1> SUFFICES ASSUME TypeOK, ClaimInv, WorkInv, SequentialOrder, [Next]_vars,
                      currentState' \notin ConcurrentStates,
                      NEW i \in DOMAIN StepsForState[currentState'], NEW j \in 1..(i - 1),
                      records'[StepsForState[currentState'][i]].status \in {"in_progress", "completed"}
               PROVE  IsSuccess(records'[StepsForState[currentState'][j]])
    BY DEF SequentialOrder, IsSuccess
  <1> DEFINE order == StepsForState[currentState']
             late == order[i]
             early == order[j]
  <1>1. currentState' \in States
    BY NextType DEF TypeOK
  <1>2. order \in Seq(Steps)
    BY <1>1, DefinitionAssumption
  <1>3. /\ i \in Nat /\ j \in DOMAIN order /\ j # i
        /\ late \in Steps /\ early \in Steps
        /\ late \in InState(currentState') /\ early \in InState(currentState')
    BY <1>2 DEF InState
  <1>4. late # early
    BY <1>1, <1>3, DefinitionAssumption
  <1>5. ASSUME currentState' = currentState, records[late].status \in {"in_progress", "completed"}
        PROVE  IsSuccess(records[early])
    BY <1>5 DEF SequentialOrder
  <1>6. CASE Quiet
    BY <1>3, <1>5, <1>6 DEF Quiet, Evolves, IsSuccess
  <1>7. CASE Iterates
    BY <1>3, <1>7 DEF Iterates
  <1>8. ASSUME NEW tr \in Transitions, Moves(tr) PROVE FALSE
    BY <1>3, <1>8 DEF Moves
  <1>9. ASSUME NEW step \in Steps, NEW role \in Roles, NEW now \in Nat, NEW ceiling \in HostCeilings,
               Claims(step, role, now, ceiling)
        PROVE  IsSuccess(records'[early])
    <2>1. /\ currentState' = currentState /\ StepIsClaimableAt(step, now, ceiling)
          /\ ~IsSuccess(records[step]) /\ \A s \in Steps \ {step} : records'[s] = records[s]
      BY <1>9 DEF Claims
    <2>2. CASE late = step
      <3>1. PICK k \in DOMAIN order : /\ order[k] = step
                                       /\ \A m \in 1..(k - 1) : IsSuccess(records[order[m]])
        BY <2>1 DEF StepIsClaimableAt
      <3>2. k = i
        BY <1>1, <2>2, <3>1, DefinitionAssumption
      <3> QED
        BY <1>3, <1>4, <2>1, <2>2, <3>1, <3>2
    <2>3. CASE late # step
      <3>1. IsSuccess(records[early])
        BY <1>3, <1>5, <2>1, <2>3
      <3> QED
        BY <1>3, <2>1, <3>1
    <2> QED
      BY <2>2, <2>3
  <1> QED
    BY <1>6, <1>7, <1>8, <1>9, StepKinds

-----------------------------------------------------------------------------
(* Roles of a concurrent state.                                            *)
LEMMA NextRoles ==
    TypeOK /\ ClaimInv /\ WorkInv /\ RecordsCarryCurrentCoordinates /\ RoleExclusivity /\ [Next]_vars
      => RoleExclusivity'
  <1> SUFFICES ASSUME TypeOK, ClaimInv, WorkInv, RecordsCarryCurrentCoordinates, RoleExclusivity, [Next]_vars,
                      currentState' \in ConcurrentStates,
                      NEW s1 \in InState(currentState'), NEW s2 \in InState(currentState'), s1 # s2,
                      records'[s1].status \in {"in_progress", "completed"},
                      records'[s2].status \in {"in_progress", "completed"}
               PROVE  WorkingRole(s1, records'[s1]) \cap WorkingRole(s2, records'[s2]) = {}
    BY DEF RoleExclusivity, WorkingRole
  <1>1. InState(currentState') \subseteq Steps
    BY NextType, InStateSteps DEF TypeOK
  <1>2. CASE Quiet
    <2>1. ASSUME NEW s \in Steps, records'[s].status \in {"in_progress", "completed"}
          PROVE  records[s].status \in {"in_progress", "completed"} /\ records'[s].role = records[s].role
      BY <1>2, <2>1 DEF Quiet, Evolves
    <2>2. WorkingRole(s1, records'[s1]) = WorkingRole(s1, records[s1])
          /\ WorkingRole(s2, records'[s2]) = WorkingRole(s2, records[s2])
      BY <1>1, <2>1 DEF WorkingRole
    <2> QED
      BY <1>1, <1>2, <2>1, <2>2 DEF Quiet, RoleExclusivity
  <1>3. CASE Iterates
    BY <1>3 DEF Iterates
  <1>4. ASSUME NEW tr \in Transitions, Moves(tr) PROVE FALSE
    BY <1>4 DEF Moves
  <1>5. ASSUME NEW step \in Steps, NEW role \in Roles, NEW now \in Nat, NEW ceiling \in HostCeilings,
               Claims(step, role, now, ceiling)
        PROVE  WorkingRole(s1, records'[s1]) \cap WorkingRole(s2, records'[s2]) = {}
    <2>1. /\ currentState' = currentState /\ RoleIsAvailable(step, role) /\ step \in InState(currentState)
          /\ WorkingRole(step, records'[step]) = {role}
          /\ \A s \in Steps \ {step} : records'[s] = records[s]
      BY <1>5 DEF Claims
    <2>2. ASSUME NEW s \in InState(currentState), s # step,
                 records[s].status \in {"in_progress", "completed"}
          PROVE  role \notin WorkingRole(s, records[s])
      <3>1. s \in Steps \ {step} /\ records[s] \in RecordsHere(s)
        BY <1>1, <2>1, <2>2 DEF RecordsHere, RecordsCarryCurrentCoordinates
      <3>2. ReservedRole(s, records[s]) = WorkingRole(s, records[s])
        BY <2>2 DEF ReservedRole, WorkingRole
      <3>3. role \notin RolesAssignedToOtherSteps(step)
        BY <2>1 DEF RoleIsAvailable
      <3> QED
        BY <3>1, <3>2, <3>3 DEF RolesAssignedToOtherSteps
    <2>3. CASE s1 # step /\ s2 # step
      BY <1>1, <2>1, <2>3 DEF RoleExclusivity
    <2>4. CASE s1 = step
      BY <1>1, <2>1, <2>2, <2>4
    <2>5. CASE s2 = step
      BY <1>1, <2>1, <2>2, <2>5
    <2> QED
      BY <2>3, <2>4, <2>5
  <1> QED
    BY <1>2, <1>3, <1>4, <1>5, StepKinds

-----------------------------------------------------------------------------
(* The capacity of a concurrent state.                                     *)
LEMMA InStateFinite ==
    ASSUME NEW st \in States
    PROVE  IsFiniteSet(InState(st))
  <1> DEFINE order == StepsForState[st]
  <1>1. order \in Seq(Steps) /\ Len(order) \in Nat /\ DOMAIN order = 1..Len(order)
    BY DefinitionAssumption
  <1>2. IsFiniteSet(1..Len(order))
    BY <1>1, FS_Interval
  <1>3. order \in Surjection(1..Len(order), InState(st))
    BY <1>1 DEF InState, Surjection
  <1> QED
    BY <1>2, <1>3, FS_Surjection

(* Fewer steps keep to the width that more steps keep to.                  *)
LEMMA LiveStepsAreFew ==
    ASSUME NEW A, NEW B, NEW n \in Nat, IsFiniteSet(B), A \subseteq B, Cardinality(B) <= n
    PROVE  Cardinality(A) <= n
  <1>1. Cardinality(A) <= Cardinality(B) /\ IsFiniteSet(A)
    BY FS_Subset
  <1>2. Cardinality(A) \in Nat /\ Cardinality(B) \in Nat
    BY <1>1, FS_CardinalityType
  <1> QED
    BY <1>1, <1>2

(* Every effective width is a number.                                      *)
LEMMA CapacityType == \A ceiling \in HostCeilings : EffectiveWith(ceiling) \in Nat
  BY BoundAssumption, PolicyAssumption DEF EffectiveWith

(* One more step is at most one more.                                      *)
LEMMA OneMoreIsFew ==
    ASSUME NEW A, NEW x, IsFiniteSet(A)
    PROVE  /\ IsFiniteSet(A \cup {x}) /\ Cardinality(A) \in Nat /\ Cardinality(A \cup {x}) \in Nat
           /\ Cardinality(A \cup {x}) <= Cardinality(A) + 1
  <1>1. /\ IsFiniteSet(A \cup {x})
        /\ Cardinality(A \cup {x}) = IF x \in A THEN Cardinality(A) ELSE Cardinality(A) + 1
    BY FS_AddElement
  <1>2. Cardinality(A) \in Nat
    BY FS_CardinalityType
  <1> QED
    BY <1>1, <1>2

(* No work keeps to some width.                                            *)
LEMMA NoneIsFew == \E ceiling \in HostCeilings : Cardinality({}) <= EffectiveWith(ceiling)
  <1>1. Cardinality({}) = 0
    BY FS_EmptySet
  <1>2. PICK ceiling \in HostCeilings : EffectiveWith(ceiling) \in Nat
    BY CapacityType, BoundAssumption
  <1> QED
    BY <1>1, <1>2

(* Every step keeps the width of the claimant that began the work.         *)
LEMMA NextCapacity == TypeOK /\ ClaimInv /\ WorkInv /\ CapacityRespected /\ [Next]_vars => CapacityRespected'
  <1> SUFFICES ASSUME TypeOK, ClaimInv, WorkInv, CapacityRespected, [Next]_vars,
                      currentState' \in ConcurrentStates
               PROVE  \E ceiling \in HostCeilings : Cardinality(LiveStepsAt(clock)') <= EffectiveWith(ceiling)
    BY DEF CapacityRespected
  <1>1. currentState \in States /\ currentState' \in States
    BY NextType DEF TypeOK
  <1>2. /\ LiveStepsAt(clock)' = { step \in InState(currentState') : HasLiveLeaseAt(records'[step], clock') }
        /\ \A now : IsFiniteSet(LiveStepsAt(now))
        /\ InState(currentState) \subseteq Steps
    <2>1. \A now : LiveStepsAt(now) \in SUBSET InState(currentState)
      BY DEF LiveStepsAt
    <2>2. \A now : IsFiniteSet(LiveStepsAt(now))
      BY <1>1, <2>1, InStateFinite, FS_Subset
    <2> QED
      BY <1>1, <2>2, InStateSteps DEF LiveStepsAt
  <1>3. ASSUME LiveStepsAt(clock)' = {}
        PROVE  \E ceiling \in HostCeilings : Cardinality(LiveStepsAt(clock)') <= EffectiveWith(ceiling)
    BY <1>3, NoneIsFew
  <1>4. CASE Quiet
    <2>1. LiveStepsAt(clock)' \subseteq LiveStepsAt(clock) /\ currentState' = currentState
      BY <1>2, <1>4 DEF Quiet, LiveStepsAt
    <2>2. PICK ceiling \in HostCeilings : Cardinality(LiveStepsAt(clock)) <= EffectiveWith(ceiling)
      BY <2>1 DEF CapacityRespected
    <2> QED
      BY <1>2, <2>1, <2>2, CapacityType, LiveStepsAreFew
  <1>5. CASE Iterates
    BY <1>2, <1>3, <1>5 DEF Iterates, HasLiveLeaseAt
  <1>6. ASSUME NEW tr \in Transitions, Moves(tr)
        PROVE  LiveStepsAt(clock)' = {}
    BY <1>2, <1>6 DEF Moves, HasLiveLeaseAt
  <1>7. ASSUME NEW step \in Steps, NEW role \in Roles, NEW now \in Nat, NEW ceiling \in HostCeilings,
               Claims(step, role, now, ceiling)
        PROVE  Cardinality(LiveStepsAt(clock)') <= EffectiveWith(ceiling)
    <2>1. /\ UNCHANGED <<clock, currentState>> /\ now <= clock /\ clock \in Nat
          /\ StepIsClaimableAt(step, now, ceiling)
          /\ \A s \in Steps \ {step} : records'[s] = records[s]
      BY <1>7 DEF Claims, TypeOK
    <2>2. Cardinality(LiveStepsAt(now)) < EffectiveWith(ceiling)
      BY <2>1 DEF StepIsClaimableAt
    <2>3. ASSUME NEW s \in Steps, HasLiveLeaseAt(records[s], clock)
          PROVE  HasLiveLeaseAt(records[s], now)
      <3>1. \A e \in EffectiveLeaseExpiresAt(records[s]) : e \in Nat
        BY DEF TypeOK, EffectiveLeaseExpiresAt, Records, Leases
      <3> QED
        BY <2>1, <2>3, <3>1 DEF HasLiveLeaseAt
    <2>4. LiveStepsAt(clock)' \subseteq LiveStepsAt(now) \cup {step}
      BY <1>2, <2>1, <2>3 DEF LiveStepsAt
    <2>5. /\ IsFiniteSet(LiveStepsAt(now) \cup {step})
          /\ Cardinality(LiveStepsAt(now) \cup {step}) <= Cardinality(LiveStepsAt(now)) + 1
          /\ Cardinality(LiveStepsAt(now)) \in Nat /\ Cardinality(LiveStepsAt(now) \cup {step}) \in Nat
      BY <1>2, OneMoreIsFew
    <2>6. EffectiveWith(ceiling) \in Nat /\ Cardinality(LiveStepsAt(now) \cup {step}) <= EffectiveWith(ceiling)
      BY <2>2, <2>5, CapacityType
    <2> QED
      BY <2>4, <2>5, <2>6, LiveStepsAreFew
  <1> QED
    BY <1>3, <1>4, <1>5, <1>6, <1>7, StepKinds

-----------------------------------------------------------------------------
OrderInv == TypeOK /\ ClaimInv /\ WorkInv /\ RecordsCarryCurrentCoordinates
              /\ SequentialOrder /\ RoleExclusivity /\ CapacityRespected

(* A new session has no work under way.                                    *)
LEMMA InitOrder == Init => SequentialOrder /\ RoleExclusivity /\ CapacityRespected
  <1> SUFFICES ASSUME Init PROVE SequentialOrder /\ RoleExclusivity /\ CapacityRespected
    OBVIOUS
  <1>1. currentState \in States /\ InState(currentState) \subseteq Steps
    BY DefinitionAssumption, InStateSteps DEF Init
  <1>2. \A s \in Steps : records[s].status = "pending"
    BY DEF Init, Pending
  <1>3. SequentialOrder
    <2>1. \A i \in DOMAIN StepsForState[currentState] : StepsForState[currentState][i] \in Steps
      BY <1>1 DEF InState
    <2> QED
      BY <1>2, <2>1 DEF SequentialOrder
  <1>4. RoleExclusivity
    BY <1>1, <1>2 DEF RoleExclusivity
  <1>5. LiveStepsAt(clock) = {}
    BY <1>1, <1>2 DEF LiveStepsAt, HasLiveLeaseAt
  <1>6. CapacityRespected
    BY <1>5, NoneIsFew DEF CapacityRespected
  <1> QED
    BY <1>3, <1>4, <1>6

(* A new session is at its first coordinates.                              *)
LEMMA InitCoordinates == Init => RecordsCarryCurrentCoordinates
  BY InStateSteps, DefinitionAssumption DEF Init, RecordsCarryCurrentCoordinates, Pending

(* The order, the roles and the capacity of the work of a visit hold       *)
(* together in every reachable state.                                      *)
THEOREM OrderInvariant == Spec => []OrderInv
  <1>1. Init => OrderInv
    BY InitType, InitClaims, InitWork, InitCoordinates, InitOrder DEF OrderInv
  <1>2. OrderInv /\ [Next]_vars => OrderInv'
    BY NextType, NextClaims, NextWork, NextCoordinates, NextSequential, NextRoles, NextCapacity
    DEF OrderInv
  <1> QED
    BY <1>1, <1>2, PTL DEF Spec

(* In a sequential state no step is taken or finished before every step    *)
(* declared ahead of it succeeded, whatever fails, repeats or expires.     *)
THEOREM WorkIsInOrder == Spec => []SequentialOrder
  <1>1. OrderInv => SequentialOrder
    BY DEF OrderInv
  <1> QED
    BY <1>1, OrderInvariant, PTL

(* In a concurrent state no role works on two steps of one iteration.      *)
THEOREM RolesAreExclusive == Spec => []RoleExclusivity
  <1>1. OrderInv => RoleExclusivity
    BY DEF OrderInv
  <1> QED
    BY <1>1, OrderInvariant, PTL

(* No more steps run under a live lease than the definition and the widest *)
(* host allow, however old the times are that claims were decided with.    *)
THEOREM CapacityHolds == Spec => []CapacityRespected
  <1>1. OrderInv => CapacityRespected
    BY DEF OrderInv
  <1> QED
    BY <1>1, OrderInvariant, PTL

-----------------------------------------------------------------------------
(* Work belongs to its visit.  A deadline left over from an earlier visit  *)
(* may fail a pending record, so the invariant also places the pending     *)
(* records that are watched.                                               *)
PlacedAt(step, v) == v \in 1..stateVisit /\ step \in InState(StateOfVisit(v))

VisitInv ==
    /\ WorkBelongsToItsVisit
    /\ \A step \in Steps : stepDeadlines[step] # {} => PlacedAt(step, records[step].visit)

(* Within a visit it is enough to place what is new.                       *)
LEMMA VisitKept ==
    ASSUME TypeOK, VisitInv, UNCHANGED <<currentState, stateVisit, transitions>>,
           \A s \in Steps : \A r \in RecordsOf(s)' :
               r \in RecordsOf(s) \/ r.status = "pending" \/ PlacedAt(s, r.visit),
           \A s \in Steps : stepDeadlines'[s] # {} =>
               \/ stepDeadlines[s] # {} /\ records'[s].visit = records[s].visit
               \/ PlacedAt(s, records'[s].visit)
    PROVE  VisitInv'
  <1>1. \A v : StateOfVisit(v)' = StateOfVisit(v)
    BY DEF StateOfVisit
  <1>2. \A s, v : PlacedAt(s, v)' <=> PlacedAt(s, v)
    BY <1>1 DEF PlacedAt
  <1>3. ASSUME NEW s \in Steps, NEW r \in RecordsOf(s)', r.status # "pending"
        PROVE  PlacedAt(s, r.visit)
    BY <1>3 DEF VisitInv, WorkBelongsToItsVisit, PlacedAt
  <1>4. ASSUME NEW s \in Steps, stepDeadlines'[s] # {}
        PROVE  PlacedAt(s, records'[s].visit)
    BY <1>4 DEF VisitInv
  <1>5. /\ stateVisit' = Len(transitions') + 1
        /\ StateOfVisit(stateVisit)' = currentState'
        /\ \A v \in DOMAIN transitions' : /\ transitions'[v].visit = v
                                           /\ transitions'[v].edge.from = StateOfVisit(v)'
    BY <1>1 DEF VisitInv, WorkBelongsToItsVisit, StateOfVisit
  <1>6. WorkBelongsToItsVisit'
    BY <1>1, <1>3, <1>5 DEF WorkBelongsToItsVisit, PlacedAt
  <1>7. \A s \in Steps : stepDeadlines'[s] # {} => PlacedAt(s, records[s].visit)'
    BY <1>1, <1>4 DEF PlacedAt
  <1> QED
    BY <1>6, <1>7 DEF VisitInv

(* The steps of the current state are placed at the current visit, and so  *)
(* is every record that is worked on where it stands.                      *)
LEMMA CurrentIsPlaced ==
    ASSUME TypeOK, VisitInv
    PROVE  /\ \A s \in InState(currentState) : PlacedAt(s, stateVisit)
           /\ \A s \in Steps : records[s].status # "pending" => PlacedAt(s, records[s].visit)
  <1>1. stateVisit \in 1..stateVisit /\ StateOfVisit(stateVisit) = currentState
    <2>1. transitions \in Seq([edge : Transitions, visit : Nat, iteration : Nat])
      BY DEF TypeOK
    <2> QED
      BY <2>1 DEF VisitInv, WorkBelongsToItsVisit
  <1>2. \A s \in Steps : records[s] \in RecordsOf(s)
    BY DEF RecordsOf
  <1>3. \A s \in InState(currentState) : PlacedAt(s, stateVisit)
    BY <1>1 DEF PlacedAt
  <1>4. \A s \in Steps : records[s].status # "pending" => PlacedAt(s, records[s].visit)
    BY <1>2 DEF PlacedAt, VisitInv, WorkBelongsToItsVisit
  <1> QED
    BY <1>3, <1>4

(* One record is replaced, or none, and histories are kept.                *)
LEMMA VisitByRecord ==
    ASSUME TypeOK, VisitInv, UNCHANGED <<currentState, stateVisit, transitions, history>>,
           \A s \in Steps : stepDeadlines'[s] \subseteq stepDeadlines[s] \/ PlacedAt(s, records'[s].visit),
           \A s \in Steps : \/ records'[s] = records[s]
                            \/ /\ records'[s].visit = records[s].visit
                               /\ records'[s].status = "pending" \/ PlacedAt(s, records'[s].visit)
    PROVE  VisitInv'
  <1>1. ASSUME NEW s \in Steps, NEW r \in RecordsOf(s)'
        PROVE  r \in RecordsOf(s) \/ r.status = "pending" \/ PlacedAt(s, r.visit)
    <2>1. r \in RecordsOf(s) \/ r = records'[s]
      BY <1>1 DEF RecordsOf
    <2>2. CASE r = records'[s]
      BY <2>2 DEF RecordsOf
    <2> QED
      BY <2>1, <2>2
  <1> QED
    BY <1>1, VisitKept

(* What a continued history holds is what it held and its last record.     *)
LEMMA HeldOnly ==
    ASSUME NEW S, NEW h \in Seq(S), NEW q \in S, NEW h2, h2 = Append(h, q)
    PROVE  Held(h2) \subseteq Held(h) \cup {q}
  <1>1. Continues(h2, h, q)
    BY DEF Continues
  <1> SUFFICES ASSUME NEW r \in Held(h2) PROVE r \in Held(h) \/ r = q
    OBVIOUS
  <1>2. PICK i \in DOMAIN h2 : r = h2[i]
    BY DEF Held
  <1>3. i \in 1..Len(h) \/ i = Len(h) + 1
    BY <1>1, <1>2 DEF Continues
  <1> QED
    BY <1>1, <1>2, <1>3 DEF Held, Continues

(* A claim is of the current visit.                                        *)
LEMMA StartStepVisit ==
    ASSUME TypeOK, RecordsCarryCurrentCoordinates, VisitInv,
           NEW step \in Steps, NEW role \in Roles, NEW owner \in Owners, NEW key \in Keys,
           NEW now \in Observed, NEW ceiling \in HostCeilings,
           StartStep(step, role, owner, key, now, ceiling)
    PROVE  VisitInv'
  <1> DEFINE claimed == ClaimedRecord(step, role, owner, key, now)
  <1>1. /\ records' = [records EXCEPT ![step] = claimed]
        /\ UNCHANGED <<currentState, stateVisit, transitions, history>>
        /\ step \in InState(currentState)
        /\ \A s \in Steps \ {step} : stepDeadlines'[s] = stepDeadlines[s]
    BY DEF StartStep, positionVars, TypeOK
  <1>2. claimed.visit = records[step].visit
    BY DEF ClaimedRecord, WithStarted, TypeOK, Records
  <1>3. records[step].visit = stateVisit
    BY <1>1 DEF RecordsCarryCurrentCoordinates
  <1> HIDE DEF claimed
  <1>4. records'[step] = claimed /\ \A s \in Steps \ {step} : records'[s] = records[s]
    BY <1>1 DEF TypeOK
  <1>5. PlacedAt(step, records'[step].visit)
    BY <1>1, <1>2, <1>3, <1>4, CurrentIsPlaced
  <1> QED
    BY <1>1, <1>2, <1>4, <1>5, VisitByRecord

(* A renewal and a failure leave their record where it was.                *)
LEMMA WorkedVisit ==
    ASSUME TypeOK, VisitInv, NEW fence \in receipts,
           records[fence.step].status = "in_progress",
           UNCHANGED <<currentState, stateVisit, transitions, history>>,
           \A s \in Steps : stepDeadlines'[s] \subseteq stepDeadlines[s],
           records'[fence.step].visit = records[fence.step].visit,
           \A s \in Steps \ {fence.step} : records'[s] = records[s]
    PROVE  VisitInv'
  <1>1. fence.step \in Steps
    BY DEF TypeOK, Fences
  <1>2. PlacedAt(fence.step, records'[fence.step].visit)
    BY <1>1, CurrentIsPlaced
  <1> QED
    BY <1>1, <1>2, VisitByRecord

(* A renewal moves no work to another visit.                               *)
LEMMA RenewStepLeaseVisit ==
    ASSUME TypeOK, VisitInv, NEW fence \in receipts, NEW owner \in Owners, NEW now \in RenewalTimes,
           NEW request, RenewStepLease(fence, owner, request, now)
    PROVE  VisitInv'
  <1>1. /\ records' = [records EXCEPT ![fence.step].renewed = RenewedExpiry(fence.step, now)]
        /\ UNCHANGED <<currentState, stateVisit, transitions, history, stepDeadlines>>
        /\ records[fence.step].status = "in_progress"
    BY DEF RenewStepLease, positionVars, HasLiveLeaseAt
  <1>2. fence.step \in Steps
    BY DEF TypeOK, Fences
  <1>3. /\ records'[fence.step].visit = records[fence.step].visit
        /\ \A s \in Steps \ {fence.step} : records'[s] = records[s]
    BY <1>1, <1>2 DEF TypeOK, Records
  <1> QED
    BY <1>1, <1>3, WorkedVisit

(* A failure moves no work to another visit.                               *)
LEMMA FailStepVisit ==
    ASSUME TypeOK, VisitInv, NEW fence \in receipts, NEW result \in Results, FailStep(fence, result)
    PROVE  VisitInv'
  <1>1. /\ records' = [records EXCEPT ![fence.step] = WithResult(@, result)]
        /\ stepDeadlines' = [stepDeadlines EXCEPT ![fence.step] = {}]
        /\ UNCHANGED <<currentState, stateVisit, transitions, history>>
        /\ records[fence.step].status = "in_progress"
    BY DEF FailStep, positionVars, ResultIsAdmitted, IsLiveClaim
  <1>2. fence.step \in Steps
    BY SealedType
  <1>3. /\ records'[fence.step].visit = records[fence.step].visit
        /\ \A s \in Steps \ {fence.step} : records'[s] = records[s]
    BY <1>1, <1>2 DEF TypeOK, Records, WithResult
  <1>4. \A s \in Steps : stepDeadlines'[s] \subseteq stepDeadlines[s]
    BY <1>1, <1>2 DEF TypeOK
  <1> QED
    BY <1>1, <1>3, <1>4, WorkedVisit

(* A completion archives, opens again and repeats within the visit.        *)
LEMMA CompleteStepVisit ==
    ASSUME TypeOK, RecordsCarryCurrentCoordinates, VisitInv,
           NEW fence \in receipts, NEW result \in Results, CompleteStep(fence, result)
    PROVE  VisitInv'
  <1> DEFINE step == fence.step
             done == WithResult(records[step], result)
             recs == RecordsAfterCompletion(step, result)
             hist == HistoryAfterCompletion(step, result)
  <1>1. step \in Steps /\ InState(currentState) \subseteq Steps
    BY SealedType, InStateSteps DEF TypeOK
  <1>2. /\ recs \in [Steps -> Records]
        /\ hist \in [Steps -> Seq(Records)]
        /\ done \in Records
    BY CompletionType, SealedType, WithResultType
  <1>3. /\ UNCHANGED <<currentState, stateVisit, transitions>>
        /\ stepDeadlines' = [stepDeadlines EXCEPT ![step] = {}]
        /\ step \in InState(currentState)
    BY DEF CompleteStep, ResultIsAdmitted
  <1>4. /\ done.visit = records[step].visit /\ recs[step].visit = records[step].visit
        /\ \A s \in Steps \ {step} : recs[s] = records[s] /\ hist[s] = history[s]
        /\ hist[step] = history[step] \/ hist[step] = Append(history[step], done)
    BY <1>1 DEF RecordsAfterCompletion, HistoryAfterCompletion, WithResult, Pending, TypeOK, Records
  <1>5. PlacedAt(step, records[step].visit)
    BY <1>3, CurrentIsPlaced DEF RecordsCarryCurrentCoordinates
  <1>6. \/ records' = recs /\ history' = hist
        \/ records' = RecordsAfterIteration(recs) /\ history' = HistoryAfterIteration(recs, hist)
    BY DEF CompleteStep
  <1> HIDE DEF recs, hist, done, step
  <1>7. ASSUME NEW s \in Steps, NEW r \in Held(hist[s])
        PROVE  r \in RecordsOf(s) \/ PlacedAt(s, r.visit)
    <2>1. history[s] \in Seq(Records)
      BY DEF TypeOK
    <2>2. r \in Held(history[s]) \/ (s = step /\ r = done)
      <3>1. CASE hist[s] = history[s]
        BY <1>7, <3>1
      <3>2. CASE s = step /\ hist[s] = Append(history[s], done)
        BY <1>2, <1>7, <2>1, <3>2, HeldOnly
      <3> QED
        BY <1>4, <3>1, <3>2
    <2> QED
      BY <1>4, <1>5, <2>2 DEF Held, RecordsOf
  <1>8. ASSUME NEW s \in Steps
        PROVE  recs[s] \in RecordsOf(s) \/ PlacedAt(s, recs[s].visit)
    BY <1>4, <1>5 DEF RecordsOf
  <1>9. ASSUME NEW s \in Steps, NEW r \in RecordsOf(s)'
        PROVE  r \in RecordsOf(s) \/ r.status = "pending" \/ PlacedAt(s, r.visit)
    <2>1. r \in Held(history'[s]) \/ r = records'[s]
      BY <1>9 DEF RecordsOf, Held
    <2>2. CASE records' = recs /\ history' = hist
      BY <1>7, <1>8, <2>1, <2>2
    <2>3. CASE records' = RecordsAfterIteration(recs) /\ history' = HistoryAfterIteration(recs, hist)
      <3>1. CASE s \in InState(currentState)
        <4>1. records'[s].status = "pending" /\ history'[s] = Append(hist[s], recs[s])
          BY <2>3, <3>1 DEF RecordsAfterIteration, HistoryAfterIteration, Pending
        <4>2. ASSUME r \in Held(history'[s]) PROVE r \in Held(hist[s]) \/ r = recs[s]
          BY <1>2, <4>1, <4>2, HeldOnly
        <4> QED
          BY <1>7, <1>8, <2>1, <4>1, <4>2
      <3>2. CASE s \notin InState(currentState)
        <4>1. records'[s] = recs[s] /\ history'[s] = hist[s]
          BY <2>3, <3>2 DEF RecordsAfterIteration, HistoryAfterIteration
        <4> QED
          BY <1>7, <1>8, <2>1, <4>1
      <3> QED
        BY <3>1, <3>2
    <2> QED
      BY <1>6, <2>2, <2>3
  <1>10. ASSUME NEW s \in Steps, stepDeadlines'[s] # {}
         PROVE  \/ stepDeadlines[s] # {} /\ records'[s].visit = records[s].visit
                \/ PlacedAt(s, records'[s].visit)
    <2>1. s # step /\ stepDeadlines'[s] = stepDeadlines[s]
      BY <1>1, <1>3, <1>10 DEF TypeOK
    <2>2. recs[s] = records[s]
      BY <1>4, <2>1
    <2>3. CASE records' = recs
      BY <1>10, <2>1, <2>2, <2>3
    <2>4. CASE records' = RecordsAfterIteration(recs)
      <3>1. CASE s \in InState(currentState)
        <4>1. records'[s].visit = stateVisit
          BY <2>4, <3>1 DEF RecordsAfterIteration, Pending
        <4> QED
          BY <3>1, <4>1, CurrentIsPlaced
      <3>2. CASE s \notin InState(currentState)
        BY <1>10, <2>1, <2>2, <2>4, <3>2 DEF RecordsAfterIteration
      <3> QED
        BY <3>1, <3>2
    <2> QED
      BY <1>6, <2>3, <2>4
  <1> QED
    BY <1>3, <1>9, <1>10, VisitKept

(* An expiry fails a record that is worked on, or a pending one that a     *)
(* deadline watches.                                                       *)
LEMMA EnforceDeadlinesVisit ==
    ASSUME TypeOK, ClaimInv, VisitInv, NEW now \in Observed, EnforceDeadlines(now)
    PROVE  VisitInv'
  <1> DEFINE expired == { d.fence.step : d \in DueSteps(now) }
  <1>1. /\ records' = [step \in Steps |->
              IF step \in expired THEN WithResult(records[step], TimedOut) ELSE records[step]]
        /\ stepDeadlines' = [step \in Steps |->
              IF step \in expired THEN {} ELSE stepDeadlines[step]]
        /\ UNCHANGED <<currentState, stateVisit, transitions, history>>
    BY DEF EnforceDeadlines, positionVars
  <1>2. \A step \in Steps : step \in expired => stepDeadlines[step] # {}
    BY DEF DueSteps, ClaimInv, ClaimsGranted
  <1> HIDE DEF expired
  <1>3. \A s \in Steps : WithResult(records[s], TimedOut).visit = records[s].visit
    BY DEF WithResult, TypeOK, Records
  <1>4. \A s \in Steps : \/ records'[s] = records[s]
                         \/ /\ records'[s].visit = records[s].visit
                            /\ PlacedAt(s, records'[s].visit)
    BY <1>1, <1>2, <1>3 DEF VisitInv
  <1>5. \A s \in Steps : stepDeadlines'[s] \subseteq stepDeadlines[s]
    BY <1>1
  <1> QED
    BY <1>1, <1>4, <1>5, VisitByRecord

(* A move continues the path by the state it enters.                       *)
LEMMA ApplyTransitionVisit ==
    ASSUME TypeOK, VisitInv, NEW tr \in Transitions, NEW now \in Observed, ApplyTransition(tr, now)
    PROVE  VisitInv'
  <1> DEFINE move == [edge |-> tr, visit |-> stateVisit, iteration |-> stateIteration]
             MoveRecords == [edge : Transitions, visit : Nat, iteration : Nat]
  <1>1. /\ transitions' = Append(transitions, move)
        /\ stateVisit' = stateVisit + 1 /\ currentState' = tr.to /\ tr.from = currentState
        /\ records' = RecordsAfterEntry(tr.to) /\ history' = HistoryAfterEntry(tr.to)
        /\ UNCHANGED stepDeadlines
    BY DEF ApplyTransition
  <1>2. transitions \in Seq(MoveRecords) /\ move \in MoveRecords /\ stateVisit \in Nat
    BY DEF TypeOK
  <1>3. stateVisit = Len(transitions) + 1 /\ StateOfVisit(stateVisit) = currentState
    BY DEF VisitInv, WorkBelongsToItsVisit
  <1>4. move.edge = tr /\ move.visit = stateVisit
    OBVIOUS
  <1> HIDE DEF move, MoveRecords
  <1>5. /\ Len(transitions') = stateVisit /\ DOMAIN transitions' = 1..stateVisit
        /\ DOMAIN transitions = 1..(stateVisit - 1)
        /\ transitions'[stateVisit] = move
        /\ \A v \in 1..(stateVisit - 1) : transitions'[v] = transitions[v]
    BY <1>1, <1>2, <1>3
  <1>6. \A v \in 1..stateVisit : StateOfVisit(v)' = StateOfVisit(v)
    <2> TAKE v \in 1..stateVisit
    <2>1. CASE v = 1
      BY <2>1 DEF StateOfVisit
    <2>2. CASE v # 1
      <3>1. v - 1 \in 1..(stateVisit - 1)
        BY <1>2, <2>2
      <3> QED
        BY <1>5, <2>2, <3>1 DEF StateOfVisit
    <2> QED
      BY <2>1, <2>2
  <1>7. \A v : v = stateVisit + 1 => StateOfVisit(v)' = tr.to
    <2> SUFFICES ASSUME NEW v, v = stateVisit + 1 PROVE StateOfVisit(v)' = tr.to
      OBVIOUS
    <2>1. v # 1 /\ v - 1 = stateVisit
      BY <1>2, <1>3, <1>5
    <2> QED
      BY <1>4, <1>5, <2>1 DEF StateOfVisit
  <1>8. \A s : \A v : PlacedAt(s, v) => PlacedAt(s, v)'
    <2> SUFFICES ASSUME NEW s, NEW v, PlacedAt(s, v) PROVE PlacedAt(s, v)'
      OBVIOUS
    <2>1. v \in 1..stateVisit /\ v \in 1..stateVisit'
      BY <1>1, <1>2 DEF PlacedAt
    <2> QED
      BY <1>6, <2>1 DEF PlacedAt
  <1>9. \A s \in InState(tr.to) : \A v : v = stateVisit + 1 => PlacedAt(s, v)'
    <2> SUFFICES ASSUME NEW s \in InState(tr.to), NEW v, v = stateVisit + 1 PROVE PlacedAt(s, v)'
      OBVIOUS
    <2>1. v \in 1..stateVisit'
      BY <1>1, <1>2
    <2> QED
      BY <1>7, <2>1 DEF PlacedAt
  <1>10. ASSUME NEW s \in Steps, NEW r \in RecordsOf(s)', r.status # "pending"
         PROVE  \A v : v = r.visit => PlacedAt(s, v)'
    <2>1. r \in RecordsOf(s)
      <3>1. r \in Held(history'[s]) \/ r = records'[s]
        BY <1>10 DEF RecordsOf, Held
      <3>2. history[s] \in Seq(Records) /\ records[s] \in Records
        BY DEF TypeOK
      <3>3. \/ records'[s] = records[s]
            \/ records'[s].status = "pending"
        BY <1>1 DEF RecordsAfterEntry, Pending
      <3>4. ASSUME r \in Held(history'[s]) PROVE r \in RecordsOf(s)
        <4>1. CASE history'[s] = Append(history[s], records[s])
          <5>1. Held(history'[s]) \subseteq Held(history[s]) \cup {records[s]}
            BY <3>2, <4>1, HeldOnly
          <5>2. r \in Held(history[s]) \/ r = records[s]
            BY <3>4, <5>1
          <5> QED
            BY <5>2 DEF Held, RecordsOf
        <4>2. CASE history'[s] = history[s]
          BY <3>4, <4>2 DEF Held, RecordsOf
        <4> QED
          BY <1>1, <4>1, <4>2 DEF HistoryAfterEntry
      <3>5. ASSUME r = records'[s] PROVE r \in RecordsOf(s)
        BY <1>10, <3>3, <3>5 DEF RecordsOf
      <3> QED
        BY <3>1, <3>4, <3>5
    <2>2. PlacedAt(s, r.visit)
      BY <1>10, <2>1 DEF VisitInv, WorkBelongsToItsVisit, PlacedAt
    <2> QED
      BY <1>8, <2>2
  <1>11. \A s \in Steps : stepDeadlines'[s] # {} => \A v : v = records'[s].visit => PlacedAt(s, v)'
    <2> TAKE s \in Steps
    <2>1. CASE s \in InState(tr.to)
      <3>1. records'[s].visit = stateVisit + 1
        BY <1>1, <2>1 DEF RecordsAfterEntry, Pending
      <3> QED
        BY <1>9, <2>1, <3>1
    <2>2. CASE s \notin InState(tr.to)
      <3>1. records'[s] = records[s]
        BY <1>1, <2>2 DEF RecordsAfterEntry
      <3> QED
        BY <1>1, <1>8, <3>1 DEF VisitInv
    <2> QED
      BY <2>1, <2>2
  <1>12. /\ stateVisit' = Len(transitions') + 1
         /\ StateOfVisit(stateVisit)' = currentState'
    <2>1. \A v : v = stateVisit' => StateOfVisit(v)' = tr.to
      BY <1>1, <1>7
    <2> QED
      BY <1>1, <1>5, <2>1 DEF StateOfVisit
  <1>13. \A v \in DOMAIN transitions' : /\ transitions'[v].visit = v
                                        /\ transitions'[v].edge.from = StateOfVisit(v)'
    <2> TAKE v \in DOMAIN transitions'
    <2>1. v \in 1..stateVisit
      BY <1>5
    <2>2. CASE v = stateVisit
      BY <1>1, <1>3, <1>4, <1>5, <1>6, <2>1, <2>2
    <2>3. CASE v # stateVisit
      <3>1. v \in 1..(stateVisit - 1)
        BY <1>2, <2>1, <2>3
      <3>2. transitions[v].visit = v /\ transitions[v].edge.from = StateOfVisit(v)
        BY <1>5, <3>1 DEF VisitInv, WorkBelongsToItsVisit
      <3> QED
        BY <1>5, <1>6, <2>1, <3>1, <3>2
    <2> QED
      BY <2>2, <2>3
  <1>14. WorkBelongsToItsVisit'
    BY <1>10, <1>12, <1>13 DEF WorkBelongsToItsVisit, PlacedAt
  <1> QED
    BY <1>11, <1>14 DEF VisitInv, PlacedAt

(* Every step keeps work at the visit it was claimed in.                   *)
LEMMA NextVisit ==
    TypeOK /\ ClaimInv /\ RecordsCarryCurrentCoordinates /\ VisitInv /\ [Next]_vars => VisitInv'
  <1> SUFFICES ASSUME TypeOK, ClaimInv, RecordsCarryCurrentCoordinates, VisitInv, [Next]_vars PROVE VisitInv'
    OBVIOUS
  <1>1. ASSUME NEW step \in Steps, NEW role \in Roles, NEW owner \in Owners, NEW key \in Keys,
               NEW now \in Observed, NEW ceiling \in HostCeilings,
               StartStep(step, role, owner, key, now, ceiling)
        PROVE  VisitInv'
    BY <1>1, StartStepVisit
  <1>2. ASSUME NEW fence \in receipts, NEW owner \in Owners, NEW now \in RenewalTimes,
               NEW request, RenewStepLease(fence, owner, request, now)
        PROVE  VisitInv'
    BY <1>2, RenewStepLeaseVisit
  <1>3. ASSUME NEW fence \in receipts, NEW result \in Results,
               CompleteStep(fence, result) \/ FailStep(fence, result)
        PROVE  VisitInv'
    BY <1>3, CompleteStepVisit, FailStepVisit
  <1>4. ASSUME NEW tr \in Transitions, NEW now \in Observed, ApplyTransition(tr, now)
        PROVE  VisitInv'
    BY <1>4, ApplyTransitionVisit
  <1>5. ASSUME NEW now \in Observed, EnforceDeadlines(now)
        PROVE  VisitInv'
    BY <1>5, EnforceDeadlinesVisit
  <1>6. CASE \/ \E g \in Guards : ApproveGuard(g) \/ DeferGuard(g)
             \/ \E i \in Interventions : RequestIntervention(i) \/ CloseIntervention(i)
             \/ Pause \/ Resume \/ Cancel \/ Tick
             \/ \E steps \in SUBSET Steps : PlanSuccessor(steps)
             \/ \E fence \in receipts, result \in Results : ObserveLateResult(fence, result)
             \/ UNCHANGED vars
    <2>1. UNCHANGED <<positionVars, workVars>>
      BY <1>6
      DEF ApproveGuard, DeferGuard, RequestIntervention, CloseIntervention, Pause, Resume,
          Cancel, LifecycleChangesTo, Tick, PlanSuccessor, ObserveLateResult, vars
    <2> QED
      BY <2>1, VisitByRecord DEF positionVars, workVars
  <1> QED
    BY <1>1, <1>2, <1>3, <1>4, <1>5, <1>6 DEF Next

(* A new session has no work at any visit.                                 *)
LEMMA InitVisit == Init => VisitInv
  <1> SUFFICES ASSUME Init PROVE VisitInv
    OBVIOUS
  <1>1. transitions = <<>> /\ stateVisit = 1 /\ currentState = InitialState
        /\ \A s \in Steps : history[s] = <<>> /\ stepDeadlines[s] = {} /\ records[s].status = "pending"
    BY DEF Init, Pending
  <1>2. Len(transitions) = 0 /\ DOMAIN transitions = {}
    BY <1>1
  <1>3. \A s \in Steps : \A r \in RecordsOf(s) : r.status = "pending"
    BY <1>1 DEF RecordsOf
  <1> QED
    BY <1>1, <1>2, <1>3 DEF VisitInv, WorkBelongsToItsVisit, StateOfVisit

(* Work is filed under the visit it was done in, and the moves form one    *)
(* path, whatever deadlines fire after their state was left.               *)
THEOREM WorkStaysInItsVisit == Spec => []WorkBelongsToItsVisit
  <1>1. Init => TypeOK /\ ClaimInv /\ RecordsCarryCurrentCoordinates /\ VisitInv
    BY InitType, InitClaims, InitCoordinates, InitVisit
  <1>2. TypeOK /\ ClaimInv /\ RecordsCarryCurrentCoordinates /\ VisitInv /\ [Next]_vars
          => TypeOK' /\ ClaimInv' /\ RecordsCarryCurrentCoordinates' /\ VisitInv'
    BY NextType, NextClaims, NextCoordinates, NextVisit
  <1>3. VisitInv => WorkBelongsToItsVisit
    BY DEF VisitInv
  <1> QED
    BY <1>1, <1>2, <1>3, PTL DEF Spec
-----------------------------------------------------------------------------
(* One claim per attempt.  A claim that was handed out is never ahead of   *)
(* the record of its step, and of the attempt the record stands at there   *)
(* is, besides the claim it holds, only one that waited for a person.      *)
SameRun(g, r) ==
    /\ g.visit = r.visit
    /\ g.stateIteration = r.stateIteration
    /\ g.iteration = r.iteration

EarlierRun(g, r) ==
    \/ g.visit < r.visit
    \/ g.visit = r.visit /\ g.stateIteration < r.stateIteration
    \/ /\ g.visit = r.visit /\ g.stateIteration = r.stateIteration
       /\ g.iteration < r.iteration

WaitedFor(g) == \E a \in sealed : a.fence = g /\ a.result.status = "waiting_for_human"

Accounted(g) ==
    LET r == records[g.step] IN
    /\ EarlierRun(g, r) \/ (SameRun(g, r) /\ g.attempt <= r.attempt)
    /\ r.status = "pending" => EarlierRun(g, r)
    /\ SameRun(g, r) /\ g.attempt = r.attempt =>
          /\ r.status = "waiting_for_human" => WaitedFor(g)
          /\ r.status = "in_progress" => g \in CurrentFence(g.step) \/ WaitedFor(g)

AttemptInv ==
    /\ OneClaimPerAttempt
    /\ \A g \in receipts : g.visit <= stateVisit /\ Accounted(g)

(* An earlier run is another run.                                          *)
LEMMA EarlierIsOther ==
    ASSUME NEW g \in Fences, NEW r \in Records, EarlierRun(g, r)
    PROVE  ~SameRun(g, r)
  BY DEF EarlierRun, SameRun, Fences, Records

(* A record that keeps its place, and is done with its attempt or in it    *)
(* under the claim it had, leaves claims accounted for.                    *)
LEMMA AccountedInPlace ==
    ASSUME TypeOK, NEW g \in receipts, Accounted(g), sealed \subseteq sealed',
           records'[g.step].visit = records[g.step].visit,
           records'[g.step].stateIteration = records[g.step].stateIteration,
           records'[g.step].iteration = records[g.step].iteration,
           records'[g.step].attempt = records[g.step].attempt,
           \/ records'[g.step].status \in {"failed", "completed", "cancelled"}
           \/ /\ records'[g.step].status = records[g.step].status
              /\ records'[g.step].lease = records[g.step].lease
    PROVE  Accounted(g)'
  <1>1. WaitedFor(g) => WaitedFor(g)'
    BY DEF WaitedFor
  <1>2. ASSUME records'[g.step].lease = records[g.step].lease
        PROVE  CurrentFence(g.step)' = CurrentFence(g.step)
    BY <1>2 DEF CurrentFence, StepClaimFence
  <1> QED
    BY <1>1, <1>2 DEF Accounted, EarlierRun, SameRun

(* A record opened for a later run leaves every claim behind it.           *)
LEMMA AccountedBehind ==
    ASSUME NEW g \in Fences, records'[g.step] \in Records, records'[g.step].status = "pending",
           EarlierRun(g, records'[g.step])
    PROVE  Accounted(g)'
  <1>1. ~SameRun(g, records'[g.step])
    BY EarlierIsOther
  <1> QED
    BY <1>1 DEF Accounted, EarlierRun, SameRun

(* Where no claim is handed out, accounting for the old ones is enough.    *)
LEMMA AttemptsKept ==
    ASSUME TypeOK, AttemptInv, UNCHANGED receipts, sealed \subseteq sealed',
           stateVisit' \in Nat, stateVisit <= stateVisit',
           \A g \in receipts : Accounted(g)'
    PROVE  AttemptInv'
  <1>1. OneClaimPerAttempt'
    BY DEF AttemptInv, OneClaimPerAttempt
  <1>2. ASSUME NEW g \in receipts PROVE g.visit <= stateVisit'
    <2>1. g.visit \in Nat /\ g.visit <= stateVisit /\ stateVisit \in Nat
      BY DEF TypeOK, Fences, AttemptInv
    <2> QED
      BY <2>1
  <1> QED
    BY <1>1, <1>2 DEF AttemptInv

(* A claim is of a new attempt, or of one that waited for a person.        *)
LEMMA StartStepAttempts ==
    ASSUME TypeOK, RecordsCarryCurrentCoordinates, AttemptInv,
           NEW step \in Steps, NEW role \in Roles, NEW owner \in Owners, NEW key \in Keys,
           NEW now \in Observed, NEW ceiling \in HostCeilings,
           StartStep(step, role, owner, key, now, ceiling)
    PROVE  AttemptInv'
  <1> DEFINE r == records[step]
             claimed == ClaimedRecord(step, role, owner, key, now)
             fence == StepClaimFence(step, claimed)
  <1>1. /\ records' = [records EXCEPT ![step] = claimed]
        /\ receipts' = receipts \cup fence
        /\ UNCHANGED <<sealed, currentState, stateVisit>>
        /\ step \in InState(currentState) /\ CanBeStartedAt(r, now)
    BY DEF StartStep, positionVars, resultVars
  <1>2. /\ claimed.visit = r.visit /\ claimed.stateIteration = r.stateIteration
        /\ claimed.iteration = r.iteration /\ claimed.attempt = NextStartAttempt(r)
        /\ claimed.status = "in_progress" /\ claimed.lease = {Acquire(owner, key, now)}
    BY DEF ClaimedRecord, WithStarted, TypeOK, Records
  <1>3. /\ r \in Records /\ r.attempt \in Nat /\ stateVisit \in Nat
        /\ r.status \in {"pending", "failed", "waiting_for_human", "in_progress"}
    BY <1>1 DEF TypeOK, Records, CanBeStartedAt, Executable
  <1>4. r.visit = stateVisit
    BY <1>1 DEF RecordsCarryCurrentCoordinates
  <1> HIDE DEF claimed
  <1>5. records'[step] = claimed /\ \A s \in Steps \ {step} : records'[s] = records[s]
    BY <1>1 DEF TypeOK
  <1>6. PICK f : /\ fence = {f} /\ f.step = step /\ f.visit = r.visit
                 /\ f.stateIteration = r.stateIteration /\ f.iteration = r.iteration
                 /\ f.attempt = NextStartAttempt(r)
    <2> DEFINE f == [step |-> step, visit |-> claimed.visit, stateIteration |-> claimed.stateIteration,
                     iteration |-> claimed.iteration, attempt |-> claimed.attempt,
                     lease |-> Acquire(owner, key, now)]
    <2>1. fence = {f}
      BY <1>2 DEF StepClaimFence
    <2>2. /\ f.step = step /\ f.visit = claimed.visit /\ f.stateIteration = claimed.stateIteration
          /\ f.iteration = claimed.iteration /\ f.attempt = claimed.attempt
      OBVIOUS
    <2> HIDE DEF f, fence
    <2> QED
      BY <1>2, <2>1, <2>2
  <1>7. CurrentFence(step)' = fence
    BY <1>5 DEF CurrentFence
  <1> HIDE DEF fence
  <1>8. /\ NextStartAttempt(r) \in Nat /\ r.attempt <= NextStartAttempt(r)
        /\ r.status \in {"failed", "in_progress"} => NextStartAttempt(r) = r.attempt + 1
        /\ r.status \in {"pending", "waiting_for_human"} => NextStartAttempt(r) = r.attempt
    BY <1>3 DEF NextStartAttempt
  <1>9. ASSUME NEW g \in receipts, g.step = step, SameRun(g, r), g.attempt = NextStartAttempt(r)
        PROVE  WaitedFor(g)
    <2>1. g \in Fences /\ g.attempt \in Nat
      BY DEF TypeOK, Fences
    <2>2. ~EarlierRun(g, r)
      BY <1>3, <1>9, <2>1, EarlierIsOther
    <2>3. /\ g.attempt <= r.attempt /\ r.status # "pending"
          /\ g.attempt = r.attempt /\ r.status = "waiting_for_human" => WaitedFor(g)
      BY <1>9, <2>2 DEF AttemptInv, Accounted
    <2> QED
      BY <1>3, <1>8, <1>9, <2>1, <2>3
  <1>10. OneClaimPerAttempt'
    <2> SUFFICES ASSUME NEW f1 \in receipts', NEW f2 \in receipts', f1 # f2, SameAttempt(f1, f2)
                 PROVE  \E a \in sealed : /\ a.fence \in {f1, f2}
                                         /\ a.result.status = "waiting_for_human"
      BY <1>1 DEF OneClaimPerAttempt, SameAttempt
    <2>1. CASE f1 \in receipts /\ f2 \in receipts
      BY <2>1 DEF AttemptInv, OneClaimPerAttempt
    <2>2. CASE f1 = f /\ f2 \in receipts
      <3>1. WaitedFor(f2)
        BY <1>6, <1>9, <2>2 DEF SameAttempt, SameRun
      <3> QED
        BY <3>1 DEF WaitedFor
    <2>3. CASE f2 = f /\ f1 \in receipts
      <3>1. WaitedFor(f1)
        BY <1>6, <1>9, <2>3 DEF SameAttempt, SameRun
      <3> QED
        BY <3>1 DEF WaitedFor
    <2> QED
      BY <1>1, <1>6, <2>1, <2>2, <2>3
  <1>11. ASSUME NEW g \in receipts, g.step # step PROVE Accounted(g)'
    <2>1. g.step \in Steps
      BY DEF TypeOK, Fences
    <2>2. records'[g.step] = records[g.step]
      BY <1>5, <1>11, <2>1
    <2> QED
      BY <1>1, <2>2, AccountedInPlace DEF AttemptInv
  <1>12. ASSUME NEW g \in receipts, g.step = step PROVE Accounted(g)'
    <2>1. g.attempt \in Nat /\ (WaitedFor(g)' <=> WaitedFor(g))
      BY <1>1 DEF TypeOK, Fences, WaitedFor
    <2>2. EarlierRun(g, r) \/ (SameRun(g, r) /\ g.attempt <= r.attempt)
      BY <1>12 DEF AttemptInv, Accounted
    <2>3. EarlierRun(g, claimed) \/ (SameRun(g, claimed) /\ g.attempt <= claimed.attempt)
      BY <1>2, <1>3, <1>8, <2>1, <2>2 DEF EarlierRun, SameRun
    <2>4. SameRun(g, claimed) /\ g.attempt = claimed.attempt => WaitedFor(g)
      BY <1>2, <1>9, <1>12 DEF SameRun
    <2> QED
      BY <1>2, <1>5, <1>12, <2>1, <2>3, <2>4 DEF Accounted, EarlierRun, SameRun
  <1>13. Accounted(f)'
    <2>1. f \in CurrentFence(f.step)'
      BY <1>6, <1>7
    <2>2. SameRun(f, claimed) /\ f.attempt = claimed.attempt /\ claimed.attempt \in Nat
      BY <1>2, <1>6, <1>8 DEF SameRun
    <2> QED
      BY <1>2, <1>5, <1>6, <2>1, <2>2 DEF Accounted, EarlierRun, SameRun
  <1>14. \A g \in receipts' : g.visit <= stateVisit' /\ Accounted(g)'
    BY <1>1, <1>3, <1>4, <1>6, <1>11, <1>12, <1>13 DEF AttemptInv
  <1> QED
    BY <1>10, <1>14 DEF AttemptInv

(* A renewal leaves the record in its attempt, under its claim.            *)
LEMMA RenewStepLeaseAttempts ==
    ASSUME TypeOK, AttemptInv, NEW fence \in receipts, NEW owner \in Owners, NEW now \in RenewalTimes,
           NEW request, RenewStepLease(fence, owner, request, now)
    PROVE  AttemptInv'
  <1>1. /\ records' = [records EXCEPT ![fence.step].renewed = RenewedExpiry(fence.step, now)]
        /\ UNCHANGED <<stateVisit, receipts, sealed>>
    BY DEF RenewStepLease, positionVars, claimVars, resultVars
  <1>2. fence.step \in Steps /\ stateVisit \in Nat
    BY DEF TypeOK, Fences
  <1>3. \A s \in Steps : /\ records'[s].visit = records[s].visit
                         /\ records'[s].stateIteration = records[s].stateIteration
                         /\ records'[s].iteration = records[s].iteration
                         /\ records'[s].attempt = records[s].attempt
                         /\ records'[s].status = records[s].status
                         /\ records'[s].lease = records[s].lease
    BY <1>1, <1>2 DEF TypeOK, Records
  <1>4. ASSUME NEW g \in receipts PROVE Accounted(g)'
    <2>1. g.step \in Steps
      BY DEF TypeOK, Fences
    <2> QED
      BY <1>1, <1>3, <2>1, AccountedInPlace DEF AttemptInv
  <1> QED
    BY <1>1, <1>2, <1>4, AttemptsKept

(* A claim that stops to wait for a person is the one its attempt has.     *)
LEMMA FailStepAttempts ==
    ASSUME TypeOK, AttemptInv, NEW fence \in receipts, NEW result \in Results, FailStep(fence, result)
    PROVE  AttemptInv'
  <1> DEFINE step == fence.step
             r == records[step]
             done == WithResult(r, result)
  <1>1. /\ records' = [records EXCEPT ![step] = done]
        /\ sealed' = sealed \cup {[fence |-> fence, result |-> result]}
        /\ UNCHANGED <<stateVisit, receipts>>
        /\ r.status = "in_progress" /\ CurrentFence(step) = {fence}
        /\ result.status # "completed"
    BY SealedType DEF FailStep, Seal, positionVars, claimVars, ResultIsAdmitted, IsLiveClaim, TypeOK
  <1>2. step \in Steps /\ stateVisit \in Nat /\ r \in Records /\ result.status \in ResultStatuses
    BY SealedType DEF TypeOK
  <1>3. /\ done.visit = r.visit /\ done.stateIteration = r.stateIteration
        /\ done.iteration = r.iteration /\ done.attempt = r.attempt /\ done.status = result.status
    BY <1>2 DEF WithResult, Records
  <1> HIDE DEF done
  <1>4. records'[step] = done /\ \A s \in Steps \ {step} : records'[s] = records[s]
    BY <1>1, <1>2 DEF TypeOK
  <1>5. sealed \subseteq sealed' /\ [fence |-> fence, result |-> result] \in sealed'
    BY <1>1
  <1>6. ASSUME NEW g \in receipts PROVE Accounted(g)'
    <2>1. g.step \in Steps
      BY DEF TypeOK, Fences
    <2>2. CASE g.step # step \/ result.status \in {"failed", "cancelled"}
      BY <1>3, <1>4, <1>5, <2>1, <2>2, AccountedInPlace DEF AttemptInv
    <2>3. CASE g.step = step /\ result.status = "waiting_for_human"
      <3>1. /\ EarlierRun(g, r) \/ (SameRun(g, r) /\ g.attempt <= r.attempt)
            /\ SameRun(g, r) /\ g.attempt = r.attempt => g = fence \/ WaitedFor(g)
        BY <1>1, <2>3 DEF AttemptInv, Accounted
      <3>2. WaitedFor(g) => WaitedFor(g)'
        BY <1>5 DEF WaitedFor
      <3>3. g = fence => WaitedFor(g)'
        BY <1>5, <2>3 DEF WaitedFor
      <3> QED
        BY <1>3, <1>4, <2>3, <3>1, <3>2, <3>3 DEF Accounted, EarlierRun, SameRun
    <2> QED
      BY <1>1, <1>2, <2>2, <2>3 DEF ResultStatuses
  <1> QED
    BY <1>1, <1>2, <1>5, <1>6, AttemptsKept

(* A completion ends the attempt, or opens a later run.                    *)
LEMMA CompleteStepAttempts ==
    ASSUME TypeOK, RecordsCarryCurrentCoordinates, AttemptInv, NEW fence \in receipts, NEW result \in Results,
           CompleteStep(fence, result)
    PROVE  AttemptInv'
  <1> DEFINE step == fence.step
             recs == RecordsAfterCompletion(step, result)
  <1>1. /\ UNCHANGED <<currentState, stateVisit, receipts>> /\ sealed \subseteq sealed'
        /\ result.status = "completed"
        /\ records' = recs \/ records' = RecordsAfterIteration(recs)
    BY DEF CompleteStep, Seal, claimVars
  <1>2. /\ step \in Steps /\ stateVisit \in Nat /\ stateIteration \in Nat
        /\ InState(currentState) \subseteq Steps /\ records' \in [Steps -> Records]
    BY SealedType, InStateSteps, CompleteStepType DEF TypeOK
  <1>3. /\ \A s \in Steps \ {step} : recs[s] = records[s]
        /\ recs[step].visit = records[step].visit
        /\ recs[step].stateIteration = records[step].stateIteration
        /\ \/ /\ recs[step].iteration = records[step].iteration
              /\ recs[step].attempt = records[step].attempt
              /\ recs[step].status = "completed"
           \/ /\ recs[step].iteration = records[step].iteration + 1
              /\ recs[step].status = "pending"
    BY <1>1, <1>2 DEF RecordsAfterCompletion, WithResult, Pending, TypeOK, Records
  <1> HIDE DEF recs
  <1>4. ASSUME NEW g \in receipts, NEW n \in Nat, n = records[g.step].iteration
        PROVE  /\ g \in Fences /\ g.step \in Steps /\ records[g.step] \in Records /\ Accounted(g)
               /\ EarlierRun(g, records[g.step]) \/ SameRun(g, records[g.step])
               /\ g.visit \in Nat /\ g.stateIteration \in Nat /\ g.iteration \in Nat
    BY DEF TypeOK, Fences, AttemptInv, Accounted
  <1>5. \A g \in receipts : records[g.step].iteration \in Nat
    BY DEF TypeOK, Fences, Records
  <1>6. ASSUME NEW g \in receipts, records'[g.step] = recs[g.step]
        PROVE  Accounted(g)'
    <2>1. CASE g.step # step
      BY <1>1, <1>3, <1>4, <1>5, <1>6, <2>1, AccountedInPlace
    <2>2. CASE g.step = step /\ recs[step].status = "completed"
      BY <1>1, <1>3, <1>4, <1>5, <1>6, <2>2, AccountedInPlace
    <2>3. CASE g.step = step /\ recs[step].status = "pending"
      <3>1. EarlierRun(g, records'[g.step])
        BY <1>3, <1>4, <1>5, <1>6, <2>3 DEF EarlierRun, SameRun
      <3> QED
        BY <1>2, <1>4, <1>5, <1>6, <2>3, <3>1, AccountedBehind
    <2> QED
      BY <1>3, <2>1, <2>2, <2>3
  <1>7. ASSUME NEW g \in receipts, records' = RecordsAfterIteration(recs), g.step \in InState(currentState)
        PROVE  Accounted(g)'
    <2>1. /\ records'[g.step].visit = stateVisit /\ records'[g.step].stateIteration = stateIteration + 1
          /\ records'[g.step].status = "pending"
      BY <1>2, <1>7 DEF RecordsAfterIteration, Pending
    <2>2. records[g.step].visit = stateVisit /\ records[g.step].stateIteration = stateIteration
      BY <1>7 DEF RecordsCarryCurrentCoordinates
    <2>3. EarlierRun(g, records'[g.step])
      BY <1>2, <1>4, <1>5, <2>1, <2>2 DEF EarlierRun, SameRun
    <2> QED
      BY <1>2, <1>4, <1>5, <2>1, <2>3, AccountedBehind
  <1>8. ASSUME NEW g \in receipts PROVE Accounted(g)'
    <2>1. records'[g.step] = recs[g.step]
          \/ (records' = RecordsAfterIteration(recs) /\ g.step \in InState(currentState))
      BY <1>1, <1>4, <1>5 DEF RecordsAfterIteration
    <2> QED
      BY <1>6, <1>7, <2>1
  <1> QED
    BY <1>1, <1>2, <1>8, AttemptsKept

(* An expiry fails the attempt, even of a pending record.                  *)
LEMMA EnforceDeadlinesAttempts ==
    ASSUME TypeOK, AttemptInv, NEW now \in Observed, EnforceDeadlines(now)
    PROVE  AttemptInv'
  <1>1. /\ \A s \in Steps : records'[s] = records[s] \/ records'[s] = WithResult(records[s], TimedOut)
        /\ UNCHANGED <<stateVisit, receipts, sealed>>
    BY DEF EnforceDeadlines, positionVars, claimVars
  <1>2. \A s \in Steps : /\ WithResult(records[s], TimedOut).visit = records[s].visit
                         /\ WithResult(records[s], TimedOut).stateIteration = records[s].stateIteration
                         /\ WithResult(records[s], TimedOut).iteration = records[s].iteration
                         /\ WithResult(records[s], TimedOut).attempt = records[s].attempt
                         /\ WithResult(records[s], TimedOut).status = "failed"
    BY DEF WithResult, TimedOut, TypeOK, Records
  <1>3. ASSUME NEW g \in receipts PROVE Accounted(g)'
    <2>1. g.step \in Steps
      BY DEF TypeOK, Fences
    <2> QED
      BY <1>1, <1>2, <2>1, AccountedInPlace DEF AttemptInv
  <1>4. stateVisit \in Nat
    BY DEF TypeOK
  <1> QED
    BY <1>1, <1>3, <1>4, AttemptsKept

(* A move opens its steps at a visit no claim has reached.                 *)
LEMMA ApplyTransitionAttempts ==
    ASSUME TypeOK, AttemptInv, NEW tr \in Transitions, NEW now \in Observed, ApplyTransition(tr, now)
    PROVE  AttemptInv'
  <1>1. /\ records' = RecordsAfterEntry(tr.to) /\ stateVisit' = stateVisit + 1
        /\ UNCHANGED <<receipts, sealed>>
    BY DEF ApplyTransition, claimVars, resultVars
  <1>2. stateVisit \in Nat /\ stateVisit' \in Nat /\ stateVisit <= stateVisit'
        /\ records' \in [Steps -> Records]
    BY <1>1, ApplyTransitionType DEF TypeOK
  <1>3. ASSUME NEW g \in receipts PROVE Accounted(g)'
    <2>1. g \in Fences /\ g.step \in Steps /\ g.visit \in Nat /\ g.visit <= stateVisit
      BY DEF TypeOK, Fences, AttemptInv
    <2>2. CASE records'[g.step] = records[g.step]
      BY <1>1, <2>2, AccountedInPlace DEF AttemptInv
    <2>3. CASE records'[g.step] = Pending(stateVisit + 1, 1, 1)
      <3>1. records'[g.step].status = "pending" /\ records'[g.step].visit = stateVisit + 1
        BY <2>3 DEF Pending
      <3>2. EarlierRun(g, records'[g.step])
        BY <1>2, <2>1, <3>1 DEF EarlierRun
      <3> QED
        BY <1>2, <2>1, <3>1, <3>2, AccountedBehind
    <2> QED
      BY <1>1, <2>1, <2>2, <2>3 DEF RecordsAfterEntry
  <1> QED
    BY <1>1, <1>2, <1>3, AttemptsKept

(* Every step keeps the claims of an attempt apart.                        *)
LEMMA NextAttempts ==
    TypeOK /\ RecordsCarryCurrentCoordinates /\ AttemptInv /\ [Next]_vars => AttemptInv'
  <1> SUFFICES ASSUME TypeOK, RecordsCarryCurrentCoordinates, AttemptInv, [Next]_vars PROVE AttemptInv'
    OBVIOUS
  <1>1. ASSUME NEW step \in Steps, NEW role \in Roles, NEW owner \in Owners, NEW key \in Keys,
               NEW now \in Observed, NEW ceiling \in HostCeilings,
               StartStep(step, role, owner, key, now, ceiling)
        PROVE  AttemptInv'
    BY <1>1, StartStepAttempts
  <1>2. ASSUME NEW fence \in receipts, NEW owner \in Owners, NEW now \in RenewalTimes,
               NEW request, RenewStepLease(fence, owner, request, now)
        PROVE  AttemptInv'
    BY <1>2, RenewStepLeaseAttempts
  <1>3. ASSUME NEW fence \in receipts, NEW result \in Results,
               CompleteStep(fence, result) \/ FailStep(fence, result)
        PROVE  AttemptInv'
    BY <1>3, CompleteStepAttempts, FailStepAttempts
  <1>4. ASSUME NEW tr \in Transitions, NEW now \in Observed, ApplyTransition(tr, now)
        PROVE  AttemptInv'
    BY <1>4, ApplyTransitionAttempts
  <1>5. ASSUME NEW now \in Observed, EnforceDeadlines(now)
        PROVE  AttemptInv'
    BY <1>5, EnforceDeadlinesAttempts
  <1>6. CASE \/ \E g \in Guards : ApproveGuard(g) \/ DeferGuard(g)
             \/ \E i \in Interventions : RequestIntervention(i) \/ CloseIntervention(i)
             \/ Pause \/ Resume \/ Cancel \/ Tick
             \/ \E steps \in SUBSET Steps : PlanSuccessor(steps)
             \/ \E fence \in receipts, result \in Results : ObserveLateResult(fence, result)
             \/ UNCHANGED vars
    <2>1. UNCHANGED <<records, receipts, sealed, stateVisit>>
      BY <1>6
      DEF ApproveGuard, DeferGuard, RequestIntervention, CloseIntervention, Pause, Resume,
          Cancel, LifecycleChangesTo, Tick, PlanSuccessor, ObserveLateResult, vars,
          positionVars, workVars, claimVars, resultVars
    <2>2. stateVisit \in Nat
      BY DEF TypeOK
    <2>3. ASSUME NEW g \in receipts PROVE Accounted(g)'
      BY <2>1, AccountedInPlace DEF AttemptInv
    <2> QED
      BY <2>1, <2>2, <2>3, AttemptsKept
  <1> QED
    BY <1>1, <1>2, <1>3, <1>4, <1>5, <1>6 DEF Next

(* Takeovers and retries count: two claims are of one attempt only when    *)
(* the first stopped to wait for a person.                                 *)
THEOREM AttemptsAreCounted == Spec => []OneClaimPerAttempt
  <1>1. Init => TypeOK /\ RecordsCarryCurrentCoordinates /\ AttemptInv
    <2>1. Init => AttemptInv
      BY DEF Init, AttemptInv, OneClaimPerAttempt
    <2> QED
      BY <2>1, InitType, InitCoordinates
  <1>2. TypeOK /\ RecordsCarryCurrentCoordinates /\ AttemptInv /\ [Next]_vars
          => TypeOK' /\ RecordsCarryCurrentCoordinates' /\ AttemptInv'
    BY NextType, NextCoordinates, NextAttempts
  <1>3. AttemptInv => OneClaimPerAttempt
    BY DEF AttemptInv
  <1> QED
    BY <1>1, <1>2, <1>3, PTL DEF Spec
=============================================================================
