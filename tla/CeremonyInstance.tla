-------------------------- MODULE CeremonyInstance --------------------------
(***************************************************************************)
(* The ceremony aggregate: the one session a definition is run in.  Every  *)
(* command is decided against the current session and, when accepted,      *)
(* yields events whose fold changes it; an action below is one accepted    *)
(* command, its decision and the fold of all its events together.  A       *)
(* refused command, and one answered by "nothing to append", change        *)
(* nothing and are stuttering steps.                                       *)
(*                                                                         *)
(* Workers hold the fences of the claims they were granted (`receipts')    *)
(* and may file a result with any of them at any later time, so a result   *)
(* may arrive after its lease lapsed, after another worker took the step   *)
(* over, after the state was left and entered again, or after the ceremony *)
(* ended.  A command that lost an append race is decided again with the    *)
(* time it was issued at, so `now' may lie up to MaxLag behind the clock;  *)
(* only a renewal reads the clock again for every decision.                *)
(***************************************************************************)
EXTENDS CeremonyGuards

CONSTANTS
    HostCeilings,    \* the parallelism ceilings of the hosts that claim
    RequestIds,      \* the ids renewal requests carry
    Interventions,   \* the ids participant interventions carry
    Results,         \* the step results workers file
    MaxTime,         \* bound: the clock stops here
    MaxLag,          \* bound: how old the time of a command may be
    MaxVisits        \* bound: state entries

VARIABLES
    clock,
    currentState, stateVisit, stateIteration,
    records,         \* step_records
    history,         \* step_record_history
    idempotencyKeys,
    transitions,     \* every move made, in order
    lifecycle,       \* [phase, endReason, explicit]
    completed,       \* completed_at is set
    ceremonyDeadline, stateDeadline, stepDeadlines,
    retired,         \* retired_deadline_claims
    lateResults,     \* late_step_results
    approvals, deferrals,
    interventions,
    leaseRenewals,
    successorPlan,
    receipts,        \* the fences handed to workers with their claims
    sealed           \* the step results the journal holds, by fence

positionVars == <<currentState, stateVisit, stateIteration, transitions>>
workVars     == <<records, history, stepDeadlines>>
claimVars    == <<idempotencyKeys, receipts>>
resultVars   == <<sealed, retired, lateResults>>
lifeVars     == <<lifecycle, completed>>
limitVars    == <<ceremonyDeadline, stateDeadline>>
humanVars    == <<approvals, deferrals, interventions>>
otherVars    == <<leaseRenewals, successorPlan>>

vars == <<clock, positionVars, workVars, claimVars, resultVars, lifeVars,
          limitVars, humanVars, otherVars>>

(* A result is observable, and only a failure carries no output.          *)
ASSUME ResultAssumption ==
    /\ Results \subseteq [status : ResultStatuses, output : SUBSET Conditions]
    /\ \A res \in Results : res.status = "failed" => res.output = {}

ASSUME BoundAssumption ==
    /\ HostCeilings # {} /\ HostCeilings \subseteq Nat \ {0}
    /\ MaxTime \in Nat
    /\ MaxLag \in Nat
    /\ MaxVisits \in Nat

TimedOut == [status |-> "failed", output |-> {}]

StepDeadlines == [fence : Fences, at : Nat]
Phases        == {"running", "paused", "ended"}
EndReasons    == {"completed", "cancelled", "ceremony_deadline", "state_deadline"}
Lifecycles    == [phase : Phases, endReason : SUBSET EndReasons,
                  explicit : BOOLEAN]
SealedResults == [fence : Fences, result : [status : ResultStatuses,
                                            output : SUBSET Conditions]]
SourceRefs    == [step : Steps, visit : Nat, attempt : Nat,
                  output : SUBSET Conditions]

TypeOK ==
    /\ clock \in Nat
    /\ currentState \in States
    /\ stateVisit \in Nat
    /\ stateIteration \in Nat
    /\ records \in [Steps -> Records]
    /\ history \in [Steps -> Seq(Records)]
    /\ idempotencyKeys \subseteq Keys
    /\ transitions \in Seq([edge : Transitions, visit : Nat, iteration : Nat])
    /\ lifecycle \in Lifecycles
    /\ lifecycle.phase = "ended" <=> lifecycle.endReason # {}
    /\ completed \in BOOLEAN
    /\ ceremonyDeadline \in SUBSET Nat
    /\ stateDeadline \in SUBSET Nat
    /\ stepDeadlines \in [Steps -> SUBSET StepDeadlines]
    /\ retired \subseteq StepDeadlines
    /\ lateResults \subseteq SealedResults
    /\ approvals \subseteq Guards
    /\ deferrals \subseteq Guards
    /\ interventions \in [Interventions -> {"absent", "open", "closed"}]
    /\ leaseRenewals \subseteq [id : RequestIds, fence : Fences, expires : Nat]
    /\ successorPlan \in SUBSET [dispositions : SUBSET Fences,
                                 carried : SUBSET SourceRefs]
    /\ receipts \subseteq Fences
    /\ sealed \subseteq SealedResults
-----------------------------------------------------------------------------
(* The session as it is opened: the initial state, one pending record per *)
(* declared step, and the deadlines sealed from the definition.           *)
Init ==
    /\ clock = 0
    /\ currentState = InitialState
    /\ stateVisit = 1
    /\ stateIteration = 1
    /\ records = [step \in Steps |-> Pending(1, 1, 1)]
    /\ history = [step \in Steps |-> <<>>]
    /\ idempotencyKeys = {}
    /\ transitions = <<>>
    /\ lifecycle = [phase |-> "running", endReason |-> {}, explicit |-> FALSE]
    /\ completed = FALSE
    /\ ceremonyDeadline = { clock + t : t \in CeremonyTimeout }
    /\ stateDeadline = { clock + t : t \in StateTimeout }
    /\ stepDeadlines = [step \in Steps |-> {}]
    /\ retired = {}
    /\ lateResults = {}
    /\ approvals = {}
    /\ deferrals = {}
    /\ interventions = [i \in Interventions |-> "absent"]
    /\ leaseRenewals = {}
    /\ successorPlan = {}
    /\ receipts = {}
    /\ sealed = {}

-----------------------------------------------------------------------------
(* The times a command decided now may carry.                             *)
Observed == { t \in 0..clock : clock - t <= MaxLag }

(* lifecycle(): a session that completed and whose phase was never set    *)
(* explicitly reads as ended by completion.                               *)
LifecycleView ==
    IF completed /\ ~lifecycle.explicit
      THEN [phase |-> "ended", endReason |-> {"completed"}, explicit |-> TRUE]
      ELSE lifecycle

IsEnded       == LifecycleView.phase = "ended"
IsPaused      == LifecycleView.phase = "paused"
AdmitsNewWork == ~IsEnded /\ lifecycle.phase = "running"
IsTerminal    == currentState \in TerminalStates
IsActive      == ~IsTerminal /\ ~IsEnded
IsSuperseded  == successorPlan # {}

CurrentFence(step) == StepClaimFence(step, records[step])

(* The claim is the one the step's record holds, and it is in progress.   *)
IsLiveClaim(fence) == /\ records[fence.step].status = "in_progress"
                      /\ CurrentFence(fence.step) = {fence}

IsRetired(fence) == \E d \in retired : d.fence = fence

(* The absolute deadlines a claim of the step is subject to.              *)
DeadlinesOf(step) == { d.at : d \in stepDeadlines[step] }
                        \cup stateDeadline \cup ceremonyDeadline

-----------------------------------------------------------------------------
(* Claiming a step: start_step.                                           *)

(* The role a record keeps reserved in its coordinate: the one sealed     *)
(* with its claim, or the step's own once it was executed at all.         *)
ReservedRole(step, r) ==
    IF r.role # {} THEN r.role
    ELSE IF r.status # "pending" THEN { RoleIdForStep[step] } ELSE {}

(* The records of a step, current and archived, at the current coordinate. *)
RecordsHere(step) ==
    { r \in { records[step] } \cup
            { history[step][i] : i \in DOMAIN history[step] } :
        /\ step \in InState(currentState)
        /\ r.stateIteration = stateIteration
        /\ r.visit = stateVisit }

RolesAssignedToOtherSteps(step) ==
    UNION { UNION { ReservedRole(other, r) : r \in RecordsHere(other) }
              : other \in Steps \ {step} }

(* Mutated form: only the role of a step still in progress is taken.      *)
RoleIsAvailableOnceDone(step, role) ==
    currentState \in ConcurrentStates =>
        \A other \in InState(currentState) \ {step} :
            records[other].status = "in_progress" =>
                role \notin ReservedRole(other, records[other])

(* In a concurrent state a role serves one step of a state iteration.     *)
RoleIsAvailable(step, role) ==
    currentState \in ConcurrentStates =>
        role \notin RolesAssignedToOtherSteps(step)

LiveStepsAt(now) ==
    { step \in InState(currentState) : HasLiveLeaseAt(records[step], now) }

(* Mutated form: a sequential state admits any unfinished step.           *)
StepIsClaimableInAnyOrder(step, now, ceiling) ==
    IF currentState \in ConcurrentStates
      THEN Cardinality(LiveStepsAt(now)) < EffectiveWith(ceiling)
      ELSE ~IsSuccess(records[step])

(* A sequential state admits its first unfinished step; a concurrent one  *)
(* admits any step while fewer leases than its capacity are live.         *)
StepIsClaimableAt(step, now, ceiling) ==
    IF currentState \in ConcurrentStates
      THEN Cardinality(LiveStepsAt(now)) < EffectiveWith(ceiling)
      ELSE LET order == StepsForState[currentState] IN
           \E i \in DOMAIN order :
              /\ order[i] = step
              /\ ~IsSuccess(records[step])
              /\ \A j \in 1..(i - 1) : IsSuccess(records[order[j]])

(* The deadline of a claim: its own timeout, cut by the state's and the   *)
(* ceremony's deadlines.                                                  *)
StepDeadlineAt(step, now) ==
    EarliestOf({ now + t : t \in StepTimeout[step] }
                 \cup stateDeadline \cup ceremonyDeadline)

(* The record a claim leaves.  The role is sealed only where it is not    *)
(* the one the definition would assign.                                   *)
ClaimedRecord(step, role, owner, key, now) ==
    WithStarted(records[step], Acquire(owner, key, now),
                NextStartAttempt(records[step]),
                IF currentState \in ConcurrentStates /\ role # RoleIdForStep[step]
                  THEN {role} ELSE {})

StartStep(step, role, owner, key, now, ceiling) ==
    /\ AdmitsNewWork
    /\ ~IsTerminal
    /\ step \in InState(currentState)
    /\ CanBeStartedAt(records[step], now)
    /\ NextStartAttempt(records[step]) <= MaxAttempts[step]
    /\ role \in RolesForStep[step]
    /\ RoleIsAvailable(step, role)
    /\ StepIsClaimableAt(step, now, ceiling)
    /\ key \notin idempotencyKeys
    /\ LET claimed == ClaimedRecord(step, role, owner, key, now)
           fence   == StepClaimFence(step, claimed)
       IN  /\ records' = [records EXCEPT ![step] = claimed]
           /\ stepDeadlines' = [stepDeadlines EXCEPT ![step] =
                 { [fence |-> f, at |-> t] : f \in fence,
                                             t \in StepDeadlineAt(step, now) }]
           /\ receipts' = receipts \cup fence
    /\ idempotencyKeys' = idempotencyKeys \cup {key}
    /\ UNCHANGED <<clock, positionVars, history, resultVars, lifeVars,
                   limitVars, humanVars, otherVars>>

-----------------------------------------------------------------------------
(* Renewing a lease: the worker's use case reads the clock and the        *)
(* session again for every try, and asks for LeaseTtl from there, cut by  *)
(* the deadlines of the claim; what it holds is never shortened.          *)
(* Mutated form: the time the command was issued at, as elsewhere.        *)
StaleRenewalTimes == Observed
RenewalTimes == {clock}

RenewedExpiry(step, now) ==
    LET bounded == EarliestOf({now + LeaseTtl} \cup DeadlinesOf(step))
        held    == EffectiveLeaseExpiresAt(records[step])
    IN  { t \in bounded \cup held : \A u \in bounded \cup held : u <= t }

RenewStepLease(fence, owner, request, now) ==
    LET step == fence.step
        held == EffectiveLeaseExpiresAt(records[step])
    IN
    /\ \A id \in request, a \in leaseRenewals : a.id # id
    /\ IsActive
    /\ CurrentFence(step) = {fence}
    /\ fence.lease.owner = owner
    /\ HasLiveLeaseAt(records[step], now)
    /\ \A at \in DeadlinesOf(step) : now < at
    /\ \A t \in RenewedExpiry(step, now), at \in DeadlinesOf(step) : t <= at
    /\ RenewedExpiry(step, now) = held => request # {}
    /\ records' = [records EXCEPT ![step].renewed = RenewedExpiry(step, now)]
    /\ leaseRenewals' = leaseRenewals \cup
          { [id |-> id, fence |-> fence, expires |-> t]
              : id \in request, t \in RenewedExpiry(step, now) }
    /\ UNCHANGED <<clock, positionVars, history, stepDeadlines, claimVars,
                   resultVars, lifeVars, limitVars, humanVars, successorPlan>>

-----------------------------------------------------------------------------
(* Filing a result: apply_step_result.                                    *)

(* A result for a claim whose deadline retired it, or for the claim still *)
(* held when the ceremony ended, is observed once and changes nothing     *)
(* else.                                                                  *)
ObserveLateResult(fence, result) ==
    /\ \A l \in lateResults : l.fence # fence
    /\ IsRetired(fence) \/ (IsEnded /\ IsLiveClaim(fence))
    /\ lateResults' = lateResults \cup {[fence |-> fence, result |-> result]}
    /\ UNCHANGED <<clock, positionVars, workVars, claimVars, sealed, retired,
                   lifeVars, limitVars, humanVars, otherVars>>

(* Mutated form: the fence is not compared with the claim in progress.    *)
ResultIsAdmittedUnfenced(fence) ==
    /\ ~IsEnded
    /\ fence.step \in InState(currentState)
    /\ records[fence.step].status = "in_progress"

(* Whether a result reaches the record it names rather than the late path. *)
ResultIsAdmitted(fence) ==
    /\ \A l \in lateResults : l.fence # fence
    /\ ~IsEnded
    /\ ~IsRetired(fence)
    /\ fence.step \in InState(currentState)
    /\ IsLiveClaim(fence)

Seal(fence, result) ==
    sealed' = sealed \cup {[fence |-> fence, result |-> result]}

FailStep(fence, result) ==
    /\ result.status # "completed"
    /\ ResultIsAdmitted(fence)
    /\ records' = [records EXCEPT ![fence.step] = WithResult(@, result)]
    /\ stepDeadlines' = [stepDeadlines EXCEPT ![fence.step] = {}]
    /\ Seal(fence, result)
    /\ UNCHANGED <<clock, positionVars, history, claimVars, retired,
                   lateResults, lifeVars, limitVars, humanVars, otherVars>>

(* A success that misses the step's stop condition opens the step again   *)
(* at its next iteration while its policy permits one.                    *)
StepReopens(step, result) ==
    \E policy \in StepRepeat[step] :
        /\ policy.until \notin result.output
        /\ records[step].iteration < policy.max

RecordsAfterCompletion(step, result) ==
    LET r == records[step] IN
    [records EXCEPT ![step] =
        IF StepReopens(step, result)
          THEN Pending(r.visit, r.stateIteration, r.iteration + 1)
          ELSE WithResult(r, result)]

HistoryAfterCompletion(step, result) ==
    IF StepReopens(step, result)
      THEN [history EXCEPT ![step] = Append(@, WithResult(records[step], result))]
      ELSE history

(* Once the work of a repeating state is complete without meeting the     *)
(* state's stop condition, all of it is opened again.                     *)
StateIterates(recs) ==
    /\ StateRepeat[currentState] # {}
    /\ StateWorkIsComplete(currentState, recs)
    /\ ~StateRepeatConditionIsSatisfied(currentState, recs)
    /\ \A policy \in StateRepeat[currentState] : stateIteration < policy.max

(* Mutated form: the new iteration keeps the iteration number of the old. *)
RecordsAfterIterationKeepNumber(recs) ==
    [step \in Steps |->
        IF step \in InState(currentState)
          THEN Pending(stateVisit, stateIteration, 1)
          ELSE recs[step]]

RecordsAfterIteration(recs) ==
    [step \in Steps |->
        IF step \in InState(currentState)
          THEN Pending(stateVisit, stateIteration + 1, 1)
          ELSE recs[step]]

(* Mutated form: the finished records of the iteration are not archived.  *)
HistoryAfterIterationForgets(recs, hist) == hist

HistoryAfterIteration(recs, hist) ==
    [step \in Steps |->
        IF step \in InState(currentState)
          THEN Append(hist[step], recs[step])
          ELSE hist[step]]

CompleteStep(fence, result) ==
    LET recs == RecordsAfterCompletion(fence.step, result)
        hist == HistoryAfterCompletion(fence.step, result)
    IN
    /\ result.status = "completed"
    /\ ResultIsAdmitted(fence)
    /\ IF StateIterates(recs)
         THEN /\ records' = RecordsAfterIteration(recs)
              /\ history' = HistoryAfterIteration(recs, hist)
              /\ stateIteration' = stateIteration + 1
         ELSE /\ records' = recs
              /\ history' = hist
              /\ UNCHANGED stateIteration
    /\ stepDeadlines' = [stepDeadlines EXCEPT ![fence.step] = {}]
    /\ Seal(fence, result)
    /\ UNCHANGED <<clock, currentState, stateVisit, transitions, claimVars,
                   retired, lateResults, lifeVars, limitVars, humanVars,
                   otherVars>>

-----------------------------------------------------------------------------
(* Moving: apply_transition.                                              *)

(* The definition's history budgets: moves overall, and moves along this  *)
(* exact edge.                                                            *)
TransitionBudgetAllows(tr) ==
    /\ \A limit \in MaxTransitions : Len(transitions) < limit
    /\ \A limit \in MaxBounces :
          Cardinality({ i \in DOMAIN transitions : transitions[i].edge = tr })
             < limit

(* Mutated form: the steps entered keep the number of the visit left.     *)
RecordsAfterEntryLate(st) ==
    [step \in Steps |-> IF step \in InState(st)
                          THEN Pending(stateVisit, 1, 1)
                          ELSE records[step]]

(* Every step of the state entered starts over at the new visit; work it  *)
(* had executed before is archived.                                       *)
RecordsAfterEntry(st) ==
    [step \in Steps |-> IF step \in InState(st)
                          THEN Pending(stateVisit + 1, 1, 1)
                          ELSE records[step]]

(* Mutated form: entering a state again forgets what it held.             *)
HistoryAfterEntryForgets(st) == history

HistoryAfterEntry(st) ==
    [step \in Steps |-> IF step \in InState(st) /\ records[step].status # "pending"
                          THEN Append(history[step], records[step])
                          ELSE history[step]]

NoOpenIntervention == \A i \in Interventions : interventions[i] # "open"

ApplyTransition(tr, now) ==
    /\ AdmitsNewWork
    /\ ~IsTerminal
    /\ tr.from = currentState
    /\ TransitionBudgetAllows(tr)
    /\ LiveStepsAt(now) = {}
    /\ StateRepeatPermits(tr, stateIteration, records)
    /\ GuardsAreSatisfied(tr, stateIteration, records, approvals)
    /\ tr.to \in TerminalStates => NoOpenIntervention
    /\ stateVisit < MaxVisits
    /\ records' = RecordsAfterEntry(tr.to)
    /\ history' = HistoryAfterEntry(tr.to)
    /\ currentState' = tr.to
    /\ stateVisit' = stateVisit + 1
    /\ stateIteration' = 1
    /\ transitions' = Append(transitions,
          [edge |-> tr, visit |-> stateVisit, iteration |-> stateIteration])
    /\ stateDeadline' = { now + t : t \in StateTimeout }
    /\ completed' = (completed \/ tr.to \in TerminalStates)
    /\ UNCHANGED <<clock, stepDeadlines, claimVars, resultVars, lifecycle,
                   ceremonyDeadline, humanVars, otherVars>>

-----------------------------------------------------------------------------
(* What people decide.  A human guard may be approved before the work that *)
(* leads to it is done; a deferral answers a decision asked for now.       *)
IsHumanGuard(g) == GuardCondition[g].kind = "human_approval"

ApproveGuard(g) ==
    /\ IsActive
    /\ IsHumanGuard(g)
    /\ approvals' = approvals \cup {g}
    /\ UNCHANGED <<clock, positionVars, workVars, claimVars, resultVars,
                   lifeVars, limitVars, deferrals, interventions, otherVars>>

DeferGuard(g) ==
    /\ IsActive
    /\ IsHumanGuard(g)
    /\ g \notin approvals
    /\ \E tr \in Transitions : tr.from = currentState /\ g \in tr.guards
    /\ deferrals' = deferrals \cup {g}
    /\ UNCHANGED <<clock, positionVars, workVars, claimVars, resultVars,
                   lifeVars, limitVars, approvals, interventions, otherVars>>

(* An intervention is asked once and closed by whoever asked it.  The     *)
(* answers it collects in between decide nothing here.                    *)
RequestIntervention(i) ==
    /\ IsActive
    /\ interventions[i] = "absent"
    /\ interventions' = [interventions EXCEPT ![i] = "open"]
    /\ UNCHANGED <<clock, positionVars, workVars, claimVars, resultVars,
                   lifeVars, limitVars, approvals, deferrals, otherVars>>

CloseIntervention(i) ==
    /\ IsActive
    /\ interventions[i] = "open"
    /\ interventions' = [interventions EXCEPT ![i] = "closed"]
    /\ UNCHANGED <<clock, positionVars, workVars, claimVars, resultVars,
                   lifeVars, limitVars, approvals, deferrals, otherVars>>

-----------------------------------------------------------------------------
(* The lifecycle, independent of the definition's states.                 *)

EndWith(reason) ==
    [phase |-> "ended", endReason |-> {reason}, explicit |-> TRUE]

LifecycleChangesTo(value) ==
    /\ lifecycle' = value
    /\ UNCHANGED <<clock, positionVars, workVars, claimVars, resultVars,
                   completed, limitVars, humanVars, otherVars>>

Pause ==
    /\ ~IsEnded
    /\ lifecycle.phase = "running"
    /\ LifecycleChangesTo([phase |-> "paused", endReason |-> lifecycle.endReason,
                           explicit |-> TRUE])

MayResume == ~IsEnded /\ ~IsSuperseded /\ lifecycle.phase = "paused"

Resume ==
    /\ MayResume
    /\ LifecycleChangesTo([phase |-> "running", endReason |-> lifecycle.endReason,
                           explicit |-> TRUE])

(* Mutated form: cancelling is refused only to a cancelled session.       *)
MayCancelEnded == lifecycle.endReason # {"cancelled"}
MayCancel == lifecycle.endReason # {"cancelled"} /\ ~IsEnded

Cancel ==
    /\ MayCancel
    /\ LifecycleChangesTo(EndWith("cancelled"))

-----------------------------------------------------------------------------
(* Enforcing the sealed deadlines.  The earlier of a due ceremony and a   *)
(* due state deadline ends the session; step deadlines that fell due      *)
(* before it retire their claims first.                                   *)
Due(times, now) == { t \in times : t <= now }

TerminalAt(now) == EarliestOf(Due(ceremonyDeadline, now) \cup Due(stateDeadline, now))

DueSteps(now) ==
    { d \in UNION { stepDeadlines[step] : step \in Steps } :
        d.at <= now /\ \A t \in TerminalAt(now) : d.at < t }

DeadlineEndReason(now) ==
    IF /\ Due(ceremonyDeadline, now) # {}
       /\ \A t \in ceremonyDeadline, u \in Due(stateDeadline, now) : t <= u
      THEN "ceremony_deadline" ELSE "state_deadline"

(* Mutated form: a paused session is left alone.                          *)
DeadlinesApplyUnpaused == ~IsEnded /\ ~IsPaused
DeadlinesApply == ~IsEnded

EnforceDeadlines(now) ==
    LET expired == { d.fence.step : d \in DueSteps(now) } IN
    /\ DeadlinesApply
    /\ TerminalAt(now) # {} \/ DueSteps(now) # {}
    /\ records' = [step \in Steps |->
          IF step \in expired THEN WithResult(records[step], TimedOut)
                              ELSE records[step]]
    /\ stepDeadlines' = [step \in Steps |->
          IF step \in expired THEN {} ELSE stepDeadlines[step]]
    /\ retired' = retired \cup DueSteps(now)
    /\ lifecycle' = IF TerminalAt(now) = {} THEN lifecycle
                    ELSE EndWith(DeadlineEndReason(now))
    /\ UNCHANGED <<clock, positionVars, history, claimVars, sealed, lateResults,
                   completed, limitVars, humanVars, otherVars>>

-----------------------------------------------------------------------------
(* Handing over to a successor.  A paused session seals one plan: a       *)
(* disposition for exactly the claims outstanding, and evidence carried   *)
(* from steps it completed, as it completed them.                         *)
OutstandingClaims ==
    UNION { CurrentFence(step) :
              step \in { s \in Steps : records[s].status = "in_progress" } }

SourceRef(step) == [step |-> step, visit |-> records[step].visit,
                    attempt |-> records[step].attempt,
                    output |-> records[step].output]

PlanSuccessor(steps) ==
    /\ ~IsSuperseded
    /\ lifecycle.phase = "paused"
    /\ \A step \in steps : IsSuccess(records[step])
    /\ successorPlan' = {[dispositions |-> OutstandingClaims,
                          carried |-> { SourceRef(step) : step \in steps }]}
    /\ UNCHANGED <<clock, positionVars, workVars, claimVars, resultVars,
                   lifeVars, limitVars, humanVars, leaseRenewals>>

-----------------------------------------------------------------------------
(* Time passes.                                                           *)
Tick ==
    /\ clock < MaxTime
    /\ clock' = clock + 1
    /\ UNCHANGED <<positionVars, workVars, claimVars, resultVars, lifeVars,
                   limitVars, humanVars, otherVars>>

Next ==
    \/ \E step \in Steps, role \in Roles, owner \in Owners, key \in Keys,
          now \in Observed, ceiling \in HostCeilings :
          StartStep(step, role, owner, key, now, ceiling)
    \/ \E fence \in receipts, owner \in Owners, now \in RenewalTimes :
          \E request \in { {} } \cup { {id} : id \in RequestIds } :
             RenewStepLease(fence, owner, request, now)
    \/ \E fence \in receipts, result \in Results :
          \/ CompleteStep(fence, result)
          \/ FailStep(fence, result)
          \/ ObserveLateResult(fence, result)
    \/ \E tr \in Transitions, now \in Observed : ApplyTransition(tr, now)
    \/ \E g \in Guards : ApproveGuard(g) \/ DeferGuard(g)
    \/ \E i \in Interventions : RequestIntervention(i) \/ CloseIntervention(i)
    \/ Pause
    \/ Resume
    \/ Cancel
    \/ \E now \in Observed : EnforceDeadlines(now)
    \/ \E steps \in SUBSET Steps : PlanSuccessor(steps)
    \/ Tick

Spec == Init /\ [][Next]_vars

(* Time passes, and a worker fleet that keeps polling for work enforces   *)
(* the deadlines of every session it looks at before it claims.           *)
Fairness == WF_vars(Tick) /\ WF_vars(EnforceDeadlines(clock))
LiveSpec == Spec /\ Fairness
-----------------------------------------------------------------------------
(***************************************************************************)
(* What a ceremony promises.                                               *)
(***************************************************************************)

(* Every record a step ever had, archived ones first.                     *)
RecordsOf(step) == { history[step][i] : i \in DOMAIN history[step] }
                      \cup { records[step] }

(* Leaving a state, entering it again and repeating it all reset the      *)
(* steps of the state entered, so that the records of the current state   *)
(* always stand at the current visit and state iteration: a result for    *)
(* them can never be counted for a visit or an iteration already over.    *)
RecordsCarryCurrentCoordinates ==
    \A step \in InState(currentState) :
        /\ records[step].visit = stateVisit
        /\ records[step].stateIteration = stateIteration

(* Work is archived under the visit it was done in: a record that is no   *)
(* longer pending, current or archived, names a visit of the state that   *)
(* declares its step, as the sequence of moves tells which state the      *)
(* ceremony was in at each visit; and the moves form one path from the    *)
(* initial state to the current one.                                      *)
StateOfVisit(v) == IF v = 1 THEN InitialState ELSE transitions[v - 1].edge.to

WorkBelongsToItsVisit ==
    /\ stateVisit = Len(transitions) + 1
    /\ StateOfVisit(stateVisit) = currentState
    /\ \A v \in DOMAIN transitions : /\ transitions[v].visit = v
                                     /\ transitions[v].edge.from = StateOfVisit(v)
    /\ \A step \in Steps : \A r \in RecordsOf(step) :
          r.status # "pending" => /\ r.visit \in 1..stateVisit
                                  /\ step \in InState(StateOfVisit(r.visit))

(* At no instant do more steps of a concurrent state run under a live     *)
(* lease than the definition and the widest host allow, although claims   *)
(* are decided with times that may be old and although a renewal prolongs *)
(* leases in between.                                                     *)
CapacityRespected ==
    currentState \in ConcurrentStates =>
        \E ceiling \in HostCeilings :
            Cardinality(LiveStepsAt(clock)) <= EffectiveWith(ceiling)

(* In a sequential state no step is taken or finished before every step   *)
(* declared ahead of it succeeded in the same visit and iteration.        *)
SequentialOrder ==
    currentState \notin ConcurrentStates =>
        LET order == StepsForState[currentState] IN
        \A i \in DOMAIN order : \A j \in 1..(i - 1) :
            records[order[i]].status \in {"in_progress", "completed"} =>
                IsSuccess(records[order[j]])

(* The role that works on a record that is in progress or finished.       *)
WorkingRole(step, r) == IF r.role # {} THEN r.role ELSE { RoleIdForStep[step] }

(* In a concurrent state the steps of one iteration that are in progress  *)
(* or done are worked on by pairwise different roles.                     *)
RoleExclusivity ==
    currentState \in ConcurrentStates =>
        \A s1, s2 \in InState(currentState) :
            /\ s1 # s2
            /\ records[s1].status \in {"in_progress", "completed"}
            /\ records[s2].status \in {"in_progress", "completed"}
            => WorkingRole(s1, records[s1]) \cap WorkingRole(s2, records[s2]) = {}

(* A claim is answered at most once.  Its result is accepted, or its      *)
(* deadline retires it, never both; a late result is observed at most     *)
(* once and never for a claim whose result was accepted.  This is what    *)
(* the fence is for when a lease lapsed, the step was taken over, or the  *)
(* state was entered again while a worker was still busy.                 *)
OneResultPerClaim ==
    /\ \A a, b \in sealed : a.fence = b.fence => a = b
    /\ \A a, b \in lateResults : a.fence = b.fence => a = b
    /\ \A a \in sealed, b \in lateResults : a.fence # b.fence
    /\ \A a \in sealed, d \in retired : a.fence # d.fence

(* The claims are of one attempt; the ids of their starts are then equal. *)
SameAttempt(f, g) ==
    /\ f.step = g.step
    /\ f.visit = g.visit
    /\ f.stateIteration = g.stateIteration
    /\ f.iteration = g.iteration
    /\ f.attempt = g.attempt

(* Two claims of the same attempt of the same execution exist only when   *)
(* the first one stopped to wait for a person: a takeover and a retry     *)
(* always move on to an attempt of their own, so the retry policy counts  *)
(* every claim that was lost.                                             *)
OneClaimPerAttempt ==
    \A f, g \in receipts :
        f # g /\ SameAttempt(f, g) =>
            \E a \in sealed : /\ a.fence \in {f, g}
                              /\ a.result.status = "waiting_for_human"

(* The record r reports exactly the accepted result of the fence f.       *)
Reports(r, f, result) ==
    /\ r.status = result.status
    /\ r.output = result.output
    /\ r.visit = f.visit
    /\ r.stateIteration = f.stateIteration
    /\ r.iteration = f.iteration
    /\ r.attempt = f.attempt

(* No accepted success is ever lost: repeating a step, repeating a state, *)
(* entering a state again and expiring deadlines all leave it readable,   *)
(* with its output and its coordinates, in the step's record or history.  *)
CompletedWorkIsKept ==
    \A a \in sealed :
        a.result.status = "completed" =>
            \E r \in RecordsOf(a.fence.step) : Reports(r, a.fence, a.result)

(* The evidence a sealed succession plan carries stays readable in the    *)
(* session it came from, whatever results and deadlines arrive later.     *)
CarriedEvidenceStands ==
    \A plan \in successorPlan : \A ref \in plan.carried :
        \E r \in RecordsOf(ref.step) :
            /\ IsSuccess(r)
            /\ r.visit = ref.visit
            /\ r.attempt = ref.attempt
            /\ r.output = ref.output

(* A session that named its successor never runs again, and so never      *)
(* hands out another claim.                                               *)
SupersededNeverRuns == IsSuperseded => lifecycle.phase # "running"

(* Once a session reads as ended nothing about it changes but the late    *)
(* results observed for the claims it still held.                         *)
EndedFreezesExecution ==
    [][IsEnded => UNCHANGED <<positionVars, workVars, claimVars, sealed, retired,
                              lifeVars, limitVars, humanVars, otherVars>>]_vars

(* A renewal never shortens what the holder of a claim was promised.      *)
LeaseNeverShortens ==
    [][\A step \in Steps :
          (CurrentFence(step) # {} /\ CurrentFence(step)' = CurrentFence(step)) =>
             \A e \in EffectiveLeaseExpiresAt(records[step]),
                f \in EffectiveLeaseExpiresAt(records[step])' : e <= f]_vars

(* A ceremony with a deadline of its own does not outlive it: it          *)
(* completes or ends, even when it is paused or superseded.               *)
DeadlineEndsCeremony == <>(completed \/ IsEnded)

-----------------------------------------------------------------------------
(***************************************************************************)
(* What the documentation says and the code does not do.                   *)
(***************************************************************************)

(* "Completion is irreversible", and only a nonterminal state can be      *)
(* paused: the lifecycle of a completed session does not change.          *)
CompletionIsIrreversible == [][completed => UNCHANGED lifecycle]_vars

(* "Step expiry retires that attempt and permits a retry": the deadline   *)
(* that falls due is the one of the claim the step holds.                 *)
ExpiryRetiresItsOwnAttempt ==
    [][\A d \in retired' \ retired : CurrentFence(d.fence.step) = {d.fence}]_vars

(* "A retry and a successful repeat are both distinct starts": the fact   *)
(* that a step was started is filed under the step and its attempt, and   *)
(* the store takes an id once, so no two claims may be of one attempt.    *)
StartsAreDistinctFacts ==
    \A f, g \in receipts : f # g => ~SameAttempt(f, g)
=============================================================================
