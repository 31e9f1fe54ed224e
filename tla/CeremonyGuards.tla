--------------------------- MODULE CeremonyGuards ---------------------------
(***************************************************************************)
(* What lets a transition fire: the guards it names and the repetition     *)
(* requirements of the state it leaves, evaluated over the step records    *)
(* `recs' and the set `approved' of human guards already let through.      *)
(*                                                                         *)
(* A guard condition is a record with a field `kind':                      *)
(*   always, human_approval, all_steps_completed, any_step_completed;      *)
(*   steps_completed with a `count';  step_status with `step', `status';   *)
(*   output_field with `step', `condition';  step_repeat_exhausted with a  *)
(*   `step';  state_repeat_exhausted with a `state'.                       *)
(* The children_completed condition belongs to child orchestration, which  *)
(* this module does not cover.                                             *)
(***************************************************************************)
EXTENDS StepExecutionRecord

IsSuccess(r) == r.status = "completed"

(* A repeating step is done only when its stop condition holds as well.   *)
RepeatRequirementIsSatisfied(step, recs) ==
    \A policy \in StepRepeat[step] :
        IsSuccess(recs[step]) /\ policy.until \in recs[step].output

(* The step succeeded on its last permitted iteration and still does not  *)
(* meet its stop condition.                                               *)
StepRepeatIsExhausted(tr, step, recs) ==
    /\ step \in InState(tr.from)
    /\ \E policy \in StepRepeat[step] :
          /\ IsSuccess(recs[step])
          /\ policy.until \notin recs[step].output
          /\ recs[step].iteration >= policy.max

RepeatIsSatisfiedOrWaived(tr, step, recs) ==
    \/ RepeatRequirementIsSatisfied(step, recs)
    \/ \E g \in tr.guards : /\ GuardCondition[g].kind = "step_repeat_exhausted"
                            /\ GuardCondition[g].step = step
                            /\ StepRepeatIsExhausted(tr, step, recs)

(* Every step of the state succeeded and met its own repeat condition.    *)
StateWorkIsComplete(st, recs) ==
    \A step \in InState(st) : /\ IsSuccess(recs[step])
                              /\ RepeatRequirementIsSatisfied(step, recs)

StateRepeatConditionIsSatisfied(st, recs) ==
    \A policy \in StateRepeat[st] : /\ IsSuccess(recs[policy.step])
                                    /\ policy.until \in recs[policy.step].output

StateRepeatLimitReached(st, iteration, recs) ==
    \E policy \in StateRepeat[st] :
        /\ StateWorkIsComplete(st, recs)
        /\ ~StateRepeatConditionIsSatisfied(st, recs)
        /\ iteration >= policy.max

(* Whether the state's repeat lets the transition leave: its work is done *)
(* and its stop condition holds, or it is exhausted and the transition is *)
(* the declared way out of that exhaustion.                               *)
StateRepeatPermits(tr, iteration, recs) ==
    \/ StateRepeat[tr.from] = {}
    \/ /\ StateWorkIsComplete(tr.from, recs)
       /\ StateRepeatConditionIsSatisfied(tr.from, recs)
    \/ /\ StateRepeatLimitReached(tr.from, iteration, recs)
       /\ TransitionRoutesStateRepeatExhaustion(tr)

SucceededIn(st, recs) == { step \in InState(st) : IsSuccess(recs[step]) }

GuardIsSatisfiedForTransition(g, tr, iteration, recs, approved) ==
    LET c == GuardCondition[g] IN
    \/ c.kind = "always"
    \/ c.kind = "human_approval" /\ g \in approved
    \/ /\ c.kind = "all_steps_completed"
       /\ Steps # {}
       /\ \A step \in Steps : /\ IsSuccess(recs[step])
                              /\ RepeatIsSatisfiedOrWaived(tr, step, recs)
    \/ c.kind = "any_step_completed" /\ SucceededIn(tr.from, recs) # {}
    \/ c.kind = "steps_completed" /\ Cardinality(SucceededIn(tr.from, recs)) >= c.count
    \/ /\ c.kind = "step_status"
       /\ recs[c.step].status = c.status
       /\ c.status = "completed" => RepeatIsSatisfiedOrWaived(tr, c.step, recs)
    \/ /\ c.kind = "output_field"
       /\ IsSuccess(recs[c.step])
       /\ c.condition \in recs[c.step].output
    \/ c.kind = "step_repeat_exhausted" /\ StepRepeatIsExhausted(tr, c.step, recs)
    \/ /\ c.kind = "state_repeat_exhausted"
       /\ c.state = tr.from
       /\ StateRepeatLimitReached(tr.from, iteration, recs)

(* guards_are_satisfied: every repeat of the source state reached its     *)
(* stop condition or is waived, and every required guard holds.           *)
GuardsAreSatisfied(tr, iteration, recs, approved) ==
    /\ \A step \in InState(tr.from) : RepeatIsSatisfiedOrWaived(tr, step, recs)
    /\ \A g \in tr.guards :
          GuardIsSatisfiedForTransition(g, tr, iteration, recs, approved)
=============================================================================
