------------------------- MODULE ExecutionReceipts -------------------------
(***************************************************************************)
(* The execution of one operation with an outside effect by workers that   *)
(* claim its step.  The intent is made durable before the effect, what was *)
(* observed is made durable as a receipt before the result is applied, and *)
(* another claim, or a recovery pass, picks up what a crash left behind.   *)
(*                                                                         *)
(* An operation is a step execution: attempts and claims do not change its *)
(* identity.  A claim is known by its fence; fences are numbered in the    *)
(* order of the claims.  The connector is one of three kinds:              *)
(*   idempotent  settles an operation once, and answers it again           *)
(*   queryable   admits an operation once, and looks up what it wrote      *)
(*   reconcile   runs whatever it is given, and cannot be asked            *)
(* Where an effect is in doubt, an operator declares what happened.  A     *)
(* host may apply or adopt the receipt itself, and may answer a claim with *)
(* a result of its own and no receipt at all.                              *)
(***************************************************************************)
EXTENDS Naturals, Sequences

CONSTANTS
    Workers,
    MaxClaims,     \* the attempts the step's retry policy allows
    HostAnswers    \* bound: the results hosts bring by themselves, by claim

ASSUME ReceiptsAssumption ==
    /\ MaxClaims \in Nat \ {0}
    /\ HostAnswers \subseteq [fence : 1..MaxClaims, result : {"completed", "failed"}]

VARIABLES
    capability,    \* ExecutionRecoveryCapability of the connector; never changes
    step,          \* the step's record: status, claim, lapsed, retired claims
    intents,       \* the fences with a recorded intent, in order
    requirements,  \* the fences whose effect is recorded as in doubt
    receipt,       \* {} or the one receipt
    links,         \* the receipt links of the ceremony
    late,          \* the results noted as late, by retired fence
    effect,        \* the outside world
    worker         \* what each worker is about to do

storeVars == <<capability, intents, requirements, receipt>>
ceremonyVars == <<step, links, late>>
vars == <<storeVars, ceremonyVars, effect, worker>>

Capabilities == {"idempotent", "queryable", "reconcile"}
Fences   == 1..MaxClaims
Outcomes == {"completed", "failed"}
Receipts == [producer : Fences, result : Outcomes, by : {"worker", "operator"}]
Links    == [applied : Fences, producer : Fences, kind : {"direct", "adopted"}]
Lates    == [fence : Fences, result : Outcomes]
Phases   == {"idle", "check", "intend", "admit", "mark", "call", "await",
             "inspect", "recover", "record", "complete"}

TypeOK ==
    /\ capability \in Capabilities
    /\ step \in [status : {"pending", "running"} \cup Outcomes, claim : 0..MaxClaims,
                 lapsed : BOOLEAN, retired : SUBSET Fences]
    /\ intents \in Seq(Fences)
    /\ requirements \subseteq { intents[i] : i \in DOMAIN intents }
    /\ receipt \subseteq Receipts
    /\ links \subseteq Links
    /\ late \subseteq Lates
    /\ effect \in [status : {"none", "begun", "killed", "finished"}, times : Nat,
                   producer : 0..MaxClaims, result : Outcomes]
    /\ worker \in [Workers -> [phase : Phases, fence : 0..MaxClaims, intent : 0..MaxClaims,
                               mode : {"claim", "recovery"},
                               recorded : {"none", "first", "additional", "already"},
                               doubt : SUBSET Fences, seen : SUBSET Receipts]]

Idle == [phase |-> "idle", fence |-> 0, intent |-> 0, mode |-> "claim",
         recorded |-> "none", doubt |-> {}, seen |-> {}]

Init ==
    /\ capability \in Capabilities
    /\ step = [status |-> "pending", claim |-> 0, lapsed |-> FALSE, retired |-> {}]
    /\ intents = <<>>
    /\ requirements = {}
    /\ receipt = {}
    /\ links = {}
    /\ late = {}
    /\ effect = [status |-> "none", times |-> 0, producer |-> 0, result |-> "failed"]
    /\ worker = [w \in Workers |-> Idle]

Intended == { intents[i] : i \in DOMAIN intents }
Becomes(w, value) == worker' = [worker EXCEPT ![w] = value]
Goes(w, phase) == Becomes(w, [worker[w] EXCEPT !.phase = phase])
Completing(w) ==
    [Idle EXCEPT !.phase = "complete", !.mode = worker[w].mode, !.fence = worker[w].fence]

-----------------------------------------------------------------------------
(* The step: claimed, lost by lapse or deadline.                          *)

Claim(w) ==
    /\ worker[w].phase = "idle"
    /\ \/ step.status \in {"pending", "failed"}
       \/ step.status = "running" /\ step.lapsed
    /\ step.claim < MaxClaims
    /\ step' = [step EXCEPT !.status = "running", !.claim = @ + 1, !.lapsed = FALSE]
    /\ Becomes(w, [Idle EXCEPT !.phase = "check", !.fence = step.claim + 1])
    /\ UNCHANGED <<storeVars, links, late, effect>>

(* A worker restarted under the same owner is given the same claim again. *)
Resume(w) ==
    /\ worker[w].phase = "idle"
    /\ step.status = "running"
    /\ ~step.lapsed
    /\ Becomes(w, [Idle EXCEPT !.phase = "check", !.fence = step.claim])
    /\ UNCHANGED <<storeVars, ceremonyVars, effect>>

Lapse ==
    /\ step.status = "running"
    /\ ~step.lapsed
    /\ step' = [step EXCEPT !.lapsed = TRUE]
    /\ UNCHANGED <<storeVars, links, late, effect, worker>>

(* The step's deadline retires the attempt and permits another one.       *)
ExpireDeadline ==
    /\ step.status = "running"
    /\ step' = [step EXCEPT !.status = "failed", !.lapsed = FALSE, !.retired = @ \cup {step.claim}]
    /\ UNCHANGED <<storeVars, links, late, effect, worker>>

-----------------------------------------------------------------------------
(* execute_cancellable, up to the connector.                              *)

(* An operation with a receipt is answered by it.  A connector that cannot*)
(* be asked is not called for an operation somebody else may have begun.  *)
CheckPrior(w) ==
    /\ worker[w].phase = "check"
    /\ Becomes(w,
          IF receipt # {} THEN [worker[w] EXCEPT !.phase = "complete"]
          ELSE IF worker[w].fence \notin Intended /\ Intended # {}
                    /\ capability = "reconcile"
            THEN [Idle EXCEPT !.phase = "mark", !.doubt = Intended]
          ELSE [worker[w] EXCEPT !.phase = "intend"])
    /\ UNCHANGED <<storeVars, ceremonyVars, effect>>

RecordIntent(w) ==
    /\ worker[w].phase = "intend"
    /\ intents' = IF worker[w].fence \in Intended THEN intents
                  ELSE Append(intents, worker[w].fence)
    /\ Becomes(w, [worker[w] EXCEPT !.phase = "admit", !.intent = worker[w].fence,
          !.recorded = IF worker[w].fence \in Intended THEN "already"
                       ELSE IF Intended = {} THEN "first" ELSE "additional"])
    /\ UNCHANGED <<capability, requirements, receipt, ceremonyVars, effect>>

(* Mutated form: only a repeated intent is in doubt.                      *)
InDoubtWhenRepeated(w) ==
    worker[w].recorded = "already" /\ capability = "reconcile"

(* A connector that cannot be asked runs for the first intent only.       *)
InDoubt(w) ==
    worker[w].recorded # "first" /\ capability = "reconcile"

(* record_retry_ambiguity: in doubt is this intent when it was there      *)
(* before, and every other one when it was not.                           *)
Doubtful(w) ==
    IF worker[w].recorded = "already" THEN {worker[w].fence}
    ELSE Intended \ {worker[w].fence}

Admit(w) ==
    /\ worker[w].phase = "admit"
    /\ Becomes(w,
          IF receipt # {} THEN Completing(w)
          ELSE IF worker[w].fence \in requirements THEN Idle
          ELSE IF InDoubt(w)
            THEN [Idle EXCEPT !.phase = "mark", !.doubt = Doubtful(w)]
          ELSE [worker[w] EXCEPT !.phase = "call", !.recorded = "none"])
    /\ UNCHANGED <<storeVars, ceremonyVars, effect>>

MarkDoubt(w) ==
    /\ worker[w].phase = "mark"
    /\ requirements' = requirements \cup worker[w].doubt
    /\ Becomes(w, Idle)
    /\ UNCHANGED <<capability, intents, receipt, ceremonyVars, effect>>

-----------------------------------------------------------------------------
(* The connectors.                                                        *)

Observe(w, producer, result) ==
    Becomes(w, [Completing(w) EXCEPT !.phase = "record",
        !.seen = {[producer |-> producer, result |-> result, by |-> "worker"]}])

(* What the connector answers when it cannot tell what happened.          *)
Unresolved(w) ==
    Becomes(w, [Idle EXCEPT !.phase = "mark", !.doubt = {worker[w].intent}])

Ran(producer, result, status) ==
    effect' = [status |-> status, times |-> effect.times + 1,
               producer |-> producer, result |-> result]

(* CeremonyStepHandlerConnector: the handler runs, and may fail.          *)
RunHandler(w, result) ==
    /\ capability = "reconcile"
    /\ worker[w].phase = "call"
    /\ Ran(worker[w].intent, result, "finished")
    /\ \/ Observe(w, worker[w].intent, result)
       \/ Becomes(w, Idle)
    /\ UNCHANGED <<storeVars, ceremonyVars>>

(* DurableFixtureExecutionConnector: settled by whoever comes first.      *)
Settle(w, result) ==
    /\ capability = "idempotent"
    /\ worker[w].phase \in {"call", "recover"}
    /\ \/ /\ effect.status = "none"
          /\ Ran(worker[w].intent, result, "finished")
          /\ Observe(w, worker[w].intent, result)
       \/ /\ effect.status = "finished"
          /\ result = effect.result
          /\ Observe(w, effect.producer, effect.result)
          /\ UNCHANGED effect
    /\ UNCHANGED <<storeVars, ceremonyVars>>

(* RepositoryScriptExecutionConnector: a marker admits the operation once.*)
Admitted == effect.status = "none"

StartScript(w) ==
    /\ capability = "queryable"
    /\ worker[w].phase = "call"
    /\ Admitted
    /\ Ran(worker[w].intent, effect.result, "begun")
    /\ Goes(w, "await")
    /\ UNCHANGED <<storeVars, ceremonyVars>>

(* The script writes its result, also when nobody waits for it any more.  *)
ScriptWrites(result) ==
    /\ effect.status = "begun"
    /\ effect' = [effect EXCEPT !.status = "finished", !.result = result]
    /\ UNCHANGED <<storeVars, ceremonyVars, worker>>

(* The time is up: the script is killed.                                  *)
KillScript(w) ==
    /\ worker[w].phase = "await"
    /\ effect.status = "begun"
    /\ effect' = [effect EXCEPT !.status = "killed"]
    /\ UNCHANGED <<storeVars, ceremonyVars, worker>>

(* The script ends with an error, whether it wrote a result or not.       *)
FailScript(w) ==
    /\ worker[w].phase = "await"
    /\ effect.status \in {"begun", "finished"}
    /\ effect' = [effect EXCEPT !.status = IF @ = "begun" THEN "killed" ELSE @]
    /\ Unresolved(w)
    /\ UNCHANGED <<storeVars, ceremonyVars>>

Query(w) ==
    /\ capability = "queryable"
    /\ \/ worker[w].phase = "call" /\ ~Admitted
       \/ worker[w].phase = "await" /\ effect.status # "begun"
       \/ worker[w].phase = "recover"
    /\ IF effect.status = "finished"
         THEN Observe(w, effect.producer, effect.result)
         ELSE Unresolved(w)
    /\ UNCHANGED <<storeVars, ceremonyVars, effect>>

-----------------------------------------------------------------------------
(* Mutated form: the last receipt stays.                                  *)
KeptReceiptLast(new) == {new}
(* record_receipt: the first receipt stays; a different one is refused.   *)
KeptReceipt(new) == IF receipt = {} THEN {new} ELSE receipt

RecordReceipt(w) ==
    /\ worker[w].phase = "record"
    /\ \E r \in worker[w].seen :
          /\ receipt' = KeptReceipt(r)
          /\ Becomes(w, IF receipt' = {r} THEN Completing(w) ELSE Idle)
    /\ UNCHANGED <<capability, intents, requirements, ceremonyVars, effect>>

(* ReconcileExecutionOperationUseCase: an operator declares the outcome of*)
(* an intent whose effect is in doubt.                                    *)
Reconcile(fence, result) ==
    /\ fence \in requirements
    /\ receipt = {}
    /\ receipt' = {[producer |-> fence, result |-> result, by |-> "operator"]}
    /\ UNCHANGED <<capability, intents, requirements, ceremonyVars, effect, worker>>

-----------------------------------------------------------------------------
(* CompleteExecutionReceiptUseCase.                                       *)

LinkOf(fence, r) ==
    [applied |-> fence, producer |-> r.producer,
     kind |-> IF r.producer = fence THEN "direct" ELSE "adopted"]

(* A receipt of another claim may be adopted unless its connector cannot  *)
(* be asked; a direct link is made once.                                  *)
LinkIsNew(link) ==
    /\ link \notin links
    /\ link.kind = "direct" => links = {}
    /\ link.kind = "adopted" => capability # "reconcile"

(* Mutated form: the claim is not looked at.                              *)
FenceHoldsUnchecked(fence) == TRUE
FenceHolds(fence) == step.status = "running" /\ step.claim = fence

(* decide_apply_step_result: the result moves the step of the claim it is *)
(* for, or is noted as late when a deadline retired that claim; a         *)
(* different late result of the same claim is refused.                    *)
Admissible(fence, result) ==
    IF fence \in step.retired
      THEN \A l \in late : l.fence = fence => l.result = result
      ELSE FenceHolds(fence)

Lands(fence, result) ==
    \/ /\ fence \in step.retired
       /\ late' = late \cup {[fence |-> fence, result |-> result]}
       /\ UNCHANGED step
    \/ /\ fence \notin step.retired
       /\ step' = [step EXCEPT !.status = result, !.lapsed = FALSE]
       /\ UNCHANGED late

(* The link and the result land together, or nothing does.                *)
Applicable(link, r) == LinkIsNew(link) /\ Admissible(link.applied, r.result)

Apply(link, r) ==
    /\ Applicable(link, r)
    /\ Lands(link.applied, r.result)
    /\ links' = links \cup {link}

(* A claim asks for a direct link, a recovery pass for whichever it is.   *)
Expects(w, link) == worker[w].mode = "claim" => link.kind = "direct"

Complete(w) ==
    /\ worker[w].phase = "complete"
    /\ \E r \in receipt : LET link == LinkOf(worker[w].fence, r) IN
          \/ Expects(w, link) /\ Apply(link, r)
          \/ ~(Expects(w, link) /\ Applicable(link, r)) /\ UNCHANGED ceremonyVars
    /\ Becomes(w, Idle)
    /\ UNCHANGED <<storeVars, effect>>

(* complete_execution_receipt and adopt_execution_receipt: a host applies *)
(* the receipt to a claim it names, as direct or as adopted.              *)
HostApplies(fence, kind) ==
    /\ \E r \in receipt :
          LinkOf(fence, r).kind = kind /\ Apply(LinkOf(fence, r), r)
    /\ UNCHANGED <<storeVars, effect, worker>>

(* complete_step: a host answers a claim with a result of its own.        *)
CompleteStep(fence, result) ==
    /\ Admissible(fence, result)
    /\ Lands(fence, result)
    /\ UNCHANGED <<storeVars, links, effect, worker>>

-----------------------------------------------------------------------------
(* The recovery pass.  Operations no link names yet are looked at; the    *)
(* step's claim is read afterwards, and the world does not wait between   *)
(* the two.                                                               *)

(* Mutated form: only operations that have a receipt are looked at.       *)
RecoverableWithReceipt == receipt # {} /\ links = {}
Recoverable == Intended # {} /\ links = {}

Inspect(w) ==
    /\ worker[w].phase = "idle"
    /\ Recoverable
    /\ Becomes(w, [Idle EXCEPT !.phase = "inspect", !.mode = "recovery"])
    /\ UNCHANGED <<storeVars, ceremonyVars, effect>>

(* The intents were read before the claim, whose own may have come too    *)
(* late to be among them: then the first one is taken up.                 *)
RecoveryIntents == {Head(intents)} \cup ({step.claim} \cap Intended)

(* A step that is not being worked on has no claim to recover under.      *)
Recover(w) ==
    /\ worker[w].phase = "inspect"
    /\ \E intent \in RecoveryIntents :
          Becomes(w,
            IF step.status # "running" THEN Idle
            ELSE IF receipt # {}
              THEN [Idle EXCEPT !.mode = "recovery", !.phase = "complete", !.fence = step.claim]
            ELSE IF intent \in requirements THEN Idle
            ELSE IF capability = "reconcile"
              THEN [Idle EXCEPT !.phase = "mark", !.doubt = {intent}]
            ELSE [Idle EXCEPT !.mode = "recovery", !.phase = "recover",
                              !.fence = step.claim, !.intent = intent])
    /\ UNCHANGED <<storeVars, ceremonyVars, effect>>

(* A store fails or the process ends, and the worker is started again.    *)
Crash(w) ==
    /\ worker[w].phase # "idle"
    /\ Becomes(w, Idle)
    /\ UNCHANGED <<storeVars, ceremonyVars, effect>>

WorkerStep(w) ==
    \/ CheckPrior(w) \/ RecordIntent(w) \/ Admit(w) \/ MarkDoubt(w)
    \/ StartScript(w) \/ KillScript(w) \/ FailScript(w) \/ Query(w)
    \/ RecordReceipt(w) \/ Complete(w)
    \/ Recover(w)
    \/ \E result \in Outcomes : RunHandler(w, result) \/ Settle(w, result)

Next ==
    \/ \E w \in Workers :
          Claim(w) \/ Resume(w) \/ Inspect(w) \/ WorkerStep(w) \/ Crash(w)
    \/ \E result \in Outcomes :
          \/ ScriptWrites(result)
          \/ \E fence \in requirements : Reconcile(fence, result)
    \/ \E answer \in HostAnswers : CompleteStep(answer.fence, answer.result)
    \/ \E fence \in Fences, kind \in {"direct", "adopted"} : HostApplies(fence, kind)
    \/ Lapse
    \/ ExpireDeadline

Spec == Init /\ [][Next]_vars

(* Workers go on with what they began, recovery passes come round and the *)
(* script of a connector ends, by itself or by its timeout.               *)
LiveSpec ==
    /\ Spec
    /\ \A w \in Workers : WF_vars(WorkerStep(w)) /\ WF_vars(Inspect(w))
-----------------------------------------------------------------------------
(* Whatever the crashes, lapsed leases, repeated claims and recovery      *)
(* passes, the outside effect happens at most once: an effect that cannot *)
(* be asked about is never replayed blindly.                              *)
EffectOnce == effect.times <= 1

(* Everything the ceremony was told about the operation by its receipt    *)
(* agrees with the one receipt: the links name its producer, and a step   *)
(* still under the claim the receipt was applied to has its result, also  *)
(* when an operator declared the outcome while the effect was under way.  *)
NotedLate(fence) == \E l \in late : l.fence = fence
OneOutcome ==
    \A l \in links :
        \E r \in receipt :
            /\ l.producer = r.producer
            /\ l.applied = step.claim /\ ~NotedLate(l.applied) => step.status = r.result

(* A receipt of a success moves the step at most once, whoever applies    *)
(* it: the claim that produced it, a later claim, recovery passes that    *)
(* looked before any of them had, and hosts.  Any other link is a result  *)
(* noted as late for an attempt that its deadline had retired.            *)
AppliedOnce ==
    \A l, m \in links :
        l # m /\ ~NotedLate(l.applied) /\ ~NotedLate(m.applied)
            => \A r \in receipt : r.result = "failed"

(* Once the crashes are over, an operation whose step is being worked on  *)
(* is answered: a receipt, or the record that its effect is in doubt.     *)
Calm == <>[][\A w \in Workers : Crash(w) => WorkerStep(w)]_vars
EventuallyAnswered ==
    Calm => (Intended # {} /\ step.status = "running"
               ~> receipt # {} \/ requirements # {} \/ step.status # "running")

-----------------------------------------------------------------------------
(* What the documents say of receipts and the code does not keep. *)

(* An effect is in doubt only if the connector was given it.              *)
DoubtFollowsAttempt == requirements # {} => effect.times > 0

(* The receipt of a failure, too, moves the step once.  A recovery pass   *)
(* that saw no link, or a host, may fail the next claim with it as well.  *)
FailureAppliedOnce ==
    \A l, m \in links : ~NotedLate(l.applied) /\ ~NotedLate(m.applied) => l = m

(* The receipt of an operation can be applied by the claim its step is    *)
(* under now, by that claim itself or by a recovery pass.                 *)
ReceiptAnswersTheClaim ==
    \A r \in receipt : step.status = "running" =>
        \/ LinkIsNew(LinkOf(step.claim, r)) /\ r.producer = step.claim
        \/ LinkIsNew(LinkOf(step.claim, r)) /\ links = {}
=============================================================================
