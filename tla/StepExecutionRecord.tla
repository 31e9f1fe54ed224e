------------------------ MODULE StepExecutionRecord ------------------------
(***************************************************************************)
(* What a ceremony remembers of one step: where in the execution the       *)
(* record belongs (state visit, state iteration, step iteration, attempt), *)
(* the lease of the claim in progress, and the last result.                *)
(*                                                                         *)
(* A step output is abstracted to the set of output predicates it          *)
(* satisfies.  The claim fence is a SHA-256 digest in the code; here it is *)
(* the tuple of fields that is digested, which takes the digest to be free *)
(* of collisions.  Budget reservations and execution profiles are not      *)
(* modelled: no decision below reads them.                                 *)
(***************************************************************************)
EXTENDS CeremonyDefinition

CONSTANTS
    Owners,     \* lease owners (hosts, workers)
    Keys,       \* the idempotency keys claims may carry
    LeaseTtl    \* the duration every claim asks for

ASSUME LeaseAssumption == LeaseTtl \in Nat \ {0}

(* The status a step result may leave a record in, and the executable     *)
(* ones: a step is claimed from one of these, or from an expired claim.   *)
ResultStatuses == {"completed", "failed", "waiting_for_human", "cancelled"}
Statuses == ResultStatuses \cup {"pending", "in_progress"}
Executable == {"pending", "failed", "waiting_for_human"}

(* A lease runs from the instant it is acquired for LeaseTtl.             *)
Acquire(owner, key, now) ==
    [owner |-> owner, key |-> key, acquired |-> now, expires |-> now + LeaseTtl]

Leases == [owner : Owners, key : Keys, acquired : Nat, expires : Nat]

Fences == [step : Steps, visit : Nat, stateIteration : Nat,
           iteration : Nat, attempt : Nat, lease : Leases]

Records == [status : Statuses, visit : Nat, stateIteration : Nat,
            iteration : Nat, attempt : Nat, lease : SUBSET Leases,
            renewed : SUBSET Nat, output : SUBSET Conditions,
            role : SUBSET Roles]

-----------------------------------------------------------------------------
(* The pending record of one execution coordinate.                        *)
Pending(visit, stateIteration, iteration) ==
    [status |-> "pending", visit |-> visit, stateIteration |-> stateIteration,
     iteration |-> iteration, attempt |-> 1, lease |-> {}, renewed |-> {},
     output |-> {}, role |-> {}]

(* Mutated form: only a failure moves the attempt on, a takeover does not. *)
NextStartAttemptKeepsTakeover(r) ==
    IF r.status = "failed" THEN r.attempt + 1 ELSE r.attempt

(* The attempt a new claim would start: a failed record, or one whose     *)
(* expired claim is taken over, moves on to the next attempt.             *)
NextStartAttempt(r) ==
    IF r.status \in {"failed", "in_progress"} THEN r.attempt + 1 ELSE r.attempt

(* The instant the current lease lapses, a renewal taking precedence.     *)
EffectiveLeaseExpiresAt(r) ==
    IF r.renewed # {} THEN r.renewed ELSE { l.expires : l \in r.lease }

CanBeStartedAt(r, now) ==
    \/ r.status \in Executable
    \/ /\ r.status = "in_progress"
       /\ \E e \in EffectiveLeaseExpiresAt(r) : now >= e

HasLiveLeaseAt(r, now) ==
    /\ r.status = "in_progress"
    /\ \E e \in EffectiveLeaseExpiresAt(r) : now < e

WithStarted(r, lease, attempt, role) ==
    [r EXCEPT !.status = "in_progress", !.attempt = attempt,
              !.lease = {lease}, !.renewed = {}, !.role = role]

WithResult(r, result) ==
    [r EXCEPT !.status = result.status, !.lease = {}, !.renewed = {},
              !.output = result.output]

(* The fence of the claim a record holds; {} when it holds no lease.      *)
StepClaimFence(step, r) ==
    { [step |-> step, visit |-> r.visit, stateIteration |-> r.stateIteration,
       iteration |-> r.iteration, attempt |-> r.attempt, lease |-> l]
        : l \in r.lease }
=============================================================================
