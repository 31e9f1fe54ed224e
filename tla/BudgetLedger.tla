--------------------------- MODULE BudgetLedger ---------------------------
(***************************************************************************)
(* The budget ledger of one account: what is reserved, what was measured,  *)
(* what is charged against the limits and when a further reservation fits. *)
(*                                                                         *)
(* An amount is reserved before work is admitted and reconciled with what  *)
(* was measured afterwards.  A measurement is observed, estimated or       *)
(* unknown for each dimension; it may be replaced by a better one, never   *)
(* by a worse one, and what stays unknown is charged as reserved.          *)
(*                                                                         *)
(* A reservation id is the digest of account and operation: the operation  *)
(* itself stands for it.                                                   *)
(***************************************************************************)
EXTENDS Naturals, FiniteSetsExt

CONSTANTS
    Dimensions,    \* duration, tokens, cost, tool calls: all treated alike
    Operations,    \* the operations that may be reserved
    MaxAmount,     \* u64::MAX
    Receipts       \* the ids a reconciliation may carry

ASSUME AmountAssumption == MaxAmount \in Nat

Amounts    == 0..MaxAmount
Quantities == [Dimensions -> Amounts]

(* BudgetMeasurement and its quality: unknown, estimated, observed.       *)
Unknown      == [quality |-> 0, amount |-> 0]
Measurements == {Unknown} \cup [quality : 1..2, amount : Amounts]
Measured     == [Dimensions -> Measurements]

(* A dimension without a limit is held to the largest amount.             *)
NoLimit == [limited |-> FALSE, amount |-> MaxAmount]
Limits  == [Dimensions -> {NoLimit} \cup [limited : {TRUE}, amount : Amounts]]

Reservations == [estimate : Measured,
                 reconciled : SUBSET [id : Receipts, measured : Measured]]
Ledgers == [limits : SUBSET Limits, version : Nat,
            held : [Operations -> SUBSET Reservations]]

Empty == [limits |-> {}, version |-> 0, held |-> [o \in Operations |-> {}]]

LimitsOf(ledger) == CHOOSE l \in ledger.limits : TRUE
Held(ledger, o)  == CHOOSE r \in ledger.held[o] : TRUE

-----------------------------------------------------------------------------
(* BudgetReservationEstimate::quantities: an unknown amount asks for      *)
(* nothing, and is refused in a dimension that has a limit.               *)
Requested(estimate, d) == estimate[d].amount
Estimable(ledger, estimate) ==
    \A d \in Dimensions : LimitsOf(ledger)[d].limited => estimate[d] # Unknown

(* classify: a reservation charges what it asked for until it is measured,*)
(* and goes on doing so in the dimensions that stay unknown.              *)
Charge(reservation, d) ==
    IF \E m \in reservation.reconciled : m.measured[d] # Unknown
      THEN (CHOOSE m \in reservation.reconciled : TRUE).measured[d].amount
      ELSE Requested(reservation.estimate, d)

Charged(ledger, d) ==
    FoldSet(LAMBDA o, sum : sum + Charge(Held(ledger, o), d), 0,
            { o \in Operations : ledger.held[o] # {} })

(* Mutated form: what is reserved but not yet measured is left out.       *)
EnsureCapacityOfMeasured(ledger, estimate) ==
    \A d \in Dimensions :
        FoldSet(LAMBDA o, sum : sum + Charge(Held(ledger, o), d), 0,
                { o \in Operations : \E r \in ledger.held[o] : r.reconciled # {} })
          + Requested(estimate, d) <= LimitsOf(ledger)[d].amount

(* balance and ensure_capacity: the totals must not overflow, no dimension*)
(* may be overrun already, and what is asked for must be available.  No   *)
(* limit lies above MaxAmount, so a total that overflows is refused too.  *)
EnsureCapacity(ledger, estimate) ==
    \A d \in Dimensions :
        Charged(ledger, d) + Requested(estimate, d) <= LimitsOf(ledger)[d].amount

-----------------------------------------------------------------------------
(* What a decision comes to: an event to append, nothing since it is      *)
(* recorded already, or a refusal.                                        *)

DecideOpen(ledger, limits) ==
    IF ledger.limits = {} THEN "event"
    ELSE IF ledger.limits = {limits} THEN "existing" ELSE "refused"

DecideReserve(ledger, o, estimate) ==
    IF ledger.limits = {} \/ ~Estimable(ledger, estimate) THEN "refused"
    ELSE IF ledger.held[o] # {}
      THEN IF Held(ledger, o).estimate = estimate THEN "existing" ELSE "refused"
    ELSE IF EnsureCapacity(ledger, estimate) THEN "event" ELSE "refused"

(* MeasuredBudgetQuantities::advances: nowhere worse and somewhere better.*)
Advances(new, old) ==
    /\ \A d \in Dimensions : new[d].quality >= old[d].quality
    /\ \E d \in Dimensions : new[d].quality > old[d].quality

DecideReconcile(ledger, o, id, measured) ==
    IF ledger.limits = {} \/ ledger.held[o] = {} THEN "refused"
    ELSE IF \E m \in Held(ledger, o).reconciled : m.id # id THEN "refused"
    ELSE IF [id |-> id, measured |-> measured] \in Held(ledger, o).reconciled THEN "existing"
    ELSE IF \A m \in Held(ledger, o).reconciled : Advances(measured, m.measured)
      THEN "event" ELSE "refused"

-----------------------------------------------------------------------------
(* apply, which the store runs again on what it is about to keep; it      *)
(* repeats the checks of the decision.                                    *)

Opened(ledger, limits) ==
    [ledger EXCEPT !.limits = {limits}, !.version = @ + 1]

Reserved(ledger, o, estimate) ==
    [ledger EXCEPT !.held[o] = {[estimate |-> estimate, reconciled |-> {}]},
                   !.version = @ + 1]

Reconciled(ledger, o, id, measured) ==
    [ledger EXCEPT !.held[o] = {[estimate |-> Held(ledger, o).estimate,
                                 reconciled |-> {[id |-> id, measured |-> measured]}]},
                   !.version = @ + 1]
=============================================================================
