-------------------------- MODULE BudgetAdmission --------------------------
(***************************************************************************)
(* Work is admitted against a budget: a claimant reserves in the ledger,   *)
(* then starts the step in the session; a finisher reconciles the ledger   *)
(* with what its receipt measured, then applies the result to the session. *)
(* Ledger and session are separate streams, each guarded by its own        *)
(* version, and nothing spans them: between the two appends the step may   *)
(* be taken, finished or repeated by others, and the process may end.  A   *)
(* host may also answer a claim itself, and then nothing is reconciled.    *)
(*                                                                         *)
(* The session is what AtomicSession promises of SessionStream: a decision *)
(* taken on the current state.  Of each step it keeps the iteration, the   *)
(* status and the reservation its last claim names, and of receipts the    *)
(* links of those applied; <<step, iteration>> is the execution's identity.*)
(***************************************************************************)
EXTENDS BudgetLedger, Sequences

CONSTANTS
    Clients,       \* processes that start ceremonies, claim and finish work
    Steps,
    MaxIteration,  \* bound: how often a step is executed
    MaxRetries,    \* MAX_CONFLICT_RETRIES
    LimitChoices,  \* the limits a start may ask for
    Estimates,     \* the estimates a claimant may reserve
    MeasureChoices,\* what may have been measured
    ReceiptChoices,\* the receipts an execution may end with
    OwnReceipt     \* the id of an operation's execution receipt

Outcomes == {"completed", "failed"}

ASSUME AdmissionAssumption ==
    /\ MaxIteration \in Nat \ {0}
    /\ MaxRetries \in Nat \ {0}
    /\ Operations = Steps \X (1..MaxIteration)
    /\ LimitChoices \subseteq Limits
    /\ Estimates \subseteq Measured
    /\ MeasureChoices \subseteq Measured
    /\ ReceiptChoices \subseteq [measured : MeasureChoices, result : Outcomes]
    /\ OwnReceipt \in Receipts

VARIABLES
    ledger,        \* the ledger as its store keeps it
    session,       \* whether it is open, the work of each step, receipt links
    receipts,      \* the receipt of each operation, {} for none
    client

vars == <<ledger, session, receipts, client>>

NoEvent == [kind |-> "none"]
Events == {NoEvent}
    \cup [kind : {"reserve"}, estimate : Estimates]
    \cup [kind : {"finish", "meter"}, id : Receipts, measured : MeasureChoices]

Works == [iteration : 1..MaxIteration, status : {"pending", "running"} \cup Outcomes,
          lapsed : BOOLEAN, claim : SUBSET Operations]

TypeOK ==
    /\ ledger \in Ledgers
    /\ session \in [open : BOOLEAN, work : [Steps -> Works], links : SUBSET Operations]
    /\ receipts \in [Operations -> SUBSET ReceiptChoices]
    /\ client \in [Clients -> [phase : {"idle", "start", "load", "append", "claim", "apply"},
                               op : SUBSET Operations, event : Events,
                               version : Nat, left : 0..MaxRetries]]
    /\ \A c \in Clients : client[c].phase \in {"load", "append"} => client[c].left > 0
    /\ \A c \in Clients : client[c].phase \in {"load", "append", "claim", "apply"} =>
          \E o \in Operations : client[c].op = {o}

Idle == [phase |-> "idle", op |-> {}, event |-> NoEvent, version |-> 0, left |-> 0]
Fresh == [iteration |-> 1, status |-> "pending", lapsed |-> FALSE, claim |-> {}]

Init ==
    /\ ledger = Empty
    /\ receipts = [o \in Operations |-> {}]
    /\ session = [open |-> FALSE, work |-> [s \in Steps |-> Fresh], links |-> {}]
    /\ client = [c \in Clients |-> Idle]

Becomes(c, value) == client' = [client EXCEPT ![c] = value]
Op(c) == CHOOSE o \in client[c].op : TRUE
Current(s) == <<s, session.work[s].iteration>>

-----------------------------------------------------------------------------
(* StartBudgetedCeremonyUseCase: the ledger is opened before the session. *)
OpenLedger(c, limits) ==
    /\ client[c].phase = "idle"
    /\ ~session.open
    /\ DecideOpen(ledger, limits) \in {"event", "existing"}
    /\ ledger' = IF DecideOpen(ledger, limits) = "event" THEN Opened(ledger, limits)
                                                         ELSE ledger
    /\ Becomes(c, [Idle EXCEPT !.phase = "start"])
    /\ UNCHANGED <<session, receipts>>

OpenSession(c) ==
    /\ client[c].phase = "start"
    /\ session' = [session EXCEPT !.open = TRUE]
    /\ Becomes(c, Idle)
    /\ UNCHANGED <<ledger, receipts>>

-----------------------------------------------------------------------------
(* BudgetedStepClaimUseCase: the identity is taken from the session as it *)
(* is now; whether the step can be claimed is not looked at yet.          *)
BeginClaim(c, s, estimate) ==
    /\ client[c].phase = "idle"
    /\ session.open
    /\ Becomes(c, [phase |-> "load", op |-> {Current(s)}, version |-> 0, left |-> MaxRetries,
                   event |-> [kind |-> "reserve", estimate |-> estimate]])
    /\ UNCHANGED <<ledger, session, receipts>>

(* CompleteExecutionReceiptUseCase: the one receipt of the execution whose*)
(* reservation the step's record carries, also when the claim has ended.  *)
BeginFinish(c, s, receipt) ==
    /\ client[c].phase = "idle"
    /\ Current(s) \in session.work[s].claim
    /\ receipts[Current(s)] \subseteq {receipt}
    /\ receipts' = [receipts EXCEPT ![Current(s)] = {receipt}]
    /\ Becomes(c, [phase |-> "load", op |-> {Current(s)}, version |-> 0, left |-> MaxRetries,
                   event |-> [kind |-> "finish", id |-> OwnReceipt, measured |-> receipt.measured]])
    /\ UNCHANGED <<ledger, session>>

(* BudgetLedgerService::reconcile, asked for directly by a meter.         *)
BeginMeter(c, o, id, measured) ==
    /\ client[c].phase = "idle"
    /\ ledger.held[o] # {}
    /\ Becomes(c, [phase |-> "load", op |-> {o}, version |-> 0, left |-> MaxRetries,
                   event |-> [kind |-> "meter", id |-> id, measured |-> measured]])
    /\ UNCHANGED <<ledger, session, receipts>>

Decide(c) == LET e == client[c].event IN
    IF e.kind = "reserve" THEN DecideReserve(ledger, Op(c), e.estimate)
                          ELSE DecideReconcile(ledger, Op(c), e.id, e.measured)

(* The ledger has it: what is left to do in the session.                  *)
Onward(c) == CASE client[c].event.kind = "reserve" -> [Idle EXCEPT !.phase = "claim", !.op = client[c].op]
               [] client[c].event.kind = "finish"  -> [Idle EXCEPT !.phase = "apply", !.op = client[c].op]
               [] OTHER -> Idle

(* Mutated form: accounting is best effort.                               *)
RefusedAnyway(c) == Onward(c)
(* The ledger refused: the caller is told, the session is left alone.     *)
Refused(c) == Idle

(* The ledger is loaded and the decision taken on what was loaded.        *)
LoadLedger(c) ==
    /\ client[c].phase = "load"
    /\ \/ /\ Decide(c) = "event"
          /\ Becomes(c, [client[c] EXCEPT !.phase = "append", !.version = ledger.version])
       \/ /\ Decide(c) = "existing"
          /\ Becomes(c, Onward(c))
       \/ /\ Decide(c) = "refused"
          /\ Becomes(c, Refused(c))
    /\ UNCHANGED <<ledger, session, receipts>>

(* The store compares the version and applies the event to what it keeps. *)
Appends(c) == client[c].version = ledger.version /\ Decide(c) = "event"

AppendLedger(c) == LET e == client[c].event IN
    /\ client[c].phase = "append"
    /\ Appends(c)
    /\ ledger' = IF e.kind = "reserve" THEN Reserved(ledger, Op(c), e.estimate)
                                       ELSE Reconciled(ledger, Op(c), e.id, e.measured)
    /\ Becomes(c, Onward(c))
    /\ UNCHANGED <<session, receipts>>

RetriesLeft(c) == client[c].left > 1

Conflict(c) ==
    /\ client[c].phase = "append"
    /\ ~Appends(c)
    /\ Becomes(c, IF RetriesLeft(c)
                    THEN [client[c] EXCEPT !.phase = "load", !.version = 0, !.left = @ - 1]
                    ELSE Idle)
    /\ UNCHANGED <<ledger, session, receipts>>

-----------------------------------------------------------------------------
(* Mutated form: any reservation will do.                                 *)
RequireAnyReservation(s, o) == o[1] = s
(* require_budget_reservation: the one of this very execution.            *)
RequireBudgetReservation(s, o) == o = Current(s)

Startable(s) ==
    \/ session.work[s].status \in {"pending", "failed"}
    \/ session.work[s].status = "running" /\ session.work[s].lapsed

(* StartStep, decided on the session as it is by then.                    *)
StartStep(c) == LET s == Op(c)[1] IN
    /\ client[c].phase = "claim"
    /\ \/ /\ Startable(s)
          /\ RequireBudgetReservation(s, Op(c))
          /\ session' = [session EXCEPT !.work[s].status = "running", !.work[s].lapsed = FALSE,
                !.work[s].claim = {Op(c)}]
       \/ /\ ~(Startable(s) /\ RequireBudgetReservation(s, Op(c)))
          /\ UNCHANGED session
    /\ Becomes(c, Idle)
    /\ UNCHANGED <<ledger, receipts>>

(* The receipt's result, and the link to it, land on the claim the step   *)
(* is under, if the execution is still the current one.                   *)
ApplyResult(c) == LET s == Op(c)[1] IN
    /\ client[c].phase = "apply"
    /\ \E receipt \in receipts[Op(c)] :
          session' = IF Current(s) = Op(c) /\ session.work[s].status = "running"
                       THEN [session EXCEPT !.links = @ \cup {Op(c)}, !.work[s].lapsed = FALSE,
                                            !.work[s].status = receipt.result]
                       ELSE session
    /\ Becomes(c, Idle)
    /\ UNCHANGED <<ledger, receipts>>

(* CompleteCeremonyStepUseCase, and the completion of a spawn step: the   *)
(* result is applied to the claim it is for, and that is all.             *)
CompleteStep(s, result) ==
    /\ session.work[s].status = "running"
    /\ session' = [session EXCEPT !.work[s].lapsed = FALSE, !.work[s].status = result]
    /\ UNCHANGED <<ledger, receipts, client>>

(* The ceremony comes round to the step again.                            *)
Repeat(s) ==
    /\ session.work[s].status = "completed"
    /\ session.work[s].iteration < MaxIteration
    /\ session' = [session EXCEPT !.work[s] = [Fresh EXCEPT
                      !.iteration = session.work[s].iteration + 1]]
    /\ UNCHANGED <<ledger, receipts, client>>

Lapse(s) ==
    /\ session.work[s].status = "running"
    /\ ~session.work[s].lapsed
    /\ session' = [session EXCEPT !.work[s].lapsed = TRUE]
    /\ UNCHANGED <<ledger, receipts, client>>

Crash(c) ==
    /\ client[c].phase # "idle"
    /\ Becomes(c, Idle)
    /\ UNCHANGED <<ledger, session, receipts>>

Next ==
    \/ \E c \in Clients :
          \/ \E limits \in LimitChoices : OpenLedger(c, limits)
          \/ \E s \in Steps, estimate \in Estimates : BeginClaim(c, s, estimate)
          \/ \E s \in Steps, receipt \in ReceiptChoices : BeginFinish(c, s, receipt)
          \/ \E o \in Operations, id \in Receipts, m \in MeasureChoices : BeginMeter(c, o, id, m)
          \/ OpenSession(c) \/ LoadLedger(c) \/ AppendLedger(c) \/ Conflict(c)
          \/ StartStep(c) \/ ApplyResult(c) \/ Crash(c)
    \/ \E s \in Steps :
          Repeat(s) \/ Lapse(s) \/ \E result \in Outcomes : CompleteStep(s, result)

Spec == Init /\ [][Next]_vars
-----------------------------------------------------------------------------
(* Work is only ever under way on a reservation of its own: the ledger    *)
(* holds one for exactly this execution of the step, also when the claim  *)
(* was prepared while an earlier execution was current.                   *)
WorkIsFunded ==
    \A s \in Steps : \A reservation \in session.work[s].claim :
        reservation = Current(s) /\ ledger.held[Current(s)] # {}

(* A receipt that was applied is in the books: the ledger carries what it *)
(* measured, or something better known, under the id of that receipt, and *)
(* not under that of a meter that came first.                             *)
AppliedIsAccounted ==
    \A o \in session.links :
        \E r \in ledger.held[o], q \in receipts[o] : \E m \in r.reconciled :
            /\ m.id = OwnReceipt
            /\ \A d \in Dimensions : m.measured[d].quality >= q.measured[d].quality

(* A reservation is admitted only while everything charged and what it    *)
(* asks for stay within the limits, however many claimants decided on the *)
(* same earlier ledger.                                                   *)
AdmissionFits ==
    [][\A o \in Operations : ledger.held[o] = {} /\ ledger'.held[o] # {} =>
         \A d \in Dimensions : Charged(ledger', d) <= LimitsOf(ledger')[d].amount]_vars

(* What was measured is only ever replaced by something better known, and *)
(* by the receipt that measured it first.                                 *)
MeasurementsAdvance ==
    [][\A o \in Operations : \A r \in ledger.held[o] : \E n \in ledger'.held[o] :
         /\ n.estimate = r.estimate
         /\ \A m \in r.reconciled : \E k \in n.reconciled :
               k.id = m.id /\ \A d \in Dimensions : k.measured[d].quality >= m.measured[d].quality]_vars

(* The ledger keeps what it promised: no admission beyond the limits, no  *)
(* measurement taken back.                                                *)
LedgerKeepsItsWord == AdmissionFits /\ MeasurementsAdvance

-----------------------------------------------------------------------------
(* What the documents say of budgets and the code does not keep. *)

(* An execution that is over was accounted for.  A host that answers the  *)
(* claim itself leaves the reservation pending.                           *)
FinishedIsAccounted ==
    \A s \in Steps : \A n \in 1..MaxIteration :
        \/ n < session.work[s].iteration
        \/ n = session.work[s].iteration /\ session.work[s].status = "completed"
          => \E r \in ledger.held[<<s, n>>] : r.reconciled # {}
=============================================================================
