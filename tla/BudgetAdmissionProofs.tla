----------------------- MODULE BudgetAdmissionProofs -----------------------
(***************************************************************************)
(* Proofs about the admission of work against a budget.  Ledger and        *)
(* session are separate streams, so the invariant says what a client may   *)
(* rely on between the append to the one and the append to the other: what *)
(* the ledger holds it goes on holding, and what it has accounted for      *)
(* stays accounted for.                                                    *)
(***************************************************************************)
EXTENDS BudgetAdmission, FiniteSetTheorems, WellFoundedInduction, TLAPS

ClientRecords ==
    [phase : {"idle", "start", "load", "append", "claim", "apply"}, op : SUBSET Operations,
     event : Events, version : Nat, left : 0..MaxRetries]

(* What the phase of a client says about the rest of it.                   *)
Prepared(v) ==
    /\ v.phase \in {"load", "append"} => v.left > 0 /\ v.event.kind # "none"
    /\ v.phase \in {"load", "append", "claim", "apply"} => \E o \in Operations : v.op = {o}

(* An execution has at most one reservation and one reconciliation.        *)
Single(S) == \A x, y \in S : x = y

Sessions == [open : BOOLEAN, work : [Steps -> Works], links : SUBSET Operations]

TypeInv ==
    /\ ledger \in Ledgers
    /\ \A o \in Operations : Single(ledger.held[o])
    /\ session \in Sessions
    /\ receipts \in [Operations -> SUBSET ReceiptChoices]
    /\ client \in [Clients -> ClientRecords]
    /\ \A c \in Clients : Prepared(client[c])

IsHeld(o) == ledger.held[o] # {}

(* The ledger knows, under the receipt's own id, at least what it measured.*)
Accounts(l, o, q) ==
    \E r \in l.held[o] : \E m \in r.reconciled :
        /\ m.id = OwnReceipt
        /\ \A d \in Dimensions : m.measured[d].quality >= q.measured[d].quality
IsAccounted(o) == \E q \in receipts[o] : Accounts(ledger, o, q)

(* What a client takes to the ledger, and from the ledger to the session.  *)
Covers(v, l, rs) ==
    /\ v.phase \in {"load", "append"} /\ v.event.kind = "finish" => \A o \in v.op :
          v.event.id = OwnReceipt /\ \E q \in rs[o] : q.measured = v.event.measured
    /\ v.phase = "claim" => \A o \in v.op : l.held[o] # {}
    /\ v.phase = "apply" => \A o \in v.op : \E q \in rs[o] : Accounts(l, o, q)

FundedInv ==
    /\ WorkIsFunded
    /\ AppliedIsAccounted
    /\ \A c \in Clients : Covers(client[c], ledger, receipts)

-----------------------------------------------------------------------------
(* What the definitions give for every value of the constants.             *)
LEMMA IdleType == Idle \in ClientRecords /\ Prepared(Idle)
  BY AdmissionAssumption DEF Idle, ClientRecords, Prepared, Events

(* A client that becomes another record of the right kind.                 *)
LEMMA BecomesType ==
    ASSUME TypeInv, NEW c \in Clients, NEW v, Becomes(c, v), v \in ClientRecords, Prepared(v)
    PROVE  client' \in [Clients -> ClientRecords] /\ \A x \in Clients : Prepared(client[x])'
  BY DEF TypeInv, Becomes

(* The operation of a client that has one.                                 *)
LEMMA OpType ==
    ASSUME TypeInv, NEW c \in Clients, client[c].phase \in {"load", "append", "claim", "apply"}
    PROVE  Op(c) \in Operations /\ client[c].op = {Op(c)}
  <1>1. PICK o \in Operations : client[c].op = {o}
    BY DEF TypeInv, Prepared
  <1> QED
    BY <1>1 DEF Op

(* The execution a step is at is an operation.                             *)
LEMMA CurrentType ==
    ASSUME TypeInv, NEW s \in Steps PROVE Current(s) \in Operations
  BY AdmissionAssumption DEF TypeInv, Sessions, Current, Works

(* The event a client is about to append.                                  *)
LEMMA EventType ==
    ASSUME TypeInv, NEW c \in Clients, client[c].phase \in {"load", "append"}
    PROVE  \/ client[c].event.kind = "reserve" /\ client[c].event.estimate \in Estimates
           \/ /\ client[c].event.kind \in {"finish", "meter"}
              /\ client[c].event.id \in Receipts /\ client[c].event.measured \in MeasureChoices
  <1>1. client[c].event \in Events /\ client[c].event.kind # "none"
    BY DEF TypeInv, Prepared, ClientRecords
  <1> QED
    BY <1>1 DEF Events, NoEvent

(* What is left to do once the ledger has it.                              *)
LEMMA OnwardType ==
    ASSUME TypeInv, NEW c \in Clients, client[c].phase \in {"load", "append"}
    PROVE  /\ Onward(c) \in ClientRecords /\ Prepared(Onward(c))
           /\ Onward(c).op = client[c].op \/ Onward(c) = Idle
           /\ Onward(c).phase = "claim" => client[c].event.kind = "reserve" /\ Onward(c).op = client[c].op
           /\ Onward(c).phase = "apply" => client[c].event.kind = "finish" /\ Onward(c).op = client[c].op
           /\ Onward(c).phase \in {"idle", "claim", "apply"}
  <1>1. client[c].op \in SUBSET Operations /\ \E o \in Operations : client[c].op = {o}
    BY OpType DEF TypeInv, ClientRecords
  <1>2. ASSUME NEW p \in {"claim", "apply"}, NEW v, v = [Idle EXCEPT !.phase = p, !.op = client[c].op]
        PROVE  v \in ClientRecords /\ Prepared(v) /\ v.phase = p /\ v.op = client[c].op
    <2>1. NoEvent \in Events /\ 0 \in 0..MaxRetries
      BY AdmissionAssumption DEF Events
    <2>2. v \in ClientRecords /\ v.phase = p /\ v.op = client[c].op
      BY <1>1, <1>2, <2>1 DEF Idle, ClientRecords
    <2> QED
      BY <1>1, <2>2 DEF Prepared
  <1>3. CASE client[c].event.kind = "reserve"
    BY <1>2, <1>3 DEF Onward
  <1>4. CASE client[c].event.kind = "finish"
    BY <1>2, <1>4 DEF Onward
  <1>5. CASE client[c].event.kind = "meter"
    BY <1>5, IdleType DEF Onward, Idle
  <1> QED
    BY <1>3, <1>4, <1>5, EventType


-----------------------------------------------------------------------------
(* The ledger: what it holds it keeps.                                     *)

(* Every reservation of one ledger stands in the other, with the estimate  *)
(* it was made for, its receipt, and nowhere less known.                   *)
AdvancesTo(old, new) ==
    \A o \in Operations : \A r \in old.held[o] : \E n \in new.held[o] :
        /\ n.estimate = r.estimate
        /\ \A m \in r.reconciled : \E k \in n.reconciled :
              k.id = m.id /\ \A d \in Dimensions : k.measured[d].quality >= m.measured[d].quality

(* The reservations and measurements of a ledger have their types.         *)
LEMMA HeldType ==
    ASSUME TypeInv, NEW o \in Operations, NEW r \in ledger.held[o]
    PROVE  /\ r \in Reservations /\ r = Held(ledger, o) /\ r.estimate \in Measured
           /\ r.reconciled \subseteq [id : Receipts, measured : Measured]
  <1>1. ledger.held[o] \subseteq Reservations /\ Single(ledger.held[o])
    BY DEF TypeInv, Ledgers
  <1>2. r = Held(ledger, o)
    BY <1>1 DEF Single, Held
  <1> QED
    BY <1>1, <1>2 DEF Reservations

(* A measurement has a quality.                                            *)
LEMMA QualityType ==
    ASSUME NEW m \in Measured, NEW d \in Dimensions PROVE m[d].quality \in Nat
  BY DEF Measured, Measurements, Unknown

(* Where the reservations stay, nothing is lost.                           *)
LEMMA SameHeld ==
    ASSUME TypeInv, NEW l, l.held = ledger.held
    PROVE  AdvancesTo(ledger, l)
  <1> SUFFICES ASSUME NEW o \in Operations, NEW r \in ledger.held[o]
               PROVE  \A m \in r.reconciled : \A d \in Dimensions :
                          m.measured[d].quality >= m.measured[d].quality
    BY DEF AdvancesTo
  <1> QED
    BY HeldType, QualityType

(* The first event of a ledger.                                            *)
LEMMA OpenedLedger ==
    ASSUME TypeInv, NEW limits \in LimitChoices, NEW l, l = Opened(ledger, limits)
    PROVE  l \in Ledgers /\ l.held = ledger.held
  <1>1. {limits} \in SUBSET Limits /\ ledger.version + 1 \in Nat /\ ledger \in Ledgers
    BY AdmissionAssumption DEF TypeInv, Ledgers
  <1> QED
    BY <1>1 DEF Opened, Ledgers

(* A ledger with what it holds for one execution replaced.                 *)
LEMMA ReplacedLedger ==
    ASSUME TypeInv, NEW o \in Operations, NEW r \in Reservations,
           NEW l, l = [ledger EXCEPT !.held[o] = {r}, !.version = @ + 1]
    PROVE  /\ l \in Ledgers /\ l.held[o] = {r}
           /\ \A x \in Operations \ {o} : l.held[x] = ledger.held[x]
           /\ \A x \in Operations : Single(l.held[x])
  <1>1. /\ ledger \in Ledgers /\ ledger.version + 1 \in Nat
        /\ ledger.held \in [Operations -> SUBSET Reservations]
    BY DEF TypeInv, Ledgers
  <1>2. PICK h : h = [ledger.held EXCEPT ![o] = {r}]
    OBVIOUS
  <1>3. h \in [Operations -> SUBSET Reservations]
    BY <1>1, <1>2
  <1>4. l = [ledger EXCEPT !.held = h, !.version = @ + 1]
    BY <1>2
  <1>5. l \in Ledgers /\ l.held = h
    BY <1>1, <1>3, <1>4 DEF Ledgers
  <1>6. l.held[o] = {r} /\ \A x \in Operations \ {o} : l.held[x] = ledger.held[x]
    BY <1>1, <1>2, <1>5
  <1> QED
    BY <1>5, <1>6 DEF TypeInv, Single

(* A reservation is made where there was none.                             *)
LEMMA ReservedLedger ==
    ASSUME TypeInv, NEW o \in Operations, NEW estimate \in Estimates,
           DecideReserve(ledger, o, estimate) = "event", NEW l, l = Reserved(ledger, o, estimate)
    PROVE  /\ l \in Ledgers /\ \A x \in Operations : Single(l.held[x])
           /\ l.held[o] # {} /\ AdvancesTo(ledger, l)
  <1> DEFINE r == [estimate |-> estimate, reconciled |-> {}]
  <1>1. r \in Reservations
    BY AdmissionAssumption DEF Reservations
  <1>2. ledger.held[o] = {}
    BY DEF DecideReserve
  <1>4. /\ l \in Ledgers /\ l.held[o] = {r}
        /\ \A x \in Operations \ {o} : l.held[x] = ledger.held[x]
        /\ \A x \in Operations : Single(l.held[x])
    <2>1. l = [ledger EXCEPT !.held[o] = {r}, !.version = @ + 1]
      BY DEF Reserved
    <2> HIDE DEF r
    <2> QED
      BY <1>1, <2>1, ReplacedLedger
  <1>5. AdvancesTo(ledger, l)
    <2> HIDE DEF r
    <2>1. AdvancesTo(ledger, ledger)
      BY SameHeld
    <2> QED
      BY <1>2, <1>4, <2>1 DEF AdvancesTo
  <1> QED
    BY <1>4, <1>5

(* A measurement is replaced by a better one of the same receipt.          *)
LEMMA ReconciledLedger ==
    ASSUME TypeInv, NEW o \in Operations, NEW id \in Receipts, NEW measured \in MeasureChoices,
           DecideReconcile(ledger, o, id, measured) = "event",
           NEW l, l = Reconciled(ledger, o, id, measured)
    PROVE  /\ l \in Ledgers /\ \A x \in Operations : Single(l.held[x])
           /\ \E r \in l.held[o] : [id |-> id, measured |-> measured] \in r.reconciled
           /\ AdvancesTo(ledger, l)
  <1> DEFINE k == [id |-> id, measured |-> measured]
             r == [estimate |-> Held(ledger, o).estimate, reconciled |-> {k}]
  <1>1. /\ ledger.held[o] # {}
        /\ \A m \in Held(ledger, o).reconciled : m.id = id /\ Advances(measured, m.measured)
    BY DEF DecideReconcile
  <1>2. Held(ledger, o) \in ledger.held[o]
    BY <1>1 DEF Held
  <1>3. r \in Reservations /\ r.estimate = Held(ledger, o).estimate /\ r.reconciled = {k}
    BY <1>2, HeldType, AdmissionAssumption DEF Reservations
  <1>5. /\ l \in Ledgers /\ l.held[o] = {r}
        /\ \A x \in Operations \ {o} : l.held[x] = ledger.held[x]
        /\ \A x \in Operations : Single(l.held[x])
    <2>1. l = [ledger EXCEPT !.held[o] = {r}, !.version = @ + 1]
      BY DEF Reconciled
    <2> HIDE DEF r
    <2> QED
      BY <1>3, <2>1, ReplacedLedger
  <1>6. \A q \in ledger.held[o] :
            /\ r.estimate = q.estimate
            /\ \A m \in q.reconciled :
                  k.id = m.id /\ \A d \in Dimensions : k.measured[d].quality >= m.measured[d].quality
    BY <1>1, <1>3, HeldType DEF Advances
  <1>7. AdvancesTo(ledger, l)
    <2> HIDE DEF r, k
    <2>1. AdvancesTo(ledger, ledger)
      BY SameHeld
    <2> SUFFICES ASSUME NEW x \in Operations, NEW q \in ledger.held[x]
                 PROVE  \E n \in l.held[x] :
                          /\ n.estimate = q.estimate
                          /\ \A m \in q.reconciled : \E j \in n.reconciled :
                                j.id = m.id /\ \A d \in Dimensions : j.measured[d].quality >= m.measured[d].quality
      BY DEF AdvancesTo
    <2>2. CASE x = o
      BY <1>3, <1>5, <1>6, <2>2
    <2>3. CASE x # o
      BY <1>5, <2>1, <2>3 DEF AdvancesTo
    <2> QED
      BY <2>2, <2>3
  <1> QED
    BY <1>3, <1>5, <1>7


-----------------------------------------------------------------------------
(* The invariants of types, and the ledger over a step.                    *)

(* What the ledger takes from an append.                                   *)
LEMMA AppendedLedger ==
    ASSUME TypeInv, NEW c \in Clients, AppendLedger(c)
    PROVE  /\ ledger' \in Ledgers /\ \A x \in Operations : Single(ledger'.held[x])
           /\ AdvancesTo(ledger, ledger')
           /\ client[c].event.kind = "reserve" => ledger'.held[Op(c)] # {}
           /\ client[c].event.kind # "reserve" => \E r \in ledger'.held[Op(c)] :
                 [id |-> client[c].event.id, measured |-> client[c].event.measured] \in r.reconciled
  <1>1. Op(c) \in Operations /\ Decide(c) = "event"
    BY OpType DEF AppendLedger, Appends
  <1>2. CASE client[c].event.kind = "reserve"
    <2>1. /\ client[c].event.estimate \in Estimates
          /\ DecideReserve(ledger, Op(c), client[c].event.estimate) = "event"
          /\ ledger' = Reserved(ledger, Op(c), client[c].event.estimate)
      BY <1>1, <1>2, EventType DEF AppendLedger, Decide
    <2> QED
      BY <1>1, <1>2, <2>1, ReservedLedger
  <1>3. CASE client[c].event.kind # "reserve"
    <2>1. /\ client[c].event.id \in Receipts /\ client[c].event.measured \in MeasureChoices
          /\ DecideReconcile(ledger, Op(c), client[c].event.id, client[c].event.measured) = "event"
          /\ ledger' = Reconciled(ledger, Op(c), client[c].event.id, client[c].event.measured)
      BY <1>1, <1>3, EventType DEF AppendLedger, Decide
    <2> QED
      BY <1>1, <1>3, <2>1, ReconciledLedger
  <1> QED
    BY <1>2, <1>3

(* No step takes anything out of the ledger.                               *)
LEMMA LedgerMoves ==
    ASSUME TypeInv, [Next]_vars
    PROVE  /\ ledger' \in Ledgers /\ \A x \in Operations : Single(ledger'.held[x])
           /\ AdvancesTo(ledger, ledger')
  <1>1. CASE UNCHANGED ledger
    BY <1>1, SameHeld DEF TypeInv
  <1>2. ASSUME NEW c \in Clients, NEW limits \in LimitChoices, OpenLedger(c, limits)
        PROVE  /\ ledger' \in Ledgers /\ \A x \in Operations : Single(ledger'.held[x])
               /\ AdvancesTo(ledger, ledger')
    <2>1. CASE ledger' = ledger
      BY <1>1, <2>1
    <2>2. CASE ledger' = Opened(ledger, limits)
      <3>1. ledger' \in Ledgers /\ ledger'.held = ledger.held
        BY <2>2, OpenedLedger
      <3> QED
        BY <3>1, SameHeld DEF TypeInv
    <2> QED
      BY <1>2, <2>1, <2>2 DEF OpenLedger
  <1> QED
    BY <1>1, <1>2, AppendedLedger
    DEF Next, vars, OpenSession, BeginClaim, BeginFinish, BeginMeter, LoadLedger, Conflict,
        StartStep, ApplyResult, CompleteStep, Repeat, Lapse, Crash

(* The work of one step is replaced by other work.                         *)
Moves(s, v, links) ==
    /\ session' \in Sessions /\ session'.links = links
    /\ session'.work[s] = v /\ \A x \in Steps \ {s} : session'.work[x] = session.work[x]

(* A session with the work of one step and its links replaced.             *)
LEMMA WorkType ==
    ASSUME TypeInv, NEW s \in Steps, NEW v \in Works, NEW links \in SUBSET Operations,
           session' = [session EXCEPT !.work[s] = v, !.links = links]
    PROVE  Moves(s, v, links)
  <1>1. session \in Sessions
    BY DEF TypeInv
  <1>2. PICK w : w = [session.work EXCEPT ![s] = v]
    OBVIOUS
  <1>3. w \in [Steps -> Works] /\ w[s] = v /\ \A x \in Steps \ {s} : w[x] = session.work[x]
    BY <1>1, <1>2 DEF Sessions
  <1>4. session' = [session EXCEPT !.work = w, !.links = links]
    BY <1>2
  <1>5. session' \in Sessions /\ session'.work = w /\ session'.links = links
    BY <1>1, <1>3, <1>4 DEF Sessions
  <1> QED
    BY <1>3, <1>5 DEF Moves

(* A session with the work of one step replaced.                           *)
LEMMA OneWorkType ==
    ASSUME TypeInv, NEW s \in Steps, NEW v \in Works, session' = [session EXCEPT !.work[s] = v]
    PROVE  Moves(s, v, session.links)
  <1>1. session \in Sessions
    BY DEF TypeInv
  <1>2. session' = [session EXCEPT !.work[s] = v, !.links = session.links]
    BY <1>1 DEF Sessions
  <1>3. session.links \in SUBSET Operations
    BY <1>1 DEF Sessions
  <1> QED
    BY <1>2, <1>3, WorkType

(* A client that turns to the ledger.                                      *)
LEMMA BegunType ==
    ASSUME NEW o \in Operations, NEW e \in Events, e.kind # "none",
           NEW v, v = [phase |-> "load", op |-> {o}, version |-> 0, left |-> MaxRetries, event |-> e]
    PROVE  v \in ClientRecords /\ Prepared(v) /\ v.phase = "load" /\ v.op = {o} /\ v.event = e
  <1>1. MaxRetries \in 0..MaxRetries /\ MaxRetries > 0
    BY AdmissionAssumption
  <1>2. v \in ClientRecords
    BY <1>1 DEF ClientRecords
  <1> QED
    BY <1>1, <1>2 DEF Prepared

(* The events a client may set out with.                                   *)
LEMMA EventsAre ==
    /\ \A estimate \in Estimates :
          LET e == [kind |-> "reserve", estimate |-> estimate] IN e \in Events /\ e.kind # "none"
    /\ \A k \in {"finish", "meter"}, id \in Receipts, m \in MeasureChoices :
          LET e == [kind |-> k, id |-> id, measured |-> m] IN e \in Events /\ e.kind # "none"
  BY DEF Events

(* A client at work on the ledger goes on with it.                         *)
LEMMA GoesOnType ==
    ASSUME TypeInv, NEW c \in Clients, client[c].phase \in {"load", "append"},
           NEW p \in {"load", "append"}, NEW n \in Nat, NEW k \in 0..MaxRetries, k > 0,
           NEW v, v = [client[c] EXCEPT !.phase = p, !.version = n, !.left = k]
    PROVE  v \in ClientRecords /\ Prepared(v) /\ v.phase = p
  <1>1. client[c] \in ClientRecords /\ Prepared(client[c])
    BY DEF TypeInv
  <1>2. v \in ClientRecords
    BY <1>1 DEF ClientRecords
  <1>3. v.phase = p /\ v.left = k /\ v.op = client[c].op /\ v.event = client[c].event
    BY <1>1 DEF ClientRecords
  <1> QED
    BY <1>1, <1>2, <1>3 DEF Prepared


(* A client at work on the ledger that found something to append.          *)
LEMMA LoadedType ==
    ASSUME TypeInv, NEW c \in Clients, client[c].phase = "load",
           NEW v, v = [client[c] EXCEPT !.phase = "append", !.version = ledger.version]
    PROVE  /\ v \in ClientRecords /\ Prepared(v) /\ v.phase = "append"
           /\ v.op = client[c].op /\ v.event = client[c].event
  <1>1. client[c] \in ClientRecords /\ Prepared(client[c]) /\ ledger.version \in Nat
    BY DEF TypeInv, Ledgers
  <1>2. v \in ClientRecords
    BY <1>1 DEF ClientRecords
  <1>3. v.phase = "append" /\ v.left = client[c].left /\ v.op = client[c].op /\ v.event = client[c].event
    BY <1>1 DEF ClientRecords
  <1> QED
    BY <1>1, <1>2, <1>3 DEF Prepared

(* What a client turns into, other than one that takes something from the  *)
(* ledger to the session.                                                  *)
LEMMA ClientMoves ==
    ASSUME TypeInv, NEW c \in Clients,
           \/ \E limits \in LimitChoices : OpenLedger(c, limits)
           \/ \E s \in Steps, estimate \in Estimates : BeginClaim(c, s, estimate)
           \/ \E s \in Steps, receipt \in ReceiptChoices : BeginFinish(c, s, receipt)
           \/ \E o \in Operations, id \in Receipts, m \in MeasureChoices : BeginMeter(c, o, id, m)
           \/ OpenSession(c) \/ Conflict(c) \/ StartStep(c) \/ ApplyResult(c) \/ Crash(c)
    PROVE  \E v : /\ Becomes(c, v) /\ v \in ClientRecords /\ Prepared(v)
                  /\ Covers(client[c], ledger, receipts) => Covers(v, ledger', receipts')
  <1> DEFINE Good(v) == /\ v \in ClientRecords /\ Prepared(v)
                        /\ Covers(client[c], ledger, receipts) => Covers(v, ledger', receipts')
  <1>1. Good(Idle) /\ Good([Idle EXCEPT !.phase = "start"])
    BY IdleType DEF Idle, ClientRecords, Prepared, Covers
  <1>2. CASE \/ \E limits \in LimitChoices : OpenLedger(c, limits)
             \/ OpenSession(c) \/ StartStep(c) \/ ApplyResult(c) \/ Crash(c)
    <2> HIDE DEF Good
    <2>1. Becomes(c, Idle) \/ Becomes(c, [Idle EXCEPT !.phase = "start"])
      BY <1>2 DEF OpenLedger, OpenSession, StartStep, ApplyResult, Crash
    <2>2. \E v : Becomes(c, v) /\ Good(v)
      BY <1>1, <2>1
    <2> QED
      BY <2>2 DEF Good
  <1>3. ASSUME NEW s \in Steps, NEW estimate \in Estimates, BeginClaim(c, s, estimate)
        PROVE  \E v : Becomes(c, v) /\ Good(v)
    <2>1. PICK e : e = [kind |-> "reserve", estimate |-> estimate]
      OBVIOUS
    <2>2. Becomes(c, [phase |-> "load", op |-> {Current(s)}, version |-> 0, left |-> MaxRetries, event |-> e])
      BY <1>3, <2>1 DEF BeginClaim
    <2>3. Current(s) \in Operations /\ e \in Events /\ e.kind # "none" /\ e.kind # "finish"
      BY <2>1, CurrentType, EventsAre
    <2>4. \E v : Becomes(c, v) /\ v \in ClientRecords /\ Prepared(v) /\ v.phase = "load" /\ v.event = e
      BY <2>2, <2>3, BegunType
    <2> QED
      BY <2>3, <2>4 DEF Covers
  <1>4. ASSUME NEW s \in Steps, NEW receipt \in ReceiptChoices, BeginFinish(c, s, receipt)
        PROVE  \E v : Becomes(c, v) /\ Good(v)
    <2>1. PICK e : e = [kind |-> "finish", id |-> OwnReceipt, measured |-> receipt.measured]
      OBVIOUS
    <2>2. Becomes(c, [phase |-> "load", op |-> {Current(s)}, version |-> 0, left |-> MaxRetries, event |-> e])
      BY <1>4, <2>1 DEF BeginFinish
    <2>3. receipt.measured \in MeasureChoices
      BY AdmissionAssumption
    <2>4. Current(s) \in Operations /\ e \in Events /\ e.kind # "none"
      BY <2>1, <2>3, CurrentType, EventsAre, AdmissionAssumption
    <2>5. \E v : /\ Becomes(c, v) /\ v \in ClientRecords /\ Prepared(v) /\ v.phase = "load"
                 /\ v.op = {Current(s)} /\ v.event = e
      BY <2>2, <2>4, BegunType
    <2>6. receipt \in receipts'[Current(s)]
      BY <1>4, <2>4 DEF BeginFinish, TypeInv
    <2> QED
      BY <2>1, <2>5, <2>6 DEF Covers
  <1>5. ASSUME NEW o \in Operations, NEW id \in Receipts, NEW m \in MeasureChoices, BeginMeter(c, o, id, m)
        PROVE  \E v : Becomes(c, v) /\ Good(v)
    <2>1. PICK e : e = [kind |-> "meter", id |-> id, measured |-> m]
      OBVIOUS
    <2>2. Becomes(c, [phase |-> "load", op |-> {o}, version |-> 0, left |-> MaxRetries, event |-> e])
      BY <1>5, <2>1 DEF BeginMeter
    <2>3. e \in Events /\ e.kind # "none" /\ e.kind # "finish"
      BY <2>1, EventsAre
    <2>4. \E v : Becomes(c, v) /\ v \in ClientRecords /\ Prepared(v) /\ v.phase = "load" /\ v.event = e
      BY <2>2, <2>3, BegunType
    <2> QED
      BY <2>3, <2>4 DEF Covers
  <1>6. CASE Conflict(c)
    <2>1. CASE RetriesLeft(c)
      <3>1. PICK k : k = client[c].left - 1
        OBVIOUS
      <3>2. k \in 0..MaxRetries /\ k > 0
        BY <2>1, <3>1, AdmissionAssumption DEF RetriesLeft, TypeInv, ClientRecords
      <3>3. PICK v : v = [client[c] EXCEPT !.phase = "load", !.version = 0, !.left = k]
        OBVIOUS
      <3>4. Becomes(c, v) /\ client[c].phase = "append"
        BY <1>6, <2>1, <3>1, <3>3 DEF Conflict
      <3>5. /\ v \in ClientRecords /\ Prepared(v) /\ v.phase = "load"
            /\ v.op = client[c].op /\ v.event = client[c].event
        <4>1. v \in ClientRecords /\ Prepared(v) /\ v.phase = "load"
          BY <3>2, <3>3, <3>4, GoesOnType
        <4>2. v.op = client[c].op /\ v.event = client[c].event
          BY <3>3 DEF TypeInv, ClientRecords
        <4> QED
          BY <4>1, <4>2
      <3>6. ledger' = ledger /\ receipts' = receipts
        BY <1>6 DEF Conflict
      <3> QED
        BY <3>4, <3>5, <3>6 DEF Covers
    <2>2. CASE ~RetriesLeft(c)
      <3>1. Becomes(c, Idle)
        BY <1>6, <2>2 DEF Conflict
      <3> QED
        BY <1>1, <3>1
    <2> QED
      BY <2>1, <2>2
  <1> QED
    BY <1>2, <1>3, <1>4, <1>5, <1>6

(* A client with what it takes from the ledger to the session: the ledger  *)
(* holds it, or has accounted for it.                                      *)
LEMMA TakesAlong ==
    ASSUME TypeInv, NEW c \in Clients, LoadLedger(c) \/ AppendLedger(c)
    PROVE  \E v : /\ Becomes(c, v) /\ v \in ClientRecords /\ Prepared(v)
                  /\ Covers(client[c], ledger, receipts) => Covers(v, ledger', receipts')
  <1>1. client[c].phase \in {"load", "append"} /\ receipts' = receipts
    BY DEF LoadLedger, AppendLedger
  <1>2. Op(c) \in Operations /\ client[c].op = {Op(c)}
    BY <1>1, OpType
  <1>3. ASSUME Becomes(c, Onward(c)),
               client[c].event.kind = "reserve" => ledger'.held[Op(c)] # {},
               client[c].event.kind = "finish" => \E r \in ledger'.held[Op(c)] :
                  [id |-> client[c].event.id, measured |-> client[c].event.measured] \in r.reconciled
        PROVE  \E v : /\ Becomes(c, v) /\ v \in ClientRecords /\ Prepared(v)
                      /\ Covers(client[c], ledger, receipts) => Covers(v, ledger', receipts')
    <2>1. PICK v : v = Onward(c)
      OBVIOUS
    <2>2. /\ v \in ClientRecords /\ Prepared(v) /\ v.phase \in {"idle", "claim", "apply"}
          /\ v.phase = "claim" => client[c].event.kind = "reserve" /\ v.op = client[c].op
          /\ v.phase = "apply" => client[c].event.kind = "finish" /\ v.op = client[c].op
      BY <1>1, <2>1, OnwardType
    <2>3. ASSUME Covers(client[c], ledger, receipts), v.phase = "apply"
          PROVE  \E q \in receipts[Op(c)] : Accounts(ledger', Op(c), q)
      <3>1. PICK q \in receipts[Op(c)] : client[c].event.id = OwnReceipt /\ q.measured = client[c].event.measured
        BY <1>1, <1>2, <2>2, <2>3 DEF Covers
      <3>2. PICK r \in ledger'.held[Op(c)] :
              [id |-> client[c].event.id, measured |-> client[c].event.measured] \in r.reconciled
        BY <1>3, <2>2, <2>3
      <3>3. q.measured \in Measured
        BY <1>2, AdmissionAssumption DEF TypeInv
      <3>4. PICK m : m = [id |-> client[c].event.id, measured |-> client[c].event.measured]
        OBVIOUS
      <3>5. m.id = OwnReceipt /\ \A d \in Dimensions : m.measured[d].quality >= q.measured[d].quality
        BY <3>1, <3>3, <3>4, QualityType
      <3> QED
        BY <3>2, <3>4, <3>5 DEF Accounts
    <2>4. Covers(client[c], ledger, receipts) => Covers(v, ledger', receipts')
      BY <1>1, <1>2, <1>3, <2>2, <2>3 DEF Covers
    <2> QED
      BY <1>3, <2>1, <2>2, <2>4
  <1>4. CASE AppendLedger(c)
    <2>1. Becomes(c, Onward(c))
      BY <1>4 DEF AppendLedger
    <2> QED
      BY <1>3, <1>4, <2>1, AppendedLedger
  <1>5. CASE LoadLedger(c) /\ Decide(c) = "existing" /\ Becomes(c, Onward(c))
    <2>1. ledger' = ledger
      BY <1>5 DEF LoadLedger
    <2>2. client[c].event.kind = "reserve" => ledger.held[Op(c)] # {}
      BY <1>5 DEF Decide, DecideReserve
    <2>3. client[c].event.kind = "finish" => \E r \in ledger.held[Op(c)] :
             [id |-> client[c].event.id, measured |-> client[c].event.measured] \in r.reconciled
      <3> SUFFICES ASSUME client[c].event.kind = "finish"
                   PROVE  /\ ledger.held[Op(c)] # {}
                          /\ [id |-> client[c].event.id, measured |-> client[c].event.measured]
                                \in Held(ledger, Op(c)).reconciled
        BY DEF Held
      <3> QED
        BY <1>5 DEF Decide, DecideReconcile
    <2> QED
      BY <1>3, <1>5, <2>1, <2>2, <2>3
  <1>6. CASE LoadLedger(c) /\ Becomes(c, Refused(c))
    BY <1>6, IdleType DEF Refused, Idle, Covers
  <1>7. CASE LoadLedger(c) /\ Becomes(c, [client[c] EXCEPT !.phase = "append", !.version = ledger.version])
    <2>1. client[c].phase = "load" /\ ledger' = ledger
      BY <1>7 DEF LoadLedger
    <2>2. PICK v : v = [client[c] EXCEPT !.phase = "append", !.version = ledger.version]
      OBVIOUS
    <2>3. /\ v \in ClientRecords /\ Prepared(v) /\ v.phase = "append"
          /\ v.op = client[c].op /\ v.event = client[c].event
      BY <2>1, <2>2, LoadedType
    <2>4. Covers(client[c], ledger, receipts) => Covers(v, ledger', receipts')
      BY <1>1, <2>1, <2>3 DEF Covers
    <2> QED
      BY <1>7, <2>2, <2>3, <2>4
  <1> QED
    BY <1>4, <1>5, <1>6, <1>7 DEF LoadLedger


(* What a step of the session changes: one step's work is started, ended,  *)
(* repeated or let lapse.                                                  *)
LEMMA StartedWork ==
    ASSUME TypeInv, NEW c \in Clients, StartStep(c), session' # session
    PROVE  \E s \in Steps, v \in Works :
              /\ Moves(s, v, session.links)
              /\ v.iteration = session.work[s].iteration
              /\ v.claim = {Current(s)} /\ client[c].op = {Current(s)}
  <1>1. Op(c) \in Operations /\ client[c].op = {Op(c)}
    BY OpType DEF StartStep
  <1>2. PICK s : s = Op(c)[1]
    OBVIOUS
  <1>3. s \in Steps /\ session \in Sessions /\ session.work[s] \in Works
    BY <1>1, <1>2, AdmissionAssumption DEF TypeInv, Sessions
  <1>4. Op(c) = Current(s)
    BY <1>2 DEF StartStep, RequireBudgetReservation
  <1>5. PICK k : k = {Current(s)}
    OBVIOUS
  <1>6. k \in SUBSET Operations
    BY <1>1, <1>4, <1>5
  <1>7. PICK v : v = [session.work[s] EXCEPT !.status = "running", !.lapsed = FALSE, !.claim = k]
    OBVIOUS
  <1>8. v \in Works /\ v.iteration = session.work[s].iteration /\ v.claim = k
    BY <1>3, <1>6, <1>7 DEF Works
  <1>9. session' = [session EXCEPT !.work[s].status = "running", !.work[s].lapsed = FALSE, !.work[s].claim = k]
    BY <1>2, <1>4, <1>5 DEF StartStep
  <1>10. session' = [session EXCEPT !.work[s] = v]
    BY <1>3, <1>7, <1>9 DEF Sessions
  <1>11. Moves(s, v, session.links)
    BY <1>3, <1>8, <1>10, OneWorkType
  <1> QED
    BY <1>1, <1>3, <1>4, <1>5, <1>8, <1>11

(* Work that ends keeps claim and iteration.                               *)
LEMMA EndedWork ==
    ASSUME TypeInv, NEW s \in Steps, NEW result \in Outcomes,
           NEW v, v = [session.work[s] EXCEPT !.lapsed = FALSE, !.status = result]
    PROVE  v \in Works /\ v.iteration = session.work[s].iteration /\ v.claim = session.work[s].claim
  <1>1. session.work[s] \in Works
    BY DEF TypeInv, Sessions
  <1> QED
    BY <1>1 DEF Works

(* A result that is applied ends the work it was reconciled for.           *)
LEMMA FinishedWork ==
    ASSUME TypeInv, NEW c \in Clients, ApplyResult(c), session' # session
    PROVE  \E s \in Steps, v \in Works :
              /\ Moves(s, v, session.links \cup {Current(s)})
              /\ v.iteration = session.work[s].iteration /\ v.claim = session.work[s].claim
              /\ client[c].op = {Current(s)}
  <1>1. Op(c) \in Operations /\ client[c].op = {Op(c)}
    BY OpType DEF ApplyResult
  <1>2. PICK s : s = Op(c)[1]
    OBVIOUS
  <1>3. s \in Steps /\ session \in Sessions
    BY <1>1, <1>2, AdmissionAssumption DEF TypeInv
  <1>4. Op(c) = Current(s)
    BY <1>2 DEF ApplyResult
  <1>5. PICK receipt \in receipts[Op(c)] :
          session' = [session EXCEPT !.links = @ \cup {Op(c)}, !.work[s].lapsed = FALSE,
                                     !.work[s].status = receipt.result]
    BY <1>2 DEF ApplyResult
  <1>6. PICK result : result = receipt.result
    OBVIOUS
  <1>7. result \in Outcomes
    BY <1>1, <1>5, <1>6, AdmissionAssumption DEF TypeInv
  <1>8. PICK v : v = [session.work[s] EXCEPT !.lapsed = FALSE, !.status = result]
    OBVIOUS
  <1>9. v \in Works /\ v.iteration = session.work[s].iteration /\ v.claim = session.work[s].claim
    BY <1>3, <1>7, <1>8, EndedWork
  <1>10. PICK links : links = session.links \cup {Current(s)}
    OBVIOUS
  <1>11. links \in SUBSET Operations
    BY <1>1, <1>3, <1>4, <1>10 DEF Sessions
  <1>12. session' = [session EXCEPT !.work[s] = v, !.links = links]
    BY <1>3, <1>4, <1>5, <1>6, <1>8, <1>10 DEF Sessions
  <1>13. Moves(s, v, links)
    BY <1>3, <1>9, <1>11, <1>12, WorkType
  <1> QED
    BY <1>1, <1>3, <1>4, <1>9, <1>10, <1>13

(* So does work a host answers itself, and links nothing.                  *)
LEMMA CompletedWork ==
    ASSUME TypeInv, NEW s \in Steps, NEW result \in Outcomes, CompleteStep(s, result)
    PROVE  \E v \in Works :
              /\ Moves(s, v, session.links)
              /\ v.iteration = session.work[s].iteration /\ v.claim = session.work[s].claim
  <1>1. session \in Sessions
    BY DEF TypeInv
  <1>2. PICK v : v = [session.work[s] EXCEPT !.lapsed = FALSE, !.status = result]
    OBVIOUS
  <1>3. v \in Works /\ v.iteration = session.work[s].iteration /\ v.claim = session.work[s].claim
    BY <1>2, EndedWork
  <1>4. session' = [session EXCEPT !.work[s] = v]
    BY <1>1, <1>2 DEF CompleteStep, Sessions
  <1> QED
    BY <1>3, <1>4, OneWorkType

(* A repetition goes on with the next iteration, unclaimed.                *)
LEMMA RepeatedWork ==
    ASSUME TypeInv, NEW s \in Steps, Repeat(s)
    PROVE  \E v \in Works : Moves(s, v, session.links) /\ v.claim = {}
  <1>1. session.work[s] \in Works
    BY DEF TypeInv, Sessions
  <1>2. PICK n : n = session.work[s].iteration + 1
    OBVIOUS
  <1>3. n \in 1..MaxIteration
    BY <1>1, <1>2, AdmissionAssumption DEF Repeat, Works
  <1>4. PICK v : v = [Fresh EXCEPT !.iteration = n]
    OBVIOUS
  <1>5. v \in Works /\ v.claim = {}
    BY <1>3, <1>4 DEF Fresh, Works
  <1>6. session' = [session EXCEPT !.work[s] = v]
    BY <1>2, <1>4 DEF Repeat
  <1> QED
    BY <1>5, <1>6, OneWorkType

(* A lapse leaves claim and iteration alone.                               *)
LEMMA LapsedWork ==
    ASSUME TypeInv, NEW s \in Steps, Lapse(s)
    PROVE  \E v \in Works :
              /\ Moves(s, v, session.links)
              /\ v.iteration = session.work[s].iteration /\ v.claim = session.work[s].claim
  <1>1. session \in Sessions /\ session.work[s] \in Works
    BY DEF TypeInv, Sessions
  <1>2. PICK v : v = [session.work[s] EXCEPT !.lapsed = TRUE]
    OBVIOUS
  <1>3. v \in Works /\ v.iteration = session.work[s].iteration /\ v.claim = session.work[s].claim
    BY <1>1, <1>2 DEF Works
  <1>4. session' = [session EXCEPT !.work[s] = v]
    BY <1>1, <1>2 DEF Lapse, Sessions
  <1> QED
    BY <1>3, <1>4, OneWorkType

(* Opening the session touches no work and no link.                        *)
LEMMA OpenedSession ==
    ASSUME TypeInv, NEW c \in Clients, OpenSession(c)
    PROVE  session' \in Sessions /\ session'.work = session.work /\ session'.links = session.links
  BY DEF TypeInv, OpenSession, Sessions

(* Every step keeps the types.                                             *)
LEMMA NextType == TypeInv /\ [Next]_vars => TypeInv'
  <1> SUFFICES ASSUME TypeInv, [Next]_vars PROVE TypeInv'
    OBVIOUS
  <1>1. ledger' \in Ledgers /\ \A x \in Operations : Single(ledger'.held[x])
    BY LedgerMoves
  <1>2. session' \in Sessions
    <2>1. CASE session' = session
      BY <2>1 DEF TypeInv
    <2>2. ASSUME NEW c \in Clients, OpenSession(c) \/ StartStep(c) \/ ApplyResult(c), session' # session
          PROVE  session' \in Sessions
      BY <2>2, OpenedSession, StartedWork, FinishedWork DEF Moves
    <2>3. ASSUME NEW s \in Steps, Repeat(s) \/ Lapse(s) \/ \E result \in Outcomes : CompleteStep(s, result)
          PROVE  session' \in Sessions
      BY <2>3, RepeatedWork, LapsedWork, CompletedWork DEF Moves
    <2> QED
      BY <2>1, <2>2, <2>3
      DEF Next, vars, OpenLedger, BeginClaim, BeginFinish, BeginMeter, LoadLedger, AppendLedger,
          Conflict, Crash
  <1>3. receipts' \in [Operations -> SUBSET ReceiptChoices]
    <2>1. CASE receipts' = receipts
      BY <2>1 DEF TypeInv
    <2>2. ASSUME NEW c \in Clients, NEW s \in Steps, NEW receipt \in ReceiptChoices, BeginFinish(c, s, receipt)
          PROVE  receipts' \in [Operations -> SUBSET ReceiptChoices]
      BY <2>2, CurrentType DEF BeginFinish, TypeInv
    <2> QED
      BY <2>1, <2>2
      DEF Next, vars, OpenLedger, OpenSession, BeginClaim, BeginMeter, LoadLedger, AppendLedger,
          Conflict, StartStep, ApplyResult, CompleteStep, Repeat, Lapse, Crash
  <1>4. client' \in [Clients -> ClientRecords] /\ \A x \in Clients : Prepared(client[x])'
    <2>1. CASE client' = client
      BY <2>1 DEF TypeInv
    <2>2. ASSUME NEW c \in Clients, NEW v, Becomes(c, v), v \in ClientRecords, Prepared(v)
          PROVE  client' \in [Clients -> ClientRecords] /\ \A x \in Clients : Prepared(client[x])'
      BY <2>2, BecomesType
    <2> QED
      BY <2>1, <2>2, ClientMoves, TakesAlong DEF Next, vars, CompleteStep, Repeat, Lapse
  <1> QED
    BY <1>1, <1>2, <1>3, <1>4 DEF TypeInv


(* The initial states have the types.                                      *)
LEMMA InitType == Init => TypeInv
  <1> SUFFICES ASSUME Init PROVE TypeInv
    OBVIOUS
  <1>1. Empty \in Ledgers /\ \A o \in Operations : Single(Empty.held[o])
    BY DEF Empty, Ledgers, Single
  <1>2. Fresh \in Works
    BY AdmissionAssumption DEF Fresh, Works
  <1> QED
    BY <1>1, <1>2, IdleType DEF Init, TypeInv, Sessions

(* Every step keeps the types, whatever the ledger decides and whoever     *)
(* dies in between.                                                        *)
LEMMA BudgetInvariant == Spec => []TypeInv
  BY InitType, NextType, PTL DEF Spec

(* The model's type invariant: the ledger, the session, the receipts and   *)
(* the clients are of their types, and a client at work on the ledger has  *)
(* an operation and an attempt left.                                       *)
THEOREM BudgetTypeCorrect == Spec => []TypeOK
  <1>1. TypeInv => TypeOK
    BY DEF TypeInv, TypeOK, Sessions, ClientRecords, Prepared
  <1> QED
    BY <1>1, BudgetInvariant, PTL

(* MeasurementsAdvance: no step, of however many claimants, finishers and  *)
(* meters, takes a reservation or a measurement out of the ledger, changes *)
(* what was asked for, replaces a measurement by one that knows less, or   *)
(* lets another receipt answer for it.                                     *)
THEOREM MeasurementsAreKept == Spec => MeasurementsAdvance
  <1>1. TypeInv /\ [Next]_vars =>
          [\A o \in Operations : \A r \in ledger.held[o] : \E n \in ledger'.held[o] :
             /\ n.estimate = r.estimate
             /\ \A m \in r.reconciled : \E k \in n.reconciled :
                   k.id = m.id /\ \A d \in Dimensions : k.measured[d].quality >= m.measured[d].quality]_vars
    BY LedgerMoves DEF AdvancesTo
  <1> QED
    BY <1>1, BudgetInvariant, PTL DEF Spec, MeasurementsAdvance

-----------------------------------------------------------------------------
(* Work is funded, and applied receipts are accounted for.                 *)

(* A receipt, once there, stays.                                           *)
LEMMA ReceiptsStay ==
    ASSUME TypeInv, [Next]_vars, NEW o \in Operations
    PROVE  receipts[o] \subseteq receipts'[o]
  <1>1. CASE receipts' = receipts
    BY <1>1
  <1>2. ASSUME NEW c \in Clients, NEW s \in Steps, NEW receipt \in ReceiptChoices, BeginFinish(c, s, receipt)
        PROVE  receipts[o] \subseteq receipts'[o]
    BY <1>2, CurrentType DEF BeginFinish, TypeInv
  <1> QED
    BY <1>1, <1>2
    DEF Next, vars, OpenLedger, OpenSession, BeginClaim, BeginMeter, LoadLedger, AppendLedger,
        Conflict, StartStep, ApplyResult, CompleteStep, Repeat, Lapse, Crash

(* What the ledger holds, and what it has accounted for, stays.            *)
LEMMA StaysHeld ==
    ASSUME TypeInv, [Next]_vars, NEW o \in Operations
    PROVE  /\ ledger.held[o] # {} => ledger'.held[o] # {}
           /\ \A q \in receipts[o] : Accounts(ledger, o, q) => q \in receipts'[o] /\ Accounts(ledger', o, q)
  <1>1. AdvancesTo(ledger, ledger') /\ ledger' \in Ledgers
    BY LedgerMoves
  <1>2. ledger.held[o] # {} => ledger'.held[o] # {}
    BY <1>1 DEF AdvancesTo
  <1>3. ASSUME NEW q \in receipts[o], Accounts(ledger, o, q) PROVE Accounts(ledger', o, q)
    <2>1. PICK r \in ledger.held[o] : \E m \in r.reconciled :
              m.id = OwnReceipt /\ \A d \in Dimensions : m.measured[d].quality >= q.measured[d].quality
      BY <1>3 DEF Accounts
    <2>2. PICK m \in r.reconciled :
              m.id = OwnReceipt /\ \A d \in Dimensions : m.measured[d].quality >= q.measured[d].quality
      BY <2>1
    <2>3. PICK n \in ledger'.held[o] : \E k \in n.reconciled :
              k.id = m.id /\ \A d \in Dimensions : k.measured[d].quality >= m.measured[d].quality
      BY <1>1 DEF AdvancesTo
    <2>4. PICK k \in n.reconciled :
              k.id = m.id /\ \A d \in Dimensions : k.measured[d].quality >= m.measured[d].quality
      BY <2>3
    <2>5. m.measured \in Measured
      BY HeldType
    <2>6. k.measured \in Measured
      <3>1. n \in Reservations
        BY <1>1 DEF Ledgers
      <3> QED
        BY <3>1 DEF Reservations
    <2>7. q.measured \in Measured
      BY AdmissionAssumption DEF TypeInv
    <2>8. \A d \in Dimensions : k.measured[d].quality >= q.measured[d].quality
      <3> SUFFICES ASSUME NEW d \in Dimensions PROVE k.measured[d].quality >= q.measured[d].quality
        OBVIOUS
      <3>1. k.measured[d].quality \in Nat /\ m.measured[d].quality \in Nat /\ q.measured[d].quality \in Nat
        BY <2>5, <2>6, <2>7, QualityType
      <3> QED
        BY <2>2, <2>4, <3>1
    <2> QED
      BY <2>2, <2>4, <2>8 DEF Accounts
  <1> QED
    BY <1>2, <1>3, ReceiptsStay

(* The clients go on being covered.                                        *)
LEMMA StaysCovered ==
    ASSUME TypeInv, FundedInv, [Next]_vars
    PROVE  \A c \in Clients : Covers(client'[c], ledger', receipts')
  <1>1. ASSUME NEW x \in Clients PROVE Covers(client[x], ledger', receipts')
    <2>1. Covers(client[x], ledger, receipts) /\ client[x].op \subseteq Operations
      BY DEF FundedInv, TypeInv, ClientRecords
    <2>2. \A o \in client[x].op : receipts[o] \subseteq receipts'[o]
      BY <2>1, ReceiptsStay
    <2> QED
      BY <2>1, <2>2, StaysHeld DEF Covers
  <1>2. ASSUME NEW c \in Clients, NEW v, Becomes(c, v),
               Covers(client[c], ledger, receipts) => Covers(v, ledger', receipts')
        PROVE  \A x \in Clients : Covers(client'[x], ledger', receipts')
    <2>1. client'[c] = v /\ \A x \in Clients \ {c} : client'[x] = client[x]
      BY <1>2 DEF Becomes, TypeInv
    <2>2. Covers(client'[c], ledger', receipts')
      BY <1>2, <2>1 DEF FundedInv
    <2> QED
      BY <1>1, <2>1, <2>2
  <1>3. CASE client' = client
    BY <1>1, <1>3
  <1> QED
    BY <1>2, <1>3, ClientMoves, TakesAlong DEF Next, vars, CompleteStep, Repeat, Lapse

(* The properties, of one step and of one operation.                       *)
Funded(s) == \A o \in session.work[s].claim : o = Current(s) /\ IsHeld(Current(s))

(* A step whose work goes on with the same claim and iteration.            *)
LEMMA StaysFunded ==
    ASSUME TypeInv, [Next]_vars, NEW s \in Steps, Funded(s),
           session'.work[s].iteration = session.work[s].iteration,
           session'.work[s].claim = session.work[s].claim
    PROVE  Funded(s)'
  <1>1. Current(s)' = Current(s) /\ Current(s) \in Operations
    BY CurrentType DEF Current
  <1>2. IsHeld(Current(s)) => ledger'.held[Current(s)] # {}
    BY <1>1, StaysHeld DEF IsHeld
  <1> QED
    BY <1>1, <1>2 DEF Funded, IsHeld

(* Every step keeps work funded and applied receipts accounted for.        *)
LEMMA NextFunded == TypeInv /\ FundedInv /\ [Next]_vars => FundedInv'
  <1> SUFFICES ASSUME TypeInv, FundedInv, [Next]_vars PROVE FundedInv'
    OBVIOUS
  <1>1. \A s \in Steps : Funded(s)
    BY DEF FundedInv, WorkIsFunded, Funded, IsHeld
  <1>2. \A o \in session.links : \E q \in receipts'[o] : Accounts(ledger', o, q)
    <2>1. \A o \in session.links : o \in Operations /\ \E q \in receipts[o] : Accounts(ledger, o, q)
      BY DEF FundedInv, AppliedIsAccounted, Accounts, TypeInv, Sessions
    <2> QED
      BY <2>1, StaysHeld
  <1>3. \A c \in Clients : Covers(client'[c], ledger', receipts')
    BY StaysCovered
  <1> DEFINE Settled == \A o \in session'.links : \E q \in receipts'[o] : Accounts(ledger', o, q)
  <1>4. SUFFICES (\A s \in Steps : Funded(s)') /\ Settled
    <2>1. WorkIsFunded' /\ AppliedIsAccounted'
      BY DEF WorkIsFunded, AppliedIsAccounted, Accounts, Funded, IsHeld
    <2> QED
      BY <1>3, <2>1 DEF FundedInv
  <1>5. ASSUME NEW s \in Steps, session'.work[s] = session.work[s] PROVE Funded(s)'
    BY <1>1, <1>5, StaysFunded
  <1>6. CASE session'.work = session.work /\ session'.links = session.links
    BY <1>2, <1>5, <1>6
  <1>7. ASSUME NEW s \in Steps, NEW v, Moves(s, v, session.links), Funded(s)'
        PROVE  (\A x \in Steps : Funded(x)') /\ Settled
    BY <1>2, <1>5, <1>7 DEF Moves
  <1>8. ASSUME NEW c \in Clients, StartStep(c), session' # session
        PROVE  (\A x \in Steps : Funded(x)') /\ Settled
    <2>1. PICK s \in Steps, v \in Works :
              /\ Moves(s, v, session.links)
              /\ v.iteration = session.work[s].iteration
              /\ v.claim = {Current(s)} /\ client[c].op = {Current(s)}
      BY <1>8, StartedWork
    <2>2. session'.work[s].claim = {Current(s)} /\ session'.work[s].iteration = session.work[s].iteration
      BY <2>1 DEF Moves
    <2>3. Current(s)' = Current(s) /\ ledger' = ledger
      BY <1>8, <2>2 DEF Current, StartStep
    <2>4. ledger.held[Current(s)] # {}
      BY <1>8, <2>1 DEF FundedInv, Covers, StartStep
    <2>5. Funded(s)'
      BY <2>2, <2>3, <2>4 DEF Funded, IsHeld
    <2> QED
      BY <1>7, <2>1, <2>5
  <1>9. ASSUME NEW c \in Clients, ApplyResult(c), session' # session
        PROVE  (\A x \in Steps : Funded(x)') /\ Settled
    <2>1. PICK s \in Steps, v \in Works :
              /\ Moves(s, v, session.links \cup {Current(s)})
              /\ v.iteration = session.work[s].iteration /\ v.claim = session.work[s].claim
              /\ client[c].op = {Current(s)}
      BY <1>9, FinishedWork
    <2>2. \A x \in Steps : Funded(x)'
      <3>1. Funded(s)'
        BY <1>1, <2>1, StaysFunded DEF Moves
      <3> QED
        BY <1>5, <2>1, <3>1 DEF Moves
    <2>3. ledger' = ledger /\ receipts' = receipts /\ client[c].phase = "apply"
      BY <1>9 DEF ApplyResult
    <2>4. \E q \in receipts'[Current(s)] : Accounts(ledger', Current(s), q)
      BY <2>1, <2>3 DEF FundedInv, Covers
    <2>5. Settled
      BY <1>2, <2>1, <2>4 DEF Moves
    <2> QED
      BY <2>2, <2>5
  <1>10. ASSUME NEW s \in Steps, Repeat(s) PROVE (\A x \in Steps : Funded(x)') /\ Settled
    <2>1. PICK v \in Works : Moves(s, v, session.links) /\ v.claim = {}
      BY <1>10, RepeatedWork
    <2>2. Funded(s)'
      BY <2>1 DEF Moves, Funded
    <2> QED
      BY <1>7, <2>1, <2>2
  <1>11. ASSUME NEW s \in Steps, Lapse(s) \/ \E result \in Outcomes : CompleteStep(s, result)
         PROVE  (\A x \in Steps : Funded(x)') /\ Settled
    <2>1. PICK v \in Works :
              /\ Moves(s, v, session.links)
              /\ v.iteration = session.work[s].iteration /\ v.claim = session.work[s].claim
      BY <1>11, LapsedWork, CompletedWork
    <2>2. Funded(s)'
      BY <1>1, <2>1, StaysFunded DEF Moves
    <2> QED
      BY <1>7, <2>1, <2>2
  <1>12. ASSUME NEW c \in Clients, OpenSession(c)
         PROVE  session'.work = session.work /\ session'.links = session.links
    BY <1>12, OpenedSession
  <1> QED
    BY <1>6, <1>8, <1>9, <1>10, <1>11, <1>12
    DEF Next, vars, OpenLedger, BeginClaim, BeginFinish, BeginMeter, LoadLedger, AppendLedger,
        Conflict, Crash

(* The admission invariant holds in every behaviour.                       *)
LEMMA AdmissionInvariant == Spec => [](TypeInv /\ FundedInv)
  <1>1. Init => FundedInv
    BY DEF Init, FundedInv, WorkIsFunded, AppliedIsAccounted, Covers, Fresh, Idle
  <1>2. Init => TypeInv
    BY InitType
  <1> QED
    BY <1>1, <1>2, NextType, NextFunded, PTL DEF Spec

(* WorkIsFunded: whatever others did between the reservation and the start *)
(* of the step, the work that is under way has a reservation of its own in *)
(* the ledger.                                                             *)
THEOREM FundingHolds == Spec => []WorkIsFunded
  <1>1. FundedInv => WorkIsFunded
    BY DEF FundedInv
  <1> QED
    BY <1>1, AdmissionInvariant, PTL

(* AppliedIsAccounted: no receipt is applied to the session before the     *)
(* ledger carries, under that receipt's id, at least what it measured, and *)
(* that stays so whatever is reconciled afterwards.                        *)
THEOREM ResultsAreAccounted == Spec => []AppliedIsAccounted
  <1>1. FundedInv => AppliedIsAccounted
    BY DEF FundedInv
  <1> QED
    BY <1>1, AdmissionInvariant, PTL

-----------------------------------------------------------------------------
(* What is charged is a sum, whatever the order it is added up in.         *)

(* The sums of the weights over the subsets of a set: any element may be   *)
(* the last one added.                                                     *)
Additive(f, w, S) ==
    /\ f \in [SUBSET S -> Nat] /\ f[{}] = 0
    /\ \A T \in SUBSET S : \A x \in T : f[T] = f[T \ {x}] + w[x]

(* Of a family of finite sets there is a smallest.                         *)
LEMMA SmallestSet ==
    ASSUME NEW F, F # {}, \A T \in F : IsFiniteSet(T)
    PROVE  \E T \in F : \A x \in T : T \ {x} \notin F
  <1> DEFINE R == OpToRel(<, Nat)
             sizes == {Cardinality(T) : T \in F}
  <1>1. sizes \in SUBSET Nat /\ sizes # {}
    BY FS_CardinalityType
  <1>2. IsWellFoundedOn(R, Nat)
    BY NatLessThanWellFounded
  <1>3. \A x, y \in Nat : x < y => <<x, y>> \in R
    BY DEF OpToRel
  <1> HIDE DEF R
  <1>4. PICK n \in sizes : \A k \in sizes : ~(<<k, n>> \in R)
    <2> HIDE DEF sizes
    <2> QED BY <1>1, <1>2, WFMin
  <1>5. \A k \in sizes : ~(k < n)
    <2> HIDE DEF sizes
    <2>1. n \in Nat /\ \A k \in sizes : k \in Nat
      BY <1>1
    <2> QED BY <1>3, <1>4, <2>1, Zenon
  <1>6. PICK T \in F : n = Cardinality(T)
    OBVIOUS
  <1>7. ASSUME NEW x \in T, T \ {x} \in F PROVE FALSE
    <2>1. Cardinality(T \ {x}) = Cardinality(T) - 1 /\ Cardinality(T) \in Nat
      BY <1>6, FS_RemoveElement, FS_CardinalityType
    <2>2. ~(Cardinality(T \ {x}) < n)
      BY <1>5, <1>7
    <2> QED BY <1>6, <2>1, <2>2
  <1> QED BY <1>6, <1>7

(* Sums exist over every finite set.                                       *)
LEMMA SumsExist ==
    ASSUME NEW S, IsFiniteSet(S), NEW w \in [S -> Nat]
    PROVE  \E f : Additive(f, w, S)
  <1> DEFINE bad == {T \in SUBSET S : ~\E f : Additive(f, w, T)}
  <1>1. SUFFICES ASSUME bad # {} PROVE FALSE
    OBVIOUS
  <1>2. \A T \in bad : IsFiniteSet(T)
    BY FS_Subset
  <1>3. PICK T \in bad : \A x \in T : T \ {x} \notin bad
    <2> HIDE DEF bad
    <2> QED BY <1>1, <1>2, SmallestSet
  <1>4. T \in SUBSET S /\ ~\E f : Additive(f, w, T)
    OBVIOUS
  <1>5. CASE T = {}
    <2> DEFINE f == [U \in SUBSET T |-> 0]
    <2>1. Additive(f, w, T)
      BY <1>5 DEF Additive
    <2> QED BY <1>4, <2>1
  <1>6. CASE T # {}
    <2>1. PICK x : x \in T
      BY <1>6
    <2>2. PICK g : Additive(g, w, T \ {x})
      BY <1>3, <1>4, <2>1
    <2> DEFINE f == [U \in SUBSET T |-> IF x \in U THEN g[U \ {x}] + w[x] ELSE g[U]]
    <2>3. w[x] \in Nat /\ \A U \in SUBSET (T \ {x}) : g[U] \in Nat
      BY <1>4, <2>1, <2>2 DEF Additive
    <2>4. f \in [SUBSET T -> Nat]
      <3>1. \A U \in SUBSET T : U \ {x} \in SUBSET (T \ {x}) /\ (x \notin U => U \in SUBSET (T \ {x}))
        OBVIOUS
      <3> QED BY <2>3, <3>1
    <2>5. f[{}] = 0
      BY <2>2 DEF Additive
    <2>6. ASSUME NEW U \in SUBSET T, NEW y \in U PROVE f[U] = f[U \ {y}] + w[y]
      <3>1. w[y] \in Nat /\ U \ {y} \in SUBSET T
        BY <1>4
      <3>2. CASE x \notin U
        <4>1. U \in SUBSET (T \ {x}) /\ x \notin U \ {y}
          BY <3>2
        <4>2. g[U] = g[U \ {y}] + w[y]
          BY <2>2, <4>1 DEF Additive
        <4> QED BY <3>1, <3>2, <4>1, <4>2
      <3>3. CASE y = x
        BY <3>1, <3>3
      <3>4. CASE x \in U /\ y # x
        <4>1. /\ U \ {x} \in SUBSET (T \ {x}) /\ y \in U \ {x} /\ x \in U \ {y}
              /\ (U \ {x}) \ {y} = (U \ {y}) \ {x} /\ (U \ {y}) \ {x} \in SUBSET (T \ {x})
          BY <3>4
        <4>2. g[U \ {x}] = g[(U \ {y}) \ {x}] + w[y]
          BY <2>2, <4>1 DEF Additive
        <4>3. f[U] = g[U \ {x}] + w[x] /\ f[U \ {y}] = g[(U \ {y}) \ {x}] + w[x]
          BY <3>1, <3>4, <4>1
        <4>4. g[(U \ {y}) \ {x}] \in Nat
          BY <2>3, <4>1
        <4> HIDE DEF f
        <4> QED BY <2>3, <3>1, <4>2, <4>3, <4>4
      <3> QED BY <3>2, <3>3, <3>4
    <2>7. Additive(f, w, T)
      <3> HIDE DEF f
      <3> QED BY <2>4, <2>5, <2>6 DEF Additive
    <2> QED BY <1>4, <2>7
  <1> QED BY <1>5, <1>6

(* The fold takes the elements out in an order of its own.                 *)
Taken(T) == CHOOSE x \in T : TRUE
Adds(f, w, S) == f = [T \in SUBSET S |-> IF T = {} THEN 0 ELSE f[T \ {Taken(T)}] + w[Taken(T)]]

(* Whatever adds up in that order has the sums.                            *)
LEMMA AddsUp ==
    ASSUME NEW S, IsFiniteSet(S), NEW w \in [S -> Nat], NEW f, Additive(f, w, S)
    PROVE  Adds(f, w, S) /\ \A g : Adds(g, w, S) => g[S] = f[S]
  <1>1. Adds(f, w, S)
    <2>1. f = [T \in SUBSET S |-> f[T]]
      BY DEF Additive
    <2>2. \A T \in SUBSET S : T # {} => Taken(T) \in T
      BY DEF Taken
    <2>3. \A T \in SUBSET S : f[T] = IF T = {} THEN 0 ELSE f[T \ {Taken(T)}] + w[Taken(T)]
      BY <2>2 DEF Additive
    <2> QED BY <2>1, <2>3 DEF Adds
  <1>2. ASSUME NEW g, Adds(g, w, S) PROVE g[S] = f[S]
    <2> DEFINE bad == {T \in SUBSET S : g[T] # f[T]}
    <2>1. SUFFICES ASSUME bad # {} PROVE FALSE
      OBVIOUS
    <2>2. \A T \in bad : IsFiniteSet(T)
      BY FS_Subset
    <2>3. PICK T \in bad : \A x \in T : T \ {x} \notin bad
      <3> HIDE DEF bad
      <3> QED BY <2>1, <2>2, SmallestSet
    <2>4. T \in SUBSET S /\ g[T] # f[T]
      OBVIOUS
    <2>5. g[T] = (IF T = {} THEN 0 ELSE g[T \ {Taken(T)}] + w[Taken(T)])
      BY <1>2, <2>4 DEF Adds
    <2>6. f[T] = (IF T = {} THEN 0 ELSE f[T \ {Taken(T)}] + w[Taken(T)])
      BY <1>1, <2>4 DEF Adds
    <2>7. T # {} /\ Taken(T) \in T
      BY <2>4, <2>5, <2>6 DEF Taken
    <2>8. g[T \ {Taken(T)}] = f[T \ {Taken(T)}]
      BY <2>3, <2>4, <2>7
    <2> QED BY <2>4, <2>5, <2>6, <2>7, <2>8
  <1> QED BY <1>1, <1>2

HeldOps(l) == {o \in Operations : l.held[o] # {}}
Charges(l, d) == [o \in HeldOps(l) |-> Charge(Held(l, o), d)]

(* What is charged is the sum of the charges.                              *)
LEMMA ChargedIs ==
    ASSUME NEW l, NEW d, IsFiniteSet(HeldOps(l)), Charges(l, d) \in [HeldOps(l) -> Nat],
           NEW f, Additive(f, Charges(l, d), HeldOps(l))
    PROVE  Charged(l, d) = f[HeldOps(l)]
  <1> DEFINE S == HeldOps(l)
             it[T \in SUBSET S] == IF T = {} THEN 0 ELSE it[T \ {Taken(T)}] + Charge(Held(l, Taken(T)), d)
  <1>1. Charged(l, d) = it[S]
    BY DEF Charged, FoldSet, MapThenFoldSet, Taken, HeldOps
  <1>2. PICK w : w = Charges(l, d)
    OBVIOUS
  <1>3. \A T \in SUBSET S : T # {} => Charge(Held(l, Taken(T)), d) = w[Taken(T)]
    BY <1>2 DEF Charges, Taken
  <1>4. it = CHOOSE g : g = [T \in SUBSET S |->
                IF T = {} THEN 0 ELSE g[T \ {Taken(T)}] + Charge(Held(l, Taken(T)), d)]
    OBVIOUS
  <1> HIDE DEF it
  <1>5. \A g : Adds(g, w, S) <=> g = [T \in SUBSET S |->
                IF T = {} THEN 0 ELSE g[T \ {Taken(T)}] + Charge(Held(l, Taken(T)), d)]
    BY <1>3 DEF Adds
  <1>6. Adds(f, w, S) /\ \A g : Adds(g, w, S) => g[S] = f[S]
    <2> HIDE DEF S
    <2>1. S = HeldOps(l) BY DEF S
    <2> QED BY <1>2, <2>1, AddsUp
  <1>7. Adds(it, w, S)
    BY <1>4, <1>5, <1>6
  <1> QED BY <1>1, <1>6, <1>7

(* Two ledgers that charge alike, but for one more operation in the second.*)
LEMMA ChargedMore ==
    ASSUME NEW l, NEW n, NEW d, NEW o, o \notin HeldOps(l), HeldOps(n) = HeldOps(l) \cup {o},
           IsFiniteSet(HeldOps(l)), Charges(n, d) \in [HeldOps(n) -> Nat],
           \A x \in HeldOps(l) : Charges(l, d)[x] = Charges(n, d)[x]
    PROVE  Charged(n, d) = Charged(l, d) + Charges(n, d)[o]
  <1>1. PICK S, T, v, w : S = HeldOps(l) /\ T = HeldOps(n) /\ v = Charges(l, d) /\ w = Charges(n, d)
    OBVIOUS
  <1>2. v \in [S -> Nat] /\ w \in [T -> Nat] /\ T = S \cup {o} /\ o \notin S
    <2>1. v = [x \in S |-> v[x]]
      BY <1>1 DEF Charges
    <2> QED BY <1>1, <2>1
  <1>3. IsFiniteSet(S) /\ IsFiniteSet(T)
    BY <1>1, <1>2, FS_AddElement
  <1>4. PICK f : Additive(f, w, T)
    BY <1>2, <1>3, SumsExist
  <1> DEFINE g == [U \in SUBSET S |-> f[U]]
  <1>5. Additive(g, v, S)
    <2>1. g \in [SUBSET S -> Nat] /\ g[{}] = 0
      BY <1>2, <1>4 DEF Additive
    <2>2. ASSUME NEW U \in SUBSET S, NEW x \in U PROVE g[U] = g[U \ {x}] + v[x]
      <3>1. U \in SUBSET T /\ U \ {x} \in SUBSET S /\ v[x] = w[x]
        BY <1>1, <1>2
      <3>2. f[U] = f[U \ {x}] + w[x]
        BY <1>4, <3>1 DEF Additive
      <3> QED BY <3>1, <3>2
    <2> HIDE DEF g
    <2> QED BY <2>1, <2>2 DEF Additive
  <1>6. Charged(l, d) = g[S]
    <2> HIDE DEF g
    <2> QED BY <1>1, <1>2, <1>3, <1>5, ChargedIs
  <1>7. Charged(n, d) = f[T]
    BY <1>1, <1>2, <1>3, <1>4, ChargedIs
  <1>8. f[T] = f[S] + w[o]
    <2>1. T \in SUBSET T /\ o \in T /\ T \ {o} = S
      BY <1>2
    <2> QED BY <1>4, <2>1 DEF Additive
  <1> QED BY <1>1, <1>6, <1>7, <1>8

(* A reservation charges an amount.                                        *)
LEMMA ChargeType ==
    ASSUME NEW r \in Reservations, NEW d \in Dimensions PROVE Charge(r, d) \in Nat
  <1>1. \A m \in Measured : m[d].amount \in Nat
    BY AmountAssumption DEF Measured, Measurements, Unknown, Amounts
  <1>2. r.estimate \in Measured /\ \A m \in r.reconciled : m.measured \in Measured
    BY DEF Reservations
  <1>3. CASE \E m \in r.reconciled : m.measured[d] # Unknown
    <2>1. PICK k : k = CHOOSE m \in r.reconciled : TRUE
      OBVIOUS
    <2>2. k \in r.reconciled
      BY <1>3, <2>1
    <2>3. Charge(r, d) = k.measured[d].amount
      BY <1>3, <2>1 DEF Charge
    <2> QED BY <1>1, <1>2, <2>2, <2>3
  <1>4. CASE ~\E m \in r.reconciled : m.measured[d] # Unknown
    BY <1>1, <1>2, <1>4 DEF Charge, Requested
  <1> QED BY <1>3, <1>4

(* So every operation a ledger holds charges an amount.                    *)
LEMMA ChargesType ==
    ASSUME NEW l \in Ledgers, NEW d \in Dimensions
    PROVE  Charges(l, d) \in [HeldOps(l) -> Nat]
  <1>1. ASSUME NEW o \in HeldOps(l) PROVE Charge(Held(l, o), d) \in Nat
    <2>1. l.held[o] # {} /\ l.held[o] \subseteq Reservations
      BY DEF HeldOps, Ledgers
    <2>2. Held(l, o) \in l.held[o]
      BY <2>1 DEF Held
    <2> QED BY <2>1, <2>2, ChargeType
  <1> QED BY <1>1 DEF Charges

(* An admitted reservation fits.                                           *)
LEMMA ReservedFits ==
    ASSUME TypeInv, IsFiniteSet(HeldOps(ledger)), NEW o \in Operations, NEW estimate \in Estimates,
           DecideReserve(ledger, o, estimate) = "event", NEW l, l = Reserved(ledger, o, estimate)
    PROVE  /\ HeldOps(l) = HeldOps(ledger) \cup {o}
           /\ \A d \in Dimensions : Charged(l, d) <= LimitsOf(l)[d].amount
  <1> DEFINE r == [estimate |-> estimate, reconciled |-> {}]
  <1>1. r \in Reservations
    BY AdmissionAssumption DEF Reservations
  <1>2. r.estimate = estimate /\ r.reconciled = {}
    OBVIOUS
  <1>3. ledger.held[o] = {} /\ EnsureCapacity(ledger, estimate)
    BY DEF DecideReserve
  <1>4. l = [ledger EXCEPT !.held[o] = {r}, !.version = @ + 1]
    BY DEF Reserved
  <1> HIDE DEF r
  <1>5. /\ l \in Ledgers /\ l.held[o] = {r}
        /\ \A x \in Operations \ {o} : l.held[x] = ledger.held[x]
        /\ \A x \in Operations : Single(l.held[x])
    BY <1>1, <1>4, ReplacedLedger
  <1>6. LimitsOf(l) = LimitsOf(ledger)
    <2>1. l.limits = ledger.limits
      BY <1>4 DEF TypeInv, Ledgers
    <2> QED BY <2>1 DEF LimitsOf
  <1>7. HeldOps(l) = HeldOps(ledger) \cup {o} /\ o \notin HeldOps(ledger)
    BY <1>3, <1>5 DEF HeldOps
  <1>8. ASSUME NEW d \in Dimensions PROVE Charged(l, d) <= LimitsOf(l)[d].amount
    <2>1. Charges(l, d) \in [HeldOps(l) -> Nat]
      BY <1>5, ChargesType
    <2>2. \A x \in HeldOps(ledger) : Charges(ledger, d)[x] = Charges(l, d)[x]
      <3>1. \A x \in HeldOps(ledger) : Held(l, x) = Held(ledger, x) /\ x \in HeldOps(l)
        BY <1>5, <1>7 DEF Held, HeldOps
      <3> QED BY <3>1 DEF Charges
    <2>3. Charges(l, d)[o] = Requested(estimate, d)
      <3>1. Held(l, o) = r /\ o \in HeldOps(l)
        BY <1>5, <1>7 DEF Held
      <3>2. Charge(r, d) = Requested(estimate, d)
        BY <1>2 DEF Charge
      <3> QED BY <3>1, <3>2 DEF Charges
    <2>4. Charged(l, d) = Charged(ledger, d) + Charges(l, d)[o]
      BY <1>7, <2>1, <2>2, ChargedMore
    <2> QED BY <1>3, <1>6, <2>3, <2>4 DEF EnsureCapacity
  <1> QED BY <1>7, <1>8

(* What a step newly holds was admitted, and fits.                         *)
LEMMA StepFits ==
    ASSUME TypeInv, IsFiniteSet(HeldOps(ledger)), [Next]_vars
    PROVE  /\ IsFiniteSet(HeldOps(ledger'))
           /\ \A o \in Operations : ledger.held[o] = {} /\ ledger'.held[o] # {} =>
                 \A d \in Dimensions : Charged(ledger', d) <= LimitsOf(ledger')[d].amount
  <1>1. CASE \A x \in Operations : ledger'.held[x] # {} => ledger.held[x] # {}
    <2>1. HeldOps(ledger') \in SUBSET HeldOps(ledger)
      BY <1>1 DEF HeldOps
    <2> QED BY <1>1, <2>1, FS_Subset
  <1>2. CASE UNCHANGED ledger
    BY <1>1, <1>2
  <1>3. ASSUME NEW c \in Clients, NEW limits \in LimitChoices, OpenLedger(c, limits)
        PROVE  ledger'.held = ledger.held
    <2>1. CASE ledger' = ledger
      BY <2>1
    <2>2. CASE ledger' = Opened(ledger, limits)
      BY <2>2, OpenedLedger
    <2> QED BY <1>3, <2>1, <2>2 DEF OpenLedger
  <1>4. ASSUME NEW c \in Clients, AppendLedger(c), client[c].event.kind = "reserve"
        PROVE  /\ HeldOps(ledger') = HeldOps(ledger) \cup {Op(c)}
               /\ \A d \in Dimensions : Charged(ledger', d) <= LimitsOf(ledger')[d].amount
    <2>1. /\ Op(c) \in Operations /\ client[c].event.estimate \in Estimates
          /\ DecideReserve(ledger, Op(c), client[c].event.estimate) = "event"
          /\ ledger' = Reserved(ledger, Op(c), client[c].event.estimate)
      BY <1>4, OpType, EventType DEF AppendLedger, Appends, Decide
    <2> QED BY <2>1, ReservedFits
  <1>5. ASSUME NEW c \in Clients, AppendLedger(c), client[c].event.kind # "reserve"
        PROVE  \A x \in Operations : ledger'.held[x] # {} => ledger.held[x] # {}
    <2>1. PICK id, measured :
            /\ DecideReconcile(ledger, Op(c), id, measured) = "event"
            /\ ledger' = Reconciled(ledger, Op(c), id, measured)
      BY <1>5 DEF AppendLedger, Appends, Decide
    <2>2. ledger.held[Op(c)] # {}
      BY <2>1 DEF DecideReconcile
    <2>3. \A x \in Operations : x # Op(c) => ledger'.held[x] = ledger.held[x]
      BY <2>1 DEF Reconciled, TypeInv, Ledgers
    <2> QED BY <2>2, <2>3
  <1>6. ASSUME NEW c \in Clients, AppendLedger(c), client[c].event.kind = "reserve"
        PROVE  IsFiniteSet(HeldOps(ledger'))
    BY <1>4, <1>6, FS_AddElement
  <1> QED
    BY <1>1, <1>2, <1>3, <1>4, <1>5, <1>6
    DEF Next, vars, OpenSession, BeginClaim, BeginFinish, BeginMeter, LoadLedger, Conflict,
        StartStep, ApplyResult, CompleteStep, Repeat, Lapse, Crash

(* LedgerKeepsItsWord: whatever the claimants read before, no reservation  *)
(* is admitted that takes what is charged, added up over everything the    *)
(* ledger holds, beyond the limit of any dimension, and no measurement is  *)
(* taken back.                                                             *)
THEOREM LedgerKeepsWord == Spec => LedgerKeepsItsWord
  <1> DEFINE Finite == IsFiniteSet(HeldOps(ledger))
             Fits == \A o \in Operations : ledger.held[o] = {} /\ ledger'.held[o] # {} =>
                        \A d \in Dimensions : Charged(ledger', d) <= LimitsOf(ledger')[d].amount
  <1>1. Init => Finite
    <2>1. Init => HeldOps(ledger) = {}
      BY DEF Init, Empty, HeldOps
    <2> QED BY <2>1, FS_EmptySet
  <1>2. TypeInv /\ Finite /\ [Next]_vars => Finite' /\ [Fits]_vars
    BY StepFits
  <1>3. Spec => AdmissionFits
    <2>1. AdmissionFits <=> [][Fits]_vars
      BY PTL DEF AdmissionFits
    <2> HIDE DEF Finite, Fits
    <2> QED BY <1>1, <1>2, <2>1, BudgetInvariant, PTL DEF Spec
  <1> QED
    BY <1>3, MeasurementsAreKept DEF LedgerKeepsItsWord
=============================================================================
