------------------------ MODULE IntegratorLoopProofs ------------------------
(***************************************************************************)
(* Proofs about the integrator attention loop, for any number of hosts,    *)
(* workers, projectors, bindings and news.                                 *)
(*                                                                         *)
(* Everything rests on what a step may do to one delivery of the ledger:   *)
(* offer it where there was none, or move one that has not ended, and then *)
(* not back to where a host could take it (unless the step is a late wake) *)
(* and to "processed" only for a binding that has the right to close it.   *)
(***************************************************************************)
EXTENDS IntegratorLoop, WellFoundedInduction, FiniteSetTheorems, TLAPS

-----------------------------------------------------------------------------
(* The invariant.                                                          *)

Bindings == [id : BindingIds, incarnation : Incarnations, fence : Nat, live : BOOLEAN]

Active == {"offer", "shed", "news", "wake_overflow", "wake", "done", "failing", "set_aside"}

HeldItems == [item : Items, lease : Leases \cup {0}]

Rounds == [phase : Active \cup {"idle", "walk"}, id : BindingIds \cup {NoBinding},
           held : SUBSET HeldItems, item : Items \cup {NoItem}, withholding : BOOLEAN]

Cursors == [position : 0..MaxNews, holder : Projectors \cup {NobodyWalks},
            attempt : 0..MaxOffers, setAside : SUBSET (1..MaxNews)]

Misses == [BindingIds -> [1..MaxNews -> 0..MaxOffers]]

WorkerStates == [call : {"none", "take", "intent", "processed", "failed"},
                 stage : {"free", "held", "acked"}, slot : Slots \cup {NoItem},
                 lease : Leases \cup {0}]

Standings == [phase : {"away", "moving", "bound"}, seat : Nat,
              from : BindingIds \cup {NoBinding}, follow : BOOLEAN]

TypeInv ==
    /\ feed \in 0..MaxNews /\ toEnd \in BOOLEAN /\ mishaps \in 0..MaxMishaps
    /\ lapsed \subseteq Leases /\ lateWakes \subseteq Slots
    /\ bindings \in Seq(Bindings) /\ Len(bindings) <= MaxBindings
    /\ ledger \in [Slots -> Deliveries \cup {NoDelivery}]
    /\ cursor \in [BindingIds -> Cursors]
    /\ round \in [Projectors -> Rounds]
    /\ worker \in [Workers -> WorkerStates]
    /\ binder \in [Incarnations -> Standings]
    /\ spent \subseteq BindingIds /\ missed \in Misses

(* One binding is in force, and fences are handed out one by one.          *)
BindingsOK ==
    /\ \A i, j \in LiveSeats : i = j
    /\ \A i \in DOMAIN bindings : bindings[i].fence \in 1..i

BinderOK(b) ==
    /\ b.phase = "away" => b.from = NoBinding /\ b.seat = 0
    /\ b.phase # "away" => b.seat \in 1..Len(bindings)

(* A delivery that has not ended has attempts left, and one that may not   *)
(* be dropped was not dropped for want of room.                            *)
DeliveryOK(s) ==
    Held(s) => /\ ~IsTerminal(ledger[s]) => ledger[s].attempt < MaxAttempts
               /\ IsBlocking(s[1]) => ledger[s].cause # "overflow"

(* What a projector knows of the ledger in each phase of its round.        *)
RoundOK(r) ==
    /\ r.phase # "idle" => r.id \in BindingIds
    /\ r.phase \in {"idle", "walk"} => r.item = NoItem
    /\ r.phase = "idle" => r.held = {}
    /\ r.phase \in Active => \E k \in 1..MaxNews : r.item = News(k)
    /\ \A h \in r.held : Held(<<h.item, r.id>>)
    /\ r.phase = "wake" => Held(<<r.item, r.id>>)
    /\ r.phase = "done" => Held(<<r.item, r.id>>) \/ (~IsBlocking(r.item) /\ r.id \in spent)
    /\ r.phase = "wake_overflow" => Held(<<Overflow(r.item[1]), r.id>>)
    /\ r.withholding => r.id \in spent

(* Whoever still holds the cursor works on the position after it, and sets *)
(* it aside if its offers failed often enough.                             *)
Walks(r, p, id) == r.phase \in Active /\ r.id = id /\ cursor[id].holder = p
HolderOK(r, p) ==
    \A id \in BindingIds : Walks(r, p, id) =>
        /\ r.item = News(cursor[id].position + 1)
        /\ r.phase = "set_aside" <=> cursor[id].attempt = MaxOffers
        /\ r.phase = "failing" => cursor[id].attempt < missed[id][cursor[id].position + 1]

(* A failure the cursor counts is one the position met, and a position     *)
(* behind it was offered, set aside for its failures, or withheld.         *)
CountsOK(id) ==
    cursor[id].position < MaxNews => cursor[id].attempt <= missed[id][cursor[id].position + 1]

Passed(id, k) ==
    \/ Held(<<News(k), id>>)
    \/ k \in cursor[id].setAside /\ missed[id][k] = MaxOffers
    \/ k \notin Blocking /\ id \in spent

CursorOK ==
    \A id \in BindingIds : CountsOK(id) /\ \A k \in 1..cursor[id].position : Passed(id, k)

(* The bindings for which a delivery may be closed, and the deliveries     *)
(* nobody closes for any other: those that ended.                          *)
MayClose(id) ==
    \/ \E i \in LiveSeats : bindings[i].id = id
    \/ \E n \in Incarnations : binder[n].from = id

WorkerOK(x, n) ==
    /\ x.call # "none" \/ x.stage # "free" => binder[n].phase = "bound"
    /\ x.stage = "free" => x.slot = NoItem /\ x.call \in {"none", "take"}
    /\ x.stage # "free" => x.slot \in Slots /\ Held(x.slot) /\ x.slot[2] = Seat(n).id
    /\ x.stage = "acked" /\ x.slot \notin lateWakes => ledger[x.slot].state \notin Waiting
    /\ x.call \in {"intent", "failed"} => x.stage = "held"
    /\ x.call = "processed" =>
         x.stage = "acked" /\ (MayClose(x.slot[2]) \/ IsTerminal(ledger[x.slot]))

BindersOK == \A n \in Incarnations : BinderOK(binder[n])
LedgerOK == \A s \in Slots : DeliveryOK(s)
RoundsOK == \A p \in Projectors : RoundOK(round[p]) /\ HolderOK(round[p], p)
WorkersOK == \A w \in Workers : WorkerOK(worker[w], IncarnationOf[w])

IInv ==
    /\ TypeInv /\ BindingsOK /\ BindersOK /\ LedgerOK /\ RoundsOK /\ CursorOK
    /\ WorkersOK /\ OneActor

-----------------------------------------------------------------------------
(* The least of a set of numbers is one of them.                           *)
LEMMA MinIs ==
    ASSUME NEW S \in SUBSET Nat, S # {}
    PROVE  Min(S) \in S
  <1>1. \E x \in S : \A y \in S : x <= y
    <2> DEFINE R == OpToRel(<, Nat)
    <2>1. IsWellFoundedOn(R, Nat)
      BY NatLessThanWellFounded
    <2>2. \A x, y \in Nat : x < y => <<x, y>> \in R
      BY DEF OpToRel
    <2> HIDE DEF R
    <2>3. PICK x \in S : \A y \in S : ~(<<y, x>> \in R)
      BY <2>1, WFMin
    <2>4. x \in Nat /\ \A y \in S : y \in Nat
      OBVIOUS
    <2>5. \A y \in S : ~(y < x)
      BY <2>2, <2>3, <2>4, Zenon
    <2>6. \A y \in S : x <= y
      BY <2>4, <2>5
    <2> QED BY <2>6
  <1> QED BY <1>1 DEF Min

-----------------------------------------------------------------------------
(* What a verb of the ledger makes of a delivery that has not ended.       *)
Moves(d, e) ==
    /\ ~IsTerminal(d) /\ e \in Deliveries
    /\ ~IsTerminal(e) => e.attempt < MaxAttempts

(* A transition replaces the state and the lease.                          *)
LEMMA TransitionedIs ==
    ASSUME NEW d \in Deliveries, NEW state \in HostDeliveryStates,
           NEW e, e = Transitioned(d, state)
    PROVE  /\ e \in Deliveries /\ e.state = state /\ e.attempt = d.attempt
           /\ e.cause = d.cause
  <1>1. PICK l \in Leases \cup {0} : l = 0
    OBVIOUS
  <1>2. e = [d EXCEPT !.state = state, !.lease = l]
    BY <1>1 DEF Transitioned
  <1> QED BY <1>2 DEF Deliveries

(* A new offer.                                                            *)
LEMMA QueuedIs ==
    /\ Queued \in Deliveries /\ Queued.attempt = 0 /\ Queued.cause = "none"
    /\ Queued.state = "queued" /\ ~IsTerminal(Queued)
  BY AttemptsArePositive, LoopAssumption
     DEF Queued, Deliveries, HostDeliveryStates, Waiting, IsTerminal, Terminal

(* A delivery that is leased.                                              *)
LEMMA LeasedMoves ==
    ASSUME NEW d \in Deliveries, ~IsTerminal(d), d.attempt < MaxAttempts,
           NEW lease \in Leases, NEW n \in Incarnations, NEW e, e = Leased(d, lease, n)
    PROVE  Moves(d, e) /\ e.cause = d.cause /\ e.state = "leased"
  <1>1. /\ e \in Deliveries /\ e.attempt = d.attempt /\ e.cause = d.cause /\ e.state = "leased"
    BY DEF Leased, Deliveries, HostDeliveryStates, Waiting
  <1> QED BY <1>1 DEF Moves

(* An attempt is counted, and ends the delivery if it was the last.        *)
LEMMA AttemptedMoves ==
    ASSUME NEW d \in Deliveries, ~IsTerminal(d), d.attempt < MaxAttempts,
           NEW e, e = Attempted(d)
    PROVE  Moves(d, e) /\ e.cause = d.cause /\ e.state \in {"failed", "queued"}
  <1>1. d.attempt \in Nat /\ MaxAttempts \in Nat
    BY AttemptsArePositive DEF Deliveries
  <1>2. PICK state \in {"failed", "queued"} :
          state = IF d.attempt + 1 >= MaxAttempts THEN "failed" ELSE "queued"
    OBVIOUS
  <1>3. PICK t : t = Transitioned(d, state)
    OBVIOUS
  <1>4. state \in HostDeliveryStates
    BY DEF HostDeliveryStates, Waiting, Terminal
  <1>5. t \in Deliveries /\ t.state = state /\ t.attempt = d.attempt /\ t.cause = d.cause
    BY <1>3, <1>4, TransitionedIs
  <1>6. PICK a : a = d.attempt + 1
    OBVIOUS
  <1>7. a \in 0..MaxAttempts
    BY <1>1, <1>6
  <1>8. e = [t EXCEPT !.attempt = a]
    BY <1>2, <1>3, <1>5, <1>6 DEF Attempted
  <1>9. e \in Deliveries /\ e.state = state /\ e.attempt = a /\ e.cause = d.cause
    BY <1>5, <1>7, <1>8 DEF Deliveries
  <1>10. ~IsTerminal(e) => a < MaxAttempts
    BY <1>1, <1>2, <1>6, <1>9 DEF IsTerminal, Terminal
  <1> QED BY <1>9, <1>10 DEF Moves

(* A delivery that moves on to another state.                              *)
LEMMA TransitionedMoves ==
    ASSUME NEW d \in Deliveries, ~IsTerminal(d), d.attempt < MaxAttempts,
           NEW state \in HostDeliveryStates, NEW e, e = Transitioned(d, state)
    PROVE  Moves(d, e) /\ e.cause = d.cause /\ e.state = state
  BY TransitionedIs DEF Moves

(* What the verbs make of a delivery: nothing, or a move.                  *)
LEMMA VerbsMove ==
    ASSUME NEW d \in Deliveries, ~IsTerminal(d) => d.attempt < MaxAttempts
    PROVE  /\ \A lease, lap : LET e == Acknowledged(d, lease, lap) IN
                /\ TakesIntent(d, lease, lap) =>
                     Moves(d, e) /\ e.cause = d.cause /\ e.state = "acknowledged"
                /\ ~TakesIntent(d, lease, lap) => e = d
           /\ \A lease, lap : LET e == Failed(d, lease, lap) IN
                \/ e = d
                \/ Moves(d, e) /\ e.cause = d.cause /\ d.state = "leased" /\ e.state # "processed"
           /\ \A lease, lap : LET e == Released(d, lease, lap) IN
                \/ e = d
                \/ Moves(d, e) /\ e.cause = d.cause /\ d.state = "leased" /\ e.state # "processed"
           /\ \A lap : LET e == Expired(d, lap) IN
                \/ e = d
                \/ Moves(d, e) /\ e.cause = d.cause /\ d.state = "leased" /\ e.state = "queued"
  <1>1. /\ "acknowledged" \in HostDeliveryStates /\ "queued" \in HostDeliveryStates
    BY DEF HostDeliveryStates, Waiting
  <1>2. d.state = "leased" => ~IsTerminal(d)
    BY DEF IsTerminal, Terminal
  <1>3. ASSUME NEW lease, NEW lap, TakesIntent(d, lease, lap)
        PROVE  LET e == Acknowledged(d, lease, lap) IN
                 Moves(d, e) /\ e.cause = d.cause /\ e.state = "acknowledged"
    <2>1. ~IsTerminal(d) /\ Acknowledged(d, lease, lap) = Transitioned(d, "acknowledged")
      BY <1>2, <1>3 DEF TakesIntent, Holds, Acknowledged
    <2> QED BY <1>1, <2>1, TransitionedMoves
  <1>4. ASSUME NEW lease, NEW lap, Holds(d, lease, lap)
        PROVE  /\ Moves(d, Failed(d, lease, lap)) /\ Failed(d, lease, lap).cause = d.cause
               /\ Failed(d, lease, lap).state # "processed"
               /\ Moves(d, Released(d, lease, lap)) /\ Released(d, lease, lap).cause = d.cause
               /\ Released(d, lease, lap).state # "processed"
    <2>1. /\ ~IsTerminal(d) /\ Failed(d, lease, lap) = Attempted(d)
          /\ Released(d, lease, lap) = Transitioned(d, "queued")
      BY <1>2, <1>4 DEF Holds, Failed, Released
    <2>2. PICK e, f : e = Attempted(d) /\ f = Transitioned(d, "queued")
      OBVIOUS
    <2>3. Moves(d, e) /\ e.cause = d.cause /\ e.state # "processed"
      BY <2>1, <2>2, AttemptedMoves
    <2>4. Moves(d, f) /\ f.cause = d.cause /\ f.state # "processed"
      BY <1>1, <2>1, <2>2, TransitionedMoves
    <2> QED BY <2>1, <2>2, <2>3, <2>4
  <1>5. ASSUME NEW lap, d.state = "leased", Expired(d, lap) # d
        PROVE  LET e == Expired(d, lap) IN Moves(d, e) /\ e.cause = d.cause /\ e.state = "queued"
    <2>1. ~IsTerminal(d) /\ Expired(d, lap) = Transitioned(d, "queued")
      BY <1>2, <1>5 DEF Expired
    <2> QED BY <1>1, <2>1, TransitionedMoves
  <1>6. \A lease, lap : Holds(d, lease, lap) => d.state = "leased"
    BY DEF Holds
  <1>7. \A lease, lap : ~TakesIntent(d, lease, lap) => Acknowledged(d, lease, lap) = d
    BY DEF Acknowledged
  <1>8. \A lease, lap : ~Holds(d, lease, lap) =>
          Failed(d, lease, lap) = d /\ Released(d, lease, lap) = d
    BY DEF Failed, Released
  <1>9. \A lap : Expired(d, lap) # d => d.state = "leased"
    BY DEF Expired
  <1>10. \A lease, lap : LET e == Acknowledged(d, lease, lap) IN
           /\ TakesIntent(d, lease, lap) =>
                Moves(d, e) /\ e.cause = d.cause /\ e.state = "acknowledged"
           /\ ~TakesIntent(d, lease, lap) => e = d
    BY <1>3, <1>7
  <1>11. \A lease, lap : LET e == Failed(d, lease, lap) IN
           \/ e = d
           \/ Moves(d, e) /\ e.cause = d.cause /\ d.state = "leased" /\ e.state # "processed"
    BY <1>4, <1>6, <1>8
  <1>12. \A lease, lap : LET e == Released(d, lease, lap) IN
           \/ e = d
           \/ Moves(d, e) /\ e.cause = d.cause /\ d.state = "leased" /\ e.state # "processed"
    BY <1>4, <1>6, <1>8
  <1>13. \A lap : LET e == Expired(d, lap) IN
           \/ e = d
           \/ Moves(d, e) /\ e.cause = d.cause /\ d.state = "leased" /\ e.state = "queued"
    BY <1>5, <1>9
  <1> QED BY <1>10, <1>11, <1>12, <1>13

(* Closing a delivery.                                                     *)
LEMMA ProcessedMoves ==
    ASSUME NEW d \in Deliveries, ~IsTerminal(d) => d.attempt < MaxAttempts,
           NEW n, NEW fence \in 0..MaxFence, NEW e, e = Processed(d, n, fence)
    PROVE  \/ e = d
           \/ Moves(d, e) /\ e.cause = d.cause /\ e.state = "processed"
  <1>1. CASE Processes(d, n, fence)
    <2>1. PICK t : t = Transitioned(d, "processed")
      OBVIOUS
    <2>2. ~IsTerminal(d) /\ "processed" \in HostDeliveryStates
      BY <1>1 DEF Processes, IsTerminal, Terminal, HostDeliveryStates
    <2>3. t \in Deliveries /\ t.state = "processed" /\ t.cause = d.cause
      BY <2>1, <2>2, TransitionedIs
    <2>4. e = [t EXCEPT !.fence = fence]
      BY <1>1, <2>1 DEF Processed
    <2>5. e \in Deliveries /\ e.state = "processed" /\ e.cause = d.cause
      BY <2>3, <2>4 DEF Deliveries
    <2> QED BY <2>2, <2>5 DEF Moves, IsTerminal, Terminal
  <1>2. CASE ~Processes(d, n, fence)
    BY <1>2 DEF Processed
  <1> QED BY <1>1, <1>2

(* Giving up on a delivery, for a cause.                                   *)
LEMMA AbandonedMoves ==
    ASSUME NEW d \in Deliveries, NEW cause \in {"overflow", "ended"},
           NEW e, e = Abandoned(d, cause)
    PROVE  \/ e = d
           \/ Moves(d, e) /\ e.cause = cause /\ e.state = "expired"
  <1>1. CASE ~IsTerminal(d)
    <2>1. PICK t : t = Transitioned(d, "expired")
      OBVIOUS
    <2>2. "expired" \in HostDeliveryStates
      BY DEF Terminal, HostDeliveryStates
    <2>3. t \in Deliveries /\ t.state = "expired"
      BY <2>1, <2>2, TransitionedIs
    <2>4. e = [t EXCEPT !.cause = cause]
      BY <1>1, <2>1 DEF Abandoned
    <2>5. e \in Deliveries /\ e.state = "expired" /\ e.cause = cause
      BY <2>3, <2>4 DEF Deliveries
    <2> QED BY <1>1, <2>5 DEF Moves, IsTerminal, Terminal
  <1>2. CASE IsTerminal(d)
    BY <1>2 DEF Abandoned
  <1> QED BY <1>1, <1>2

(* Superseding a delivery that has not ended.                              *)
LEMMA SupersededMoves ==
    ASSUME NEW d \in Deliveries, ~IsTerminal(d), NEW by \in BindingIds \cup {NoBinding},
           NEW e, e = Superseded(d, by)
    PROVE  Moves(d, e) /\ e.cause = d.cause /\ e.state = "superseded"
  <1>1. PICK t : t = Transitioned(d, "superseded")
    OBVIOUS
  <1>2. "superseded" \in HostDeliveryStates
    BY DEF Terminal, HostDeliveryStates
  <1>3. t \in Deliveries /\ t.state = "superseded" /\ t.cause = d.cause
    BY <1>1, <1>2, TransitionedIs
  <1>4. e = [t EXCEPT !.by = by]
    BY <1>1 DEF Superseded
  <1>5. e \in Deliveries /\ e.state = "superseded" /\ e.cause = d.cause
    BY <1>3, <1>4 DEF Deliveries
  <1> QED BY <1>5 DEF Moves, IsTerminal, Terminal

(* Recording a wake.                                                       *)
LEMMA ActivatedMoves ==
    ASSUME NEW d \in Deliveries, ~IsTerminal(d) => d.attempt < MaxAttempts,
           NEW outcome \in {"unsupported", "accepted", "failed"}, NEW e, e = Activated(d, outcome)
    PROVE  \/ e = d
           \/ Moves(d, e) /\ e.cause = d.cause /\ e.state # "processed" /\ outcome # "unsupported"
  <1>1. CASE IsTerminal(d) \/ outcome = "unsupported"
    BY <1>1 DEF Activated
  <1>2. CASE ~IsTerminal(d) /\ outcome = "accepted"
    <2>1. e = Transitioned(d, "delivered")
      BY <1>2 DEF Activated
    <2>2. "delivered" \in HostDeliveryStates
      BY DEF HostDeliveryStates, Waiting
    <2> QED BY <1>2, <2>1, <2>2, TransitionedMoves
  <1>3. CASE ~IsTerminal(d) /\ outcome = "failed"
    <2>1. e = Attempted(d)
      BY <1>3 DEF Activated
    <2> QED BY <1>3, <2>1, AttemptedMoves
  <1> QED BY <1>1, <1>2, <1>3

-----------------------------------------------------------------------------
(* What a step may do to the ledger.                                       *)
SlotStep(s) ==
    \/ ledger'[s] = ledger[s]
    \/ ~Held(s) /\ ledger'[s] = Queued
    \/ /\ Held(s) /\ Moves(ledger[s], ledger'[s])
       /\ ledger[s].state \notin Waiting => ledger'[s].state \notin Waiting \/ s \in lateWakes'
       /\ IsBlocking(s[1]) /\ ledger'[s].cause = "overflow" => ledger[s].cause = "overflow"
       /\ ledger'[s].state = "processed" => MayClose(s[2])

(* Used-up rounds stay used up, and failures are only ever counted.        *)
RecordsGrow ==
    /\ spent \subseteq spent' /\ spent' \subseteq BindingIds /\ missed' \in Misses
    /\ \A id \in BindingIds : \A k \in 1..MaxNews : missed[id][k] <= missed'[id][k]

LedgerStep ==
    /\ ledger' = [s \in Slots |-> ledger'[s]]
    /\ lateWakes \subseteq lateWakes' /\ lateWakes' \subseteq Slots
    /\ \A s \in Slots : SlotStep(s)
    /\ RecordsGrow

(* They do where neither is written.                                       *)
LEMMA RecordsStay ==
    ASSUME TypeInv, UNCHANGED <<spent, missed>>
    PROVE  RecordsGrow
  <1>1. spent' = spent /\ missed' = missed /\ missed \in Misses /\ spent \subseteq BindingIds
    BY DEF TypeInv
  <1>2. \A id \in BindingIds : \A k \in 1..MaxNews : missed[id][k] \in Nat
    BY <1>1, LoopAssumption DEF Misses
  <1> QED BY <1>1, <1>2 DEF RecordsGrow

(* A slot is empty or has a delivery.                                      *)
LEMMA SlotIs ==
    ASSUME TypeInv, NEW s \in Slots
    PROVE  Held(s) => ledger[s] \in Deliveries
  BY DEF TypeInv, Held

(* A step leaves the ledger in order: what is held stays held, what ended  *)
(* stays as it ended, and what no host could take is not to be taken.      *)
LEMMA LedgerKept ==
    ASSUME TypeInv, LedgerOK, LedgerStep
    PROVE  /\ ledger' \in [Slots -> Deliveries \cup {NoDelivery}] /\ LedgerOK'
           /\ \A s \in Slots : Held(s) => Held(s)'
           /\ \A s \in Slots : Held(s) /\ IsTerminal(ledger[s]) => ledger'[s] = ledger[s]
           /\ \A s \in Slots : /\ Held(s) /\ ledger[s].state \notin Waiting /\ s \notin lateWakes'
                               => ledger'[s].state \notin Waiting
  <1>1. ASSUME NEW s \in Slots
        PROVE  /\ ledger'[s] \in Deliveries \cup {NoDelivery} /\ DeliveryOK(s)'
               /\ Held(s) => Held(s)'
               /\ Held(s) /\ IsTerminal(ledger[s]) => ledger'[s] = ledger[s]
               /\ /\ Held(s) /\ ledger[s].state \notin Waiting /\ s \notin lateWakes'
                  => ledger'[s].state \notin Waiting
    <2>1. SlotStep(s) /\ DeliveryOK(s) /\ ledger[s] \in Deliveries \cup {NoDelivery}
      BY DEF LedgerStep, LedgerOK, TypeInv
    <2>2. CASE ledger'[s] = ledger[s]
      BY <2>1, <2>2 DEF DeliveryOK, Held
    <2>3. CASE ~Held(s) /\ ledger'[s] = Queued
      BY <2>3, QueuedIs, AttemptsArePositive DEF DeliveryOK, Held
    <2>4. CASE /\ Held(s) /\ Moves(ledger[s], ledger'[s])
               /\ ledger[s].state \notin Waiting => ledger'[s].state \notin Waiting \/ s \in lateWakes'
               /\ IsBlocking(s[1]) /\ ledger'[s].cause = "overflow" => ledger[s].cause = "overflow"
      <3>1. ledger'[s] \in Deliveries /\ Held(s)' /\ ~IsTerminal(ledger[s])
        BY <2>4, NothingAssumption DEF Moves, Held
      <3> QED BY <2>1, <2>4, <3>1 DEF DeliveryOK, Moves
    <2> QED BY <2>1, <2>2, <2>3, <2>4 DEF SlotStep
  <1>2. ledger' \in [Slots -> Deliveries \cup {NoDelivery}]
    BY <1>1 DEF LedgerStep
  <1> QED BY <1>1, <1>2 DEF LedgerOK

(* A step that leaves the ledger and the late wakes alone is one.          *)
LEMMA LedgerStays ==
    ASSUME TypeInv, UNCHANGED <<ledger, lateWakes, spent, missed>>
    PROVE  LedgerStep
  <1>1. RecordsGrow
    BY RecordsStay
  <1> QED BY <1>1 DEF TypeInv, LedgerStep, SlotStep

(* A round's slots.                                                        *)
LEMMA RoundSlots ==
    ASSUME NEW r \in Rounds, r.phase # "idle" => r.id \in BindingIds,
           r.phase \in Active => \E k \in 1..MaxNews : r.item = News(k), r.phase # "idle"
    PROVE  /\ \A h \in r.held : <<h.item, r.id>> \in Slots
           /\ r.phase \in Active =>
                /\ <<r.item, r.id>> \in Slots /\ <<Overflow(r.item[1]), r.id>> \in Slots
  <1>1. \A h \in r.held : h.item \in Items
    BY DEF Rounds, HeldItems
  <1>2. ASSUME NEW k \in 1..MaxNews, r.item = News(k)
        PROVE  r.item \in Items /\ Overflow(r.item[1]) \in Items
    BY <1>2 DEF News, Overflow, Items
  <1> QED BY <1>1, <1>2 DEF Slots

(* What a projector knows of the ledger stays true.                        *)
LEMMA RoundKept ==
    ASSUME TypeInv, LedgerOK, LedgerStep, NEW r \in Rounds, RoundOK(r)
    PROVE  RoundOK(r)'
  <1>1. \A s \in Slots : Held(s) => Held(s)'
    BY LedgerKept
  <1>2. CASE r.phase = "idle"
    <2>1. spent \subseteq spent'
      BY DEF LedgerStep, RecordsGrow
    <2> QED BY <1>2, <2>1 DEF RoundOK, Active
  <1>3. CASE r.phase # "idle"
    <2>1. /\ \A h \in r.held : <<h.item, r.id>> \in Slots
          /\ r.phase \in Active =>
               /\ <<r.item, r.id>> \in Slots /\ <<Overflow(r.item[1]), r.id>> \in Slots
      BY <1>3, RoundSlots DEF RoundOK
    <2>2. \A h \in r.held : Held(<<h.item, r.id>>)'
      BY <1>1, <2>1 DEF RoundOK
    <2>3. /\ r.phase = "wake" => Held(<<r.item, r.id>>)'
          /\ r.phase = "done" => Held(<<r.item, r.id>>)' \/ (~IsBlocking(r.item) /\ r.id \in spent)
      BY <1>1, <2>1 DEF RoundOK, Active
    <2>4. r.phase = "wake_overflow" => Held(<<Overflow(r.item[1]), r.id>>)'
      BY <1>1, <2>1 DEF RoundOK, Active
    <2>5. spent \subseteq spent'
      BY DEF LedgerStep, RecordsGrow
    <2> QED BY <2>2, <2>3, <2>4, <2>5 DEF RoundOK
  <1> QED BY <1>2, <1>3

(* What the bindings and standings keep for those who work.                *)
StandingsKept ==
    /\ \A n \in Incarnations : binder[n].phase = "bound" =>
          binder'[n].phase = "bound" /\ Seat(n)'.id = Seat(n).id
    /\ \A s \in Slots : MayClose(s[2]) /\ Held(s) => MayClose(s[2])' \/ IsTerminal(ledger'[s])

(* They do where neither is written.                                       *)
LEMMA StandingsStay ==
    ASSUME UNCHANGED <<bindings, binder>>
    PROVE  StandingsKept
  <1>1. bindings' = bindings /\ binder' = binder
    OBVIOUS
  <1> QED BY <1>1 DEF StandingsKept, Seat, MayClose, LiveSeats

(* What a worker relies on stays true.                                     *)
LEMMA WorkerKept ==
    ASSUME TypeInv, LedgerOK, LedgerStep, StandingsKept,
           NEW n \in Incarnations, NEW x, WorkerOK(x, n)
    PROVE  WorkerOK(x, n)'
  <1>1. CASE x.stage = "free"
    BY <1>1 DEF WorkerOK, StandingsKept
  <1>2. CASE x.stage # "free"
    <2>1. PICK s \in Slots : s = x.slot
      BY <1>2 DEF WorkerOK
    <2>2. Held(s) /\ s[2] = Seat(n).id /\ binder[n].phase = "bound"
      BY <1>2, <2>1 DEF WorkerOK
    <2>3. Held(s)' /\ s[2] = Seat(n)'.id /\ binder'[n].phase = "bound"
      BY <2>2, LedgerKept DEF StandingsKept
    <2>4. IsTerminal(ledger[s]) => IsTerminal(ledger'[s])
      BY <2>2, LedgerKept
    <2>5. x.stage = "acked" /\ s \notin lateWakes' => ledger'[s].state \notin Waiting
      <3>1. SUFFICES ASSUME x.stage = "acked", s \notin lateWakes' PROVE ledger'[s].state \notin Waiting
        OBVIOUS
      <3>2. s \notin lateWakes
        BY <3>1 DEF LedgerStep
      <3>3. ledger[s].state \notin Waiting
        BY <2>1, <3>1, <3>2 DEF WorkerOK
      <3> QED BY <2>2, <3>1, <3>3, LedgerKept
    <2>6. x.call = "processed" => MayClose(s[2])' \/ IsTerminal(ledger'[s])
      BY <2>1, <2>2, <2>4 DEF WorkerOK, StandingsKept
    <2> QED BY <1>2, <2>1, <2>3, <2>5, <2>6 DEF WorkerOK
  <1> QED BY <1>1, <1>2

(* Nobody works on what another has the intent to act on.                  *)
LEMMA ActorsKept ==
    ASSUME OneActor, LedgerStep, UNCHANGED worker
    PROVE  OneActor'
  BY DEF OneActor, LedgerStep

-----------------------------------------------------------------------------
(* The steps of a projector, and of a worker.                              *)

(* A projector's step keeps the invariant if its own round is in order.    *)
LEMMA ProjectorKeeps ==
    ASSUME IInv, LedgerStep, NEW p \in Projectors, NEW r \in Rounds,
           round' = [round EXCEPT ![p] = r], RoundOK(r)',
           cursor' \in [BindingIds -> Cursors],
           \A q \in Projectors : HolderOK(round[q], q)', CursorOK', mishaps' \in 0..MaxMishaps,
           UNCHANGED <<feed, toEnd, bindings, worker, binder, lapsed>>
    PROVE  IInv'
  <1>1. /\ TypeInv /\ LedgerOK /\ BindingsOK /\ BindersOK /\ RoundsOK /\ WorkersOK /\ OneActor
    BY DEF IInv
  <1>2. /\ feed' = feed /\ toEnd' = toEnd /\ bindings' = bindings /\ worker' = worker
        /\ binder' = binder /\ lapsed' = lapsed
    OBVIOUS
  <1>3. /\ ledger' \in [Slots -> Deliveries \cup {NoDelivery}] /\ LedgerOK' /\ lateWakes' \subseteq Slots
        /\ spent' \subseteq BindingIds /\ missed' \in Misses
    BY <1>1, LedgerKept DEF LedgerStep, RecordsGrow
  <1>4. round' \in [Projectors -> Rounds]
    BY <1>1 DEF TypeInv
  <1>5. TypeInv'
    BY <1>1, <1>2, <1>3, <1>4 DEF TypeInv
  <1>6. ASSUME NEW q \in Projectors PROVE RoundOK(round[q])'
    <2>1. PICK t : t = round'[q]
      OBVIOUS
    <2>2. CASE q = p
      <3>1. t = r
        BY <1>1, <2>1, <2>2 DEF TypeInv
      <3> QED BY <2>1, <3>1
    <2>3. CASE q # p
      <3>1. t = round[q] /\ t \in Rounds
        BY <1>1, <2>1, <2>3 DEF TypeInv
      <3>2. RoundOK(t)
        BY <1>1, <3>1 DEF RoundsOK
      <3> QED BY <1>1, <2>1, <3>1, <3>2, RoundKept
    <2> QED BY <2>2, <2>3
  <1>7. RoundsOK'
    BY <1>6 DEF RoundsOK
  <1>8. WorkersOK'
    BY <1>1, <1>2, WorkerKept, StandingsStay, LoopAssumption DEF WorkersOK
  <1>9. BindingsOK' /\ BindersOK'
    BY <1>1, <1>2 DEF BindingsOK, BindersOK, BinderOK, LiveSeats
  <1>10. OneActor'
    BY <1>1, <1>2, ActorsKept
  <1> QED BY <1>3, <1>5, <1>7, <1>8, <1>9, <1>10 DEF IInv

(* Whoever holds a cursor that was left alone goes on as before.           *)
LEMMA HolderKept ==
    ASSUME TypeInv, RecordsGrow, NEW p \in Projectors, NEW r \in Rounds, RoundOK(r), HolderOK(r, p),
           \A id \in BindingIds : cursor'[id].holder = p => cursor'[id] = cursor[id]
    PROVE  HolderOK(r, p)'
  <1>1. SUFFICES ASSUME NEW id \in BindingIds, r.phase \in Active, r.id = id, cursor'[id].holder = p
                 PROVE  /\ r.item = News(cursor'[id].position + 1)
                        /\ r.phase = "set_aside" <=> cursor'[id].attempt = MaxOffers
                        /\ r.phase = "failing" =>
                             cursor'[id].attempt < missed'[id][cursor'[id].position + 1]
    BY DEF HolderOK, Walks
  <1>2. /\ cursor'[id] = cursor[id] /\ r.item = News(cursor[id].position + 1)
        /\ r.phase = "set_aside" <=> cursor[id].attempt = MaxOffers
        /\ r.phase = "failing" => cursor[id].attempt < missed[id][cursor[id].position + 1]
    BY <1>1 DEF HolderOK, Walks
  <1>3. PICK k \in 1..MaxNews : k = cursor[id].position + 1
    <2>1. PICK j \in 1..MaxNews : r.item = News(j)
      BY <1>1 DEF RoundOK
    <2> QED BY <1>2, <2>1 DEF News
  <1>4. missed[id][k] <= missed'[id][k] /\ missed[id][k] \in Nat /\ missed'[id][k] \in Nat
    BY LoopAssumption DEF RecordsGrow, TypeInv, Misses
  <1>5. cursor[id].attempt \in Nat
    BY LoopAssumption DEF TypeInv, Cursors
  <1> QED BY <1>2, <1>3, <1>4, <1>5

(* The positions passed stay accounted for.                                *)
LEMMA PassedKept ==
    ASSUME TypeInv, LedgerOK, LedgerStep, NEW id \in BindingIds, NEW k \in 1..MaxNews,
           Passed(id, k), cursor[id].setAside \subseteq cursor'[id].setAside
    PROVE  Passed(id, k)'
  <1>1. <<News(k), id>> \in Slots
    BY DEF Slots, Items, News
  <1>2. Held(<<News(k), id>>) => Held(<<News(k), id>>)'
    BY <1>1, LedgerKept
  <1>3. RecordsGrow
    BY DEF LedgerStep
  <1>4. /\ missed[id][k] <= missed'[id][k] /\ missed[id][k] \in 0..MaxOffers
        /\ missed'[id][k] \in 0..MaxOffers
    BY <1>3 DEF RecordsGrow, TypeInv, Misses
  <1>5. missed[id][k] = MaxOffers => missed'[id][k] = MaxOffers
    BY <1>4, LoopAssumption
  <1> QED BY <1>2, <1>3, <1>5 DEF Passed, RecordsGrow

(* Failures counted stay counted.                                          *)
LEMMA CountsKept ==
    ASSUME TypeInv, RecordsGrow, NEW id \in BindingIds, CountsOK(id),
           cursor'[id].position = cursor[id].position, cursor'[id].attempt = cursor[id].attempt
    PROVE  CountsOK(id)'
  <1>1. SUFFICES ASSUME cursor[id].position < MaxNews
                 PROVE  cursor[id].attempt <= missed'[id][cursor[id].position + 1]
    BY DEF CountsOK
  <1>2. PICK k \in 1..MaxNews : k = cursor[id].position + 1
    BY <1>1, LoopAssumption DEF TypeInv, Cursors
  <1>5. missed \in Misses /\ missed' \in Misses /\ missed[id][k] <= missed'[id][k]
    BY <1>2 DEF RecordsGrow, TypeInv
  <1>3. missed[id][k] <= missed'[id][k] /\ missed[id][k] \in Nat /\ missed'[id][k] \in Nat
    BY <1>2, <1>5, LoopAssumption DEF Misses
  <1>4. cursor[id].attempt \in Nat /\ cursor[id].attempt <= missed[id][k]
    BY <1>1, <1>2, LoopAssumption DEF TypeInv, Cursors, CountsOK
  <1> QED BY <1>2, <1>3, <1>4

(* A cursor that stays where it is.                                        *)
LEMMA CursorKept ==
    ASSUME TypeInv, LedgerOK, LedgerStep, CursorOK,
           \A id \in BindingIds :
             /\ cursor'[id].position = cursor[id].position /\ cursor'[id].attempt = cursor[id].attempt
             /\ cursor'[id].setAside = cursor[id].setAside
    PROVE  CursorOK'
  <1>1. RecordsGrow
    BY DEF LedgerStep
  <1>2. \A id \in BindingIds : CountsOK(id)'
    BY <1>1, CountsKept DEF CursorOK
  <1>3. ASSUME NEW id \in BindingIds, NEW k \in 1..cursor'[id].position PROVE Passed(id, k)'
    <2>1. k \in 1..MaxNews
      BY <1>3, LoopAssumption DEF TypeInv, Cursors
    <2>2. Passed(id, k) /\ cursor[id].setAside \subseteq cursor'[id].setAside
      BY <1>3 DEF CursorOK
    <2> QED BY <2>1, <2>2, PassedKept
  <1> QED BY <1>2, <1>3 DEF CursorOK

(* A projector whose cursor stays where it is.                             *)
LEMMA ProjectorKeepsCursor ==
    ASSUME IInv, LedgerStep, NEW p \in Projectors, NEW r \in Rounds,
           round' = [round EXCEPT ![p] = r], RoundOK(r)',
           r.phase \in Active =>
             /\ r.item = round[p].item /\ r.id = round[p].id /\ round[p].phase \in Active
             /\ r.phase \notin {"failing", "set_aside"} /\ round[p].phase # "set_aside",
           mishaps' \in 0..MaxMishaps,
           UNCHANGED <<feed, toEnd, bindings, cursor, worker, binder, lapsed>>
    PROVE  IInv'
  <1>1. TypeInv /\ LedgerOK /\ CursorOK /\ RoundsOK /\ cursor' = cursor
    BY DEF IInv
  <1>2. CursorOK'
    BY <1>1, CursorKept
  <1>3. ASSUME NEW q \in Projectors PROVE HolderOK(round[q], q)'
    <2>1. PICK t : t = round'[q]
      OBVIOUS
    <2>2. round[q] \in Rounds /\ RoundOK(round[q]) /\ HolderOK(round[q], q) /\ RecordsGrow
      BY <1>1 DEF RoundsOK, TypeInv, LedgerStep
    <2>3. CASE q # p
      <3>1. t = round[q]
        BY <1>1, <2>1, <2>3 DEF TypeInv
      <3>2. HolderOK(t, q)'
        BY <1>1, <2>2, <3>1, HolderKept
      <3> QED BY <2>1, <3>2
    <2>4. CASE q = p
      <3>1. t = r
        BY <1>1, <2>1, <2>4 DEF TypeInv
      <3>2. HolderOK(r, q)'
        BY <1>1, <2>2, <2>4 DEF HolderOK, Walks
      <3> QED BY <2>1, <3>1, <3>2
    <2> QED BY <2>3, <2>4
  <1>4. cursor' \in [BindingIds -> Cursors]
    BY <1>1 DEF TypeInv
  <1> QED BY <1>2, <1>3, <1>4, ProjectorKeeps

(* A worker's step keeps the invariant if its own state is in order and a  *)
(* new intent is to act on what was still to be taken.                     *)
LEMMA WorkerKeeps ==
    ASSUME IInv, LedgerStep, NEW w \in Workers, NEW x \in WorkerStates,
           worker' = [worker EXCEPT ![w] = x], WorkerOK(x, IncarnationOf[w])',
           x.stage = "acked" =>
             \/ worker[w].stage = "acked" /\ worker[w].slot = x.slot
             \/ ledger[x.slot].state \in Waiting,
           lapsed' \subseteq Leases, mishaps' \in 0..MaxMishaps,
           UNCHANGED <<feed, toEnd, bindings, cursor, round, binder>>
    PROVE  IInv'
  <1>1. /\ TypeInv /\ LedgerOK /\ BindingsOK /\ BindersOK /\ RoundsOK /\ CursorOK
        /\ WorkersOK /\ OneActor
    BY DEF IInv
  <1>2. /\ feed' = feed /\ toEnd' = toEnd /\ bindings' = bindings /\ cursor' = cursor
        /\ round' = round /\ binder' = binder
    OBVIOUS
  <1>3. /\ ledger' \in [Slots -> Deliveries \cup {NoDelivery}] /\ LedgerOK' /\ lateWakes' \subseteq Slots
        /\ spent' \subseteq BindingIds /\ missed' \in Misses
    BY <1>1, LedgerKept DEF LedgerStep, RecordsGrow
  <1>4. worker' \in [Workers -> WorkerStates]
    BY <1>1 DEF TypeInv
  <1>5. TypeInv'
    BY <1>1, <1>2, <1>3, <1>4 DEF TypeInv
  <1>6. RoundsOK'
    <2>1. SUFFICES ASSUME NEW q \in Projectors, NEW r, r = round[q]
                   PROVE  RoundOK(r)' /\ HolderOK(r, q)'
      BY <1>2 DEF RoundsOK
    <2>2. r \in Rounds /\ RoundOK(r) /\ HolderOK(r, q)
      BY <1>1, <2>1 DEF TypeInv, RoundsOK
    <2>3. RoundOK(r)'
      BY <1>1, <2>2, RoundKept
    <2>4. HolderOK(r, q)'
      BY <1>1, <1>2, <2>2, HolderKept DEF LedgerStep
    <2> QED BY <2>3, <2>4
  <1>7. CursorOK'
    BY <1>1, <1>2, CursorKept
  <1>8. BindingsOK' /\ BindersOK'
    BY <1>1, <1>2 DEF BindingsOK, BindersOK, BinderOK, LiveSeats
  <1>9. WorkersOK'
    <2>1. SUFFICES ASSUME NEW v \in Workers, NEW y, y = worker'[v]
                   PROVE  WorkerOK(y, IncarnationOf[v])'
      BY DEF WorkersOK
    <2>2. y = IF v = w THEN x ELSE worker[v]
      BY <1>1, <2>1 DEF TypeInv
    <2>3. CASE v = w
      BY <2>2, <2>3
    <2>4. CASE v # w
      <3>1. WorkerOK(y, IncarnationOf[v]) /\ IncarnationOf[v] \in Incarnations
        BY <1>1, <2>2, <2>4, LoopAssumption DEF WorkersOK
      <3> QED BY <1>1, <3>1, WorkerKept, StandingsStay
    <2> QED BY <2>3, <2>4
  <1>10. OneActor'
    <2>1. SUFFICES ASSUME NEW u \in Workers, NEW v \in Workers, u # v,
                          worker'[u].stage = "acked", worker'[v].stage = "acked",
                          worker'[u].slot \notin lateWakes', worker'[u].slot = worker'[v].slot
                   PROVE  FALSE
      BY DEF OneActor
    <2>2. lateWakes \subseteq lateWakes'
      BY DEF LedgerStep
    <2>3. \A v1 \in Workers : worker'[v1] = IF v1 = w THEN x ELSE worker[v1]
      BY <1>1 DEF TypeInv
    <2>4. PICK a \in Workers, b \in Workers :
            /\ a # b /\ worker'[a].slot = worker'[b].slot /\ worker'[a].slot \notin lateWakes
            /\ worker'[a].stage = "acked" /\ worker'[b].stage = "acked" /\ b # w
      <3>1. CASE v # w
        BY <2>1, <2>2, <3>1
      <3>2. CASE v = w
        BY <2>1, <2>2, <3>2
      <3> QED BY <3>1, <3>2
    <2>5. worker'[b] = worker[b]
      BY <2>3, <2>4
    <2>6. CASE worker[a].stage = "acked" /\ worker[a].slot = worker'[a].slot
      BY <1>1, <2>4, <2>5, <2>6 DEF OneActor
    <2>7. CASE ~(worker[a].stage = "acked" /\ worker[a].slot = worker'[a].slot)
      <3>1. a = w /\ worker'[a] = x
        BY <2>3, <2>4, <2>7
      <3>2. ledger[x.slot].state \in Waiting
        BY <2>4, <2>7, <3>1
      <3>3. ledger[worker[b].slot].state \notin Waiting
        BY <1>1, <2>4, <2>5 DEF WorkersOK, WorkerOK
      <3> QED BY <2>4, <2>5, <3>1, <3>2, <3>3
    <2> QED BY <2>6, <2>7
  <1> QED BY <1>3, <1>5, <1>6, <1>7, <1>8, <1>9, <1>10 DEF IInv

-----------------------------------------------------------------------------
(* The actions of a projector.                                             *)

(* A step that writes one slot.                                            *)
LEMMA OneSlotStep ==
    ASSUME TypeInv, NEW s \in Slots, NEW e, ledger' = [ledger EXCEPT ![s] = e],
           lateWakes \subseteq lateWakes', lateWakes' \subseteq Slots, UNCHANGED <<spent, missed>>,
           ledger'[s] = e => SlotStep(s)
    PROVE  LedgerStep
  <1>1. /\ ledger' = [t \in Slots |-> ledger'[t]] /\ ledger'[s] = e
        /\ \A t \in Slots : t # s => ledger'[t] = ledger[t]
    BY DEF TypeInv
  <1>2. RecordsGrow
    BY RecordsStay
  <1> QED BY <1>1, <1>2 DEF LedgerStep, SlotStep

(* What is known of a projector's round.                                   *)
LEMMA RoundIs ==
    ASSUME IInv, NEW p \in Projectors
    PROVE  /\ round[p] \in Rounds /\ RoundOK(round[p]) /\ HolderOK(round[p], p)
           /\ round[p].phase # "idle" =>
                /\ round[p].id \in BindingIds
                /\ \A h \in round[p].held : <<h.item, round[p].id>> \in Slots
                /\ round[p].phase \in Active =>
                     /\ <<round[p].item, round[p].id>> \in Slots
                     /\ <<Overflow(round[p].item[1]), round[p].id>> \in Slots
  <1>1. round[p] \in Rounds /\ RoundOK(round[p]) /\ HolderOK(round[p], p)
    BY DEF IInv, TypeInv, RoundsOK
  <1> QED BY <1>1, RoundSlots DEF RoundOK

(* A projector that gives its round up.                                    *)
LEMMA IdleRoundOK == IdleRound \in Rounds /\ RoundOK(IdleRound) /\ RoundOK(IdleRound)'
  BY DEF IdleRound, Rounds, RoundOK, Active

(* A round given up leaves everything else as it was.                      *)
LEMMA RoundGivenUp ==
    ASSUME IInv, NEW p \in Projectors, round' = [round EXCEPT ![p] = IdleRound],
           mishaps' \in 0..MaxMishaps,
           UNCHANGED <<feed, toEnd, bindings, ledger, cursor, worker, binder, lapsed, lateWakes,
                       spent, missed>>
    PROVE  LedgerStep /\ IInv'
  <1>1. PICK r : r = IdleRound
    OBVIOUS
  <1>2. r \in Rounds /\ RoundOK(r)' /\ r.phase \notin Active
    BY <1>1, IdleRoundOK DEF IdleRound, Active
  <1>3. LedgerStep
    BY LedgerStays DEF IInv
  <1>4. round' = [round EXCEPT ![p] = r]
    BY <1>1
  <1>5. UNCHANGED <<feed, toEnd, bindings, cursor, worker, binder, lapsed>>
    OBVIOUS
  <1> QED BY <1>2, <1>3, <1>4, <1>5, ProjectorKeepsCursor

(* A round starts with what the ledger holds of the binding.               *)
LEMMA InvStartRound ==
    ASSUME IInv, NEW p \in Projectors, NEW withholding \in BOOLEAN, StartRound(p, withholding)
    PROVE  LedgerStep /\ IInv'
  <1>1. LiveSeats # {} /\ TypeInv
    BY DEF StartRound, IInv
  <1>2. PICK id \in BindingIds : id = Current.id
    <2>1. PICK i \in LiveSeats : Current = bindings[i]
      BY <1>1, Zenon DEF Current
    <2>2. Current \in Bindings
      BY <1>1, <2>1 DEF LiveSeats, TypeInv
    <2> QED BY <2>2 DEF Bindings
  <1>3. PICK r : r = [IdleRound EXCEPT !.phase = "walk", !.id = id, !.held = Snapshot(id),
                                       !.withholding = withholding]
    OBVIOUS
  <1>4. round' = [round EXCEPT ![p] = r] /\ mishaps' = mishaps
        /\ UNCHANGED <<feed, toEnd, bindings, cursor, worker, binder, lapsed>>
        /\ UNCHANGED <<ledger, lateWakes, spent, missed>>
    BY <1>2, <1>3, Zenon DEF StartRound
  <1>5. ASSUME NEW h \in Snapshot(id) PROVE h \in HeldItems /\ Held(<<h.item, id>>)
    <2>1. PICK s \in Slots : s[2] = id /\ Held(s) /\ h = [item |-> s[1], lease |-> ledger[s].lease]
      BY <1>5 DEF Snapshot
    <2>2. s = <<s[1], id>> /\ s[1] \in Items
      BY <2>1 DEF Slots
    <2>3. ledger[s].lease \in Leases \cup {0}
      BY <1>1, <2>1, SlotIs DEF Deliveries
    <2> QED BY <2>1, <2>2, <2>3 DEF HeldItems
  <1>6. /\ r \in Rounds /\ r.phase = "walk" /\ r.id = id /\ r.held = Snapshot(id)
        /\ r.item = NoItem /\ r.phase \notin Active /\ r.withholding = withholding
    <2>1. PICK held \in SUBSET HeldItems : held = Snapshot(id)
      BY <1>5
    <2> QED BY <1>3, <2>1 DEF IdleRound, Rounds, Active
  <1>7. RoundOK(r)'
    <2>1. withholding => id \in spent
      BY <1>2 DEF StartRound
    <2>2. ledger' = ledger /\ spent' = spent
      BY <1>4
    <2> QED BY <1>5, <1>6, <2>1, <2>2 DEF RoundOK, Held, Active
  <1>8. LedgerStep
    BY <1>1, <1>4, LedgerStays
  <1>9. mishaps' \in 0..MaxMishaps
    BY <1>1, <1>4 DEF TypeInv
  <1> QED BY <1>4, <1>6, <1>7, <1>8, <1>9, ProjectorKeepsCursor

(* The cursor is leased and the position after it read.                    *)
LEMMA InvWalkOn ==
    ASSUME IInv, NEW p \in Projectors, WalkOn(p)
    PROVE  LedgerStep /\ IInv'
  <1>1. TypeInv /\ LedgerOK /\ CursorOK /\ RoundsOK
    BY DEF IInv
  <1>2. PICK id \in BindingIds : id = round[p].id
    BY RoundIs DEF WalkOn
  <1>3. /\ mishaps' = mishaps /\ UNCHANGED <<ledger, lateWakes, spent, missed>>
        /\ UNCHANGED <<feed, toEnd, bindings, worker, binder, lapsed>>
    BY DEF WalkOn
  <1>4. LedgerStep /\ mishaps' \in 0..MaxMishaps
    BY <1>1, <1>3, LedgerStays DEF TypeInv
  <1>5. CASE cursor[id].holder = NobodyWalks /\ cursor[id].position < feed
    <2>1. PICK k : k = cursor[id].position + 1
      OBVIOUS
    <2>2. k \in 1..MaxNews
      BY <1>1, <1>5, <2>1, LoopAssumption DEF TypeInv, Cursors
    <2>13. PICK phase \in {"set_aside", "offer"} :
              phase = IF cursor[id].attempt >= MaxOffers THEN "set_aside" ELSE "offer"
      OBVIOUS
    <2>14. phase = "set_aside" <=> cursor[id].attempt = MaxOffers
      BY <1>1, <2>13, LoopAssumption DEF TypeInv, Cursors
    <2>3. PICK r : r = [round[p] EXCEPT !.phase = phase, !.item = News(k)]
      OBVIOUS
    <2>4. /\ round' = [round EXCEPT ![p] = r]
          /\ cursor' = [cursor EXCEPT ![id].holder = p]
      <3>1. /\ cursor' = [cursor EXCEPT ![id].holder = p]
            /\ round' = [round EXCEPT ![p].phase = IF cursor[id].attempt >= MaxOffers
                                                   THEN "set_aside" ELSE "offer",
                                      ![p].item = News(cursor[id].position + 1)]
        BY <1>2, <1>5 DEF WalkOn
      <3> QED BY <1>1, <2>1, <2>3, <2>13, <3>1 DEF TypeInv
    <2>5. /\ r.phase = phase /\ r.item = News(k) /\ r.id = id /\ r.held = round[p].held
          /\ round[p] \in Rounds /\ r.withholding = round[p].withholding
      BY <1>2, <2>3, RoundIs DEF Rounds
    <2>6. News(k) \in Items
      BY <2>2 DEF News, Items
    <2>7. r \in Rounds
      BY <2>3, <2>5, <2>6 DEF Rounds, Active
    <2>8. RoundOK(r)'
      BY <1>2, <1>3, <2>2, <2>5, RoundIs DEF RoundOK, Active, Held
    <2>9. \A b \in BindingIds :
            /\ cursor'[b].position = cursor[b].position /\ cursor'[b].attempt = cursor[b].attempt
            /\ cursor'[b].setAside = cursor[b].setAside
            /\ cursor'[b].holder = IF b = id THEN p ELSE cursor[b].holder
            /\ b # id => cursor'[b] = cursor[b]
      BY <1>1, <2>4 DEF TypeInv, Cursors
    <2>10. cursor' \in [BindingIds -> Cursors]
      BY <1>1, <2>4 DEF TypeInv, Cursors
    <2>11. CursorOK'
      BY <1>1, <1>4, <2>9, CursorKept
    <2>12. ASSUME NEW q \in Projectors PROVE HolderOK(round[q], q)'
      <3>1. PICK t : t = round'[q] /\ t = IF q = p THEN r ELSE round[q]
        BY <1>1, <2>4 DEF TypeInv
      <3>2. CASE q = p
        <4>1. HolderOK(r, p)'
          BY <2>1, <2>5, <2>9, <2>13, <2>14 DEF HolderOK, Walks
        <4> QED BY <3>1, <3>2, <4>1
      <3>3. CASE q # p
        <4>1. t \in Rounds /\ RoundOK(t) /\ HolderOK(t, q) /\ RecordsGrow
          BY <1>1, <1>4, <3>1, <3>3 DEF RoundsOK, TypeInv, LedgerStep
        <4>2. HolderOK(t, q)'
          BY <1>1, <2>9, <3>3, <4>1, HolderKept
        <4> QED BY <3>1, <4>2
      <3> QED BY <3>2, <3>3
    <2> QED BY <1>3, <1>4, <2>4, <2>7, <2>8, <2>10, <2>11, <2>12, ProjectorKeeps
  <1>6. CASE ~(cursor[id].holder = NobodyWalks /\ cursor[id].position < feed)
    <2>1. round' = [round EXCEPT ![p] = IdleRound] /\ cursor' = cursor
      BY <1>2, <1>6 DEF WalkOn
    <2> QED BY <1>3, <1>4, <2>1, RoundGivenUp
  <1> QED BY <1>5, <1>6

(* Only what may be dropped is given up on for want of room.               *)
LEMMA InvMakeRoom ==
    ASSUME IInv, NEW p \in Projectors, MakeRoom(p)
    PROVE  LedgerStep /\ IInv'
  <1>1. TypeInv /\ LedgerOK /\ RoundsOK
    BY DEF IInv
  <1>2. PICK id \in BindingIds : id = round[p].id
    BY RoundIs DEF MakeRoom
  <1>3. /\ round[p] \in Rounds /\ RoundOK(round[p]) /\ round[p].phase = "offer"
        /\ \A h \in round[p].held : <<h.item, id>> \in Slots
    BY <1>2, RoundIs DEF MakeRoom
  <1>4. PICK victims \in SUBSET Droppable(round[p].held), shed \in SUBSET Droppable(round[p].held) :
          /\ ledger' = [s \in Slots |->
                IF \E h \in victims : s = <<h.item, id>>
                THEN Abandoned(ledger[s], "overflow") ELSE ledger[s]]
          /\ round' = [round EXCEPT ![p].phase = IF shed = {} THEN "news" ELSE "shed",
                                    ![p].held = @ \ shed]
    <2> DEFINE full == Cardinality(Outstanding(round[p].held)) >= QueueLimit
               vs == IF full THEN Victims(round[p].held) ELSE {}
               sh == {h \in vs : ~IsTerminal(ledger[<<h.item, round[p].id>>])}
    <2>1. vs \in SUBSET Droppable(round[p].held)
      BY DEF Victims
    <2>2. sh \in SUBSET Droppable(round[p].held)
      BY <2>1
    <2>3. /\ ledger' = [s \in Slots |->
                IF \E h \in vs : s = <<h.item, round[p].id>>
                THEN Abandoned(ledger[s], "overflow") ELSE ledger[s]]
          /\ round' = [round EXCEPT ![p].phase = IF sh = {} THEN "news" ELSE "shed",
                                    ![p].held = @ \ sh]
      BY DEF MakeRoom
    <2> HIDE DEF vs, sh
    <2> QED BY <1>2, <2>1, <2>2, <2>3, Zenon
  <1>5. \A h \in victims : h \in round[p].held /\ ~IsBlocking(h.item)
    BY DEF Droppable, Outstanding
  <1>6. /\ mishaps' = mishaps /\ lateWakes' = lateWakes
        /\ UNCHANGED <<feed, toEnd, bindings, cursor, worker, binder, lapsed>>
    BY DEF MakeRoom
  <1>16. RecordsGrow
    BY <1>1, RecordsStay DEF MakeRoom
  <1>7. ASSUME NEW s \in Slots PROVE SlotStep(s)
    <2>1. CASE ~\E h \in victims : s = <<h.item, id>>
      BY <1>4, <2>1 DEF SlotStep
    <2>2. CASE \E h \in victims : s = <<h.item, id>>
      <3>1. PICK h \in victims : s = <<h.item, id>>
        BY <2>2
      <3>2. Held(s) /\ ~IsBlocking(s[1])
        BY <1>2, <1>3, <1>5, <3>1 DEF RoundOK
      <3>3. ledger[s] \in Deliveries /\ ledger'[s] = Abandoned(ledger[s], "overflow")
        BY <1>1, <1>4, <2>2, <3>2, SlotIs
      <3>4. \/ ledger'[s] = ledger[s]
            \/ Moves(ledger[s], ledger'[s]) /\ ledger'[s].state = "expired"
        BY <3>3, AbandonedMoves
      <3>5. "expired" \notin Waiting
        BY DEF Waiting
      <3> QED BY <3>2, <3>4, <3>5 DEF SlotStep
    <2> QED BY <2>1, <2>2
  <1>8. LedgerStep
    <2>1. ledger' = [s \in Slots |-> ledger'[s]]
      BY <1>4
    <2> QED BY <1>1, <1>6, <1>7, <1>16, <2>1 DEF LedgerStep, TypeInv
  <1>9. PICK phase \in {"news", "shed"} : phase = IF shed = {} THEN "news" ELSE "shed"
    OBVIOUS
  <1>10. PICK r : r = [round[p] EXCEPT !.phase = phase, !.held = @ \ shed]
    OBVIOUS
  <1>11. round' = [round EXCEPT ![p] = r]
    BY <1>1, <1>4, <1>9, <1>10 DEF TypeInv
  <1>12. /\ r \in Rounds /\ r.id = id /\ r.item = round[p].item /\ r.held \subseteq round[p].held
         /\ r.phase \in {"news", "shed"} /\ r.withholding = round[p].withholding
    BY <1>2, <1>3, <1>10 DEF Rounds, Active
  <1>13. RoundOK(r)'
    <2>1. \A h \in r.held : Held(<<h.item, r.id>>)
      BY <1>2, <1>3, <1>12 DEF RoundOK
    <2>2. RoundOK(r)
      <3>1. r.phase # "idle" /\ r.phase \in Active /\ \E k \in 1..MaxNews : r.item = News(k)
        BY <1>3, <1>12 DEF RoundOK, Active
      <3>2. r.withholding => r.id \in spent
        BY <1>2, <1>3, <1>12 DEF RoundOK
      <3> QED BY <1>12, <2>1, <3>1, <3>2 DEF RoundOK
    <2> QED BY <1>1, <1>8, <1>12, <2>2, RoundKept
  <1>14. mishaps' \in 0..MaxMishaps
    BY <1>1, <1>6 DEF TypeInv
  <1>15. /\ r.item = round[p].item /\ r.id = round[p].id /\ round[p].phase \in Active
         /\ r.phase \notin {"failing", "set_aside"} /\ round[p].phase # "set_aside"
    BY <1>2, <1>3, <1>12 DEF Active
  <1> QED BY <1>6, <1>8, <1>11, <1>12, <1>13, <1>14, <1>15, ProjectorKeepsCursor

(* An offer is made where there was none.                                  *)
LEMMA InvEnqueue ==
    ASSUME IInv, NEW p \in Projectors, Enqueue(p)
    PROVE  LedgerStep /\ IInv'
  <1>1. TypeInv /\ LedgerOK /\ RoundsOK
    BY DEF IInv
  <1>2. /\ round[p] \in Rounds /\ RoundOK(round[p]) /\ round[p].phase \in {"shed", "news"}
        /\ round[p].phase \in Active /\ round[p].phase # "idle"
    BY RoundIs DEF Enqueue, Active
  <1>3. PICK item, onward, waking :
          /\ item = IF round[p].phase = "shed" THEN Overflow(round[p].item[1]) ELSE round[p].item
          /\ onward = IF round[p].phase = "shed" THEN "news" ELSE "done"
          /\ waking = IF round[p].phase = "shed" THEN "wake_overflow" ELSE "wake"
    OBVIOUS
  <1>4. PICK s \in Slots : s = <<item, round[p].id>>
    BY <1>2, <1>3, RoundIs
  <1>5. IF Held(s)
        THEN round' = [round EXCEPT ![p].phase = onward] /\ ledger' = ledger
        ELSE /\ ledger' = [ledger EXCEPT ![s] = Queued]
             /\ round' = [round EXCEPT ![p].phase = waking,
                                       ![p].held = @ \cup {[item |-> item, lease |-> 0]}]
    BY <1>3, <1>4, Zenon DEF Enqueue
  <1>6. /\ mishaps' = mishaps /\ lateWakes' = lateWakes
        /\ UNCHANGED <<feed, toEnd, bindings, cursor, worker, binder, lapsed>>
    BY DEF Enqueue
  <1>10. UNCHANGED <<spent, missed>>
    BY DEF Enqueue
  <1>7. mishaps' \in 0..MaxMishaps /\ lateWakes \subseteq lateWakes' /\ lateWakes' \subseteq Slots
    BY <1>1, <1>6 DEF TypeInv
  <1>8. CASE Held(s)
    <2>1. LedgerStep
      BY <1>1, <1>5, <1>6, <1>8, <1>10, LedgerStays
    <2>2. PICK r : r = [round[p] EXCEPT !.phase = onward]
      OBVIOUS
    <2>3. round' = [round EXCEPT ![p] = r]
      BY <1>1, <1>5, <1>8, <2>2 DEF TypeInv
    <2>4. /\ r \in Rounds /\ r.id = round[p].id /\ r.item = round[p].item
          /\ r.held = round[p].held /\ r.phase = onward /\ r.withholding = round[p].withholding
      BY <1>2, <1>3, <2>2 DEF Rounds, Active
    <2>5. RoundOK(r)
      BY <1>2, <1>3, <1>4, <1>8, <2>4 DEF RoundOK, Active
    <2>6. RoundOK(r)'
      BY <1>1, <2>1, <2>4, <2>5, RoundKept
    <2>7. r.phase \notin {"failing", "set_aside"} /\ round[p].phase # "set_aside"
      BY <1>2, <1>3, <2>4
    <2> QED BY <1>2, <1>6, <1>7, <2>1, <2>3, <2>4, <2>6, <2>7, ProjectorKeepsCursor
  <1>9. CASE ~Held(s)
    <2>1. ledger' = [ledger EXCEPT ![s] = Queued]
      BY <1>5, <1>9
    <2>2. ledger'[s] = Queued => SlotStep(s)
      BY <1>9 DEF SlotStep
    <2>3. LedgerStep
      BY <1>1, <1>7, <1>10, <2>1, <2>2, OneSlotStep
    <2>4. Held(s)'
      BY <1>1, <2>1, QueuedIs, NothingAssumption DEF TypeInv, Held
    <2>5. PICK h : h = [item |-> item, lease |-> 0]
      OBVIOUS
    <2>6. h \in HeldItems /\ h.item = item
      BY <1>4, <2>5 DEF HeldItems, Slots
    <2>7. PICK r : r = [round[p] EXCEPT !.phase = waking, !.held = @ \cup {h}]
      OBVIOUS
    <2>8. round' = [round EXCEPT ![p] = r]
      BY <1>1, <1>5, <1>9, <2>5, <2>7 DEF TypeInv
    <2>9. /\ r \in Rounds /\ r.id = round[p].id /\ r.item = round[p].item
          /\ r.held = round[p].held \cup {h} /\ r.phase = waking
          /\ r.withholding = round[p].withholding
      BY <1>2, <1>3, <2>6, <2>7 DEF Rounds, Active
    <2>10. PICK t : t = round[p] /\ RoundOK(t)'
      <3>1. PICK t : t = round[p]
        OBVIOUS
      <3>2. RoundOK(t)'
        BY <1>1, <1>2, <2>3, <3>1, RoundKept
      <3> QED BY <3>1, <3>2
    <2>11. RoundOK(r)'
      BY <1>2, <1>3, <1>4, <2>4, <2>6, <2>9, <2>10 DEF RoundOK, Active
    <2>12. r.phase \notin {"failing", "set_aside"} /\ round[p].phase # "set_aside"
      BY <1>2, <1>3, <2>9
    <2> QED BY <1>2, <1>6, <1>7, <2>3, <2>8, <2>9, <2>11, <2>12, ProjectorKeepsCursor
  <1> QED BY <1>8, <1>9

(* A wake is recorded, late if the offer was taken meanwhile.              *)
LEMMA InvWake ==
    ASSUME IInv, NEW p \in Projectors,
           NEW outcome \in {"unsupported", "accepted", "failed"}, Wake(p, outcome)
    PROVE  LedgerStep /\ IInv'
  <1>1. TypeInv /\ LedgerOK /\ RoundsOK
    BY DEF IInv
  <1>2. /\ round[p] \in Rounds /\ RoundOK(round[p]) /\ round[p].phase \in {"wake_overflow", "wake"}
        /\ round[p].phase \in Active /\ round[p].phase # "idle"
    BY RoundIs DEF Wake, Active
  <1>3. PICK item : item = IF round[p].phase = "wake" THEN round[p].item ELSE Overflow(round[p].item[1])
    OBVIOUS
  <1>4. PICK s \in Slots : s = <<item, round[p].id>>
    BY <1>2, <1>3, RoundIs
  <1>5. PICK e : e = Activated(ledger[s], outcome)
    OBVIOUS
  <1>6. /\ ledger' = [ledger EXCEPT ![s] = Activated(@, outcome)]
        /\ lateWakes' = IF ledger[s].state \in {"leased", "acknowledged"} /\ outcome # "unsupported"
                        THEN lateWakes \cup {s} ELSE lateWakes
        /\ round' = [round EXCEPT ![p].phase = IF round[p].phase = "wake" THEN "done" ELSE "news"]
    BY <1>3, <1>4, Zenon DEF Wake
  <1>7. /\ mishaps' = mishaps /\ UNCHANGED <<spent, missed>>
        /\ UNCHANGED <<feed, toEnd, bindings, cursor, worker, binder, lapsed>>
    BY DEF Wake
  <1>8. mishaps' \in 0..MaxMishaps /\ lateWakes \subseteq lateWakes' /\ lateWakes' \subseteq Slots
    BY <1>1, <1>6, <1>7 DEF TypeInv
  <1>9. ledger' = [ledger EXCEPT ![s] = e]
    BY <1>1, <1>5, <1>6 DEF TypeInv
  <1>10. Held(s) /\ DeliveryOK(s) /\ ledger[s] \in Deliveries
    BY <1>1, <1>2, <1>3, <1>4, SlotIs DEF RoundOK, LedgerOK
  <1>11. \/ e = ledger[s]
         \/ /\ Moves(ledger[s], e) /\ e.cause = ledger[s].cause /\ e.state # "processed"
            /\ outcome # "unsupported"
    BY <1>5, <1>10, ActivatedMoves DEF DeliveryOK
  <1>12. /\ ~IsTerminal(ledger[s]) /\ ledger[s].state \notin Waiting
         => ledger[s].state = "acknowledged"
    BY <1>10 DEF Deliveries, HostDeliveryStates, IsTerminal
  <1>13. ledger'[s] = e => SlotStep(s)
    BY <1>6, <1>10, <1>11, <1>12 DEF SlotStep, Moves
  <1>14. LedgerStep
    BY <1>1, <1>7, <1>8, <1>9, <1>13, OneSlotStep
  <1>15. PICK phase \in {"done", "news"} : phase = IF round[p].phase = "wake" THEN "done" ELSE "news"
    OBVIOUS
  <1>16. PICK r : r = [round[p] EXCEPT !.phase = phase]
    OBVIOUS
  <1>17. round' = [round EXCEPT ![p] = r]
    BY <1>1, <1>6, <1>15, <1>16 DEF TypeInv
  <1>18. /\ r \in Rounds /\ r.id = round[p].id /\ r.item = round[p].item
         /\ r.held = round[p].held /\ r.phase = phase /\ r.withholding = round[p].withholding
    BY <1>2, <1>15, <1>16 DEF Rounds, Active
  <1>21. r.phase \notin {"failing", "set_aside"} /\ round[p].phase # "set_aside"
    BY <1>2, <1>15, <1>18
  <1>19. RoundOK(r)
    BY <1>2, <1>15, <1>18 DEF RoundOK, Active
  <1>20. RoundOK(r)'
    BY <1>1, <1>14, <1>18, <1>19, RoundKept
  <1> QED BY <1>2, <1>7, <1>8, <1>14, <1>17, <1>18, <1>20, <1>21, ProjectorKeepsCursor

(* A cursor is written by the one who holds it, and nobody holds it then.  *)
LEMMA CursorWritten ==
    ASSUME IInv, NEW p \in Projectors, NEW id \in BindingIds, cursor[id].holder = p,
           NEW c \in Cursors, c.holder = NobodyWalks, cursor' = [cursor EXCEPT ![id] = c],
           cursor[id].setAside \subseteq c.setAside,
           c.position < MaxNews => c.attempt <= missed[id][c.position + 1],
           \/ c.position = cursor[id].position
           \/ /\ c.position = cursor[id].position + 1
              /\ \/ Held(<<News(c.position), id>>)
                 \/ c.position \in c.setAside /\ missed[id][c.position] = MaxOffers
                 \/ c.position \notin Blocking /\ id \in spent,
           NEW r \in Rounds, RoundOK(r), r.phase \notin Active, round' = [round EXCEPT ![p] = r],
           mishaps' = mishaps, UNCHANGED <<ledger, lateWakes, spent, missed>>,
           UNCHANGED <<feed, toEnd, bindings, worker, binder, lapsed>>
    PROVE  LedgerStep /\ IInv'
  <1>1. /\ TypeInv /\ LedgerOK /\ CursorOK /\ RoundsOK
        /\ ledger' = ledger /\ spent' = spent /\ missed' = missed
    BY DEF IInv
  <1>2. LedgerStep /\ mishaps' \in 0..MaxMishaps /\ RecordsGrow
    BY <1>1, LedgerStays DEF TypeInv, LedgerStep
  <1>3. /\ \A b \in BindingIds : cursor'[b] = IF b = id THEN c ELSE cursor[b]
        /\ cursor' \in [BindingIds -> Cursors]
    BY <1>1 DEF TypeInv
  <1>4. CursorOK'
    <2>1. ASSUME NEW b \in BindingIds PROVE CountsOK(b)'
      BY <1>1, <1>3 DEF CursorOK, CountsOK
    <2>2. ASSUME NEW b \in BindingIds, NEW k \in 1..cursor'[b].position PROVE Passed(b, k)'
      <3>1. k \in 1..MaxNews /\ cursor[b].setAside \subseteq cursor'[b].setAside
        <4>1. cursor'[b].position \in 0..MaxNews
          BY <1>3 DEF Cursors
        <4> QED BY <1>3, <4>1, LoopAssumption
      <3>2. CASE k \in 1..cursor[b].position
        BY <1>1, <1>2, <3>1, <3>2, PassedKept DEF CursorOK
      <3>3. CASE k \notin 1..cursor[b].position
        <4>1. b = id /\ k = c.position /\ c.position = cursor[id].position + 1
          <5>1. cursor[b].position \in Nat /\ c.position \in Nat
            BY <1>1, LoopAssumption DEF TypeInv, Cursors
          <5> QED BY <1>3, <3>3, <5>1
        <4>2. c.position # cursor[id].position
          BY <1>1, <4>1, LoopAssumption DEF TypeInv, Cursors
        <4> QED BY <1>1, <1>3, <4>1, <4>2 DEF Passed, Held
      <3> QED BY <3>2, <3>3
    <2> QED BY <2>1, <2>2 DEF CursorOK
  <1>5. ASSUME NEW q \in Projectors PROVE HolderOK(round[q], q)'
    <2>1. PICK t : t = round'[q] /\ t = IF q = p THEN r ELSE round[q]
      BY <1>1 DEF TypeInv
    <2>2. CASE q = p
      <3>1. HolderOK(r, q)'
        BY DEF HolderOK, Walks
      <3> QED BY <2>1, <2>2, <3>1
    <2>3. CASE q # p
      <3>1. t \in Rounds /\ RoundOK(t) /\ HolderOK(t, q)
        BY <1>1, <2>1, <2>3 DEF RoundsOK, TypeInv
      <3>2. q # NobodyWalks
        BY NothingAssumption
      <3>3. HolderOK(t, q)'
        BY <1>1, <1>2, <1>3, <3>1, <3>2, HolderKept
      <3> QED BY <2>1, <3>3
    <2> QED BY <2>2, <2>3
  <1>6. RoundOK(r)'
    BY <1>1, <1>2, RoundKept
  <1> QED BY <1>2, <1>3, <1>4, <1>5, <1>6, ProjectorKeeps

(* A round that goes on to the next position.                              *)
LEMMA RoundGoesOn ==
    ASSUME IInv, NEW p \in Projectors, round[p].phase # "idle",
           NEW r, r = [round[p] EXCEPT !.phase = "walk", !.item = NoItem]
    PROVE  r \in Rounds /\ RoundOK(r) /\ r.phase \notin Active
  <1>1. round[p] \in Rounds /\ RoundOK(round[p])
    BY RoundIs
  <1>2. /\ r \in Rounds /\ r.phase = "walk" /\ r.item = NoItem /\ r.id = round[p].id
        /\ r.held = round[p].held /\ r.withholding = round[p].withholding
    BY <1>1 DEF Rounds, Active
  <1> QED BY <1>1, <1>2 DEF RoundOK, Active

(* What is known of the position a holder works on.                        *)
LEMMA HolderIs ==
    ASSUME IInv, NEW p \in Projectors, round[p].phase \in Active, HoldsCursor(p)
    PROVE  /\ round[p].id \in BindingIds /\ cursor[round[p].id] \in Cursors
           /\ cursor[round[p].id].holder = p
           /\ round[p].item[1] \in 1..MaxNews
           /\ round[p].item[1] = cursor[round[p].id].position + 1
           /\ round[p].item = News(round[p].item[1])
           /\ round[p].phase = "set_aside" <=> cursor[round[p].id].attempt = MaxOffers
           /\ round[p].phase = "failing" =>
                cursor[round[p].id].attempt < missed[round[p].id][round[p].item[1]]
  <1>1. round[p].phase # "idle" /\ RoundOK(round[p]) /\ HolderOK(round[p], p)
    BY RoundIs DEF Active
  <1>2. PICK id \in BindingIds : id = round[p].id
    BY <1>1, RoundIs
  <1>3. PICK k \in 1..MaxNews : round[p].item = News(k)
    BY <1>1 DEF RoundOK
  <1>4. /\ round[p].item = News(cursor[id].position + 1)
        /\ round[p].phase = "set_aside" <=> cursor[id].attempt = MaxOffers
        /\ round[p].phase = "failing" => cursor[id].attempt < missed[id][cursor[id].position + 1]
    BY <1>1, <1>2 DEF HolderOK, Walks, HoldsCursor
  <1>5. k = cursor[id].position + 1 /\ round[p].item[1] = k
    BY <1>3, <1>4 DEF News
  <1>6. cursor[id] \in Cursors
    BY DEF IInv, TypeInv
  <1> QED BY <1>2, <1>3, <1>4, <1>5, <1>6 DEF HoldsCursor

(* The cursor moves over the position its holder has offered or withheld.  *)
LEMMA InvAcknowledgePosition ==
    ASSUME IInv, NEW p \in Projectors, AcknowledgePosition(p)
    PROVE  LedgerStep /\ IInv'
  <1>1. round[p].phase = "done" /\ round[p].phase # "idle" /\ round[p].phase \in Active /\ TypeInv
    BY DEF AcknowledgePosition, Active, IInv
  <1>2. /\ mishaps' = mishaps /\ UNCHANGED <<ledger, lateWakes, spent, missed>>
        /\ UNCHANGED <<feed, toEnd, bindings, worker, binder, lapsed>>
    BY DEF AcknowledgePosition
  <1>3. CASE HoldsCursor(p)
    <2>1. PICK id \in BindingIds, k \in 1..MaxNews :
            /\ id = round[p].id /\ k = round[p].item[1] /\ k = cursor[id].position + 1
            /\ cursor[id] \in Cursors /\ cursor[id].holder = p /\ round[p].item = News(k)
      BY <1>1, <1>3, HolderIs
    <2>2. PICK r : r = [round[p] EXCEPT !.phase = "walk", !.item = NoItem]
      OBVIOUS
    <2>3. PICK none \in 0..MaxOffers : none = 0
      BY LoopAssumption
    <2>4. PICK pos \in 0..MaxNews : pos = k
      BY LoopAssumption
    <2>5. PICK c : c = [cursor[id] EXCEPT !.position = pos, !.holder = NobodyWalks, !.attempt = none]
      OBVIOUS
    <2>6. /\ c \in Cursors /\ c.position = k /\ c.holder = NobodyWalks /\ c.attempt = 0
          /\ c.setAside = cursor[id].setAside
      BY <2>1, <2>3, <2>4, <2>5 DEF Cursors
    <2>7. round' = [round EXCEPT ![p] = r] /\ cursor' = [cursor EXCEPT ![id] = c]
      <3>1. /\ round' = [round EXCEPT ![p].phase = "walk", ![p].item = NoItem]
            /\ cursor' = [cursor EXCEPT ![id] =
                 [@ EXCEPT !.position = k, !.holder = NobodyWalks, !.attempt = 0]]
        BY <1>3, <2>1, Zenon DEF AcknowledgePosition
      <3>2. round' = [round EXCEPT ![p] = r]
        BY <1>1, <2>2, <3>1 DEF TypeInv
      <3>3. cursor' = [cursor EXCEPT ![id] = c]
        BY <1>1, <2>3, <2>4, <2>5, <3>1 DEF TypeInv
      <3> QED BY <3>2, <3>3
    <2>8. r \in Rounds /\ RoundOK(r) /\ r.phase \notin Active
      BY <1>1, <2>2, RoundGoesOn
    <2>9. Held(<<News(c.position), id>>) \/ (c.position \notin Blocking /\ id \in spent)
      <3>1. Held(<<round[p].item, id>>) \/ (~IsBlocking(round[p].item) /\ id \in spent)
        BY <1>1, <2>1, RoundIs DEF RoundOK
      <3>2. ~IsBlocking(News(k)) => k \notin Blocking
        BY DEF IsBlocking, News
      <3> QED BY <2>1, <2>6, <3>1, <3>2
    <2>10. c.position < MaxNews => c.attempt <= missed[id][c.position + 1]
      <3>1. SUFFICES ASSUME k < MaxNews PROVE 0 <= missed[id][k + 1]
        BY <2>6
      <3>2. PICK j \in 1..MaxNews : j = k + 1
        BY <3>1, LoopAssumption
      <3>3. missed[id][j] \in 0..MaxOffers
        BY <1>1 DEF TypeInv, Misses
      <3> QED BY <3>2, <3>3, LoopAssumption
    <2>11. c.position = cursor[id].position + 1
      BY <2>1, <2>6
    <2> QED BY <1>2, <2>1, <2>6, <2>7, <2>8, <2>9, <2>10, <2>11, CursorWritten
  <1>4. CASE ~HoldsCursor(p)
    <2>1. round' = [round EXCEPT ![p] = IdleRound] /\ cursor' = cursor
      BY <1>4 DEF AcknowledgePosition
    <2>2. mishaps' \in 0..MaxMishaps
      BY <1>1, <1>2 DEF TypeInv
    <2> QED BY <1>2, <2>1, <2>2, RoundGivenUp
  <1> QED BY <1>3, <1>4

(* The cursor moves over a position whose offers failed too often.         *)
LEMMA InvSetAside ==
    ASSUME IInv, NEW p \in Projectors, SetAside(p)
    PROVE  LedgerStep /\ IInv'
  <1>1. /\ round[p].phase = "set_aside" /\ round[p].phase # "idle" /\ round[p].phase \in Active
        /\ TypeInv /\ CursorOK
    BY DEF SetAside, Active, IInv
  <1>2. /\ mishaps' = mishaps /\ UNCHANGED <<ledger, lateWakes, spent, missed>>
        /\ UNCHANGED <<feed, toEnd, bindings, worker, binder, lapsed>>
    BY DEF SetAside
  <1>3. CASE HoldsCursor(p)
    <2>1. PICK id \in BindingIds, k \in 1..MaxNews :
            /\ id = round[p].id /\ k = round[p].item[1] /\ k = cursor[id].position + 1
            /\ cursor[id] \in Cursors /\ cursor[id].holder = p /\ cursor[id].attempt = MaxOffers
      BY <1>1, <1>3, HolderIs
    <2>2. PICK r : r = [round[p] EXCEPT !.phase = "walk", !.item = NoItem]
      OBVIOUS
    <2>3. PICK none \in 0..MaxOffers : none = 0
      BY LoopAssumption
    <2>4. PICK pos \in 0..MaxNews : pos = k
      BY LoopAssumption
    <2>5. PICK aside \in SUBSET (1..MaxNews) : aside = cursor[id].setAside \cup {k}
      BY <2>1 DEF Cursors
    <2>6. PICK c : c = [position |-> pos, holder |-> NobodyWalks, attempt |-> none, setAside |-> aside]
      OBVIOUS
    <2>7. /\ c \in Cursors /\ c.position = k /\ c.holder = NobodyWalks /\ c.attempt = 0
          /\ c.setAside = cursor[id].setAside \cup {k}
      BY <2>3, <2>4, <2>5, <2>6 DEF Cursors
    <2>8. round' = [round EXCEPT ![p] = r] /\ cursor' = [cursor EXCEPT ![id] = c]
      <3>1. /\ round' = [round EXCEPT ![p].phase = "walk", ![p].item = NoItem]
            /\ cursor' = [cursor EXCEPT ![id] =
                 [position |-> k, holder |-> NobodyWalks, attempt |-> 0, setAside |-> @.setAside \cup {k}]]
        BY <1>3, <2>1, Zenon DEF SetAside
      <3>2. round' = [round EXCEPT ![p] = r]
        BY <1>1, <2>2, <3>1 DEF TypeInv
      <3>3. cursor' = [cursor EXCEPT ![id] = c]
        BY <1>1, <2>3, <2>4, <2>5, <2>6, <3>1 DEF TypeInv
      <3> QED BY <3>2, <3>3
    <2>9. r \in Rounds /\ RoundOK(r) /\ r.phase \notin Active
      BY <1>1, <2>2, RoundGoesOn
    <2>10. missed[id][k] = MaxOffers
      <3>1. CountsOK(id) /\ cursor[id].position < MaxNews
        BY <1>1, <2>1, LoopAssumption DEF CursorOK, Cursors
      <3>2. MaxOffers <= missed[id][k] /\ missed[id][k] \in 0..MaxOffers
        BY <1>1, <2>1, <3>1 DEF CountsOK, TypeInv, Misses
      <3> QED BY <3>2, LoopAssumption
    <2>11. c.position < MaxNews => c.attempt <= missed[id][c.position + 1]
      <3>1. SUFFICES ASSUME k < MaxNews PROVE 0 <= missed[id][k + 1]
        BY <2>7
      <3>2. PICK j \in 1..MaxNews : j = k + 1
        BY <3>1, LoopAssumption
      <3>3. missed[id][j] \in 0..MaxOffers
        BY <1>1 DEF TypeInv, Misses
      <3> QED BY <3>2, <3>3, LoopAssumption
    <2>12. /\ c.position = cursor[id].position + 1 /\ c.position \in c.setAside
           /\ missed[id][c.position] = MaxOffers
      BY <2>1, <2>7, <2>10
    <2> QED BY <1>2, <2>1, <2>7, <2>8, <2>9, <2>11, <2>12, CursorWritten
  <1>4. CASE ~HoldsCursor(p)
    <2>1. round' = [round EXCEPT ![p] = IdleRound] /\ cursor' = cursor
      BY <1>4 DEF SetAside
    <2>2. mishaps' \in 0..MaxMishaps
      BY <1>1, <1>2 DEF TypeInv
    <2> QED BY <1>2, <2>1, <2>2, RoundGivenUp
  <1> QED BY <1>3, <1>4

(* A failed offer is counted, and the position read again.                 *)
LEMMA InvMarkFailed ==
    ASSUME IInv, NEW p \in Projectors, MarkFailed(p)
    PROVE  LedgerStep /\ IInv'
  <1>1. round[p].phase = "failing" /\ round[p].phase \in Active /\ TypeInv
    BY DEF MarkFailed, Active, IInv
  <1>2. /\ mishaps' = mishaps /\ UNCHANGED <<ledger, lateWakes, spent, missed>>
        /\ UNCHANGED <<feed, toEnd, bindings, worker, binder, lapsed>>
        /\ round' = [round EXCEPT ![p] = IdleRound]
    BY DEF MarkFailed
  <1>3. CASE HoldsCursor(p)
    <2>1. PICK id \in BindingIds, k \in 1..MaxNews :
            /\ id = round[p].id /\ k = round[p].item[1] /\ k = cursor[id].position + 1
            /\ cursor[id] \in Cursors /\ cursor[id].holder = p
            /\ cursor[id].attempt < missed[id][k]
      BY <1>1, <1>3, HolderIs
    <2>2. missed[id][k] \in 0..MaxOffers /\ cursor[id].attempt \in Nat
      BY <1>1, <2>1, LoopAssumption DEF TypeInv, Misses, Cursors
    <2>3. PICK n \in 0..MaxOffers : n = cursor[id].attempt + 1
      BY <2>1, <2>2, LoopAssumption
    <2>4. PICK c : c = [cursor[id] EXCEPT !.holder = NobodyWalks, !.attempt = n]
      OBVIOUS
    <2>5. /\ c \in Cursors /\ c.position = cursor[id].position /\ c.holder = NobodyWalks
          /\ c.attempt = n /\ c.setAside = cursor[id].setAside
      BY <2>1, <2>4 DEF Cursors
    <2>6. cursor' = [cursor EXCEPT ![id] = c]
      <3>1. cursor' = [cursor EXCEPT ![id].holder = NobodyWalks, ![id].attempt = @ + 1]
        BY <1>3, <2>1 DEF MarkFailed
      <3>2. cursor \in [BindingIds -> Cursors]
        BY <1>1 DEF TypeInv
      <3> QED BY <2>3, <2>4, <3>1, <3>2 DEF Cursors
    <2>7. c.position < MaxNews => c.attempt <= missed[id][c.position + 1]
      BY <2>1, <2>2, <2>3, <2>5
    <2>8. PICK r : r = IdleRound
      OBVIOUS
    <2>9. r \in Rounds /\ RoundOK(r) /\ r.phase \notin Active /\ round' = [round EXCEPT ![p] = r]
      BY <1>2, <2>8, IdleRoundOK DEF IdleRound, Active
    <2> QED BY <1>2, <2>1, <2>5, <2>6, <2>7, <2>9, CursorWritten
  <1>4. CASE ~HoldsCursor(p)
    <2>1. cursor' = cursor
      BY <1>4 DEF MarkFailed
    <2>2. mishaps' \in 0..MaxMishaps
      BY <1>1, <1>2 DEF TypeInv
    <2> QED BY <1>2, <2>1, <2>2, RoundGivenUp
  <1> QED BY <1>3, <1>4

(* An offer that may wait is not made to a loop that used up its rounds.   *)
LEMMA InvWithhold ==
    ASSUME IInv, NEW p \in Projectors, Withhold(p)
    PROVE  LedgerStep /\ IInv'
  <1>1. TypeInv /\ LedgerOK /\ round[p].phase = "offer" /\ IsWithheld(p)
    BY DEF Withhold, IInv
  <1>2. /\ mishaps' = mishaps /\ UNCHANGED <<ledger, lateWakes, spent, missed>>
        /\ UNCHANGED <<feed, toEnd, bindings, cursor, worker, binder, lapsed>>
        /\ round' = [round EXCEPT ![p].phase = "done"]
    BY DEF Withhold
  <1>3. LedgerStep /\ mishaps' \in 0..MaxMishaps
    BY <1>1, <1>2, LedgerStays DEF TypeInv
  <1>4. round[p] \in Rounds /\ RoundOK(round[p])
    BY RoundIs
  <1>5. PICK r : r = [round[p] EXCEPT !.phase = "done"]
    OBVIOUS
  <1>6. /\ r \in Rounds /\ r.phase = "done" /\ r.item = round[p].item /\ r.id = round[p].id
        /\ r.held = round[p].held /\ r.withholding = round[p].withholding
    BY <1>4, <1>5 DEF Rounds, Active
  <1>7. RoundOK(r)
    BY <1>1, <1>4, <1>6 DEF RoundOK, Active, IsWithheld
  <1>8. RoundOK(r)'
    BY <1>1, <1>3, <1>6, <1>7, RoundKept
  <1>9. round' = [round EXCEPT ![p] = r]
    BY <1>1, <1>2, <1>5 DEF TypeInv
  <1>10. /\ r.phase \notin {"failing", "set_aside"} /\ round[p].phase # "set_aside"
         /\ round[p].phase \in Active
    BY <1>1, <1>6 DEF Active
  <1> QED BY <1>2, <1>3, <1>6, <1>8, <1>9, <1>10, ProjectorKeepsCursor

(* An offer fails, and is one more failure of its position.                *)
LEMMA InvOfferFails ==
    ASSUME IInv, NEW p \in Projectors, OfferFails(p)
    PROVE  LedgerStep /\ IInv'
  <1>1. /\ TypeInv /\ LedgerOK /\ CursorOK /\ RoundsOK /\ round[p].phase \in Active
        /\ round[p].phase \notin {"idle", "failing", "set_aside"}
    BY DEF OfferFails, Offering, Active, IInv
  <1>2. round[p] \in Rounds /\ RoundOK(round[p]) /\ HolderOK(round[p], p)
    BY RoundIs
  <1>3. PICK id \in BindingIds, k \in 1..MaxNews :
          id = round[p].id /\ round[p].item = News(k) /\ k = round[p].item[1]
    <2>1. PICK k \in 1..MaxNews : round[p].item = News(k)
      BY <1>1, <1>2 DEF RoundOK
    <2>2. k = round[p].item[1]
      BY <2>1 DEF News
    <2>3. round[p].id \in BindingIds
      BY <1>1, RoundIs
    <2> QED BY <2>1, <2>2, <2>3
  <1>4. /\ mishaps' = mishaps /\ ledger' = ledger /\ lateWakes' = lateWakes /\ spent' = spent
        /\ UNCHANGED <<feed, toEnd, bindings, cursor, worker, binder, lapsed>> /\ cursor' = cursor
        /\ round' = [round EXCEPT ![p].phase = "failing"]
    BY DEF OfferFails
  <1>5. PICK n, m : /\ n = missed[id][k] /\ m = IF n < MaxOffers THEN n + 1 ELSE n
                    /\ missed' = [missed EXCEPT ![id][k] = m]
    BY <1>3 DEF OfferFails
  <1>6. /\ n \in 0..MaxOffers /\ m \in 0..MaxOffers /\ n <= m
        /\ \A a \in 0..MaxOffers : a <= n /\ a # MaxOffers => a < m
    <2>1. n \in 0..MaxOffers
      BY <1>1, <1>5 DEF TypeInv, Misses
    <2> QED BY <1>5, <2>1, LoopAssumption
  <1>7. /\ missed' \in Misses /\ missed'[id][k] = m
        /\ \A b \in BindingIds, j \in 1..MaxNews :
             missed'[b][j] = IF b = id /\ j = k THEN m ELSE missed[b][j]
    <2>1. missed \in Misses
      BY <1>1 DEF TypeInv
    <2> QED BY <1>5, <1>6, <2>1 DEF Misses
  <1>8. RecordsGrow
    <2>1. \A b \in BindingIds : \A j \in 1..MaxNews : missed[b][j] \in Nat
      BY <1>1, LoopAssumption DEF TypeInv, Misses
    <2>2. \A b \in BindingIds : \A j \in 1..MaxNews : missed[b][j] <= missed'[b][j]
      BY <1>5, <1>6, <1>7, <2>1
    <2> QED BY <1>1, <1>4, <1>7, <2>2 DEF RecordsGrow, TypeInv
  <1>9. LedgerStep /\ mishaps' \in 0..MaxMishaps
    BY <1>1, <1>4, <1>8 DEF TypeInv, LedgerStep, SlotStep
  <1>10. PICK r : r = [round[p] EXCEPT !.phase = "failing"]
    OBVIOUS
  <1>11. /\ r \in Rounds /\ r.phase = "failing" /\ r.item = round[p].item /\ r.id = round[p].id
         /\ r.held = round[p].held /\ r.withholding = round[p].withholding
    BY <1>2, <1>10 DEF Rounds, Active
  <1>12. RoundOK(r)'
    <2>1. RoundOK(r)
      BY <1>1, <1>2, <1>11 DEF RoundOK, Active
    <2> QED BY <1>1, <1>9, <1>11, <2>1, RoundKept
  <1>13. round' = [round EXCEPT ![p] = r]
    BY <1>1, <1>4, <1>10 DEF TypeInv
  <1>14. cursor' \in [BindingIds -> Cursors] /\ CursorOK'
    BY <1>1, <1>4, <1>9, CursorKept DEF TypeInv
  <1>15. HolderOK(r, p)'
    <2>1. SUFFICES ASSUME cursor[id].holder = p
                   PROVE  /\ r.item = News(cursor[id].position + 1)
                          /\ cursor[id].attempt # MaxOffers
                          /\ cursor[id].attempt < missed'[id][cursor[id].position + 1]
      BY <1>3, <1>4, <1>11 DEF HolderOK, Walks
    <2>2. /\ k = cursor[id].position + 1 /\ cursor[id] \in Cursors
          /\ cursor[id].attempt # MaxOffers
      BY <1>1, <1>3, <2>1, HolderIs DEF HoldsCursor
    <2>3. CountsOK(id) /\ cursor[id].position < MaxNews
      BY <1>1, <2>2, LoopAssumption DEF CursorOK, Cursors
    <2>4. cursor[id].attempt \in 0..MaxOffers /\ cursor[id].attempt <= n
      BY <1>5, <2>2, <2>3 DEF CountsOK, Cursors
    <2>5. cursor[id].attempt < m
      BY <1>6, <2>2, <2>4
    <2> QED BY <1>3, <1>7, <1>11, <2>2, <2>5
  <1>16. ASSUME NEW q \in Projectors PROVE HolderOK(round[q], q)'
    <2>1. PICK t : t = round'[q] /\ t = IF q = p THEN r ELSE round[q]
      BY <1>1, <1>13 DEF TypeInv
    <2>2. CASE q = p
      BY <1>15, <2>1, <2>2
    <2>3. CASE q # p
      <3>1. t \in Rounds /\ RoundOK(t) /\ HolderOK(t, q)
        BY <1>1, <2>1, <2>3 DEF RoundsOK, TypeInv
      <3>2. HolderOK(t, q)'
        BY <1>1, <1>4, <1>8, <3>1, HolderKept
      <3> QED BY <2>1, <3>2
    <2> QED BY <2>2, <2>3
  <1> QED BY <1>4, <1>9, <1>11, <1>12, <1>13, <1>14, <1>16, ProjectorKeeps

(* A mishap is counted.                                                    *)
LEMMA MishapCounted ==
    ASSUME TypeInv, Mishap \/ UNCHANGED mishaps
    PROVE  mishaps' \in 0..MaxMishaps
  BY LoopAssumption DEF TypeInv, Mishap

(* A projector dies and forgets its round.                                 *)
LEMMA InvProjectorCrash ==
    ASSUME IInv, NEW p \in Projectors, ProjectorCrash(p)
    PROVE  LedgerStep /\ IInv'
  <1>1. mishaps' \in 0..MaxMishaps
    BY MishapCounted DEF ProjectorCrash, IInv
  <1>2. /\ round' = [round EXCEPT ![p] = IdleRound]
        /\ UNCHANGED <<feed, toEnd, bindings, ledger, cursor, worker, binder, lapsed, lateWakes,
                       spent, missed>>
    BY DEF ProjectorCrash
  <1> QED BY <1>1, <1>2, RoundGivenUp

(* The cursor's lease runs out: its walker no longer moves it.             *)
LEMMA InvCursorLapses ==
    ASSUME IInv, NEW id \in BindingIds, CursorLapses(id)
    PROVE  LedgerStep /\ IInv'
  <1>1. /\ TypeInv /\ LedgerOK /\ BindingsOK /\ BindersOK /\ RoundsOK /\ CursorOK
        /\ WorkersOK /\ OneActor
    BY DEF IInv
  <1>2. /\ feed' = feed /\ toEnd' = toEnd /\ bindings' = bindings /\ ledger' = ledger
        /\ round' = round /\ worker' = worker /\ binder' = binder /\ lapsed' = lapsed
        /\ lateWakes' = lateWakes /\ cursor' = [cursor EXCEPT ![id].holder = NobodyWalks]
        /\ Mishap \/ UNCHANGED mishaps
        /\ spent' = spent /\ missed' = missed
    BY DEF CursorLapses
  <1>3. LedgerStep /\ mishaps' \in 0..MaxMishaps
    BY <1>1, <1>2, LedgerStays, MishapCounted
  <1>4. \A b \in BindingIds :
          /\ cursor'[b].position = cursor[b].position /\ cursor'[b].attempt = cursor[b].attempt
          /\ cursor'[b].setAside = cursor[b].setAside
          /\ cursor'[b].holder = IF b = id THEN NobodyWalks ELSE cursor[b].holder
          /\ b # id => cursor'[b] = cursor[b]
    BY <1>1, <1>2 DEF TypeInv, Cursors
  <1>5. cursor' \in [BindingIds -> Cursors]
    BY <1>1, <1>2 DEF TypeInv, Cursors
  <1>6. TypeInv'
    BY <1>1, <1>2, <1>3, <1>5 DEF TypeInv
  <1>7. CursorOK'
    BY <1>1, <1>3, <1>4, CursorKept
  <1>8. RoundsOK'
    <2>1. SUFFICES ASSUME NEW q \in Projectors, NEW r, r = round[q]
                   PROVE  RoundOK(r)' /\ HolderOK(r, q)'
      BY <1>2 DEF RoundsOK
    <2>2. r \in Rounds /\ RoundOK(r) /\ HolderOK(r, q)
      BY <1>1, <2>1 DEF TypeInv, RoundsOK
    <2>3. RoundOK(r)'
      BY <1>1, <1>3, <2>2, RoundKept
    <2>4. q # NobodyWalks
      BY NothingAssumption
    <2>5. HolderOK(r, q)'
      BY <1>1, <1>3, <1>4, <2>2, <2>4, HolderKept DEF LedgerStep
    <2> QED BY <2>3, <2>5
  <1>9. LedgerOK' /\ BindingsOK' /\ BindersOK' /\ OneActor'
    BY <1>1, <1>2 DEF LedgerOK, DeliveryOK, Held, BindingsOK, BindersOK, BinderOK, LiveSeats, OneActor
  <1>10. WorkersOK'
    BY <1>1, <1>2 DEF WorkersOK, WorkerOK, Held, Seat, MayClose, LiveSeats
  <1> QED BY <1>3, <1>6, <1>7, <1>8, <1>9, <1>10 DEF IInv

(* A record is appended to the feed.                                       *)
LEMMA InvAppendRecord ==
    ASSUME IInv, AppendRecord
    PROVE  LedgerStep /\ IInv'
  <1>1. /\ TypeInv /\ LedgerOK /\ BindingsOK /\ BindersOK /\ RoundsOK /\ CursorOK
        /\ WorkersOK /\ OneActor
    BY DEF IInv
  <1>2. /\ feed < MaxNews /\ feed' = feed + 1 /\ toEnd' \in BOOLEAN
        /\ bindings' = bindings /\ ledger' = ledger /\ cursor' = cursor
        /\ round' = round /\ worker' = worker /\ binder' = binder /\ lapsed' = lapsed
        /\ lateWakes' = lateWakes /\ mishaps' = mishaps /\ spent' = spent /\ missed' = missed
    BY DEF AppendRecord, IsEnding
  <1>3. LedgerStep
    BY <1>1, <1>2, LedgerStays
  <1>4. TypeInv'
    BY <1>1, <1>2, LoopAssumption DEF TypeInv
  <1>5. LedgerOK' /\ BindingsOK' /\ BindersOK' /\ OneActor'
    BY <1>1, <1>2 DEF LedgerOK, DeliveryOK, Held, BindingsOK, BindersOK, BinderOK, LiveSeats, OneActor
  <1>6. WorkersOK'
    BY <1>1, <1>2 DEF WorkersOK, WorkerOK, Held, Seat, MayClose, LiveSeats
  <1>7. RoundsOK' /\ CursorOK'
    BY <1>1, <1>2 DEF RoundsOK, RoundOK, HolderOK, Walks, Held, CursorOK, CountsOK, Passed
  <1> QED BY <1>3, <1>4, <1>5, <1>6, <1>7 DEF IInv

-----------------------------------------------------------------------------
(* The actions of a worker.                                                *)

(* What is known of a worker.                                              *)
LEMMA WorkerIs ==
    ASSUME IInv, NEW w \in Workers
    PROVE  /\ worker[w] \in WorkerStates /\ WorkerOK(worker[w], IncarnationOf[w])
           /\ IncarnationOf[w] \in Incarnations
           /\ worker[w].stage # "free" =>
                /\ worker[w].slot \in Slots /\ Held(worker[w].slot)
                /\ ledger[worker[w].slot] \in Deliveries /\ DeliveryOK(worker[w].slot)
  <1>1. /\ worker[w] \in WorkerStates /\ WorkerOK(worker[w], IncarnationOf[w])
        /\ IncarnationOf[w] \in Incarnations
    BY LoopAssumption DEF IInv, TypeInv, WorkersOK
  <1> QED BY <1>1, SlotIs DEF WorkerOK, IInv, LedgerOK

(* A worker that is done, or forgets.                                      *)
LEMMA WorkerFreed ==
    ASSUME IInv, LedgerStep, NEW w \in Workers, worker' = [worker EXCEPT ![w] = FreeWorker],
           lapsed' \subseteq Leases, mishaps' \in 0..MaxMishaps,
           UNCHANGED <<feed, toEnd, bindings, cursor, round, binder>>
    PROVE  IInv'
  <1>1. PICK x : x = FreeWorker
    OBVIOUS
  <1>2. x \in WorkerStates /\ x.stage # "acked"
    BY <1>1 DEF FreeWorker, WorkerStates
  <1>3. WorkerOK(x, IncarnationOf[w])'
    BY <1>1 DEF FreeWorker, WorkerOK
  <1>4. worker' = [worker EXCEPT ![w] = x]
    BY <1>1
  <1> QED BY <1>2, <1>3, <1>4, WorkerKeeps

(* A worker the scope admits asks for work.                                *)
LEMMA InvAskForWork ==
    ASSUME IInv, NEW w \in Workers, AskForWork(w)
    PROVE  LedgerStep /\ IInv'
  <1>1. TypeInv /\ worker[w] \in WorkerStates /\ WorkerOK(worker[w], IncarnationOf[w])
    BY WorkerIs DEF IInv
  <1>2. PICK x : x = [worker[w] EXCEPT !.call = "take"]
    OBVIOUS
  <1>3. /\ worker[w].stage = "free" /\ binder[IncarnationOf[w]].phase = "bound"
        /\ worker' = [worker EXCEPT ![w].call = "take"]
        /\ UNCHANGED <<ledger, lateWakes, spent, missed>> /\ lapsed' = lapsed /\ mishaps' = mishaps
        /\ UNCHANGED <<feed, toEnd, bindings, cursor, round, binder>> /\ binder' = binder
    BY DEF AskForWork, Bound
  <1>4. worker' = [worker EXCEPT ![w] = x]
    BY <1>1, <1>2, <1>3 DEF TypeInv
  <1>5. x \in WorkerStates /\ x.stage = "free" /\ x.slot = worker[w].slot /\ x.call = "take"
    BY <1>1, <1>2, <1>3 DEF WorkerStates
  <1>6. WorkerOK(x, IncarnationOf[w])'
    BY <1>1, <1>3, <1>5 DEF WorkerOK
  <1>7. LedgerStep /\ lapsed' \subseteq Leases /\ mishaps' \in 0..MaxMishaps
    BY <1>1, <1>3, LedgerStays DEF TypeInv
  <1> QED BY <1>3, <1>4, <1>5, <1>6, <1>7, WorkerKeeps

(* The sweep gives lapsed leases back.                                     *)
LEMMA SweptIs ==
    ASSUME TypeInv, LedgerOK, NEW s \in Slots
    PROVE  \/ Swept[s] = ledger[s]
           \/ /\ Held(s) /\ ledger[s].state = "leased" /\ Swept[s].state = "queued"
              /\ Moves(ledger[s], Swept[s]) /\ Swept[s].cause = ledger[s].cause
  <1>1. CASE ~Held(s)
    BY <1>1 DEF Swept, Held
  <1>2. CASE Held(s)
    <2>1. ledger[s] \in Deliveries /\ Swept[s] = Expired(ledger[s], lapsed)
          /\ (~IsTerminal(ledger[s]) => ledger[s].attempt < MaxAttempts)
      BY <1>2, SlotIs DEF Swept, LedgerOK, DeliveryOK
    <2> QED BY <1>2, <2>1, VerbsMove
  <1> QED BY <1>1, <1>2

(* What the sweep does is a step of the ledger.                            *)
LEMMA SweptStep ==
    ASSUME TypeInv, LedgerOK, NEW s \in Slots, ledger'[s] = Swept[s]
    PROVE  SlotStep(s)
  <1>1. "leased" \in Waiting /\ "queued" # "processed"
    BY DEF Waiting
  <1> QED BY <1>1, SweptIs DEF SlotStep

(* The sweep and the lease of one offer.                                   *)
LEMMA InvTake ==
    ASSUME IInv, NEW w \in Workers, Take(w)
    PROVE  LedgerStep /\ IInv'
  <1>1. TypeInv /\ LedgerOK
    BY DEF IInv
  <1>2. PICK n \in Incarnations : n = IncarnationOf[w]
    BY WorkerIs
  <1>3. PICK id : id = Seat(n).id
    OBVIOUS
  <1>4. worker[w] \in WorkerStates /\ WorkerOK(worker[w], n) /\ binder[n].phase = "bound"
    BY <1>2, WorkerIs DEF WorkerOK, Take
  <1>5. /\ UNCHANGED <<feed, toEnd, bindings, cursor, round, binder>>
        /\ bindings' = bindings /\ binder' = binder /\ lateWakes' = lateWakes /\ mishaps' = mishaps
    BY DEF Take
  <1>10. RecordsGrow
    BY <1>1, RecordsStay DEF Take
  <1>6. mishaps' \in 0..MaxMishaps /\ lateWakes \subseteq lateWakes' /\ lateWakes' \subseteq Slots
    BY <1>1, <1>5 DEF TypeInv
  <1>7. \/ /\ ledger' = Swept /\ worker' = [worker EXCEPT ![w] = FreeWorker] /\ lapsed' = lapsed
        \/ \E s \in Slots :
             /\ s[2] = id /\ Held(s) /\ IsOfferable(ledger[s], lapsed) /\ FreshLeases # {}
             /\ ledger' = [Swept EXCEPT ![s] = Leased(@, Min(FreshLeases), n)]
             /\ worker' = [worker EXCEPT ![w] =
                             [call |-> "take", stage |-> "held", slot |-> s, lease |-> Min(FreshLeases)]]
             /\ lapsed' = lapsed \cap LeasesInUse
    BY <1>2, <1>3, Zenon DEF Take
  <1>8. CASE ledger' = Swept /\ worker' = [worker EXCEPT ![w] = FreeWorker] /\ lapsed' = lapsed
    <2>1. ledger' = [s \in Slots |-> ledger'[s]]
      BY <1>8 DEF Swept
    <2>2. LedgerStep
      BY <1>1, <1>6, <1>8, <1>10, <2>1, SweptStep DEF LedgerStep
    <2>3. lapsed' \subseteq Leases
      BY <1>1, <1>8 DEF TypeInv
    <2> QED BY <1>5, <1>6, <1>8, <2>2, <2>3, WorkerFreed
  <1>9. ASSUME NEW s \in Slots, s[2] = id, Held(s), IsOfferable(ledger[s], lapsed), FreshLeases # {},
               ledger' = [Swept EXCEPT ![s] = Leased(@, Min(FreshLeases), n)],
               worker' = [worker EXCEPT ![w] =
                             [call |-> "take", stage |-> "held", slot |-> s, lease |-> Min(FreshLeases)]],
               lapsed' = lapsed \cap LeasesInUse
        PROVE  LedgerStep /\ IInv'
    <2>1. PICK lease \in Leases : lease = Min(FreshLeases)
      <3>1. FreshLeases \in SUBSET Nat /\ FreshLeases \subseteq Leases
        BY LeasesArePositive DEF FreshLeases
      <3> QED BY <1>9, <3>1, MinIs
    <2>2. PICK d, e : d = Swept[s] /\ e = Leased(d, lease, n)
      OBVIOUS
    <2>3. /\ ledger' = [t \in Slots |-> ledger'[t]] /\ ledger'[s] = e
          /\ \A t \in Slots : t # s => ledger'[t] = Swept[t]
      <3>1. DOMAIN Swept = Slots /\ Swept = [t \in Slots |-> Swept[t]]
        BY DEF Swept
      <3>2. ledger' = [Swept EXCEPT ![s] = e]
        BY <1>9, <2>1, <2>2, <3>1
      <3> QED BY <3>1, <3>2
    <2>4. /\ ledger[s] \in Deliveries /\ ledger[s].state \in Waiting /\ ~IsTerminal(ledger[s])
          /\ ledger[s].attempt < MaxAttempts
      <3>1. ledger[s] \in Deliveries /\ ledger[s].state \in Waiting /\ ~IsTerminal(ledger[s])
        BY <1>1, <1>9, SlotIs DEF IsOfferable, Waiting, IsTerminal, Terminal
      <3> QED BY <1>1, <1>9, <3>1 DEF LedgerOK, DeliveryOK
    <2>5. /\ d \in Deliveries /\ ~IsTerminal(d) /\ d.attempt < MaxAttempts
          /\ d.cause = ledger[s].cause
      <3>1. CASE d = ledger[s]
        BY <2>4, <3>1
      <3>2. CASE d # ledger[s]
        <4>1. d.state = "queued" /\ Moves(ledger[s], d) /\ d.cause = ledger[s].cause
          BY <1>1, <2>2, <3>2, SweptIs
        <4>2. ~IsTerminal(d)
          BY <4>1 DEF IsTerminal, Terminal
        <4> QED BY <4>1, <4>2 DEF Moves
      <3> QED BY <3>1, <3>2
    <2>6. Moves(d, e) /\ e.cause = d.cause /\ e.state = "leased"
      BY <2>2, <2>5, LeasedMoves
    <2>7. Moves(ledger[s], e)
      BY <2>4, <2>6 DEF Moves
    <2>8. SlotStep(s)
      BY <1>9, <2>3, <2>4, <2>5, <2>6, <2>7 DEF SlotStep
    <2>9. LedgerStep
      BY <1>1, <1>6, <1>10, <2>3, <2>8, SweptStep DEF LedgerStep
    <2>10. PICK x : x = [call |-> "take", stage |-> "held", slot |-> s, lease |-> lease]
      OBVIOUS
    <2>11. x \in WorkerStates /\ x.stage # "acked" /\ worker' = [worker EXCEPT ![w] = x]
      BY <1>9, <2>1, <2>10 DEF WorkerStates
    <2>12. Held(s)'
      BY <1>1, <1>9, <2>9, LedgerKept
    <2>13. Seat(n)'.id = id
      BY <1>3, <1>5 DEF Seat
    <2>14. WorkerOK(x, n)'
      BY <1>4, <1>5, <1>9, <2>10, <2>12, <2>13 DEF WorkerOK
    <2>15. lapsed' \subseteq Leases
      BY <1>1, <1>9 DEF TypeInv
    <2> QED BY <1>2, <1>5, <1>6, <2>9, <2>11, <2>14, <2>15, WorkerKeeps
  <1> QED BY <1>7, <1>8, <1>9

(* The item is handed to the host.                                         *)
LEMMA InvHandOver ==
    ASSUME IInv, NEW w \in Workers, HandOver(w)
    PROVE  LedgerStep /\ IInv'
  <1>1. TypeInv /\ worker[w] \in WorkerStates /\ WorkerOK(worker[w], IncarnationOf[w])
    BY WorkerIs DEF IInv
  <1>2. PICK x : x = [worker[w] EXCEPT !.call = "none"]
    OBVIOUS
  <1>3. /\ worker[w].stage = "held" /\ worker' = [worker EXCEPT ![w].call = "none"]
        /\ UNCHANGED <<ledger, lateWakes, spent, missed>> /\ lapsed' = lapsed /\ mishaps' = mishaps
        /\ UNCHANGED <<feed, toEnd, bindings, cursor, round, binder>>
        /\ binder' = binder /\ bindings' = bindings /\ ledger' = ledger
    BY DEF HandOver
  <1>4. worker' = [worker EXCEPT ![w] = x]
    BY <1>1, <1>2, <1>3 DEF TypeInv
  <1>5. x \in WorkerStates /\ x.stage = "held" /\ x.slot = worker[w].slot /\ x.call = "none"
    BY <1>1, <1>2, <1>3 DEF WorkerStates
  <1>6. WorkerOK(x, IncarnationOf[w])'
    BY <1>1, <1>3, <1>5 DEF WorkerOK, Held, Seat
  <1>7. LedgerStep /\ lapsed' \subseteq Leases /\ mishaps' \in 0..MaxMishaps
    BY <1>1, <1>3, LedgerStays DEF TypeInv
  <1> QED BY <1>3, <1>4, <1>5, <1>6, <1>7, WorkerKeeps

(* The item is given back.                                                 *)
LEMMA InvHandBack ==
    ASSUME IInv, NEW w \in Workers, HandBack(w)
    PROVE  LedgerStep /\ IInv'
  <1>1. TypeInv /\ LedgerOK
    BY DEF IInv
  <1>2. PICK s \in Slots : s = worker[w].slot /\ Held(s) /\ ledger[s] \in Deliveries /\ DeliveryOK(s)
    BY WorkerIs DEF HandBack
  <1>3. PICK e : e = Released(ledger[s], worker[w].lease, lapsed)
    OBVIOUS
  <1>4. /\ ledger' = [ledger EXCEPT ![s] = Released(@, worker[w].lease, lapsed)]
        /\ worker' = [worker EXCEPT ![w] = FreeWorker]
        /\ lateWakes' = lateWakes /\ lapsed' = lapsed /\ Mishap /\ UNCHANGED <<spent, missed>>
        /\ UNCHANGED <<feed, toEnd, bindings, cursor, round, binder>>
    BY <1>2 DEF HandBack
  <1>5. ledger' = [ledger EXCEPT ![s] = e]
    BY <1>1, <1>3, <1>4 DEF TypeInv
  <1>6. \/ e = ledger[s]
        \/ /\ Moves(ledger[s], e) /\ e.cause = ledger[s].cause
           /\ ledger[s].state = "leased" /\ e.state # "processed"
    BY <1>2, <1>3, VerbsMove DEF DeliveryOK
  <1>7. ledger'[s] = e => SlotStep(s)
    BY <1>2, <1>6 DEF SlotStep, Waiting
  <1>8. /\ lateWakes \subseteq lateWakes' /\ lateWakes' \subseteq Slots
        /\ lapsed' \subseteq Leases /\ mishaps' \in 0..MaxMishaps
    BY <1>1, <1>4, MishapCounted DEF TypeInv
  <1>9. LedgerStep
    BY <1>1, <1>4, <1>5, <1>7, <1>8, OneSlotStep
  <1> QED BY <1>4, <1>8, <1>9, WorkerFreed

(* A host that is still heard sits on a live binding of its identity.      *)
LEMMA HeardHostMayClose ==
    ASSUME IInv, NEW n \in Incarnations, binder[n].phase = "bound", StillThisHost(n)
    PROVE  MayClose(Seat(n).id)
  <1> DEFINE named == {i \in DOMAIN bindings : bindings[i].id = Seat(n).id}
  <1>1. TypeInv /\ BindersOK
    BY DEF IInv
  <1>2. binder[n].seat \in 1..Len(bindings)
    BY <1>1 DEF BindersOK, BinderOK
  <1>3. DOMAIN bindings = 1..Len(bindings) /\ Len(bindings) \in Nat
    BY <1>1 DEF TypeInv
  <1>4. named \in SUBSET Nat /\ named # {}
    BY <1>2, <1>3 DEF Seat
  <1>5. Min(named) \in named
    <2> HIDE DEF named
    <2> QED BY <1>4, MinIs
  <1>6. bindings[Min(named)].live
    BY DEF StillThisHost, Admits
  <1>7. Min(named) \in LiveSeats /\ bindings[Min(named)].id = Seat(n).id
    BY <1>5, <1>6 DEF LiveSeats
  <1> QED BY <1>7 DEF MayClose

(* A host that is heard makes its call; another forgets the delivery.      *)
LEMMA InvReport ==
    ASSUME IInv, NEW w \in Workers, NEW call \in {"intent", "processed", "failed"}, Report(w, call)
    PROVE  LedgerStep /\ IInv'
  <1>1. TypeInv
    BY DEF IInv
  <1>2. PICK n \in Incarnations : n = IncarnationOf[w]
    BY WorkerIs
  <1>3. /\ worker[w] \in WorkerStates /\ WorkerOK(worker[w], n)
        /\ worker[w].call = "none" /\ call \in CallsOf(worker[w].stage)
    BY <1>2, WorkerIs DEF Report
  <1>4. /\ UNCHANGED <<ledger, lateWakes, spent, missed>> /\ lapsed' = lapsed /\ mishaps' = mishaps
        /\ UNCHANGED <<feed, toEnd, bindings, cursor, round, binder>>
        /\ binder' = binder /\ bindings' = bindings /\ ledger' = ledger /\ lateWakes' = lateWakes
    BY DEF Report
  <1>5. LedgerStep /\ lapsed' \subseteq Leases /\ mishaps' \in 0..MaxMishaps
    BY <1>1, <1>4, LedgerStays DEF TypeInv
  <1>6. CASE StillThisHost(n)
    <2>1. PICK x : x = [worker[w] EXCEPT !.call = call]
      OBVIOUS
    <2>2. worker' = [worker EXCEPT ![w] = x]
      BY <1>1, <1>2, <1>6, <2>1 DEF TypeInv, Report
    <2>3. x \in WorkerStates /\ x.stage = worker[w].stage /\ x.slot = worker[w].slot /\ x.call = call
      BY <1>3, <2>1 DEF WorkerStates
    <2>4. x.stage \in {"held", "acked"} /\ (call = "processed" <=> x.stage = "acked")
      BY <1>3, <2>3 DEF CallsOf, WorkerStates
    <2>5. binder[n].phase = "bound" /\ x.slot[2] = Seat(n).id
      BY <1>3, <2>3, <2>4 DEF WorkerOK
    <2>6. MayClose(x.slot[2])
      BY <1>6, <2>5, HeardHostMayClose
    <2>7. MayClose(x.slot[2])'
      BY <1>4, <2>6 DEF MayClose, LiveSeats
    <2>8. WorkerOK(x, n)'
      BY <1>3, <1>4, <2>3, <2>4, <2>7 DEF WorkerOK, Held, Seat
    <2> QED BY <1>2, <1>4, <1>5, <2>2, <2>3, <2>8, WorkerKeeps
  <1>7. CASE ~StillThisHost(n)
    <2>1. worker' = [worker EXCEPT ![w] = FreeWorker]
      BY <1>2, <1>7 DEF Report
    <2> QED BY <1>4, <1>5, <2>1, WorkerFreed
  <1> QED BY <1>6, <1>7

(* The intent is taken from whoever holds the lease.                       *)
LEMMA InvRecordIntent ==
    ASSUME IInv, NEW w \in Workers, RecordIntent(w)
    PROVE  LedgerStep /\ IInv'
  <1>1. TypeInv /\ LedgerOK
    BY DEF IInv
  <1>2. PICK n \in Incarnations : n = IncarnationOf[w]
    BY WorkerIs
  <1>3. /\ worker[w] \in WorkerStates /\ WorkerOK(worker[w], n)
        /\ worker[w].call = "intent" /\ worker[w].stage = "held"
    BY <1>2, WorkerIs DEF RecordIntent, WorkerOK
  <1>4. PICK s \in Slots : s = worker[w].slot /\ Held(s) /\ ledger[s] \in Deliveries /\ DeliveryOK(s)
    BY <1>3, WorkerIs
  <1>5. PICK e : e = Acknowledged(ledger[s], worker[w].lease, lapsed)
    OBVIOUS
  <1>6. /\ ledger' = [ledger EXCEPT ![s] = Acknowledged(@, worker[w].lease, lapsed)]
        /\ worker' = [worker EXCEPT ![w] =
              IF TakesIntent(ledger[s], worker[w].lease, lapsed)
              THEN [@ EXCEPT !.call = "none", !.stage = "acked", !.lease = 0] ELSE FreeWorker]
    BY <1>4, Zenon DEF RecordIntent
  <1>7. /\ lateWakes' = lateWakes /\ lapsed' = lapsed /\ mishaps' = mishaps
        /\ UNCHANGED <<feed, toEnd, bindings, cursor, round, binder>>
        /\ binder' = binder /\ bindings' = bindings /\ UNCHANGED <<spent, missed>>
    BY DEF RecordIntent
  <1>8. ledger' = [ledger EXCEPT ![s] = e] /\ ledger'[s] = e
    BY <1>1, <1>5, <1>6 DEF TypeInv
  <1>9. /\ TakesIntent(ledger[s], worker[w].lease, lapsed) =>
             /\ Moves(ledger[s], e) /\ e.cause = ledger[s].cause /\ e.state = "acknowledged"
        /\ ~TakesIntent(ledger[s], worker[w].lease, lapsed) => e = ledger[s]
    BY <1>4, <1>5, VerbsMove DEF DeliveryOK
  <1>10. "acknowledged" \notin Waiting /\ "leased" \in Waiting
    BY DEF Waiting
  <1>11. SlotStep(s)
    BY <1>4, <1>8, <1>9, <1>10 DEF SlotStep
  <1>12. /\ lateWakes \subseteq lateWakes' /\ lateWakes' \subseteq Slots
         /\ lapsed' \subseteq Leases /\ mishaps' \in 0..MaxMishaps
    BY <1>1, <1>7 DEF TypeInv
  <1>13. LedgerStep
    BY <1>1, <1>7, <1>8, <1>11, <1>12, OneSlotStep
  <1>14. CASE TakesIntent(ledger[s], worker[w].lease, lapsed)
    <2>1. PICK x : x = [worker[w] EXCEPT !.call = "none", !.stage = "acked", !.lease = 0]
      OBVIOUS
    <2>2. worker' = [worker EXCEPT ![w] = x]
      BY <1>1, <1>6, <1>14, <2>1 DEF TypeInv
    <2>3. x \in WorkerStates /\ x.stage = "acked" /\ x.slot = s /\ x.call = "none"
      <3>1. PICK l \in Leases \cup {0} : l = 0
        OBVIOUS
      <3> QED BY <1>3, <1>4, <2>1, <3>1 DEF WorkerStates
    <2>4. ledger[s].state \in Waiting
      BY <1>10, <1>14 DEF TakesIntent, Holds
    <2>5. Held(s)'
      BY <1>1, <1>4, <1>13, LedgerKept
    <2>6. ledger'[s].state \notin Waiting
      BY <1>8, <1>9, <1>10, <1>14
    <2>7. WorkerOK(x, n)'
      BY <1>3, <1>4, <1>7, <2>3, <2>5, <2>6 DEF WorkerOK, Seat
    <2> QED BY <1>2, <1>7, <1>12, <1>13, <2>2, <2>3, <2>4, <2>7, WorkerKeeps
  <1>15. CASE ~TakesIntent(ledger[s], worker[w].lease, lapsed)
    <2>1. worker' = [worker EXCEPT ![w] = FreeWorker]
      BY <1>6, <1>15
    <2> QED BY <1>7, <1>12, <1>13, <2>1, WorkerFreed
  <1> QED BY <1>14, <1>15

(* A delivery is closed, for a binding that has the right to.              *)
LEMMA InvRecordProcessed ==
    ASSUME IInv, NEW w \in Workers, RecordProcessed(w)
    PROVE  LedgerStep /\ IInv'
  <1>1. TypeInv /\ LedgerOK /\ BindingsOK /\ BindersOK
    BY DEF IInv
  <1>2. PICK n \in Incarnations : n = IncarnationOf[w]
    BY WorkerIs
  <1>3. /\ worker[w].call = "processed" /\ worker[w].stage = "acked" /\ binder[n].phase = "bound"
        /\ MayClose(worker[w].slot[2]) \/ IsTerminal(ledger[worker[w].slot])
    BY <1>2, WorkerIs DEF RecordProcessed, WorkerOK
  <1>4. PICK s \in Slots : s = worker[w].slot /\ Held(s) /\ ledger[s] \in Deliveries /\ DeliveryOK(s)
    BY <1>3, WorkerIs
  <1>5. PICK fence \in 0..MaxFence : fence = Seat(n).fence
    <2>1. binder[n].seat \in 1..Len(bindings) /\ Len(bindings) \in Nat /\ Len(bindings) <= MaxFence
      BY <1>1, <1>3, LoopAssumption DEF BindersOK, BinderOK, TypeInv
    <2>2. DOMAIN bindings = 1..Len(bindings)
      BY <1>1 DEF TypeInv
    <2>3. Seat(n).fence \in 1..binder[n].seat
      BY <1>1, <2>1, <2>2 DEF BindingsOK, Seat
    <2> QED BY <2>1, <2>3, LoopAssumption
  <1>6. PICK e : e = Processed(ledger[s], n, fence)
    OBVIOUS
  <1>7. /\ ledger' = [ledger EXCEPT ![s] = Processed(@, n, fence)]
        /\ worker' = [worker EXCEPT ![w] = FreeWorker]
        /\ lateWakes' = lateWakes /\ lapsed' = lapsed /\ mishaps' = mishaps
        /\ UNCHANGED <<feed, toEnd, bindings, cursor, round, binder>> /\ UNCHANGED <<spent, missed>>
    BY <1>2, <1>4, <1>5 DEF RecordProcessed
  <1>8. ledger' = [ledger EXCEPT ![s] = e]
    BY <1>1, <1>6, <1>7 DEF TypeInv
  <1>9. \/ e = ledger[s]
        \/ Moves(ledger[s], e) /\ e.cause = ledger[s].cause /\ e.state = "processed"
    BY <1>4, <1>6, ProcessedMoves DEF DeliveryOK
  <1>10. "processed" \notin Waiting
    BY DEF Waiting
  <1>11. ledger'[s] = e => SlotStep(s)
    BY <1>3, <1>4, <1>9, <1>10 DEF SlotStep, Moves
  <1>12. /\ lateWakes \subseteq lateWakes' /\ lateWakes' \subseteq Slots
         /\ lapsed' \subseteq Leases /\ mishaps' \in 0..MaxMishaps
    BY <1>1, <1>7 DEF TypeInv
  <1>13. LedgerStep
    BY <1>1, <1>7, <1>8, <1>11, <1>12, OneSlotStep
  <1> QED BY <1>7, <1>12, <1>13, WorkerFreed

(* A failed attempt is counted.                                            *)
LEMMA InvRecordFailed ==
    ASSUME IInv, NEW w \in Workers, RecordFailed(w)
    PROVE  LedgerStep /\ IInv'
  <1>1. TypeInv /\ LedgerOK
    BY DEF IInv
  <1>2. worker[w].stage = "held"
    BY WorkerIs DEF RecordFailed, WorkerOK
  <1>3. PICK s \in Slots : s = worker[w].slot /\ Held(s) /\ ledger[s] \in Deliveries /\ DeliveryOK(s)
    BY <1>2, WorkerIs
  <1>4. PICK e : e = Failed(ledger[s], worker[w].lease, lapsed)
    OBVIOUS
  <1>5. /\ ledger' = [ledger EXCEPT ![s] = Failed(@, worker[w].lease, lapsed)]
        /\ worker' = [worker EXCEPT ![w] = FreeWorker]
        /\ lateWakes' = lateWakes /\ lapsed' = lapsed /\ mishaps' = mishaps
        /\ UNCHANGED <<feed, toEnd, bindings, cursor, round, binder>> /\ UNCHANGED <<spent, missed>>
    BY <1>3 DEF RecordFailed
  <1>6. ledger' = [ledger EXCEPT ![s] = e]
    BY <1>1, <1>4, <1>5 DEF TypeInv
  <1>7. \/ e = ledger[s]
        \/ /\ Moves(ledger[s], e) /\ e.cause = ledger[s].cause
           /\ ledger[s].state = "leased" /\ e.state # "processed"
    BY <1>3, <1>4, VerbsMove DEF DeliveryOK
  <1>8. ledger'[s] = e => SlotStep(s)
    BY <1>3, <1>7 DEF SlotStep, Waiting
  <1>9. /\ lateWakes \subseteq lateWakes' /\ lateWakes' \subseteq Slots
        /\ lapsed' \subseteq Leases /\ mishaps' \in 0..MaxMishaps
    BY <1>1, <1>5 DEF TypeInv
  <1>10. LedgerStep
    BY <1>1, <1>5, <1>6, <1>8, <1>9, OneSlotStep
  <1> QED BY <1>5, <1>9, <1>10, WorkerFreed

(* A worker forgets what it was doing.                                     *)
LEMMA InvWorkerCrash ==
    ASSUME IInv, NEW w \in Workers, WorkerCrash(w)
    PROVE  LedgerStep /\ IInv'
  <1>1. TypeInv
    BY DEF IInv
  <1>2. /\ worker' = [worker EXCEPT ![w] = FreeWorker] /\ Mishap /\ lapsed' = lapsed
        /\ UNCHANGED <<ledger, lateWakes, spent, missed>>
        /\ UNCHANGED <<feed, toEnd, bindings, cursor, round, binder>>
    BY DEF WorkerCrash
  <1>3. LedgerStep /\ lapsed' \subseteq Leases /\ mishaps' \in 0..MaxMishaps
    BY <1>1, <1>2, LedgerStays, MishapCounted DEF TypeInv
  <1> QED BY <1>2, <1>3, WorkerFreed

-----------------------------------------------------------------------------
(* The bindings, and the sweeps over the whole ledger.                     *)

(* A step that leaves rounds and workers alone keeps the invariant if the  *)
(* bindings and standings are in order.                                    *)
LEMMA OthersKeep ==
    ASSUME IInv, LedgerStep, StandingsKept,
           UNCHANGED <<feed, cursor, round, worker>>,
           toEnd' \in BOOLEAN, mishaps' \in 0..MaxMishaps, lapsed' \subseteq Leases,
           bindings' \in Seq(Bindings), Len(bindings') <= MaxBindings,
           binder' \in [Incarnations -> Standings], BindingsOK', BindersOK'
    PROVE  IInv'
  <1>1. /\ TypeInv /\ LedgerOK /\ RoundsOK /\ CursorOK /\ WorkersOK /\ OneActor
    BY DEF IInv
  <1>2. feed' = feed /\ cursor' = cursor /\ round' = round /\ worker' = worker
    OBVIOUS
  <1>3. /\ ledger' \in [Slots -> Deliveries \cup {NoDelivery}] /\ LedgerOK' /\ lateWakes' \subseteq Slots
        /\ spent' \subseteq BindingIds /\ missed' \in Misses
    BY <1>1, LedgerKept DEF LedgerStep, RecordsGrow
  <1>4. TypeInv'
    BY <1>1, <1>2, <1>3 DEF TypeInv
  <1>5. RoundsOK'
    <2>1. SUFFICES ASSUME NEW q \in Projectors, NEW r, r = round[q]
                   PROVE  RoundOK(r)' /\ HolderOK(r, q)'
      BY <1>2 DEF RoundsOK
    <2>2. r \in Rounds /\ RoundOK(r) /\ HolderOK(r, q)
      BY <1>1, <2>1 DEF TypeInv, RoundsOK
    <2>3. RoundOK(r)'
      BY <1>1, <2>2, RoundKept
    <2>4. HolderOK(r, q)'
      BY <1>1, <1>2, <2>2, HolderKept DEF LedgerStep
    <2> QED BY <2>3, <2>4
  <1>6. CursorOK'
    BY <1>1, <1>2, CursorKept
  <1>7. WorkersOK'
    <2>1. SUFFICES ASSUME NEW w \in Workers, NEW x, x = worker[w]
                   PROVE  WorkerOK(x, IncarnationOf[w])'
      BY <1>2 DEF WorkersOK
    <2>2. WorkerOK(x, IncarnationOf[w]) /\ IncarnationOf[w] \in Incarnations
      BY <1>1, <2>1, LoopAssumption DEF WorkersOK
    <2> QED BY <1>1, <2>2, WorkerKept
  <1>8. OneActor'
    BY <1>1, <1>2, ActorsKept
  <1> QED BY <1>3, <1>4, <1>5, <1>6, <1>7, <1>8 DEF IInv

(* The same, where the bindings and the standings are left alone.          *)
LEMMA StandingOthersKeep ==
    ASSUME IInv, LedgerStep,
           UNCHANGED <<feed, cursor, round, worker, bindings, binder>>,
           toEnd' \in BOOLEAN, mishaps' \in 0..MaxMishaps, lapsed' \subseteq Leases
    PROVE  IInv'
  <1>1. TypeInv /\ BindingsOK /\ BindersOK
    BY DEF IInv
  <1>2. bindings' = bindings /\ binder' = binder /\ UNCHANGED <<feed, cursor, round, worker>>
    OBVIOUS
  <1>3. BindingsOK' /\ BindersOK'
    BY <1>1, <1>2 DEF BindingsOK, BindersOK, BinderOK, LiveSeats
  <1>4. /\ bindings' \in Seq(Bindings) /\ Len(bindings') <= MaxBindings
        /\ binder' \in [Incarnations -> Standings]
    BY <1>1, <1>2 DEF TypeInv
  <1>5. StandingsKept
    BY StandingsStay
  <1> QED BY <1>2, <1>3, <1>4, <1>5, OthersKeep

(* The time of a lease runs out.                                           *)
LEMMA InvLeaseLapses ==
    ASSUME IInv, NEW lease \in Leases, LeaseLapses(lease)
    PROVE  LedgerStep /\ IInv'
  <1>1. TypeInv
    BY DEF IInv
  <1>2. /\ UNCHANGED <<feed, cursor, round, worker, bindings, binder>> /\ toEnd' = toEnd
        /\ UNCHANGED <<ledger, lateWakes, spent, missed>> /\ lapsed' = lapsed \cup {lease}
        /\ Mishap \/ UNCHANGED mishaps
    BY DEF LeaseLapses
  <1>3. LedgerStep /\ lapsed' \subseteq Leases /\ mishaps' \in 0..MaxMishaps /\ toEnd' \in BOOLEAN
    BY <1>1, <1>2, LedgerStays, MishapCounted DEF TypeInv
  <1> QED BY <1>2, <1>3, StandingOthersKeep

(* A round was the last the policy allows.                                 *)
LEMMA InvUseUpRounds ==
    ASSUME IInv, NEW w \in Workers, UseUpRounds(w)
    PROVE  LedgerStep /\ IInv'
  <1>1. TypeInv /\ BindersOK
    BY DEF IInv
  <1>2. PICK n \in Incarnations : n = IncarnationOf[w]
    BY WorkerIs
  <1>3. Seat(n).id \in BindingIds
    <2>1. binder[n].seat \in 1..Len(bindings)
      BY <1>1, <1>2 DEF UseUpRounds, Bound, BindersOK, BinderOK
    <2>2. Seat(n) \in Bindings
      BY <1>1, <2>1 DEF TypeInv, Seat
    <2> QED BY <2>2 DEF Bindings
  <1>4. /\ UNCHANGED <<feed, cursor, round, worker, bindings, binder>> /\ toEnd' = toEnd
        /\ ledger' = ledger /\ lateWakes' = lateWakes /\ lapsed' = lapsed /\ mishaps' = mishaps
        /\ spent' = spent \cup {Seat(n).id} /\ missed' = missed
    BY <1>2 DEF UseUpRounds
  <1>5. RecordsGrow
    <2>1. \A b \in BindingIds : \A j \in 1..MaxNews : missed[b][j] \in Nat
      BY <1>1, LoopAssumption DEF TypeInv, Misses
    <2> QED BY <1>1, <1>3, <1>4, <2>1 DEF RecordsGrow, TypeInv
  <1>6. LedgerStep /\ lapsed' \subseteq Leases /\ mishaps' \in 0..MaxMishaps /\ toEnd' \in BOOLEAN
    BY <1>1, <1>4, <1>5 DEF LedgerStep, SlotStep, TypeInv
  <1> QED BY <1>4, <1>6, StandingOthersKeep

(* The ending record gives up on every open offer.                         *)
LEMMA InvEndPending ==
    ASSUME IInv, EndPending
    PROVE  LedgerStep /\ IInv'
  <1>1. TypeInv /\ LedgerOK
    BY DEF IInv
  <1>2. /\ UNCHANGED <<feed, cursor, round, worker, bindings, binder>> /\ toEnd' = FALSE
        /\ lateWakes' = lateWakes /\ lapsed' = lapsed /\ mishaps' = mishaps
        /\ ledger' = [s \in Slots |-> IF Held(s) THEN Abandoned(ledger[s], "ended") ELSE NoDelivery]
    BY DEF EndPending
  <1>6. RecordsGrow
    BY <1>1, RecordsStay DEF EndPending
  <1>3. ASSUME NEW s \in Slots PROVE SlotStep(s)
    <2>1. CASE ~Held(s)
      BY <1>2, <2>1 DEF SlotStep, Held
    <2>2. CASE Held(s)
      <3>1. ledger[s] \in Deliveries /\ ledger'[s] = Abandoned(ledger[s], "ended")
        BY <1>1, <1>2, <2>2, SlotIs
      <3>2. \/ ledger'[s] = ledger[s]
            \/ /\ Moves(ledger[s], ledger'[s]) /\ ledger'[s].cause = "ended"
               /\ ledger'[s].state = "expired"
        BY <3>1, AbandonedMoves
      <3>3. "expired" \notin Waiting
        BY DEF Waiting
      <3> QED BY <2>2, <3>2, <3>3 DEF SlotStep
    <2> QED BY <2>1, <2>2
  <1>4. ledger' = [s \in Slots |-> ledger'[s]]
    BY <1>2
  <1>5. LedgerStep /\ lapsed' \subseteq Leases /\ mishaps' \in 0..MaxMishaps /\ toEnd' \in BOOLEAN
    BY <1>1, <1>2, <1>3, <1>4, <1>6 DEF LedgerStep, TypeInv
  <1> QED BY <1>2, <1>5, StandingOthersKeep

(* The work left open by the binding replaced is superseded, all of it.    *)
LEMMA InvMoveTheWork ==
    ASSUME IInv, NEW n \in Incarnations, MoveTheWork(n)
    PROVE  LedgerStep /\ IInv'
  <1>1. TypeInv /\ LedgerOK /\ BindingsOK /\ BindersOK
    BY DEF IInv
  <1>2. PICK b \in Standings : b = binder[n]
    BY <1>1 DEF TypeInv
  <1>3. b.phase = "moving" /\ b.seat \in 1..Len(bindings)
    BY <1>1, <1>2 DEF MoveTheWork, BindersOK, BinderOK
  <1>4. PICK to \in BindingIds : to = Seat(n).id
    <2>1. Seat(n) \in Bindings
      BY <1>1, <1>2, <1>3 DEF TypeInv, Seat
    <2> QED BY <2>1 DEF Bindings
  <1>5. PICK open : open = LeftOpen(b.from)
    OBVIOUS
  <1>6. /\ UNCHANGED <<feed, cursor, round, worker>> /\ toEnd' = toEnd /\ bindings' = bindings
        /\ lateWakes' = lateWakes /\ lapsed' = lapsed /\ mishaps' = mishaps
        /\ ledger' = Supersession(b.from, to, b.follow)
        /\ binder' = [binder EXCEPT ![n] = [@ EXCEPT !.phase = "bound", !.from = NoBinding]]
    BY <1>2, <1>4 DEF MoveTheWork
  <1>18. RecordsGrow
    BY <1>1, RecordsStay DEF MoveTheWork
  <1>7. /\ ledger' = [s \in Slots |-> ledger'[s]]
        /\ \A s \in open \cap Slots :
             ledger'[s] = Superseded(ledger[s], IF b.follow THEN to ELSE NoBinding)
        /\ \A s \in Slots \ open : ledger'[s] = ledger[s] \/ (~Held(s) /\ ledger'[s] = Queued)
    BY <1>5, <1>6 DEF Supersession
  <1>8. ASSUME NEW s \in open \cap Slots
        PROVE  /\ Held(s) /\ Moves(ledger[s], ledger'[s]) /\ ledger'[s].cause = ledger[s].cause
               /\ ledger'[s].state = "superseded"
    <2>1. Held(s) /\ ~IsTerminal(ledger[s]) /\ ledger[s] \in Deliveries
      BY <1>1, <1>5, <1>8, SlotIs DEF LeftOpen
    <2>2. PICK by \in BindingIds \cup {NoBinding} : by = IF b.follow THEN to ELSE NoBinding
      OBVIOUS
    <2>3. ledger'[s] = Superseded(ledger[s], by)
      BY <1>7, <1>8, <2>2
    <2> QED BY <2>1, <2>3, SupersededMoves
  <1>9. "superseded" \notin Waiting /\ "superseded" \in Terminal
    BY DEF Waiting, Terminal
  <1>10. ASSUME NEW s \in Slots PROVE SlotStep(s)
    <2>1. CASE s \in open
      BY <1>8, <1>9, <2>1 DEF SlotStep
    <2>2. CASE s \notin open
      BY <1>7, <2>2 DEF SlotStep
    <2> QED BY <2>1, <2>2
  <1>11. /\ LedgerStep /\ lapsed' \subseteq Leases /\ mishaps' \in 0..MaxMishaps /\ toEnd' \in BOOLEAN
         /\ bindings' \in Seq(Bindings) /\ Len(bindings') <= MaxBindings
    BY <1>1, <1>6, <1>7, <1>10, <1>18 DEF LedgerStep, TypeInv
  <1>12. PICK c : c = [b EXCEPT !.phase = "bound", !.from = NoBinding]
    OBVIOUS
  <1>13. c \in Standings /\ c.phase = "bound" /\ c.seat = b.seat /\ c.from = NoBinding
    BY <1>12 DEF Standings
  <1>14. binder' = [binder EXCEPT ![n] = c]
    BY <1>1, <1>2, <1>6, <1>12 DEF TypeInv
  <1>15. /\ binder' \in [Incarnations -> Standings]
         /\ \A m \in Incarnations : binder'[m] = IF m = n THEN c ELSE binder[m]
    BY <1>1, <1>13, <1>14 DEF TypeInv
  <1>16. BindingsOK' /\ BindersOK'
    BY <1>1, <1>3, <1>6, <1>13, <1>15 DEF BindingsOK, BindersOK, BinderOK, LiveSeats
  <1>17. StandingsKept
    <2>1. ASSUME NEW m \in Incarnations, binder[m].phase = "bound"
          PROVE  binder'[m].phase = "bound" /\ Seat(m)'.id = Seat(m).id
      BY <1>2, <1>3, <1>6, <1>15, <2>1 DEF Seat
    <2>2. ASSUME NEW s \in Slots, MayClose(s[2]), Held(s)
          PROVE  MayClose(s[2])' \/ IsTerminal(ledger'[s])
      <3>1. CASE \E i \in LiveSeats : bindings[i].id = s[2]
        BY <1>6, <3>1 DEF MayClose, LiveSeats
      <3>2. CASE b.from = s[2]
        <4>1. CASE s \in open
          BY <1>8, <1>9, <4>1 DEF IsTerminal
        <4>2. CASE s \notin open
          <5>1. IsTerminal(ledger[s])
            BY <1>5, <2>2, <3>2, <4>2 DEF LeftOpen
          <5> QED BY <1>1, <1>11, <2>2, <5>1, LedgerKept
        <4> QED BY <4>1, <4>2
      <3>3. CASE \E m \in Incarnations \ {n} : binder[m].from = s[2]
        BY <1>15, <3>3 DEF MayClose
      <3> QED BY <1>2, <2>2, <3>1, <3>2, <3>3 DEF MayClose
    <2> QED BY <2>1, <2>2 DEF StandingsKept
  <1> QED BY <1>6, <1>11, <1>15, <1>16, <1>17, OthersKeep

(* The work stays where it was, and `from` says whose it is.               *)
LEMMA InvWorkNotMoved ==
    ASSUME IInv, NEW n \in Incarnations, WorkNotMoved(n)
    PROVE  LedgerStep /\ IInv'
  <1>1. TypeInv /\ LedgerOK /\ BindingsOK /\ BindersOK
    BY DEF IInv
  <1>2. PICK b \in Standings : b = binder[n]
    BY <1>1 DEF TypeInv
  <1>3. b.phase = "moving" /\ b.seat \in 1..Len(bindings)
    BY <1>1, <1>2 DEF WorkNotMoved, BindersOK, BinderOK
  <1>4. /\ UNCHANGED <<feed, cursor, round, worker>> /\ toEnd' = toEnd /\ bindings' = bindings
        /\ lapsed' = lapsed /\ Mishap /\ UNCHANGED <<ledger, lateWakes, spent, missed>>
        /\ binder' = [binder EXCEPT ![n].phase = "bound"]
    BY DEF WorkNotMoved
  <1>5. /\ LedgerStep /\ lapsed' \subseteq Leases /\ mishaps' \in 0..MaxMishaps /\ toEnd' \in BOOLEAN
        /\ bindings' \in Seq(Bindings) /\ Len(bindings') <= MaxBindings
    BY <1>1, <1>4, LedgerStays, MishapCounted DEF TypeInv
  <1>6. PICK c : c = [b EXCEPT !.phase = "bound"]
    OBVIOUS
  <1>7. c \in Standings /\ c.phase = "bound" /\ c.seat = b.seat /\ c.from = b.from
    BY <1>6 DEF Standings
  <1>8. binder' = [binder EXCEPT ![n] = c]
    BY <1>1, <1>2, <1>4, <1>6 DEF TypeInv
  <1>9. /\ binder' \in [Incarnations -> Standings]
        /\ \A m \in Incarnations : binder'[m] = IF m = n THEN c ELSE binder[m]
    BY <1>1, <1>7, <1>8 DEF TypeInv
  <1>10. BindingsOK' /\ BindersOK'
    BY <1>1, <1>3, <1>4, <1>7, <1>9 DEF BindingsOK, BindersOK, BinderOK, LiveSeats
  <1>11. StandingsKept
    <2>1. \A m \in Incarnations : binder'[m].from = binder[m].from /\ binder'[m].seat = binder[m].seat
      BY <1>2, <1>7, <1>9
    <2>2. \A m \in Incarnations : binder[m].phase = "bound" => binder'[m].phase = "bound"
      BY <1>7, <1>9
    <2> QED BY <1>4, <2>1, <2>2 DEF StandingsKept, Seat, MayClose, LiveSeats
  <1> QED BY <1>4, <1>5, <1>9, <1>10, <1>11, OthersKeep

(* A binding takes force; the one it replaces may close until it is moved. *)
LEMMA InvBind ==
    ASSUME IInv, NEW n \in Incarnations, NEW id \in BindingIds, NEW follow \in BOOLEAN,
           Bind(n, id, follow)
    PROVE  LedgerStep /\ IInv'
  <1>1. TypeInv /\ LedgerOK /\ BindingsOK /\ BindersOK
    BY DEF IInv
  <1>2. PICK b \in Standings : b = binder[n]
    BY <1>1 DEF TypeInv
  <1>3. b.phase = "away" /\ b.from = NoBinding
    BY <1>1, <1>2 DEF Bind, BindersOK, BinderOK
  <1>4. PICK len \in Nat : len = Len(bindings)
    BY <1>1 DEF TypeInv
  <1>5. /\ len < MaxBindings /\ DOMAIN bindings = 1..len
        /\ \A i \in 1..len : bindings[i] \in Bindings /\ bindings[i].fence \in 1..i
    BY <1>1, <1>4 DEF Bind, TypeInv, BindingsOK
  <1>6. /\ UNCHANGED <<feed, cursor, round, worker>> /\ toEnd' = toEnd
        /\ lapsed' = lapsed /\ mishaps' = mishaps /\ UNCHANGED <<ledger, lateWakes, spent, missed>>
    BY DEF Bind
  <1>7. LedgerStep /\ lapsed' \subseteq Leases /\ mishaps' \in 0..MaxMishaps /\ toEnd' \in BOOLEAN
    BY <1>1, <1>6, LedgerStays DEF TypeInv
  <1>8. PICK fence \in 1..(len + 1), c \in Standings :
          /\ bindings' \in Seq(Bindings) /\ Len(bindings') = len + 1
          /\ bindings'[len + 1].fence = fence
          /\ \A i \in 1..len : /\ bindings'[i].id = bindings[i].id /\ ~bindings'[i].live
                               /\ bindings'[i].fence = bindings[i].fence
          /\ binder' = [binder EXCEPT ![n] = c] /\ c.phase # "away" /\ c.seat = len + 1
          /\ \A i \in LiveSeats : c.from = bindings[i].id
    <2>1. CASE LiveSeats = {}
      <3>1. PICK o : o = [id |-> id, incarnation |-> n, fence |-> 1, live |-> TRUE]
        OBVIOUS
      <3>2. PICK k \in Nat : k = len + 1
        BY <1>4
      <3>8. PICK c : c = [b EXCEPT !.phase = "bound", !.seat = k]
        OBVIOUS
      <3>3. o \in Bindings /\ bindings' = Append(bindings, o)
        BY <2>1, <3>1 DEF Bind, Bindings
      <3>4. binder' = [binder EXCEPT ![n] = c]
        BY <1>1, <1>2, <1>4, <2>1, <3>2, <3>8 DEF Bind, TypeInv
      <3>5. c \in Standings /\ c.phase = "bound" /\ c.seat = len + 1
        BY <3>2, <3>8 DEF Standings
      <3>6. /\ bindings' \in Seq(Bindings) /\ Len(bindings') = len + 1 /\ bindings'[len + 1] = o
            /\ \A i \in 1..len : bindings'[i] = bindings[i]
        BY <1>1, <1>4, <3>3 DEF TypeInv
      <3>7. \A i \in 1..len : ~bindings[i].live
        BY <1>5, <2>1 DEF LiveSeats
      <3>9. PICK fence \in 1..(len + 1) : fence = 1
        BY <1>4
      <3>10. bindings'[len + 1].fence = fence /\ c.phase # "away"
        BY <3>1, <3>5, <3>6, <3>9
      <3> QED BY <2>1, <3>4, <3>5, <3>6, <3>7, <3>10
    <2>2. CASE LiveSeats # {}
      <3>1. PICK j \in LiveSeats : Current = bindings[j]
        BY <2>2, Zenon DEF Current
      <3>2. j \in 1..len /\ \A i \in LiveSeats : i = j
        BY <1>1, <1>5, <3>1 DEF LiveSeats, BindingsOK
      <3>3. PICK cur \in Bindings : cur = Current /\ cur = bindings[j]
        BY <1>5, <3>1, <3>2
      <3>4. PICK fence \in 1..(len + 1) : fence = cur.fence + 1
        BY <1>5, <3>2, <3>3
      <3>5. PICK o : o = [[id |-> id, incarnation |-> n, fence |-> 1, live |-> TRUE]
                            EXCEPT !.fence = fence]
        OBVIOUS
      <3>6. o \in Bindings /\ o.fence = fence
        <4>1. PICK a \in Bindings : a = [id |-> id, incarnation |-> n, fence |-> 1, live |-> TRUE]
          BY DEF Bindings
        <4>2. fence \in Nat
          BY <1>4, <3>4
        <4>3. o = [a EXCEPT !.fence = fence]
          BY <3>5, <4>1
        <4> QED BY <4>2, <4>3 DEF Bindings
      <3>7. PICK old : old = [i \in 1..len |-> [bindings[i] EXCEPT !.live = FALSE]]
        OBVIOUS
      <3>8. \A i \in 1..len : /\ old[i] \in Bindings /\ old[i].id = bindings[i].id /\ ~old[i].live
                              /\ old[i].fence = bindings[i].fence
        BY <1>5, <3>7 DEF Bindings
      <3>9. old \in Seq(Bindings) /\ Len(old) = len
        <4>1. old = [i \in 1..len |-> old[i]]
          BY <3>7
        <4> QED BY <1>4, <3>8, <4>1
      <3>10. PICK c : c = [phase |-> "moving", seat |-> len + 1, from |-> cur.id, follow |-> follow]
        OBVIOUS
      <3>11. c \in Standings
        BY <1>4, <3>3, <3>10 DEF Standings, Bindings
      <3>12. bindings' = Append(old, o)
        <4>1. bindings' = Append([i \in DOMAIN bindings |-> [bindings[i] EXCEPT !.live = FALSE]],
                [[id |-> id, incarnation |-> n, fence |-> 1, live |-> TRUE] EXCEPT !.fence = Current.fence + 1])
          BY <2>2 DEF Bind
        <4> QED BY <1>5, <3>3, <3>4, <3>5, <3>7, <4>1
      <3>13. binder' = [binder EXCEPT ![n] = c]
        BY <1>4, <2>2, <3>3, <3>10 DEF Bind
      <3>14. /\ bindings' \in Seq(Bindings) /\ Len(bindings') = len + 1 /\ bindings'[len + 1] = o
             /\ \A i \in 1..len : bindings'[i] = old[i]
        BY <3>6, <3>9, <3>12
      <3>15. \A i \in LiveSeats : c.from = bindings[i].id
        BY <3>2, <3>3, <3>10
      <3>16. c.phase # "away" /\ c.seat = len + 1
        BY <3>10
      <3> QED BY <3>6, <3>8, <3>11, <3>13, <3>14, <3>15, <3>16
    <2> QED BY <2>1, <2>2
  <1>9. /\ binder' \in [Incarnations -> Standings]
        /\ \A m \in Incarnations : binder'[m] = IF m = n THEN c ELSE binder[m]
    BY <1>1, <1>8 DEF TypeInv
  <1>10. DOMAIN bindings' = 1..(len + 1)
    BY <1>8
  <1>11. BindingsOK'
    <2>1. \A i \in LiveSeats' : i = len + 1
      BY <1>4, <1>8, <1>10 DEF LiveSeats
    <2>2. \A i \in 1..(len + 1) : bindings'[i].fence \in 1..i
      <3>1. SUFFICES ASSUME NEW i \in 1..(len + 1) PROVE bindings'[i].fence \in 1..i
        OBVIOUS
      <3>2. CASE i = len + 1
        BY <1>8, <3>2
      <3>3. CASE i \in 1..len
        BY <1>5, <1>8, <3>3
      <3> QED BY <1>4, <3>2, <3>3
    <2> QED BY <1>10, <2>1, <2>2 DEF BindingsOK
  <1>12. BindersOK'
    BY <1>1, <1>4, <1>8, <1>9 DEF BindersOK, BinderOK
  <1>13. StandingsKept
    <2>1. ASSUME NEW m \in Incarnations, binder[m].phase = "bound"
          PROVE  binder'[m].phase = "bound" /\ Seat(m)'.id = Seat(m).id
      <3>1. m # n /\ binder'[m] = binder[m]
        BY <1>2, <1>3, <1>9, <2>1
      <3>2. binder[m].seat \in 1..len
        BY <1>1, <1>4, <2>1 DEF BindersOK, BinderOK
      <3> QED BY <1>8, <2>1, <3>1, <3>2 DEF Seat
    <2>2. ASSUME NEW s \in Slots, MayClose(s[2]) PROVE MayClose(s[2])'
      <3>1. CASE \E i \in LiveSeats : bindings[i].id = s[2]
        BY <1>8, <1>9, <3>1 DEF MayClose
      <3>2. CASE \E m \in Incarnations : binder[m].from = s[2]
        <4>1. PICK m \in Incarnations : binder[m].from = s[2]
          BY <3>2
        <4>2. s[2] # NoBinding
          BY NothingAssumption DEF Slots
        <4>3. binder'[m].from = s[2]
          BY <1>2, <1>3, <1>9, <4>1, <4>2
        <4> QED BY <4>3 DEF MayClose
      <3> QED BY <2>2, <3>1, <3>2 DEF MayClose
    <2> QED BY <2>1, <2>2 DEF StandingsKept
  <1>14. Len(bindings') <= MaxBindings
    BY <1>5, <1>8, LoopAssumption
  <1> QED BY <1>6, <1>7, <1>8, <1>9, <1>11, <1>12, <1>13, <1>14, OthersKeep

-----------------------------------------------------------------------------
(* The invariant holds at first and is kept.                               *)

(* The initial states satisfy the invariant.                               *)
LEMMA InvInit ==
    ASSUME Init
    PROVE  IInv
  <1>1. /\ feed = 0 /\ toEnd = FALSE /\ mishaps = 0 /\ lapsed = {} /\ lateWakes = {}
        /\ bindings = <<>> /\ ledger = [s \in Slots |-> NoDelivery]
        /\ cursor = [b \in BindingIds |-> FreshCursor]
        /\ spent = {} /\ missed = [b \in BindingIds |-> [k \in 1 .. MaxNews |-> 0]]
        /\ round = [p \in Projectors |-> IdleRound]
        /\ worker = [w \in Workers |-> FreeWorker]
        /\ binder = [n \in Incarnations |-> NoStanding]
    BY DEF Init
  <1>2. IdleRound \in Rounds /\ FreeWorker \in WorkerStates /\ NoStanding \in Standings
    BY DEF IdleRound, Rounds, FreeWorker, WorkerStates, NoStanding, Standings
  <1>3. TypeInv
    <2>1. bindings \in Seq(Bindings) /\ Len(bindings) <= MaxBindings
      BY <1>1, LoopAssumption
    <2>2. cursor \in [BindingIds -> Cursors] /\ spent \subseteq BindingIds
      <3>1. FreshCursor \in Cursors
        BY LoopAssumption DEF FreshCursor, Cursors
      <3> QED BY <1>1, <3>1
    <2>6. missed \in Misses
      BY <1>1, LoopAssumption DEF Misses
    <2>3. ledger \in [Slots -> Deliveries \cup {NoDelivery}]
      BY <1>1
    <2>4. feed \in 0..MaxNews /\ mishaps \in 0..MaxMishaps
      BY <1>1, LoopAssumption
    <2>5. /\ round \in [Projectors -> Rounds] /\ worker \in [Workers -> WorkerStates]
          /\ binder \in [Incarnations -> Standings]
      BY <1>1, <1>2
    <2> QED BY <1>1, <2>1, <2>2, <2>3, <2>4, <2>5, <2>6 DEF TypeInv
  <1>4. BindingsOK /\ BindersOK
    BY <1>1 DEF BindingsOK, LiveSeats, BindersOK, BinderOK, NoStanding
  <1>5. LedgerOK /\ OneActor
    BY <1>1 DEF LedgerOK, DeliveryOK, Held, OneActor, FreeWorker
  <1>6. RoundsOK
    <2>1. \A p \in Projectors : round[p] = IdleRound
      BY <1>1
    <2>2. \A p \in Projectors : HolderOK(IdleRound, p)
      BY DEF HolderOK, Walks, IdleRound, Active
    <2> QED BY <2>1, <2>2, IdleRoundOK DEF RoundsOK
  <1>7. CursorOK
    <2>1. SUFFICES ASSUME NEW id \in BindingIds
                   PROVE  CountsOK(id) /\ \A k \in 1..cursor[id].position : Passed(id, k)
      BY DEF CursorOK
    <2>2. cursor[id].position = 0 /\ cursor[id].attempt = 0
      BY <1>1 DEF FreshCursor
    <2>3. CountsOK(id)
      <3>1. SUFFICES ASSUME 0 < MaxNews PROVE 0 <= missed[id][1]
        BY <2>2 DEF CountsOK
      <3>2. 1 \in 1..MaxNews
        BY <3>1, LoopAssumption
      <3> QED BY <1>1, <3>2
    <2> QED BY <2>2, <2>3
  <1>8. WorkersOK
    BY <1>1 DEF WorkersOK, WorkerOK, FreeWorker
  <1> QED BY <1>3, <1>4, <1>5, <1>6, <1>7, <1>8 DEF IInv

(* So does a state that did not change.                                    *)
LEMMA InvStutters ==
    ASSUME IInv, UNCHANGED vars
    PROVE  LedgerStep /\ IInv'
  <1>1. /\ UNCHANGED <<feed, cursor, round, worker, bindings, binder>>
        /\ UNCHANGED <<ledger, lateWakes, spent, missed>> /\ toEnd' = toEnd /\ mishaps' = mishaps
        /\ lapsed' = lapsed
    BY DEF vars
  <1>2. LedgerStep /\ lapsed' \subseteq Leases /\ mishaps' \in 0..MaxMishaps /\ toEnd' \in BOOLEAN
    BY <1>1, LedgerStays DEF IInv, TypeInv
  <1> QED BY <1>1, <1>2, StandingOthersKeep

(* Every step keeps the invariant and is a step of the ledger.             *)
LEMMA InvNext ==
    ASSUME IInv, [Next]_vars
    PROVE  LedgerStep /\ IInv'
  <1>1. ASSUME NEW p \in Projectors, ProjectorStep(p) \/ OfferFails(p) \/ ProjectorCrash(p)
        PROVE  LedgerStep /\ IInv'
    BY <1>1, InvStartRound, InvWalkOn, InvWithhold, InvMakeRoom, InvEnqueue, InvWake,
       InvAcknowledgePosition, InvOfferFails, InvMarkFailed, InvSetAside, InvProjectorCrash
       DEF ProjectorStep
  <1>2. ASSUME NEW w \in Workers,
               \/ WorkerStep(w) \/ HandBack(w) \/ Report(w, "failed")
               \/ UseUpRounds(w) \/ WorkerCrash(w)
        PROVE  LedgerStep /\ IInv'
    BY <1>2, InvAskForWork, InvTake, InvHandOver, InvHandBack, InvReport, InvRecordIntent,
       InvRecordProcessed, InvRecordFailed, InvUseUpRounds, InvWorkerCrash DEF WorkerStep
  <1>3. CASE Next
    BY <1>1, <1>2, <1>3, InvAppendRecord, InvEndPending, InvBind, InvMoveTheWork, InvWorkNotMoved,
       InvCursorLapses, InvLeaseLapses DEF Next
  <1> QED BY <1>3, InvStutters

(* The invariant holds throughout.                                         *)
THEOREM LoopInvariant == Spec => []IInv
  <1>1. Init => IInv
    BY InvInit
  <1>2. IInv /\ [Next]_vars => IInv'
    BY InvNext
  <1> QED BY <1>1, <1>2, PTL DEF Spec

-----------------------------------------------------------------------------
(* The theorems.                                                           *)

(* The invariant has the types.                                            *)
LEMMA LoopTypes == IInv => TypeOK
  <1>1. SUFFICES ASSUME IInv PROVE TypeOK
    OBVIOUS
  <1>2. TypeInv /\ BindingsOK /\ BindersOK /\ RoundsOK /\ WorkersOK
    BY <1>1 DEF IInv
  <1>3. DOMAIN bindings = 1..Len(bindings) /\ Len(bindings) \in Nat /\ Len(bindings) <= MaxFence
    BY <1>2, LoopAssumption DEF TypeInv
  <1>4. \A i \in DOMAIN bindings :
          bindings[i] \in [id : BindingIds, incarnation : Incarnations,
                           fence : 1 .. MaxFence, live : BOOLEAN]
    <2>1. SUFFICES ASSUME NEW i \in DOMAIN bindings
                   PROVE  bindings[i] \in [id : BindingIds, incarnation : Incarnations,
                                           fence : 1 .. MaxFence, live : BOOLEAN]
      OBVIOUS
    <2>2. bindings[i] \in Bindings /\ bindings[i].fence \in 1..i
      BY <1>2 DEF TypeInv, BindingsOK
    <2>3. bindings[i].fence \in 1..MaxFence
      BY <1>3, <2>2, LoopAssumption
    <2> QED BY <2>2, <2>3 DEF Bindings
  <1>5. Cardinality({i \in DOMAIN bindings : bindings[i].live}) <= 1
    <2>1. PICK S : S = {i \in DOMAIN bindings : bindings[i].live}
      OBVIOUS
    <2>2. S = {} \/ \E j : S = {j}
      BY <1>2, <2>1 DEF BindingsOK, LiveSeats
    <2>3. Cardinality(S) <= 1
      <3>1. CASE S = {}
        <4>1. Cardinality(S) = 0
          BY <3>1, FS_EmptySet
        <4> QED BY <4>1
      <3>2. CASE \E j : S = {j}
        <4>1. Cardinality(S) = 1
          BY <3>2, FS_Singleton
        <4> QED BY <4>1
      <3> QED BY <2>2, <3>1, <3>2
    <2> QED BY <2>1, <2>3
  <1>6. ASSUME NEW p \in Projectors
        PROVE  /\ round[p].phase \in {"idle", "walk", "offer", "shed", "news", "wake_overflow", "wake",
                                     "done", "failing", "set_aside"}
               /\ round[p].phase \in {"idle", "walk"} <=> round[p].item = NoItem
               /\ round[p].held \subseteq [item : Items, lease : Leases \cup {0}]
    <2>1. round[p] \in Rounds /\ RoundOK(round[p])
      BY <1>2 DEF TypeInv, RoundsOK
    <2>2. round[p].phase \in Active => round[p].item # NoItem
      BY <2>1, NothingAssumption DEF RoundOK, Items, News
    <2> QED BY <2>1, <2>2 DEF Rounds, Active, RoundOK, HeldItems
  <1>7. ASSUME NEW w \in Workers
        PROVE  /\ worker[w].call \in {"none", "take", "intent", "processed", "failed"}
               /\ worker[w].stage \in {"free", "held", "acked"}
               /\ worker[w].stage = "free" <=> worker[w].slot = NoItem
    <2>1. worker[w] \in WorkerStates /\ WorkerOK(worker[w], IncarnationOf[w])
      BY <1>2 DEF TypeInv, WorkersOK
    <2> QED BY <2>1, NothingAssumption DEF WorkerStates, WorkerOK
  <1>8. ASSUME NEW n \in Incarnations
        PROVE  binder[n].phase \in {"away", "moving", "bound"} /\ binder[n].seat \in 0 .. Len(bindings)
    BY <1>2, <1>3 DEF TypeInv, BindersOK, BinderOK, Standings
  <1> QED BY <1>2, <1>4, <1>5, <1>6, <1>7, <1>8 DEF TypeOK, TypeInv, Cursors, Misses

(* The loop's variables keep their types; in particular the scope never    *)
(* has two bindings in force, and no fence is above the bindings made.     *)
THEOREM LoopTypeCorrect == Spec => []TypeOK
  BY LoopInvariant, LoopTypes, PTL

(* An item is handed out exclusively: no two workers hold the intent to    *)
(* act on one delivery, unless a wake was recorded after it was taken.     *)
THEOREM LoopOneActor == Spec => []OneActor
  <1>1. IInv => OneActor
    BY DEF IInv
  <1> QED BY <1>1, LoopInvariant, PTL

(* The cursor of the binding in force leaves a record behind only if it    *)
(* was offered, if its own offers failed as often as it takes to set it    *)
(* aside, or if it may wait and the loop's rounds are used up; and what    *)
(* may not be dropped is not dropped for want of room.                     *)
THEOREM LoopNothingSkipped == Spec => []NothingSkipped
  <1>1. ASSUME IInv PROVE NothingSkipped
    <2>1. TypeInv /\ CursorOK /\ LedgerOK
      BY <1>1 DEF IInv
    <2>2. ASSUME NEW i \in LiveSeats, NEW position \in 1..cursor[bindings[i].id].position,
                 NEW id, id = bindings[i].id, NEW slot, slot = <<News(position), id>>
          PROVE  /\ \/ Held(slot)
                    \/ position \in cursor[id].setAside /\ missed[id][position] = MaxOffers
                    \/ position \notin Blocking /\ id \in spent
                 /\ Held(slot) /\ position \in Blocking => ledger[slot].cause # "overflow"
      <3>1. id \in BindingIds
        <4>1. bindings[i] \in Bindings
          BY <2>1 DEF TypeInv, LiveSeats
        <4> QED BY <2>2, <4>1 DEF Bindings
      <3>2. position \in 1..MaxNews
        BY <2>1, <2>2, <3>1, LoopAssumption DEF TypeInv, Cursors
      <3>3. slot \in Slots
        BY <2>2, <3>1, <3>2 DEF Slots, Items, News
      <3>4. Passed(id, position)
        BY <2>1, <2>2, <3>1 DEF CursorOK
      <3>5. position \in Blocking => IsBlocking(slot[1])
        BY <2>2 DEF IsBlocking, News
      <3>6. Held(slot) /\ position \in Blocking => ledger[slot].cause # "overflow"
        BY <2>1, <3>3, <3>5 DEF LedgerOK, DeliveryOK
      <3> QED BY <2>2, <3>4, <3>6 DEF Passed
    <2> QED BY <2>2 DEF NothingSkipped
  <1> QED BY <1>1, LoopInvariant, PTL

(* A delivery that ended stays as it ended, and one is closed only for the *)
(* binding in force or for one whose work a replacement has yet to move.   *)
THEOREM LoopClosedOnce == Spec => ClosedOnce
  <1>1. ASSUME IInv, [Next]_vars
        PROVE  \A s \in Slots : Held(s) /\ IsTerminal(ledger[s]) => ledger'[s] = ledger[s]
    BY <1>1, InvNext, LedgerKept DEF IInv
  <1>2. ASSUME IInv, [Next]_vars
        PROVE  \A s \in Slots :
                 Held(s) /\ ledger[s].state # "processed" /\ ledger'[s].state = "processed"
                   => \/ LiveSeats # {} /\ Current.id = s[2]
                      \/ \E n \in Incarnations : binder[n].from = s[2]
    <2>1. SUFFICES ASSUME NEW s \in Slots, Held(s), ledger[s].state # "processed",
                          ledger'[s].state = "processed"
                   PROVE  \/ LiveSeats # {} /\ Current.id = s[2]
                          \/ \E n \in Incarnations : binder[n].from = s[2]
      OBVIOUS
    <2>2. SlotStep(s)
      BY <1>2, InvNext DEF LedgerStep
    <2>3. MayClose(s[2])
      BY <2>1, <2>2 DEF SlotStep
    <2>4. ASSUME NEW i \in LiveSeats, bindings[i].id = s[2] PROVE Current.id = s[2]
      <3>1. PICK j \in LiveSeats : Current = bindings[j]
        BY <2>4, Zenon DEF Current
      <3> QED BY <1>2, <2>4, <3>1 DEF IInv, BindingsOK
    <2> QED BY <2>3, <2>4 DEF MayClose
  <1> QED BY <1>1, <1>2, LoopInvariant, PTL DEF Spec, ClosedOnce, EndingsStand, MovedWorkIsOver

=============================================================================
