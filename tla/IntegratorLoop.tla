---------------------------- MODULE IntegratorLoop ----------------------------
(***************************************************************************)
(* The loop that keeps a bound host fed: news appended to the global feed, *)
(* the projector that offers it to the binding in force through a durable  *)
(* cursor, the host's workers that take an offer, say what they mean to do *)
(* and close it, and the rebinding that puts another host in charge.       *)
(*                                                                         *)
(* One scope, one ceremony.  Every use case is cut at its store calls: a   *)
(* check made in one step may be stale in the next.  An offer may fail at  *)
(* any of them: the position is read again, and set aside in the end.      *)
(***************************************************************************)
EXTENDS HostDelivery, Sequences, FiniteSets, FiniteSetsExt

CONSTANTS Workers,     \* concurrent callers, each of one host incarnation
          IncarnationOf,
          Projectors,  \* processes that walk the feed
          Blocking,    \* the news a full queue may never drop
          MaxNews,     \* bound: records appended
          QueueLimit,  \* AttentionPolicy.max_queued
          MaxOffers,   \* MAX_ATTEMPTS: failed offers before a position is set aside
          LimitsRounds, \* whether the policy limits the rounds of a loop
          ReusesIds,   \* whether a host may bind under an identity used before
          MaxBindings, \* bound: bindings ever made
          MaxMishaps   \* bound: crashes, lapses under a live holder, hand-backs

ASSUME LoopAssumption ==
    /\ IncarnationOf \in [Workers -> Incarnations]
    /\ QueueLimit \in Nat \ {0} /\ MaxOffers \in Nat \ {0} /\ MaxNews \in Nat /\ MaxMishaps \in Nat
    /\ MaxBindings \in Nat \ {0} /\ MaxFence = MaxBindings

CONSTANTS NoDelivery, NoItem, NobodyWalks

VARIABLES feed,      \* how many records of the ceremony were appended
          toEnd,     \* the sweep the ending record still owes the ledger
          bindings,  \* every binding of the scope, oldest first
          ledger,    \* item and binding identity -> delivery
          cursor,    \* binding identity -> position, failed attempts at the next,
                     \* who leases it, and the positions set aside
          spent,     \* the binding identities whose rounds are used up
          round,     \* each projector's round
          worker,    \* each worker's call and the delivery it works on
          binder,    \* each incarnation's standing and the bind it is in
          lapsed,    \* the leases whose time has run out
          lateWakes, \* offers whose wake was recorded after a host took them
          missed,    \* binding identity -> position -> how often its offer failed
          mishaps

vars == <<feed, toEnd, bindings, ledger, cursor, spent, round, worker, binder, lapsed, lateWakes,
          missed, mishaps>>

-------------------------------------------------------------------------------
(* Items: what a record says, and the notice that offers were shed for it. *)

Items == (1 .. MaxNews) \X {"news", "overflow"}
Slots == Items \X BindingIds
News(position) == <<position, "news">>
Overflow(position) == <<position, "overflow">>
IsEnding(position) == position = MaxNews
IsBlocking(item) == item[2] = "overflow" \/ item[1] \in Blocking

\* What stands for nothing is nothing else.
ASSUME NothingAssumption ==
    /\ NoDelivery \notin Deliveries /\ NoItem \notin Items \cup Slots
    /\ NoBinding \notin BindingIds /\ NobodyWalks \notin Projectors

Held(slot) == ledger[slot] # NoDelivery

IdleRound ==
    [phase |-> "idle", id |-> NoBinding, held |-> {}, item |-> NoItem, withholding |-> FALSE]
FreshCursor == [position |-> 0, holder |-> NobodyWalks, attempt |-> 0, setAside |-> {}]
FreeWorker == [call |-> "none", stage |-> "free", slot |-> NoItem, lease |-> 0]
NoStanding == [phase |-> "away", seat |-> 0, from |-> NoBinding, follow |-> FALSE]

TypeOK ==
    /\ feed \in 0 .. MaxNews /\ toEnd \in BOOLEAN /\ mishaps \in 0 .. MaxMishaps
    /\ lapsed \subseteq Leases /\ lateWakes \subseteq Slots
    /\ \A i \in DOMAIN bindings :
          bindings[i] \in [id : BindingIds, incarnation : Incarnations,
                           fence : 1 .. MaxFence, live : BOOLEAN]
    /\ Cardinality({i \in DOMAIN bindings : bindings[i].live}) <= 1
    /\ ledger \in [Slots -> Deliveries \cup {NoDelivery}]
    /\ cursor \in [BindingIds -> [position : 0 .. MaxNews, holder : Projectors \cup {NobodyWalks},
                                  attempt : 0 .. MaxOffers, setAside : SUBSET (1 .. MaxNews)]]
    /\ spent \subseteq BindingIds
    /\ missed \in [BindingIds -> [1 .. MaxNews -> 0 .. MaxOffers]]
    /\ \A p \in Projectors :
          /\ round[p].phase \in {"idle", "walk", "offer", "shed", "news", "wake_overflow", "wake",
                              "done", "failing", "set_aside"}
          /\ round[p].phase \in {"idle", "walk"} <=> round[p].item = NoItem
          /\ round[p].held \subseteq [item : Items, lease : Leases \cup {0}]
    /\ \A w \in Workers :
          /\ worker[w].call \in {"none", "take", "intent", "processed", "failed"}
          /\ worker[w].stage \in {"free", "held", "acked"}
          /\ worker[w].stage = "free" <=> worker[w].slot = NoItem
    /\ \A n \in Incarnations :
          /\ binder[n].phase \in {"away", "moving", "bound"}
          /\ binder[n].seat \in 0 .. Len(bindings)

Init ==
    /\ feed = 0 /\ toEnd = FALSE /\ mishaps = 0 /\ lapsed = {} /\ lateWakes = {}
    /\ bindings = <<>>
    /\ ledger = [s \in Slots |-> NoDelivery]
    /\ cursor = [b \in BindingIds |-> FreshCursor]
    /\ spent = {} /\ missed = [b \in BindingIds |-> [k \in 1 .. MaxNews |-> 0]]
    /\ round = [p \in Projectors |-> IdleRound]
    /\ worker = [w \in Workers |-> FreeWorker]
    /\ binder = [n \in Incarnations |-> NoStanding]

-------------------------------------------------------------------------------
(* The bindings of the scope. *)

LiveSeats == {i \in DOMAIN bindings : bindings[i].live}
Current == bindings[CHOOSE i \in LiveSeats : TRUE]

\* The seat an incarnation believes it has: binding identity and fence.
Seat(n) == bindings[binder[n].seat]

Admits(b, n) == b.live /\ b.incarnation = n /\ b.fence = Seat(n).fence

\* AwaitIntegratorAttentionUseCase.admitted: asked of the scope.
AdmittedByScope(n) ==
    /\ LiveSeats # {}
    /\ Current.id = Seat(n).id /\ Admits(Current, n)

\* AcknowledgeIntegratorAttentionUseCase.still_this_host: the first binding,
\* live or not, that carries the identity.
StillThisHost(n) ==
    LET named == {i \in DOMAIN bindings : bindings[i].id = Seat(n).id}
    IN Admits(bindings[Min(named)], n)

Mishap == mishaps < MaxMishaps /\ mishaps' = mishaps + 1

(* BindCeremonyIntegratorUseCase.execute up to the store's answer. *)
Bind(n, id, follow) ==
    /\ binder[n].phase = "away" /\ Len(bindings) < MaxBindings
    /\ ReusesIds \/ \A i \in DOMAIN bindings : bindings[i].id # id
    /\ LET offered == [id |-> id, incarnation |-> n, fence |-> 1, live |-> TRUE]
       IN IF LiveSeats = {}
          THEN /\ bindings' = Append(bindings, offered)
               /\ binder' = [binder EXCEPT ![n] = [@ EXCEPT !.phase = "bound", !.seat = Len(bindings) + 1]]
          ELSE /\ bindings' = Append([i \in DOMAIN bindings |-> [bindings[i] EXCEPT !.live = FALSE]],
                                     [offered EXCEPT !.fence = Current.fence + 1])
               /\ binder' = [binder EXCEPT ![n] =
                     [phase |-> "moving", seat |-> Len(bindings) + 1, from |-> Current.id, follow |-> follow]]
    /\ UNCHANGED <<feed, toEnd, ledger, cursor, round, worker, lapsed, lateWakes, mishaps, spent, missed>>

\* The slots a replaced binding leaves open, and what supersede makes of the
\* ledger: a successor is opened unless its identity is already there.
LeftOpen(id) == {s \in Slots : s[2] = id /\ Held(s) /\ ~IsTerminal(ledger[s])}

Supersession(from, to, follow) ==
    LET open == LeftOpen(from)
        opened == [s \in Slots |->
            IF follow /\ s[2] = to /\ ~Held(s) /\ <<s[1], from>> \in open THEN Queued ELSE ledger[s]]
    IN [s \in Slots |->
            IF s \in open THEN Superseded(ledger[s], IF follow THEN to ELSE NoBinding) ELSE opened[s]]

(* BindCeremonyIntegratorUseCase.move_the_work. *)
MoveTheWork(n) ==
    /\ binder[n].phase = "moving"
    /\ ledger' = Supersession(binder[n].from, Seat(n).id, binder[n].follow)
    /\ binder' = [binder EXCEPT ![n] = [@ EXCEPT !.phase = "bound", !.from = NoBinding]]
    /\ UNCHANGED <<feed, toEnd, bindings, cursor, round, worker, lapsed, lateWakes, mishaps, spent, missed>>

\* The ledger failed, or the process did: the binding stands, and `from` says
\* whose work stayed where it was.
WorkNotMoved(n) ==
    /\ binder[n].phase = "moving" /\ Mishap
    /\ binder' = [binder EXCEPT ![n].phase = "bound"]
    /\ UNCHANGED <<feed, toEnd, bindings, ledger, cursor, round, worker, lapsed, lateWakes, spent, missed>>

-------------------------------------------------------------------------------
(* The feed, and what the ending record makes of the ledger. *)

AppendRecord ==
    /\ feed < MaxNews
    /\ feed' = feed + 1
    /\ toEnd' = IsEnding(feed + 1)
    /\ UNCHANGED <<bindings, ledger, cursor, round, worker, binder, lapsed, lateWakes, mishaps,
                   spent, missed>>

\* InterventionDeliverySubscriber.end_pending: every open offer of the ceremony.
EndPending ==
    /\ toEnd
    /\ ledger' = [s \in Slots |-> IF Held(s) THEN Abandoned(ledger[s], "ended") ELSE NoDelivery]
    /\ toEnd' = FALSE
    /\ UNCHANGED <<feed, bindings, cursor, round, worker, binder, lapsed, lateWakes, mishaps, spent, missed>>

-------------------------------------------------------------------------------
(* AttentionProjector.project. *)

\* BindingDeliveries.all: one walk for the whole round.  Only what may still
\* be outstanding later in the round is kept.
Snapshot(id) ==
    {[item |-> s[1], lease |-> ledger[s].lease] :
        s \in {t \in Slots : t[2] = id /\ Held(t) /\ ledger[t].state \in Waiting}}

\* The binding the round was asked to walk for may have been read earlier: a
\* loop that used up its rounds meanwhile is not held back yet.
StartRound(p, withholding) ==
    /\ round[p].phase = "idle" /\ LiveSeats # {}
    /\ withholding => Current.id \in spent
    /\ cursor[Current.id].position < feed
    /\ round' = [round EXCEPT ![p] =
                    [IdleRound EXCEPT !.phase = "walk", !.id = Current.id,
                                      !.held = Snapshot(Current.id), !.withholding = withholding]]
    /\ UNCHANGED <<feed, toEnd, bindings, ledger, cursor, worker, binder, lapsed, lateWakes,
                   mishaps, spent, missed>>

\* Mutated form: The position is acknowledged as soon as it is read.
WalkOnAcknowledging(p) ==
    /\ round[p].phase = "walk"
    /\ LET c == cursor[round[p].id]
       IN IF c.holder = NobodyWalks /\ c.position < feed
          THEN /\ cursor' = [cursor EXCEPT ![round[p].id] =
                                [c EXCEPT !.position = @ + 1, !.holder = p]]
               /\ round' = [round EXCEPT ![p].phase = "offer", ![p].item = News(c.position + 1)]
          ELSE /\ round' = [round EXCEPT ![p] = IdleRound]
               /\ UNCHANGED cursor
    /\ UNCHANGED <<feed, toEnd, bindings, ledger, worker, binder, lapsed, lateWakes, mishaps, spent, missed>>

\* The cursor is leased and one record read, to be offered, or set aside if its
\* offers failed too often; a busy cursor or the end of the feed ends the round.
WalkOn(p) ==
    /\ round[p].phase = "walk"
    /\ LET c == cursor[round[p].id]
       IN IF c.holder = NobodyWalks /\ c.position < feed
          THEN /\ cursor' = [cursor EXCEPT ![round[p].id].holder = p]
               /\ round' = [round EXCEPT
                     ![p].phase = IF c.attempt >= MaxOffers THEN "set_aside" ELSE "offer",
                     ![p].item = News(c.position + 1)]
          ELSE /\ round' = [round EXCEPT ![p] = IdleRound]
               /\ UNCHANGED cursor
    /\ UNCHANGED <<feed, toEnd, bindings, ledger, worker, binder, lapsed, lateWakes, mishaps, spent, missed>>

\* AttentionBackpressure.make_room, over the round's own view of the queue.
Outstanding(held) == {h \in held : h.lease = 0 \/ h.lease \in lapsed}
Droppable(held) == {h \in Outstanding(held) : ~IsBlocking(h.item)}

\* The oldest first: offers are made in feed order.
Victims(held) ==
    LET mustGo == Cardinality(Outstanding(held)) + 1 - QueueLimit
    IN {h \in Droppable(held) :
          Cardinality({g \in Droppable(held) : g.item[1] < h.item[1]}) < mustGo}

\* A loop that used up its rounds is offered only what may never be dropped.
IsWithheld(p) == round[p].withholding /\ ~IsBlocking(round[p].item)

Withhold(p) ==
    /\ round[p].phase = "offer" /\ IsWithheld(p)
    /\ round' = [round EXCEPT ![p].phase = "done"]
    /\ UNCHANGED <<feed, toEnd, bindings, ledger, cursor, worker, binder, lapsed, lateWakes,
                   mishaps, spent, missed>>

MakeRoom(p) ==
    /\ round[p].phase = "offer" /\ ~IsWithheld(p)
    /\ LET full == Cardinality(Outstanding(round[p].held)) >= QueueLimit
           victims == IF full THEN Victims(round[p].held) ELSE {}
           shed == {h \in victims : ~IsTerminal(ledger[<<h.item, round[p].id>>])}
       IN /\ ledger' = [s \in Slots |->
                IF \E h \in victims : s = <<h.item, round[p].id>>
                THEN Abandoned(ledger[s], "overflow") ELSE ledger[s]]
          /\ round' = [round EXCEPT ![p].phase = IF shed = {} THEN "news" ELSE "shed",
                                    ![p].held = @ \ shed]
    /\ UNCHANGED <<feed, toEnd, bindings, cursor, worker, binder, lapsed, lateWakes, mishaps, spent, missed>>

\* AttentionProjector.enqueue: an offer already held is not made, nor woken
\* for, again.  The overflow notice goes before the news that caused it.
Enqueue(p) ==
    /\ round[p].phase \in {"shed", "news"}
    /\ LET item == IF round[p].phase = "shed" THEN Overflow(round[p].item[1]) ELSE round[p].item
           slot == <<item, round[p].id>>
           onward == IF round[p].phase = "shed" THEN "news" ELSE "done"
           waking == IF round[p].phase = "shed" THEN "wake_overflow" ELSE "wake"
       IN IF Held(slot)
          THEN round' = [round EXCEPT ![p].phase = onward] /\ UNCHANGED ledger
          ELSE /\ ledger' = [ledger EXCEPT ![slot] = Queued]
               /\ round' = [round EXCEPT ![p].phase = waking,
                                         ![p].held = @ \cup {[item |-> item, lease |-> 0]}]
    /\ UNCHANGED <<feed, toEnd, bindings, cursor, worker, binder, lapsed, lateWakes, mishaps, spent, missed>>

\* AttentionProjector.wake: the command has run, and what it did is recorded.
Wake(p, outcome) ==
    /\ round[p].phase \in {"wake_overflow", "wake"}
    /\ LET waking == round[p].phase = "wake"
           slot == <<IF waking THEN round[p].item ELSE Overflow(round[p].item[1]), round[p].id>>
       IN /\ ledger' = [ledger EXCEPT ![slot] = Activated(@, outcome)]
          /\ lateWakes' = IF ledger[slot].state \in {"leased", "acknowledged"} /\ outcome # "unsupported"
                          THEN lateWakes \cup {slot} ELSE lateWakes
          /\ round' = [round EXCEPT ![p].phase = IF waking THEN "done" ELSE "news"]
    /\ UNCHANGED <<feed, toEnd, bindings, cursor, worker, binder, lapsed, mishaps, spent, missed>>

\* A store, a definition or the wake failed while the record was offered, or
\* its answer was lost; what was written before stays.
Offering == {"offer", "shed", "news", "wake_overflow", "wake", "done"}

OfferFails(p) ==
    /\ round[p].phase \in Offering
    /\ round' = [round EXCEPT ![p].phase = "failing"]
    /\ LET n == missed[round[p].id][round[p].item[1]]
       IN missed' = [missed EXCEPT ![round[p].id][round[p].item[1]] = IF n < MaxOffers THEN n + 1 ELSE n]
    /\ UNCHANGED <<feed, toEnd, bindings, ledger, cursor, worker, binder, lapsed, lateWakes, mishaps, spent>>

\* acknowledge_lease, mark_failed and quarantine: refused, and the round over,
\* if the lease was lost.
HoldsCursor(p) == cursor[round[p].id].holder = p

AcknowledgePosition(p) ==
    /\ round[p].phase = "done"
    /\ IF HoldsCursor(p)
       THEN /\ cursor' = [cursor EXCEPT ![round[p].id] =
                   [@ EXCEPT !.position = round[p].item[1], !.holder = NobodyWalks, !.attempt = 0]]
            /\ round' = [round EXCEPT ![p].phase = "walk", ![p].item = NoItem]
       ELSE round' = [round EXCEPT ![p] = IdleRound] /\ UNCHANGED cursor
    /\ UNCHANGED <<feed, toEnd, bindings, ledger, worker, binder, lapsed, lateWakes, mishaps, spent, missed>>

\* Mutated form: The failed attempt is not counted.
MarkFailedUncounted(p) ==
    /\ round[p].phase = "failing"
    /\ round' = [round EXCEPT ![p] = IdleRound]
    /\ IF HoldsCursor(p)
       THEN cursor' = [cursor EXCEPT ![round[p].id].holder = NobodyWalks]
       ELSE UNCHANGED cursor
    /\ UNCHANGED <<feed, toEnd, bindings, ledger, worker, binder, lapsed, lateWakes, mishaps, spent, missed>>

MarkFailed(p) ==
    /\ round[p].phase = "failing"
    /\ round' = [round EXCEPT ![p] = IdleRound]
    /\ IF HoldsCursor(p)
       THEN cursor' = [cursor EXCEPT ![round[p].id].holder = NobodyWalks,
                                     ![round[p].id].attempt = @ + 1]
       ELSE UNCHANGED cursor
    /\ UNCHANGED <<feed, toEnd, bindings, ledger, worker, binder, lapsed, lateWakes, mishaps, spent, missed>>

SetAside(p) ==
    /\ round[p].phase = "set_aside"
    /\ IF HoldsCursor(p)
       THEN /\ cursor' = [cursor EXCEPT ![round[p].id] =
                   [position |-> round[p].item[1], holder |-> NobodyWalks, attempt |-> 0,
                    setAside |-> @.setAside \cup {round[p].item[1]}]]
            /\ round' = [round EXCEPT ![p].phase = "walk", ![p].item = NoItem]
       ELSE round' = [round EXCEPT ![p] = IdleRound] /\ UNCHANGED cursor
    /\ UNCHANGED <<feed, toEnd, bindings, ledger, worker, binder, lapsed, lateWakes, mishaps, spent, missed>>

ProjectorCrash(p) ==
    /\ round[p].phase # "idle" /\ Mishap
    /\ round' = [round EXCEPT ![p] = IdleRound]
    /\ UNCHANGED <<feed, toEnd, bindings, ledger, cursor, worker, binder, lapsed, lateWakes, spent, missed>>

\* A cursor lease runs out: under a live walker that is a mishap.
CursorLapses(id) ==
    /\ cursor[id].holder # NobodyWalks
    /\ LET p == cursor[id].holder
       IN IF round[p].phase \notin {"idle", "walk"} /\ round[p].id = id THEN Mishap ELSE UNCHANGED mishaps
    /\ cursor' = [cursor EXCEPT ![id].holder = NobodyWalks]
    /\ UNCHANGED <<feed, toEnd, bindings, ledger, round, worker, binder, lapsed, lateWakes, spent, missed>>

-------------------------------------------------------------------------------
(* AwaitIntegratorAttentionUseCase and AcknowledgeIntegratorAttentionUseCase: *)
(* the standing is checked in one step and the ledger written in the next.    *)

Bound(w) == binder[IncarnationOf[w]].phase = "bound"

AskForWork(w) ==
    /\ Bound(w) /\ worker[w].call = "none" /\ worker[w].stage = "free"
    /\ AdmittedByScope(IncarnationOf[w])
    /\ worker' = [worker EXCEPT ![w].call = "take"]
    /\ UNCHANGED <<feed, toEnd, bindings, ledger, cursor, round, binder, lapsed, lateWakes, mishaps,
                   spent, missed>>

\* AwaitIntegratorAttentionUseCase.observe: the round was the last the policy
\* allows.  What is recorded is recorded by identity, displaced or not.
UseUpRounds(w) ==
    /\ LimitsRounds /\ Bound(w) /\ Seat(IncarnationOf[w]).id \notin spent
    /\ spent' = spent \cup {Seat(IncarnationOf[w]).id}
    /\ UNCHANGED <<feed, toEnd, bindings, ledger, cursor, round, worker, binder, lapsed, lateWakes,
                   mishaps, missed>>

\* A lease identity nobody refers to any more is as good as a new one.
LeasesInUse ==
    {ledger[s].lease : s \in {t \in Slots : Held(t)}}
        \cup {worker[w].lease : w \in Workers}
        \cup UNION {{h.lease : h \in round[p].held} : p \in Projectors}
FreshLeases == Leases \ LeasesInUse

Swept == [s \in Slots |-> IF Held(s) THEN Expired(ledger[s], lapsed) ELSE NoDelivery]

Take(w) ==
    /\ worker[w].call = "take" /\ worker[w].stage = "free"
    /\ LET id == Seat(IncarnationOf[w]).id
           offerable == {s \in Slots : s[2] = id /\ Held(s) /\ IsOfferable(ledger[s], lapsed)}
       IN \/ /\ offerable = {}
             /\ ledger' = Swept
             /\ worker' = [worker EXCEPT ![w] = FreeWorker]
             /\ UNCHANGED lapsed
          \/ \E s \in offerable : LET lease == Min(FreshLeases) IN
                /\ FreshLeases # {}
                /\ ledger' = [Swept EXCEPT ![s] = Leased(@, lease, IncarnationOf[w])]
                /\ worker' = [worker EXCEPT ![w] =
                                [call |-> "take", stage |-> "held", slot |-> s, lease |-> lease]]
                /\ lapsed' = lapsed \cap LeasesInUse
    /\ UNCHANGED <<feed, toEnd, bindings, cursor, round, binder, mishaps, lateWakes, spent, missed>>

\* The item is handed to the host ...
HandOver(w) ==
    /\ worker[w].call = "take" /\ worker[w].stage = "held"
    /\ worker' = [worker EXCEPT ![w].call = "none"]
    /\ UNCHANGED <<feed, toEnd, bindings, ledger, cursor, round, binder, lapsed, lateWakes, mishaps,
                   spent, missed>>

\* ... or given back, when this build cannot read the session behind it.
HandBack(w) ==
    /\ worker[w].call = "take" /\ worker[w].stage = "held" /\ Mishap
    /\ ledger' = [ledger EXCEPT ![worker[w].slot] = Released(@, worker[w].lease, lapsed)]
    /\ worker' = [worker EXCEPT ![w] = FreeWorker]
    /\ UNCHANGED <<feed, toEnd, bindings, cursor, round, binder, lapsed, lateWakes, spent, missed>>

CallsOf(stage) ==
    CASE stage = "free" -> {} [] stage = "held" -> {"intent", "failed"} [] stage = "acked" -> {"processed"}

Report(w, call) ==
    /\ worker[w].call = "none" /\ call \in CallsOf(worker[w].stage)
    /\ IF StillThisHost(IncarnationOf[w])
       THEN worker' = [worker EXCEPT ![w].call = call]
       ELSE worker' = [worker EXCEPT ![w] = FreeWorker]
    /\ UNCHANGED <<feed, toEnd, bindings, ledger, cursor, round, binder, lapsed, lateWakes, mishaps,
                   spent, missed>>

RecordIntent(w) ==
    /\ worker[w].call = "intent"
    /\ LET s == worker[w].slot
           taken == TakesIntent(ledger[s], worker[w].lease, lapsed)
       IN /\ ledger' = [ledger EXCEPT ![s] = Acknowledged(@, worker[w].lease, lapsed)]
          /\ worker' = [worker EXCEPT ![w] =
                IF taken THEN [@ EXCEPT !.call = "none", !.stage = "acked", !.lease = 0] ELSE FreeWorker]
    /\ UNCHANGED <<feed, toEnd, bindings, cursor, round, binder, lapsed, lateWakes, mishaps, spent, missed>>

RecordProcessed(w) ==
    /\ worker[w].call = "processed"
    /\ ledger' = [ledger EXCEPT ![worker[w].slot] =
                    Processed(@, IncarnationOf[w], Seat(IncarnationOf[w]).fence)]
    /\ worker' = [worker EXCEPT ![w] = FreeWorker]
    /\ UNCHANGED <<feed, toEnd, bindings, cursor, round, binder, lapsed, lateWakes, mishaps, spent, missed>>

RecordFailed(w) ==
    /\ worker[w].call = "failed"
    /\ ledger' = [ledger EXCEPT ![worker[w].slot] = Failed(@, worker[w].lease, lapsed)]
    /\ worker' = [worker EXCEPT ![w] = FreeWorker]
    /\ UNCHANGED <<feed, toEnd, bindings, cursor, round, binder, lapsed, lateWakes, mishaps, spent, missed>>

\* A worker forgets what it was doing; its host still has its standing.
WorkerCrash(w) ==
    /\ worker[w] # FreeWorker /\ Mishap
    /\ worker' = [worker EXCEPT ![w] = FreeWorker]
    /\ UNCHANGED <<feed, toEnd, bindings, ledger, cursor, round, binder, lapsed, lateWakes, spent, missed>>

LeaseLapses(lease) ==
    /\ lease \notin lapsed
    /\ \E s \in Slots : Held(s) /\ ledger[s].state = "leased" /\ ledger[s].lease = lease
    /\ IF \E w \in Workers : worker[w].lease = lease THEN Mishap ELSE UNCHANGED mishaps
    /\ lapsed' = lapsed \cup {lease}
    /\ UNCHANGED <<feed, toEnd, bindings, ledger, cursor, round, worker, binder, lateWakes, spent, missed>>

-------------------------------------------------------------------------------

WorkerStep(w) ==
    \/ AskForWork(w) \/ Take(w) \/ HandOver(w)
    \/ \E call \in {"intent", "processed"} : Report(w, call)
    \/ RecordIntent(w) \/ RecordProcessed(w) \/ RecordFailed(w)

ProjectorStep(p) ==
    \/ \E withholding \in BOOLEAN : StartRound(p, withholding)
    \/ WalkOn(p) \/ Withhold(p) \/ MakeRoom(p) \/ Enqueue(p)
    \/ \E outcome \in {"unsupported", "accepted", "failed"} : Wake(p, outcome)
    \/ AcknowledgePosition(p) \/ MarkFailed(p) \/ SetAside(p)

Next ==
    \/ AppendRecord \/ EndPending
    \/ \E n \in Incarnations, id \in BindingIds, follow \in BOOLEAN : Bind(n, id, follow)
    \/ \E n \in Incarnations : MoveTheWork(n) \/ WorkNotMoved(n)
    \/ \E p \in Projectors : ProjectorStep(p) \/ OfferFails(p) \/ ProjectorCrash(p)
    \/ \E id \in BindingIds : CursorLapses(id)
    \/ \E w \in Workers : WorkerStep(w) \/ HandBack(w) \/ Report(w, "failed") \/ UseUpRounds(w) \/ WorkerCrash(w)
    \/ \E lease \in Leases : LeaseLapses(lease)

Spec == Init /\ [][Next]_vars

\* A lease nobody works under any more does run out.
DeadLeaseLapses(lease) == LeaseLapses(lease) /\ UNCHANGED mishaps
DeadCursorLapses(id) == CursorLapses(id) /\ UNCHANGED mishaps

\* Hosts poll and every poll projects; a bind goes on; time passes.
Fairness ==
    /\ \A n \in Incarnations : WF_vars(MoveTheWork(n))
    /\ \A w \in Workers : WF_vars(WorkerStep(w))
    /\ \A p \in Projectors : WF_vars(ProjectorStep(p))
    /\ \A lease \in Leases : WF_vars(DeadLeaseLapses(lease))
    /\ \A id \in BindingIds : WF_vars(DeadCursorLapses(id))

FairSpec == Spec /\ Fairness

-------------------------------------------------------------------------------

\* An item is handed out exclusively: two workers never both hold the intent
\* to act on one delivery, whatever lapses, crashes and is offered again.  The
\* exception is a wake recorded late: activated() takes an offer back from
\* whoever holds it.
OneActor ==
    \A w, v \in Workers :
        w # v /\ worker[w].stage = "acked" /\ worker[v].stage = "acked"
            /\ worker[w].slot \notin lateWakes
            => worker[w].slot # worker[v].slot

\* The cursor of the binding in force leaves a record behind only if it was
\* offered, if its own offer failed as often as it takes to set it aside, or if
\* it may wait and the loop's rounds are used up; and an offer that may not be
\* dropped never is for want of room.  Neither a crash between the offer and the
\* acknowledged position, nor a lease lost under the walker, nor a failure
\* counted twice, nor a stale view of the queue loses one.
NothingSkipped ==
    \A i \in LiveSeats : \A position \in 1 .. cursor[bindings[i].id].position :
        LET id == bindings[i].id
            slot == <<News(position), id>>
        IN /\ \/ Held(slot)
              \/ position \in cursor[id].setAside /\ missed[id][position] = MaxOffers
              \/ position \notin Blocking /\ id \in spent
           /\ Held(slot) /\ position \in Blocking => ledger[slot].cause # "overflow"

\* An offer's end is its own: what was processed, failed, expired or superseded
\* is never taken, answered, swept or superseded again.
EndingsStand ==
    [][\A s \in Slots : Held(s) /\ IsTerminal(ledger[s]) => ledger'[s] = ledger[s]]_vars

\* A displaced host closes nothing once its work was moved: a delivery is closed
\* for the binding in force, or for one whose work a replacement has yet to move.
MovedWorkIsOver ==
    [][\A s \in Slots :
          Held(s) /\ ledger[s].state # "processed" /\ ledger'[s].state = "processed"
            => \/ LiveSeats # {} /\ Current.id = s[2]
               \/ \E n \in Incarnations : binder[n].from = s[2]]_vars

\* A delivery is closed once, by a host that still had the right to.
ClosedOnce == EndingsStand /\ MovedWorkIsOver

\* Every record is answered, given up on, or at least in the hands of a host
\* that said what it means to do, as long as the host in force has workers
\* that ask; or its offers failed, and it was set aside, or the loop's rounds
\* are used up.
Attended == \E w \in Workers : LiveSeats # {} /\ Current.incarnation = IncarnationOf[w]
NewsIsAnswered ==
    \A position \in 1 .. MaxNews :
        (feed >= position /\ Attended) ~>
            \/ ~Attended
            \/ \E id \in BindingIds :
                  LET slot == <<News(position), id>>
                  IN \/ Held(slot) /\ ledger[slot].state \notin Waiting
                     \/ position \in cursor[id].setAside
                     \/ position \notin Blocking /\ id \in spent

-------------------------------------------------------------------------------
(* What the documents say of the loop and the code does not keep. *)

\* The projector: a durable cursor per binding means the work that was owed is
\* owed again.  No record is left behind without having been offered.
EverythingIsOffered ==
    \A i \in LiveSeats : \A position \in 1 .. cursor[bindings[i].id].position :
        position \in Blocking => Held(<<News(position), bindings[i].id>>)

\* ADR 022: an acknowledgement carrying a stale fence is refused with no effect.
StaleFenceClosesNothing ==
    [][\A s \in Slots :
          Held(s) /\ ledger[s].state # "processed" /\ ledger'[s].state = "processed"
            => Current.id = s[2]]_vars

\* ADR 022: an ending is never dropped.
EndingIsNeverDropped ==
    \A id \in BindingIds : Held(<<News(MaxNews), id>>) => ledger[<<News(MaxNews), id>>].state # "expired"

\* The bind use case: unanswered work is re-addressed to the replacement or left
\* behind with the reason.  Work that followed goes on in another delivery.
FollowedWorkGoesOn ==
    \A s \in Slots :
        Held(s) /\ ledger[s].state = "superseded" /\ ledger[s].by # NoBinding => ledger[s].by # s[2]

\* The acknowledge use case refuses a host that is no longer the one bound, and
\* no other: whoever the scope admits is heard.
BoundHostIsHeard ==
    \A n \in Incarnations : binder[n].phase = "bound" /\ AdmittedByScope(n) => StillThisHost(n)

\* The bind use case: work that could not be moved is recoverable by binding
\* again.  Once a later binding has moved its predecessor's work, none of it
\* is left open.
RebindingRecovers ==
    \A n, m \in Incarnations :
        (/\ binder[n].phase = "bound" /\ binder[n].from # NoBinding
         /\ binder[m].phase = "bound" /\ binder[m].from = NoBinding
         /\ binder[m].seat > binder[n].seat)
            => LeftOpen(binder[n].from) = {}
===============================================================================
