--------------------------- MODULE MCIntegratorLoop ---------------------------
(***************************************************************************)
(* Two workers of one host, another host that may replace it, one or two   *)
(* projectors.  Further news, a second binding, mishaps, failed offers,    *)
(* used-up rounds and walkers that overlap all happen, but not all of them *)
(* in one behaviour: what counts as trouble is bounded by MaxTrouble while *)
(* hosts act, and by MaxWalkTrouble while only the feed is walked.  None   *)
(* of it is under fairness: the liveness run bounds it by FewSetbacks.     *)
(***************************************************************************)
EXTENDS IntegratorLoop, TLC

CONSTANTS w1, w2, i1, i2, b1, b2, MaxTrouble, MaxWalkTrouble

OneHost == w1 :> i1 @@ w2 :> i1

Beyond(n) == IF n > 1 THEN n - 1 ELSE 0
Walking == {p \in Projectors : round[p].phase # "idle"}
Missed == {m \in BindingIds \X (1 .. MaxNews) \X (1 .. MaxOffers) : m[3] <= missed[m[1]][m[2]]}
Setbacks == Cardinality(Missed) + Cardinality(spent)
Overlap == Beyond(Cardinality(Walking))

\* No host has asked for anything yet.
OnlyWalked ==
    /\ Len(bindings) <= 1 /\ \A w \in Workers : worker[w] = FreeWorker
    /\ \A s \in Slots : Held(s) => ledger[s].owner = NoOne

\* Identities of bindings are interchangeable and are used in order.
InOrder == bindings # <<>> => bindings[1].id = b1

Bounded ==
    /\ InOrder
    /\ \/ 2 * (Beyond(feed) + Overlap + Setbacks) + Beyond(Len(bindings)) + mishaps <= MaxTrouble
       \/ OnlyWalked /\ Beyond(feed) + 2 * Overlap + mishaps + Setbacks <= MaxWalkTrouble

\* Only steps outside the fairness condition lead out of this.
FewSetbacks == mishaps + Setbacks <= MaxTrouble

Lease3 == 1 .. 3
Last == {MaxNews}
SameHost == Permutations(Workers) \cup Permutations(Projectors)
===============================================================================
