---------------------------- MODULE OrderedFeed ----------------------------
(***************************************************************************)
(* What a named cursor promises its consumer: the events of the global log *)
(* are settled one after the other, none is passed over, and one that was  *)
(* settled as delivered was handed to the consumer at least once, never    *)
(* before the events ahead of it were settled.                             *)
(***************************************************************************)
EXTENDS Naturals, Sequences

VARIABLES
    sealed,     \* the positions of the log are 1..sealed
    settled,    \* how each position was settled, in order
    seen        \* the positions the consumer was handed

feedVars == <<sealed, settled, seen>>

Outcomes == {"delivered", "quarantined", "pulled"}

Init == sealed = 0 /\ settled = <<>> /\ seen = {}

Seal ==
    /\ sealed' = sealed + 1
    /\ UNCHANGED <<settled, seen>>

Deliver(p) ==
    /\ p <= sealed
    /\ p <= Len(settled) + 1
    /\ seen' = seen \cup {p}
    /\ UNCHANGED <<sealed, settled>>

Settle(outcome) ==
    /\ Len(settled) < sealed
    /\ outcome = "delivered" => Len(settled) + 1 \in seen
    /\ settled' = Append(settled, outcome)
    /\ UNCHANGED <<sealed, seen>>

(* A consumer that pulls settles everything up to where it says.          *)
SettleThrough(p) ==
    /\ p \in Len(settled) + 1 .. sealed
    /\ settled' = [k \in 1..p |-> IF k \in DOMAIN settled THEN settled[k] ELSE "pulled"]
    /\ UNCHANGED <<sealed, seen>>

Next ==
    \/ Seal
    \/ \E p \in 1..sealed : Deliver(p) \/ SettleThrough(p)
    \/ \E outcome \in {"delivered", "quarantined"} : Settle(outcome)

Spec == Init /\ [][Next]_feedVars
=============================================================================
