----------------------------- MODULE HostDelivery -----------------------------
(***************************************************************************)
(* One delivery as the host-delivery ledger stores it (StoredHostDelivery) *)
(* and what each verb of the ledger makes of it.  A verb that refuses      *)
(* leaves the delivery as it was.  A lease identity is a number, 0 for     *)
(* none, and a lease is live until its identity is in the set `lapsed`.    *)
(* A fence is a number from 1, 0 for the fence a record does not carry.    *)
(***************************************************************************)
EXTENDS Naturals

CONSTANTS Incarnations, \* generations of a host process
          BindingIds,   \* identities of integrator bindings
          Leases,       \* identities of leases, positive numbers
          MaxFence,     \* the highest fence a scope reaches
          MaxAttempts   \* DeliveryAttemptLimit of the delivery's policy

ASSUME LeasesArePositive == Leases \subseteq Nat \ {0}
ASSUME AttemptsArePositive == MaxAttempts \in Nat \ {0}

CONSTANTS NoOne,      \* nobody has held the delivery
          NoBinding   \* a superseded delivery nothing replaces

Terminal == {"processed", "failed", "expired", "superseded"}
Waiting == {"queued", "leased", "delivered"}
HostDeliveryStates == Waiting \cup {"acknowledged"} \cup Terminal

Deliveries ==
    [state : HostDeliveryStates, lease : Leases \cup {0}, attempt : 0 .. MaxAttempts,
     owner : Incarnations \cup {NoOne}, fence : 0 .. MaxFence,
     cause : {"none", "overflow", "ended"}, by : BindingIds \cup {NoBinding}]

Queued ==
    [state |-> "queued", lease |-> 0, attempt |-> 0, owner |-> NoOne,
     fence |-> 0, cause |-> "none", by |-> NoBinding]

IsTerminal(d) == d.state \in Terminal

\* Every transition replaces the state, and with it the lease it carried.
Transitioned(d, state) == [d EXCEPT !.state = state, !.lease = 0]

IsOfferable(d, lapsed) ==
    \/ d.state \in {"queued", "delivered"}
    \/ d.state = "leased" /\ d.lease \in lapsed

Holds(d, lease, lapsed) ==
    d.state = "leased" /\ d.lease = lease /\ lease \notin lapsed

Leased(d, lease, incarnation) ==
    [d EXCEPT !.state = "leased", !.lease = lease, !.owner = incarnation]

\* Mutated form: The lease is not compared, nor is an earlier observation.
TakesIntentFromAnyone(d, lease, lapsed) ==
    d.state \in {"leased", "acknowledged"} /\ lease # 0 /\ lapsed = lapsed

\* A second observation never replaces the first: it repeats or conflicts.
TakesIntent(d, lease, lapsed) == d.state # "acknowledged" /\ Holds(d, lease, lapsed)

Acknowledged(d, lease, lapsed) ==
    IF TakesIntent(d, lease, lapsed) THEN Transitioned(d, "acknowledged") ELSE d

\* The fence is compared first, then the state, then who held it last.
Processes(d, incarnation, fence) ==
    /\ ~(d.fence > 0 /\ fence < d.fence)
    /\ d.state = "acknowledged"
    /\ d.owner \in {NoOne, incarnation}

Processed(d, incarnation, fence) ==
    IF Processes(d, incarnation, fence)
    THEN [Transitioned(d, "processed") EXCEPT !.fence = fence] ELSE d

\* A failed attempt is counted, and the last one the policy allows is final.
Attempted(d) ==
    [Transitioned(d, IF d.attempt + 1 >= MaxAttempts THEN "failed" ELSE "queued")
        EXCEPT !.attempt = @ + 1]

Failed(d, lease, lapsed) ==
    IF Holds(d, lease, lapsed) THEN Attempted(d) ELSE d

Released(d, lease, lapsed) ==
    IF Holds(d, lease, lapsed) THEN Transitioned(d, "queued") ELSE d

\* What the activation adapter did: nothing, reached the host, or failed to.
Activated(d, outcome) ==
    CASE IsTerminal(d) \/ outcome = "unsupported" -> d
      [] ~IsTerminal(d) /\ outcome = "accepted" -> Transitioned(d, "delivered")
      [] ~IsTerminal(d) /\ outcome = "failed" -> Attempted(d)

\* The sweep gives a lapsed lease back.  Attention carries no ack timeout.
Expired(d, lapsed) ==
    IF d.state = "leased" /\ d.lease \in lapsed THEN Transitioned(d, "queued") ELSE d

\* Mutated form: An offer that already ended is given up on again.
AbandonedAnyway(d, cause) == [Transitioned(d, "expired") EXCEPT !.cause = cause]

Abandoned(d, cause) ==
    IF IsTerminal(d) THEN d ELSE [Transitioned(d, "expired") EXCEPT !.cause = cause]

Superseded(d, by) == [Transitioned(d, "superseded") EXCEPT !.by = by]
===============================================================================
