---------------------------- MODULE EventCursor ----------------------------
(***************************************************************************)
(* A named cursor over the global log of sealed events, and the publishers *)
(* that drain it.  A drain begins in the process that appended an event,   *)
(* or when a process starts, and ends when it finds nothing left or the    *)
(* cursor busy; no timer begins one.  The drains of all processes share    *)
(* the cursor and exclude each other by an expiring lease.                 *)
(*                                                                         *)
(* A lease may lapse while its holder is still delivering, so that another *)
(* publisher works on the same position; the lease id decides whose        *)
(* outcome is recorded.  A delivery may fail, fail after it took effect,   *)
(* or be cut off by a crash; a crashed publisher leaves its lease behind.  *)
(* Consumers that pull move the same cursor by acknowledging positions.    *)
(*                                                                         *)
(* Time is abstracted to the lapse of the lease: `live' says whether       *)
(* leased_until still lies ahead.  Only whether two lease ids are equal    *)
(* matters, so a new one is the least that nobody holds.                   *)
(***************************************************************************)
EXTENDS Naturals, Sequences, FiniteSets

CONSTANTS
    Workers,       \* the publishers: the drains that may be under way at once
    LeaseIds,      \* the ids leases may carry
    MaxAttempts,   \* MAX_ATTEMPTS
    PageLimit,     \* the positions one wake may confirm
    MaxLog         \* bound: the events sealed

ASSUME CursorAssumption ==
    /\ LeaseIds \subseteq Nat
    /\ MaxAttempts \in Nat \ {0}
    /\ PageLimit \in Nat \ {0}
    /\ MaxLog \in Nat

VARIABLES
    log,           \* the number of sealed events; positions are contiguous
    through,       \* acknowledged_through, 0 for none
    attempt,
    lease,         \* {} or {[id, live]}
    quarantined,   \* the positions quarantined, in order
    worker,        \* what each publisher is about to do
    delivered,     \* the positions the transport handed over
    failures,      \* the deliveries of the position now next that failed
    pulled         \* the positions a pulling consumer acknowledged

cursorVars == <<through, attempt, lease, quarantined>>
worldVars  == <<log, delivered, failures, pulled>>
vars       == <<cursorVars, worker, worldVars>>

Phases  == {"idle", "lease", "read", "deliver", "acknowledge", "fail",
            "quarantine", "release"}
Grants  == [id : LeaseIds, through : Nat, attempt : Nat]
Stored  == [id : LeaseIds, live : BOOLEAN]
WorkerStates == [phase : Phases, grant : SUBSET Grants, left : Nat, retries : Nat]

TypeOK ==
    /\ log \in Nat
    /\ through \in Nat
    /\ attempt \in Nat
    /\ lease \in SUBSET Stored
    /\ quarantined \in Seq(Nat)
    /\ worker \in [Workers -> WorkerStates]
    /\ \A w \in Workers : worker[w].phase \notin {"idle", "lease"} =>
          /\ worker[w].grant # {}
          /\ \A g, h \in worker[w].grant : g = h
    /\ \A w \in Workers : worker[w].phase # "idle" =>
          worker[w].left \in 1..PageLimit
    /\ delivered \subseteq Nat
    /\ failures \in 0..MaxAttempts
    /\ pulled \subseteq Nat

Idle == [phase |-> "idle", grant |-> {}, left |-> 0, retries |-> 0]

Init ==
    /\ log = 0
    /\ through = 0
    /\ attempt = 0
    /\ lease = {}
    /\ quarantined = <<>>
    /\ worker = [w \in Workers |-> Idle]
    /\ delivered = {}
    /\ failures = 0
    /\ pulled = {}

Becomes(w, value) == worker' = [worker EXCEPT ![w] = value]
GrantOf(w) == CHOOSE g \in worker[w].grant : TRUE
NextPosition(w) == GrantOf(w).through + 1

-----------------------------------------------------------------------------
(* A drain sets out on a page.                                            *)
Drain == [Idle EXCEPT !.phase = "lease", !.left = PageLimit]

(* An append seals an event and wakes a publisher of its process; when    *)
(* the process ends between the two, the publisher crashes at once.       *)
Seal(w) ==
    /\ log < MaxLog
    /\ worker[w].phase = "idle"
    /\ log' = log + 1
    /\ Becomes(w, Drain)
    /\ UNCHANGED <<cursorVars, delivered, failures, pulled>>

(* A process starts, and publishes what an earlier one left pending; when *)
(* a page is used up it begins the next, which is this step again.        *)
Start(w) ==
    /\ worker[w].phase = "idle"
    /\ Becomes(w, Drain)
    /\ UNCHANGED <<cursorVars, worldVars>>

-----------------------------------------------------------------------------
(* lease: granted unless another one has not lapsed yet.                  *)

(* Mutated form: a lapsed lease blocks as well.                           *)
LeaseIsFreeWhenReleased == lease = {}
LeaseIsFree == \A l \in lease : ~l.live

Known == { l.id : l \in lease }
           \cup { g.id : g \in UNION { worker[v].grant : v \in Workers } }

LeaseCursor(w) ==
    /\ worker[w].phase = "lease"
    /\ LeaseIsFree
    /\ \E id \in LeaseIds \ Known :
          /\ \A other \in LeaseIds \ Known : id <= other
          /\ lease' = {[id |-> id, live |-> TRUE]}
          /\ Becomes(w, [worker[w] EXCEPT !.phase = "read",
                !.grant = {[id |-> id, through |-> through, attempt |-> attempt]}])
    /\ UNCHANGED <<through, attempt, quarantined, worldVars>>

(* The cursor is busy: the drain ends, and with it this wake.             *)
FindBusy(w) ==
    /\ worker[w].phase = "lease"
    /\ ~LeaseIsFree
    /\ Becomes(w, Idle)
    /\ UNCHANGED <<cursorVars, worldVars>>

(* Time passes until the lease has lapsed.                                *)
Lapse ==
    /\ \E l \in lease : l.live
    /\ lease' = { [l EXCEPT !.live = FALSE] : l \in lease }
    /\ UNCHANGED <<through, attempt, quarantined, worker, worldVars>>

-----------------------------------------------------------------------------
(* read_all: the one event at the position the lease stands before.       *)

(* Mutated form: one attempt too few.                                     *)
IsExhaustedEarly(n) == n + 1 >= MaxAttempts
IsExhausted(n) == n >= MaxAttempts

ReadNext(w) ==
    /\ worker[w].phase = "read"
    /\ Becomes(w, [worker[w] EXCEPT !.phase =
          IF NextPosition(w) > log THEN "release"
          ELSE IF IsExhausted(GrantOf(w).attempt) THEN "quarantine"
          ELSE "deliver"])
    /\ UNCHANGED <<cursorVars, worldVars>>

(* The transport takes the event, or reports a failure; it may have taken *)
(* an event it reports as failed.                                         *)
DeliverNext(w) ==
    /\ worker[w].phase = "deliver"
    /\ delivered' = delivered \cup {NextPosition(w)}
    /\ Becomes(w, [worker[w] EXCEPT !.phase = "acknowledge"])
    /\ UNCHANGED <<cursorVars, log, failures, pulled>>

FailDelivery(w) ==
    /\ worker[w].phase = "deliver"
    /\ \/ delivered' = delivered
       \/ delivered' = delivered \cup {NextPosition(w)}
    /\ failures' = IF NextPosition(w) = through + 1 /\ failures < MaxAttempts
                    THEN failures + 1 ELSE failures
    /\ Becomes(w, [worker[w] EXCEPT !.phase = "fail"])
    /\ UNCHANGED <<cursorVars, log, pulled>>

-----------------------------------------------------------------------------
(* require_lease: the lease stored is still the one this publisher holds. *)

(* Mutated form: any lease will do, also none.                            *)
HoldsLeaseUnfenced(w) == TRUE
HoldsLease(w) == \E l \in lease : l.id = GrantOf(w).id

(* The next iteration of the round, while the page has room.              *)
Onward(w) ==
    IF worker[w].left > 1
      THEN [Drain EXCEPT !.left = worker[w].left - 1]
      ELSE Idle

Acknowledge(w) ==
    /\ worker[w].phase = "acknowledge"
    /\ HoldsLease(w)
    /\ through' = NextPosition(w)
    /\ attempt' = 0
    /\ lease' = {}
    /\ Becomes(w, Onward(w))
    /\ failures' = 0
    /\ UNCHANGED <<quarantined, log, delivered, pulled>>

Quarantine(w) ==
    /\ worker[w].phase = "quarantine"
    /\ HoldsLease(w)
    /\ quarantined' = Append(quarantined, NextPosition(w))
    /\ through' = NextPosition(w)
    /\ attempt' = 0
    /\ lease' = {}
    /\ Becomes(w, Onward(w))
    /\ failures' = 0
    /\ UNCHANGED <<log, delivered, pulled>>

(* A failed delivery is counted and the position tried again, after a     *)
(* pause, unless this wake has had too many failures without progress.    *)
MarkFailed(w) ==
    /\ worker[w].phase = "fail"
    /\ HoldsLease(w)
    /\ attempt' = attempt + 1
    /\ lease' = {}
    /\ Becomes(w, IF worker[w].retries < MaxAttempts
                    THEN [worker[w] EXCEPT !.phase = "lease", !.grant = {},
                                           !.retries = @ + 1]
                    ELSE Idle)
    /\ UNCHANGED <<through, quarantined, worldVars>>

Release(w) ==
    /\ worker[w].phase = "release"
    /\ HoldsLease(w)
    /\ lease' = {}
    /\ Becomes(w, Idle)
    /\ UNCHANGED <<through, attempt, quarantined, worldVars>>

(* The lease went to somebody else: the round ends with a conflict.       *)
LoseLease(w) ==
    /\ worker[w].phase \in {"acknowledge", "quarantine", "fail", "release"}
    /\ ~HoldsLease(w)
    /\ Becomes(w, Idle)
    /\ UNCHANGED <<cursorVars, worldVars>>

(* A store fails, or the process ends and is started again; the lease     *)
(* stays where it is.                                                     *)
Crash(w) ==
    /\ worker[w].phase # "idle"
    /\ Becomes(w, Idle)
    /\ UNCHANGED <<cursorVars, worldVars>>

-----------------------------------------------------------------------------
(* An explicit acknowledgement of a pulled event.  It is refused while a  *)
(* lease is stored, lapsed or not.                                        *)
Pull(p) ==
    /\ p \in 1..log
    /\ p > through
    /\ lease = {}
    /\ pulled' = pulled \cup (through + 1 .. p)
    /\ through' = p
    /\ attempt' = 0
    /\ failures' = 0
    /\ UNCHANGED <<lease, quarantined, worker, log, delivered>>

PublisherStep(w) ==
    \/ LeaseCursor(w) \/ FindBusy(w) \/ ReadNext(w) \/ DeliverNext(w)
    \/ FailDelivery(w) \/ Acknowledge(w) \/ Quarantine(w) \/ MarkFailed(w)
    \/ Release(w) \/ LoseLease(w)

Next ==
    \/ \E w \in Workers : Seal(w) \/ Start(w) \/ PublisherStep(w) \/ Crash(w)
    \/ \E p \in 1..log : Pull(p)
    \/ Lapse

Spec == Init /\ [][Next]_vars

(* A drain goes on with what it began, and time passes.  Nothing obliges  *)
(* anyone to append or to start: no drain has to begin.                   *)
Fairness ==
    /\ \A w \in Workers : WF_vars(PublisherStep(w))
    /\ WF_vars(Lapse)
LiveSpec == Spec /\ Fairness
-----------------------------------------------------------------------------
(* Position by position, the publishers and the pulling consumers settle  *)
(* the log in order: nothing is passed over, and what counts as delivered *)
(* was delivered, whoever's lease lapsed and whoever crashed meanwhile.   *)
Settled == [p \in 1..through |->
              IF p \in { quarantined[i] : i \in DOMAIN quarantined } THEN "quarantined"
              ELSE IF p \in pulled THEN "pulled" ELSE "delivered"]
Feed == INSTANCE OrderedFeed WITH sealed <- log, settled <- Settled, seen <- delivered
DeliversInOrder == Feed!Spec

(* An event is given up only after its own delivery failed as often as    *)
(* the policy allows: failures of another event, of a lease that was lost *)
(* or of a position already settled are never counted for it.             *)
QuarantineIsEarned ==
    [][quarantined' # quarantined => failures = MaxAttempts]_vars

(* While no publisher crashes and no lease lapses under a publisher still *)
(* at work, and for as long as publishers keep being woken, every sealed  *)
(* event is eventually settled: also when a wake was lost on a busy       *)
(* cursor, when a crashed publisher left its lease behind, and when the   *)
(* transport keeps failing.                                               *)
LapseUnderHolder ==
    Lapse /\ \E w \in Workers : worker[w].grant # {} /\ HoldsLease(w)
Calm == <>[][~LapseUnderHolder
             /\ \A w \in Workers : Crash(w) => FindBusy(w)]_vars
KeepsBeingWoken == []<><<\E w \in Workers : Seal(w) \/ Start(w)>>_vars
Settles == \A p \in 1..MaxLog : (p <= log ~> p <= through)
EverythingSettles == Calm /\ KeepsBeingWoken => Settles

(* Without the wakes to come this is not so.  Another drain has read      *)
(* that nothing is left and not yet released the cursor when the event is *)
(* sealed; the event's own wake finds the cursor busy and ends.           *)
LastEventSettles == Calm => Settles
=============================================================================
