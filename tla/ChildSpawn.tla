----------------------------- MODULE ChildSpawn -----------------------------
(***************************************************************************)
(* A parent ceremony whose spawn step opens child ceremonies.  Planning,   *)
(* adopting, opening each child, completing the step and accepting a       *)
(* child's completion are appends to different streams, made by calls that *)
(* may be repeated, overtaken by a new claim, or die between any two of    *)
(* them.  A recovery process walks the global feed behind a durable cursor *)
(* and finishes what a sealed plan promised.                               *)
(*                                                                         *)
(* One parent and one spawn step are kept.  A group is identified by the   *)
(* coordinates it is derived from, here the visit to the step's state; a   *)
(* plan is identified by the call that built it, since two candidates      *)
(* differ in the instant and the recollection they carry.  A claim fence   *)
(* is the number of the claim.  An append by SessionStream::execute under  *)
(* ConflictPolicy::retry re-decides on the state it lands on, so it is one *)
(* step of this model; what a call read before it is kept with the call.   *)
(* The cursor's own protocol is EventCursor's.                             *)
(***************************************************************************)
EXTENDS Naturals, Sequences, FiniteSets

CONSTANTS
    Calls,          \* concurrent calls of PrepareCeremonyChildren
    Recoverers,     \* processes running RecoverCeremonyChildren
    Width,          \* the children a plan holds
    MaxVisits,      \* bound on the visits to the spawn step's state
    MaxClaims,      \* bound on the claims of the spawn step
    MaxFaults       \* bound on recoverer crashes and lapses of a held lease

ASSUME SpawnAssumption ==
    /\ Width \in Nat \ {0} /\ MaxVisits \in Nat \ {0}
    /\ MaxClaims \in Nat \ {0} /\ MaxFaults \in Nat

Groups   == 1..MaxVisits
Children == 1..Width
Fences   == 1..MaxClaims

VARIABLES
    phase,      \* the parent's lifecycle
    claims,     \* the claims made so far
    step,       \* the spawn step's current record
    retired,    \* fences a step deadline retired
    late,       \* the results observed late, by fence
    group,      \* [Groups -> {} or {the sealed group}]
    child,      \* [Groups -> [Children -> {} or {the child's stream}]]
    feed,       \* the global feed, facts recovery acts on only
    through,    \* the recovery cursor's acknowledged position
    lease,      \* the recoverer holding the cursor, if any
    call,       \* what each call is about to do
    recovery,   \* what each recoverer is about to do
    finisher,   \* [Groups -> {} or {who completed the step, and with what}]
    faults

parent == <<phase, claims, step, retired, late>>
vars == <<parent, group, child, feed, through, lease, call, recovery,
          finisher, faults>>

Plans == [fence : Fences, by : Calls]
GroupStates == [plan : Plans, adopted : Fences, accepted : SUBSET Children]
(* What answers a claim: what a spawn step comes to, another output, or a  *)
(* failure.  Only a host, by CompleteCeremonyStep, answers with the latter.*)
Results == {"spawned", "other", "failed"}
LateResults == [fence : Fences, result : Results]
Finishers == [fence : Fences, result : Results \ {"failed"}, host : BOOLEAN]
Streams == [by : Calls, done : BOOLEAN]
Facts == [kind : {"planned", "adopted"}, group : Groups]
         \cup [kind : {"completed"}, group : Groups, child : Children]
Idle == [pc |-> "idle", fence |-> 0, group |-> 1, by |-> {}, next |-> 1]
Tasks == [pc : {"idle", "seal", "adopt", "open", "verify"},
          fence : 0..MaxClaims, group : Groups, by : SUBSET Calls,
          next : 1..(Width + 1)]
Entered(visit) ==
    [visit |-> visit, home |-> TRUE, status |-> "pending", fence |-> 0]
Rest == [pc |-> "idle", at |-> 0, fence |-> 0, next |-> 1]
Recoveries == [pc : {"idle", "open", "complete", "accept", "settle"},
               at : Nat, fence : 0..MaxClaims, next : 1..(Width + 1)]

(* Every variable keeps its type.                                          *)
TypeOK ==
    /\ phase \in {"running", "paused", "ended"}
    /\ claims \in 0..MaxClaims
    /\ step \in [visit : Groups, home : BOOLEAN, fence : 0..MaxClaims,
                 status : {"pending", "in_progress", "failed", "completed"}]
    /\ retired \subseteq Fences /\ late \subseteq LateResults
    /\ \A g \in Groups :
         /\ group[g] \subseteq GroupStates /\ Cardinality(group[g]) <= 1
         /\ \A k \in Children : /\ child[g][k] \subseteq Streams
                                /\ Cardinality(child[g][k]) <= 1
    /\ feed \in Seq(Facts)
    /\ through \in 0..Len(feed)
    /\ lease \subseteq Recoverers /\ Cardinality(lease) <= 1
    /\ call \in [Calls -> Tasks]
    /\ recovery \in [Recoverers -> Recoveries]
    /\ \A g \in Groups : finisher[g] \subseteq Finishers /\ Cardinality(finisher[g]) <= 1
    /\ faults \in 0..MaxFaults

Init ==
    /\ phase = "running" /\ claims = 0
    /\ step = Entered(1)
    /\ retired = {} /\ late = {}
    /\ group = [g \in Groups |-> {}]
    /\ child = [g \in Groups |-> [k \in Children |-> {}]]
    /\ feed = <<>> /\ through = 0 /\ lease = {}
    /\ call = [p \in Calls |-> Idle]
    /\ recovery = [r \in Recoverers |-> Rest]
    /\ finisher = [g \in Groups |-> {}]
    /\ faults = 0

-----------------------------------------------------------------------------
(* The parent's own commands, as far as children depend on them.           *)

IsSealed(g) == group[g] # {}
Sealed(g) == CHOOSE s \in group[g] : TRUE

(* The step's claim is this fence: a record without a lease has none.      *)
HoldsClaim(f) == step.status = "in_progress" /\ step.fence = f

(* The spawn step completed at these coordinates: the current record's, or *)
(* one in its history; with the output the sealed plan gives, or another.  *)
SpawnCompleted(g) == finisher[g] # {}
CompletedAsPlanned(g) == \E e \in finisher[g] : e.result = "spawned"
CompletedOtherwise(g) == \E e \in finisher[g] : e.result # "spawned"

(* The coordinates a plan, an adoption and a recovery must be current at.  *)
IsCurrent(g) == step.home /\ step.visit = g

(* The step is claimed, after a failure or over a lapsed lease as well.    *)
Claim ==
    /\ phase = "running" /\ claims < MaxClaims
    /\ step.home /\ step.status # "completed"
    /\ claims' = claims + 1
    /\ step' = [step EXCEPT !.status = "in_progress", !.fence = claims + 1]
    /\ UNCHANGED <<phase, retired, late, group, child, feed, through, lease,
                   call, recovery, finisher, faults>>

(* The step's deadline retires the claim; the attempt may be retried.      *)
RetiredByDeadline == retired \cup {step.fence}

ExpireStep ==
    /\ phase # "ended" /\ step.status = "in_progress"
    /\ retired' = RetiredByDeadline
    /\ step' = [step EXCEPT !.status = "failed", !.fence = 0]
    /\ UNCHANGED <<phase, claims, late, group, child, feed, through, lease,
                   call, recovery, finisher, faults>>

(* The ceremony leaves the step's state, over a lapsed claim as well, and  *)
(* enters it again with a fresh record; the old one goes to the history.   *)
Transit ==
    /\ phase = "running"
    /\ \/ step.home /\ step' = [step EXCEPT !.home = FALSE]
       \/ /\ ~step.home /\ step.visit < MaxVisits
          /\ step' = Entered(step.visit + 1)
    /\ UNCHANGED <<phase, claims, retired, late, group, child, feed, through,
                   lease, call, recovery, finisher, faults>>

Live(from, to) ==
    /\ phase = from /\ phase' = to
    /\ UNCHANGED <<claims, step, retired, late, group, child, feed, through,
                   lease, call, recovery, finisher, faults>>

Pause  == Live("running", "paused")
Resume == Live("paused", "running")
End    == \E from \in {"running", "paused"} : Live(from, "ended")

(* ApplyStepResult under fence f accepts it: as a late observation, unless *)
(* another result was observed before, or as the end of the step's claim.  *)
Retired(f) == f \in retired \/ (phase = "ended" /\ HoldsClaim(f))
Completes(f) == phase # "ended" /\ step.home /\ HoldsClaim(f)
WasLate(f) == \E l \in late : l.fence = f
Accepts(f, result) ==
    IF WasLate(f) THEN [fence |-> f, result |-> result] \in late
                  ELSE Retired(f) \/ Completes(f)

ApplyStepResult(f, result, host) ==
    LET observed == WasLate(f) \/ Retired(f)
    IN  /\ Accepts(f, result)
        /\ late' = IF observed THEN late \cup {[fence |-> f, result |-> result]} ELSE late
        /\ step' = IF observed THEN step
                   ELSE [step EXCEPT !.fence = 0,
                           !.status = IF result = "failed" THEN "failed" ELSE "completed"]
        /\ finisher' = IF observed \/ result = "failed" THEN finisher
                       ELSE [finisher EXCEPT ![step.visit] =
                               {[fence |-> f, result |-> result, host |-> host]}]
        /\ UNCHANGED <<phase, claims, retired>>

(* CompleteCeremonyStep: a host answers the claim of a spawn step as that  *)
(* of any other, whether or not there is a plan.                           *)
CompleteStep(f, result) ==
    /\ f \in 1..claims
    /\ ApplyStepResult(f, result, TRUE)
    /\ UNCHANGED <<group, child, feed, through, lease, call, recovery, faults>>

-----------------------------------------------------------------------------
(* PrepareCeremonyChildren.                                                *)

(* The call loads the parent and finds the sealed plan of the current      *)
(* coordinates, or builds a candidate, which only the current claim may.   *)
(* The claim fence is the one the caller's claim was given; a repeated     *)
(* call brings it again.                                                   *)
Prepare(p, f) ==
    LET g == step.visit
        start == [Idle EXCEPT !.fence = f, !.group = g, !.by = {p}]
    IN  /\ call[p].pc = "idle" /\ f \in 1..claims /\ step.home
        /\ \/ /\ IsSealed(g)
              /\ call' = [call EXCEPT ![p] =
                   [start EXCEPT !.by = {Sealed(g).plan.by},
                                 !.pc = IF SpawnCompleted(g)
                                        THEN "verify" ELSE "adopt"]]
           \/ /\ ~IsSealed(g) /\ HoldsClaim(f)
              /\ call' = [call EXCEPT ![p] = [start EXCEPT !.pc = "seal"]]
        /\ UNCHANGED <<parent, group, child, feed, through, lease, recovery,
                       finisher, faults>>

GiveUp(p) ==
    /\ call' = [call EXCEPT ![p] = Idle]
    /\ UNCHANGED <<parent, group, child, feed, finisher>>

(* Mutated form: a call that lost the sealing goes on with its candidate.  *)
PlanToOpenAsBuilt(p, sealed) == p

(* The plan a call goes on with: the sealed one, never its own candidate.  *)
PlanToOpen(p, sealed) == sealed.by

ToAdopt(p, sealed) ==
    call' = [call EXCEPT ![p].pc = "adopt", ![p].by = {PlanToOpen(p, sealed)}]

(* The group was sealed by this very request: the claim it names is this.  *)
SameRequestIsSealed(g, f) == IsSealed(g) /\ Sealed(g).plan.fence = f

(* The plan is sealed, found sealed by the same request, or refused.       *)
Seal(p) ==
    LET g == call[p].group
        f == call[p].fence
        plan == [fence |-> f, by |-> p]
    IN  /\ call[p].pc = "seal"
        /\ \/ /\ ~IsSealed(g)
              /\ phase = "running" /\ IsCurrent(g) /\ HoldsClaim(f)
              /\ group' = [group EXCEPT ![g] =
                   {[plan |-> plan, adopted |-> f, accepted |-> {}]}]
              /\ feed' = Append(feed, [kind |-> "planned", group |-> g])
              /\ ToAdopt(p, plan)
              /\ UNCHANGED <<parent, child, finisher>>
           \/ /\ SameRequestIsSealed(g, f)
              /\ UNCHANGED <<parent, group, child, feed, finisher>>
              /\ ToAdopt(p, Sealed(g).plan)
           \/ /\ IF IsSealed(g)
                 THEN ~SameRequestIsSealed(g, f)
                 ELSE phase # "running" \/ ~IsCurrent(g) \/ ~HoldsClaim(f)
              /\ GiveUp(p)
        /\ UNCHANGED <<through, lease, recovery, faults>>

(* The current claim takes the sealed group over before it opens anything. *)
Adoptable(g, f) == IsCurrent(g) /\ HoldsClaim(f)

Adopt(p) ==
    LET g == call[p].group
        f == call[p].fence
        settled == CompletedAsPlanned(g)
                   \/ (~SpawnCompleted(g) /\ Sealed(g).adopted = f)
        adoptable == ~SpawnCompleted(g) /\ Adoptable(g, f)
    IN  /\ call[p].pc = "adopt"
        /\ \/ /\ settled
              /\ UNCHANGED <<parent, group, child, feed, finisher>>
              /\ call' = [call EXCEPT ![p].pc = "open"]
           \/ /\ ~settled /\ adoptable
              /\ group' = [group EXCEPT ![g] =
                             {[Sealed(g) EXCEPT !.adopted = f]}]
              /\ feed' = Append(feed, [kind |-> "adopted", group |-> g])
              /\ call' = [call EXCEPT ![p].pc = "open"]
              /\ UNCHANGED <<parent, child, finisher>>
           \/ ~settled /\ ~adoptable /\ GiveUp(p)
        /\ UNCHANGED <<through, lease, recovery, faults>>

(* open_or_verify_child: the expected-empty append, or the comparison of   *)
(* the stream that is there with the opening the plan gives.               *)
OpenOrVerify(g, k, by) ==
    child' = IF child[g][k] = {}
             THEN [child EXCEPT ![g][k] = {[by |-> by, done |-> FALSE]}]
             ELSE child

IsForeign(g, k, by) == \E s \in child[g][k] : s.by # by

OpenChild(p) ==
    LET c == call[p]
        by == CHOOSE b \in c.by : TRUE
    IN  /\ c.pc \in {"open", "verify"} /\ c.next <= Width
        /\ OpenOrVerify(c.group, c.next, by)
        /\ call' = [call EXCEPT ![p] = IF IsForeign(c.group, c.next, by)
                                      THEN Idle
                                      ELSE [c EXCEPT !.next = @ + 1]]
        /\ UNCHANGED <<parent, group, feed, finisher, through, lease,
                       recovery, faults>>

(* Mutated form: the last child is taken as opened with the one before it. *)
AllOpenedButOne(w) == w.next >= Width

(* Every planned child was opened or verified.                             *)
AllOpened(w) == w.next > Width

(* The step is completed under the call's own fence, found completed, or   *)
(* the result is refused; the call answers.                                *)
CompleteSpawn(p) ==
    LET c == call[p]
    IN  /\ c.pc \in {"open", "verify"} /\ AllOpened(c)
        /\ \/ /\ c.pc = "open" /\ ~SpawnCompleted(c.group)
              /\ ApplyStepResult(c.fence, "spawned", FALSE)
              /\ call' = [call EXCEPT ![p] = Idle]
              /\ UNCHANGED <<group, child, feed>>
           \/ /\ \/ c.pc = "verify" \/ SpawnCompleted(c.group)
                 \/ ~Accepts(c.fence, "spawned")
              /\ GiveUp(p)
        /\ UNCHANGED <<through, lease, recovery, faults>>

(* A call may die at any point; what it appended stays.                    *)
Die(p) ==
    /\ call[p].pc # "idle"
    /\ GiveUp(p)
    /\ UNCHANGED <<through, lease, recovery, faults>>

-----------------------------------------------------------------------------
(* Children run on their own; their completion is a fact of the feed.      *)
ChildCompletes(g, k) ==
    /\ \E s \in child[g][k] : ~s.done
    /\ child' = [child EXCEPT ![g][k] = { [s EXCEPT !.done = TRUE] : s \in @ }]
    /\ feed' = Append(feed, [kind |-> "completed", group |-> g, child |-> k])
    /\ UNCHANGED <<parent, group, through, lease, call, recovery, finisher,
                   faults>>

(* AcceptChildCompletion verifies the child's stream against the sealed    *)
(* plan; a second acceptance of the same terminal appends nothing.         *)
Acceptable(g, k) ==
    /\ IsSealed(g)
    /\ \E s \in child[g][k] : s.done /\ s.by = Sealed(g).plan.by

AcceptChild(g, k) ==
    /\ Acceptable(g, k)
    /\ group' = [group EXCEPT ![g] = { [s EXCEPT !.accepted = @ \cup {k}] : s \in @ }]

Accept(g, k) ==
    /\ AcceptChild(g, k)
    /\ UNCHANGED <<parent, child, feed, through, lease, call, recovery,
                   finisher, faults>>

-----------------------------------------------------------------------------
(* RecoverCeremonyChildren, one position at a time.                        *)

TakeLease(r) ==
    /\ recovery[r].pc = "idle" /\ lease = {} /\ through < Len(feed)
    /\ lease' = {r}
    /\ recovery' = [recovery EXCEPT ![r] =
         [Rest EXCEPT !.at = through + 1,
                      !.pc = IF feed[through + 1].kind = "completed"
                             THEN "accept" ELSE "open"]]
    /\ UNCHANGED <<parent, group, child, feed, through, call, finisher, faults>>

(* The lease lapses, under a working recoverer or after one died.          *)
LeaseLapses ==
    \E r \in lease :
      /\ lease' = {}
      /\ IF recovery[r].pc = "idle"
         THEN UNCHANGED faults
         ELSE faults < MaxFaults /\ faults' = faults + 1
      /\ UNCHANGED <<parent, group, child, feed, through, call, recovery,
                     finisher>>

RecovererDies(r) ==
    /\ recovery[r].pc # "idle" /\ faults < MaxFaults
    /\ faults' = faults + 1
    /\ recovery' = [recovery EXCEPT ![r] = Rest]
    /\ UNCHANGED <<parent, group, child, feed, through, lease, call, finisher>>

Step(r, pc) == recovery' = [recovery EXCEPT ![r].pc = pc]

(* mark_failed: the position stays pending and the lease is given back; a  *)
(* recoverer that no longer holds the lease changes nothing.               *)
RecoveryFails(r) ==
    /\ lease' = lease \ {r}
    /\ recovery' = [recovery EXCEPT ![r] = Rest]
    /\ UNCHANGED <<parent, group, child, finisher>>

(* recover_group opens what is missing from the sealed plan ...            *)
RecoverChild(r) ==
    LET w == recovery[r]
        g == feed[w.at].group
        by == Sealed(g).plan.by
        foreign == IsForeign(g, w.next, by)
    IN  /\ w.pc = "open" /\ ~AllOpened(w)
        /\ OpenOrVerify(g, w.next, by)
        /\ recovery' = [recovery EXCEPT ![r] =
             IF foreign THEN Rest ELSE [w EXCEPT !.next = @ + 1]]
        /\ lease' = IF foreign THEN lease \ {r} ELSE lease
        /\ UNCHANGED <<parent, group, finisher, feed, through, call, faults>>

(* Mutated form: recovery completes the step for whoever claims it now.    *)
RecoversStepOfAnyClaim(g) == IsCurrent(g) /\ step.status = "in_progress"

(* ... and completes the step only for the claim that adopted the group.   *)
RecoversStep(g) ==
    /\ IsCurrent(g) /\ step.status = "in_progress"
    /\ Sealed(g).adopted = step.fence

(* verify_completed_spawn: a step completed with another output is an      *)
(* error for as long as it is the current one.                             *)
RecoverLoad(r) ==
    LET g == feed[recovery[r].at].group
    IN  /\ recovery[r].pc = "open" /\ AllOpened(recovery[r])
        /\ \/ /\ ~(IsCurrent(g) /\ CompletedOtherwise(g))
              /\ recovery' = [recovery EXCEPT
                   ![r].pc = IF RecoversStep(g) THEN "complete" ELSE "settle",
                   ![r].fence = IF RecoversStep(g) THEN step.fence ELSE 0]
              /\ UNCHANGED <<parent, group, child, lease, finisher>>
           \/ IsCurrent(g) /\ CompletedOtherwise(g) /\ RecoveryFails(r)
        /\ UNCHANGED <<feed, through, call, faults>>

RecoverStep(r) ==
    LET w == recovery[r]
        g == feed[w.at].group
        refused == ~SpawnCompleted(g) /\ ~Accepts(w.fence, "spawned")
    IN  /\ w.pc = "complete"
        /\ \/ /\ CompletedAsPlanned(g)
              /\ UNCHANGED <<parent, group, child, lease, finisher>>
              /\ Step(r, "settle")
           \/ /\ ~SpawnCompleted(g) /\ ApplyStepResult(w.fence, "spawned", FALSE)
              /\ UNCHANGED <<group, child, lease>>
              /\ Step(r, "settle")
           \/ (CompletedOtherwise(g) \/ refused) /\ RecoveryFails(r)
        /\ UNCHANGED <<feed, through, call, faults>>

RecoverAcceptance(r) ==
    LET e == feed[recovery[r].at]
    IN  /\ recovery[r].pc = "accept"
        /\ AcceptChild(e.group, e.child)
        /\ Step(r, "settle")
        /\ UNCHANGED <<parent, child, feed, through, lease, call, finisher,
                       faults>>

(* acknowledge_lease moves the cursor for the lease's holder only.         *)
Acknowledge(r) ==
    /\ recovery[r].pc = "settle"
    /\ through' = IF r \in lease THEN recovery[r].at ELSE through
    /\ lease' = lease \ {r}
    /\ recovery' = [recovery EXCEPT ![r] = Rest]
    /\ UNCHANGED <<parent, group, child, feed, call, finisher, faults>>

Recover(r) ==
    \/ RecoverChild(r) \/ RecoverLoad(r) \/ RecoverStep(r)
    \/ RecoverAcceptance(r) \/ Acknowledge(r)

-----------------------------------------------------------------------------
Next ==
    \/ Claim \/ ExpireStep \/ Transit \/ Pause \/ Resume \/ End
    \/ \E f \in Fences, result \in Results : CompleteStep(f, result)
    \/ \E p \in Calls :
         \/ \E f \in Fences : Prepare(p, f)
         \/ Seal(p) \/ Adopt(p) \/ OpenChild(p) \/ CompleteSpawn(p) \/ Die(p)
    \/ \E g \in Groups, k \in Children : ChildCompletes(g, k) \/ Accept(g, k)
    \/ LeaseLapses
    \/ \E r \in Recoverers :
         TakeLease(r) \/ RecovererDies(r) \/ Recover(r)

Spec == Init /\ [][Next]_vars

(* The recovery service drains on startup, on a broker wake and            *)
(* periodically, so it keeps taking the cursor and finishing what it took; *)
(* a lease runs out.  No call, claim or child is assumed to go on.         *)
Fairness ==
    /\ \A r \in Recoverers : WF_vars(TakeLease(r)) /\ WF_vars(Recover(r))
    /\ WF_vars(LeaseLapses /\ UNCHANGED faults)

FairSpec == Spec /\ Fairness

-----------------------------------------------------------------------------
(* Every child stream that exists was opened from the plan its parent      *)
(* sealed, whichever call or recoverer opened it and however many          *)
(* candidates were built: no call opens a child of a plan that lost.       *)
ChildrenAsSealed ==
    \A g \in Groups, k \in Children :
      \A s \in child[g][k] : IsSealed(g) /\ s.by = Sealed(g).plan.by

(* The spawner, a call or recovery, completes the step only once every     *)
(* planned child has a stream.                                             *)
CompletedSpawnIsOpen ==
    \A g \in Groups : \A e \in finisher[g] : ~e.host =>
      IsSealed(g) /\ \A k \in Children : child[g][k] # {}

(* The claim under which the spawner completed the step, in a call or in   *)
(* recovery, is the one the group's durable adoption names, whatever was   *)
(* reclaimed, expired or answered by a host in between, and stays so.      *)
CompletedByTheAdopter ==
    \A g \in Groups : \A e \in finisher[g] : ~e.host =>
      IsSealed(g) /\ Sealed(g).adopted = e.fence

(* The cursor acknowledges a position only after its child effect landed,  *)
(* though its lease may lapse in the middle and another process repeat it. *)
AcknowledgedIsDone ==
    \A i \in 1..through :
      LET e == feed[i]
      IN  IF e.kind = "completed"
          THEN IsSealed(e.group) /\ e.child \in Sealed(e.group).accepted
          ELSE \A k \in Children : child[e.group][k] # {}

(* Nothing is counted as done that is not: not by the spawner when it      *)
(* completes the step, not by the cursor when it leaves a position behind. *)
NothingIsCountedEarly == CompletedSpawnIsOpen /\ AcknowledgedIsDone

(* Recovery alone brings a sealed plan to its end: every planned child is  *)
(* opened, and every child that completes is accepted by its parent, even  *)
(* when every call died and the parent was paused or ended.  All that can  *)
(* hold it up is a host that answered the adopted claim otherwise, and     *)
(* that only for as long as the parent stands at that step.                *)
CarriedOut ==
    \A g \in Groups, k \in Children :
      /\ IsSealed(g) => child[g][k] # {}
      /\ (\E s \in child[g][k] : s.done) =>
           (IsSealed(g) /\ k \in Sealed(g).accepted)
HeldUp ==
    \E g \in Groups :
      /\ IsSealed(g) /\ IsCurrent(g)
      /\ \/ CompletedOtherwise(g)
         \/ /\ phase = "ended" /\ HoldsClaim(Sealed(g).adopted)
            /\ \E l \in late : l.fence = Sealed(g).adopted /\ l.result # "spawned"
PlansAreCarriedOut == []<>(CarriedOut \/ HeldUp)

-----------------------------------------------------------------------------
(* What the documents say of spawning and the code does not keep. *)

(* A spawn step completes after all planned children have been opened.     *)
CompletesAfterOpening ==
    \A g \in Groups : SpawnCompleted(g) => \A k \in Children : child[g][k] # {}

(* A plan is carried out, whatever a host answered.                        *)
RecoveryIsNotHeldUp == []<>CarriedOut
=============================================================================
