------------------------ MODULE AuthorizationPolicy ------------------------
(***************************************************************************)
(* The authorization policy: an event stream of grants, delegations,       *)
(* revocations and recorded decisions, and the protected operations that   *)
(* act on those decisions.  A decision is read against a snapshot and      *)
(* appended under the version it read, so a revocation in between makes it *)
(* be taken again.  A long-running operation asks again before each new    *)
(* claim; work a claim already accepted may be finished whatever was       *)
(* revoked since.                                                          *)
(*                                                                         *)
(* The version of the stream identifies the event recorded at it.  Scopes  *)
(* and target digests are one value: they narrow exactly as actions do.    *)
(* Issuing and revoking re-decide on every conflict, so each is one step.  *)
(* The ceremony is kept to the claims it sealed and their completion.      *)
(***************************************************************************)
EXTENDS Naturals

CONSTANTS
    Owner,          \* the trusted host that owns the policy
    Principals,     \* everybody else
    GrantIds,
    Issuable,       \* the grants somebody may try to issue
    Asked,          \* the actions principals ask to take
    RequestIds,
    Desks,          \* operations in flight
    Ttl,            \* how long a decision may be acted on
    MaxTime,        \* bound on the clock
    MaxVersion      \* bound on what is asked of the policy

(* run is long-running and claims on its way; claim is one claim.          *)
Actions == {"issue", "run", "claim", "approve"}

Everybody == {Owner} \cup Principals
Optional(S) == {{}} \cup { {x} : x \in S }

(* How many times a grant may be handed on.                                *)
MaxDepth == 8

Grants == [by : Everybody, to : Principals, parent : Optional(GrantIds),
           actions : SUBSET Actions \ {{}}, depth : 0..MaxDepth,
           until : Optional(1..MaxTime)]

ASSUME PolicyAssumption ==
    /\ Owner \notin Principals
    /\ Issuable \subseteq Grants
    /\ Asked \subseteq Actions \ {"issue"}
    /\ Ttl \in Nat \ {0} /\ MaxTime \in Nat /\ MaxVersion \in Nat

VARIABLES
    separated,    \* whether the policy asks for an approval of every run
    clock,
    version,      \* the version of the policy's stream
    grant,        \* [GrantIds -> {} or {the grant}]
    revokedAt,    \* [GrantIds -> the version it was revoked at, or 0]
    decisions,    \* the decisions recorded
    desk,         \* what each operation is about to do
    claims        \* the claims sealed under protected operations

vars == <<separated, clock, version, grant, revokedAt, decisions, desk, claims>>
policy == <<separated, grant, revokedAt>>

Idle == [pc |-> "idle"]

(* Every variable keeps its type, and a decision carries the version it is *)
(* recorded at.                                                            *)
TypeOK ==
    /\ separated \in BOOLEAN
    /\ clock \in 0..MaxTime /\ version \in Nat
    /\ \A g \in GrantIds : grant[g] \in Optional(Grants)
    /\ revokedAt \in [GrantIds -> 0..version]
    /\ \A d \in decisions :
         /\ d.version \in 1..version /\ d.until > d.at
         /\ d.grant \in Optional(GrantIds) /\ d.kind \in {"allow", "deny"}
    /\ \A p \in Desks :
         desk[p].pc \in {"idle", "decide", "append", "answered", "working", "claimed"}
    /\ \A c \in claims : c.decision \in 1..version

Init ==
    /\ separated \in BOOLEAN
    /\ clock = 0 /\ version = 0
    /\ grant = [g \in GrantIds |-> {}]
    /\ revokedAt = [g \in GrantIds |-> 0]
    /\ decisions = {}
    /\ desk = [p \in Desks |-> Idle]
    /\ claims = {}

Tick ==
    /\ clock < MaxTime
    /\ clock' = clock + 1
    /\ UNCHANGED <<version, policy, decisions, desk, claims>>

-----------------------------------------------------------------------------
(* Grants and their chains.                                                *)

Grant(g) == CHOOSE x \in grant[g] : TRUE
Issued == { g \in GrantIds : grant[g] # {} }
IsActive(g, now) == \A t \in Grant(g).until : now < t

(* A grant and the grants it was delegated from: what every set of grants  *)
(* that holds it, and holds the parents of its members, has in common.     *)
HoldsParents(S) == \A h \in S : \A x \in grant[h] : x.parent \subseteq S
Chain(g) ==
    { h \in GrantIds :
        \A S \in SUBSET GrantIds : g \in S /\ HoldsParents(S) => h \in S }

(* Mutated form: only the grant itself is looked up.                       *)
GrantChainIsLiveItself(g, now) == revokedAt[g] = 0 /\ IsActive(g, now)

(* Every grant of the chain stands, each issued by the holder of the one   *)
(* above it, the first by the owner.                                       *)
GrantChainIsLive(g, now) ==
    \A h \in Chain(g) :
      /\ revokedAt[h] = 0 /\ IsActive(h, now)
      /\ \A above \in Grant(h).parent : Grant(above).to = Grant(h).by
      /\ Grant(h).parent = {} => Grant(h).by = Owner

Contains(outer, inner) == outer = {} \/ (inner # {} /\ \A t \in outer, u \in inner : u <= t)

(* Mutated form: the holder of a grant may hand on more than it holds.     *)
MayDelegateMore(x) ==
    \E g \in x.parent : /\ g \in Issued /\ Grant(g).to = x.by
                        /\ GrantChainIsLive(g, clock)

MayDelegate(x) ==
    \E g \in x.parent :
      /\ g \in Issued /\ Grant(g).to = x.by
      /\ GrantChainIsLive(g, clock)
      /\ "issue" \in Grant(g).actions
      /\ x.actions \subseteq Grant(g).actions
      /\ Contains(Grant(g).until, x.until)
      /\ Grant(g).depth > x.depth

Issue(g, x) ==
    /\ version < MaxVersion /\ grant[g] = {}
    /\ IF x.by = Owner THEN x.parent = {} ELSE MayDelegate(x)
    /\ grant' = [grant EXCEPT ![g] = {x}]
    /\ version' = version + 1
    /\ UNCHANGED <<separated, clock, revokedAt, decisions, desk, claims>>

(* The owner or the issuer revokes; revoking twice records nothing.        *)
Revoke(g) ==
    /\ version < MaxVersion /\ g \in Issued /\ revokedAt[g] = 0
    /\ revokedAt' = [revokedAt EXCEPT ![g] = version + 1]
    /\ version' = version + 1
    /\ UNCHANGED <<separated, clock, grant, decisions, desk, claims>>

-----------------------------------------------------------------------------
(* Deciding.                                                               *)

Matching(request) ==
    { g \in Issued : /\ Grant(g).to = request.by
                     /\ request.action \in Grant(g).actions
                     /\ GrantChainIsLive(g, clock) }

Recorded(v) == { d \in decisions : d.version = v }

(* Mutated form: whoever runs may also have approved.                      *)
ApprovesAnyone(d, request) ==
    d.kind = "allow" /\ clock < d.until /\ d.request.action = "approve"

(* A live approval of this very action, by somebody else, under a grant    *)
(* that still stands.                                                      *)
Approves(d, request) ==
    /\ d.kind = "allow" /\ clock < d.until
    /\ \A g \in d.grant : GrantChainIsLive(g, clock)
    /\ d.request.action = "approve" /\ d.request.by # request.by

(* separation_denial: a run cites a valid approval where the policy asks   *)
(* for one.                                                                *)
IsSeparated(request) ==
    request.action = "run" /\ separated =>
      \E v \in request.approval : \E d \in Recorded(v) : Approves(d, request)

MinOf(t, until) == IF \E u \in until : u < t THEN CHOOSE u \in until : TRUE ELSE t

(* The version a decision is recorded at.                                  *)
NextVersion == version + 1

(* A decision recorded now: kind, the grant it rests on and until when.    *)
Verdict(request, kind, g, until) ==
    [request |-> request, version |-> NextVersion, at |-> clock,
     kind |-> kind, grant |-> g, until |-> until]

(* The decision the request names admitted this principal's work.          *)
AuthorityIsValid(request) ==
    \A v \in request.accepted : \E d \in Recorded(v) :
      d.kind = "allow" /\ d.request.by = request.by

(* Work a decision already admitted goes on, whatever became of the grant  *)
(* that decision rested on.                                                *)
DecideAcceptedWork(request) == Verdict(request, "allow", {}, clock + Ttl)

(* New work needs a grant that matches, looked up in id order, here any    *)
(* one, and the approval the policy asks for.                              *)
DecideAuthorize(request, g) ==
    IF g # {} /\ IsSeparated(request)
    THEN Verdict(request, "allow", g,
                 MinOf(clock + Ttl, UNION { Grant(h).until : h \in g }))
    ELSE Verdict(request, "deny", {}, clock + Ttl)

(* The decision a request gets on the policy as it stands.                 *)
Decision(request, g) ==
    IF request.accepted = {} THEN DecideAuthorize(request, g)
    ELSE DecideAcceptedWork(request)

Answer(p, d) ==
    desk' = [desk EXCEPT ![p] = [pc |-> "answered", request |-> desk[p].request,
                                 asked |-> desk[p].asked, decision |-> d]]

(* decide reads the decision this request already has, or plans one on the *)
(* snapshot it loads; a request id used for something else is a conflict.  *)
(* The two readings are one step: where a decision on this very request    *)
(* comes between them, the store refuses to append a second one.           *)
Decide(p) ==
    LET request == desk[p].request
        existing == { d \in decisions : d.request.id = request.id }
    IN  /\ desk[p].pc = "decide"
        /\ \/ \E d \in existing : d.request = request /\ Answer(p, d)
           \/ /\ \E d \in existing : d.request # request
              /\ desk' = [desk EXCEPT ![p] = Idle]
           \/ /\ existing = {} /\ AuthorityIsValid(request)
              /\ \E g \in IF Matching(request) = {} THEN {{}}
                          ELSE { {h} : h \in Matching(request) } :
                   desk' = [desk EXCEPT ![p] =
                     [pc |-> "append", request |-> request,
                      asked |-> desk[p].asked, loaded |-> version,
                      decision |-> Decision(request, g)]]
        /\ UNCHANGED <<clock, version, policy, decisions, claims>>

(* The stream is at the version the decision was read at.                  *)
IsUnchangedSince(loaded) == loaded = version

(* What an operation asked for is decided once more.                       *)
Retries(p, request) ==
    desk' = [desk EXCEPT ![p] =
      [pc |-> "decide", request |-> request, asked |-> desk[p].asked]]

(* The append of a decision; a conflict is decided again from the start.   *)
AppendDecision(p) ==
    LET d == desk[p].decision
    IN  /\ desk[p].pc = "append"
        /\ \/ /\ IsUnchangedSince(desk[p].loaded)
              /\ decisions' = decisions \cup {d}
              /\ version' = version + 1
              /\ Answer(p, d)
           \/ /\ ~IsUnchangedSince(desk[p].loaded)
              /\ Retries(p, desk[p].request)
              /\ UNCHANGED <<decisions, version>>
        /\ UNCHANGED <<clock, policy, claims>>

Asks(p, request) ==
    desk' = [desk EXCEPT ![p] =
      [pc |-> "decide", request |-> request, asked |-> version]]

-----------------------------------------------------------------------------
(* Protected operations.                                                   *)

(* A principal asks to act, citing an approval where it has one.           *)
Ask(p, id, by, action, approval) ==
    /\ desk[p].pc = "idle" /\ version < MaxVersion
    /\ approval = {} \/ action = "run"
    /\ Asks(p, [id |-> <<"call", id>>, by |-> by, action |-> action,
                approval |-> approval, accepted |-> {}])
    /\ UNCHANGED <<clock, version, policy, decisions, claims>>

IsAllowed(d) == d.kind = "allow" /\ clock < d.until
Purpose(p) == desk[p].request.id[1]

(* A refused, expired or merely consulted decision ends the operation; so  *)
(* may anything else before it claims.                                     *)
Leave(p) ==
    /\ \/ /\ desk[p].pc = "answered" /\ Purpose(p) # "finish"
          /\ ~IsAllowed(desk[p].decision) \/ desk[p].request.action = "approve"
       \/ desk[p].pc = "working"
    /\ desk' = [desk EXCEPT ![p] = Idle]
    /\ UNCHANGED <<clock, version, policy, decisions, claims>>

(* The gate admits the operation.                                          *)
Start(p) ==
    /\ desk[p].pc = "answered" /\ Purpose(p) = "call"
    /\ IsAllowed(desk[p].decision) /\ desk[p].request.action # "approve"
    /\ \A c \in claims : c.desk # p
    /\ desk' = [desk EXCEPT ![p] = [pc |-> "working", decision |-> desk[p].decision]]
    /\ UNCHANGED <<clock, version, policy, decisions, claims>>

(* Mutated form: live evidence admits a new claim as it does any append.   *)
MustAskAgainUnlessLive(d) == ~IsAllowed(d)

(* Evidence that lapsed is asked for again; a run asks for each new claim. *)
MustAskAgain(d) == d.request.action = "run" \/ ~IsAllowed(d)

(* The append that seals the claim of the step the operation came to.      *)
SealClaim(p, d, reached) ==
    /\ claims' = claims \cup {[by |-> d.request.by, decision |-> d.version,
                               asked |-> reached, done |-> FALSE, desk |-> p]}
    /\ desk' = [desk EXCEPT ![p] = [pc |-> "claimed", decision |-> d]]

(* The operation comes to a step it may claim.  The admission of the       *)
(* append asks about the same thing, under an id that digests the facts to *)
(* append: no other append shares it.                                      *)
ReachClaim(p) ==
    LET d == desk[p].decision
    IN  /\ desk[p].pc = "working"
        /\ \/ /\ MustAskAgain(d)
              /\ Asks(p, [d.request EXCEPT !.id = <<"append", d.version, p, version>>])
              /\ UNCHANGED claims
           \/ ~MustAskAgain(d) /\ SealClaim(p, d, version)
        /\ UNCHANGED <<clock, version, policy, decisions>>

AdmitClaim(p) ==
    /\ desk[p].pc = "answered" /\ Purpose(p) = "append"
    /\ IsAllowed(desk[p].decision)
    /\ SealClaim(p, desk[p].decision, desk[p].asked)
    /\ UNCHANGED <<clock, version, policy, decisions>>

(* The step's result is appended under live evidence, or under a decision  *)
(* that continues the work its claim accepted; one that expires before it  *)
(* is used is asked for again.                                             *)
Finished(p) ==
    /\ claims' = { [c EXCEPT !.done = (@ \/ c.desk = p)] : c \in claims }
    /\ desk' = [desk EXCEPT ![p] = Idle]


(* The request that continues accepted work names the decision that        *)
(* admitted it.                                                            *)
Continuation(d) ==
    [d.request EXCEPT !.id = <<"finish", d.version, clock>>,
                      !.accepted = {d.version}, !.approval = {}]

Finish(p) ==
    LET d == desk[p].decision
    IN  /\ \/ /\ desk[p].pc = "claimed" /\ IsAllowed(d)
              /\ Finished(p)
           \/ /\ desk[p].pc = "claimed" /\ ~IsAllowed(d)
              /\ Asks(p, Continuation(d))
              /\ UNCHANGED claims
           \/ /\ desk[p].pc = "answered" /\ Purpose(p) = "finish" /\ IsAllowed(d)
              /\ Finished(p)
           \/ /\ desk[p].pc = "answered" /\ Purpose(p) = "finish" /\ ~IsAllowed(d)
              /\ Retries(p, [desk[p].request EXCEPT !.id = <<"finish", @[2], clock>>])
              /\ UNCHANGED claims
        /\ UNCHANGED <<clock, version, policy, decisions>>

Proceed(p) ==
    Decide(p) \/ AppendDecision(p) \/ Start(p) \/ Leave(p) \/ AdmitClaim(p) \/ Finish(p)

-----------------------------------------------------------------------------
Next ==
    \/ Tick
    \/ \E g \in GrantIds : \/ \E x \in Issuable : Issue(g, x)
                           \/ Revoke(g)
    \/ \E p \in Desks :
         \/ \E id \in RequestIds, by \in Principals, action \in Asked :
              \E approval \in Optional({ d.version : d \in decisions }) :
                Ask(p, id, by, action, approval)
         \/ ReachClaim(p) \/ Proceed(p)

Spec == Init /\ [][Next]_vars

(* What an operation in flight asked for is answered, and what it claimed  *)
(* is worked on.                                                           *)
Fairness == \A p \in Desks : WF_vars(Proceed(p))

FairSpec == Spec /\ Fairness

-----------------------------------------------------------------------------
(* A delegated grant never exceeds what it was delegated from: along every *)
(* chain the actions shrink, the validity shrinks, the depth runs out, and *)
(* the first grant is the owner's.                                         *)
DelegationNarrows ==
    \A g \in Issued :
      /\ \A h \in Grant(g).parent : h \in Issued /\ Grant(h).to = Grant(g).by
      /\ \E first \in Chain(g) : Grant(first).parent = {} /\ Grant(first).by = Owner
      /\ \A above \in Chain(g) :
           /\ Grant(g).actions \subseteq Grant(above).actions
           /\ Contains(Grant(above).until, Grant(g).until)
           /\ above # g => Grant(above).depth > Grant(g).depth

(* No allowance was recorded on a chain already revoked in the stream,     *)
(* however the revocation raced the reading of the policy.                 *)
AllowancesWereBacked ==
    \A d \in decisions : \A g \in d.grant : \A h \in Chain(g) :
      /\ revokedAt[h] # 0 => revokedAt[h] > d.version
      /\ d.request.action \in Grant(h).actions

(* A request has one decision, whoever asked it twice at once.             *)
OneDecisionPerRequest ==
    \A d, e \in decisions : d.request.id = e.request.id => d = e

(* Decisions race with one another and with revocations over one stream:   *)
(* each stands on a chain in force, and stands alone.                      *)
DecisionsStand == AllowancesWereBacked /\ OneDecisionPerRequest

(* Where a run needs approval, every allowed run cites an approval by      *)
(* somebody else that had not been revoked when the run was decided.       *)
DutiesAreSeparated ==
    separated =>
      \A d \in decisions :
        d.kind = "allow" /\ d.request.action = "run" /\ d.request.accepted = {} =>
          \E v \in d.request.approval : \E e \in Recorded(v) :
            /\ e.kind = "allow" /\ e.request.by # d.request.by
            /\ \A g \in e.grant : \A h \in Chain(g) :
                 revokedAt[h] # 0 => revokedAt[h] > d.version

(* Revoked work claims nothing more: a long-running operation whose chain  *)
(* was revoked before it came to a step does not claim that step, however  *)
(* live the evidence it started with.                                      *)
RevokedWorkClaimsNothing ==
    \A c \in claims : \A d \in Recorded(c.decision) :
      d.request.action = "run" =>
        \A g \in d.grant : \A h \in Chain(g) :
          revokedAt[h] # 0 => revokedAt[h] > c.asked

=============================================================================
