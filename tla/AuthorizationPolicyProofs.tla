--------------------- MODULE AuthorizationPolicyProofs ---------------------
(***************************************************************************)
(* Proofs about the authorization policy, for every set of principals,     *)
(* grants, requests and operations, and every bound.                       *)
(*                                                                         *)
(* The decisions in the stream and the one an operation is about to append *)
(* are held to the same word: they stand on chains that nothing in the     *)
(* stream had revoked by the version they were read at, and on approvals   *)
(* of which the same is true.  What was read at a version stays true of    *)
(* that version, because grants never change once issued and a revocation  *)
(* is recorded above every version read before it.                         *)
(***************************************************************************)
EXTENDS AuthorizationPolicy, TLAPS

-----------------------------------------------------------------------------
(* The types of what an operation holds.                                   *)

Ids == ({"call"} \X RequestIds)
         \cup ({"append"} \X Nat \X Desks \X Nat)
         \cup ({"finish"} \X Nat \X Nat)

Requests == [id : Ids, by : Principals, action : Actions,
             approval : SUBSET Nat, accepted : SUBSET Nat]

Decisions == [request : Requests, version : Nat, at : Nat,
              kind : {"allow", "deny"}, grant : Optional(GrantIds), until : Nat]

Claims == [by : Principals, decision : Nat, asked : Nat, done : BOOLEAN, desk : Desks]

TypeInv ==
    /\ separated \in BOOLEAN /\ clock \in 0..MaxTime /\ version \in Nat
    /\ grant \in [GrantIds -> Optional(Grants)]
    /\ revokedAt \in [GrantIds -> 0..version]
    /\ decisions \subseteq Decisions
    /\ claims \subseteq Claims
    /\ desk = [p \in Desks |-> desk[p]]

-----------------------------------------------------------------------------
(* A grant is narrower than the one it was delegated from, and its chain   *)
(* begins with the owner.                                                  *)
Narrower(g, h) ==
    /\ h \in Issued /\ Grant(h).to = Grant(g).by
    /\ Grant(g).actions \subseteq Grant(h).actions
    /\ Contains(Grant(h).until, Grant(g).until)
    /\ Grant(h).depth > Grant(g).depth

GrantsOK ==
    \A g \in Issued :
      /\ \A h \in Grant(g).parent : Narrower(g, h)
      /\ \E first \in Chain(g) : Grant(first).parent = {} /\ Grant(first).by = Owner

(* Nothing of the chain was revoked at version v or before.                *)
StoodAt(g, v) == \A h \in Chain(g) : revokedAt[h] # 0 => revokedAt[h] > v

Backed(d, v) ==
    \A g \in d.grant :
      /\ g \in Issued /\ StoodAt(g, v)
      /\ \A h \in Chain(g) : d.request.action \in Grant(h).actions

IsApproval(e, d, v) ==
    /\ e.kind = "allow" /\ e.request.by # d.request.by
    /\ \A g \in e.grant : StoodAt(g, v)

Approved(d, v) ==
    separated /\ d.kind = "allow" /\ d.request.action = "run" /\ d.request.accepted = {} =>
      \E w \in d.request.approval : \E e \in Recorded(w) : IsApproval(e, d, v)

(* What a decision read at version v and recorded next is worth.           *)
Stands(d, v) ==
    /\ d.version = v + 1 /\ d.until > d.at
    /\ Backed(d, v) /\ Approved(d, v)

(* The id of a request to append digests the version it was made at.       *)
AskedAt(request, v) == request.id[1] = "append" => request.id[4] = v
RecordedLater(d) == d.request.id[1] = "append" => d.version > d.request.id[4]

DecisionOK(d) ==
    /\ d.version \in 1..version /\ d.until > d.at
    /\ Backed(d, d.version) /\ Approved(d, d.version) /\ RecordedLater(d)

DecisionsOK ==
    /\ \A d \in decisions : DecisionOK(d)
    /\ \A d, e \in decisions : d.version = e.version => d = e
    /\ OneDecisionPerRequest

DeskOK(v) ==
    /\ v.pc \in {"idle", "decide", "append", "answered", "working", "claimed"}
    /\ v.pc \in {"decide", "append", "answered"} =>
         v.request \in Requests /\ v.asked \in 0..version /\ AskedAt(v.request, v.asked)
    /\ v.pc = "append" =>
         /\ v.loaded \in v.asked..version
         /\ v.decision \in Decisions /\ v.decision.request = v.request
         /\ Stands(v.decision, v.loaded)
         /\ \A d \in decisions : d.request.id = v.request.id => d.version > v.loaded
    /\ v.pc \in {"answered", "working", "claimed"} => v.decision \in decisions
    /\ v.pc = "answered" => v.decision.request = v.request

DesksOK == \A p \in Desks : DeskOK(desk[p])

ClaimOK(c) ==
    /\ c.asked \in 0..version
    /\ \E d \in decisions :
         /\ d.version = c.decision
         /\ d.request.action = "run" => d.version > c.asked

ClaimsOK == \A c \in claims : ClaimOK(c)

(* The inductive invariant.                                                *)
IInv == TypeInv /\ GrantsOK /\ DecisionsOK /\ DesksOK /\ ClaimsOK

-----------------------------------------------------------------------------
(* Chains, of whatever grants G there are.                                 *)
ChainIn(G, g) ==
    { h \in GrantIds :
        \A S \in SUBSET GrantIds :
          g \in S /\ (\A k \in S : \A x \in G[k] : x.parent \subseteq S) => h \in S }

(* The chain of a grant is the chain in the grants there are.              *)
LEMMA ChainHere ==
    ASSUME NEW g
    PROVE  Chain(g) = ChainIn(grant, g) /\ Chain(g)' = ChainIn(grant', g)
  BY DEF Chain, ChainIn, HoldsParents

(* A grant is of its own chain.                                            *)
LEMMA ChainSelf ==
    ASSUME NEW G, NEW g \in GrantIds
    PROVE  g \in ChainIn(G, g)
  BY DEF ChainIn

(* A chain holds the parents of its members.                               *)
LEMMA ChainUp ==
    ASSUME NEW G \in [GrantIds -> SUBSET Grants], NEW g, NEW h \in ChainIn(G, g),
           NEW x \in G[h]
    PROVE  x.parent \subseteq ChainIn(G, g)
  <1>1. x.parent \subseteq GrantIds
    BY DEF ChainIn, Grants, Optional
  <1>2. SUFFICES ASSUME NEW k \in x.parent, NEW S \in SUBSET GrantIds, g \in S,
                        \A m \in S : \A z \in G[m] : z.parent \subseteq S
                 PROVE  k \in S
    BY <1>1 DEF ChainIn
  <1>3. h \in S
    BY <1>2 DEF ChainIn
  <1> QED BY <1>2, <1>3

(* A chain is within every set that holds the grant and the parents of     *)
(* its members: the induction along a chain.                               *)
LEMMA ChainLeast ==
    ASSUME NEW G, NEW g, NEW S \in SUBSET GrantIds, g \in S,
           \A k \in S : \A x \in G[k] : x.parent \subseteq S
    PROVE  ChainIn(G, g) \subseteq S
  BY DEF ChainIn

(* The rest of a chain is the chain of the parent.                         *)
LEMMA ChainOfParent ==
    ASSUME NEW G \in [GrantIds -> SUBSET Grants], NEW g \in GrantIds, NEW x, G[g] = {x},
           NEW h \in ChainIn(G, g), h # g
    PROVE  \E k \in x.parent : h \in ChainIn(G, k)
  <1> DEFINE S == {g} \cup UNION { ChainIn(G, k) : k \in x.parent }
  <1>1. x.parent \subseteq GrantIds
    BY DEF Grants, Optional
  <1>2. S \in SUBSET GrantIds
    BY DEF ChainIn
  <1>3. ASSUME NEW m \in S, NEW z \in G[m] PROVE z.parent \subseteq S
    <2>1. CASE m = g
      <3>1. z = x
        BY <1>3, <2>1
      <3> QED BY <3>1, <1>1, ChainSelf
    <2>2. CASE \E k \in x.parent : m \in ChainIn(G, k)
      BY <1>3, <2>2, ChainUp
    <2> QED BY <2>1, <2>2
  <1>4. g \in S
    OBVIOUS
  <1> HIDE DEF S
  <1>5. ChainIn(G, g) \subseteq S
    BY <1>2, <1>3, <1>4, ChainLeast
  <1>6. h \in S
    BY <1>5
  <1> QED BY <1>6 DEF S

(* The chain of a parent is part of the chain.                             *)
LEMMA ChainGoesOn ==
    ASSUME NEW G \in [GrantIds -> SUBSET Grants], NEW g \in GrantIds, NEW x \in G[g],
           NEW k \in x.parent
    PROVE  ChainIn(G, k) \subseteq ChainIn(G, g)
  <1>1. k \in ChainIn(G, g)
    BY ChainSelf, ChainUp
  <1>2. \A m \in ChainIn(G, g) : \A z \in G[m] : z.parent \subseteq ChainIn(G, g)
    BY ChainUp
  <1>3. ChainIn(G, g) \in SUBSET GrantIds
    BY DEF ChainIn
  <1> QED BY <1>1, <1>2, <1>3, ChainLeast

(* Two sets of grants that agree on a closed set of grants have the same   *)
(* chains there.                                                           *)
LEMMA ChainAgrees ==
    ASSUME NEW G \in [GrantIds -> SUBSET Grants], NEW H \in [GrantIds -> SUBSET Grants],
           NEW S \in SUBSET GrantIds, \A k \in S : H[k] = G[k],
           \A k \in S : \A x \in G[k] : x.parent \subseteq S,
           NEW g \in S
    PROVE  ChainIn(G, g) = ChainIn(H, g) /\ ChainIn(G, g) \subseteq S
  <1>1. ChainIn(G, g) \subseteq S /\ ChainIn(H, g) \subseteq S
    BY ChainLeast
  <1>2. ChainIn(H, g) \subseteq ChainIn(G, g)
    <2>1. \A m \in ChainIn(G, g) : \A z \in H[m] : z.parent \subseteq ChainIn(G, g)
      BY <1>1, ChainUp
    <2>2. ChainIn(G, g) \in SUBSET GrantIds /\ g \in ChainIn(G, g)
      BY ChainSelf DEF ChainIn
    <2> QED BY <2>1, <2>2, ChainLeast
  <1>3. ChainIn(G, g) \subseteq ChainIn(H, g)
    <2>1. \A m \in ChainIn(H, g) : \A z \in G[m] : z.parent \subseteq ChainIn(H, g)
      BY <1>1, ChainUp
    <2>2. ChainIn(H, g) \in SUBSET GrantIds /\ g \in ChainIn(H, g)
      BY ChainSelf DEF ChainIn
    <2> QED BY <2>1, <2>2, ChainLeast
  <1> QED BY <1>1, <1>2, <1>3

-----------------------------------------------------------------------------
(* What the steps of a policy have in common: nothing recorded is changed, *)
(* and what is recorded is recorded above the version that was.            *)
Grows ==
    /\ UNCHANGED separated
    /\ version' \in Nat /\ version <= version'
    /\ grant' \in [GrantIds -> Optional(Grants)]
    /\ \A g \in Issued : grant'[g] = grant[g]
    /\ \A h \in GrantIds : revokedAt'[h] = revokedAt[h] \/ revokedAt'[h] > version
    /\ revokedAt' \in [GrantIds -> 0..version']
    /\ decisions \subseteq decisions' /\ decisions' \subseteq Decisions
    /\ \A d \in decisions' : d \in decisions \/ d.version > version

(* An issued grant is a grant, and the only one with its id.               *)
LEMMA GrantIs ==
    ASSUME TypeInv, NEW g \in Issued
    PROVE  g \in GrantIds /\ Grant(g) \in Grants /\ grant[g] = {Grant(g)}
  <1>1. g \in GrantIds /\ grant[g] # {} /\ grant[g] \in Optional(Grants)
    BY DEF Issued, TypeInv
  <1>2. PICK x \in Grants : grant[g] = {x}
    BY <1>1 DEF Optional
  <1>3. Grant(g) = x
    BY <1>2 DEF Grant
  <1> QED BY <1>1, <1>2, <1>3

(* The grants there are, as a function to sets of grants.                  *)
LEMMA OptionalGrants ==
    ASSUME NEW G \in [GrantIds -> Optional(Grants)]
    PROVE  G \in [GrantIds -> SUBSET Grants]
  BY DEF Optional

(* Parents are issued.                                                     *)
LEMMA IssuedIsClosed ==
    ASSUME TypeInv, GrantsOK, NEW g \in Issued, NEW x \in grant[g]
    PROVE  x.parent \subseteq Issued
  <1>1. x = Grant(g)
    BY GrantIs
  <1> QED BY <1>1 DEF GrantsOK, Narrower

(* The chain of an issued grant is made of issued grants.                  *)
LEMMA ChainIsIssued ==
    ASSUME TypeInv, GrantsOK, NEW g \in Issued
    PROVE  Chain(g) \subseteq Issued /\ g \in Chain(g)
  <1>1. Issued \in SUBSET GrantIds
    BY DEF Issued
  <1>2. ChainIn(grant, g) \subseteq Issued
    BY <1>1, IssuedIsClosed, ChainLeast
  <1>3. g \in ChainIn(grant, g)
    BY <1>1, ChainSelf
  <1> QED BY <1>2, <1>3, ChainHere

(* An issued grant and its chain stay as they are.                         *)
LEMMA GrantKept ==
    ASSUME TypeInv, GrantsOK, Grows, NEW g \in Issued
    PROVE  g \in Issued' /\ Grant(g)' = Grant(g) /\ Chain(g)' = Chain(g)
  <1>1. g \in GrantIds /\ grant'[g] = grant[g] /\ grant[g] # {}
    BY DEF Grows, Issued
  <1>2. g \in Issued' /\ Grant(g)' = Grant(g)
    BY <1>1 DEF Issued, Grant
  <1>3. grant \in [GrantIds -> SUBSET Grants] /\ grant' \in [GrantIds -> SUBSET Grants]
    BY OptionalGrants DEF TypeInv, Grows
  <1>4. Issued \in SUBSET GrantIds /\ \A k \in Issued : grant'[k] = grant[k]
    BY DEF Issued, Grows
  <1>5. \A k \in Issued : \A x \in grant[k] : x.parent \subseteq Issued
    BY IssuedIsClosed
  <1>6. ChainIn(grant, g) = ChainIn(grant', g)
    BY <1>3, <1>4, <1>5, ChainAgrees
  <1> QED BY <1>2, <1>6, ChainHere

(* What stood at a version stood at it ever after.                         *)
LEMMA StoodKept ==
    ASSUME TypeInv, GrantsOK, Grows, NEW g \in Issued, NEW v \in 0..version, StoodAt(g, v)
    PROVE  StoodAt(g, v)'
  <1>1. Chain(g)' = Chain(g) /\ Chain(g) \subseteq GrantIds
    BY GrantKept DEF Chain
  <1>2. SUFFICES ASSUME NEW h \in Chain(g), revokedAt'[h] # 0
                 PROVE  revokedAt'[h] > v
    BY <1>1 DEF StoodAt
  <1>3. h \in GrantIds /\ version \in Nat
    BY <1>1 DEF TypeInv
  <1>4. revokedAt[h] \in Nat /\ revokedAt'[h] \in Nat
    BY <1>3 DEF TypeInv, Grows
  <1>5. CASE revokedAt'[h] = revokedAt[h]
    BY <1>2, <1>5 DEF StoodAt
  <1>6. CASE revokedAt'[h] > version
    BY <1>3, <1>4, <1>6
  <1> QED BY <1>3, <1>5, <1>6 DEF Grows

(* What backed a decision at a version did so ever after.                  *)
LEMMA BackedKept ==
    ASSUME TypeInv, GrantsOK, Grows, NEW d, NEW v \in 0..version, Backed(d, v)
    PROVE  Backed(d, v)'
  <1>1. SUFFICES ASSUME NEW g \in d.grant
                 PROVE  /\ g \in Issued' /\ StoodAt(g, v)'
                        /\ \A h \in Chain(g)' : d.request.action \in Grant(h).actions'
    BY DEF Backed
  <1>2. g \in Issued /\ StoodAt(g, v)
    BY DEF Backed
  <1>3. g \in Issued' /\ StoodAt(g, v)' /\ Chain(g)' = Chain(g)
    BY <1>2, GrantKept, StoodKept
  <1>4. ASSUME NEW h \in Chain(g) PROVE d.request.action \in Grant(h).actions'
    <2>1. h \in Issued
      BY <1>2, ChainIsIssued
    <2>2. Grant(h)' = Grant(h)
      BY <2>1, GrantKept
    <2> QED BY <2>2 DEF Backed
  <1> QED BY <1>3, <1>4

(* What approved a decision at a version did so ever after.                *)
LEMMA ApprovedKept ==
    ASSUME TypeInv, GrantsOK, DecisionsOK, Grows, NEW d, NEW v \in 0..version, Approved(d, v)
    PROVE  Approved(d, v)'
  <1>1. SUFFICES ASSUME separated', d.kind = "allow", d.request.action = "run",
                        d.request.accepted = {}
                 PROVE  \E w \in d.request.approval : \E e \in Recorded(w)' : IsApproval(e, d, v)'
    BY DEF Approved
  <1>2. PICK w \in d.request.approval : \E e \in Recorded(w) : IsApproval(e, d, v)
    BY <1>1 DEF Approved, Grows
  <1>3. PICK e \in Recorded(w) : IsApproval(e, d, v)
    BY <1>2
  <1>4. e \in Recorded(w)' /\ e \in decisions
    BY DEF Recorded, Grows
  <1>5. \A g \in e.grant : g \in Issued
    BY <1>4 DEF DecisionsOK, DecisionOK, Backed
  <1>6. \A g \in e.grant : StoodAt(g, v)'
    BY <1>3, <1>5, StoodKept DEF IsApproval
  <1>7. IsApproval(e, d, v)'
    BY <1>3, <1>6 DEF IsApproval
  <1> QED BY <1>4, <1>7

(* What is recorded keeps its word.                                        *)
LEMMA DecisionKept ==
    ASSUME TypeInv, GrantsOK, DecisionsOK, Grows, NEW d \in decisions
    PROVE  DecisionOK(d)'
  <1>1. DecisionOK(d)
    BY DEF DecisionsOK
  <1>2. PICK v : v = d.version
    OBVIOUS
  <1>3. v \in 1..version /\ version \in Nat /\ version' \in Nat /\ version <= version'
    BY <1>1, <1>2 DEF DecisionOK, TypeInv, Grows
  <1>4. v \in 0..version /\ v \in 1..version'
    BY <1>3
  <1>5. Backed(d, v)' /\ Approved(d, v)'
    BY <1>1, <1>2, <1>4, BackedKept, ApprovedKept DEF DecisionOK
  <1> QED BY <1>1, <1>2, <1>4, <1>5 DEF DecisionOK, RecordedLater

(* What an operation holds keeps its word.                                 *)
LEMMA DeskKept ==
    ASSUME TypeInv, GrantsOK, DecisionsOK, Grows, NEW w, DeskOK(w)
    PROVE  DeskOK(w)'
  <1>1. version \in Nat /\ version' \in Nat /\ version <= version' /\ decisions \subseteq decisions'
    BY DEF TypeInv, Grows
  <1>2. w.pc \in {"decide", "append", "answered"} =>
          w.request \in Requests /\ w.asked \in 0..version' /\ AskedAt(w.request, w.asked)
    BY <1>1 DEF DeskOK
  <1>3. ASSUME w.pc = "append"
        PROVE  /\ w.loaded \in w.asked..version'
               /\ Stands(w.decision, w.loaded)'
               /\ \A d \in decisions' : d.request.id = w.request.id => d.version > w.loaded
    <2>1. PICK d, v : d = w.decision /\ v = w.loaded
      OBVIOUS
    <2>2. v \in w.asked..version /\ w.asked \in 0..version /\ Stands(d, v)
      BY <1>3, <2>1 DEF DeskOK
    <2>3. v \in 0..version /\ v \in w.asked..version'
      BY <1>1, <2>2
    <2>4. Backed(d, v)' /\ Approved(d, v)'
      BY <2>2, <2>3, BackedKept, ApprovedKept DEF Stands
    <2>5. Stands(d, v)'
      BY <2>2, <2>4 DEF Stands
    <2>6. ASSUME NEW e \in decisions', e.request.id = w.request.id PROVE e.version > v
      <3>1. CASE e \in decisions
        BY <1>3, <2>1, <2>6, <3>1 DEF DeskOK
      <3>2. CASE e.version > version
        <4>1. e.version \in Nat
          BY DEF Grows, Decisions
        <4> QED BY <1>1, <2>3, <3>2, <4>1
      <3> QED BY <3>1, <3>2 DEF Grows
    <2> QED BY <2>1, <2>3, <2>5, <2>6
  <1> QED BY <1>1, <1>2, <1>3 DEF DeskOK, AskedAt

(* What a claim was sealed under stays recorded.                           *)
LEMMA ClaimKept ==
    ASSUME TypeInv, Grows, NEW c, ClaimOK(c)
    PROVE  ClaimOK(c)'
  <1>1. version \in Nat /\ version' \in Nat /\ version <= version' /\ decisions \subseteq decisions'
    BY DEF TypeInv, Grows
  <1> QED BY <1>1 DEF ClaimOK

-----------------------------------------------------------------------------
(* The steps that record nothing in the policy's stream.                   *)
Quiet ==
    /\ UNCHANGED <<version, policy, decisions>>
    /\ clock' \in 0..MaxTime

(* Recording nothing undoes nothing.                                       *)
LEMMA QuietGrows ==
    ASSUME TypeInv, Quiet
    PROVE  Grows
  <1>1. /\ separated' = separated /\ version' = version /\ grant' = grant
        /\ revokedAt' = revokedAt /\ decisions' = decisions
    BY DEF Quiet, policy
  <1> QED BY <1>1 DEF Grows, TypeInv

(* A step that records nothing keeps the invariant when what the           *)
(* operations hold and what was claimed are in order after it.             *)
LEMMA QuietKeeps ==
    ASSUME IInv, Quiet, desk' = [p \in Desks |-> desk'[p]],
           \A p \in Desks : DeskOK(desk'[p]),
           claims' \subseteq Claims, \A c \in claims' : ClaimOK(c)
    PROVE  IInv'
  <1>1. /\ separated' = separated /\ version' = version /\ grant' = grant
        /\ revokedAt' = revokedAt /\ decisions' = decisions /\ clock' \in 0..MaxTime
    BY DEF Quiet, policy
  <1>2. TypeInv /\ GrantsOK /\ DecisionsOK /\ Grows
    BY QuietGrows DEF IInv
  <1>3. TypeInv'
    BY <1>1, <1>2 DEF TypeInv
  <1>4. Issued' = Issued /\ (\A g : Grant(g)' = Grant(g) /\ Chain(g)' = Chain(g))
    BY <1>1 DEF Issued, Grant, Chain, HoldsParents
  <1>5. GrantsOK'
    BY <1>2, <1>4 DEF GrantsOK, Narrower
  <1>6. DecisionsOK'
    BY <1>1, <1>2, DecisionKept DEF DecisionsOK, OneDecisionPerRequest
  <1>7. DesksOK'
    BY <1>2, DeskKept DEF DesksOK
  <1>8. ClaimsOK'
    BY <1>2, ClaimKept DEF ClaimsOK
  <1> QED BY <1>3, <1>5, <1>6, <1>7, <1>8 DEF IInv

(* The same, for a step of one operation.                                  *)
LEMMA DeskKeeps ==
    ASSUME IInv, Quiet, NEW p \in Desks, NEW w, desk' = [desk EXCEPT ![p] = w], DeskOK(w),
           claims' \subseteq Claims, \A c \in claims' : ClaimOK(c)
    PROVE  IInv'
  <1>1. desk = [q \in Desks |-> desk[q]] /\ \A q \in Desks : DeskOK(desk[q])
    BY DEF IInv, TypeInv, DesksOK
  <1>2. desk' = [q \in Desks |-> desk'[q]]
    BY <1>1
  <1>3. \A q \in Desks : desk'[q] = IF q = p THEN w ELSE desk[q]
    BY <1>1
  <1>4. \A q \in Desks : DeskOK(desk'[q])
    BY <1>1, <1>3
  <1> QED BY <1>2, <1>4, QuietKeeps

(* The same, for a step of one operation that claims nothing.              *)
LEMMA DeskAlone ==
    ASSUME IInv, UNCHANGED <<clock, version, policy, decisions, claims>>,
           NEW p \in Desks, NEW w, desk' = [desk EXCEPT ![p] = w], DeskOK(w)
    PROVE  IInv'
  <1>1. Quiet
    BY DEF Quiet, IInv, TypeInv
  <1>2. claims' \subseteq Claims /\ \A c \in claims' : ClaimOK(c)
    BY DEF IInv, TypeInv, ClaimsOK
  <1> QED BY <1>1, <1>2, DeskKeeps

-----------------------------------------------------------------------------
(* Time, and the grants.                                                   *)

(* Time passes.                                                            *)
LEMMA TickKeeps ==
    ASSUME IInv, Tick
    PROVE  IInv'
  <1>1. Quiet
    BY PolicyAssumption DEF Tick, Quiet, IInv, TypeInv
  <1>2. desk' = desk /\ claims' = claims
    BY DEF Tick
  <1>3. desk' = [p \in Desks |-> desk'[p]] /\ \A p \in Desks : DeskOK(desk'[p])
    BY <1>2 DEF IInv, TypeInv, DesksOK
  <1>4. claims' \subseteq Claims /\ \A c \in claims' : ClaimOK(c)
    BY <1>2 DEF IInv, TypeInv, ClaimsOK
  <1> QED BY <1>1, <1>3, <1>4, QuietKeeps

(* A step of the owner, or of an issuer, keeps the invariant when it       *)
(* leaves decisions, operations and claims alone.                          *)
LEMMA GrantStepKeeps ==
    ASSUME IInv, Grows, GrantsOK', UNCHANGED <<clock, decisions, desk, claims>>
    PROVE  IInv'
  <1>1. TypeInv /\ GrantsOK /\ DecisionsOK
    BY DEF IInv
  <1>2. TypeInv'
    BY <1>1 DEF TypeInv, Grows
  <1>3. DecisionsOK'
    BY <1>1, DecisionKept DEF DecisionsOK, OneDecisionPerRequest
  <1>4. DesksOK'
    BY <1>1, DeskKept DEF DesksOK, IInv
  <1>5. ClaimsOK'
    BY <1>1, ClaimKept DEF ClaimsOK, IInv
  <1> QED BY <1>2, <1>3, <1>4, <1>5 DEF IInv

(* A revocation is recorded above every version read before it.            *)
LEMMA RevokeKeeps ==
    ASSUME IInv, NEW g \in GrantIds, Revoke(g)
    PROVE  IInv'
  <1>1. /\ TypeInv /\ version \in Nat /\ version' = version + 1
        /\ revokedAt' = [revokedAt EXCEPT ![g] = version + 1]
        /\ grant' = grant /\ separated' = separated
    BY DEF IInv, TypeInv, Revoke
  <1>2. UNCHANGED <<clock, decisions, desk, claims>>
    BY DEF Revoke
  <1>3. revokedAt' \in [GrantIds -> 0..version']
    BY <1>1 DEF TypeInv
  <1>4. \A h \in GrantIds : revokedAt'[h] = revokedAt[h] \/ revokedAt'[h] > version
    BY <1>1 DEF TypeInv
  <1>5. Grows
    BY <1>1, <1>2, <1>3, <1>4 DEF Grows, TypeInv
  <1>6. Issued' = Issued /\ (\A h : Grant(h)' = Grant(h) /\ Chain(h)' = Chain(h))
    BY <1>1 DEF Issued, Grant, Chain, HoldsParents
  <1>7. GrantsOK'
    BY <1>6 DEF GrantsOK, Narrower, IInv
  <1> QED BY <1>2, <1>5, <1>7, GrantStepKeeps

(* Issuing a grant keeps the grants in order: it is narrower than its      *)
(* parent, whose chain its own continues.                                  *)
LEMMA IssueKeeps ==
    ASSUME IInv, NEW g \in GrantIds, NEW x \in Issuable, Issue(g, x)
    PROVE  IInv'
  <1>1. /\ TypeInv /\ GrantsOK /\ version \in Nat /\ version' = version + 1
        /\ grant[g] = {} /\ grant' = [grant EXCEPT ![g] = {x}]
        /\ revokedAt' = revokedAt /\ separated' = separated
    BY DEF IInv, TypeInv, Issue
  <1>2. UNCHANGED <<clock, decisions, desk, claims>>
    BY DEF Issue
  <1>3. x \in Grants
    BY PolicyAssumption
  <1>4. grant' \in [GrantIds -> Optional(Grants)]
    BY <1>1, <1>3 DEF TypeInv, Optional
  <1>5. grant'[g] = {x} /\ \A h \in GrantIds \ {g} : grant'[h] = grant[h]
    BY <1>1 DEF TypeInv
  <1>6. g \notin Issued /\ Issued \subseteq GrantIds
    BY <1>1 DEF Issued
  <1>7. revokedAt' \in [GrantIds -> 0..version']
    BY <1>1 DEF TypeInv
  <1>8. Grows
    BY <1>1, <1>2, <1>4, <1>5, <1>6, <1>7 DEF Grows, TypeInv
  <1>9. Issued' = Issued \cup {g} /\ Grant(g)' = x
    BY <1>5, <1>6 DEF Issued, Grant
  <1>10. ASSUME NEW h \in Issued
         PROVE  /\ \A k \in Grant(h).parent' : Narrower(h, k)'
                /\ \E first \in Chain(h)' : Grant(first).parent' = {} /\ Grant(first).by' = Owner
    <2>1. Grant(h)' = Grant(h) /\ Chain(h)' = Chain(h)
      BY <1>1, <1>8, GrantKept
    <2>2. ASSUME NEW k \in Grant(h).parent PROVE Narrower(h, k)'
      <3>1. Narrower(h, k)
        BY <1>1 DEF GrantsOK
      <3>2. k \in Issued' /\ Grant(k)' = Grant(k)
        BY <3>1, <1>1, <1>8, GrantKept DEF Narrower
      <3> QED BY <3>1, <3>2, <2>1 DEF Narrower
    <2>3. PICK first \in Chain(h) : Grant(first).parent = {} /\ Grant(first).by = Owner
      BY <1>1 DEF GrantsOK
    <2>4. first \in Issued
      BY <1>1, ChainIsIssued
    <2>5. Grant(first)' = Grant(first)
      BY <1>1, <1>8, <2>4, GrantKept
    <2> QED BY <2>1, <2>2, <2>3, <2>5
  <1>11. /\ \A k \in Grant(g).parent' : Narrower(g, k)'
         /\ \E first \in Chain(g)' : Grant(first).parent' = {} /\ Grant(first).by' = Owner
    <2>1. CASE x.by = Owner
      <3>1. x.parent = {}
        BY <2>1 DEF Issue
      <3>2. g \in Chain(g)'
        BY ChainHere, ChainSelf
      <3> QED BY <1>9, <2>1, <3>1, <3>2
    <2>2. CASE MayDelegate(x)
      <3>1. PICK k \in x.parent : /\ k \in Issued /\ Grant(k).to = x.by
                                  /\ x.actions \subseteq Grant(k).actions
                                  /\ Contains(Grant(k).until, x.until)
                                  /\ Grant(k).depth > x.depth
        BY <2>2 DEF MayDelegate
      <3>2. x.parent = {k}
        BY <1>3, <3>1 DEF Grants, Optional
      <3>3. k \in Issued' /\ Grant(k)' = Grant(k) /\ Chain(k)' = Chain(k)
        BY <1>1, <1>8, <3>1, GrantKept
      <3>4. Narrower(g, k)'
        BY <1>9, <3>1, <3>3 DEF Narrower
      <3>5. PICK first \in Chain(k) : Grant(first).parent = {} /\ Grant(first).by = Owner
        BY <1>1, <3>1 DEF GrantsOK
      <3>6. first \in Issued
        BY <1>1, <3>1, ChainIsIssued
      <3>7. Grant(first)' = Grant(first)
        BY <1>1, <1>8, <3>6, GrantKept
      <3>8. grant' \in [GrantIds -> SUBSET Grants]
        BY <1>4, OptionalGrants
      <3>9. first \in ChainIn(grant', k)
        BY <3>3, ChainHere
      <3>10. ChainIn(grant', k) \subseteq ChainIn(grant', g)
        BY <1>5, <3>1, <3>8, ChainGoesOn
      <3>11. first \in Chain(g)'
        BY <3>9, <3>10, ChainHere
      <3> QED BY <1>9, <3>2, <3>4, <3>5, <3>7, <3>11
    <2> QED BY <2>1, <2>2 DEF Issue
  <1>12. GrantsOK'
    BY <1>9, <1>10, <1>11 DEF GrantsOK
  <1> QED BY <1>2, <1>8, <1>12, GrantStepKeeps

-----------------------------------------------------------------------------
(* Deciding.                                                               *)

(* Validity that lies within another's, which lies within a third's, lies  *)
(* within the third's.                                                     *)
LEMMA ContainsChains ==
    ASSUME NEW A \in Optional(1..MaxTime), NEW B \in Optional(1..MaxTime),
           NEW C \in Optional(1..MaxTime), Contains(A, B), Contains(B, C)
    PROVE  Contains(A, C)
  <1>1. CASE A = {}
    BY <1>1 DEF Contains
  <1>2. CASE A # {}
    <2>1. B # {} /\ C # {}
      BY <1>2 DEF Contains
    <2>2. PICK s \in 1..MaxTime, t \in 1..MaxTime, u \in 1..MaxTime :
            A = {s} /\ B = {t} /\ C = {u}
      BY <1>2, <2>1 DEF Optional
    <2>3. t <= s /\ u <= t
      BY <2>2 DEF Contains
    <2>4. u <= s
      BY <2>2, <2>3, PolicyAssumption
    <2> QED BY <2>1, <2>2, <2>4 DEF Contains
  <1> QED BY <1>1, <1>2

(* Along its chain a grant only narrows.                                   *)
LEMMA NarrowsAlong ==
    ASSUME TypeInv, GrantsOK, NEW g \in Issued, NEW h \in Chain(g)
    PROVE  /\ Grant(g).actions \subseteq Grant(h).actions
           /\ Contains(Grant(h).until, Grant(g).until)
           /\ h # g => Grant(h).depth > Grant(g).depth
  <1> DEFINE S == { k \in Issued : /\ Grant(g).actions \subseteq Grant(k).actions
                                   /\ Contains(Grant(k).until, Grant(g).until)
                                   /\ k # g => Grant(k).depth > Grant(g).depth }
  <1>1. Grant(g) \in Grants
    BY GrantIs
  <1>2. Contains(Grant(g).until, Grant(g).until)
    <2>1. Grant(g).until \in Optional(1..MaxTime)
      BY <1>1 DEF Grants
    <2>2. CASE Grant(g).until = {}
      BY <2>2 DEF Contains
    <2>3. CASE Grant(g).until # {}
      <3>1. PICK t \in 1..MaxTime : Grant(g).until = {t}
        BY <2>1, <2>3 DEF Optional
      <3>2. t <= t
        BY PolicyAssumption
      <3> QED BY <3>1, <3>2 DEF Contains
    <2> QED BY <2>2, <2>3
  <1>3. g \in S
    BY <1>2
  <1>4. S \in SUBSET GrantIds
    BY DEF Issued
  <1>5. ASSUME NEW k \in S, NEW x \in grant[k] PROVE x.parent \subseteq S
    <2>1. x = Grant(k) /\ x \in Grants
      BY GrantIs
    <2>2. SUFFICES ASSUME NEW m \in x.parent PROVE m \in S
      OBVIOUS
    <2>3. Narrower(k, m)
      BY <2>1 DEF GrantsOK
    <2>4. m \in Issued /\ Grant(m) \in Grants
      BY <2>3, GrantIs DEF Narrower
    <2>5. Grant(g).actions \subseteq Grant(m).actions
      BY <2>3 DEF Narrower
    <2>6. Contains(Grant(m).until, Grant(g).until)
      <3>1. /\ Grant(m).until \in Optional(1..MaxTime)
            /\ Grant(k).until \in Optional(1..MaxTime)
            /\ Grant(g).until \in Optional(1..MaxTime)
        BY <1>1, <2>1, <2>4 DEF Grants
      <3>2. Contains(Grant(m).until, Grant(k).until) /\ Contains(Grant(k).until, Grant(g).until)
        BY <2>3 DEF Narrower
      <3> QED BY <3>1, <3>2, ContainsChains
    <2>7. Grant(m).depth > Grant(g).depth
      <3>1. Grant(m).depth \in Nat /\ Grant(k).depth \in Nat /\ Grant(g).depth \in Nat
        BY <1>1, <2>1, <2>4 DEF Grants
      <3>2. Grant(m).depth > Grant(k).depth
        BY <2>3 DEF Narrower
      <3>3. Grant(k).depth >= Grant(g).depth
        BY <3>1
      <3> QED BY <3>1, <3>2, <3>3
    <2> QED BY <2>4, <2>5, <2>6, <2>7
  <1> HIDE DEF S
  <1>6. ChainIn(grant, g) \subseteq S
    BY <1>3, <1>4, <1>5, ChainLeast
  <1>7. h \in S
    BY <1>6, ChainHere
  <1> QED BY <1>7 DEF S

(* A live chain stood at the version the stream is at.                     *)
LEMMA LiveStands ==
    ASSUME NEW g, GrantChainIsLive(g, clock)
    PROVE  StoodAt(g, version)
  BY DEF GrantChainIsLive, StoodAt

(* A decision is acted on until later than it is taken.                    *)
LEMMA MinOfIsLater ==
    ASSUME NEW now \in Nat, NEW t \in Nat, t > now, NEW until \in Optional(1..MaxTime),
           \A u \in until : now < u
    PROVE  MinOf(t, until) \in Nat /\ MinOf(t, until) > now
  <1>1. CASE \E u \in until : u < t
    <2>1. PICK u \in 1..MaxTime : until = {u}
      BY <1>1 DEF Optional
    <2>2. MinOf(t, until) = u
      BY <1>1, <2>1 DEF MinOf
    <2>3. u \in Nat /\ now < u
      BY <2>1, PolicyAssumption
    <2> QED BY <2>2, <2>3
  <1>2. CASE ~ \E u \in until : u < t
    BY <1>2 DEF MinOf
  <1> QED BY <1>1, <1>2

(* A verdict is a decision on the request, recorded next.                  *)
LEMMA VerdictIs ==
    ASSUME TypeInv, NEW request \in Requests, NEW kind \in {"allow", "deny"},
           NEW gs \in Optional(GrantIds), NEW until \in Nat,
           NEW d, d = Verdict(request, kind, gs, until)
    PROVE  /\ d \in Decisions /\ d.request = request /\ d.version = version + 1
           /\ d.at = clock /\ d.kind = kind /\ d.grant = gs /\ d.until = until
  BY PolicyAssumption DEF Verdict, NextVersion, Decisions, TypeInv

(* The grants a decision may rest on: none, or one that matches.           *)
Eligible(request) ==
    IF Matching(request) = {} THEN {{}} ELSE { {h} : h \in Matching(request) }

(* What is decided stands at the version it is decided on.                 *)
LEMMA DecisionStands ==
    ASSUME IInv, NEW request \in Requests, NEW gs \in Eligible(request),
           NEW d, d = Decision(request, gs)
    PROVE  d \in Decisions /\ d.request = request /\ Stands(d, version)
  <1>1. TypeInv /\ GrantsOK /\ version \in Nat /\ clock \in Nat
    BY PolicyAssumption DEF IInv, TypeInv
  <1>2. clock + Ttl \in Nat /\ clock + Ttl > clock
    BY <1>1, PolicyAssumption
  <1>3. {} \in Optional(GrantIds)
    BY DEF Optional
  <1>4. CASE request.accepted # {}
    <2>1. d = Verdict(request, "allow", {}, clock + Ttl)
      BY <1>4 DEF Decision, DecideAcceptedWork
    <2>2. /\ d \in Decisions /\ d.request = request /\ d.version = version + 1
          /\ d.at = clock /\ d.grant = {} /\ d.until = clock + Ttl
      BY <1>1, <1>2, <1>3, <2>1, VerdictIs
    <2> QED BY <1>2, <1>4, <2>2 DEF Stands, Backed, Approved
  <1>5. CASE request.accepted = {} /\ ~(gs # {} /\ IsSeparated(request))
    <2>1. d = Verdict(request, "deny", {}, clock + Ttl)
      BY <1>5 DEF Decision, DecideAuthorize
    <2>2. /\ d \in Decisions /\ d.request = request /\ d.version = version + 1
          /\ d.at = clock /\ d.grant = {} /\ d.until = clock + Ttl /\ d.kind = "deny"
      BY <1>1, <1>2, <1>3, <2>1, VerdictIs
    <2> QED BY <1>2, <2>2 DEF Stands, Backed, Approved
  <1>6. CASE request.accepted = {} /\ gs # {} /\ IsSeparated(request)
    <2>1. PICK g \in Matching(request) : gs = {g}
      BY <1>6 DEF Eligible
    <2>2. /\ g \in Issued /\ request.action \in Grant(g).actions
          /\ GrantChainIsLive(g, clock)
      BY DEF Matching
    <2>3. g \in Chain(g) /\ Chain(g) \subseteq Issued
      BY <1>1, <2>2, ChainIsIssued
    <2>4. Grant(g) \in Grants /\ g \in GrantIds
      BY <1>1, <2>2, GrantIs
    <2>5. UNION { Grant(h).until : h \in gs } = Grant(g).until
      BY <2>1
    <2>6. PICK until : until = MinOf(clock + Ttl, Grant(g).until)
      OBVIOUS
    <2>7. until \in Nat /\ until > clock
      <3>1. Grant(g).until \in Optional(1..MaxTime)
        BY <2>4 DEF Grants
      <3>2. \A u \in Grant(g).until : clock < u
        BY <2>2, <2>3 DEF GrantChainIsLive, IsActive
      <3> QED BY <1>1, <1>2, <2>6, <3>1, <3>2, MinOfIsLater
    <2>8. d = Verdict(request, "allow", gs, until)
      BY <1>6, <2>5, <2>6 DEF Decision, DecideAuthorize
    <2>9. gs \in Optional(GrantIds)
      BY <2>1, <2>4 DEF Optional
    <2>10. /\ d \in Decisions /\ d.request = request /\ d.version = version + 1
           /\ d.at = clock /\ d.grant = gs /\ d.until = until
      BY <1>1, <2>7, <2>8, <2>9, VerdictIs
    <2>11. Backed(d, version)
      <3>1. StoodAt(g, version)
        BY <2>2, LiveStands
      <3>2. \A h \in Chain(g) : request.action \in Grant(h).actions
        BY <1>1, <2>2, NarrowsAlong
      <3> QED BY <2>1, <2>2, <2>10, <3>1, <3>2 DEF Backed
    <2>12. Approved(d, version)
      <3>1. SUFFICES ASSUME separated, request.action = "run"
                     PROVE  \E w \in request.approval : \E e \in Recorded(w) : IsApproval(e, d, version)
        BY <2>10 DEF Approved
      <3>2. PICK w \in request.approval : \E e \in Recorded(w) : Approves(e, request)
        BY <1>6, <3>1 DEF IsSeparated
      <3>3. PICK e \in Recorded(w) : Approves(e, request)
        BY <3>2
      <3>4. IsApproval(e, d, version)
        BY <2>10, <3>3, LiveStands DEF IsApproval, Approves
      <3> QED BY <3>4
    <2> QED BY <2>7, <2>10, <2>11, <2>12 DEF Stands
  <1> QED BY <1>4, <1>5, <1>6

(* decide answers with what is recorded, refuses, or plans.                *)
LEMMA DecideKeeps ==
    ASSUME IInv, NEW p \in Desks, Decide(p)
    PROVE  IInv'
  <1> DEFINE request == desk[p].request
             existing == { d \in decisions : d.request.id = request.id }
  <1>1. UNCHANGED <<clock, version, policy, decisions, claims>> /\ desk[p].pc = "decide"
    BY DEF Decide
  <1>2. /\ version \in Nat /\ request \in Requests /\ desk[p].asked \in 0..version
        /\ AskedAt(request, desk[p].asked)
    BY <1>1 DEF IInv, TypeInv, DesksOK, DeskOK
  <1>3. ASSUME NEW d \in existing, d.request = request, Answer(p, d) PROVE IInv'
    <2>1. PICK w : w = [pc |-> "answered", request |-> desk[p].request,
                        asked |-> desk[p].asked, decision |-> d]
      OBVIOUS
    <2>2. w.pc = "answered" /\ w.request = request /\ w.asked = desk[p].asked /\ w.decision = d
      BY <2>1
    <2>3. DeskOK(w)
      BY <1>2, <1>3, <2>2 DEF DeskOK
    <2>4. desk' = [desk EXCEPT ![p] = w]
      BY <1>3, <2>1 DEF Answer
    <2> QED BY <1>1, <2>3, <2>4, DeskAlone
  <1>4. ASSUME desk' = [desk EXCEPT ![p] = Idle] PROVE IInv'
    <2>1. DeskOK(Idle)
      BY DEF DeskOK, Idle
    <2> QED BY <1>1, <1>4, <2>1, DeskAlone
  <1>5. ASSUME existing = {}, NEW gs \in Eligible(request),
               desk' = [desk EXCEPT ![p] =
                     [pc |-> "append", request |-> request,
                      asked |-> desk[p].asked, loaded |-> version,
                      decision |-> Decision(request, gs)]]
        PROVE  IInv'
    <2>1. PICK d : d = Decision(request, gs)
      OBVIOUS
    <2>2. d \in Decisions /\ d.request = request /\ Stands(d, version)
      BY <1>2, <1>5, <2>1, DecisionStands
    <2>3. PICK w : w = [pc |-> "append", request |-> request, asked |-> desk[p].asked,
                        loaded |-> version, decision |-> d]
      OBVIOUS
    <2>4. /\ w.pc = "append" /\ w.request = request /\ w.asked = desk[p].asked
          /\ w.loaded = version /\ w.decision = d
      BY <2>3
    <2>5. version \in desk[p].asked..version
      BY <1>2
    <2>6. \A e \in decisions : e.request.id # request.id
      BY <1>5
    <2>7. DeskOK(w)
      BY <1>2, <2>2, <2>4, <2>5, <2>6 DEF DeskOK
    <2>8. desk' = [desk EXCEPT ![p] = w]
      BY <1>5, <2>1, <2>3
    <2> QED BY <1>1, <2>7, <2>8, DeskAlone
  <1> QED BY <1>3, <1>4, <1>5 DEF Decide, Eligible

-----------------------------------------------------------------------------
(* Recording.                                                              *)

(* A chain that stands at the version of the stream is not revoked.        *)
LEMMA StandsNow ==
    ASSUME TypeInv, NEW g, StoodAt(g, version), NEW h \in Chain(g)
    PROVE  revokedAt[h] = 0
  <1>1. h \in GrantIds /\ version \in Nat
    BY DEF Chain, TypeInv
  <1>2. revokedAt[h] \in 0..version
    BY <1>1 DEF TypeInv
  <1> QED BY <1>1, <1>2 DEF StoodAt

(* A decision appended at the version it was read at is recorded in order. *)
LEMMA AppendKeeps ==
    ASSUME IInv, NEW p \in Desks, AppendDecision(p)
    PROVE  IInv'
  <1>1. /\ TypeInv /\ GrantsOK /\ DecisionsOK /\ version \in Nat
        /\ desk = [q \in Desks |-> desk[q]] /\ \A q \in Desks : DeskOK(desk[q])
    BY DEF IInv, TypeInv, DesksOK
  <1>2. PICK d, request, asked, loaded :
          /\ d = desk[p].decision /\ request = desk[p].request
          /\ asked = desk[p].asked /\ loaded = desk[p].loaded
    OBVIOUS
  <1>3. desk[p].pc = "append" /\ UNCHANGED <<clock, policy, claims>>
    BY DEF AppendDecision
  <1>4. /\ request \in Requests /\ asked \in 0..version /\ AskedAt(request, asked)
        /\ loaded \in asked..version /\ d \in Decisions /\ d.request = request
        /\ Stands(d, loaded)
        /\ \A e \in decisions : e.request.id = request.id => e.version > loaded
    BY <1>1, <1>2, <1>3 DEF DeskOK
  <1>5. CASE /\ loaded = version /\ decisions' = decisions \cup {d}
             /\ version' = version + 1 /\ Answer(p, d)
    <2>1. PICK w : w = [pc |-> "answered", request |-> request, asked |-> asked, decision |-> d]
      OBVIOUS
    <2>2. w.pc = "answered" /\ w.request = request /\ w.asked = asked /\ w.decision = d
      BY <2>1
    <2>3. desk' = [desk EXCEPT ![p] = w]
      BY <1>2, <1>5, <2>1 DEF Answer
    <2>4. d.version = version + 1 /\ d.until > d.at /\ Backed(d, version) /\ Approved(d, version)
      BY <1>4, <1>5 DEF Stands
    <2>5. /\ separated' = separated /\ grant' = grant /\ revokedAt' = revokedAt
          /\ clock' = clock /\ claims' = claims
      BY <1>3 DEF policy
    <2>6. revokedAt' \in [GrantIds -> 0..version']
      BY <1>1, <1>5, <2>5 DEF TypeInv
    <2>7. Grows
      BY <1>1, <1>4, <1>5, <2>4, <2>5, <2>6 DEF Grows, TypeInv
    <2>8. desk' = [q \in Desks |-> desk'[q]]
      BY <1>1, <2>3
    <2>9. TypeInv'
      BY <1>1, <2>5, <2>7, <2>8 DEF TypeInv, Grows
    <2>10. Issued' = Issued /\ (\A g : Grant(g)' = Grant(g) /\ Chain(g)' = Chain(g))
      BY <2>5 DEF Issued, Grant, Chain, HoldsParents
    <2>11. GrantsOK'
      BY <1>1, <2>10 DEF GrantsOK, Narrower
    <2>12. DecisionOK(d)'
      <3>1. Backed(d, d.version)'
        <4>1. SUFFICES ASSUME NEW g \in d.grant
                       PROVE  /\ g \in Issued' /\ \A h \in Chain(g)' : revokedAt'[h] = 0
                              /\ \A h \in Chain(g)' : d.request.action \in Grant(h).actions'
          BY DEF Backed, StoodAt
        <4>2. /\ g \in Issued /\ StoodAt(g, version)
              /\ \A h \in Chain(g) : d.request.action \in Grant(h).actions
          BY <2>4 DEF Backed
        <4>3. \A h \in Chain(g) : revokedAt[h] = 0
          BY <1>1, <4>2, StandsNow
        <4> QED BY <2>5, <2>10, <4>2, <4>3
      <3>2. Approved(d, d.version)'
        <4>1. SUFFICES ASSUME separated, d.kind = "allow", d.request.action = "run",
                              d.request.accepted = {}
                       PROVE  \E v \in d.request.approval : \E e \in Recorded(v)' :
                                /\ e.kind = "allow" /\ e.request.by # d.request.by
                                /\ \A g \in e.grant : \A h \in Chain(g)' : revokedAt'[h] = 0
          BY <2>5 DEF Approved, IsApproval, StoodAt
        <4>2. PICK v \in d.request.approval : \E e \in Recorded(v) : IsApproval(e, d, version)
          BY <2>4, <4>1 DEF Approved
        <4>3. PICK e \in Recorded(v) : IsApproval(e, d, version)
          BY <4>2
        <4>4. e \in Recorded(v)'
          BY <1>5 DEF Recorded
        <4>5. \A g \in e.grant : \A h \in Chain(g) : revokedAt[h] = 0
          BY <1>1, <4>3, StandsNow DEF IsApproval
        <4> QED BY <2>5, <2>10, <4>3, <4>4, <4>5 DEF IsApproval
      <3>3. RecordedLater(d)
        BY <1>1, <1>4, <1>5, <2>4 DEF RecordedLater, AskedAt
      <3>4. d.version \in 1..version'
        BY <1>1, <1>5, <2>4
      <3> QED BY <2>4, <3>1, <3>2, <3>3, <3>4 DEF DecisionOK, RecordedLater
    <2>13. ASSUME NEW e \in decisions
           PROVE  e.version # d.version /\ e.request.id # d.request.id
      <3>1. e.version \in 1..version
        BY <1>1 DEF DecisionsOK, DecisionOK
      <3> QED BY <1>1, <1>4, <1>5, <2>4, <3>1
    <2>14. DecisionsOK'
      <3>1. \A e \in decisions' : DecisionOK(e)'
        BY <1>1, <1>5, <2>7, <2>12, DecisionKept
      <3>2. \A e, f \in decisions' : e.version = f.version => e = f
        BY <1>1, <1>5, <2>13 DEF DecisionsOK
      <3>3. \A e, f \in decisions' : e.request.id = f.request.id => e = f
        BY <1>1, <1>5, <2>13 DEF DecisionsOK, OneDecisionPerRequest
      <3> QED BY <3>1, <3>2, <3>3 DEF DecisionsOK, OneDecisionPerRequest
    <2>15. DeskOK(w)'
      <3>1. asked \in 0..version'
        BY <1>1, <1>4, <1>5
      <3> QED BY <1>4, <1>5, <2>2, <3>1 DEF DeskOK, AskedAt
    <2>16. \A q \in Desks : DeskOK(desk[q])'
      <3>1. SUFFICES ASSUME NEW q \in Desks, NEW u, u = desk'[q] PROVE DeskOK(u)'
        OBVIOUS
      <3>2. u = IF q = p THEN w ELSE desk[q]
        BY <1>1, <2>3, <3>1
      <3>3. CASE q = p
        BY <2>15, <3>2, <3>3
      <3>4. CASE q # p
        <4>1. DeskOK(u)
          BY <1>1, <3>2, <3>4
        <4> QED BY <1>1, <2>7, <4>1, DeskKept
      <3> QED BY <3>3, <3>4
    <2>17. ClaimsOK'
      BY <1>1, <2>5, <2>7, ClaimKept DEF ClaimsOK, IInv
    <2> QED BY <2>9, <2>11, <2>14, <2>16, <2>17 DEF IInv, DesksOK
  <1>6. CASE Retries(p, request) /\ UNCHANGED <<decisions, version>>
    <2>1. PICK w : w = [pc |-> "decide", request |-> request, asked |-> asked]
      OBVIOUS
    <2>2. w.pc = "decide" /\ w.request = request /\ w.asked = asked
      BY <2>1
    <2>3. DeskOK(w)
      BY <1>4, <2>2 DEF DeskOK
    <2>4. desk' = [desk EXCEPT ![p] = w]
      BY <1>2, <1>6, <2>1 DEF Retries
    <2>5. UNCHANGED <<clock, version, policy, decisions, claims>>
      BY <1>3, <1>6
    <2> QED BY <2>3, <2>4, <2>5, DeskAlone
  <1> QED BY <1>2, <1>5, <1>6 DEF AppendDecision, IsUnchangedSince

-----------------------------------------------------------------------------
(* Protected operations.                                                   *)

(* The three kinds of request ids.                                         *)
LEMMA IdsAre ==
    /\ \A i \in RequestIds : <<"call", i>> \in Ids /\ <<"call", i>>[1] = "call"
    /\ \A v, n \in Nat, p \in Desks :
         /\ <<"append", v, p, n>> \in Ids /\ <<"append", v, p, n>>[4] = n
    /\ \A v, n \in Nat : <<"finish", v, n>> \in Ids /\ <<"finish", v, n>>[1] = "finish"
    /\ \A i \in Ids : i[1] = "finish" => i[2] \in Nat
  BY DEF Ids

(* A request made again under another id is the same request otherwise.    *)
LEMMA RequestAgain ==
    ASSUME NEW r \in Requests, NEW i \in Ids, NEW q, q = [r EXCEPT !.id = i]
    PROVE  q \in Requests /\ q.id = i /\ q.action = r.action
  BY DEF Requests

(* An operation that asks holds a request made at the version of the       *)
(* stream.                                                                 *)
LEMMA AsksKeeps ==
    ASSUME IInv, UNCHANGED <<clock, version, policy, decisions, claims>>,
           NEW p \in Desks, NEW request \in Requests, AskedAt(request, version),
           Asks(p, request)
    PROVE  IInv'
  <1>1. PICK w : w = [pc |-> "decide", request |-> request, asked |-> version]
    OBVIOUS
  <1>2. w.pc = "decide" /\ w.request = request /\ w.asked = version /\ version \in 0..version
    BY <1>1 DEF IInv, TypeInv
  <1>3. DeskOK(w)
    BY <1>2 DEF DeskOK
  <1>4. desk' = [desk EXCEPT ![p] = w]
    BY <1>1 DEF Asks
  <1> QED BY <1>3, <1>4, DeskAlone

(* A request of a principal says nothing of versions.                      *)
LEMMA AskKeeps ==
    ASSUME IInv, NEW p \in Desks, NEW id \in RequestIds, NEW by \in Principals,
           NEW action \in Asked, NEW approval \in Optional({ d.version : d \in decisions }),
           Ask(p, id, by, action, approval)
    PROVE  IInv'
  <1>1. PICK r : r = [id |-> <<"call", id>>, by |-> by, action |-> action,
                      approval |-> approval, accepted |-> {}]
    OBVIOUS
  <1>2. approval \in SUBSET Nat
    BY DEF IInv, TypeInv, Decisions, Optional
  <1>3. <<"call", id>> \in Ids /\ <<"call", id>>[1] = "call"
    BY IdsAre
  <1>4. r \in Requests /\ r.id = <<"call", id>>
    BY <1>1, <1>2, <1>3, PolicyAssumption DEF Requests
  <1>5. AskedAt(r, version)
    BY <1>3, <1>4 DEF AskedAt
  <1>6. Asks(p, r) /\ UNCHANGED <<clock, version, policy, decisions, claims>>
    BY <1>1 DEF Ask
  <1> QED BY <1>4, <1>5, <1>6, AsksKeeps

(* An operation that ends holds nothing.                                   *)
LEMMA LeaveKeeps ==
    ASSUME IInv, NEW p \in Desks, Leave(p)
    PROVE  IInv'
  <1>1. DeskOK(Idle)
    BY DEF DeskOK, Idle
  <1> QED BY <1>1, DeskAlone DEF Leave

(* An operation that is admitted keeps its decision.                       *)
LEMMA StartKeeps ==
    ASSUME IInv, NEW p \in Desks, Start(p)
    PROVE  IInv'
  <1>1. PICK w : w = [pc |-> "working", decision |-> desk[p].decision]
    OBVIOUS
  <1>2. w.pc = "working" /\ w.decision = desk[p].decision
    BY <1>1
  <1>3. desk[p].decision \in decisions
    BY DEF Start, IInv, DesksOK, DeskOK
  <1>4. DeskOK(w)
    BY <1>2, <1>3 DEF DeskOK
  <1>5. desk' = [desk EXCEPT ![p] = w] /\ UNCHANGED <<clock, version, policy, decisions, claims>>
    BY <1>1 DEF Start
  <1> QED BY <1>4, <1>5, DeskAlone

(* A claim sealed under a decision recorded after the step was come to is  *)
(* in order.                                                               *)
LEMMA SealKeeps ==
    ASSUME IInv, UNCHANGED <<clock, version, policy, decisions>>,
           NEW p \in Desks, NEW d \in decisions, NEW reached \in 0..version,
           d.request.action = "run" => d.version > reached, SealClaim(p, d, reached)
    PROVE  IInv'
  <1>1. Quiet
    BY DEF Quiet, IInv, TypeInv
  <1>2. PICK w, c : /\ w = [pc |-> "claimed", decision |-> d]
                    /\ c = [by |-> d.request.by, decision |-> d.version,
                            asked |-> reached, done |-> FALSE, desk |-> p]
    OBVIOUS
  <1>3. w.pc = "claimed" /\ w.decision = d
    BY <1>2
  <1>4. DeskOK(w)
    BY <1>3 DEF DeskOK
  <1>5. desk' = [desk EXCEPT ![p] = w] /\ claims' = claims \cup {c}
    BY <1>2 DEF SealClaim
  <1>6. d \in Decisions /\ reached \in Nat
    BY DEF IInv, TypeInv
  <1>7. c \in Claims /\ c.asked = reached /\ c.decision = d.version
    BY <1>2, <1>6 DEF Claims, Decisions, Requests
  <1>8. ClaimOK(c)
    BY <1>7 DEF ClaimOK
  <1>9. claims' \subseteq Claims /\ \A e \in claims' : ClaimOK(e)
    BY <1>5, <1>7, <1>8 DEF IInv, TypeInv, ClaimsOK
  <1> QED BY <1>1, <1>4, <1>5, <1>9, DeskKeeps

(* A run asks again; anything else claims under its decision.              *)
LEMMA ReachClaimKeeps ==
    ASSUME IInv, NEW p \in Desks, ReachClaim(p)
    PROVE  IInv'
  <1>1. PICK d : d = desk[p].decision
    OBVIOUS
  <1>2. d \in decisions /\ d \in Decisions /\ version \in Nat /\ version \in 0..version
    BY <1>1 DEF ReachClaim, IInv, TypeInv, DesksOK, DeskOK
  <1>3. UNCHANGED <<clock, version, policy, decisions>>
    BY DEF ReachClaim
  <1>4. CASE /\ Asks(p, [d.request EXCEPT !.id = <<"append", d.version, p, version>>])
             /\ UNCHANGED claims
    <2>1. PICK i, q : i = <<"append", d.version, p, version>> /\ q = [d.request EXCEPT !.id = i]
      OBVIOUS
    <2>2. d.version \in Nat /\ d.request \in Requests
      BY <1>2 DEF Decisions
    <2>3. i \in Ids /\ i[4] = version
      BY <1>2, <2>1, <2>2, IdsAre
    <2>4. q \in Requests /\ q.id = i
      BY <2>1, <2>2, <2>3, RequestAgain
    <2>5. AskedAt(q, version)
      BY <2>3, <2>4 DEF AskedAt
    <2>6. Asks(p, q)
      BY <1>4, <2>1
    <2>7. UNCHANGED <<clock, version, policy, decisions, claims>>
      BY <1>3, <1>4
    <2> QED BY <2>4, <2>5, <2>6, <2>7, AsksKeeps
  <1>5. CASE ~MustAskAgain(d) /\ SealClaim(p, d, version)
    <2>1. d.request.action # "run"
      BY <1>5 DEF MustAskAgain
    <2> QED BY <1>2, <1>3, <1>5, <2>1, SealKeeps
  <1> QED BY <1>1, <1>4, <1>5 DEF ReachClaim

(* The decision that admits a claim is later than the step.                *)
LEMMA AdmitClaimKeeps ==
    ASSUME IInv, NEW p \in Desks, AdmitClaim(p)
    PROVE  IInv'
  <1>1. PICK d, asked : d = desk[p].decision /\ asked = desk[p].asked
    OBVIOUS
  <1>2. /\ d \in decisions /\ asked \in 0..version /\ d.request.id[1] = "append"
        /\ AskedAt(d.request, asked)
    BY <1>1 DEF AdmitClaim, IInv, DesksOK, DeskOK, Purpose
  <1>3. d.version > asked
    BY <1>2 DEF IInv, DecisionsOK, DecisionOK, RecordedLater, AskedAt
  <1>4. SealClaim(p, d, asked) /\ UNCHANGED <<clock, version, policy, decisions>>
    BY <1>1 DEF AdmitClaim
  <1> QED BY <1>2, <1>3, <1>4, SealKeeps

(* Completing the claims of an operation leaves them in order.             *)
LEMMA FinishedKeeps ==
    ASSUME IInv, UNCHANGED <<clock, version, policy, decisions>>, NEW p \in Desks, Finished(p)
    PROVE  IInv'
  <1>1. Quiet
    BY DEF Quiet, IInv, TypeInv
  <1>2. DeskOK(Idle)
    BY DEF DeskOK, Idle
  <1>3. ASSUME NEW e \in claims' PROVE e \in Claims /\ ClaimOK(e)
    <2>1. PICK c \in claims : e = [c EXCEPT !.done = (@ \/ c.desk = p)]
      BY DEF Finished
    <2>2. c \in Claims /\ ClaimOK(c)
      BY DEF IInv, TypeInv, ClaimsOK
    <2>3. PICK b \in BOOLEAN : e = [c EXCEPT !.done = b]
      <3>1. (c.done \/ c.desk = p) \in BOOLEAN
        OBVIOUS
      <3> QED BY <2>1, <3>1
    <2>4. e \in Claims /\ e.asked = c.asked /\ e.decision = c.decision
      BY <2>2, <2>3 DEF Claims
    <2> QED BY <2>2, <2>4 DEF ClaimOK
  <1>4. desk' = [desk EXCEPT ![p] = Idle]
    BY DEF Finished
  <1> QED BY <1>1, <1>2, <1>3, <1>4, DeskKeeps

(* The request that continues accepted work is a request.                  *)
LEMMA ContinuationIs ==
    ASSUME TypeInv, NEW d \in decisions, NEW q, q = Continuation(d)
    PROVE  q \in Requests /\ q.id[1] = "finish"
  <1>1. d.request \in Requests /\ d.version \in Nat /\ clock \in Nat
    BY PolicyAssumption DEF TypeInv, Decisions
  <1>2. PICK i : i = <<"finish", d.version, clock>>
    OBVIOUS
  <1>3. i \in Ids /\ i[1] = "finish"
    BY <1>1, <1>2, IdsAre
  <1>4. PICK r \in Requests, A \in SUBSET Nat, B \in SUBSET Nat :
          r = d.request /\ A = {d.version} /\ B = {}
    BY <1>1
  <1>5. q = [r EXCEPT !.id = i, !.accepted = A, !.approval = B]
    BY <1>2, <1>4 DEF Continuation
  <1>6. q \in Requests /\ q.id = i
    BY <1>3, <1>5 DEF Requests
  <1> QED BY <1>3, <1>6

(* Accepted work is finished, continued or asked for again.                *)
LEMMA FinishKeeps ==
    ASSUME IInv, NEW p \in Desks, Finish(p)
    PROVE  IInv'
  <1>1. PICK d : d = desk[p].decision
    OBVIOUS
  <1>2. TypeInv /\ DeskOK(desk[p])
    BY DEF IInv, DesksOK
  <1>3. UNCHANGED <<clock, version, policy, decisions>>
    BY DEF Finish
  <1>4. CASE Finished(p)
    BY <1>3, <1>4, FinishedKeeps
  <1>5. CASE desk[p].pc = "claimed" /\ Asks(p, Continuation(d)) /\ UNCHANGED claims
    <2>1. PICK q : q = Continuation(d)
      OBVIOUS
    <2>2. d \in decisions
      BY <1>1, <1>2, <1>5 DEF DeskOK
    <2>3. q \in Requests /\ q.id[1] = "finish"
      BY <1>2, <2>1, <2>2, ContinuationIs
    <2>4. AskedAt(q, version)
      BY <2>3 DEF AskedAt
    <2>5. Asks(p, q) /\ UNCHANGED <<clock, version, policy, decisions, claims>>
      BY <1>3, <1>5, <2>1
    <2> QED BY <2>3, <2>4, <2>5, AsksKeeps
  <1>6. CASE /\ desk[p].pc = "answered" /\ Purpose(p) = "finish" /\ UNCHANGED claims
             /\ Retries(p, [desk[p].request EXCEPT !.id = <<"finish", @[2], clock>>])
    <2>1. PICK r, asked, i, q : /\ r = desk[p].request /\ asked = desk[p].asked
                                /\ i = <<"finish", r.id[2], clock>>
                                /\ q = [r EXCEPT !.id = i]
      OBVIOUS
    <2>2. r \in Requests /\ asked \in 0..version /\ r.id[1] = "finish"
      BY <1>2, <1>6, <2>1 DEF DeskOK, Purpose
    <2>3. r.id[2] \in Nat /\ clock \in Nat
      BY <1>2, <2>2, IdsAre, PolicyAssumption DEF Requests, TypeInv
    <2>4. i \in Ids /\ i[1] = "finish"
      BY <2>1, <2>3, IdsAre
    <2>5. q \in Requests /\ q.id = i
      BY <2>1, <2>2, <2>4, RequestAgain
    <2>6. PICK w : w = [pc |-> "decide", request |-> q, asked |-> asked]
      OBVIOUS
    <2>7. w.pc = "decide" /\ w.request = q /\ w.asked = asked
      BY <2>6
    <2>8. DeskOK(w)
      BY <2>2, <2>4, <2>5, <2>7 DEF DeskOK, AskedAt
    <2>9. desk' = [desk EXCEPT ![p] = w]
      <3>1. q = [r EXCEPT !.id = <<"finish", @[2], clock>>]
        BY <2>1
      <3> QED BY <1>6, <2>1, <2>6, <3>1 DEF Retries
    <2>10. UNCHANGED <<clock, version, policy, decisions, claims>>
      BY <1>3, <1>6
    <2> QED BY <2>8, <2>9, <2>10, DeskAlone
  <1> QED BY <1>1, <1>4, <1>5, <1>6 DEF Finish

-----------------------------------------------------------------------------
(* The inductive invariant, and what follows from it.                      *)

(* The initial states satisfy the invariant.                               *)
LEMMA InvInit ==
    ASSUME Init
    PROVE  IInv
  <1>1. TypeInv
    BY PolicyAssumption DEF Init, TypeInv, Optional
  <1>2. Issued = {}
    BY DEF Init, Issued
  <1>3. DesksOK
    BY DEF Init, DesksOK, DeskOK, Idle
  <1> QED BY <1>1, <1>2, <1>3
          DEF Init, IInv, GrantsOK, DecisionsOK, OneDecisionPerRequest, ClaimsOK

(* Stuttering keeps the invariant.                                         *)
LEMMA InvStutters ==
    ASSUME IInv, UNCHANGED vars
    PROVE  IInv'
  <1>1. Quiet /\ desk' = desk /\ claims' = claims
    BY DEF vars, Quiet, policy, IInv, TypeInv
  <1>2. desk' = [p \in Desks |-> desk'[p]] /\ \A p \in Desks : DeskOK(desk'[p])
    BY <1>1 DEF IInv, TypeInv, DesksOK
  <1>3. claims' \subseteq Claims /\ \A c \in claims' : ClaimOK(c)
    BY <1>1 DEF IInv, TypeInv, ClaimsOK
  <1> QED BY <1>1, <1>2, <1>3, QuietKeeps

(* Every step keeps the invariant.                                         *)
LEMMA InvNext ==
    ASSUME IInv, Next
    PROVE  IInv'
  <1>1. CASE Tick
    BY <1>1, TickKeeps
  <1>2. ASSUME NEW g \in GrantIds, NEW x \in Issuable, Issue(g, x) PROVE IInv'
    BY <1>2, IssueKeeps
  <1>3. ASSUME NEW g \in GrantIds, Revoke(g) PROVE IInv'
    BY <1>3, RevokeKeeps
  <1>4. ASSUME NEW p \in Desks, NEW id \in RequestIds, NEW by \in Principals,
               NEW action \in Asked,
               NEW approval \in Optional({ d.version : d \in decisions }),
               Ask(p, id, by, action, approval)
        PROVE  IInv'
    BY <1>4, AskKeeps
  <1>5. ASSUME NEW p \in Desks, ReachClaim(p) PROVE IInv'
    BY <1>5, ReachClaimKeeps
  <1>6. ASSUME NEW p \in Desks, Proceed(p) PROVE IInv'
    BY <1>6, DecideKeeps, AppendKeeps, StartKeeps, LeaveKeeps, AdmitClaimKeeps, FinishKeeps
       DEF Proceed
  <1> QED BY <1>1, <1>2, <1>3, <1>4, <1>5, <1>6 DEF Next

(* Whatever races over the policy's stream, the invariant holds.           *)
THEOREM PolicyInvariant == Spec => []IInv
  <1>1. IInv /\ [Next]_vars => IInv'
    BY InvNext, InvStutters
  <1> QED BY <1>1, InvInit, PTL DEF Spec

(* The policy, the operations and the claims keep their types.             *)
THEOREM PolicyTypeCorrect == Spec => []TypeOK
  <1>1. IInv => TypeOK
    <2> SUFFICES ASSUME IInv PROVE TypeOK
      OBVIOUS
    <2>1. \A g \in GrantIds : grant[g] \in Optional(Grants)
      BY DEF IInv, TypeInv
    <2>2. \A d \in decisions : /\ d.version \in 1..version /\ d.until > d.at
                               /\ d.grant \in Optional(GrantIds) /\ d.kind \in {"allow", "deny"}
      BY DEF IInv, TypeInv, DecisionsOK, DecisionOK, Decisions
    <2>3. \A c \in claims : c.decision \in 1..version
      BY <2>2 DEF IInv, ClaimsOK, ClaimOK
    <2> QED BY <2>1, <2>2, <2>3 DEF IInv, TypeInv, DesksOK, DeskOK, TypeOK
  <1> QED BY <1>1, PolicyInvariant, PTL

(* A grant is never wider than any grant of the chain it was delegated     *)
(* along, and that chain begins with the owner: may_delegate compares a    *)
(* grant with its parent alone.                                            *)
THEOREM PolicyDelegationNarrows == Spec => []DelegationNarrows
  <1>1. IInv => DelegationNarrows
    <2> SUFFICES ASSUME IInv PROVE DelegationNarrows
      OBVIOUS
    <2>1. TypeInv /\ GrantsOK
      BY DEF IInv
    <2> QED BY <2>1, NarrowsAlong DEF DelegationNarrows, GrantsOK, Narrower
  <1> QED BY <1>1, PolicyInvariant, PTL

(* Each decision stands on a chain in force when it was recorded, and a    *)
(* request has one: the version read by decide is the version appended at. *)
THEOREM PolicyDecisionsStand == Spec => []DecisionsStand
  <1>1. IInv => DecisionsStand
    BY DEF IInv, DecisionsOK, DecisionOK, Backed, StoodAt, DecisionsStand, AllowancesWereBacked
  <1> QED BY <1>1, PolicyInvariant, PTL

(* Where the policy separates duties, every allowed run cites an approval  *)
(* by somebody else, not revoked by the version the run was recorded at.   *)
THEOREM PolicyDutiesAreSeparated == Spec => []DutiesAreSeparated
  <1>1. IInv => DutiesAreSeparated
    BY DEF IInv, DecisionsOK, DecisionOK, Approved, IsApproval, StoodAt, DutiesAreSeparated
  <1> QED BY <1>1, PolicyInvariant, PTL

(* A run whose chain was revoked before it came to a step does not claim   *)
(* the step: the admission of the claim is decided anew, after.            *)
THEOREM PolicyRevokedWorkClaimsNothing == Spec => []RevokedWorkClaimsNothing
  <1>1. IInv => RevokedWorkClaimsNothing
    <2> SUFFICES ASSUME IInv, NEW c \in claims, NEW d \in Recorded(c.decision),
                        d.request.action = "run", NEW g \in d.grant, NEW h \in Chain(g),
                        revokedAt[h] # 0
                 PROVE  revokedAt[h] > c.asked
      BY DEF RevokedWorkClaimsNothing
    <2>1. PICK e \in decisions : /\ e.version = c.decision
                                 /\ e.request.action = "run" => e.version > c.asked
      BY DEF IInv, ClaimsOK, ClaimOK
    <2>2. e = d
      BY <2>1 DEF Recorded, IInv, DecisionsOK
    <2>3. revokedAt[h] > d.version
      BY DEF IInv, DecisionsOK, DecisionOK, Backed, StoodAt, Recorded
    <2>4. h \in GrantIds /\ d \in Decisions /\ c \in Claims /\ revokedAt[h] \in 0..version
      BY DEF IInv, TypeInv, Chain, Recorded
    <2>5. revokedAt[h] \in Nat /\ d.version \in Nat /\ c.asked \in Nat
      BY <2>4 DEF Decisions, Claims
    <2> QED BY <2>1, <2>2, <2>3, <2>5
  <1> QED BY <1>1, PolicyInvariant, PTL

=============================================================================
