-------------------------- MODULE ChildSpawnProofs --------------------------
(***************************************************************************)
(* A spawn step is carried out as its plan was sealed, for any number of   *)
(* calls, recoverers, children, visits and claims.                         *)
(*                                                                         *)
(* What a call or a recoverer read before its append is stale by the time  *)
(* it appends.  The invariant says which part of it still stands: a sealed *)
(* plan is never replaced, an opened child never goes away, and a claim    *)
(* that is still the step's own is the one the group was adopted by.       *)
(***************************************************************************)
EXTENDS ChildSpawn, FiniteSetTheorems, TLAPS

AtMostOne(S) == \A x, y \in S : x = y

SealedBy(g, b) == \E s \in group[g] : s.plan.by = b
AdoptedBy(g, f) == \E s \in group[g] : s.adopted = f
Accepted(g, k) == \E s \in group[g] : k \in s.accepted
Opened(g) == \A k \in Children : child[g][k] # {}

StepStates == [visit : Groups, home : BOOLEAN, fence : 0..MaxClaims,
               status : {"pending", "in_progress", "failed", "completed"}]

TypeInv ==
    /\ phase \in {"running", "paused", "ended"}
    /\ claims \in 0..MaxClaims
    /\ step \in StepStates
    /\ retired \subseteq Fences /\ late \subseteq LateResults
    /\ group \in [Groups -> SUBSET GroupStates]
    /\ child \in [Groups -> [Children -> SUBSET Streams]]
    /\ \A g \in Groups : AtMostOne(group[g])
    /\ \A g \in Groups, k \in Children : AtMostOne(child[g][k])
    /\ feed \in Seq(Facts)
    /\ through \in 0..Len(feed)
    /\ lease \subseteq Recoverers /\ AtMostOne(lease)
    /\ call \in [Calls -> Tasks]
    /\ recovery \in [Recoverers -> Recoveries]
    /\ finisher \in [Groups -> SUBSET Finishers]
    /\ \A g \in Groups : AtMostOne(finisher[g])
    /\ faults \in 0..MaxFaults

(* A step in progress has a claim, one of those that were made, and has    *)
(* not been completed on this visit; nor has that of a visit to come.      *)
ClaimOK ==
    /\ step.fence <= claims /\ (step.status = "in_progress" => step.fence # 0)
    /\ \A g \in Groups :
         finisher[g] # {} => g < step.visit \/ (g = step.visit /\ step.status = "completed")

(* If the claim is still the step's, it is a claim of this visit, and the  *)
(* group was adopted by it.                                                *)
Answers(f, g) == HoldsClaim(f) => step.visit = g /\ AdoptedBy(g, f)

(* The claim is one that was made, and if it is still the step's, it is of *)
(* this visit.                                                             *)
IsClaimOf(f, g) == f \in 1..claims /\ (HoldsClaim(f) => step.visit = g)
AdopterOK == \A g \in Groups : \A s \in group[g] : IsClaimOf(s.adopted, g)

(* What a call still knows when it acts.                                   *)
CallOK(c) ==
    /\ c.pc # "idle" => c.fence \in 1..claims
    /\ c.pc \in {"seal", "adopt"} => c.next = 1
    /\ c.pc \in {"adopt", "open", "verify"} =>
          \E b \in Calls : c.by = {b} /\ SealedBy(c.group, b)
    /\ c.pc \in {"open", "verify"} =>
          \A k \in Children : k < c.next => child[c.group][k] # {}
    /\ c.pc = "open" => SpawnCompleted(c.group) \/ Answers(c.fence, c.group)

(* The effect a fact of the feed asks for has landed.                      *)
Done(e) == IF e.kind = "completed" THEN Accepted(e.group, e.child) ELSE Opened(e.group)

(* What a recoverer still knows when it acts.                              *)
RecoveryOK(w) ==
    /\ w.pc # "idle" => w.at \in 1..Len(feed)
    /\ w.pc \in {"open", "complete"} => feed[w.at].kind # "completed"
    /\ w.pc = "accept" => feed[w.at].kind = "completed"
    /\ w.pc = "open" =>
          \A k \in Children : k < w.next => child[feed[w.at].group][k] # {}
    /\ w.pc = "complete" => /\ Opened(feed[w.at].group)
                            /\ w.fence \in 1..claims
                            /\ Answers(w.fence, feed[w.at].group)
    /\ w.pc = "settle" => Done(feed[w.at])

CallsOK == \A p \in Calls : CallOK(call[p])
RecoveriesOK == \A r \in Recoverers : RecoveryOK(recovery[r])

(* A plan or an adoption of the feed is of a sealed group.                 *)
FeedOK == \A i \in 1..Len(feed) :
            feed[i].kind # "completed" => group[feed[i].group] # {}

(* Whoever holds the cursor works on the position after the acknowledged.  *)
LeaseOK == \A r \in lease : recovery[r].pc # "idle" => recovery[r].at = through + 1

CursorOK == \A i \in 1..through : Done(feed[i])

ChildOK == \A g \in Groups, k \in Children : \A s \in child[g][k] : SealedBy(g, s.by)

FinishOK == \A g \in Groups : \A e \in finisher[g] :
              ~e.host => AdoptedBy(g, e.fence) /\ Opened(g)

(* The step was completed on this visit under this claim.                  *)
FinishedBy(g, f) == \E e \in finisher[g] : e.fence = f

IInv ==
    /\ TypeInv /\ ClaimOK
    /\ AdopterOK /\ CallsOK /\ RecoveriesOK /\ FeedOK /\ LeaseOK /\ CursorOK /\ ChildOK /\ FinishOK

(* What no step undoes.                                                    *)
Grows ==
    /\ claims <= claims' /\ claims \in Nat /\ claims' \in Nat
    /\ \A g \in Groups : \A b : SealedBy(g, b) => SealedBy(g, b)'
    /\ \A g \in Groups : \A k : Accepted(g, k) => Accepted(g, k)'
    /\ \A g \in Groups, k \in Children : child[g][k] # {} => child'[g][k] # {}
    /\ \A g \in Groups : SpawnCompleted(g) => finisher'[g] = finisher[g]
    /\ Len(feed) \in Nat /\ Len(feed') \in Nat /\ Len(feed) <= Len(feed')
    /\ \A i \in 1..Len(feed) : feed'[i] = feed[i]
    /\ \A f \in 1..claims : HoldsClaim(f)' => HoldsClaim(f) /\ step'.visit = step.visit
    /\ \A g \in Groups : \A f :
         AdoptedBy(g, f) /\ (HoldsClaim(f) \/ FinishedBy(g, f)) => AdoptedBy(g, f)'

-----------------------------------------------------------------------------
(* Groups, streams and records.                                           *)

(* The sealed group is the one there is.                                   *)
LEMMA SealedIs ==
    ASSUME NEW g \in Groups, NEW s \in group[g], AtMostOne(group[g])
    PROVE  Sealed(g) = s
  BY DEF Sealed, AtMostOne

(* A member of a set of at most one is all there is.                       *)
LEMMA AtMostOneIs ==
    ASSUME NEW S, AtMostOne(S), NEW x \in S
    PROVE  S = {x}
  BY DEF AtMostOne

(* A singleton has at most one member.                                     *)
LEMMA AtMostOneOf ==
    ASSUME NEW x
    PROVE  AtMostOne({x})
  BY DEF AtMostOne

(* A set with at most one member is finite and has cardinality at most 1.  *)
LEMMA AtMostOneCardinality ==
    ASSUME NEW S, AtMostOne(S)
    PROVE  Cardinality(S) <= 1
  <1>1. CASE S = {}
    BY <1>1, FS_EmptySet
  <1>2. CASE S # {}
    <2>1. PICK x : x \in S
      BY <1>2
    <2>2. S = {x}
      BY <2>1 DEF AtMostOne
    <2>3. Cardinality({x}) = 1
      BY FS_Singleton, Zenon
    <2>. QED
      BY <2>2, <2>3
  <1>. QED
    BY <1>1, <1>2

(* Every fact of the feed is about a group, a completion about a child.    *)
LEMMA FactTypes ==
    ASSUME NEW e \in Facts
    PROVE  /\ e.group \in Groups
           /\ e.kind \in {"planned", "adopted", "completed"}
           /\ e.kind = "completed" => e.child \in Children
  BY DEF Facts

(* The plan a call or a recoverer reads from a sealed group is a plan.     *)
LEMMA SealedType ==
    ASSUME TypeInv, NEW g \in Groups, group[g] # {}
    PROVE  /\ Sealed(g) \in group[g]
           /\ Sealed(g) \in GroupStates
           /\ Sealed(g).plan \in Plans
           /\ Sealed(g).plan.by \in Calls
           /\ Sealed(g).adopted \in Fences
           /\ Sealed(g).accepted \subseteq Children
           /\ group[g] = {Sealed(g)}
  <1>1. PICK s : s \in group[g]
    OBVIOUS
  <1>2. Sealed(g) = s
    BY <1>1, SealedIs DEF TypeInv
  <1>3. s \in GroupStates
    BY <1>1 DEF TypeInv
  <1>4. s.plan \in Plans /\ s.adopted \in Fences /\ s.accepted \subseteq Children
    BY <1>3 DEF GroupStates
  <1>5. s.plan.by \in Calls
    BY <1>4 DEF Plans
  <1>6. group[g] = {s}
    <2>1. AtMostOne(group[g])
      BY DEF TypeInv
    <2>. QED
      BY <1>1, <2>1, AtMostOneIs
  <1>. QED
    BY <1>1, <1>2, <1>3, <1>4, <1>5, <1>6

(* An append keeps what the feed holds.                                    *)
LEMMA AppendFacts ==
    ASSUME NEW fd \in Seq(Facts), NEW e \in Facts, NEW fd2, fd2 = Append(fd, e)
    PROVE  /\ fd2 \in Seq(Facts)
           /\ Len(fd) \in Nat /\ Len(fd2) = Len(fd) + 1
           /\ fd2[Len(fd) + 1] = e
           /\ \A i \in 1..Len(fd) : fd2[i] = fd[i]
  OBVIOUS

-----------------------------------------------------------------------------
(* What an acceptance and a child's completion make of a set of at most    *)
(* one.                                                                    *)
LEMMA AcceptMaps ==
    ASSUME TypeInv, NEW g \in Groups, NEW k \in Children, AcceptChild(g, k)
    PROVE  /\ group' \in [Groups -> SUBSET GroupStates]
           /\ \A h \in Groups : AtMostOne(group'[h])
           /\ \A h \in Groups : \A b : SealedBy(h, b) => SealedBy(h, b)'
           /\ \A h \in Groups : \A b : SealedBy(h, b)' => SealedBy(h, b)
           /\ \A h \in Groups : \A f : AdoptedBy(h, f) => AdoptedBy(h, f)'
           /\ \A h \in Groups : \A f : AdoptedBy(h, f)' => AdoptedBy(h, f)
           /\ \A h \in Groups : \A j : Accepted(h, j) => Accepted(h, j)'
           /\ Accepted(g, k)'
  <1>. DEFINE With(s) == [s EXCEPT !.accepted = @ \cup {k}]
  <1>1. /\ group[g] = {Sealed(g)} /\ Sealed(g) \in GroupStates
        /\ Sealed(g).accepted \subseteq Children
    BY SealedType DEF AcceptChild, Acceptable, IsSealed
  <1>2. PICK s : s = Sealed(g)
    OBVIOUS
  <1>3. PICK t : t = With(s)
    OBVIOUS
  <1>4. t \in GroupStates /\ t.plan = s.plan /\ t.adopted = s.adopted
        /\ t.accepted = s.accepted \cup {k}
    BY <1>1, <1>2, <1>3 DEF GroupStates
  <1>5. group' = [group EXCEPT ![g] = {t}]
    BY <1>1, <1>2, <1>3 DEF AcceptChild
  <1>6. group \in [Groups -> SUBSET GroupStates]
    BY DEF TypeInv
  <1>7. group'[g] = {t} /\ group[g] = {s} /\ \A h \in Groups : h # g => group'[h] = group[h]
    BY <1>1, <1>2, <1>5, <1>6
  <1>. HIDE DEF With
  <1>8. group' \in [Groups -> SUBSET GroupStates]
    BY <1>4, <1>5, <1>6
  <1>9. \A h \in Groups : AtMostOne(group'[h])
    <2>1. \A h \in Groups : AtMostOne(group[h])
      BY DEF TypeInv
    <2>. QED
      BY <1>7, <2>1, AtMostOneOf
  <1>. QED
    BY <1>4, <1>7, <1>8, <1>9 DEF SealedBy, AdoptedBy, Accepted

(* Opening a child adds its stream or leaves the one there is.             *)
LEMMA OpenMaps ==
    ASSUME TypeInv, NEW g \in Groups, NEW k \in Children, NEW b \in Calls,
           OpenOrVerify(g, k, b)
    PROVE  /\ child' \in [Groups -> [Children -> SUBSET Streams]]
           /\ \A h \in Groups, j \in Children : AtMostOne(child'[h][j])
           /\ \A h \in Groups, j \in Children : child[h][j] # {} => child'[h][j] # {}
           /\ \A h \in Groups, j \in Children : \A s \in child'[h][j] :
                 s \in child[h][j] \/ (h = g /\ j = k /\ s.by = b)
           /\ child'[g][k] # {}
  <1>1. CASE child[g][k] = {}
    <2>1. PICK s : s = [by |-> b, done |-> FALSE]
      OBVIOUS
    <2>2. s \in Streams /\ s.by = b
      BY <2>1 DEF Streams
    <2>3. child' = [child EXCEPT ![g][k] = {s}]
      BY <1>1, <2>1 DEF OpenOrVerify
    <2>4. child \in [Groups -> [Children -> SUBSET Streams]]
      BY DEF TypeInv
    <2>5. /\ child' \in [Groups -> [Children -> SUBSET Streams]]
          /\ child'[g][k] = {s}
          /\ \A h \in Groups, j \in Children : h # g \/ j # k => child'[h][j] = child[h][j]
      BY <2>2, <2>3, <2>4
    <2>6. \A h \in Groups, j \in Children : AtMostOne(child'[h][j])
      <3>1. \A h \in Groups, j \in Children : AtMostOne(child[h][j])
        BY DEF TypeInv
      <3>2. AtMostOne(child'[g][k])
        BY <2>5, AtMostOneOf
      <3>. QED
        BY <3>1, <3>2, <2>5
    <2>. QED
      BY <1>1, <2>2, <2>5, <2>6
  <1>2. CASE child[g][k] # {}
    BY <1>2 DEF OpenOrVerify, TypeInv
  <1>. QED
    BY <1>1, <1>2

(* A child that ends keeps its stream and who opened it.                   *)
LEMMA DoneMaps ==
    ASSUME TypeInv, NEW g \in Groups, NEW k \in Children, ChildCompletes(g, k)
    PROVE  /\ child' \in [Groups -> [Children -> SUBSET Streams]]
           /\ \A h \in Groups, j \in Children : AtMostOne(child'[h][j])
           /\ \A h \in Groups, j \in Children : child[h][j] # {} => child'[h][j] # {}
           /\ \A h \in Groups, j \in Children : \A s \in child'[h][j] :
                 \E t \in child[h][j] : s.by = t.by
  <1>1. PICK s : s \in child[g][k]
    BY DEF ChildCompletes
  <1>2. s \in Streams /\ child[g][k] = {s}
    <2>1. child \in [Groups -> [Children -> SUBSET Streams]] /\ AtMostOne(child[g][k])
      BY DEF TypeInv
    <2>. QED
      BY <1>1, <2>1, AtMostOneIs
  <1>3. PICK t : t = [s EXCEPT !.done = TRUE]
    OBVIOUS
  <1>4. t \in Streams /\ t.by = s.by
    BY <1>2, <1>3 DEF Streams
  <1>5. child' = [child EXCEPT ![g][k] = {t}]
    BY <1>2, <1>3 DEF ChildCompletes
  <1>6. child \in [Groups -> [Children -> SUBSET Streams]]
    BY DEF TypeInv
  <1>7. /\ child' \in [Groups -> [Children -> SUBSET Streams]]
        /\ child'[g][k] = {t}
        /\ \A h \in Groups, j \in Children : h # g \/ j # k => child'[h][j] = child[h][j]
    BY <1>4, <1>5, <1>6
  <1>8. \A h \in Groups, j \in Children : AtMostOne(child'[h][j])
    <2>1. \A h \in Groups, j \in Children : AtMostOne(child[h][j])
      BY DEF TypeInv
    <2>2. AtMostOne(child'[g][k])
      BY <1>7, AtMostOneOf
    <2>. QED
      BY <2>1, <2>2, <1>7
  <1>. QED
    BY <1>1, <1>2, <1>4, <1>7, <1>8

-----------------------------------------------------------------------------
(* What no step undoes.                                                    *)

(* A step under which the spawn step keeps its claim, the groups, the      *)
(* children and the feed grow, and nothing else changes.                   *)
LEMMA StillGrows ==
    ASSUME TypeInv, UNCHANGED <<claims, step, group, child, feed, finisher>>
    PROVE  Grows
  <1>1. claims \in Nat /\ Len(feed) \in Nat
    BY SpawnAssumption DEF TypeInv
  <1>. QED
    BY <1>1 DEF Grows, SealedBy, Accepted, AdoptedBy, HoldsClaim, SpawnCompleted

(* The record of the step with another status and claim.                   *)
LEMMA StepWith ==
    ASSUME NEW s \in StepStates, NEW f \in 0..MaxClaims,
           NEW st \in {"pending", "in_progress", "failed", "completed"}
    PROVE  [s EXCEPT !.status = st, !.fence = f] \in StepStates
  BY DEF StepStates

(* The parent's commands.                                                  *)
LEMMA ParentGrows ==
    ASSUME TypeInv, ClaimOK,
           Claim \/ ExpireStep \/ Transit \/ Pause \/ Resume \/ End
    PROVE  /\ Grows
           /\ TypeInv'
           /\ ClaimOK'
           /\ UNCHANGED <<group, child, feed, through, lease, call, recovery, finisher, faults>>
  <1>. DEFINE Same == UNCHANGED <<group, child, feed, through, lease, call, recovery, finisher, faults>>
  <1>1. claims \in Nat /\ Len(feed) \in Nat /\ claims \in 0..MaxClaims /\ MaxClaims \in Nat
    BY SpawnAssumption DEF TypeInv
  <1>2. step \in StepStates
    BY DEF TypeInv
  <1>3. /\ Same
        /\ claims' \in 0..MaxClaims /\ claims <= claims'
        /\ phase' \in {"running", "paused", "ended"}
        /\ step' \in StepStates
        /\ ClaimOK'
        /\ retired' \subseteq Fences /\ late' \subseteq LateResults
        /\ \A f \in 1..claims : HoldsClaim(f)' => HoldsClaim(f) /\ step'.visit = step.visit
    <2>1. CASE Claim
      <3>1. /\ step'.visit = step.visit /\ step'.home = step.home
            /\ step'.status = "in_progress" /\ step'.fence = claims + 1
        BY <2>1, <1>2 DEF Claim, StepStates
      <3>2. step' \in StepStates
        <4>1. PICK n : n = claims + 1
          OBVIOUS
        <4>2. n \in 0..MaxClaims
          BY <4>1, <2>1, <1>1 DEF Claim
        <4>3. step' = [step EXCEPT !.status = "in_progress", !.fence = n]
          BY <4>1, <2>1 DEF Claim
        <4>. QED
          BY <4>2, <4>3, <1>2, StepWith
      <3>. QED
        BY <2>1, <1>1, <3>1, <3>2 DEF Claim, HoldsClaim, TypeInv, ClaimOK
    <2>2. CASE ExpireStep
      <3>0. PICK f0 : f0 = step.fence
        OBVIOUS
      <3>1. /\ step'.visit = step.visit /\ step'.home = step.home
            /\ step'.status = "failed" /\ step'.fence = 0
        BY <2>2, <1>2 DEF ExpireStep, StepStates
      <3>2. step' \in StepStates
        <4>1. step' = [step EXCEPT !.status = "failed", !.fence = 0] /\ 0 \in 0..MaxClaims
          BY <2>2, <1>1 DEF ExpireStep
        <4>. QED
          BY <4>1, <1>2, StepWith
      <3>3. retired' \subseteq Fences
        <4>1. step.fence \in Fences
          BY <2>2, <1>1, <1>2 DEF ExpireStep, ClaimOK, StepStates, Fences
        <4>. QED
          BY <4>1, <2>2 DEF ExpireStep, RetiredByDeadline, TypeInv
      <3>. QED
        BY <2>2, <1>1, <3>1, <3>2, <3>3 DEF ExpireStep, HoldsClaim, TypeInv, ClaimOK
    <2>3. CASE Transit
      <3>1. CASE step.home /\ step' = [step EXCEPT !.home = FALSE]
        <4>1. /\ step'.visit = step.visit /\ step'.fence = step.fence
              /\ step'.status = step.status /\ step' \in StepStates
          BY <3>1, <1>2 DEF StepStates
        <4>. QED
          BY <4>1, <2>3, <1>1 DEF Transit, HoldsClaim, TypeInv, ClaimOK
      <3>2. CASE ~step.home /\ step.visit < MaxVisits /\ step' = Entered(step.visit + 1)
        <4>1. /\ step'.visit = step.visit + 1 /\ step'.home = TRUE
              /\ step'.status = "pending" /\ step'.fence = 0
          BY <3>2 DEF Entered
        <4>2. step.visit + 1 \in Groups
          BY <3>2, <1>2, SpawnAssumption DEF Groups, StepStates
        <4>3. step' \in StepStates
          BY <3>2, <4>2, <1>1 DEF Entered, StepStates
        <4>4. step.visit \in Nat /\ \A g \in Groups : g \in Nat
          BY <1>2 DEF StepStates, Groups
        <4>5. ClaimOK'
          BY <2>3, <1>1, <4>1, <4>4 DEF Transit, ClaimOK
        <4>. QED
          BY <2>3, <1>1, <4>1, <4>3, <4>5 DEF Transit, HoldsClaim, TypeInv
      <3>. QED
        BY <2>3, <3>1, <3>2 DEF Transit
    <2>4. CASE Pause \/ Resume \/ End
      BY <2>4, <1>1, <1>2 DEF Pause, Resume, End, Live, HoldsClaim, TypeInv, ClaimOK
    <2>. QED
      BY <2>1, <2>2, <2>3, <2>4
  <1>4. Grows
    BY <1>1, <1>3 DEF Grows, SealedBy, Accepted, AdoptedBy, SpawnCompleted
  <1>5. TypeInv'
    BY <1>3 DEF TypeInv
  <1>. QED
    BY <1>3, <1>4, <1>5

(* A result that is applied completes the step of the current visit, under *)
(* its own claim, or fails it, or leaves a late observation.               *)
LEMMA ApplyEffect ==
    ASSUME TypeInv, ClaimOK, NEW f \in 1..claims, NEW result \in Results,
           NEW host \in BOOLEAN, ApplyStepResult(f, result, host)
    PROVE  /\ step' \in StepStates /\ late' \subseteq LateResults
           /\ finisher' \in [Groups -> SUBSET Finishers]
           /\ \A h \in Groups : AtMostOne(finisher'[h])
           /\ ClaimOK'
           /\ UNCHANGED <<phase, claims, retired>>
           /\ \A e \in 1..claims : HoldsClaim(e)' => HoldsClaim(e) /\ step'.visit = step.visit
           /\ \A h \in Groups : SpawnCompleted(h) => finisher'[h] = finisher[h]
           /\ \A h \in Groups :
                \/ finisher'[h] = finisher[h]
                \/ /\ h = step.visit /\ HoldsClaim(f)
                   /\ \A e \in finisher'[h] : e.fence = f /\ e.host = host
  <1>1. /\ claims \in 0..MaxClaims /\ MaxClaims \in Nat /\ step \in StepStates
        /\ finisher \in [Groups -> SUBSET Finishers] /\ late \subseteq LateResults
        /\ \A h \in Groups : AtMostOne(finisher[h])
    BY SpawnAssumption DEF TypeInv
  <1>2. f \in Fences /\ f \in 0..MaxClaims /\ step.visit \in Groups
    BY <1>1 DEF Fences, StepStates
  <1>3. late' \subseteq LateResults
    <2>1. PICK l : l = [fence |-> f, result |-> result]
      OBVIOUS
    <2>2. l \in LateResults
      BY <1>2, <2>1 DEF LateResults
    <2>. QED
      BY <1>1, <2>1, <2>2 DEF ApplyStepResult
  <1>4. CASE ~WasLate(f) /\ ~Retired(f)
    <2>1. HoldsClaim(f) /\ step.status = "in_progress"
      BY <1>4 DEF ApplyStepResult, Accepts, Completes, HoldsClaim
    <2>2. PICK st \in {"failed", "completed"} :
             st = IF result = "failed" THEN "failed" ELSE "completed"
      OBVIOUS
    <2>3. /\ step' = [step EXCEPT !.status = st, !.fence = 0]
          /\ UNCHANGED <<phase, claims, retired>>
      BY <1>1, <1>4, <2>2 DEF ApplyStepResult, StepStates
    <2>4. step'.status = st /\ step'.fence = 0 /\ step'.visit = step.visit
      BY <2>3, <1>1 DEF StepStates
    <2>5. step' \in StepStates
      <3>1. 0 \in 0..MaxClaims
        BY <1>1
      <3>. QED
        BY <3>1, <2>2, <2>3, <1>1, StepWith
    <2>6. \A h \in Groups : finisher[h] # {} => h < step.visit
      BY <2>1 DEF ClaimOK
    <2>7. CASE result = "failed"
      <3>1. finisher' = finisher /\ st = "failed"
        BY <1>4, <2>2, <2>7 DEF ApplyStepResult
      <3>2. ClaimOK'
        BY <1>1, <2>3, <2>4, <2>6, <3>1 DEF ClaimOK
      <3>. QED
        BY <1>1, <1>3, <2>3, <2>4, <2>5, <3>1, <3>2 DEF HoldsClaim
    <2>8. CASE result # "failed"
      <3>1. PICK e : e = [fence |-> f, result |-> result, host |-> host]
        OBVIOUS
      <3>2. e \in Finishers /\ e.fence = f /\ e.host = host
        BY <1>2, <2>8, <3>1 DEF Finishers
      <3>3. finisher' = [finisher EXCEPT ![step.visit] = {e}] /\ st = "completed"
        BY <1>4, <2>2, <2>8, <3>1 DEF ApplyStepResult
      <3>4. /\ finisher' \in [Groups -> SUBSET Finishers]
            /\ finisher'[step.visit] = {e}
            /\ \A h \in Groups : h # step.visit => finisher'[h] = finisher[h]
        BY <1>1, <1>2, <3>2, <3>3
      <3>5. \A h \in Groups : AtMostOne(finisher'[h])
        BY <1>1, <3>4, AtMostOneOf
      <3>6. ClaimOK'
        BY <1>1, <2>3, <2>4, <2>6, <3>3, <3>4 DEF ClaimOK
      <3>7. finisher[step.visit] = {}
        BY <1>2, <2>6 DEF Groups
      <3>. QED
        BY <1>3, <2>1, <2>3, <2>4, <2>5, <3>2, <3>4, <3>5, <3>6, <3>7
           DEF HoldsClaim, SpawnCompleted
    <2>. QED
      BY <2>7, <2>8
  <1>5. CASE ~(~WasLate(f) /\ ~Retired(f))
    <2>1. UNCHANGED <<step, finisher, phase, claims, retired>>
      BY <1>5 DEF ApplyStepResult
    <2>2. ClaimOK'
      BY <2>1 DEF ClaimOK
    <2>. QED
      BY <1>1, <1>3, <2>1, <2>2 DEF HoldsClaim
  <1>. QED
    BY <1>4, <1>5

-----------------------------------------------------------------------------
(* What a call knew stands after any step that only grows.                 *)

(* An effect that landed stays landed.                                     *)
LEMMA DoneKept ==
    ASSUME Grows, NEW e \in Facts, Done(e)
    PROVE  Done(e)'
  <1>1. e.group \in Groups /\ (e.kind = "completed" => e.child \in Children)
    BY FactTypes
  <1>. QED
    BY <1>1 DEF Grows, Done, Opened

(* A claim that answers for a visit does so while it is the step's.        *)
LEMMA AnswersKept ==
    ASSUME Grows, NEW g \in Groups, NEW f \in 1..claims, Answers(f, g)
    PROVE  Answers(f, g)'
  BY DEF Grows, Answers

(* What a call knows, other actors' steps leave true.                      *)
LEMMA CallKept ==
    ASSUME Grows, NEW c \in Tasks, CallOK(c)
    PROVE  CallOK(c)'
  <1>1. c.group \in Groups /\ c.next \in 1..(Width + 1)
    BY DEF Tasks
  <1>2. c.pc # "idle" => c.fence \in 1..claims /\ c.fence \in 1..claims'
    BY DEF Grows, CallOK
  <1>3. c.pc = "open" => (SpawnCompleted(c.group) \/ Answers(c.fence, c.group))'
    <2>. SUFFICES ASSUME c.pc = "open" PROVE (SpawnCompleted(c.group) \/ Answers(c.fence, c.group))'
      OBVIOUS
    <2>1. CASE SpawnCompleted(c.group)
      BY <1>1, <2>1 DEF Grows, SpawnCompleted
    <2>2. CASE Answers(c.fence, c.group)
      BY <1>1, <1>2, <2>2, AnswersKept
    <2>. QED
      BY <2>1, <2>2 DEF CallOK
  <1>. QED
    BY <1>1, <1>2, <1>3 DEF CallOK, Grows

(* What a recoverer knows, other actors' steps leave true.                 *)
LEMMA RecoveryKept ==
    ASSUME TypeInv, Grows, NEW w \in Recoveries, RecoveryOK(w)
    PROVE  RecoveryOK(w)'
  <1>1. CASE w.pc = "idle"
    BY <1>1 DEF RecoveryOK
  <1>2. CASE w.pc # "idle"
    <2>1. w.at \in 1..Len(feed) /\ w.at \in 1..Len(feed') /\ feed'[w.at] = feed[w.at]
      BY <1>2 DEF RecoveryOK, Grows
    <2>2. PICK e \in Facts : e = feed[w.at]
      BY <2>1 DEF TypeInv
    <2>3. e.group \in Groups
      BY FactTypes
    <2>4. w.pc = "settle" => Done(e)'
      BY <2>2, DoneKept DEF RecoveryOK
    <2>5. w.pc = "complete" => /\ Opened(e.group)' /\ w.fence \in 1..claims'
                               /\ Answers(w.fence, e.group)'
      BY <2>2, <2>3, AnswersKept DEF RecoveryOK, Grows, Opened
    <2>6. w.pc = "open" => \A k \in Children : k < w.next => child'[e.group][k] # {}
      BY <2>2, <2>3 DEF RecoveryOK, Grows
    <2>7. feed'[w.at] = e
      BY <2>1, <2>2
    <2>8. /\ w.pc \in {"open", "complete"} => e.kind # "completed"
          /\ w.pc = "accept" => e.kind = "completed"
      BY <2>2 DEF RecoveryOK
    <2>. QED
      BY <2>1, <2>4, <2>5, <2>6, <2>7, <2>8 DEF RecoveryOK
  <1>. QED
    BY <1>1, <1>2
(* A sealed group stays sealed.                                            *)
LEMMA SealedKept ==
    ASSUME Grows, NEW g \in Groups, group[g] # {}
    PROVE  group'[g] # {}
  <1>1. PICK s : s \in group[g]
    OBVIOUS
  <1>2. SealedBy(g, s.plan.by)
    BY <1>1 DEF SealedBy
  <1>3. PICK b : b = s.plan.by
    OBVIOUS
  <1>4. SealedBy(g, b)'
    BY <1>2, <1>3 DEF Grows
  <1>. QED
    BY <1>4 DEF SealedBy

(* Plans and adoptions enter the feed with their group sealed.             *)
LEMMA FeedKept ==
    ASSUME TypeInv, Grows, FeedOK,
           \/ feed' = feed
           \/ \E e \in Facts : /\ feed' = Append(feed, e)
                               /\ e.kind # "completed" => group'[e.group] # {}
    PROVE  FeedOK'
  <1>0. feed \in Seq(Facts)
    BY DEF TypeInv
  <1>1. \A i \in 1..Len(feed) : feed'[i] = feed[i] /\ feed[i] \in Facts
    BY <1>0 DEF Grows
  <1>2. \A i \in 1..Len(feed) : feed[i].kind # "completed" => group'[feed'[i].group] # {}
    BY <1>1, SealedKept, FactTypes DEF FeedOK
  <1>3. CASE feed' = feed
    BY <1>1, <1>2, <1>3 DEF FeedOK
  <1>4. ASSUME NEW e \in Facts, feed' = Append(feed, e),
               e.kind # "completed" => group'[e.group] # {}
        PROVE  FeedOK'
    <2>1. PICK fd : fd = feed'
      OBVIOUS
    <2>2. Len(fd) = Len(feed) + 1 /\ fd[Len(feed) + 1] = e /\ Len(feed) \in Nat
      BY <1>0, <1>4, <2>1, AppendFacts
    <2>3. \A i \in 1..Len(fd) : fd[i].kind # "completed" => group'[fd[i].group] # {}
      BY <2>1, <2>2, <1>1, <1>2, <1>4
    <2>. QED
      BY <2>1, <2>3 DEF FeedOK
  <1>. QED
    BY <1>3, <1>4

(* A claim that was of a visit stays of it.                                *)
LEMMA IsClaimKept ==
    ASSUME Grows, NEW g \in Groups, NEW f, IsClaimOf(f, g)
    PROVE  IsClaimOf(f, g)'
  <1>1. f \in 1..claims /\ f \in 1..claims'
    BY DEF Grows, IsClaimOf
  <1>. QED
    BY <1>1 DEF Grows, IsClaimOf

(* A group is adopted by claims of its own visit.                          *)
LEMMA AdopterKept ==
    ASSUME Grows, AdopterOK,
           \A g \in Groups : \A s \in group'[g] :
              (\E t \in group[g] : t.adopted = s.adopted) \/ IsClaimOf(s.adopted, g)'
    PROVE  AdopterOK'
  <1>. SUFFICES ASSUME NEW g \in Groups, NEW s \in group'[g], NEW t \in group[g],
                       t.adopted = s.adopted
                PROVE  \E f : f = s.adopted /\ IsClaimOf(f, g)'
    BY DEF AdopterOK, IsClaimOf, HoldsClaim
  <1>1. IsClaimOf(t.adopted, g)
    BY DEF AdopterOK
  <1>2. PICK f : f = t.adopted
    OBVIOUS
  <1>. QED
    BY <1>1, <1>2, IsClaimKept

(* Children stay those of the sealed plan.                                 *)
LEMMA ChildKept ==
    ASSUME Grows, ChildOK, child' = child
    PROVE  ChildOK'
  BY DEF Grows, ChildOK

(* A completed spawn stays completed by its adopter.                       *)
LEMMA FinishKept ==
    ASSUME Grows, FinishOK, finisher' = finisher
    PROVE  FinishOK'
  <1>. SUFFICES ASSUME NEW g \in Groups, NEW e \in finisher[g], ~e.host
                PROVE  AdoptedBy(g, e.fence)' /\ Opened(g)'
    BY DEF FinishOK
  <1>1. PICK f : f = e.fence
    OBVIOUS
  <1>2. AdoptedBy(g, f) /\ FinishedBy(g, f) /\ Opened(g)
    BY <1>1 DEF FinishOK, FinishedBy
  <1>3. AdoptedBy(g, f)' /\ Opened(g)'
    BY <1>2 DEF Grows, Opened
  <1>. QED
    BY <1>1, <1>3 DEF AdoptedBy

(* What the cursor passed stays done.                                      *)
LEMMA CursorKept ==
    ASSUME TypeInv, Grows, CursorOK, through' = through
    PROVE  CursorOK'
  <1>. SUFFICES ASSUME NEW i \in 1..through PROVE Done(feed[i])'
    BY DEF CursorOK
  <1>1. i \in 1..Len(feed) /\ feed[i] \in Facts
    BY DEF TypeInv
  <1>2. PICK e \in Facts : e = feed[i]
    BY <1>1
  <1>3. feed'[i] = e
    BY <1>1, <1>2 DEF Grows
  <1>4. Done(e)'
    BY <1>2, DoneKept DEF CursorOK
  <1>. QED
    BY <1>3, <1>4

(* A step that only grows keeps the invariant, if those who took it know   *)
(* what they should.                                                       *)
LEMMA Frame ==
    ASSUME IInv, Grows, TypeInv', ClaimOK', AdopterOK', FeedOK', ChildOK', FinishOK', CursorOK', LeaseOK',
           \A q \in Calls : call'[q] = call[q] \/ CallOK(call[q])',
           \A r \in Recoverers : recovery'[r] = recovery[r] \/ RecoveryOK(recovery[r])'
    PROVE  IInv'
  <1>1. CallsOK'
    <2>. SUFFICES ASSUME NEW q \in Calls, call'[q] = call[q] PROVE CallOK(call[q])'
      BY DEF CallsOK
    <2>1. PICK c \in Tasks : c = call[q]
      BY DEF IInv, TypeInv
    <2>2. CallOK(c)'
      BY <2>1, CallKept DEF IInv, CallsOK
    <2>3. call'[q] = c
      BY <2>1
    <2>. QED
      BY <2>2, <2>3
  <1>2. RecoveriesOK'
    <2>. SUFFICES ASSUME NEW r \in Recoverers, recovery'[r] = recovery[r]
                  PROVE  RecoveryOK(recovery[r])'
      BY DEF RecoveriesOK
    <2>1. PICK w \in Recoveries : w = recovery[r]
      BY DEF IInv, TypeInv
    <2>2. RecoveryOK(w)'
      BY <2>1, RecoveryKept DEF IInv, RecoveriesOK
    <2>3. recovery'[r] = w
      BY <2>1
    <2>. QED
      BY <2>2, <2>3
  <1>. QED
    BY <1>1, <1>2 DEF IInv

(* The parent's commands keep the invariant.                               *)
LEMMA ParentKeeps ==
    ASSUME IInv, Claim \/ ExpireStep \/ Transit \/ Pause \/ Resume \/ End
    PROVE  IInv'
  <1>1. TypeInv /\ ClaimOK /\ AdopterOK /\ FeedOK /\ ChildOK /\ FinishOK /\ CursorOK /\ LeaseOK
    BY DEF IInv
  <1>2. /\ Grows /\ TypeInv' /\ ClaimOK'
        /\ UNCHANGED <<group, child, feed, through, lease, call, recovery, finisher, faults>>
    BY <1>1, ParentGrows
  <1>3. FeedOK' /\ ChildOK' /\ FinishOK' /\ CursorOK'
    BY <1>1, <1>2, FeedKept, ChildKept, FinishKept, CursorKept
  <1>4. LeaseOK'
    BY <1>1, <1>2 DEF LeaseOK
  <1>5. AdopterOK'
    BY <1>1, <1>2, AdopterKept
  <1>. QED
    BY <1>2, <1>3, <1>4, <1>5, Frame

-----------------------------------------------------------------------------
(* The calls.                                                              *)

(* A call and a recoverer at rest are well formed.                         *)
LEMMA IdleOK == Idle \in Tasks /\ Idle.pc = "idle" /\ Rest \in Recoveries /\ Rest.pc = "idle"
  BY SpawnAssumption DEF Idle, Tasks, Rest, Recoveries, Groups

(* A call that only moves on keeps the invariant.                          *)
LEMMA CallMoves ==
    ASSUME IInv, NEW p \in Calls, NEW t \in Tasks, call' = [call EXCEPT ![p] = t], CallOK(t)',
           UNCHANGED <<parent, group, child, feed, through, lease, recovery, finisher, faults>>
    PROVE  IInv'
  <1>1. TypeInv /\ ClaimOK /\ AdopterOK /\ FeedOK /\ ChildOK /\ FinishOK /\ CursorOK /\ LeaseOK
    BY DEF IInv
  <1>2. Grows
    BY <1>1, StillGrows DEF parent
  <1>3. TypeInv' /\ ClaimOK'
    BY <1>1 DEF TypeInv, ClaimOK, parent
  <1>4. FeedOK' /\ ChildOK' /\ FinishOK' /\ CursorOK'
    BY <1>1, <1>2, FeedKept, ChildKept, FinishKept, CursorKept
  <1>5. LeaseOK'
    BY <1>1 DEF LeaseOK
  <1>6. call'[p] = t /\ \A q \in Calls : q # p => call'[q] = call[q]
    BY <1>1 DEF TypeInv
  <1>7. \A q \in Calls : call'[q] = call[q] \/ CallOK(call[q])'
    BY <1>6
  <1>8. AdopterOK'
    BY <1>1, <1>2, AdopterKept
  <1>. QED
    BY <1>2, <1>3, <1>4, <1>5, <1>7, <1>8, Frame

(* A call that gives up or dies keeps the invariant.                       *)
LEMMA GiveUpKeeps ==
    ASSUME IInv, NEW p \in Calls, GiveUp(p), UNCHANGED <<through, lease, recovery, faults>>
    PROVE  IInv'
  <1>1. CallOK(Idle)'
    BY IdleOK DEF CallOK
  <1>. QED
    BY <1>1, IdleOK, CallMoves DEF GiveUp

(* A call that reads the session, and the plan if there is one.            *)
LEMMA PrepareKeeps ==
    ASSUME IInv, NEW p \in Calls, NEW f \in Fences, Prepare(p, f)
    PROVE  IInv'
  <1>. DEFINE g == step.visit
  <1>1. TypeInv /\ ClaimOK /\ g \in Groups /\ claims \in Nat /\ f \in 1..claims
        /\ f \in 0..MaxClaims /\ claims' = claims
    BY SpawnAssumption DEF IInv, TypeInv, StepStates, Prepare, Fences, parent
  <1>2. CASE IsSealed(g)
    <2>1. PICK b : b = Sealed(g).plan.by
      OBVIOUS
    <2>2. b \in Calls /\ SealedBy(g, b)
      BY <1>1, <1>2, <2>1, SealedType DEF IsSealed, SealedBy
    <2>3. PICK pc \in {"verify", "adopt"} : pc = IF SpawnCompleted(g) THEN "verify" ELSE "adopt"
      OBVIOUS
    <2>4. PICK t : t = [pc |-> pc, fence |-> f, group |-> g, by |-> {b}, next |-> 1]
      OBVIOUS
    <2>5. call' = [call EXCEPT ![p] = t]
      BY <1>2, <2>1, <2>3, <2>4 DEF Prepare, Idle
    <2>6. t \in Tasks
      BY <1>1, <2>2, <2>3, <2>4, SpawnAssumption DEF Tasks
    <2>7. SealedBy(g, b)' /\ g' = g
      BY <2>2 DEF Prepare, SealedBy, parent
    <2>8. /\ t.pc = pc /\ t.fence = f /\ t.group = g /\ t.by = {b} /\ t.next = 1
      BY <2>4
    <2>. HIDE DEF g
    <2>9. CallOK(t)'
      BY <1>1, <2>2, <2>3, <2>7, <2>8 DEF CallOK, Children
    <2>. QED
      BY <2>5, <2>6, <2>9, CallMoves DEF Prepare
  <1>3. CASE ~IsSealed(g)
    <2>4. PICK t : t = [pc |-> "seal", fence |-> f, group |-> g, by |-> {p}, next |-> 1]
      OBVIOUS
    <2>5. call' = [call EXCEPT ![p] = t]
      BY <1>3, <2>4 DEF Prepare, Idle
    <2>6. t \in Tasks
      BY <1>1, <2>4, SpawnAssumption DEF Tasks
    <2>7. CallOK(t)'
      BY <1>1, <2>4 DEF CallOK
    <2>. QED
      BY <2>5, <2>6, <2>7, CallMoves DEF Prepare
  <1>. QED
    BY <1>2, <1>3
(* A group that is sealed, or adopted by the claim the step has now, and   *)
(* the fact that goes with it.                                             *)
LEMMA GroupAppendKeeps ==
    ASSUME IInv, NEW g \in Groups, NEW x \in GroupStates, NEW p \in Calls, NEW t \in Tasks,
           NEW e \in Facts, e.group = g,
           group' = [group EXCEPT ![g] = {x}],
           feed' = Append(feed, e),
           call' = [call EXCEPT ![p] = t],
           CallOK(t)',
           \A s \in group[g] : s.plan = x.plan /\ s.accepted = x.accepted,
           \A f : AdoptedBy(g, f) /\ (HoldsClaim(f) \/ FinishedBy(g, f)) => x.adopted = f,
           IsClaimOf(x.adopted, g),
           UNCHANGED <<parent, child, finisher, through, lease, recovery, faults>>
    PROVE  IInv'
  <1>1. TypeInv /\ ClaimOK /\ AdopterOK /\ FeedOK /\ ChildOK /\ FinishOK /\ CursorOK /\ LeaseOK
    BY DEF IInv
  <1>2. /\ group \in [Groups -> SUBSET GroupStates] /\ feed \in Seq(Facts)
        /\ call \in [Calls -> Tasks] /\ claims \in Nat
    BY <1>1, SpawnAssumption DEF TypeInv
  <1>3. group'[g] = {x} /\ \A h \in Groups : h # g => group'[h] = group[h]
    BY <1>2
  <1>4. PICK fd : fd = feed'
    OBVIOUS
  <1>5. /\ fd \in Seq(Facts) /\ Len(feed) \in Nat /\ Len(fd) = Len(feed) + 1
        /\ \A i \in 1..Len(feed) : fd[i] = feed[i]
    BY <1>2, <1>4, AppendFacts
  <1>6. TypeInv' /\ ClaimOK'
    <2>1. group' \in [Groups -> SUBSET GroupStates]
      BY <1>2
    <2>2. \A h \in Groups : AtMostOne(group'[h])
      <3>1. \A h \in Groups : AtMostOne(group[h])
        BY <1>1 DEF TypeInv
      <3>2. AtMostOne(group'[g])
        BY <1>3, AtMostOneOf
      <3>. QED
        BY <1>3, <3>1, <3>2
    <2>3. feed' \in Seq(Facts) /\ through' \in 0..Len(feed')
      BY <1>1, <1>4, <1>5 DEF TypeInv
    <2>4. call' \in [Calls -> Tasks]
      BY <1>2
    <2>. QED
      BY <1>1, <2>1, <2>2, <2>3, <2>4 DEF TypeInv, ClaimOK, parent
  <1>7. Grows
    <2>1. \A h \in Groups : \A b : SealedBy(h, b) => SealedBy(h, b)'
      BY <1>3 DEF SealedBy
    <2>2. \A h \in Groups : \A k : Accepted(h, k) => Accepted(h, k)'
      BY <1>3 DEF Accepted
    <2>3. \A h \in Groups : \A f :
            AdoptedBy(h, f) /\ (HoldsClaim(f) \/ FinishedBy(h, f)) => AdoptedBy(h, f)'
      BY <1>3 DEF AdoptedBy
    <2>4. claims' = claims /\ step' = step
      BY DEF parent
    <2>5. Len(feed) \in Nat /\ Len(feed') \in Nat /\ Len(feed) <= Len(feed')
          /\ \A i \in 1..Len(feed) : feed'[i] = feed[i]
      BY <1>4, <1>5
    <2>. QED
      BY <1>2, <2>1, <2>2, <2>3, <2>4, <2>5 DEF Grows, HoldsClaim
  <1>8. FeedOK'
    <2>1. group'[e.group] # {}
      BY <1>3
    <2>. QED
      BY <1>1, <1>7, <2>1, FeedKept
  <1>9. ChildOK' /\ FinishOK' /\ CursorOK'
    BY <1>1, <1>7, ChildKept, FinishKept, CursorKept
  <1>10. LeaseOK'
    BY <1>1 DEF LeaseOK
  <1>11. \A q \in Calls : call'[q] = call[q] \/ CallOK(call[q])'
    <2>1. call'[p] = t /\ \A q \in Calls : q # p => call'[q] = call[q]
      BY <1>2
    <2>. QED
      BY <2>1
  <1>12. AdopterOK'
    <2>1. PICK f : f = x.adopted
      OBVIOUS
    <2>2. IsClaimOf(f, g)'
      BY <1>7, <2>1, IsClaimKept
    <2>3. \A s \in group'[g] : s.adopted = f
      BY <1>3, <2>1
    <2>4. \A s \in group'[g] : IsClaimOf(s.adopted, g)'
      BY <2>2, <2>3 DEF IsClaimOf, HoldsClaim
    <2>. QED
      BY <1>1, <1>3, <1>7, <2>4, AdopterKept
  <1>. QED
    BY <1>6, <1>7, <1>8, <1>9, <1>10, <1>11, <1>12, Frame

(* The append of the plan, or the plan another call sealed first.          *)
LEMMA SealKeeps ==
    ASSUME IInv, NEW p \in Calls, Seal(p)
    PROVE  IInv'
  <1>1. TypeInv /\ call[p] \in Tasks /\ CallOK(call[p]) /\ call[p].pc = "seal"
    BY DEF IInv, TypeInv, CallsOK, Seal
  <1>2. PICK c \in Tasks : c = call[p]
    BY <1>1
  <1>3. PICK g \in Groups : g = c.group
    BY DEF Tasks
  <1>4. PICK f : f = c.fence
    OBVIOUS
  <1>5. f \in 1..claims /\ f \in Fences /\ claims \in Nat /\ c.next = 1 /\ c.pc = "seal"
    BY <1>1, <1>2, <1>4, SpawnAssumption DEF CallOK, TypeInv, Fences
  <1>6. UNCHANGED <<through, lease, recovery, faults>>
    BY DEF Seal
  <1>7. CASE GiveUp(p)
    BY <1>6, <1>7, GiveUpKeeps
  <1>8. CASE /\ ~IsSealed(g)
             /\ IsCurrent(g)
             /\ group' = [group EXCEPT ![g] =
                  {[plan |-> [fence |-> f, by |-> p], adopted |-> f, accepted |-> {}]}]
             /\ feed' = Append(feed, [kind |-> "planned", group |-> g])
             /\ ToAdopt(p, [fence |-> f, by |-> p])
             /\ UNCHANGED <<parent, child, finisher>>
    <2>1. PICK x : x = [plan |-> [fence |-> f, by |-> p], adopted |-> f, accepted |-> {}]
      OBVIOUS
    <2>2. x \in GroupStates /\ x.plan.by = p /\ x.adopted = f
      BY <1>5, <2>1 DEF GroupStates, Plans
    <2>3. PICK e : e = [kind |-> "planned", group |-> g]
      OBVIOUS
    <2>4. e \in Facts /\ e.group = g
      BY <2>3 DEF Facts
    <2>5. PICK t : t = [c EXCEPT !.pc = "adopt", !.by = {p}]
      OBVIOUS
    <2>6. /\ t \in Tasks /\ t.pc = "adopt" /\ t.by = {p} /\ t.next = 1
          /\ t.fence = f /\ t.group = g
      BY <1>3, <1>4, <1>5, <2>5 DEF Tasks
    <2>7. call' = [call EXCEPT ![p] = t]
      BY <1>2, <1>8, <2>5 DEF ToAdopt, PlanToOpen
    <2>8. group' = [group EXCEPT ![g] = {x}] /\ feed' = Append(feed, e) /\ group[g] = {}
      BY <1>8, <2>1, <2>3 DEF IsSealed
    <2>9. SealedBy(g, p)'
      BY <1>1, <2>2, <2>8 DEF SealedBy, TypeInv
    <2>10. CallOK(t)'
      BY <1>5, <1>8, <2>6, <2>9 DEF CallOK, parent
    <2>11. /\ \A s \in group[g] : s.plan = x.plan /\ s.accepted = x.accepted
           /\ \A h : AdoptedBy(g, h) /\ (HoldsClaim(h) \/ FinishedBy(g, h)) => x.adopted = h
      BY <2>8 DEF AdoptedBy
    <2>12. IsClaimOf(x.adopted, g)
      BY <1>5, <1>8, <2>2 DEF IsClaimOf, IsCurrent
    <2>. QED
      BY <1>6, <1>8, <2>2, <2>4, <2>6, <2>7, <2>8, <2>10, <2>11, <2>12, GroupAppendKeeps
  <1>9. CASE /\ SameRequestIsSealed(g, f)
             /\ UNCHANGED <<parent, group, child, feed, finisher>>
             /\ ToAdopt(p, Sealed(g).plan)
    <2>1. PICK b : b = Sealed(g).plan.by
      OBVIOUS
    <2>2. b \in Calls /\ SealedBy(g, b)
      BY <1>1, <1>9, <2>1, SealedType DEF SameRequestIsSealed, IsSealed, SealedBy
    <2>3. PICK t : t = [c EXCEPT !.pc = "adopt", !.by = {b}]
      OBVIOUS
    <2>4. /\ t \in Tasks /\ t.pc = "adopt" /\ t.by = {b} /\ t.next = 1
          /\ t.fence = f /\ t.group = g
      BY <1>3, <1>4, <1>5, <2>2, <2>3 DEF Tasks
    <2>5. call' = [call EXCEPT ![p] = t]
      BY <1>2, <1>9, <2>1, <2>3 DEF ToAdopt, PlanToOpen
    <2>6. SealedBy(g, b)' /\ claims' = claims
      BY <1>9, <2>2 DEF SealedBy, parent
    <2>7. CallOK(t)'
      BY <1>5, <2>2, <2>4, <2>6 DEF CallOK
    <2>. QED
      BY <1>6, <1>9, <2>4, <2>5, <2>7, CallMoves
  <1>. QED
    BY <1>2, <1>3, <1>4, <1>7, <1>8, <1>9 DEF Seal

(* The append of an adoption.                                              *)
LEMMA AdoptKeeps ==
    ASSUME IInv, NEW p \in Calls, Adopt(p)
    PROVE  IInv'
  <1>1. TypeInv /\ call[p] \in Tasks /\ CallOK(call[p]) /\ call[p].pc = "adopt"
    BY DEF IInv, TypeInv, CallsOK, Adopt
  <1>2. PICK c \in Tasks : c = call[p]
    BY <1>1
  <1>3. PICK g \in Groups : g = c.group
    BY DEF Tasks
  <1>4. PICK f : f = c.fence
    OBVIOUS
  <1>5. /\ f \in 1..claims /\ f \in Fences /\ claims \in Nat /\ c.next = 1 /\ c.pc = "adopt"
    BY <1>1, <1>2, <1>4, SpawnAssumption DEF CallOK, TypeInv, Fences
  <1>6. PICK b \in Calls : c.by = {b} /\ SealedBy(g, b)
    BY <1>1, <1>2, <1>3 DEF CallOK
  <1>7. group[g] # {}
    BY <1>6 DEF SealedBy
  <1>8. PICK s : s = Sealed(g)
    OBVIOUS
  <1>9. s \in GroupStates /\ group[g] = {s} /\ s.plan.by = b
    BY <1>1, <1>6, <1>7, <1>8, SealedType DEF SealedBy
  <1>10. UNCHANGED <<through, lease, recovery, faults>>
    BY DEF Adopt
  <1>11. PICK t : t = [c EXCEPT !.pc = "open"]
    OBVIOUS
  <1>12. /\ t \in Tasks /\ t.pc = "open" /\ t.by = {b} /\ t.next = 1
         /\ t.fence = f /\ t.group = g
    BY <1>3, <1>4, <1>5, <1>6, <1>11 DEF Tasks
  <1>13. CASE GiveUp(p)
    BY <1>10, <1>13, GiveUpKeeps
  <1>14. CASE /\ CompletedAsPlanned(g) \/ (~SpawnCompleted(g) /\ s.adopted = f)
              /\ UNCHANGED <<parent, group, child, feed, finisher>>
              /\ call' = [call EXCEPT ![p].pc = "open"]
    <2>1. call' = [call EXCEPT ![p] = t]
      BY <1>2, <1>11, <1>14
    <2>2. SpawnCompleted(g) \/ Answers(f, g)
      <3>1. AdopterOK
        BY DEF IInv
      <3>2. CompletedAsPlanned(g) => SpawnCompleted(g)
        BY DEF CompletedAsPlanned, SpawnCompleted
      <3>. QED
        BY <1>9, <1>14, <3>1, <3>2 DEF Answers, AdopterOK, IsClaimOf, AdoptedBy
    <2>3. (SpawnCompleted(g) \/ Answers(f, g))' /\ SealedBy(g, b)' /\ claims' = claims
      BY <1>6, <1>14, <2>2
         DEF SpawnCompleted, Answers, HoldsClaim, AdoptedBy, SealedBy, parent
    <2>4. CallOK(t)'
      BY <1>5, <1>12, <2>3 DEF CallOK, Children
    <2>. QED
      BY <1>10, <1>12, <1>14, <2>1, <2>4, CallMoves
  <1>15. CASE /\ ~SpawnCompleted(g) /\ Adoptable(g, f)
              /\ group' = [group EXCEPT ![g] = {[s EXCEPT !.adopted = f]}]
              /\ feed' = Append(feed, [kind |-> "adopted", group |-> g])
              /\ call' = [call EXCEPT ![p].pc = "open"]
              /\ UNCHANGED <<parent, child, finisher>>
    <2>1. PICK x : x = [s EXCEPT !.adopted = f]
      OBVIOUS
    <2>2. x \in GroupStates /\ x.plan = s.plan /\ x.adopted = f /\ x.accepted = s.accepted
      BY <1>5, <1>9, <2>1 DEF GroupStates
    <2>3. PICK e : e = [kind |-> "adopted", group |-> g]
      OBVIOUS
    <2>4. e \in Facts /\ e.group = g
      BY <2>3 DEF Facts
    <2>5. call' = [call EXCEPT ![p] = t]
      BY <1>2, <1>11, <1>15
    <2>6. group' = [group EXCEPT ![g] = {x}] /\ feed' = Append(feed, e)
      BY <1>15, <2>1, <2>3
    <2>7. group'[g] = {x}
      BY <1>1, <2>6 DEF TypeInv
    <2>8. SealedBy(g, b)' /\ AdoptedBy(g, f)'
      BY <1>9, <2>2, <2>7 DEF SealedBy, AdoptedBy
    <2>9. Answers(f, g)'
      BY <1>15, <2>8 DEF Answers, Adoptable, IsCurrent, parent
    <2>10. CallOK(t)'
      BY <1>5, <1>12, <1>15, <2>8, <2>9 DEF CallOK, parent, Children
    <2>11. /\ \A y \in group[g] : y.plan = x.plan /\ y.accepted = x.accepted
           /\ \A h : AdoptedBy(g, h) /\ (HoldsClaim(h) \/ FinishedBy(g, h)) => x.adopted = h
      <3>1. \A h : AdoptedBy(g, h) => h = s.adopted /\ h \in Fences
        BY <1>9 DEF AdoptedBy, GroupStates
      <3>2. \A h : HoldsClaim(h) => h = f
        BY <1>15 DEF Adoptable, HoldsClaim
      <3>3. \A h : ~FinishedBy(g, h)
        BY <1>15 DEF SpawnCompleted, FinishedBy
      <3>. QED
        BY <1>9, <2>2, <3>1, <3>2, <3>3 DEF Fences
    <2>12. IsClaimOf(x.adopted, g)
      BY <1>5, <1>15, <2>2 DEF IsClaimOf, IsCurrent, Adoptable
    <2>13. UNCHANGED <<parent, child, finisher, through, lease, recovery, faults>>
      BY <1>10, <1>15
    <2>. QED
      BY <1>12, <2>2, <2>4, <2>5, <2>6, <2>10, <2>11, <2>12, <2>13, GroupAppendKeeps
  <1>. QED
    BY <1>2, <1>3, <1>4, <1>8, <1>13, <1>14, <1>15 DEF Adopt
(* Opening a child of the sealed plan, by a call or by a recoverer.        *)
LEMMA OpenGrows ==
    ASSUME IInv, NEW g \in Groups, NEW k \in Children, NEW b \in Calls, SealedBy(g, b),
           OpenOrVerify(g, k, b),
           UNCHANGED <<parent, group, feed, finisher, through, faults>>,
           call' \in [Calls -> Tasks], recovery' \in [Recoverers -> Recoveries],
           lease' \subseteq lease
    PROVE  /\ Grows /\ TypeInv' /\ ClaimOK' /\ AdopterOK' /\ FeedOK' /\ ChildOK' /\ FinishOK' /\ CursorOK'
           /\ child'[g][k] # {}
  <1>1. TypeInv /\ ClaimOK /\ AdopterOK /\ FeedOK /\ ChildOK /\ FinishOK /\ CursorOK
    BY DEF IInv
  <1>2. /\ child' \in [Groups -> [Children -> SUBSET Streams]]
        /\ \A h \in Groups, j \in Children : AtMostOne(child'[h][j])
        /\ \A h \in Groups, j \in Children : child[h][j] # {} => child'[h][j] # {}
        /\ \A h \in Groups, j \in Children : \A s \in child'[h][j] :
              s \in child[h][j] \/ (h = g /\ j = k /\ s.by = b)
        /\ child'[g][k] # {}
    BY <1>1, OpenMaps
  <1>3. claims \in Nat /\ Len(feed) \in Nat /\ claims' = claims /\ step' = step
    BY <1>1, SpawnAssumption DEF TypeInv, parent
  <1>4. Grows
    BY <1>2, <1>3 DEF Grows, SealedBy, Accepted, AdoptedBy, HoldsClaim, SpawnCompleted
  <1>5. lease' \subseteq Recoverers /\ AtMostOne(lease')
    BY <1>1 DEF TypeInv, AtMostOne
  <1>6. TypeInv' /\ ClaimOK'
    BY <1>1, <1>2, <1>5 DEF TypeInv, ClaimOK, parent
  <1>7. ChildOK'
    BY <1>1, <1>2 DEF ChildOK, SealedBy
  <1>8. AdopterOK'
    BY <1>1, <1>4, AdopterKept
  <1>. QED
    BY <1>1, <1>2, <1>4, <1>6, <1>7, <1>8, FeedKept, FinishKept, CursorKept

(* A call opens or verifies one child.                                     *)
LEMMA OpenChildKeeps ==
    ASSUME IInv, NEW p \in Calls, OpenChild(p)
    PROVE  IInv'
  <1>1. TypeInv /\ call[p] \in Tasks /\ CallOK(call[p])
    BY DEF IInv, TypeInv, CallsOK
  <1>2. PICK c \in Tasks : c = call[p]
    BY <1>1
  <1>3. c.pc \in {"open", "verify"} /\ c.next <= Width
    BY <1>2 DEF OpenChild
  <1>4. PICK g \in Groups : g = c.group
    BY DEF Tasks
  <1>5. PICK k \in Children : k = c.next
    BY <1>3 DEF Tasks, Children
  <1>6. PICK b \in Calls : c.by = {b} /\ SealedBy(g, b)
    BY <1>1, <1>2, <1>3, <1>4 DEF CallOK
  <1>7. b = CHOOSE x \in c.by : TRUE
    BY <1>6
  <1>8. PICK t : t = IF IsForeign(g, k, b) THEN Idle ELSE [c EXCEPT !.next = @ + 1]
    OBVIOUS
  <1>9. /\ OpenOrVerify(g, k, b)
        /\ call' = [call EXCEPT ![p] = t]
        /\ UNCHANGED <<parent, group, feed, finisher, through, lease, recovery, faults>>
    BY <1>2, <1>4, <1>5, <1>7, <1>8 DEF OpenChild
  <1>10. PICK u : u = [c EXCEPT !.next = @ + 1]
    OBVIOUS
  <1>11. /\ u \in Tasks /\ u.next = k + 1 /\ u.pc = c.pc /\ u.fence = c.fence
         /\ u.group = g /\ u.by = {b}
    <2>1. PICK n : n = k + 1
      OBVIOUS
    <2>2. n \in 1..(Width + 1) /\ u = [c EXCEPT !.next = n]
      BY <1>5, <1>10, <2>1, SpawnAssumption DEF Children
    <2>. QED
      BY <1>4, <1>6, <2>1, <2>2 DEF Tasks
  <1>12. t \in Tasks
    BY <1>8, <1>10, <1>11, IdleOK
  <1>13. call' \in [Calls -> Tasks] /\ recovery' \in [Recoverers -> Recoveries]
    BY <1>1, <1>9, <1>12 DEF TypeInv
  <1>14. /\ Grows /\ TypeInv' /\ ClaimOK' /\ AdopterOK' /\ FeedOK' /\ ChildOK' /\ FinishOK' /\ CursorOK'
         /\ child'[g][k] # {}
    BY <1>6, <1>9, <1>13, OpenGrows
  <1>15. CallOK(t)'
    <2>1. CASE t = Idle
      BY <2>1, IdleOK DEF CallOK
    <2>2. CASE t = u
      <3>1. CallOK(c)'
        BY <1>1, <1>2, <1>14, CallKept
      <3>2. \A j \in Children : j < k + 1 => child'[g][j] # {}
        BY <1>3, <1>4, <1>5, <1>14, <3>1, SpawnAssumption DEF CallOK, Children
      <3>3. /\ c.fence \in 1..claims' /\ \E x \in Calls : c.by = {x} /\ SealedBy(g, x)'
            /\ c.pc = "open" => SpawnCompleted(g)' \/ Answers(c.fence, g)'
        BY <1>3, <1>4, <3>1 DEF CallOK
      <3>. QED
        BY <1>3, <1>4, <1>6, <1>11, <2>2, <3>2, <3>3 DEF CallOK
    <2>. QED
      BY <1>8, <1>10, <2>1, <2>2
  <1>16. call'[p] = t /\ \A q \in Calls : q # p => call'[q] = call[q]
    BY <1>1, <1>9 DEF TypeInv
  <1>17. \A q \in Calls : call'[q] = call[q] \/ CallOK(call[q])'
    BY <1>15, <1>16
  <1>18. LeaseOK'
    BY <1>9 DEF IInv, LeaseOK
  <1>. QED
    BY <1>9, <1>14, <1>17, <1>18, Frame

(* Completing the step with a result, by a call or by a recoverer.         *)
LEMMA ApplyGrows ==
    ASSUME IInv, NEW g \in Groups, NEW f \in 1..claims, NEW result \in Results,
           NEW host \in BOOLEAN, ApplyStepResult(f, result, host),
           ~host => Answers(f, g) /\ Opened(g),
           UNCHANGED <<group, child, feed, through, lease, faults>>,
           call' \in [Calls -> Tasks], recovery' \in [Recoverers -> Recoveries]
    PROVE  Grows /\ TypeInv' /\ ClaimOK' /\ AdopterOK' /\ FeedOK' /\ ChildOK' /\ FinishOK' /\ CursorOK'
  <1>1. TypeInv /\ ClaimOK /\ AdopterOK /\ FeedOK /\ ChildOK /\ FinishOK /\ CursorOK
    BY DEF IInv
  <1>2. /\ step' \in StepStates /\ late' \subseteq LateResults
        /\ finisher' \in [Groups -> SUBSET Finishers]
        /\ \A h \in Groups : AtMostOne(finisher'[h])
        /\ ClaimOK'
        /\ UNCHANGED <<phase, claims, retired>>
        /\ \A e \in 1..claims : HoldsClaim(e)' => HoldsClaim(e) /\ step'.visit = step.visit
        /\ \A h \in Groups : SpawnCompleted(h) => finisher'[h] = finisher[h]
        /\ \A h \in Groups :
             \/ finisher'[h] = finisher[h]
             \/ /\ h = step.visit /\ HoldsClaim(f)
                /\ \A e \in finisher'[h] : e.fence = f /\ e.host = host
    BY <1>1, ApplyEffect
  <1>3. claims \in Nat /\ Len(feed) \in Nat
    BY <1>1, SpawnAssumption DEF TypeInv
  <1>4. Grows
    BY <1>2, <1>3 DEF Grows, SealedBy, Accepted, AdoptedBy
  <1>5. TypeInv'
    BY <1>1, <1>2 DEF TypeInv
  <1>6. FinishOK'
    <2>. SUFFICES ASSUME NEW h \in Groups, NEW e \in finisher'[h], ~e.host
                  PROVE  AdoptedBy(h, e.fence) /\ Opened(h)
      BY DEF FinishOK, AdoptedBy, Opened
    <2>1. CASE finisher'[h] = finisher[h]
      BY <1>1, <2>1 DEF FinishOK
    <2>2. CASE finisher'[h] # finisher[h]
      <3>1. h = step.visit /\ HoldsClaim(f) /\ e.fence = f /\ ~host
        BY <1>2, <2>2
      <3>. QED
        BY <3>1 DEF Answers
    <2>. QED
      BY <2>1, <2>2
  <1>7. AdopterOK'
    BY <1>1, <1>4, AdopterKept
  <1>. QED
    BY <1>1, <1>2, <1>4, <1>5, <1>6, <1>7, FeedKept, ChildKept, CursorKept

(* A host answers the claim of the spawn step.                             *)
LEMMA CompleteStepKeeps ==
    ASSUME IInv, NEW f \in Fences, NEW result \in Results, CompleteStep(f, result)
    PROVE  IInv'
  <1>1. /\ f \in 1..claims /\ ApplyStepResult(f, result, TRUE)
        /\ UNCHANGED <<group, child, feed, through, lease, call, recovery, faults>>
    BY DEF CompleteStep
  <1>2. call' \in [Calls -> Tasks] /\ recovery' \in [Recoverers -> Recoveries]
    BY <1>1 DEF IInv, TypeInv
  <1>3. PICK g \in Groups : TRUE
    BY SpawnAssumption DEF Groups
  <1>4. Grows /\ TypeInv' /\ ClaimOK' /\ AdopterOK' /\ FeedOK' /\ ChildOK' /\ FinishOK' /\ CursorOK'
    BY <1>1, <1>2, ApplyGrows
  <1>5. LeaseOK'
    BY <1>1 DEF IInv, LeaseOK
  <1>. QED
    BY <1>1, <1>4, <1>5, Frame

(* A call completes the spawn step.                                        *)
LEMMA CompleteSpawnKeeps ==
    ASSUME IInv, NEW p \in Calls, CompleteSpawn(p)
    PROVE  IInv'
  <1>1. TypeInv /\ call[p] \in Tasks /\ CallOK(call[p])
    BY DEF IInv, TypeInv, CallsOK
  <1>2. PICK c \in Tasks : c = call[p]
    BY <1>1
  <1>3. c.pc \in {"open", "verify"} /\ c.next > Width
    BY <1>2 DEF CompleteSpawn, AllOpened
  <1>4. PICK g \in Groups : g = c.group
    BY DEF Tasks
  <1>5. UNCHANGED <<through, lease, recovery, faults>>
    BY DEF CompleteSpawn
  <1>6. CASE GiveUp(p)
    BY <1>5, <1>6, GiveUpKeeps
  <1>7. CASE /\ c.pc = "open" /\ ~SpawnCompleted(g)
             /\ ApplyStepResult(c.fence, "spawned", FALSE)
             /\ call' = [call EXCEPT ![p] = Idle]
             /\ UNCHANGED <<group, child, feed>>
    <2>1. PICK f \in 1..claims : f = c.fence
      BY <1>1, <1>2, <1>7 DEF CallOK
    <2>2. Answers(f, g)
      BY <1>1, <1>2, <1>4, <1>7, <2>1 DEF CallOK
    <2>3. Opened(g)
      BY <1>1, <1>2, <1>3, <1>4, SpawnAssumption DEF CallOK, Opened, Children, Tasks
    <2>4. call' \in [Calls -> Tasks] /\ recovery' \in [Recoverers -> Recoveries]
      BY <1>1, <1>5, <1>7, IdleOK DEF TypeInv
    <2>5. Grows /\ TypeInv' /\ ClaimOK' /\ AdopterOK' /\ FeedOK' /\ ChildOK' /\ FinishOK' /\ CursorOK'
      <3>1. ApplyStepResult(f, "spawned", FALSE) /\ "spawned" \in Results
        BY <1>7, <2>1 DEF Results
      <3>. QED
        BY <1>5, <1>7, <2>2, <2>3, <2>4, <3>1, ApplyGrows
    <2>6. CallOK(Idle)'
      BY IdleOK DEF CallOK
    <2>7. call'[p] = Idle /\ \A q \in Calls : q # p => call'[q] = call[q]
      BY <1>1, <1>7 DEF TypeInv
    <2>8. \A q \in Calls : call'[q] = call[q] \/ CallOK(call[q])'
      BY <2>6, <2>7
    <2>9. LeaseOK'
      BY <1>5 DEF IInv, LeaseOK
    <2>. QED
      BY <1>5, <2>5, <2>8, <2>9, Frame
  <1>. QED
    BY <1>2, <1>4, <1>6, <1>7 DEF CompleteSpawn
-----------------------------------------------------------------------------
(* The children, and what the parent accepts of them.                      *)

(* A child ends, and the feed says so.                                     *)
LEMMA ChildCompletesKeeps ==
    ASSUME IInv, NEW g \in Groups, NEW k \in Children, ChildCompletes(g, k)
    PROVE  IInv'
  <1>1. TypeInv /\ ClaimOK /\ AdopterOK /\ FeedOK /\ ChildOK /\ FinishOK /\ CursorOK /\ LeaseOK
    BY DEF IInv
  <1>2. UNCHANGED <<parent, group, through, lease, call, recovery, finisher, faults>>
    BY DEF ChildCompletes
  <1>3. PICK e : e = [kind |-> "completed", group |-> g, child |-> k]
    OBVIOUS
  <1>4. e \in Facts /\ e.kind = "completed"
    BY <1>3 DEF Facts
  <1>5. feed' = Append(feed, e) /\ feed \in Seq(Facts)
    BY <1>1, <1>3 DEF ChildCompletes, TypeInv
  <1>6. PICK fd : fd = feed'
    OBVIOUS
  <1>7. /\ fd \in Seq(Facts) /\ Len(feed) \in Nat /\ Len(fd) = Len(feed) + 1
        /\ \A i \in 1..Len(feed) : fd[i] = feed[i]
    BY <1>4, <1>5, <1>6, AppendFacts
  <1>8. /\ child' \in [Groups -> [Children -> SUBSET Streams]]
        /\ \A h \in Groups, j \in Children : AtMostOne(child'[h][j])
        /\ \A h \in Groups, j \in Children : child[h][j] # {} => child'[h][j] # {}
        /\ \A h \in Groups, j \in Children : \A s \in child'[h][j] :
              \E t \in child[h][j] : s.by = t.by
    BY <1>1, DoneMaps
  <1>9. claims \in Nat /\ claims' = claims /\ step' = step
    BY <1>1, <1>2, SpawnAssumption DEF TypeInv, parent
  <1>10. Len(feed') \in Nat /\ Len(feed) <= Len(feed') /\ \A i \in 1..Len(feed) : feed'[i] = feed[i]
    BY <1>6, <1>7
  <1>11. Grows
    BY <1>2, <1>7, <1>8, <1>9, <1>10
       DEF Grows, SealedBy, Accepted, AdoptedBy, HoldsClaim, SpawnCompleted
  <1>12. TypeInv' /\ ClaimOK'
    <2>1. feed' \in Seq(Facts) /\ through' \in 0..Len(feed')
      BY <1>1, <1>2, <1>6, <1>7 DEF TypeInv
    <2>. QED
      BY <1>1, <1>2, <1>8, <2>1 DEF TypeInv, ClaimOK, parent
  <1>13. ChildOK'
    BY <1>1, <1>2, <1>8 DEF ChildOK, SealedBy
  <1>14. FeedOK'
    BY <1>1, <1>4, <1>5, <1>11, FeedKept
  <1>15. FinishOK' /\ CursorOK' /\ AdopterOK'
    BY <1>1, <1>2, <1>11, FinishKept, CursorKept, AdopterKept
  <1>16. LeaseOK'
    BY <1>1, <1>2 DEF LeaseOK
  <1>. QED
    BY <1>2, <1>11, <1>12, <1>13, <1>14, <1>15, <1>16, Frame

(* An acceptance, by a call or by a recoverer.                             *)
LEMMA AcceptGrows ==
    ASSUME IInv, NEW g \in Groups, NEW k \in Children, AcceptChild(g, k),
           UNCHANGED <<parent, child, feed, through, lease, call, finisher, faults>>,
           recovery' \in [Recoverers -> Recoveries]
    PROVE  /\ Grows /\ TypeInv' /\ ClaimOK' /\ AdopterOK' /\ FeedOK' /\ ChildOK' /\ FinishOK' /\ CursorOK'
           /\ Accepted(g, k)'
  <1>1. TypeInv /\ ClaimOK /\ AdopterOK /\ FeedOK /\ ChildOK /\ FinishOK /\ CursorOK
    BY DEF IInv
  <1>2. /\ group' \in [Groups -> SUBSET GroupStates]
        /\ \A h \in Groups : AtMostOne(group'[h])
        /\ \A h \in Groups : \A b : SealedBy(h, b) => SealedBy(h, b)'
        /\ \A h \in Groups : \A f : AdoptedBy(h, f) => AdoptedBy(h, f)'
        /\ \A h \in Groups : \A f : AdoptedBy(h, f)' => AdoptedBy(h, f)
        /\ \A h \in Groups : \A j : Accepted(h, j) => Accepted(h, j)'
        /\ Accepted(g, k)'
    BY <1>1, AcceptMaps
  <1>3. claims \in Nat /\ claims' = claims /\ step' = step /\ Len(feed) \in Nat
    BY <1>1, SpawnAssumption DEF TypeInv, parent
  <1>4. Grows
    BY <1>2, <1>3 DEF Grows, HoldsClaim, SpawnCompleted
  <1>5. TypeInv' /\ ClaimOK'
    BY <1>1, <1>2 DEF TypeInv, ClaimOK, parent
  <1>6. AdopterOK'
    <2>1. \A h \in Groups : \A s \in group'[h] : \E t \in group[h] : t.adopted = s.adopted
      BY <1>2 DEF AdoptedBy
    <2>. QED
      BY <1>1, <1>4, <2>1, AdopterKept
  <1>. QED
    BY <1>1, <1>2, <1>4, <1>5, <1>6, FeedKept, ChildKept, FinishKept, CursorKept

(* A child is counted.                                                     *)
LEMMA AcceptKeeps ==
    ASSUME IInv, NEW g \in Groups, NEW k \in Children, Accept(g, k)
    PROVE  IInv'
  <1>1. /\ AcceptChild(g, k)
        /\ UNCHANGED <<parent, child, feed, through, lease, call, recovery, finisher, faults>>
    BY DEF Accept
  <1>2. recovery' \in [Recoverers -> Recoveries]
    BY <1>1 DEF IInv, TypeInv
  <1>3. Grows /\ TypeInv' /\ ClaimOK' /\ AdopterOK' /\ FeedOK' /\ ChildOK' /\ FinishOK' /\ CursorOK'
    BY <1>1, <1>2, AcceptGrows
  <1>4. LeaseOK'
    BY <1>1 DEF IInv, LeaseOK
  <1>. QED
    BY <1>1, <1>3, <1>4, Frame

-----------------------------------------------------------------------------
(* The recoverers.                                                         *)

(* A recoverer that only moves on, or gives its lease back.                *)
LEMMA RecoveryMoves ==
    ASSUME IInv, NEW r \in Recoverers, NEW t \in Recoveries,
           recovery' = [recovery EXCEPT ![r] = t], RecoveryOK(t)',
           lease' \subseteq lease, faults' \in 0..MaxFaults,
           r \in lease' => t.pc = "idle" \/ t.at = through + 1,
           UNCHANGED <<parent, group, child, feed, through, call, finisher>>
    PROVE  IInv'
  <1>1. TypeInv /\ ClaimOK /\ AdopterOK /\ FeedOK /\ ChildOK /\ FinishOK /\ CursorOK /\ LeaseOK
    BY DEF IInv
  <1>2. Grows
    BY <1>1, StillGrows DEF parent
  <1>3. TypeInv' /\ ClaimOK'
    <2>1. lease' \subseteq Recoverers /\ AtMostOne(lease')
      BY <1>1 DEF TypeInv, AtMostOne
    <2>. QED
      BY <1>1, <2>1 DEF TypeInv, ClaimOK, parent
  <1>4. FeedOK' /\ ChildOK' /\ FinishOK' /\ CursorOK' /\ AdopterOK'
    BY <1>1, <1>2, FeedKept, ChildKept, FinishKept, CursorKept, AdopterKept
  <1>5. recovery'[r] = t /\ \A q \in Recoverers : q # r => recovery'[q] = recovery[q]
    BY <1>1 DEF TypeInv
  <1>6. \A q \in Recoverers : recovery'[q] = recovery[q] \/ RecoveryOK(recovery[q])'
    BY <1>5
  <1>7. LeaseOK'
    BY <1>1, <1>3, <1>5 DEF LeaseOK, TypeInv
  <1>. QED
    BY <1>2, <1>3, <1>4, <1>6, <1>7, Frame

(* What a recoverer at work is looking at.                                 *)
LEMMA AtWork ==
    ASSUME IInv, NEW r \in Recoverers, recovery[r].pc # "idle"
    PROVE  /\ recovery[r] \in Recoveries /\ RecoveryOK(recovery[r])
           /\ recovery[r].at \in 1..Len(feed) /\ feed[recovery[r].at] \in Facts
           /\ feed[recovery[r].at].group \in Groups
           /\ feed[recovery[r].at].kind = "completed" => feed[recovery[r].at].child \in Children
           /\ feed[recovery[r].at].kind # "completed" => group[feed[recovery[r].at].group] # {}
           /\ r \in lease => recovery[r].at = through + 1
  <1>1. recovery[r] \in Recoveries /\ RecoveryOK(recovery[r]) /\ recovery[r].at \in 1..Len(feed)
    BY DEF IInv, TypeInv, RecoveriesOK, RecoveryOK
  <1>2. feed[recovery[r].at] \in Facts
    BY <1>1 DEF IInv, TypeInv
  <1>. QED
    BY <1>1, <1>2, FactTypes DEF IInv, FeedOK, LeaseOK

(* A recoverer at rest has nothing to know.                                *)
LEMMA RestOK == RecoveryOK(Rest)'
  BY IdleOK DEF RecoveryOK

(* A recoverer takes the cursor.                                           *)
LEMMA TakeLeaseKeeps ==
    ASSUME IInv, NEW r \in Recoverers, TakeLease(r)
    PROVE  IInv'
  <1>1. TypeInv /\ ClaimOK /\ AdopterOK /\ FeedOK /\ ChildOK /\ FinishOK /\ CursorOK /\ LeaseOK
    BY DEF IInv
  <1>2. /\ through < Len(feed) /\ lease' = {r} /\ lease = {}
        /\ UNCHANGED <<parent, group, child, feed, through, call, finisher, faults>>
    BY DEF TakeLease
  <1>3. PICK n : n = through + 1
    OBVIOUS
  <1>4. n \in 1..Len(feed) /\ n \in Nat
    BY <1>1, <1>2, <1>3 DEF TypeInv
  <1>5. PICK pc \in {"accept", "open"} :
          pc = IF feed[n].kind = "completed" THEN "accept" ELSE "open"
    OBVIOUS
  <1>6. PICK t : t = [Rest EXCEPT !.at = n, !.pc = pc]
    OBVIOUS
  <1>7. recovery' = [recovery EXCEPT ![r] = t]
    BY <1>3, <1>5, <1>6 DEF TakeLease
  <1>8. t \in Recoveries /\ t.pc = pc /\ t.at = n /\ t.next = 1
    <2>1. Rest.fence = 0 /\ Rest.next = 1
      BY DEF Rest
    <2>2. t \in Recoveries
      BY <1>4, <1>5, <1>6, IdleOK DEF Recoveries
    <2>3. t.pc = pc /\ t.at = n /\ t.next = Rest.next
      BY <1>6, IdleOK DEF Recoveries
    <2>. QED
      BY <2>1, <2>2, <2>3
  <1>9. RecoveryOK(t)'
    BY <1>2, <1>4, <1>5, <1>8 DEF RecoveryOK, Children
  <1>10. Grows
    BY <1>1, <1>2, StillGrows DEF parent
  <1>11. TypeInv' /\ ClaimOK'
    <2>1. lease' \subseteq Recoverers /\ AtMostOne(lease')
      BY <1>2, AtMostOneOf
    <2>2. recovery' \in [Recoverers -> Recoveries]
      BY <1>1, <1>7, <1>8 DEF TypeInv
    <2>. QED
      BY <1>1, <1>2, <2>1, <2>2 DEF TypeInv, ClaimOK, parent
  <1>12. FeedOK' /\ ChildOK' /\ FinishOK' /\ CursorOK' /\ AdopterOK'
    BY <1>1, <1>2, <1>10, FeedKept, ChildKept, FinishKept, CursorKept, AdopterKept
  <1>13. recovery'[r] = t /\ \A q \in Recoverers : q # r => recovery'[q] = recovery[q]
    BY <1>1, <1>7 DEF TypeInv
  <1>14. \A q \in Recoverers : recovery'[q] = recovery[q] \/ RecoveryOK(recovery[q])'
    BY <1>9, <1>13
  <1>15. LeaseOK'
    BY <1>2, <1>3, <1>8, <1>13 DEF LeaseOK
  <1>. QED
    BY <1>2, <1>10, <1>11, <1>12, <1>14, <1>15, Frame

(* The cursor's lease runs out.                                            *)
LEMMA LeaseLapsesKeeps ==
    ASSUME IInv, LeaseLapses
    PROVE  IInv'
  <1>1. TypeInv /\ ClaimOK /\ AdopterOK /\ FeedOK /\ ChildOK /\ FinishOK /\ CursorOK
    BY DEF IInv
  <1>2. /\ lease' = {} /\ faults' \in 0..MaxFaults
        /\ UNCHANGED <<parent, group, child, feed, through, call, recovery, finisher>>
    BY <1>1, SpawnAssumption DEF LeaseLapses, TypeInv
  <1>3. Grows
    BY <1>1, <1>2, StillGrows DEF parent
  <1>4. TypeInv' /\ ClaimOK'
    BY <1>1, <1>2 DEF TypeInv, ClaimOK, parent, AtMostOne
  <1>5. FeedOK' /\ ChildOK' /\ FinishOK' /\ CursorOK' /\ AdopterOK'
    BY <1>1, <1>2, <1>3, FeedKept, ChildKept, FinishKept, CursorKept, AdopterKept
  <1>6. LeaseOK'
    BY <1>2 DEF LeaseOK
  <1>. QED
    BY <1>2, <1>3, <1>4, <1>5, <1>6, Frame

(* A recoverer dies and forgets.                                           *)
LEMMA RecovererDiesKeeps ==
    ASSUME IInv, NEW r \in Recoverers, RecovererDies(r)
    PROVE  IInv'
  <1>1. faults' \in 0..MaxFaults
    BY SpawnAssumption DEF IInv, TypeInv, RecovererDies
  <1>. QED
    BY <1>1, IdleOK, RestOK, RecoveryMoves DEF RecovererDies
(* A recoverer opens or verifies one child.                                *)
LEMMA RecoverChildKeeps ==
    ASSUME IInv, NEW r \in Recoverers, RecoverChild(r)
    PROVE  IInv'
  <1>0. recovery[r].pc = "open" /\ TypeInv
    BY DEF RecoverChild, IInv
  <1>1. PICK w \in Recoveries : w = recovery[r]
    BY <1>0, AtWork
  <1>2. PICK g \in Groups : g = feed[w.at].group
    BY <1>0, <1>1, AtWork
  <1>3. /\ w.pc = "open" /\ RecoveryOK(w) /\ w.at \in 1..Len(feed)
        /\ feed[w.at].kind # "completed" /\ group[g] # {}
        /\ r \in lease => w.at = through + 1
    BY <1>0, <1>1, <1>2, AtWork DEF RecoveryOK
  <1>4. PICK k \in Children : k = w.next
    BY <1>1, SpawnAssumption DEF RecoverChild, AllOpened, Recoveries, Children
  <1>5. PICK b : b = Sealed(g).plan.by
    OBVIOUS
  <1>6. b \in Calls /\ SealedBy(g, b)
    BY <1>0, <1>3, <1>5, SealedType DEF SealedBy
  <1>7. PICK u : u = [w EXCEPT !.next = @ + 1]
    OBVIOUS
  <1>8. u \in Recoveries /\ u.next = k + 1 /\ u.pc = "open" /\ u.at = w.at
    <2>1. PICK n : n = k + 1
      OBVIOUS
    <2>2. n \in 1..(Width + 1) /\ u = [w EXCEPT !.next = n]
      BY <1>4, <1>7, <2>1, SpawnAssumption DEF Children
    <2>. QED
      BY <1>3, <2>1, <2>2 DEF Recoveries
  <1>9. PICK t : t = IF IsForeign(g, k, b) THEN Rest ELSE u
    OBVIOUS
  <1>10. /\ OpenOrVerify(g, k, b)
         /\ recovery' = [recovery EXCEPT ![r] = t]
         /\ lease' = IF IsForeign(g, k, b) THEN lease \ {r} ELSE lease
         /\ UNCHANGED <<parent, group, finisher, feed, through, call, faults>>
    BY <1>1, <1>2, <1>4, <1>5, <1>7, <1>9 DEF RecoverChild
  <1>11. t \in Recoveries /\ lease' \subseteq lease
    BY <1>8, <1>9, <1>10, IdleOK
  <1>12. call' \in [Calls -> Tasks] /\ recovery' \in [Recoverers -> Recoveries]
    BY <1>0, <1>10, <1>11 DEF TypeInv
  <1>13. /\ Grows /\ TypeInv' /\ ClaimOK' /\ AdopterOK' /\ FeedOK' /\ ChildOK' /\ FinishOK' /\ CursorOK'
         /\ child'[g][k] # {}
    BY <1>6, <1>10, <1>11, <1>12, OpenGrows
  <1>14. RecoveryOK(t)'
    <2>1. CASE t = Rest
      BY <2>1, RestOK
    <2>2. CASE t = u
      <3>1. RecoveryOK(w)'
        BY <1>0, <1>3, <1>13, RecoveryKept
      <3>2. feed' = feed
        BY <1>10
      <3>3. \A j \in Children : j < k + 1 => child'[g][j] # {}
        BY <1>2, <1>3, <1>4, <1>13, <3>1, <3>2, SpawnAssumption DEF RecoveryOK, Children
      <3>. QED
        BY <1>2, <1>3, <1>8, <2>2, <3>2, <3>3 DEF RecoveryOK
    <2>. QED
      BY <1>9, <2>1, <2>2
  <1>15. recovery'[r] = t /\ \A q \in Recoverers : q # r => recovery'[q] = recovery[q]
    BY <1>0, <1>10 DEF TypeInv
  <1>16. \A q \in Recoverers : recovery'[q] = recovery[q] \/ RecoveryOK(recovery[q])'
    BY <1>14, <1>15
  <1>17. LeaseOK'
    <2>1. LeaseOK /\ lease \subseteq Recoverers
      BY <1>0 DEF IInv, TypeInv
    <2>2. r \in lease' => t = u
      BY <1>9, <1>10
    <2>. QED
      BY <1>3, <1>8, <1>10, <1>11, <1>15, <2>1, <2>2 DEF LeaseOK
  <1>. QED
    BY <1>10, <1>13, <1>16, <1>17, Frame

(* A recoverer reads the parent for the fact it is at.                     *)
LEMMA RecoverLoadKeeps ==
    ASSUME IInv, NEW r \in Recoverers, RecoverLoad(r)
    PROVE  IInv'
  <1>0. recovery[r].pc = "open" /\ TypeInv /\ AdopterOK
    BY DEF RecoverLoad, IInv
  <1>1. PICK w \in Recoveries : w = recovery[r]
    BY <1>0, AtWork
  <1>2. PICK g \in Groups : g = feed[w.at].group
    BY <1>0, <1>1, AtWork
  <1>3. /\ w.pc = "open" /\ RecoveryOK(w) /\ w.at \in 1..Len(feed)
        /\ feed[w.at].kind # "completed" /\ group[g] # {}
        /\ r \in lease => w.at = through + 1
    BY <1>0, <1>1, <1>2, AtWork DEF RecoveryOK
  <1>4. Opened(g)
    BY <1>1, <1>2, <1>3, SpawnAssumption DEF RecoverLoad, AllOpened, RecoveryOK, Opened, Children, Recoveries
  <1>5. PICK f : f = IF RecoversStep(g) THEN step.fence ELSE 0
    OBVIOUS
  <1>6. PICK pc \in {"complete", "settle"} : pc = IF RecoversStep(g) THEN "complete" ELSE "settle"
    OBVIOUS
  <1>7. f \in 0..MaxClaims
    BY <1>0, <1>5, SpawnAssumption DEF TypeInv, StepStates
  <1>8. PICK t : t = [w EXCEPT !.pc = pc, !.fence = f]
    OBVIOUS
  <1>9. t \in Recoveries /\ t.pc = pc /\ t.fence = f /\ t.at = w.at
    BY <1>6, <1>7, <1>8 DEF Recoveries
  <1>14. CASE RecoveryFails(r)
    <2>1. UNCHANGED <<feed, through, call, faults>> /\ faults' \in 0..MaxFaults
      BY <1>0 DEF RecoverLoad, TypeInv
    <2>. QED
      BY <1>14, <2>1, IdleOK, RestOK, RecoveryMoves DEF RecoveryFails
  <1>. SUFFICES ASSUME ~RecoveryFails(r) PROVE IInv'
    BY <1>14
  <1>10. /\ recovery' = [recovery EXCEPT ![r] = t]
         /\ UNCHANGED <<parent, group, child, feed, through, lease, call, finisher, faults>>
    BY <1>1, <1>2, <1>5, <1>6, <1>8 DEF RecoverLoad
  <1>11. pc = "complete" => f \in 1..claims /\ Answers(f, g)
    <2>. SUFFICES ASSUME RecoversStep(g) PROVE f \in 1..claims /\ Answers(f, g)
      BY <1>6
    <2>1. f = step.fence /\ f = Sealed(g).adopted /\ step.visit = g
      BY <1>5 DEF RecoversStep, IsCurrent
    <2>2. Sealed(g) \in group[g]
      BY <1>0, <1>3, SealedType
    <2>. QED
      BY <1>0, <2>1, <2>2 DEF AdopterOK, IsClaimOf, Answers, AdoptedBy
  <1>12. RecoveryOK(t)'
    <2>1. feed'[t.at].group = g /\ feed'[t.at].kind # "completed" /\ t.at \in 1..Len(feed')
      BY <1>2, <1>3, <1>9, <1>10
    <2>2. Opened(g)' /\ (pc = "complete" => f \in 1..claims' /\ Answers(f, g)')
      BY <1>4, <1>10, <1>11 DEF Opened, Answers, HoldsClaim, AdoptedBy, parent
    <2>. QED
      BY <1>6, <1>9, <2>1, <2>2 DEF RecoveryOK, Done
  <1>13. faults' \in 0..MaxFaults
    BY <1>0, <1>10 DEF TypeInv
  <1>. QED
    BY <1>3, <1>9, <1>10, <1>12, <1>13, RecoveryMoves

(* A recoverer completes the spawn step.                                   *)
LEMMA RecoverStepKeeps ==
    ASSUME IInv, NEW r \in Recoverers, RecoverStep(r)
    PROVE  IInv'
  <1>0. recovery[r].pc = "complete" /\ TypeInv /\ UNCHANGED <<feed, through, call, faults>>
    BY DEF RecoverStep, IInv
  <1>1. PICK w \in Recoveries : w = recovery[r]
    BY <1>0, AtWork
  <1>2. PICK g \in Groups : g = feed[w.at].group
    BY <1>0, <1>1, AtWork
  <1>3. /\ w.pc = "complete" /\ RecoveryOK(w) /\ w.at \in 1..Len(feed)
        /\ feed[w.at].kind # "completed"
        /\ r \in lease => w.at = through + 1
    BY <1>0, <1>1, <1>2, AtWork DEF RecoveryOK
  <1>4. Opened(g) /\ Answers(w.fence, g)
    BY <1>2, <1>3 DEF RecoveryOK
  <1>5. PICK t : t = [w EXCEPT !.pc = "settle"]
    OBVIOUS
  <1>6. t \in Recoveries /\ t.pc = "settle" /\ t.at = w.at
    BY <1>5 DEF Recoveries
  <1>7. Step(r, "settle") => recovery' = [recovery EXCEPT ![r] = t]
    BY <1>1, <1>5 DEF Step
  <1>8. child' = child => RecoveryOK(t)'
    BY <1>0, <1>2, <1>3, <1>4, <1>6 DEF RecoveryOK, Done, Opened
  <1>9. faults' \in 0..MaxFaults
    BY <1>0 DEF TypeInv
  <1>10. CASE UNCHANGED <<parent, group, child, lease, finisher>> /\ Step(r, "settle")
    BY <1>0, <1>3, <1>6, <1>7, <1>8, <1>9, <1>10, RecoveryMoves
  <1>11. CASE RecoveryFails(r)
    BY <1>0, <1>9, <1>11, IdleOK, RestOK, RecoveryMoves DEF RecoveryFails
  <1>12. CASE /\ ~SpawnCompleted(g) /\ ApplyStepResult(w.fence, "spawned", FALSE)
              /\ UNCHANGED <<group, child, lease>>
              /\ Step(r, "settle")
    <2>1. PICK f \in 1..claims : f = w.fence
      BY <1>3 DEF RecoveryOK
    <2>2. Answers(f, g) /\ ApplyStepResult(f, "spawned", FALSE) /\ "spawned" \in Results
      BY <1>4, <1>12, <2>1 DEF Results
    <2>3. call' \in [Calls -> Tasks] /\ recovery' \in [Recoverers -> Recoveries]
      BY <1>0, <1>6, <1>7, <1>12 DEF TypeInv
    <2>4. Grows /\ TypeInv' /\ ClaimOK' /\ AdopterOK' /\ FeedOK' /\ ChildOK' /\ FinishOK' /\ CursorOK'
      BY <1>0, <1>4, <1>12, <2>2, <2>3, ApplyGrows
    <2>5. recovery'[r] = t /\ \A q \in Recoverers : q # r => recovery'[q] = recovery[q]
      BY <1>0, <1>7, <1>12 DEF TypeInv
    <2>6. \A q \in Recoverers : recovery'[q] = recovery[q] \/ RecoveryOK(recovery[q])'
      BY <1>8, <1>12, <2>5
    <2>7. LeaseOK'
      <3>1. LeaseOK /\ lease \subseteq Recoverers
        BY <1>0 DEF IInv, TypeInv
      <3>. QED
        BY <1>0, <1>3, <1>6, <1>12, <2>5, <3>1 DEF LeaseOK
    <2>. QED
      BY <1>0, <2>4, <2>6, <2>7, Frame
  <1>. QED
    BY <1>1, <1>2, <1>10, <1>11, <1>12 DEF RecoverStep

(* A recoverer counts the child a fact names.                              *)
LEMMA RecoverAcceptanceKeeps ==
    ASSUME IInv, NEW r \in Recoverers, RecoverAcceptance(r)
    PROVE  IInv'
  <1>0. recovery[r].pc = "accept" /\ TypeInv
    BY DEF RecoverAcceptance, IInv
  <1>1. PICK w \in Recoveries : w = recovery[r]
    BY <1>0, AtWork
  <1>2. PICK e \in Facts : e = feed[w.at]
    BY <1>0, <1>1, AtWork
  <1>3. /\ w.pc = "accept" /\ w.at \in 1..Len(feed) /\ e.kind = "completed"
        /\ e.group \in Groups /\ e.child \in Children
        /\ r \in lease => w.at = through + 1
    BY <1>0, <1>1, <1>2, AtWork DEF RecoveryOK
  <1>4. PICK t : t = [w EXCEPT !.pc = "settle"]
    OBVIOUS
  <1>5. t \in Recoveries /\ t.pc = "settle" /\ t.at = w.at
    BY <1>4 DEF Recoveries
  <1>6. /\ AcceptChild(e.group, e.child) /\ recovery' = [recovery EXCEPT ![r] = t]
        /\ UNCHANGED <<parent, child, feed, through, lease, call, finisher, faults>>
    BY <1>1, <1>2, <1>4 DEF RecoverAcceptance, Step
  <1>7. recovery' \in [Recoverers -> Recoveries]
    BY <1>0, <1>5, <1>6 DEF TypeInv
  <1>8. /\ Grows /\ TypeInv' /\ ClaimOK' /\ AdopterOK' /\ FeedOK' /\ ChildOK' /\ FinishOK' /\ CursorOK'
        /\ Accepted(e.group, e.child)'
    BY <1>3, <1>6, <1>7, AcceptGrows
  <1>9. RecoveryOK(t)'
    BY <1>2, <1>3, <1>5, <1>6, <1>8 DEF RecoveryOK, Done
  <1>10. recovery'[r] = t /\ \A q \in Recoverers : q # r => recovery'[q] = recovery[q]
    BY <1>0, <1>6 DEF TypeInv
  <1>11. \A q \in Recoverers : recovery'[q] = recovery[q] \/ RecoveryOK(recovery[q])'
    BY <1>9, <1>10
  <1>12. LeaseOK'
    <2>1. LeaseOK /\ lease \subseteq Recoverers
      BY <1>0 DEF IInv, TypeInv
    <2>. QED
      BY <1>3, <1>5, <1>6, <1>10, <2>1 DEF LeaseOK
  <1>. QED
    BY <1>6, <1>8, <1>11, <1>12, Frame

(* A recoverer acknowledges the position it settled.                       *)
LEMMA AcknowledgeKeeps ==
    ASSUME IInv, NEW r \in Recoverers, Acknowledge(r)
    PROVE  IInv'
  <1>0. recovery[r].pc = "settle" /\ TypeInv
    BY DEF Acknowledge, IInv
  <1>1. PICK w \in Recoveries : w = recovery[r]
    BY <1>0, AtWork
  <1>2. /\ w.at \in 1..Len(feed) /\ Done(feed[w.at])
        /\ r \in lease => w.at = through + 1
    BY <1>0, <1>1, AtWork DEF RecoveryOK
  <1>3. /\ through' = IF r \in lease THEN w.at ELSE through
        /\ lease' = lease \ {r}
        /\ recovery' = [recovery EXCEPT ![r] = Rest]
        /\ UNCHANGED <<parent, group, child, feed, call, finisher, faults>>
    BY <1>1 DEF Acknowledge
  <1>4. CASE r \notin lease
    <2>1. faults' \in 0..MaxFaults /\ through' = through
      BY <1>0, <1>3, <1>4 DEF TypeInv
    <2>. QED
      BY <1>3, <2>1, IdleOK, RestOK, RecoveryMoves
  <1>5. CASE r \in lease
    <2>1. TypeInv /\ ClaimOK /\ AdopterOK /\ FeedOK /\ ChildOK /\ FinishOK /\ CursorOK /\ LeaseOK
      BY DEF IInv
    <2>2. Grows
      BY <2>1, <1>3, StillGrows DEF parent
    <2>3. lease = {r} /\ lease' = {}
      BY <1>3, <1>5, <2>1, AtMostOneIs DEF TypeInv
    <2>4. TypeInv' /\ ClaimOK'
      <3>1. recovery' \in [Recoverers -> Recoveries] /\ through' \in 0..Len(feed')
        BY <1>2, <1>3, <1>5, <2>1, IdleOK DEF TypeInv
      <3>. QED
        BY <1>3, <2>1, <2>3, <3>1 DEF TypeInv, ClaimOK, parent, AtMostOne
    <2>5. FeedOK' /\ ChildOK' /\ FinishOK' /\ AdopterOK'
      BY <1>3, <2>1, <2>2, FeedKept, ChildKept, FinishKept, AdopterKept
    <2>6. CursorOK'
      <3>1. through \in Nat /\ w.at = through + 1
        BY <1>2, <1>5, <2>1 DEF TypeInv
      <3>2. \A i \in 1..(through + 1) : Done(feed[i])
        BY <1>2, <2>1, <3>1 DEF CursorOK
      <3>3. UNCHANGED <<group, child, feed>> /\ through' = through + 1
        BY <1>3, <1>5, <3>1
      <3>. QED
        BY <3>2, <3>3 DEF CursorOK, Done, Accepted, Opened
    <2>7. LeaseOK'
      BY <2>3 DEF LeaseOK
    <2>8. recovery'[r] = Rest /\ \A q \in Recoverers : q # r => recovery'[q] = recovery[q]
      BY <1>3, <2>1 DEF TypeInv
    <2>9. \A q \in Recoverers : recovery'[q] = recovery[q] \/ RecoveryOK(recovery[q])'
      BY <2>8, RestOK
    <2>. QED
      BY <1>3, <2>2, <2>4, <2>5, <2>6, <2>7, <2>9, Frame
  <1>. QED
    BY <1>4, <1>5

-----------------------------------------------------------------------------
(* The invariant holds, and what it means.                                 *)

(* The initial states satisfy the invariant.                               *)
LEMMA InvInit == Init => IInv
  <1>. SUFFICES ASSUME Init PROVE IInv
    OBVIOUS
  <1>1. TypeInv
    <2>1. step \in StepStates
      BY SpawnAssumption DEF Init, Entered, StepStates, Groups
    <2>2. \A g \in Groups : /\ AtMostOne(group[g]) /\ AtMostOne(finisher[g])
                            /\ \A k \in Children : AtMostOne(child[g][k])
      BY DEF Init, AtMostOne
    <2>3. group \in [Groups -> SUBSET GroupStates] /\ child \in [Groups -> [Children -> SUBSET Streams]]
      BY DEF Init
    <2>4. feed \in Seq(Facts) /\ through \in 0..Len(feed) /\ lease \subseteq Recoverers /\ AtMostOne(lease)
      BY DEF Init, AtMostOne
    <2>5. call \in [Calls -> Tasks] /\ recovery \in [Recoverers -> Recoveries]
      BY IdleOK DEF Init
    <2>. QED
      BY <2>1, <2>2, <2>3, <2>4, <2>5, SpawnAssumption DEF Init, TypeInv
  <1>2. ClaimOK /\ AdopterOK
    BY SpawnAssumption DEF Init, ClaimOK, AdopterOK, Entered
  <1>3. CallsOK /\ RecoveriesOK
    BY IdleOK DEF Init, CallsOK, RecoveriesOK, CallOK, RecoveryOK
  <1>4. FeedOK /\ LeaseOK /\ CursorOK /\ ChildOK /\ FinishOK
    BY DEF Init, FeedOK, LeaseOK, CursorOK, ChildOK, FinishOK
  <1>. QED
    BY <1>1, <1>2, <1>3, <1>4 DEF IInv

(* Stuttering keeps the invariant.                                         *)
LEMMA InvStutters ==
    ASSUME IInv, UNCHANGED vars
    PROVE  IInv'
  <1>1. TypeInv /\ ClaimOK /\ AdopterOK /\ FeedOK /\ ChildOK /\ FinishOK /\ CursorOK /\ LeaseOK
    BY DEF IInv
  <1>2. UNCHANGED <<parent, group, child, feed, through, lease, call, recovery, finisher, faults>>
    BY DEF vars
  <1>3. Grows
    BY <1>1, <1>2, StillGrows DEF parent
  <1>4. TypeInv' /\ ClaimOK'
    BY <1>1, <1>2 DEF TypeInv, ClaimOK, parent
  <1>5. FeedOK' /\ ChildOK' /\ FinishOK' /\ CursorOK' /\ AdopterOK'
    BY <1>1, <1>2, <1>3, FeedKept, ChildKept, FinishKept, CursorKept, AdopterKept
  <1>6. LeaseOK'
    BY <1>1, <1>2 DEF LeaseOK
  <1>. QED
    BY <1>2, <1>3, <1>4, <1>5, <1>6, Frame

(* Every step keeps the invariant.                                         *)
LEMMA InvNext ==
    ASSUME IInv, [Next]_vars
    PROVE  IInv'
  <1>1. ASSUME NEW p \in Calls, Die(p) PROVE IInv'
    BY <1>1, GiveUpKeeps DEF Die
  <1>2. ASSUME NEW r \in Recoverers, Recover(r) PROVE IInv'
    BY <1>2, RecoverChildKeeps, RecoverLoadKeeps, RecoverStepKeeps, RecoverAcceptanceKeeps,
       AcknowledgeKeeps DEF Recover
  <1>3. CASE UNCHANGED vars
    BY <1>3, InvStutters
  <1>4. CASE Claim \/ ExpireStep \/ Transit \/ Pause \/ Resume \/ End
    BY <1>4, ParentKeeps
  <1>9. CASE \E f \in Fences, result \in Results : CompleteStep(f, result)
    BY <1>9, CompleteStepKeeps
  <1>5. CASE \E p \in Calls :
               \/ \E f \in Fences : Prepare(p, f)
               \/ Seal(p) \/ Adopt(p) \/ OpenChild(p) \/ CompleteSpawn(p) \/ Die(p)
    BY <1>1, <1>5, PrepareKeeps, SealKeeps, AdoptKeeps, OpenChildKeeps, CompleteSpawnKeeps
  <1>6. CASE \E g \in Groups, k \in Children : ChildCompletes(g, k) \/ Accept(g, k)
    BY <1>6, ChildCompletesKeeps, AcceptKeeps
  <1>7. CASE LeaseLapses
    BY <1>7, LeaseLapsesKeeps
  <1>8. CASE \E r \in Recoverers : TakeLease(r) \/ RecovererDies(r) \/ Recover(r)
    BY <1>2, <1>8, TakeLeaseKeeps, RecovererDiesKeeps
  <1>. QED
    BY <1>3, <1>4, <1>5, <1>6, <1>7, <1>8, <1>9 DEF Next

(* The invariant is inductive: it holds throughout.                        *)
THEOREM SpawnInvariant == Spec => []IInv
  BY InvInit, InvNext, PTL DEF Spec

(* Every variable of the spawn keeps its type, whatever call, claim or     *)
(* recoverer takes the next step.                                          *)
THEOREM SpawnTypeCorrect == Spec => []TypeOK
  <1>1. IInv => TypeOK
    <2>. SUFFICES ASSUME TypeInv PROVE TypeOK
      BY DEF IInv
    <2>1. \A g \in Groups : /\ group[g] \subseteq GroupStates
                            /\ Cardinality(group[g]) <= 1
                            /\ \A k \in Children : child[g][k] \subseteq Streams
                                                   /\ Cardinality(child[g][k]) <= 1
      BY AtMostOneCardinality DEF TypeInv
    <2>2. lease \subseteq Recoverers /\ Cardinality(lease) <= 1
      BY AtMostOneCardinality DEF TypeInv
    <2>3. \A g \in Groups : finisher[g] \subseteq Finishers /\ Cardinality(finisher[g]) <= 1
      BY AtMostOneCardinality DEF TypeInv
    <2>. QED
      BY <2>1, <2>2, <2>3 DEF TypeInv, TypeOK, StepStates
  <1>. QED
    BY <1>1, SpawnInvariant, PTL

(* No child stream was opened from a plan that lost: every one carries the *)
(* plan its parent sealed, though calls that built other candidates raced  *)
(* the sealing (PrepareCeremonyChildren) and recovery repeated the opening.*)
THEOREM SpawnChildrenAsSealed == Spec => []ChildrenAsSealed
  <1>1. IInv => ChildrenAsSealed
    <2>. SUFFICES ASSUME IInv, NEW g \in Groups, NEW k \in Children, NEW s \in child[g][k]
                  PROVE  IsSealed(g) /\ s.by = Sealed(g).plan.by
      BY DEF ChildrenAsSealed
    <2>1. PICK x \in group[g] : x.plan.by = s.by
      BY DEF IInv, ChildOK, SealedBy
    <2>2. Sealed(g) = x
      BY SealedIs DEF IInv, TypeInv
    <2>. QED
      BY <2>1, <2>2 DEF IsSealed
  <1>. QED
    BY <1>1, SpawnInvariant, PTL

(* The spawner completes the step under the claim the durable adoption     *)
(* names, whichever of a call and recovery got to it, whatever was         *)
(* reclaimed and whatever a host answered (prepare_ceremony_children,      *)
(* recover_ceremony_children).                                             *)
THEOREM SpawnCompletedByTheAdopter == Spec => []CompletedByTheAdopter
  <1>1. IInv => CompletedByTheAdopter
    <2>. SUFFICES ASSUME IInv, NEW g \in Groups, NEW e \in finisher[g], ~e.host
                  PROVE  IsSealed(g) /\ Sealed(g).adopted = e.fence
      BY DEF CompletedByTheAdopter
    <2>1. PICK x \in group[g] : x.adopted = e.fence
      BY DEF IInv, FinishOK, AdoptedBy
    <2>2. Sealed(g) = x
      BY SealedIs DEF IInv, TypeInv
    <2>. QED
      BY <2>1, <2>2 DEF IsSealed
  <1>. QED
    BY <1>1, SpawnInvariant, PTL

(* Nothing is counted as done that is not: the spawner completes the step  *)
(* only when every planned child has a stream, and the recovery cursor     *)
(* leaves a position behind only when its effect landed.                   *)
THEOREM SpawnNothingIsCountedEarly == Spec => []NothingIsCountedEarly
  <1>1. IInv => CompletedSpawnIsOpen
    BY DEF IInv, FinishOK, Opened, AdoptedBy, CompletedSpawnIsOpen, SpawnCompleted, IsSealed
  <1>2. IInv => AcknowledgedIsDone
    <2>. SUFFICES ASSUME IInv, NEW i \in 1..through
                  PROVE  IF feed[i].kind = "completed"
                         THEN IsSealed(feed[i].group) /\ feed[i].child \in Sealed(feed[i].group).accepted
                         ELSE \A k \in Children : child[feed[i].group][k] # {}
      BY DEF AcknowledgedIsDone
    <2>1. PICK e \in Facts : e = feed[i]
      BY DEF IInv, TypeInv
    <2>2. PICK g \in Groups : g = e.group
      BY FactTypes
    <2>3. Done(e)
      BY <2>1 DEF IInv, CursorOK
    <2>4. CASE e.kind = "completed"
      <3>1. PICK x \in group[g] : e.child \in x.accepted
        BY <2>2, <2>3, <2>4 DEF Done, Accepted
      <3>2. Sealed(g) = x
        BY SealedIs DEF IInv, TypeInv
      <3>. QED
        BY <2>1, <2>2, <2>4, <3>1, <3>2 DEF IsSealed
    <2>5. CASE e.kind # "completed"
      BY <2>1, <2>3, <2>5 DEF Done, Opened
    <2>. QED
      BY <2>4, <2>5
  <1>. QED
    BY <1>1, <1>2, SpawnInvariant, PTL DEF NothingIsCountedEarly
=============================================================================
