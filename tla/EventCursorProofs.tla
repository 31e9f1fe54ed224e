------------------------- MODULE EventCursorProofs -------------------------
(***************************************************************************)
(* A cursor shared by publishers is an ordered feed.                       *)
(*                                                                         *)
(* The id of a lease is the fence.  Whoever still holds the stored lease   *)
(* reads the cursor as it is, because the cursor moves only together with  *)
(* the end of a lease; whoever does not may deliver a position again, but  *)
(* records nothing.  The failures of a position are counted before the     *)
(* cursor is told of them, so that the attempts it stores never exceed     *)
(* them.                                                                   *)
(***************************************************************************)
EXTENDS EventCursor, SequenceTheorems, TLAPS

Outcomes == {"delivered", "quarantined", "pulled"}

(* What a publisher holds, by its phase, and by whether its lease is the   *)
(* one stored.                                                             *)
WorkerOK(s) ==
    /\ s.phase \in {"idle", "lease"} => s.grant = {}
    /\ \A g \in s.grant :
         /\ g.through <= through
         /\ s.phase \in {"deliver", "acknowledge", "fail", "quarantine"} => g.through + 1 <= log
         /\ s.phase = "acknowledge" => g.through + 1 \in delivered
         /\ s.phase = "quarantine" => g.attempt >= MaxAttempts
         /\ \A l \in lease : l.id = g.id =>
              /\ g.through = through /\ g.attempt = attempt
              /\ s.phase = "fail" => attempt < failures \/ failures = MaxAttempts

(* A lease has one holder, and one lease is stored.                        *)
LeasesDiffer ==
    /\ \A l, m \in lease : l = m
    /\ \A v, w \in Workers : \A g \in worker[v].grant, h \in worker[w].grant :
         g.id = h.id => v = w

(* The cursor stays within the log, has counted no failure that did not    *)
(* happen, and has settled nothing ahead of itself.                        *)
CursorAgrees ==
    /\ through <= log
    /\ attempt <= failures \/ failures = MaxAttempts
    /\ \A i \in DOMAIN quarantined : quarantined[i] \in 1..through
    /\ pulled \subseteq 1..through

CursorInv ==
    /\ TypeOK
    /\ LeasesDiffer
    /\ CursorAgrees
    /\ \A w \in Workers : WorkerOK(worker[w])

-----------------------------------------------------------------------------
(* What a publisher may be, as TypeOK has it.                              *)
StateOK(s) ==
    /\ s \in WorkerStates
    /\ s.phase \notin {"idle", "lease"} => s.grant # {} /\ \A g, h \in s.grant : g = h
    /\ s.phase # "idle" => s.left \in 1..PageLimit

(* The types, from the shape of each publisher.                            *)
LEMMA TypeByState ==
    TypeOK <=> /\ log \in Nat /\ through \in Nat /\ attempt \in Nat
               /\ lease \in SUBSET Stored /\ quarantined \in Seq(Nat)
               /\ worker \in [Workers -> WorkerStates]
               /\ \A w \in Workers : StateOK(worker[w])
               /\ delivered \subseteq Nat /\ failures \in 0..MaxAttempts /\ pulled \subseteq Nat
  BY DEF TypeOK, StateOK

(* A publisher at rest is well formed and holds nothing.                   *)
LEMMA IdleIsOK == StateOK(Idle) /\ Idle.grant = {} /\ Idle.phase = "idle" /\ WorkerOK(Idle)
  BY DEF Idle, StateOK, WorkerStates, Phases, WorkerOK

(* The grant of a publisher at work.                                       *)
LEMMA GrantFacts ==
    ASSUME TypeOK, NEW w \in Workers, worker[w].phase \notin {"idle", "lease"}
    PROVE  /\ worker[w].grant = {GrantOf(w)}
           /\ GrantOf(w) \in Grants
           /\ GrantOf(w).id \in LeaseIds /\ GrantOf(w).through \in Nat /\ GrantOf(w).attempt \in Nat
           /\ NextPosition(w) = GrantOf(w).through + 1
  <1>1. worker[w].grant # {} /\ (\A g, h \in worker[w].grant : g = h)
        /\ worker[w].grant \in SUBSET Grants
    BY DEF TypeOK, WorkerStates
  <1>2. GrantOf(w) \in worker[w].grant
    BY <1>1 DEF GrantOf
  <1> QED
    BY <1>1, <1>2 DEF Grants, NextPosition

(* One publisher becomes value.                                            *)
LEMMA OneMoves ==
    ASSUME TypeOK, NEW w \in Workers, NEW value, StateOK(value), Becomes(w, value)
    PROVE  /\ worker'[w] = value
           /\ worker' \in [Workers -> WorkerStates]
           /\ \A v \in Workers : v # w => worker'[v] = worker[v]
           /\ \A v \in Workers : StateOK(worker'[v])
  <1>1. worker \in [Workers -> WorkerStates] /\ \A v \in Workers : StateOK(worker[v])
    BY TypeByState
  <1>2. worker' = [worker EXCEPT ![w] = value]
    BY DEF Becomes
  <1> QED
    BY <1>1, <1>2 DEF StateOK

(* A publisher goes on with what it holds; the cursor is left alone.       *)
LEMMA PublisherMoves ==
    ASSUME CursorInv, NEW w \in Workers, worker' \in [Workers -> WorkerStates],
           \A v \in Workers : v # w => worker'[v] = worker[v],
           \A v \in Workers : StateOK(worker'[v]),
           WorkerOK(worker[w])', worker'[w].grant \subseteq worker[w].grant,
           UNCHANGED <<cursorVars, pulled>>, log' \in Nat, log <= log',
           delivered \subseteq delivered', delivered' \subseteq Nat,
           failures' \in 0..MaxAttempts, failures <= failures'
    PROVE  CursorInv'
  <1>1. failures \in Nat /\ MaxAttempts \in Nat /\ attempt \in Nat /\ log \in Nat /\ through \in Nat
    BY CursorAssumption DEF CursorInv, TypeOK
  <1>2. UNCHANGED <<through, attempt, lease, quarantined, pulled>>
    BY DEF cursorVars
  <1>3. \A v \in Workers : worker'[v].grant \subseteq worker[v].grant
    OBVIOUS
  <1>4. TypeOK'
    <2>1. /\ through' \in Nat /\ attempt' \in Nat
          /\ lease' \in SUBSET Stored /\ quarantined' \in Seq(Nat) /\ pulled' \subseteq Nat
      BY <1>2 DEF CursorInv, TypeOK
    <2> QED
      BY <2>1 DEF TypeOK, StateOK
  <1>5. LeasesDiffer'
    BY <1>2, <1>3 DEF CursorInv, LeasesDiffer
  <1>6. CursorAgrees'
    BY <1>1, <1>2 DEF CursorInv, CursorAgrees
  <1>7. ASSUME NEW v \in Workers PROVE WorkerOK(worker[v])'
    <2>1. CASE v = w
      BY <2>1
    <2>2. CASE v # w
      <3>1. WorkerOK(worker[v]) /\ worker'[v] = worker[v] /\ \A g \in worker[v].grant : g.through \in Nat
        BY <2>2 DEF CursorInv, TypeOK, WorkerStates, Grants
      <3>2. attempt < failures \/ failures = MaxAttempts
              => attempt' < failures' \/ failures' = MaxAttempts
        BY <1>1, <1>2
      <3> QED
        BY <1>1, <1>2, <3>1, <3>2 DEF WorkerOK
    <2> QED
      BY <2>1, <2>2
  <1> QED
    BY <1>4, <1>5, <1>6, <1>7 DEF CursorInv

(* A publisher gives its lease back and the cursor moves, or stays.        *)
LEMMA LeaseEnds ==
    ASSUME CursorInv, NEW w \in Workers, worker' \in [Workers -> WorkerStates],
           \A v \in Workers : v # w => worker'[v] = worker[v],
           \A v \in Workers : StateOK(worker'[v]),
           worker'[w].grant = {}, worker'[w].phase \in {"idle", "lease"},
           lease' = {}, UNCHANGED <<log, delivered, pulled>>,
           through' \in Nat, through <= through', through' <= log,
           attempt' \in Nat, failures' \in 0..MaxAttempts,
           attempt' <= failures' \/ failures' = MaxAttempts,
           quarantined' \in Seq(Nat), \A i \in DOMAIN quarantined' : quarantined'[i] \in 1..through'
    PROVE  CursorInv'
  <1>1. through \in Nat /\ log \in Nat /\ worker \in [Workers -> WorkerStates]
    BY DEF CursorInv, TypeOK
  <1>2. TypeOK'
    <2>1. log' \in Nat /\ delivered' \subseteq Nat /\ pulled' \subseteq Nat /\ lease' \in SUBSET Stored
      BY DEF CursorInv, TypeOK
    <2> QED
      BY <2>1 DEF TypeOK, StateOK
  <1>3. LeasesDiffer'
    BY DEF CursorInv, LeasesDiffer
  <1>4. CursorAgrees'
    BY <1>1 DEF CursorInv, CursorAgrees
  <1>5. ASSUME NEW v \in Workers PROVE WorkerOK(worker[v])'
    <2>1. CASE v = w
      BY <2>1 DEF WorkerOK
    <2>2. CASE v # w
      <3>1. WorkerOK(worker[v]) /\ worker'[v] = worker[v] /\ worker[v].grant \in SUBSET Grants
        BY <1>1, <2>2 DEF CursorInv, WorkerStates
      <3>2. \A g \in worker[v].grant : g.through \in Nat
        BY <3>1 DEF Grants
      <3> QED
        BY <1>1, <3>1, <3>2 DEF WorkerOK
    <2> QED
      BY <2>1, <2>2
  <1> QED
    BY <1>2, <1>3, <1>4, <1>5 DEF CursorInv

-----------------------------------------------------------------------------
(* The round goes on, or ends.                                             *)
LEMMA OnwardIsOK ==
    ASSUME TypeOK, NEW w \in Workers, worker[w].phase # "idle"
    PROVE  StateOK(Onward(w)) /\ Onward(w).grant = {} /\ Onward(w).phase \in {"idle", "lease"}
  <1>1. worker[w].left \in 1..PageLimit /\ PageLimit \in Nat
    BY CursorAssumption DEF TypeOK
  <1>2. CASE worker[w].left > 1
    <2>1. Onward(w) = [phase |-> "lease", grant |-> {}, left |-> worker[w].left - 1, retries |-> 0]
      BY <1>2 DEF Onward, Drain, Idle
    <2> QED
      BY <1>1, <1>2, <2>1 DEF StateOK, WorkerStates, Phases
  <1>3. CASE ~(worker[w].left > 1)
    BY <1>3, IdleIsOK DEF Onward
  <1> QED
    BY <1>2, <1>3

(* An append or a start sets a publisher going; it holds nothing yet.      *)
LEMMA DrainStep ==
    ASSUME CursorInv, NEW w \in Workers, Seal(w) \/ Start(w)
    PROVE  CursorInv'
  <1>1. StateOK(Drain) /\ Drain.grant = {} /\ Drain.phase = "lease"
    <2>1. PageLimit \in Nat /\ PageLimit \in 1..PageLimit
      BY CursorAssumption
    <2>2. Drain \in WorkerStates
      BY <2>1 DEF WorkerStates, Phases, Idle, Drain
    <2>3. Drain.grant = {} /\ Drain.phase = "lease" /\ Drain.left = PageLimit
      BY DEF Idle, Drain
    <2> QED
      BY <2>1, <2>2, <2>3 DEF StateOK
  <1>2. Becomes(w, Drain)
    BY DEF Seal, Start
  <1>3. UNCHANGED <<cursorVars, pulled, delivered, failures>> /\ log' \in Nat /\ log <= log'
    BY DEF Seal, Start, worldVars, CursorInv, TypeOK
  <1>4. delivered \subseteq Nat /\ failures' \in 0..MaxAttempts /\ failures <= failures'
    BY <1>3, CursorAssumption DEF CursorInv, TypeOK
  <1>5. WorkerOK(worker[w])' /\ worker'[w].grant \subseteq worker[w].grant
    BY <1>1, <1>2, OneMoves DEF CursorInv, WorkerOK
  <1> QED
    BY <1>1, <1>2, <1>3, <1>4, <1>5, OneMoves, PublisherMoves DEF CursorInv

(* A publisher that comes to rest keeps the invariant.                     *)
LEMMA EndsIdle ==
    ASSUME CursorInv, NEW w \in Workers, Becomes(w, Idle), UNCHANGED <<cursorVars, worldVars>>
    PROVE  CursorInv'
  <1>1. UNCHANGED <<cursorVars, log, pulled, delivered, failures>>
    BY DEF worldVars
  <1>2. delivered \subseteq Nat /\ failures' \in 0..MaxAttempts /\ failures <= failures'
        /\ log' \in Nat /\ log <= log'
    BY <1>1, CursorAssumption DEF CursorInv, TypeOK
  <1>3. WorkerOK(worker[w])' /\ worker'[w].grant \subseteq worker[w].grant
    BY IdleIsOK, OneMoves DEF CursorInv, WorkerOK
  <1> QED
    BY <1>1, <1>2, <1>3, IdleIsOK, OneMoves, PublisherMoves DEF CursorInv

(* A new lease has an id of its own, and reads the cursor as it is.        *)
LEMMA LeaseStep ==
    ASSUME CursorInv, NEW w \in Workers, LeaseCursor(w)
    PROVE  CursorInv'
  <1>1. PICK id \in LeaseIds \ Known :
          /\ lease' = {[id |-> id, live |-> TRUE]}
          /\ Becomes(w, [worker[w] EXCEPT !.phase = "read",
                !.grant = {[id |-> id, through |-> through, attempt |-> attempt]}])
    BY DEF LeaseCursor
  <1> DEFINE grant == [id |-> id, through |-> through, attempt |-> attempt]
             value == [worker[w] EXCEPT !.phase = "read", !.grant = {grant}]
  <1>2. /\ UNCHANGED <<through, attempt, quarantined, log, delivered, failures, pulled>>
        /\ worker[w].phase = "lease"
    BY DEF LeaseCursor, worldVars
  <1>3. /\ worker \in [Workers -> WorkerStates] /\ through \in Nat /\ attempt \in Nat
        /\ worker[w].left \in 1..PageLimit /\ log \in Nat /\ id \in LeaseIds
    BY <1>2 DEF CursorInv, TypeOK
  <1>4. grant \in Grants /\ grant.id = id /\ grant.through = through /\ grant.attempt = attempt
    BY <1>3 DEF Grants
  <1>5. value \in WorkerStates /\ value.grant = {grant} /\ value.phase = "read"
        /\ value.left = worker[w].left
    BY <1>3, <1>4 DEF WorkerStates, Phases
  <1>6. worker' = [worker EXCEPT ![w] = value]
    BY <1>1 DEF Becomes
  <1> HIDE DEF value, grant
  <1>7. worker'[w] = value /\ \A v \in Workers : v # w => worker'[v] = worker[v]
    BY <1>3, <1>6
  <1>8. \A v \in Workers : \A g \in worker[v].grant : g.id # id
    BY <1>1 DEF Known
  <1>9. TypeOK'
    <2>1. \A v \in Workers : StateOK(worker[v])
      BY TypeByState DEF CursorInv
    <2>2. StateOK(value)
      BY <1>3, <1>5 DEF StateOK
    <2>3. \A v \in Workers : StateOK(worker'[v])
      BY <1>7, <2>1, <2>2
    <2>4. worker' \in [Workers -> WorkerStates]
      BY <1>3, <1>5, <1>6
    <2>5. lease' \in SUBSET Stored
      BY <1>1, <1>3 DEF Stored
    <2>6. /\ log' \in Nat /\ through' \in Nat /\ attempt' \in Nat /\ quarantined' \in Seq(Nat)
          /\ delivered' \subseteq Nat /\ failures' \in 0..MaxAttempts /\ pulled' \subseteq Nat
      BY <1>2 DEF CursorInv, TypeOK
    <2> QED
      BY <2>3, <2>4, <2>5, <2>6 DEF TypeOK, StateOK
  <1>10. LeasesDiffer'
    <2>1. \A l, m \in lease' : l = m
      BY <1>1
    <2>2. ASSUME NEW u \in Workers, NEW v \in Workers, NEW g \in worker'[u].grant,
                 NEW h \in worker'[v].grant, g.id = h.id
          PROVE  u = v
      <3>1. u = w => g.id = id
        BY <1>4, <1>5, <1>7
      <3>2. v = w => h.id = id
        BY <1>4, <1>5, <1>7
      <3>3. CASE u # w /\ v # w
        BY <1>7, <2>2, <3>3 DEF CursorInv, LeasesDiffer
      <3> QED
        BY <1>7, <1>8, <2>2, <3>1, <3>2, <3>3
    <2> QED
      BY <2>1, <2>2 DEF LeasesDiffer
  <1>11. CursorAgrees'
    BY <1>2 DEF CursorInv, CursorAgrees
  <1>12. ASSUME NEW v \in Workers PROVE WorkerOK(worker[v])'
    <2>1. CASE v = w
      BY <1>2, <1>3, <1>4, <1>5, <1>7, <2>1 DEF WorkerOK
    <2>2. CASE v # w
      <3>1. WorkerOK(worker[v]) /\ worker'[v] = worker[v]
        BY <1>7, <2>2 DEF CursorInv
      <3>2. \A g \in worker[v].grant : \A l \in lease' : l.id # g.id
        BY <1>1, <1>8
      <3> QED
        BY <1>2, <3>1, <3>2 DEF WorkerOK
    <2> QED
      BY <2>1, <2>2
  <1> QED
    BY <1>9, <1>10, <1>11, <1>12 DEF CursorInv

(* A publisher at work keeps its grant and changes its phase.              *)
LEMMA PhaseChange ==
    ASSUME TypeOK, NEW w \in Workers, NEW phase \in Phases \ {"idle", "lease"},
           worker[w].phase \notin {"idle", "lease"},
           Becomes(w, [worker[w] EXCEPT !.phase = phase])
    PROVE  /\ worker' \in [Workers -> WorkerStates]
           /\ \A v \in Workers : v # w => worker'[v] = worker[v]
           /\ \A v \in Workers : StateOK(worker'[v])
           /\ worker'[w].grant = worker[w].grant /\ worker'[w].phase = phase
  <1>1. worker \in [Workers -> WorkerStates] /\ \A v \in Workers : StateOK(worker[v])
    BY TypeByState
  <1>2. worker' = [worker EXCEPT ![w] = [worker[w] EXCEPT !.phase = phase]]
    BY DEF Becomes
  <1>3. [worker[w] EXCEPT !.phase = phase] \in WorkerStates
    BY <1>1 DEF WorkerStates
  <1>4. worker'[w] = [worker[w] EXCEPT !.phase = phase]
    BY <1>1, <1>2
  <1>5. worker'[w].grant = worker[w].grant /\ worker'[w].phase = phase /\ worker'[w].left = worker[w].left
    BY <1>1, <1>4 DEF WorkerStates
  <1>6. StateOK(worker'[w])
    BY <1>1, <1>3, <1>4, <1>5 DEF StateOK
  <1> QED
    BY <1>1, <1>2, <1>3, <1>5, <1>6

(* What is read under a grant is the position after the cursor.            *)
LEMMA ReadStep ==
    ASSUME CursorInv, NEW w \in Workers, ReadNext(w)
    PROVE  CursorInv'
  <1> DEFINE g == GrantOf(w)
             phase == IF NextPosition(w) > log THEN "release"
                      ELSE IF IsExhausted(g.attempt) THEN "quarantine" ELSE "deliver"
  <1>1. worker[w].phase = "read" /\ Becomes(w, [worker[w] EXCEPT !.phase = phase])
        /\ UNCHANGED <<cursorVars, log, pulled, delivered, failures>>
    BY DEF ReadNext, worldVars
  <1>2. /\ worker[w].grant = {g} /\ NextPosition(w) = g.through + 1
        /\ g.through \in Nat /\ g.attempt \in Nat /\ log \in Nat
    BY <1>1, GrantFacts DEF CursorInv, TypeOK
  <1>3. PICK next \in {"release", "quarantine", "deliver"} :
          /\ next = phase
          /\ next \in {"quarantine", "deliver"} => g.through + 1 <= log
          /\ next = "quarantine" => g.attempt >= MaxAttempts
    BY <1>2 DEF IsExhausted
  <1> HIDE DEF phase, g
  <1>4. /\ worker' \in [Workers -> WorkerStates]
        /\ \A v \in Workers : v # w => worker'[v] = worker[v]
        /\ \A v \in Workers : StateOK(worker'[v])
        /\ worker'[w].grant = worker[w].grant /\ worker'[w].phase = next
    BY <1>1, <1>3, PhaseChange DEF CursorInv, Phases
  <1>5. WorkerOK(worker[w])
    BY DEF CursorInv
  <1>6. WorkerOK(worker[w])'
    BY <1>1, <1>2, <1>3, <1>4, <1>5 DEF WorkerOK, cursorVars
  <1>7. delivered' \subseteq Nat /\ failures' \in 0..MaxAttempts /\ failures <= failures'
        /\ log' \in Nat /\ log <= log'
    BY <1>1, CursorAssumption DEF CursorInv, TypeOK
  <1> QED
    BY <1>1, <1>4, <1>6, <1>7, PublisherMoves

(* A delivery is of the position that was read.                            *)
LEMMA DeliverStep ==
    ASSUME CursorInv, NEW w \in Workers, DeliverNext(w)
    PROVE  CursorInv'
  <1> DEFINE g == GrantOf(w)
  <1>1. worker[w].phase = "deliver" /\ Becomes(w, [worker[w] EXCEPT !.phase = "acknowledge"])
        /\ UNCHANGED <<cursorVars, log, pulled, failures>>
        /\ delivered' = delivered \cup {NextPosition(w)}
    BY DEF DeliverNext
  <1>2. worker[w].grant = {g} /\ NextPosition(w) = g.through + 1 /\ g.through \in Nat
    BY <1>1, GrantFacts DEF CursorInv
  <1>3. /\ worker' \in [Workers -> WorkerStates]
        /\ \A v \in Workers : v # w => worker'[v] = worker[v]
        /\ \A v \in Workers : StateOK(worker'[v])
        /\ worker'[w].grant = worker[w].grant /\ worker'[w].phase = "acknowledge"
    BY <1>1, PhaseChange DEF CursorInv, Phases
  <1>4. WorkerOK(worker[w])
    BY DEF CursorInv
  <1> HIDE DEF g
  <1>5. WorkerOK(worker[w])'
    BY <1>1, <1>2, <1>3, <1>4 DEF WorkerOK, cursorVars
  <1>6. delivered' \subseteq Nat /\ failures' \in 0..MaxAttempts /\ failures <= failures'
        /\ log' \in Nat /\ log <= log'
    BY <1>1, <1>2, CursorAssumption DEF CursorInv, TypeOK
  <1> QED
    BY <1>1, <1>3, <1>5, <1>6, PublisherMoves

(* A delivery fails, with or without an effect, and the failure counts.    *)
LEMMA FailStep ==
    ASSUME CursorInv, NEW w \in Workers, FailDelivery(w)
    PROVE  CursorInv'
  <1> DEFINE g == GrantOf(w)
  <1>1. /\ worker[w].phase = "deliver" /\ Becomes(w, [worker[w] EXCEPT !.phase = "fail"])
        /\ UNCHANGED <<cursorVars, log, pulled>>
        /\ delivered' = delivered \/ delivered' = delivered \cup {NextPosition(w)}
        /\ failures' = IF NextPosition(w) = through + 1 /\ failures < MaxAttempts
                       THEN failures + 1 ELSE failures
    BY DEF FailDelivery
  <1>2. worker[w].grant = {g} /\ NextPosition(w) = g.through + 1 /\ g.through \in Nat
    BY <1>1, GrantFacts DEF CursorInv
  <1>3. /\ worker' \in [Workers -> WorkerStates]
        /\ \A v \in Workers : v # w => worker'[v] = worker[v]
        /\ \A v \in Workers : StateOK(worker'[v])
        /\ worker'[w].grant = worker[w].grant /\ worker'[w].phase = "fail"
    BY <1>1, PhaseChange DEF CursorInv, Phases
  <1>4. /\ WorkerOK(worker[w]) /\ failures \in 0..MaxAttempts /\ MaxAttempts \in Nat
        /\ attempt \in Nat /\ (attempt <= failures \/ failures = MaxAttempts)
    BY CursorAssumption DEF CursorInv, TypeOK, CursorAgrees
  <1>5. delivered' \subseteq Nat /\ failures' \in 0..MaxAttempts /\ failures <= failures'
        /\ log' \in Nat /\ log <= log'
        /\ delivered \subseteq delivered'
    BY <1>1, <1>2, <1>4 DEF CursorInv, TypeOK
  <1>6. g.through = through => attempt < failures' \/ failures' = MaxAttempts
    BY <1>1, <1>2, <1>4
  <1> HIDE DEF g
  <1>7. WorkerOK(worker[w])'
    BY <1>1, <1>2, <1>3, <1>4, <1>5, <1>6 DEF WorkerOK, cursorVars
  <1> QED
    BY <1>1, <1>3, <1>5, <1>7, PublisherMoves

(* Whoever ends the stored lease holds it, and read the cursor as it is.   *)
LEMMA HolderFacts ==
    ASSUME CursorInv, NEW w \in Workers, worker[w].phase \notin {"idle", "lease"}, HoldsLease(w)
    PROVE  /\ NextPosition(w) = through + 1 /\ GrantOf(w).attempt = attempt
           /\ worker[w].phase \in {"acknowledge", "fail", "quarantine"} => through + 1 <= log
           /\ worker[w].phase = "acknowledge" => through + 1 \in delivered
           /\ worker[w].phase = "quarantine" => failures = MaxAttempts
           /\ worker[w].phase = "fail" => attempt < failures \/ failures = MaxAttempts
  <1>1. /\ GrantOf(w) \in worker[w].grant /\ NextPosition(w) = GrantOf(w).through + 1
    BY GrantFacts DEF CursorInv
  <1>2. PICK l \in lease : l.id = GrantOf(w).id
    BY DEF HoldsLease
  <1>3. /\ WorkerOK(worker[w]) /\ attempt \in Nat /\ failures \in 0..MaxAttempts
        /\ attempt <= failures \/ failures = MaxAttempts
        /\ MaxAttempts \in Nat
    BY CursorAssumption DEF CursorInv, CursorAgrees, TypeOK
  <1>4. GrantOf(w).through = through /\ GrantOf(w).attempt = attempt
    BY <1>1, <1>2, <1>3 DEF WorkerOK
  <1> QED
    BY <1>1, <1>2, <1>3, <1>4 DEF WorkerOK

(* A publisher records the outcome of the position next: the cursor moves  *)
(* by one and nothing of the past changes.                                 *)
LEMMA AcknowledgeStep ==
    ASSUME CursorInv, NEW w \in Workers, Acknowledge(w)
    PROVE  CursorInv'
  <1>1. /\ worker[w].phase = "acknowledge" /\ HoldsLease(w) /\ Becomes(w, Onward(w))
        /\ through' = NextPosition(w) /\ attempt' = 0 /\ lease' = {} /\ failures' = 0
        /\ UNCHANGED <<quarantined, log, delivered, pulled>>
    BY DEF Acknowledge
  <1>2. NextPosition(w) = through + 1 /\ through + 1 <= log
    BY <1>1, HolderFacts
  <1>3. /\ through \in Nat /\ quarantined \in Seq(Nat) /\ MaxAttempts \in Nat /\ TypeOK
        /\ \A i \in DOMAIN quarantined : quarantined[i] \in 1..through
    BY CursorAssumption DEF CursorInv, TypeOK, CursorAgrees
  <1>4. StateOK(Onward(w)) /\ Onward(w).grant = {} /\ Onward(w).phase \in {"idle", "lease"}
    BY <1>1, <1>3, OnwardIsOK
  <1>5. /\ worker' \in [Workers -> WorkerStates] /\ worker'[w] = Onward(w)
        /\ \A v \in Workers : v # w => worker'[v] = worker[v]
        /\ \A v \in Workers : StateOK(worker'[v])
    BY <1>1, <1>3, <1>4, OneMoves
  <1>6. /\ through' \in Nat /\ through <= through' /\ through' <= log
        /\ attempt' \in Nat /\ failures' \in 0..MaxAttempts /\ attempt' <= failures'
        /\ \A i \in DOMAIN quarantined' : quarantined'[i] \in 1..through'
    BY <1>1, <1>2, <1>3
  <1> QED
    BY <1>1, <1>3, <1>4, <1>5, <1>6, LeaseEnds

(* A position is set aside after its last permitted failure.               *)
LEMMA QuarantineStep ==
    ASSUME CursorInv, NEW w \in Workers, Quarantine(w)
    PROVE  CursorInv'
  <1>1. /\ worker[w].phase = "quarantine" /\ HoldsLease(w) /\ Becomes(w, Onward(w))
        /\ quarantined' = Append(quarantined, NextPosition(w))
        /\ through' = NextPosition(w) /\ attempt' = 0 /\ lease' = {} /\ failures' = 0
        /\ UNCHANGED <<log, delivered, pulled>>
    BY DEF Quarantine
  <1>2. NextPosition(w) = through + 1 /\ through + 1 <= log
    BY <1>1, HolderFacts
  <1>3. /\ through \in Nat /\ quarantined \in Seq(Nat) /\ MaxAttempts \in Nat /\ TypeOK
        /\ \A i \in DOMAIN quarantined : quarantined[i] \in 1..through
    BY CursorAssumption DEF CursorInv, TypeOK, CursorAgrees
  <1>4. StateOK(Onward(w)) /\ Onward(w).grant = {} /\ Onward(w).phase \in {"idle", "lease"}
    BY <1>1, <1>3, OnwardIsOK
  <1>5. /\ worker' \in [Workers -> WorkerStates] /\ worker'[w] = Onward(w)
        /\ \A v \in Workers : v # w => worker'[v] = worker[v]
        /\ \A v \in Workers : StateOK(worker'[v])
    BY <1>1, <1>3, <1>4, OneMoves
  <1>6. /\ through' \in Nat /\ through <= through' /\ through' <= log /\ through' = through + 1
        /\ attempt' \in Nat /\ failures' \in 0..MaxAttempts /\ attempt' <= failures'
    BY <1>1, <1>2, <1>3
  <1>7. /\ quarantined' \in Seq(Nat)
        /\ \A i \in DOMAIN quarantined' : quarantined'[i] \in 1..through'
    <2>1. quarantined' = Append(quarantined, through + 1)
      BY <1>1, <1>2
    <2> QED
      BY <1>3, <1>6, <2>1
  <1> QED
    BY <1>1, <1>4, <1>5, <1>6, <1>7, LeaseEnds

(* The attempt the cursor counts is one that failed.                       *)
LEMMA MarkFailedStep ==
    ASSUME CursorInv, NEW w \in Workers, MarkFailed(w)
    PROVE  CursorInv'
  <1> DEFINE again == [worker[w] EXCEPT !.phase = "lease", !.grant = {}, !.retries = @ + 1]
             value == IF worker[w].retries < MaxAttempts THEN again ELSE Idle
  <1>1. /\ worker[w].phase = "fail" /\ HoldsLease(w) /\ Becomes(w, value)
        /\ attempt' = attempt + 1 /\ lease' = {}
        /\ UNCHANGED <<through, quarantined, log, delivered, failures, pulled>>
    BY DEF MarkFailed, worldVars
  <1>2. attempt < failures \/ failures = MaxAttempts
    BY <1>1, HolderFacts
  <1>3. /\ through \in Nat /\ quarantined \in Seq(Nat) /\ MaxAttempts \in Nat /\ TypeOK
        /\ attempt \in Nat /\ failures \in 0..MaxAttempts /\ through <= log
        /\ \A i \in DOMAIN quarantined : quarantined[i] \in 1..through
        /\ worker[w] \in WorkerStates /\ worker[w].left \in 1..PageLimit
    BY <1>1, CursorAssumption DEF CursorInv, TypeOK, CursorAgrees
  <1>4. StateOK(value) /\ value.grant = {} /\ value.phase \in {"idle", "lease"}
    <2> worker[w].retries + 1 \in Nat
      BY <1>3 DEF WorkerStates
    <2>1. again \in WorkerStates /\ again.grant = {} /\ again.phase = "lease" /\ again.left = worker[w].left
      BY <1>3 DEF WorkerStates, Phases
    <2>2. StateOK(again)
      BY <1>3, <2>1 DEF StateOK
    <2> QED
      BY <2>1, <2>2, IdleIsOK
  <1> HIDE DEF value
  <1>5. /\ worker' \in [Workers -> WorkerStates] /\ worker'[w] = value
        /\ \A v \in Workers : v # w => worker'[v] = worker[v]
        /\ \A v \in Workers : StateOK(worker'[v])
    BY <1>1, <1>3, <1>4, OneMoves
  <1>6. /\ through' \in Nat /\ through <= through' /\ through' <= log
        /\ attempt' \in Nat /\ failures' \in 0..MaxAttempts
        /\ attempt' <= failures' \/ failures' = MaxAttempts
    BY <1>1, <1>2, <1>3
  <1> QED
    BY <1>1, <1>3, <1>4, <1>5, <1>6, LeaseEnds

(* A released lease leaves the cursor where it is.                         *)
LEMMA ReleaseStep ==
    ASSUME CursorInv, NEW w \in Workers, Release(w)
    PROVE  CursorInv'
  <1>1. /\ Becomes(w, Idle) /\ lease' = {}
        /\ UNCHANGED <<through, attempt, quarantined, log, delivered, failures, pulled>>
    BY DEF Release, worldVars
  <1>2. /\ through' \in Nat /\ through <= through' /\ through' <= log /\ TypeOK
        /\ attempt' \in Nat /\ failures' \in 0..MaxAttempts
        /\ attempt' <= failures' \/ failures' = MaxAttempts
        /\ quarantined' \in Seq(Nat) /\ \A i \in DOMAIN quarantined' : quarantined'[i] \in 1..through'
    BY <1>1 DEF CursorInv, TypeOK, CursorAgrees
  <1>3. /\ worker' \in [Workers -> WorkerStates] /\ worker'[w] = Idle
        /\ \A v \in Workers : v # w => worker'[v] = worker[v]
        /\ \A v \in Workers : StateOK(worker'[v])
    BY <1>1, <1>2, IdleIsOK, OneMoves
  <1> QED
    BY <1>1, <1>2, <1>3, IdleIsOK, LeaseEnds

-----------------------------------------------------------------------------
(* A lapse takes the lease and nothing else.                               *)
LEMMA LapseStep == CursorInv /\ Lapse => CursorInv'
  <1> SUFFICES ASSUME CursorInv, Lapse PROVE CursorInv'
    OBVIOUS
  <1>1. /\ lease' = { [l EXCEPT !.live = FALSE] : l \in lease } /\ lease \in SUBSET Stored
        /\ UNCHANGED <<through, attempt, quarantined, worker, log, delivered, failures, pulled>>
    BY DEF Lapse, worldVars, CursorInv, TypeOK
  <1>2. \A l \in lease' : l \in Stored /\ \E m \in lease : l = [m EXCEPT !.live = FALSE] /\ m.id = l.id
    BY <1>1 DEF Stored
  <1>3. TypeOK'
    BY <1>1, <1>2 DEF CursorInv, TypeOK
  <1>4. LeasesDiffer'
    <2>1. \A l, m \in lease : l = m
      BY DEF CursorInv, LeasesDiffer
    <2>2. \A l, m \in lease' : l = m
      BY <1>1, <2>1
    <2> QED
      BY <1>1, <2>2 DEF CursorInv, LeasesDiffer
  <1>5. CursorAgrees'
    BY <1>1 DEF CursorInv, CursorAgrees
  <1>6. ASSUME NEW w \in Workers PROVE WorkerOK(worker[w])'
    <2>1. WorkerOK(worker[w])
      BY DEF CursorInv
    <2> QED
      BY <1>1, <1>2, <2>1 DEF WorkerOK
  <1> QED
    BY <1>3, <1>4, <1>5, <1>6 DEF CursorInv

(* An explicit acknowledgement moves the cursor to a position of the feed. *)
LEMMA PullStep ==
    ASSUME CursorInv, NEW p \in 1..log, Pull(p)
    PROVE  CursorInv'
  <1>1. /\ p > through /\ lease = {} /\ lease' = {} /\ pulled' = pulled \cup (through + 1 .. p)
        /\ through' = p /\ attempt' = 0 /\ failures' = 0
        /\ UNCHANGED <<quarantined, worker, log, delivered>>
    BY DEF Pull
  <1>2. /\ through \in Nat /\ log \in Nat /\ p \in Nat /\ MaxAttempts \in Nat /\ p <= log
    BY CursorAssumption DEF CursorInv, TypeOK
  <1>3. TypeOK'
    BY <1>1, <1>2 DEF CursorInv, TypeOK
  <1>4. LeasesDiffer'
    BY <1>1 DEF CursorInv, LeasesDiffer
  <1>5. CursorAgrees'
    BY <1>1, <1>2 DEF CursorInv, CursorAgrees
  <1>6. ASSUME NEW w \in Workers PROVE WorkerOK(worker[w])'
    <2>1. WorkerOK(worker[w]) /\ worker[w].grant \in SUBSET Grants
      BY DEF CursorInv, TypeOK, WorkerStates
    <2>2. \A g \in worker[w].grant : g.through \in Nat
      BY <2>1 DEF Grants
    <2> QED
      BY <1>1, <1>2, <2>1, <2>2 DEF WorkerOK
  <1> QED
    BY <1>3, <1>4, <1>5, <1>6 DEF CursorInv

(* Stuttering keeps the invariant.                                         *)
LEMMA CursorStutters == CursorInv /\ UNCHANGED vars => CursorInv'
  BY DEF CursorInv, TypeOK, LeasesDiffer, CursorAgrees, WorkerOK, vars, cursorVars, worldVars

(* The initial states satisfy the invariant.                               *)
LEMMA CursorInvInit == Init => CursorInv
  <1> SUFFICES ASSUME Init PROVE CursorInv
    OBVIOUS
  <1>1. worker \in [Workers -> WorkerStates] /\ \A w \in Workers : worker[w] = Idle
    BY IdleIsOK DEF Init, StateOK
  <1>2. TypeOK
    BY <1>1, IdleIsOK, CursorAssumption DEF Init, TypeOK, StateOK
  <1>3. LeasesDiffer
    BY <1>1, IdleIsOK DEF Init, LeasesDiffer
  <1>4. CursorAgrees
    BY CursorAssumption DEF Init, CursorAgrees
  <1> QED
    BY <1>1, <1>2, <1>3, <1>4, IdleIsOK DEF CursorInv

(* Every step keeps the invariant.                                         *)
LEMMA CursorInvNext == CursorInv /\ [Next]_vars => CursorInv'
  <1> SUFFICES ASSUME CursorInv, [Next]_vars PROVE CursorInv'
    OBVIOUS
  <1>2. CASE Lapse
    BY <1>2, LapseStep
  <1>3. CASE \E p \in 1..log : Pull(p)
    BY <1>3, PullStep
  <1>4. ASSUME NEW w \in Workers, Seal(w) \/ Start(w) \/ PublisherStep(w) \/ Crash(w) PROVE CursorInv'
    <2>1. CASE Seal(w) \/ Start(w)
      BY <2>1, DrainStep
    <2>2. CASE FindBusy(w) \/ LoseLease(w) \/ Crash(w)
      BY <2>2, EndsIdle DEF FindBusy, LoseLease, Crash
    <2>3. CASE LeaseCursor(w)
      BY <2>3, LeaseStep
    <2>4. CASE ReadNext(w)
      BY <2>4, ReadStep
    <2>5. CASE DeliverNext(w)
      BY <2>5, DeliverStep
    <2>6. CASE FailDelivery(w)
      BY <2>6, FailStep
    <2>7. CASE Acknowledge(w)
      BY <2>7, AcknowledgeStep
    <2>8. CASE Quarantine(w)
      BY <2>8, QuarantineStep
    <2>9. CASE MarkFailed(w)
      BY <2>9, MarkFailedStep
    <2>10. CASE Release(w)
      BY <2>10, ReleaseStep
    <2> QED
      BY <1>4, <2>1, <2>2, <2>3, <2>4, <2>5, <2>6, <2>7, <2>8, <2>9, <2>10 DEF PublisherStep
  <1>5. CASE UNCHANGED vars
    BY <1>5, CursorStutters
  <1> QED
    BY <1>2, <1>3, <1>4, <1>5 DEF Next

(* The fence holds in every reachable state: whoever holds the stored      *)
(* lease read the cursor as it is, and the attempts stored happened.       *)
THEOREM CursorInvariant == Spec => []CursorInv
  BY CursorInvInit, CursorInvNext, PTL DEF Spec

(* The cursor, its lease and the publishers keep their types.              *)
THEOREM CursorTypeCorrect == Spec => []TypeOK
  <1>1. CursorInv => TypeOK
    BY DEF CursorInv
  <1> QED
    BY <1>1, CursorInvariant, PTL

-----------------------------------------------------------------------------
(* An event is given up only after its own delivery failed as often as the *)
(* policy allows, whoever counted the failures.                            *)
THEOREM QuarantinesAreEarned == Spec => QuarantineIsEarned
  <1>1. ASSUME CursorInv, [Next]_vars PROVE [quarantined' # quarantined => failures = MaxAttempts]_vars
    <2>1. ASSUME NEW w \in Workers, Quarantine(w) PROVE failures = MaxAttempts
      BY <1>1, <2>1, HolderFacts DEF Quarantine
    <2>2. ASSUME Next, ~\E w \in Workers : Quarantine(w) PROVE quarantined' = quarantined
      BY <2>2 DEF Next, Seal, Start, PublisherStep, LeaseCursor, FindBusy, ReadNext, DeliverNext,
         FailDelivery, Acknowledge, MarkFailed, Release, LoseLease, Crash, Pull, Lapse, cursorVars
    <2> QED
      BY <1>1, <2>1, <2>2
  <1> QED
    BY <1>1, CursorInvariant, PTL DEF Spec, QuarantineIsEarned

-----------------------------------------------------------------------------
(* The cursor implements the ordered feed.  What was settled is the        *)
(* sequence of the outcomes of the positions passed.                       *)
QuarantinedSet == { quarantined[i] : i \in DOMAIN quarantined }
OutcomeAt(p) == IF p \in QuarantinedSet THEN "quarantined" ELSE IF p \in pulled THEN "pulled" ELSE "delivered"

(* What is settled, in terms of cursor and quarantine.                     *)
LEMMA SettledFacts ==
    ASSUME through \in Nat
    PROVE  /\ Settled \in Seq(Outcomes) /\ Len(Settled) = through /\ DOMAIN Settled = 1..through
           /\ \A p \in 1..through : Settled[p] = OutcomeAt(p)
  <1>1. Settled = [p \in 1..through |-> OutcomeAt(p)]
    BY DEF Settled, OutcomeAt, QuarantinedSet
  <1>2. \A p : OutcomeAt(p) \in Outcomes
    BY DEF OutcomeAt, Outcomes
  <1>3. Settled \in [1..through -> Outcomes] /\ DOMAIN Settled = 1..through
    BY <1>1, <1>2
  <1>4. Settled \in Seq(Outcomes)
    BY <1>3
  <1> QED
    BY <1>1, <1>3, <1>4

(* A position settled by a publisher extends the sequence by one.          *)
LEMMA SettledGrows ==
    ASSUME CursorInv, CursorInv', through' = through + 1, pulled' = pulled, NEW outcome \in Outcomes,
           \/ outcome = "delivered" /\ quarantined' = quarantined
           \/ outcome = "quarantined" /\ quarantined' = Append(quarantined, through + 1)
    PROVE  Settled' = Append(Settled, outcome)
  <1>1. /\ through \in Nat /\ through' \in Nat /\ quarantined \in Seq(Nat)
        /\ QuarantinedSet \subseteq 1..through /\ pulled \subseteq 1..through
    BY DEF CursorInv, TypeOK, CursorAgrees, QuarantinedSet
  <1>2. /\ Settled \in Seq(Outcomes) /\ Len(Settled) = through
        /\ \A p \in 1..through : Settled[p] = OutcomeAt(p)
    BY <1>1, SettledFacts
  <1>3. /\ Settled' \in Seq(Outcomes) /\ Len(Settled') = through'
        /\ \A p \in 1..through' : Settled'[p] = OutcomeAt(p)'
    <2>1. ASSUME through' \in Nat
          PROVE  /\ Settled' \in Seq(Outcomes) /\ Len(Settled') = through'
                 /\ \A p \in 1..through' : Settled'[p] = OutcomeAt(p)'
      <3>1. Settled' = [p \in 1..through' |-> OutcomeAt(p)']
        BY DEF Settled, OutcomeAt, QuarantinedSet
      <3>2. \A p : OutcomeAt(p)' \in Outcomes
        BY DEF OutcomeAt, Outcomes
      <3>3. Settled' \in [1..through' -> Outcomes] /\ DOMAIN Settled' = 1..through'
        BY <3>1, <3>2
      <3>4. Settled' \in Seq(Outcomes)
        BY <2>1, <3>3
      <3> QED
        BY <2>1, <3>1, <3>3, <3>4
    <2> QED
      BY <1>1, <2>1
  <1>4. /\ outcome = "delivered" => QuarantinedSet' = QuarantinedSet
        /\ outcome = "quarantined" => QuarantinedSet' = QuarantinedSet \cup {through + 1}
    <2>1. CASE quarantined' = quarantined /\ outcome = "delivered"
      BY <2>1 DEF QuarantinedSet
    <2>2. CASE quarantined' = Append(quarantined, through + 1) /\ outcome = "quarantined"
      <3>1. /\ Len(quarantined) \in Nat /\ DOMAIN quarantined = 1..Len(quarantined)
            /\ DOMAIN quarantined' = 1..Len(quarantined) + 1
            /\ \A i \in 1..Len(quarantined) : quarantined'[i] = quarantined[i]
            /\ quarantined'[Len(quarantined) + 1] = through + 1
        BY <1>1, <2>2
      <3>2. \A i : i \in DOMAIN quarantined' <=> i \in DOMAIN quarantined \/ i = Len(quarantined) + 1
        BY <3>1
      <3>3. QuarantinedSet' = { quarantined'[i] : i \in DOMAIN quarantined' }
        BY DEF QuarantinedSet
      <3> HIDE DEF CursorInv
      <3> QED
        BY <2>2, <3>1, <3>2, <3>3 DEF QuarantinedSet
    <2> QED
      BY <2>1, <2>2
  <1>5. \A p \in 1..through + 1 : OutcomeAt(p)' = IF p = through + 1 THEN outcome ELSE OutcomeAt(p)
    BY <1>1, <1>4 DEF OutcomeAt, Outcomes
  <1>6. /\ Append(Settled, outcome) \in Seq(Outcomes) /\ Len(Append(Settled, outcome)) = through + 1
        /\ \A p \in 1..through : Append(Settled, outcome)[p] = Settled[p]
        /\ Append(Settled, outcome)[through + 1] = outcome
    BY <1>1, <1>2, AppendProperties
  <1>7. \A p \in 1..Len(Settled') : Settled'[p] = Append(Settled, outcome)[p]
    BY <1>1, <1>2, <1>3, <1>5, <1>6
  <1> QED
    BY <1>3, <1>6, <1>7, SeqEqual

(* A pulling consumer settles every position up to its own.                *)
LEMMA PullSettles ==
    ASSUME CursorInv, NEW p \in 1..log, Pull(p)
    PROVE  Feed!SettleThrough(p)
  <1>1. /\ p > through /\ pulled' = pulled \cup (through + 1 .. p) /\ through' = p
        /\ UNCHANGED <<quarantined, log, delivered>>
    BY DEF Pull
  <1>2. /\ through \in Nat /\ log \in Nat /\ p \in Nat /\ p <= log
        /\ QuarantinedSet \subseteq 1..through /\ pulled \subseteq 1..through
    BY DEF CursorInv, TypeOK, CursorAgrees, QuarantinedSet
  <1>3. /\ Len(Settled) = through /\ DOMAIN Settled = 1..through
        /\ \A k \in 1..through : Settled[k] = OutcomeAt(k)
    BY <1>2, SettledFacts
  <1>4. QuarantinedSet' = QuarantinedSet
    BY <1>1 DEF QuarantinedSet
  <1>5. \A k \in 1..p : OutcomeAt(k)' = IF k \in DOMAIN Settled THEN Settled[k] ELSE "pulled"
    BY <1>1, <1>2, <1>3, <1>4 DEF OutcomeAt
  <1>6. Settled' = [k \in 1..p |-> OutcomeAt(k)']
    BY <1>1 DEF Settled, OutcomeAt, QuarantinedSet
  <1>7. Settled' = [k \in 1..p |-> IF k \in DOMAIN Settled THEN Settled[k] ELSE "pulled"]
    BY <1>5, <1>6
  <1> QED
    BY <1>1, <1>2, <1>3, <1>7 DEF Feed!SettleThrough

(* What is settled changes only with cursor, quarantine or pull.           *)
LEMMA SettledStays == UNCHANGED <<through, quarantined, pulled>> => UNCHANGED Settled
  BY DEF Settled

(* A position is handed over while the log has it and every position ahead *)
(* of it is settled.                                                       *)
LEMMA DeliveryIsInOrder ==
    ASSUME CursorInv, NEW w \in Workers, worker[w].phase = "deliver", UNCHANGED <<cursorVars, log, pulled>>,
           delivered' = delivered \cup {NextPosition(w)}
    PROVE  \E p \in 1..log : Feed!Deliver(p)
  <1>1. /\ GrantOf(w) \in worker[w].grant /\ GrantOf(w).through \in Nat
        /\ NextPosition(w) = GrantOf(w).through + 1
    BY GrantFacts DEF CursorInv
  <1>2. through \in Nat /\ log \in Nat /\ WorkerOK(worker[w])
    BY DEF CursorInv, TypeOK
  <1>3. NextPosition(w) \in 1..log /\ NextPosition(w) <= through + 1
    BY <1>1, <1>2 DEF WorkerOK
  <1>4. Len(Settled) = through /\ Settled' = Settled
    BY <1>2, SettledFacts, SettledStays DEF cursorVars
  <1>5. Feed!Deliver(NextPosition(w))
    BY <1>2, <1>3, <1>4 DEF Feed!Deliver
  <1> QED
    BY <1>3, <1>5

(* Every step is one of the ordered feed, or none.                         *)
LEMMA StepIsOrdered == CursorInv /\ CursorInv' /\ [Next]_vars => [Feed!Next]_(Feed!feedVars)
  <1> SUFFICES ASSUME CursorInv, CursorInv', [Next]_vars
               PROVE  Feed!Next \/ UNCHANGED Feed!feedVars
    OBVIOUS
  <1>1. through \in Nat /\ log \in Nat /\ Len(Settled) = through
    BY SettledFacts DEF CursorInv, TypeOK
  <1>2. CASE \E w \in Workers : Seal(w)
    BY <1>2, SettledStays DEF Seal, cursorVars, Feed!Next, Feed!Seal
  <1>3. CASE \E p \in 1..log : Pull(p)
    BY <1>3, PullSettles DEF Feed!Next
  <1>4. ASSUME NEW w \in Workers, DeliverNext(w) \/ FailDelivery(w)
        PROVE  Feed!Next \/ UNCHANGED Feed!feedVars
    <2>1. /\ worker[w].phase = "deliver" /\ UNCHANGED <<cursorVars, log, pulled>>
          /\ delivered' = delivered \/ delivered' = delivered \cup {NextPosition(w)}
      BY <1>4 DEF DeliverNext, FailDelivery
    <2>2. CASE delivered' = delivered
      BY <2>1, <2>2, SettledStays DEF cursorVars, Feed!feedVars
    <2>3. CASE delivered' = delivered \cup {NextPosition(w)}
      BY <2>1, <2>3, DeliveryIsInOrder DEF Feed!Next
    <2> QED
      BY <2>1, <2>2, <2>3
  <1>5. ASSUME NEW w \in Workers, Acknowledge(w) PROVE Feed!Next
    <2>1. /\ through' = through + 1 /\ through + 1 <= log /\ through + 1 \in delivered
          /\ UNCHANGED <<quarantined, log, delivered, pulled>>
      BY <1>5, HolderFacts DEF Acknowledge
    <2>2. Settled' = Append(Settled, "delivered")
      BY <2>1, SettledGrows DEF Outcomes
    <2>3. Feed!Settle("delivered")
      BY <1>1, <2>1, <2>2 DEF Feed!Settle
    <2> QED
      BY <2>3 DEF Feed!Next
  <1>6. ASSUME NEW w \in Workers, Quarantine(w) PROVE Feed!Next
    <2>1. /\ through' = through + 1 /\ through + 1 <= log
          /\ quarantined' = Append(quarantined, through + 1) /\ UNCHANGED <<log, delivered, pulled>>
      BY <1>6, HolderFacts DEF Quarantine
    <2>2. Settled' = Append(Settled, "quarantined")
      BY <2>1, SettledGrows DEF Outcomes
    <2>3. Feed!Settle("quarantined")
      BY <1>1, <2>1, <2>2 DEF Feed!Settle
    <2> QED
      BY <2>3 DEF Feed!Next
  <1>7. CASE UNCHANGED <<through, quarantined, pulled, log, delivered>>
    BY <1>7, SettledStays DEF Feed!feedVars
  <1>8. \/ UNCHANGED <<through, quarantined, pulled, log, delivered>>
        \/ \E p \in 1..log : Pull(p)
        \/ \E w \in Workers : Seal(w) \/ DeliverNext(w) \/ FailDelivery(w) \/ Acknowledge(w) \/ Quarantine(w)
    BY DEF Next, vars, cursorVars, worldVars, Start, PublisherStep, LeaseCursor, FindBusy, ReadNext,
           MarkFailed, Release, LoseLease, Crash, Lapse
  <1> QED
    BY <1>2, <1>3, <1>4, <1>5, <1>6, <1>7, <1>8

(* However many publishers share the cursor, and whoever's lease lapses or *)
(* who crashes between a delivery and its acknowledgement, the log is      *)
(* settled position by position and nothing counts as delivered that was   *)
(* not handed over.                                                        *)
THEOREM CursorIsOrderedFeed == Spec => DeliversInOrder
  <1>1. Init => Feed!Init
    <2> SUFFICES ASSUME Init PROVE Feed!Init
      OBVIOUS
    <2>1. through = 0 /\ log = 0 /\ delivered = {}
      BY DEF Init
    <2>2. Settled \in Seq(Outcomes) /\ Len(Settled) = 0
      BY <2>1, SettledFacts
    <2>3. Settled = <<>>
      BY <2>2, EmptySeq
    <2> QED
      BY <2>1, <2>3 DEF Feed!Init
  <1> QED
    BY <1>1, StepIsOrdered, CursorInvariant, PTL DEF Spec, DeliversInOrder, Feed!Spec
=============================================================================
