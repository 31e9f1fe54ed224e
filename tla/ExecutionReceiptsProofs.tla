---------------------- MODULE ExecutionReceiptsProofs ----------------------
(***************************************************************************)
(* Proofs about the execution of an operation, for every number of workers *)
(* and every retry policy: its types, that its outside effect happens at   *)
(* most once, that what the ceremony is told agrees with one receipt, and  *)
(* that the receipt of a success moves the step once.                      *)
(***************************************************************************)
EXTENDS ExecutionReceipts, TLAPS

WorkerRecords == [phase : Phases, fence : 0..MaxClaims, intent : 0..MaxClaims,
                  mode : {"claim", "recovery"},
                  recorded : {"none", "first", "additional", "already"},
                  doubt : SUBSET Fences, seen : SUBSET Receipts]

(* What a worker is about to do names claims that were made and intents    *)
(* that were recorded.                                                     *)
Sound(u) ==
    /\ u.phase \in {"check", "intend", "admit", "call", "await", "recover", "record", "complete"}
          => u.fence \in Fences
    /\ u.phase = "admit" => u.fence \in Intended
    /\ u.phase \in {"admit", "call", "await", "recover"} => u.intent \in Intended
    /\ u.phase = "mark" => u.doubt \subseteq Intended
    /\ u.phase = "inspect" => Intended # {}
    /\ u.fence <= step.claim

TypeInv ==
    /\ TypeOK
    /\ step.status = "running" => step.claim \in Fences
    /\ effect.status # "none" => effect.producer \in Fences
    /\ \A w \in Workers : Sound(worker[w])

-----------------------------------------------------------------------------
(* The parts of a well-typed state.                                        *)
LEMMA Types ==
    ASSUME TypeInv
    PROVE  /\ worker \in [Workers -> WorkerRecords]
           /\ step \in [status : {"pending", "running"} \cup Outcomes, claim : 0..MaxClaims,
                        lapsed : BOOLEAN, retired : SUBSET Fences]
           /\ effect \in [status : {"none", "begun", "killed", "finished"}, times : Nat,
                          producer : 0..MaxClaims, result : Outcomes]
           /\ Fences \subseteq 0..MaxClaims /\ Fences \subseteq Nat /\ 0 \in 0..MaxClaims
           /\ step.claim \in Nat /\ Intended \subseteq Fences
           /\ \A w \in Workers : worker[w] \in WorkerRecords /\ worker[w].fence \in Nat
  <1>1. intents \in Seq(Fences)
    BY DEF TypeInv, TypeOK
  <1>2. Intended \subseteq Fences
    BY <1>1 DEF Intended
  <1>3. Fences \subseteq 0..MaxClaims /\ Fences \subseteq Nat /\ 0 \in 0..MaxClaims /\ 0..MaxClaims \subseteq Nat
    BY ReceiptsAssumption DEF Fences
  <1>4. worker \in [Workers -> WorkerRecords]
    BY DEF TypeInv, TypeOK, WorkerRecords
  <1>5. \A w \in Workers : worker[w] \in WorkerRecords /\ worker[w].fence \in Nat
    BY <1>3, <1>4 DEF WorkerRecords
  <1>6. step \in [status : {"pending", "running"} \cup Outcomes, claim : 0..MaxClaims,
                  lapsed : BOOLEAN, retired : SUBSET Fences]
    BY DEF TypeInv, TypeOK
  <1>7. step.claim \in Nat
    BY <1>3, <1>6
  <1> QED
    BY <1>2, <1>3, <1>4, <1>5, <1>6, <1>7 DEF TypeInv, TypeOK

(* A worker at rest is a worker.                                           *)
LEMMA IdleType == Idle \in WorkerRecords
  BY ReceiptsAssumption DEF Idle, WorkerRecords, Phases, Fences, Receipts

(* A worker at rest relies on nothing.                                     *)
LEMMA IdleSound ==
    ASSUME step.claim \in Nat
    PROVE  Sound(Idle)
  BY DEF Sound, Idle

(* A worker about to record a doubt about recorded intents is a worker.    *)
LEMMA MarkType ==
    ASSUME TypeInv, NEW D, D \subseteq Intended,
           NEW v, v = [Idle EXCEPT !.phase = "mark", !.doubt = D]
    PROVE  v \in WorkerRecords /\ Sound(v) /\ v.phase = "mark"
  <1>1. D \in SUBSET Fences /\ step.claim \in Nat
    BY Types
  <1>2. v \in WorkerRecords /\ v.phase = "mark" /\ v.fence = 0 /\ v.doubt = D
    BY <1>1, IdleType DEF WorkerRecords, Phases, Idle
  <1> QED
    BY <1>1, <1>2 DEF Sound

(* Claims are numbered upwards and intents accumulate, so that a worker    *)
(* that does nothing stays sound.                                          *)
LEMMA OthersSound ==
    ASSUME TypeInv, NEW w \in Workers, NEW v, v \in WorkerRecords, Becomes(w, v), Sound(v)',
           step'.claim \in Nat, step.claim <= step'.claim, Intended \subseteq Intended'
    PROVE  /\ worker' \in [Workers -> WorkerRecords]
           /\ \A x \in Workers : Sound(worker[x])'
  <1>1. worker' = [worker EXCEPT ![w] = v] /\ worker \in [Workers -> WorkerRecords]
    BY Types DEF Becomes
  <1>2. ASSUME NEW x \in Workers, x # w PROVE Sound(worker[x])'
    <2>1. worker'[x] = worker[x] /\ worker[x].fence \in Nat /\ step.claim \in Nat
      BY <1>1, <1>2, Types
    <2>2. Sound(worker[x])
      BY DEF TypeInv
    <2> QED
      BY <2>1, <2>2 DEF Sound
  <1>3. Sound(worker[w])'
    BY <1>1 DEF Sound
  <1> QED
    BY <1>1, <1>2, <1>3

(* A step of one worker that leaves the step's record and the effect alone *)
(* keeps the types.                                                        *)
LEMMA WorkerOnly ==
    ASSUME TypeInv, NEW w \in Workers, NEW v, v \in WorkerRecords, Becomes(w, v), Sound(v),
           UNCHANGED <<storeVars, ceremonyVars, effect>>
    PROVE  TypeInv'
  <1>1. UNCHANGED <<capability, intents, requirements, receipt, step, links, late, effect>>
    BY DEF storeVars, ceremonyVars
  <1>2. Intended' = Intended /\ step.claim \in Nat
    BY <1>1, Types DEF Intended
  <1>3. Sound(v)'
    BY <1>1, <1>2 DEF Sound
  <1>4. worker' \in [Workers -> WorkerRecords] /\ \A x \in Workers : Sound(worker[x])'
    BY <1>1, <1>2, <1>3, OthersSound
  <1> QED
    BY <1>1, <1>4 DEF TypeInv, TypeOK, WorkerRecords

(* What becomes of a worker, by its record.                                *)
LEMMA GoesType ==
    ASSUME NEW u \in WorkerRecords, NEW p \in Phases, NEW v, v = [u EXCEPT !.phase = p]
    PROVE  /\ v \in WorkerRecords /\ v.phase = p /\ v.fence = u.fence /\ v.intent = u.intent
           /\ v.mode = u.mode /\ v.recorded = u.recorded
  BY DEF WorkerRecords

(* A worker that turns to applying the receipt is a worker.                *)
LEMMA CompletingType ==
    ASSUME TypeInv, NEW w \in Workers
    PROVE  /\ Completing(w) \in WorkerRecords /\ Completing(w).phase = "complete"
           /\ Completing(w).fence = worker[w].fence /\ Completing(w).mode = worker[w].mode
  BY Types, IdleType DEF Completing, Idle, WorkerRecords, Phases

-----------------------------------------------------------------------------
(* The steps of one worker that change nothing else.                       *)
LEMMA ResumeType ==
    ASSUME TypeInv, NEW w \in Workers, Resume(w)
    PROVE  TypeInv'
  <1> DEFINE v == [Idle EXCEPT !.phase = "check", !.fence = step.claim]
  <1>1. /\ v.phase = "check" /\ v.fence = step.claim /\ step.claim \in Fences
        /\ Becomes(w, v) /\ UNCHANGED <<storeVars, ceremonyVars, effect>>
    BY DEF Resume, Idle, TypeInv
  <1>2. v \in WorkerRecords
    BY <1>1, IdleType, Types DEF WorkerRecords, Phases
  <1>3. Sound(v)
    BY <1>1, Types DEF Sound
  <1> HIDE DEF v
  <1> QED
    BY <1>1, <1>2, <1>3, WorkerOnly

(* CheckPrior keeps the types.                                             *)
LEMMA CheckPriorType ==
    ASSUME TypeInv, NEW w \in Workers, CheckPrior(w)
    PROVE  TypeInv'
  <1> DEFINE u == worker[w]
  <1>1. /\ u \in WorkerRecords /\ Sound(u) /\ u.phase = "check"
        /\ UNCHANGED <<storeVars, ceremonyVars, effect>> /\ Intended \in SUBSET Fences
    BY Types DEF CheckPrior, TypeInv
  <1>2. \/ Becomes(w, [u EXCEPT !.phase = "complete"])
        \/ Becomes(w, [Idle EXCEPT !.phase = "mark", !.doubt = Intended])
        \/ Becomes(w, [u EXCEPT !.phase = "intend"])
    BY DEF CheckPrior
  <1> HIDE DEF u
  <1>3. ASSUME NEW p \in {"complete", "intend"}, Becomes(w, [u EXCEPT !.phase = p]) PROVE TypeInv'
    <2> DEFINE v == [u EXCEPT !.phase = p]
    <2>1. v \in WorkerRecords /\ v.phase = p /\ v.fence = u.fence
      BY <1>1, GoesType DEF Phases
    <2> HIDE DEF v
    <2>2. Sound(v)
      BY <1>1, <2>1 DEF Sound
    <2> QED
      BY <1>1, <1>3, <2>1, <2>2, WorkerOnly DEF v
  <1>4. ASSUME Becomes(w, [Idle EXCEPT !.phase = "mark", !.doubt = Intended]) PROVE TypeInv'
    <2>1. PICK v : v = [Idle EXCEPT !.phase = "mark", !.doubt = Intended] /\ Becomes(w, v)
      BY <1>4
    <2>2. v \in WorkerRecords /\ Sound(v)
      BY <2>1, MarkType
    <2> QED
      BY <1>1, <2>1, <2>2, WorkerOnly
  <1> QED
    BY <1>2, <1>3, <1>4

(* A worker that stops.                                                    *)
LEMMA StopType ==
    ASSUME TypeInv, NEW w \in Workers, Becomes(w, Idle), UNCHANGED <<storeVars, ceremonyVars, effect>>
    PROVE  TypeInv'
  BY Types, IdleType, IdleSound, WorkerOnly

(* Admit keeps the types.                                                  *)
LEMMA AdmitType ==
    ASSUME TypeInv, NEW w \in Workers, Admit(w)
    PROVE  TypeInv'
  <1> DEFINE u == worker[w]
             D == Doubtful(w)
             called == [u EXCEPT !.phase = "call", !.recorded = "none"]
             marked == [Idle EXCEPT !.phase = "mark", !.doubt = D]
  <1>1. /\ u \in WorkerRecords /\ Sound(u) /\ u.phase = "admit"
        /\ UNCHANGED <<storeVars, ceremonyVars, effect>> /\ Intended \in SUBSET Fences
    BY Types DEF Admit, TypeInv
  <1>2. D \in SUBSET Fences /\ D \subseteq Intended
    BY <1>1 DEF Doubtful, Sound
  <1>3. Becomes(w, Completing(w)) \/ Becomes(w, Idle) \/ Becomes(w, marked) \/ Becomes(w, called)
    BY DEF Admit
  <1>4. ASSUME Becomes(w, Completing(w)) PROVE TypeInv'
    <2>1. Sound(Completing(w))
      BY <1>1, CompletingType DEF Sound
    <2> QED
      BY <1>1, <1>4, <2>1, CompletingType, WorkerOnly
  <1>5. ASSUME Becomes(w, marked) PROVE TypeInv'
    <2>1. marked \in WorkerRecords /\ Sound(marked)
      <3> HIDE DEF D
      <3> QED
        BY <1>2, MarkType
    <2> HIDE DEF marked
    <2> QED
      BY <1>1, <1>5, <2>1, WorkerOnly
  <1>6. ASSUME Becomes(w, called) PROVE TypeInv'
    <2>1. called \in WorkerRecords /\ called.phase = "call" /\ called.fence = u.fence /\ called.intent = u.intent
      BY <1>1 DEF WorkerRecords, Phases
    <2> HIDE DEF called
    <2>2. Sound(called)
      BY <1>1, <2>1 DEF Sound
    <2> QED
      BY <1>1, <1>6, <2>1, <2>2, WorkerOnly
  <1> QED
    BY <1>1, <1>3, <1>4, <1>5, <1>6, StopType

(* Inspect keeps the types.                                                *)
LEMMA InspectType ==
    ASSUME TypeInv, NEW w \in Workers, Inspect(w)
    PROVE  TypeInv'
  <1>1. PICK v : v = [Idle EXCEPT !.phase = "inspect", !.mode = "recovery"] /\ Becomes(w, v)
    BY DEF Inspect
  <1>2. v \in WorkerRecords /\ v.phase = "inspect" /\ v.fence = 0
    BY <1>1, IdleType DEF WorkerRecords, Phases, Idle
  <1>3. Sound(v)
    BY <1>2, Types DEF Sound, Inspect, Recoverable
  <1> QED
    BY <1>1, <1>2, <1>3, WorkerOnly DEF Inspect

(* The intents a recovery pass may take up were recorded.                  *)
LEMMA RecoveryIntentsType ==
    ASSUME TypeInv, Intended # {}
    PROVE  RecoveryIntents \subseteq Intended
  <1>1. intents \in Seq(Fences)
    BY DEF TypeInv, TypeOK
  <1>2. intents # <<>>
    BY <1>1 DEF Intended
  <1>3. 1 \in DOMAIN intents /\ Head(intents) = intents[1]
    BY <1>1, <1>2
  <1>4. Head(intents) \in Intended
    BY <1>3 DEF Intended
  <1> QED
    BY <1>4 DEF RecoveryIntents

(* Recover keeps the types.                                                *)
LEMMA RecoverType ==
    ASSUME TypeInv, NEW w \in Workers, Recover(w)
    PROVE  TypeInv'
  <1> DEFINE c == step.claim
             done == [Idle EXCEPT !.mode = "recovery", !.phase = "complete", !.fence = c]
             mark(i) == [Idle EXCEPT !.phase = "mark", !.doubt = {i}]
             look(i) == [Idle EXCEPT !.mode = "recovery", !.phase = "recover", !.fence = c, !.intent = i]
  <1>1. PICK i \in RecoveryIntents :
           \/ Becomes(w, Idle)
           \/ step.status = "running" /\ (Becomes(w, done) \/ Becomes(w, mark(i)) \/ Becomes(w, look(i)))
    BY DEF Recover
  <1>2. UNCHANGED <<storeVars, ceremonyVars, effect>> /\ Intended # {}
    BY DEF Recover, TypeInv, Sound
  <1>3. i \in Intended /\ i \in Fences /\ {i} \subseteq Intended /\ i \in 0..MaxClaims /\ c \in Nat
    BY <1>2, RecoveryIntentsType, Types
  <1>4. CASE Becomes(w, Idle)
    BY <1>2, <1>4, StopType
  <1>5. CASE Becomes(w, mark(i))
    <2>1. PICK v : v = mark(i) /\ Becomes(w, v)
      BY <1>5
    <2>2. v \in WorkerRecords /\ Sound(v)
      BY <1>3, <2>1, MarkType
    <2> QED
      BY <1>2, <2>1, <2>2, WorkerOnly
  <1>6. CASE step.status = "running" /\ (Becomes(w, done) \/ Becomes(w, look(i)))
    <2>1. c \in Fences /\ c \in 0..MaxClaims
      BY <1>6, Types DEF TypeInv
    <2> HIDE DEF c
    <2>2. done \in WorkerRecords /\ done.phase = "complete" /\ done.fence = c
      BY <1>3, <2>1, IdleType DEF WorkerRecords, Phases, Idle
    <2>3. look(i) \in WorkerRecords /\ look(i).phase = "recover" /\ look(i).fence = c /\ look(i).intent = i
      BY <1>3, <2>1, IdleType DEF WorkerRecords, Phases, Idle
    <2> HIDE DEF done, look
    <2>4. c = step.claim
      BY DEF c
    <2>5. Sound(done) /\ Sound(look(i))
      BY <1>3, <2>1, <2>2, <2>3, <2>4 DEF Sound
    <2> QED
      BY <1>2, <1>6, <2>2, <2>3, <2>5, WorkerOnly
  <1> QED
    BY <1>1, <1>4, <1>5, <1>6

-----------------------------------------------------------------------------
(* The steps that change the step's record, the stores or the effect.      *)
LEMMA ClaimType ==
    ASSUME TypeInv, NEW w \in Workers, Claim(w)
    PROVE  TypeInv'
  <1> DEFINE c == step.claim + 1
             v == [Idle EXCEPT !.phase = "check", !.fence = c]
  <1>1. /\ step' = [step EXCEPT !.status = "running", !.claim = step.claim + 1, !.lapsed = FALSE]
        /\ Becomes(w, v) /\ step.claim < MaxClaims /\ UNCHANGED <<storeVars, links, late, effect>>
    BY DEF Claim
  <1>2. /\ c \in Fences /\ c \in 0..MaxClaims /\ c \in Nat /\ step.claim <= c
    BY <1>1, Types, ReceiptsAssumption DEF Fences
  <1>3. step'.claim = c
    BY <1>1, Types
  <1>4. step' \in [status : {"pending", "running"} \cup Outcomes, claim : 0..MaxClaims,
                   lapsed : BOOLEAN, retired : SUBSET Fences]
    BY <1>1, <1>2, Types
  <1> HIDE DEF c
  <1>5. v \in WorkerRecords /\ v.phase = "check" /\ v.fence = c
    BY <1>2, IdleType DEF WorkerRecords, Phases, Idle
  <1> HIDE DEF v
  <1>new. PICK n : n = v
    OBVIOUS
  <1>6. Sound(n)'
    BY <1>2, <1>3, <1>5, <1>new DEF Sound
  <1>7. Intended' = Intended
    BY <1>1 DEF storeVars, Intended
  <1>8. worker' \in [Workers -> WorkerRecords] /\ \A x \in Workers : Sound(worker[x])'
    BY <1>1, <1>2, <1>3, <1>5, <1>6, <1>7, <1>new, OthersSound
  <1> QED
    BY <1>1, <1>2, <1>3, <1>4, <1>8 DEF TypeInv, TypeOK, WorkerRecords, storeVars

(* The step's record changes without a new claim.                          *)
LEMMA StepOnly ==
    ASSUME TypeInv, UNCHANGED <<storeVars, effect, worker>>, step'.claim = step.claim,
           step' \in [status : {"pending", "running"} \cup Outcomes, claim : 0..MaxClaims,
                      lapsed : BOOLEAN, retired : SUBSET Fences],
           step'.status = "running" => step.status = "running",
           links' \subseteq Links, late' \subseteq Lates
    PROVE  TypeInv'
  <1>1. Intended' = Intended
    BY DEF storeVars, Intended
  <1>2. \A x \in Workers : Sound(worker[x])'
    BY <1>1 DEF TypeInv, Sound
  <1> QED
    BY <1>2 DEF TypeInv, TypeOK, storeVars

(* Lapses and deadlines keep the types.                                    *)
LEMMA LossType ==
    ASSUME TypeInv, Lapse \/ ExpireDeadline
    PROVE  TypeInv'
  <1>1. CASE Lapse
    <2>1. /\ step' = [step EXCEPT !.lapsed = TRUE] /\ step.status = "running"
          /\ UNCHANGED <<storeVars, links, late, effect, worker>>
      BY <1>1 DEF Lapse
    <2>2. /\ step' \in [status : {"pending", "running"} \cup Outcomes, claim : 0..MaxClaims,
                        lapsed : BOOLEAN, retired : SUBSET Fences]
          /\ step'.claim = step.claim
      BY <2>1, Types
    <2>3. links' \subseteq Links /\ late' \subseteq Lates
      BY <2>1 DEF TypeInv, TypeOK
    <2> QED
      BY <2>1, <2>2, <2>3, StepOnly
  <1>2. CASE ExpireDeadline
    <2>1. /\ step' = [step EXCEPT !.status = "failed", !.lapsed = FALSE, !.retired = step.retired \cup {step.claim}]
          /\ step.status = "running" /\ UNCHANGED <<storeVars, links, late, effect, worker>>
      BY <1>2, Types DEF ExpireDeadline
    <2>2. step.retired \cup {step.claim} \in SUBSET Fences
      BY <2>1, Types DEF TypeInv
    <2>3. /\ step' \in [status : {"pending", "running"} \cup Outcomes, claim : 0..MaxClaims,
                        lapsed : BOOLEAN, retired : SUBSET Fences]
          /\ step'.claim = step.claim
      BY <2>1, <2>2, Types DEF Outcomes
    <2>4. links' \subseteq Links /\ late' \subseteq Lates
      BY <2>1 DEF TypeInv, TypeOK
    <2> QED
      BY <2>1, <2>3, <2>4, StepOnly
  <1> QED
    BY <1>1, <1>2

(* RecordIntent keeps the types; the fence it notes is a new one or there  *)
(* already.                                                                *)
LEMMA RecordIntentType ==
    ASSUME TypeInv, NEW w \in Workers, RecordIntent(w)
    PROVE  TypeInv' /\ Intended' = Intended \cup {worker[w].fence}
  <1> DEFINE u == worker[w]
             how == IF u.fence \in Intended THEN "already"
                    ELSE IF Intended = {} THEN "first" ELSE "additional"
             v == [u EXCEPT !.phase = "admit", !.intent = u.fence, !.recorded = how]
  <1>1. /\ u \in WorkerRecords /\ Sound(u) /\ u.phase = "intend"
        /\ intents' = (IF u.fence \in Intended THEN intents ELSE Append(intents, u.fence))
        /\ Becomes(w, v) /\ UNCHANGED <<capability, requirements, receipt, ceremonyVars, effect>>
    BY Types DEF RecordIntent, TypeInv
  <1>2. u.fence \in Fences /\ u.fence \in 0..MaxClaims /\ how \in {"first", "additional", "already"}
    BY <1>1, Types DEF Sound
  <1>3. intents \in Seq(Fences) /\ intents' \in Seq(Fences)
    BY <1>1, <1>2 DEF TypeInv, TypeOK
  <1>4. Intended' = Intended \cup {u.fence}
    <2>1. CASE u.fence \in Intended
      BY <1>1, <2>1 DEF Intended
    <2>2. CASE u.fence \notin Intended
      <3> DEFINE f == u.fence
      <3>1. intents' = Append(intents, f) /\ f \in Fences
        BY <1>1, <1>2, <2>2
      <3> HIDE DEF f
      <3>2. /\ DOMAIN intents' = 1..(Len(intents) + 1) /\ DOMAIN intents = 1..Len(intents)
            /\ Len(intents) \in Nat /\ intents'[Len(intents) + 1] = f
            /\ \A i \in 1..Len(intents) : intents'[i] = intents[i]
        BY <1>3, <3>1
      <3> QED
        BY <3>2 DEF Intended, f
    <2> QED
      BY <2>1, <2>2
  <1> HIDE DEF how
  <1>5. v \in WorkerRecords /\ v.phase = "admit" /\ v.fence = u.fence /\ v.intent = u.fence
    BY <1>1, <1>2 DEF WorkerRecords, Phases
  <1> HIDE DEF v
  <1>6. UNCHANGED step /\ step.claim \in Nat
    BY <1>1, Types DEF ceremonyVars
  <1>new. PICK n : n = v
    OBVIOUS
  <1>7. Sound(n)'
    BY <1>1, <1>2, <1>4, <1>5, <1>6, <1>new DEF Sound
  <1>8. worker' \in [Workers -> WorkerRecords] /\ \A x \in Workers : Sound(worker[x])'
    BY <1>1, <1>4, <1>5, <1>6, <1>7, <1>new, OthersSound
  <1>9. requirements' \subseteq Intended'
    BY <1>1, <1>4 DEF TypeInv, TypeOK, Intended
  <1> QED
    BY <1>1, <1>3, <1>4, <1>8, <1>9 DEF TypeInv, TypeOK, WorkerRecords, ceremonyVars, Intended

(* A worker stops after it changed a store.                                *)
LEMMA StoreType ==
    ASSUME TypeInv, NEW w \in Workers, NEW v, v \in WorkerRecords, Becomes(w, v), Sound(v),
           UNCHANGED <<capability, intents, ceremonyVars, effect>>,
           requirements' \subseteq Intended, receipt' \subseteq Receipts
    PROVE  TypeInv'
  <1>1. Intended' = Intended /\ step.claim \in Nat /\ UNCHANGED step
    BY Types DEF Intended, ceremonyVars
  <1>2. Sound(v)'
    BY <1>1 DEF Sound
  <1>3. worker' \in [Workers -> WorkerRecords] /\ \A x \in Workers : Sound(worker[x])'
    BY <1>1, <1>2, OthersSound
  <1> QED
    BY <1>1, <1>3 DEF TypeInv, TypeOK, WorkerRecords, ceremonyVars, Intended

(* MarkDoubt keeps the types: only recorded intents are in doubt.          *)
LEMMA MarkDoubtType ==
    ASSUME TypeInv, NEW w \in Workers, MarkDoubt(w)
    PROVE  TypeInv'
  <1>1. /\ requirements' = requirements \cup worker[w].doubt /\ Becomes(w, Idle)
        /\ UNCHANGED <<capability, intents, ceremonyVars, effect>> /\ receipt' \subseteq Receipts
    BY DEF MarkDoubt, TypeInv, TypeOK
  <1>2. worker[w].doubt \subseteq Intended
    BY DEF MarkDoubt, TypeInv, Sound
  <1>3. requirements \subseteq Intended
    BY DEF TypeInv, TypeOK, Intended
  <1>4. Sound(Idle)
    BY Types, IdleSound
  <1> QED
    BY <1>1, <1>2, <1>3, <1>4, IdleType, StoreType

(* RecordReceipt keeps the types.                                          *)
LEMMA RecordReceiptType ==
    ASSUME TypeInv, NEW w \in Workers, RecordReceipt(w)
    PROVE  TypeInv'
  <1>1. PICK r \in worker[w].seen : /\ receipt' = KeptReceipt(r)
                                    /\ Becomes(w, IF receipt' = {r} THEN Completing(w) ELSE Idle)
    BY DEF RecordReceipt
  <1>2. r \in Receipts
    BY Types DEF WorkerRecords
  <1>3. receipt' \subseteq Receipts
    BY <1>1, <1>2 DEF KeptReceipt, TypeInv, TypeOK
  <1>4. UNCHANGED <<capability, intents, ceremonyVars, effect>> /\ requirements' \subseteq Intended
    BY DEF RecordReceipt, TypeInv, TypeOK, Intended
  <1>5. Sound(Idle)
    BY Types, IdleSound
  <1>6. Sound(Completing(w))
    BY CompletingType DEF Sound, RecordReceipt, TypeInv
  <1> QED
    BY <1>1, <1>3, <1>4, <1>5, <1>6, IdleType, CompletingType, StoreType

(* Reconcile keeps the types.                                              *)
LEMMA ReconcileType ==
    ASSUME TypeInv, NEW fence \in requirements, NEW result \in Outcomes, Reconcile(fence, result)
    PROVE  TypeInv'
  <1>1. fence \in Fences
    <2>1. requirements \subseteq Intended
      BY DEF TypeInv, TypeOK, Intended
    <2> QED
      BY <2>1, Types
  <1>2. receipt' \subseteq Receipts
    BY <1>1 DEF Reconcile, Receipts
  <1>3. UNCHANGED <<capability, intents, requirements, step, links, late, effect, worker>>
    BY DEF Reconcile, ceremonyVars
  <1>4. \A x \in Workers : Sound(worker[x])'
    BY <1>3 DEF TypeInv, Sound, Intended
  <1> QED
    BY <1>2, <1>3, <1>4 DEF TypeInv, TypeOK

(* A worker learns what it called for, or that nobody can tell.            *)
LEMMA ObserveType ==
    ASSUME TypeInv, NEW w \in Workers, worker[w].phase \in {"call", "await", "recover"},
           NEW producer \in Fences, NEW result \in Outcomes,
           NEW v, v = [Completing(w) EXCEPT !.phase = "record",
                          !.seen = {[producer |-> producer, result |-> result, by |-> "worker"]}]
    PROVE  v \in WorkerRecords /\ Sound(v) /\ v.phase = "record"
  <1> DEFINE u == Completing(w)
             S == {[producer |-> producer, result |-> result, by |-> "worker"]}
  <1>1. u \in WorkerRecords /\ u.fence = worker[w].fence /\ Sound(worker[w])
    BY CompletingType DEF TypeInv
  <1>2. S \in SUBSET Receipts
    BY DEF Receipts
  <1> HIDE DEF S, u
  <1>3. v = [u EXCEPT !.phase = "record", !.seen = S]
    BY DEF u, S
  <1>4. v \in WorkerRecords /\ v.phase = "record" /\ v.fence = u.fence
    BY <1>1, <1>2, <1>3 DEF WorkerRecords, Phases
  <1>5. Sound(v)
    BY <1>1, <1>4 DEF Sound
  <1> QED
    BY <1>4, <1>5

(* A worker left in doubt is a worker.                                     *)
LEMMA UnresolvedType ==
    ASSUME TypeInv, NEW w \in Workers, worker[w].phase \in {"call", "await", "recover"},
           NEW v, v = [Idle EXCEPT !.phase = "mark", !.doubt = {worker[w].intent}]
    PROVE  v \in WorkerRecords /\ Sound(v) /\ v.phase = "mark"
  <1>1. {worker[w].intent} \subseteq Intended
    BY DEF TypeInv, Sound
  <1> QED
    BY <1>1, MarkType

(* A worker moves while the outside world changes.                         *)
LEMMA EffectType ==
    ASSUME TypeInv, NEW w \in Workers, NEW v, v \in WorkerRecords, Becomes(w, v), Sound(v),
           UNCHANGED <<storeVars, ceremonyVars>>,
           effect' \in [status : {"none", "begun", "killed", "finished"}, times : Nat,
                        producer : 0..MaxClaims, result : Outcomes],
           effect'.status # "none" => effect'.producer \in Fences
    PROVE  TypeInv'
  <1>1. UNCHANGED <<capability, intents, requirements, receipt, step, links, late>>
    BY DEF storeVars, ceremonyVars
  <1>2. Intended' = Intended /\ step.claim \in Nat
    BY <1>1, Types DEF Intended
  <1>3. Sound(v)'
    BY <1>1, <1>2 DEF Sound
  <1>4. worker' \in [Workers -> WorkerRecords] /\ \A x \in Workers : Sound(worker[x])'
    BY <1>1, <1>2, <1>3, OthersSound
  <1> QED
    BY <1>1, <1>4 DEF TypeInv, TypeOK, WorkerRecords

(* An effect that ran is an effect.                                        *)
LEMMA RanType ==
    ASSUME TypeInv, NEW producer \in Fences, NEW result \in Outcomes,
           NEW status \in {"begun", "finished"}, Ran(producer, result, status)
    PROVE  /\ effect' \in [status : {"none", "begun", "killed", "finished"}, times : Nat,
                           producer : 0..MaxClaims, result : Outcomes]
           /\ effect'.producer \in Fences /\ effect'.status = status
           /\ effect'.times = effect.times + 1
  <1>1. effect.times + 1 \in Nat /\ producer \in 0..MaxClaims
    BY Types
  <1> QED
    BY <1>1 DEF Ran

(* A worker called for the effect carries a fence.                         *)
LEMMA IntentType ==
    ASSUME TypeInv, NEW w \in Workers, worker[w].phase \in {"call", "await", "recover"}
    PROVE  worker[w].intent \in Fences
  BY Types DEF TypeInv, Sound

(* RunHandler keeps the types.                                             *)
LEMMA RunHandlerType ==
    ASSUME TypeInv, NEW w \in Workers, NEW result \in Outcomes, RunHandler(w, result)
    PROVE  TypeInv'
  <1>1. worker[w].intent \in Fences
    BY IntentType DEF RunHandler
  <1>2. /\ effect' \in [status : {"none", "begun", "killed", "finished"}, times : Nat,
                        producer : 0..MaxClaims, result : Outcomes]
        /\ effect'.producer \in Fences
    BY <1>1, RanType DEF RunHandler
  <1>3. CASE Becomes(w, Idle)
    BY <1>2, <1>3, IdleType, Types, IdleSound, EffectType DEF RunHandler
  <1>4. CASE Observe(w, worker[w].intent, result)
    <2>1. PICK v : /\ v = [Completing(w) EXCEPT !.phase = "record",
                             !.seen = {[producer |-> worker[w].intent, result |-> result, by |-> "worker"]}]
                   /\ Becomes(w, v)
      BY <1>4 DEF Observe
    <2>2. v \in WorkerRecords /\ Sound(v)
      BY <1>1, <2>1, ObserveType DEF RunHandler
    <2> QED
      BY <1>2, <2>1, <2>2, EffectType DEF RunHandler
  <1> QED
    BY <1>3, <1>4 DEF RunHandler

(* Settle keeps the types.                                                 *)
LEMMA SettleType ==
    ASSUME TypeInv, NEW w \in Workers, NEW result \in Outcomes, Settle(w, result)
    PROVE  TypeInv'
  <1>1. worker[w].intent \in Fences /\ worker[w].phase \in {"call", "await", "recover"}
    BY IntentType DEF Settle
  <1>2. ASSUME NEW producer \in Fences, Observe(w, producer, result),
               effect' \in [status : {"none", "begun", "killed", "finished"}, times : Nat,
                            producer : 0..MaxClaims, result : Outcomes],
               effect'.producer \in Fences
        PROVE  TypeInv'
    <2>1. PICK v : /\ v = [Completing(w) EXCEPT !.phase = "record",
                             !.seen = {[producer |-> producer, result |-> result, by |-> "worker"]}]
                   /\ Becomes(w, v)
      BY <1>2 DEF Observe
    <2>2. v \in WorkerRecords /\ Sound(v)
      BY <1>1, <2>1, ObserveType
    <2> QED
      BY <1>2, <2>1, <2>2, EffectType DEF Settle
  <1>3. CASE Ran(worker[w].intent, result, "finished") /\ Observe(w, worker[w].intent, result)
    BY <1>1, <1>2, <1>3, RanType
  <1>4. CASE /\ effect.status = "finished" /\ result = effect.result
             /\ Observe(w, effect.producer, effect.result) /\ UNCHANGED effect
    <2>1. effect.producer \in Fences
      BY <1>4 DEF TypeInv
    <2> QED
      BY <1>2, <1>4, <2>1, Types
  <1> QED
    BY <1>3, <1>4 DEF Settle

(* StartScript keeps the types.                                            *)
LEMMA StartScriptType ==
    ASSUME TypeInv, NEW w \in Workers, StartScript(w)
    PROVE  TypeInv'
  <1>1. worker[w].intent \in Fences
    BY IntentType DEF StartScript
  <1>2. /\ effect' \in [status : {"none", "begun", "killed", "finished"}, times : Nat,
                        producer : 0..MaxClaims, result : Outcomes]
        /\ effect'.producer \in Fences
    BY <1>1, Types, RanType DEF StartScript
  <1>3. PICK v : v = [worker[w] EXCEPT !.phase = "await"] /\ Becomes(w, v)
    BY DEF StartScript, Goes
  <1>4. /\ v \in WorkerRecords /\ v.phase = "await" /\ v.fence = worker[w].fence
        /\ v.intent = worker[w].intent
    BY <1>3, Types, GoesType DEF Phases
  <1>5. Sound(worker[w]) /\ worker[w].phase = "call"
    BY DEF TypeInv, StartScript
  <1>6. Sound(v)
    BY <1>4, <1>5 DEF Sound
  <1> QED
    BY <1>2, <1>3, <1>4, <1>6, EffectType DEF StartScript

(* A script that writes or is killed keeps the types.                      *)
LEMMA ScriptEndsType ==
    ASSUME TypeInv,
           \/ \E result \in Outcomes : ScriptWrites(result)
           \/ \E w \in Workers : KillScript(w)
    PROVE  TypeInv'
  <1>1. /\ effect.status = "begun" /\ UNCHANGED <<storeVars, ceremonyVars, worker>>
        /\ \/ \E result \in Outcomes : effect' = [effect EXCEPT !.status = "finished", !.result = result]
           \/ effect' = [effect EXCEPT !.status = "killed"]
    BY DEF ScriptWrites, KillScript
  <1>2. /\ effect' \in [status : {"none", "begun", "killed", "finished"}, times : Nat,
                        producer : 0..MaxClaims, result : Outcomes]
        /\ effect'.producer = effect.producer
    BY <1>1, Types
  <1>3. UNCHANGED <<capability, intents, requirements, receipt, step, links, late, worker>>
    BY <1>1 DEF storeVars, ceremonyVars
  <1>4. \A x \in Workers : Sound(worker[x])'
    BY <1>3 DEF TypeInv, Sound, Intended
  <1>5. effect'.producer \in Fences /\ (step.status = "running" => step.claim \in Fences) /\ TypeOK
    BY <1>1, <1>2 DEF TypeInv
  <1>6. TypeOK'
    BY <1>2, <1>3, <1>5 DEF TypeOK
  <1> QED
    BY <1>3, <1>4, <1>5, <1>6 DEF TypeInv

(* FailScript keeps the types.                                             *)
LEMMA FailScriptType ==
    ASSUME TypeInv, NEW w \in Workers, FailScript(w)
    PROVE  TypeInv'
  <1>1. PICK v : v = [Idle EXCEPT !.phase = "mark", !.doubt = {worker[w].intent}] /\ Becomes(w, v)
    BY DEF FailScript, Unresolved
  <1>2. v \in WorkerRecords /\ Sound(v)
    BY <1>1, UnresolvedType DEF FailScript
  <1>3. /\ effect' \in [status : {"none", "begun", "killed", "finished"}, times : Nat,
                        producer : 0..MaxClaims, result : Outcomes]
        /\ effect'.producer = effect.producer /\ effect.status # "none"
    BY Types DEF FailScript
  <1> QED
    BY <1>1, <1>2, <1>3, EffectType DEF FailScript, TypeInv

(* Query keeps the types.                                                  *)
LEMMA QueryType ==
    ASSUME TypeInv, NEW w \in Workers, Query(w)
    PROVE  TypeInv'
  <1>1. worker[w].phase \in {"call", "await", "recover"} /\ UNCHANGED <<storeVars, ceremonyVars, effect>>
    BY DEF Query
  <1>2. CASE effect.status = "finished" /\ Observe(w, effect.producer, effect.result)
    <2>1. effect.producer \in Fences /\ effect.result \in Outcomes
      BY <1>2, Types DEF TypeInv
    <2>2. PICK v : /\ v = [Completing(w) EXCEPT !.phase = "record",
                             !.seen = {[producer |-> effect.producer, result |-> effect.result, by |-> "worker"]}]
                   /\ Becomes(w, v)
      BY <1>2 DEF Observe
    <2>3. v \in WorkerRecords /\ Sound(v)
      BY <1>1, <2>1, <2>2, ObserveType
    <2> QED
      BY <1>1, <2>2, <2>3, WorkerOnly
  <1>3. CASE Unresolved(w)
    <2>1. PICK v : v = [Idle EXCEPT !.phase = "mark", !.doubt = {worker[w].intent}] /\ Becomes(w, v)
      BY <1>3 DEF Unresolved
    <2>2. v \in WorkerRecords /\ Sound(v)
      BY <1>1, <2>1, UnresolvedType
    <2> QED
      BY <1>1, <2>1, <2>2, WorkerOnly
  <1> QED
    BY <1>2, <1>3 DEF Query

(* A result that lands leaves the step and the late results typed.         *)
LEMMA LandsType ==
    ASSUME TypeInv, NEW fence \in Fences, NEW result \in Outcomes, Lands(fence, result)
    PROVE  /\ late' \subseteq Lates
           /\ step' \in [status : {"pending", "running"} \cup Outcomes, claim : 0..MaxClaims,
                         lapsed : BOOLEAN, retired : SUBSET Fences]
           /\ step'.claim = step.claim /\ (step'.status = "running" => step.status = "running")
  <1>1. CASE UNCHANGED step /\ late' = late \cup {[fence |-> fence, result |-> result]}
    BY <1>1, Types DEF TypeInv, TypeOK, Lates
  <1>2. CASE UNCHANGED late /\ step' = [step EXCEPT !.status = result, !.lapsed = FALSE]
    BY <1>2, Types DEF TypeInv, TypeOK, Outcomes
  <1> QED
    BY <1>1, <1>2 DEF Lands

(* So does a receipt that is applied.                                      *)
LEMMA ApplyType ==
    ASSUME TypeInv, NEW fence \in Fences, NEW r \in receipt, Apply(LinkOf(fence, r), r)
    PROVE  /\ links' \subseteq Links /\ late' \subseteq Lates
           /\ step' \in [status : {"pending", "running"} \cup Outcomes, claim : 0..MaxClaims,
                         lapsed : BOOLEAN, retired : SUBSET Fences]
           /\ step'.claim = step.claim /\ (step'.status = "running" => step.status = "running")
  <1>1. r \in Receipts
    BY DEF TypeInv, TypeOK
  <1>2. LinkOf(fence, r) \in Links /\ LinkOf(fence, r).applied = fence /\ r.result \in Outcomes
    BY <1>1 DEF LinkOf, Links, Receipts
  <1>3. links' \subseteq Links
    BY <1>2 DEF Apply, TypeInv, TypeOK
  <1>4. Lands(fence, r.result)
    BY <1>2 DEF Apply
  <1> QED
    BY <1>2, <1>3, <1>4, LandsType

(* Complete keeps the types.                                               *)
LEMMA CompleteType ==
    ASSUME TypeInv, NEW w \in Workers, Complete(w)
    PROVE  TypeInv'
  <1> DEFINE f == worker[w].fence
  <1>1. PICK r \in receipt : Apply(LinkOf(f, r), r) \/ UNCHANGED ceremonyVars
    BY DEF Complete
  <1>2. f \in Fences /\ UNCHANGED <<storeVars, effect>> /\ Becomes(w, Idle)
    BY DEF Complete, TypeInv, Sound
  <1> HIDE DEF f
  <1>3. /\ links' \subseteq Links /\ late' \subseteq Lates
        /\ step' \in [status : {"pending", "running"} \cup Outcomes, claim : 0..MaxClaims,
                      lapsed : BOOLEAN, retired : SUBSET Fences]
        /\ step'.claim = step.claim /\ (step'.status = "running" => step.status = "running")
    <2>1. CASE Apply(LinkOf(f, r), r)
      BY <1>2, <2>1, ApplyType
    <2>2. CASE UNCHANGED ceremonyVars
      BY <2>2, Types DEF ceremonyVars, TypeInv, TypeOK
    <2> QED
      BY <1>1, <2>1, <2>2
  <1>4. Intended' = Intended /\ step.claim \in Nat
    BY <1>2, Types DEF storeVars, Intended
  <1>5. PICK v : v = Idle
    OBVIOUS
  <1>6. Sound(v)'
    BY <1>3, <1>4, <1>5 DEF Sound, Idle
  <1>7. worker' \in [Workers -> WorkerRecords] /\ \A x \in Workers : Sound(worker[x])'
    BY <1>2, <1>3, <1>4, <1>5, <1>6, IdleType, OthersSound
  <1> QED
    BY <1>2, <1>3, <1>7 DEF TypeInv, TypeOK, WorkerRecords, storeVars

(* A receipt a host applies keeps the types.                               *)
LEMMA HostAppliesType ==
    ASSUME TypeInv, NEW fence \in Fences, NEW kind \in {"direct", "adopted"}, HostApplies(fence, kind)
    PROVE  TypeInv'
  <1>1. PICK r \in receipt : Apply(LinkOf(fence, r), r)
    BY DEF HostApplies
  <1> QED
    BY <1>1, ApplyType, StepOnly DEF HostApplies

(* A host's own answer keeps them too.                                     *)
LEMMA CompleteStepType ==
    ASSUME TypeInv, NEW answer \in HostAnswers, CompleteStep(answer.fence, answer.result)
    PROVE  TypeInv'
  <1>1. answer.fence \in Fences /\ answer.result \in Outcomes
    BY ReceiptsAssumption DEF Fences, Outcomes
  <1>2. links' \subseteq Links /\ UNCHANGED <<storeVars, effect, worker>> /\ Lands(answer.fence, answer.result)
    BY DEF CompleteStep, TypeInv, TypeOK
  <1> QED
    BY <1>1, <1>2, LandsType, StepOnly

(* Every step keeps the types.                                             *)
LEMMA NextTypes == TypeInv /\ [Next]_vars => TypeInv'
  <1> SUFFICES ASSUME TypeInv, [Next]_vars PROVE TypeInv'
    OBVIOUS
  <1>1. ASSUME NEW w \in Workers, Claim(w) \/ Resume(w) \/ Inspect(w) \/ Recover(w) PROVE TypeInv'
    BY <1>1, ClaimType, ResumeType, InspectType, RecoverType
  <1>2. ASSUME NEW w \in Workers, Crash(w) PROVE TypeInv'
    BY <1>2, StopType DEF Crash
  <1>3. ASSUME NEW w \in Workers, CheckPrior(w) \/ RecordIntent(w) \/ Admit(w) \/ MarkDoubt(w)
        PROVE  TypeInv'
    BY <1>3, CheckPriorType, RecordIntentType, AdmitType, MarkDoubtType
  <1>4. ASSUME NEW w \in Workers, StartScript(w) \/ KillScript(w) \/ FailScript(w) \/ Query(w)
        PROVE  TypeInv'
    BY <1>4, StartScriptType, ScriptEndsType, FailScriptType, QueryType
  <1>5. ASSUME NEW w \in Workers, RecordReceipt(w) \/ Complete(w) PROVE TypeInv'
    BY <1>5, RecordReceiptType, CompleteType
  <1>6. ASSUME NEW w \in Workers, NEW result \in Outcomes, RunHandler(w, result) \/ Settle(w, result)
        PROVE  TypeInv'
    BY <1>6, RunHandlerType, SettleType
  <1>7. ASSUME NEW result \in Outcomes, ScriptWrites(result) PROVE TypeInv'
    BY <1>7, ScriptEndsType
  <1>8. ASSUME NEW result \in Outcomes, NEW fence \in requirements, Reconcile(fence, result) PROVE TypeInv'
    BY <1>8, ReconcileType
  <1>9. CASE Lapse \/ ExpireDeadline
    BY <1>9, LossType
  <1>10. ASSUME NEW fence \in Fences, NEW kind \in {"direct", "adopted"}, HostApplies(fence, kind)
         PROVE  TypeInv'
    BY <1>10, HostAppliesType
  <1>11. ASSUME NEW answer \in HostAnswers, CompleteStep(answer.fence, answer.result) PROVE TypeInv'
    BY <1>11, CompleteStepType
  <1>12. CASE UNCHANGED vars
    BY <1>12 DEF vars, storeVars, ceremonyVars, TypeInv, TypeOK, Sound, Intended
  <1> QED
    BY <1>1, <1>2, <1>3, <1>4, <1>5, <1>6, <1>7, <1>8, <1>9, <1>10, <1>11, <1>12 DEF Next, WorkerStep

(* The initial states have the types.                                      *)
LEMMA InitTypes == Init => TypeInv
  <1> SUFFICES ASSUME Init PROVE TypeInv
    OBVIOUS
  <1>1. /\ worker \in [Workers -> WorkerRecords] /\ \A w \in Workers : worker[w] = Idle
    BY IdleType DEF Init
  <1>2. \A w \in Workers : Sound(worker[w])
    <2>1. step.claim \in Nat
      BY DEF Init
    <2>2. Sound(Idle)
      BY <2>1, IdleSound
    <2> QED
      BY <1>1, <2>2
  <1>3. step \in [status : {"pending", "running"} \cup Outcomes, claim : 0..MaxClaims,
                  lapsed : BOOLEAN, retired : SUBSET Fences]
    BY ReceiptsAssumption DEF Init
  <1>4. effect \in [status : {"none", "begun", "killed", "finished"}, times : Nat,
                    producer : 0..MaxClaims, result : Outcomes]
    BY ReceiptsAssumption DEF Init, Outcomes
  <1>5. intents \in Seq(Fences)
    BY DEF Init
  <1> QED
    BY <1>1, <1>2, <1>3, <1>4, <1>5 DEF Init, TypeInv, TypeOK, WorkerRecords

(* The execution of an operation keeps its types.                          *)
THEOREM ExecutionTypeCorrect == Spec => []TypeOK
  <1>1. TypeInv => TypeOK
    BY DEF TypeInv
  <1> QED
    BY <1>1, InitTypes, NextTypes, PTL DEF Spec

-----------------------------------------------------------------------------
(* The effect happens at most once.  A connector that cannot be asked is   *)
(* called under the first intent only, and only one worker ever holds the  *)
(* answer that its intent was the first.                                   *)
Hot(w) == \/ worker[w].phase = "admit" /\ worker[w].recorded = "first"
          \/ worker[w].phase = "call"

EffectInv ==
    /\ effect.times \in {0, 1}
    /\ effect.status = "none" <=> effect.times = 0
    /\ Intended = {} => effect.times = 0 /\ \A w \in Workers : ~Hot(w)
    /\ capability = "reconcile" =>
          \A w \in Workers : Hot(w) => /\ effect.times = 0
                                       /\ \A v \in Workers : Hot(v) => v = w

(* A worker that moves on to anything but the call.                        *)
Cool(v) == v.phase \notin {"admit", "call"}

(* Most moves of a worker do not lead to the effect.                       *)
LEMMA CoolMoves ==
    ASSUME TypeInv, NEW w \in Workers,
           \/ Claim(w) \/ Resume(w) \/ Inspect(w) \/ Recover(w) \/ Crash(w) \/ CheckPrior(w)
           \/ MarkDoubt(w) \/ StartScript(w) \/ FailScript(w) \/ Query(w) \/ RecordReceipt(w)
           \/ Complete(w) \/ \E result \in Outcomes : RunHandler(w, result) \/ Settle(w, result)
    PROVE  \E v : Becomes(w, v) /\ Cool(v)
  <1> DEFINE u == worker[w]
             k == Completing(w)
  <1>1. u \in WorkerRecords /\ k \in WorkerRecords
    BY Types, CompletingType
  <1>2. Cool(Idle) /\ Cool(k)
    BY CompletingType DEF Cool, Idle
  <1>3. CASE Claim(w) \/ Resume(w)
    <2>1. \A c : Cool([Idle EXCEPT !.phase = "check", !.fence = c])
      BY DEF Cool, Idle
    <2> QED
      BY <1>3, <2>1 DEF Claim, Resume
  <1>4. CASE Crash(w) \/ MarkDoubt(w) \/ Complete(w)
    BY <1>2, <1>4 DEF Crash, MarkDoubt, Complete
  <1>5. CASE RecordReceipt(w)
    BY <1>2, <1>5 DEF RecordReceipt
  <1>6. ASSUME NEW p \in {"complete", "intend", "await"} PROVE Cool([u EXCEPT !.phase = p])
    BY <1>1 DEF WorkerRecords, Cool
  <1>7. ASSUME NEW D PROVE Cool([Idle EXCEPT !.phase = "mark", !.doubt = D])
    BY DEF Idle, Cool
  <1>8. ASSUME NEW S PROVE Cool([k EXCEPT !.phase = "record", !.seen = S])
    BY <1>1 DEF WorkerRecords, Cool
  <1>9. CASE CheckPrior(w)
    BY <1>6, <1>7, <1>9 DEF CheckPrior
  <1>10. CASE StartScript(w)
    BY <1>6, <1>10 DEF StartScript, Goes
  <1>11. CASE FailScript(w) \/ Query(w)
    BY <1>7, <1>8, <1>11 DEF FailScript, Query, Unresolved, Observe
  <1>12. ASSUME NEW result \in Outcomes, RunHandler(w, result) \/ Settle(w, result)
         PROVE  \E v : Becomes(w, v) /\ Cool(v)
    BY <1>2, <1>8, <1>12 DEF RunHandler, Settle, Observe
  <1>13. CASE Inspect(w)
    <2>1. Cool([Idle EXCEPT !.phase = "inspect", !.mode = "recovery"])
      BY DEF Cool, Idle
    <2> QED
      BY <1>13, <2>1 DEF Inspect
  <1>14. CASE Recover(w)
    <2>1. \A c : Cool([Idle EXCEPT !.mode = "recovery", !.phase = "complete", !.fence = c])
      BY DEF Cool, Idle
    <2>2. \A c, i : Cool([Idle EXCEPT !.mode = "recovery", !.phase = "recover", !.fence = c, !.intent = i])
      BY DEF Cool, Idle
    <2> QED
      BY <1>2, <1>7, <1>14, <2>1, <2>2 DEF Recover
  <1> QED
    BY <1>3, <1>4, <1>5, <1>9, <1>10, <1>11, <1>12, <1>13, <1>14

(* Such a move brings nobody to the effect.                                *)
LEMMA NobodyHeats ==
    ASSUME TypeInv, NEW w \in Workers, NEW v, Becomes(w, v), Cool(v)
    PROVE  /\ \A x \in Workers : Hot(x)' => Hot(x)
           /\ ~Hot(w)'
  <1>1. worker'[w] = v /\ \A x \in Workers \ {w} : worker'[x] = worker[x]
    BY Types DEF Becomes
  <1> QED
    BY <1>1 DEF Hot, Cool

(* The steps that neither run the effect nor prepare a call.               *)
LEMMA NoEffect ==
    ASSUME TypeInv, EffectInv, UNCHANGED <<capability, effect>>, Intended \subseteq Intended',
           \A x \in Workers : Hot(x)' => Hot(x) \/ (Intended' # {} /\ capability # "reconcile")
    PROVE  EffectInv'
  <1>1. Intended' = {} => effect.times = 0 /\ \A w \in Workers : ~Hot(w)'
    BY DEF EffectInv
  <1>2. capability = "reconcile" => \A w \in Workers : Hot(w)' => Hot(w)
    OBVIOUS
  <1> QED
    BY <1>1, <1>2 DEF EffectInv

(* Somebody who was called for the effect recorded an intent before.       *)
LEMMA CalledIsIntended ==
    ASSUME TypeInv, NEW w \in Workers, worker[w].phase \in {"admit", "call", "await", "recover"}
    PROVE  Intended # {}
  BY DEF TypeInv, Sound

(* The effect runs once more, by a connector that asks before it runs.     *)
LEMMA AskedEffect ==
    ASSUME TypeInv, EffectInv, NEW w \in Workers, worker[w].phase \in {"call", "recover"},
           NEW producer \in Fences, NEW result \in Outcomes, NEW status \in {"begun", "finished"},
           Ran(producer, result, status), effect.times = 0, UNCHANGED storeVars,
           capability = "reconcile" => \A x \in Workers : ~Hot(x)'
    PROVE  EffectInv'
  <1>1. effect'.status = status /\ effect'.times = effect.times + 1
    BY RanType
  <1>2. effect'.times = 1
    BY <1>1
  <1>3. Intended' # {} /\ UNCHANGED capability
    BY CalledIsIntended DEF storeVars, Intended
  <1> QED
    BY <1>1, <1>2, <1>3 DEF EffectInv

(* RecordIntent: only the first intent leads on to an effect that cannot   *)
(* be asked about.                                                         *)
LEMMA RecordIntentEffect ==
    ASSUME TypeInv, EffectInv, NEW w \in Workers, RecordIntent(w)
    PROVE  EffectInv'
  <1> DEFINE u == worker[w]
             how == IF u.fence \in Intended THEN "already"
                    ELSE IF Intended = {} THEN "first" ELSE "additional"
             v == [u EXCEPT !.phase = "admit", !.intent = u.fence, !.recorded = how]
  <1>1. Becomes(w, v) /\ UNCHANGED <<capability, effect>> /\ Intended' = Intended \cup {u.fence}
    BY RecordIntentType DEF RecordIntent
  <1>2. v.recorded = how /\ v.phase = "admit"
    BY Types DEF WorkerRecords
  <1> HIDE DEF v
  <1>3. worker'[w] = v /\ \A x \in Workers \ {w} : worker'[x] = worker[x]
    BY <1>1, Types DEF Becomes
  <1>4. CASE Intended = {}
    <2>1. effect.times = 0 /\ \A x \in Workers : ~Hot(x)
      BY <1>4 DEF EffectInv
    <2>2. \A x \in Workers : Hot(x)' => x = w
      BY <1>3, <2>1 DEF Hot
    <2> QED
      BY <1>1, <2>1, <2>2 DEF EffectInv
  <1>5. CASE Intended # {}
    <2>1. v.recorded # "first"
      BY <1>2, <1>5
    <2>2. \A x \in Workers : Hot(x)' => Hot(x)
      BY <1>2, <1>3, <2>1 DEF Hot
    <2> QED
      BY <1>1, <2>2, NoEffect
  <1> QED
    BY <1>4, <1>5

(* Admit: who is in doubt is not let through.                              *)
LEMMA AdmitEffect ==
    ASSUME TypeInv, EffectInv, NEW w \in Workers, Admit(w)
    PROVE  EffectInv'
  <1>1. Intended # {} /\ worker[w] \in WorkerRecords /\ worker[w].phase = "admit"
    BY CalledIsIntended, Types DEF Admit
  <1>2. UNCHANGED <<capability, effect>> /\ Intended' = Intended
    BY DEF Admit, storeVars, Intended
  <1>3. PICK v : Becomes(w, v) /\ (Cool(v) \/ ~InDoubt(w))
    <2>1. Cool(Completing(w)) /\ Cool(Idle)
          /\ Cool([Idle EXCEPT !.phase = "mark", !.doubt = Doubtful(w)])
      BY <1>1, CompletingType DEF Cool, Idle, WorkerRecords
    <2> QED
      BY <2>1 DEF Admit
  <1>4. CASE Cool(v)
    BY <1>2, <1>3, <1>4, NobodyHeats, NoEffect
  <1>5. CASE ~InDoubt(w)
    <2>1. capability = "reconcile" => Hot(w)
      BY <1>1, <1>5 DEF InDoubt, Hot
    <2>2. \A x \in Workers \ {w} : worker'[x] = worker[x]
      BY <1>3, Types DEF Becomes
    <2>3. \A x \in Workers \ {w} : Hot(x)' => Hot(x)
      BY <2>2 DEF Hot
    <2> QED
      BY <1>1, <1>2, <2>1, <2>3, NoEffect
  <1> QED
    BY <1>3, <1>4, <1>5

(* RunHandler: the one who was let through runs the effect.                *)
LEMMA RunHandlerEffect ==
    ASSUME TypeInv, EffectInv, NEW w \in Workers, NEW result \in Outcomes, RunHandler(w, result)
    PROVE  EffectInv'
  <1>1. /\ capability = "reconcile" /\ worker[w].phase = "call" /\ worker[w].intent \in Fences
        /\ Ran(worker[w].intent, result, "finished") /\ UNCHANGED storeVars
    BY IntentType DEF RunHandler
  <1>2. Hot(w)
    BY <1>1 DEF Hot
  <1>3. effect.times = 0 /\ \A x \in Workers : Hot(x) => x = w
    BY <1>1, <1>2 DEF EffectInv
  <1>4. PICK v : Becomes(w, v) /\ Cool(v)
    BY CoolMoves
  <1>5. \A x \in Workers : ~Hot(x)'
    BY <1>3, <1>4, NobodyHeats
  <1> QED
    BY <1>1, <1>3, <1>5, AskedEffect

(* Settle: the connector settles the operation once.                       *)
LEMMA SettleEffect ==
    ASSUME TypeInv, EffectInv, NEW w \in Workers, NEW result \in Outcomes, Settle(w, result)
    PROVE  EffectInv'
  <1>1. /\ capability = "idempotent" /\ worker[w].phase \in {"call", "recover"} /\ UNCHANGED storeVars
        /\ worker[w].intent \in Fences
    BY IntentType DEF Settle
  <1>2. CASE effect.status = "none" /\ Ran(worker[w].intent, result, "finished")
    <2>1. effect.times = 0
      BY <1>2 DEF EffectInv
    <2> QED
      BY <1>1, <1>2, <2>1, AskedEffect
  <1>3. CASE UNCHANGED effect
    <2>1. PICK v : Becomes(w, v) /\ Cool(v)
      BY CoolMoves
    <2>2. Intended' = Intended /\ UNCHANGED capability
      BY <1>1 DEF storeVars, Intended
    <2> QED
      BY <1>3, <2>1, <2>2, NobodyHeats, NoEffect
  <1> QED
    BY <1>2, <1>3 DEF Settle

(* StartScript: the marker admits the operation once.                      *)
LEMMA StartScriptEffect ==
    ASSUME TypeInv, EffectInv, NEW w \in Workers, StartScript(w)
    PROVE  EffectInv'
  <1>1. /\ capability = "queryable" /\ worker[w].phase = "call" /\ UNCHANGED storeVars
        /\ worker[w].intent \in Fences /\ effect.result \in Outcomes
        /\ Ran(worker[w].intent, effect.result, "begun")
    BY IntentType, Types DEF StartScript
  <1>2. effect.times = 0
    BY DEF StartScript, Admitted, EffectInv
  <1> QED
    BY <1>1, <1>2, AskedEffect

(* A script under way ends, and nothing runs.                              *)
LEMMA ScriptEndsEffect ==
    ASSUME TypeInv, EffectInv, UNCHANGED storeVars, effect.status # "none", effect'.status # "none",
           effect'.times = effect.times, \A x \in Workers : Hot(x)' => Hot(x)
    PROVE  EffectInv'
  <1>1. Intended' = Intended /\ UNCHANGED capability
    BY DEF storeVars, Intended
  <1> QED
    BY <1>1 DEF EffectInv

(* Every step keeps the effect to one.                                     *)
LEMMA NextEffect == TypeInv /\ EffectInv /\ [Next]_vars => EffectInv'
  <1> SUFFICES ASSUME TypeInv, EffectInv, [Next]_vars PROVE EffectInv'
    OBVIOUS
  <1>1. ASSUME NEW w \in Workers,
               \/ Claim(w) \/ Resume(w) \/ Inspect(w) \/ Recover(w) \/ Crash(w) \/ CheckPrior(w)
               \/ MarkDoubt(w) \/ Query(w) \/ RecordReceipt(w) \/ Complete(w)
        PROVE  EffectInv'
    <2>1. UNCHANGED <<capability, intents, effect>>
      BY <1>1 DEF Claim, Resume, Inspect, Recover, Crash, CheckPrior, MarkDoubt, Query, RecordReceipt,
                  Complete, storeVars
    <2>2. Intended' = Intended
      BY <2>1 DEF Intended
    <2>3. PICK v : Becomes(w, v) /\ Cool(v)
      BY <1>1, CoolMoves
    <2> QED
      BY <2>1, <2>2, <2>3, NobodyHeats, NoEffect
  <1>3. ASSUME NEW w \in Workers, RecordIntent(w) \/ Admit(w) \/ StartScript(w) PROVE EffectInv'
    BY <1>3, RecordIntentEffect, AdmitEffect, StartScriptEffect
  <1>4. ASSUME NEW w \in Workers, NEW result \in Outcomes, RunHandler(w, result) \/ Settle(w, result)
        PROVE  EffectInv'
    BY <1>4, RunHandlerEffect, SettleEffect
  <1>5. ASSUME NEW w \in Workers, FailScript(w) PROVE EffectInv'
    <2>1. /\ UNCHANGED storeVars /\ effect.status # "none" /\ effect'.status # "none"
          /\ effect'.times = effect.times
      BY <1>5, Types DEF FailScript
    <2>2. PICK v : Becomes(w, v) /\ Cool(v)
      BY <1>5, CoolMoves
    <2> QED
      BY <2>1, <2>2, NobodyHeats, ScriptEndsEffect
  <1>6. CASE \/ \E result \in Outcomes : ScriptWrites(result)
             \/ \E w \in Workers : KillScript(w)
    <2>1. /\ UNCHANGED <<storeVars, worker>> /\ effect.status # "none" /\ effect'.status # "none"
          /\ effect'.times = effect.times
      BY <1>6, Types DEF ScriptWrites, KillScript
    <2> QED
      BY <2>1, ScriptEndsEffect DEF Hot
  <1>7. CASE \/ \E result \in Outcomes, fence \in requirements : Reconcile(fence, result)
             \/ \E answer \in HostAnswers : CompleteStep(answer.fence, answer.result)
             \/ \E fence \in Fences, kind \in {"direct", "adopted"} : HostApplies(fence, kind)
             \/ Lapse \/ ExpireDeadline \/ UNCHANGED vars
    <2>1. UNCHANGED <<capability, intents, effect, worker>>
      BY <1>7 DEF Reconcile, CompleteStep, HostApplies, Lapse, ExpireDeadline, vars, storeVars
    <2> QED
      BY <2>1, NoEffect DEF Hot, Intended
  <1> QED
    BY <1>1, <1>3, <1>4, <1>5, <1>6, <1>7 DEF Next, WorkerStep

(* However workers crash, lose their claims and are recovered, the outside *)
(* effect of the operation happens at most once.                           *)
THEOREM EffectHappensOnce == Spec => []EffectOnce
  <1>1. Init => EffectInv
    BY DEF Init, EffectInv, Hot, Idle
  <1>2. EffectInv => EffectOnce
    BY DEF EffectInv, EffectOnce
  <1> QED
    BY <1>1, <1>2, InitTypes, NextTypes, NextEffect, PTL DEF Spec

-----------------------------------------------------------------------------
(* Links, the step and the receipt agree.  There is one receipt, links and *)
(* retired claims are of claims that were made, and once the receipt of a  *)
(* success has moved the step, the step is completed for good: nobody can  *)
(* claim it, so nothing can move it again.                                 *)
LinkInv ==
    /\ \A q, r \in receipt : q = r
    /\ OneOutcome
    /\ \A l \in links : l.applied <= step.claim
    /\ \A f \in step.retired : f <= step.claim
    /\ \A l \in links : ~NotedLate(l.applied) =>
          \A r \in receipt : r.result = "completed" => step.status = "completed"
    /\ AppliedOnce

(* The numbers of links, claims and receipts.                              *)
LEMMA LinkTypes ==
    ASSUME TypeInv
    PROVE  /\ step.claim \in Nat /\ \A f \in step.retired : f \in Nat
           /\ \A l \in links : l.applied \in Nat
           /\ \A r \in receipt : r.result \in Outcomes
  BY Types DEF TypeInv, TypeOK, Links, Receipts

(* A step that makes no link: the step is left alone, claimed anew, or     *)
(* was being worked on.                                                    *)
LEMMA NoLink ==
    ASSUME TypeInv, LinkInv, UNCHANGED links, late \subseteq late', step'.claim \in Nat,
           UNCHANGED receipt \/ (receipt = {} /\ \A q, r \in receipt' : q = r),
           \A f \in step'.retired : f <= step'.claim,
           \/ step.claim < step'.claim /\ step.status # "completed"
           \/ step'.claim = step.claim /\ (step'.status = step.status \/ step.status = "running")
    PROVE  LinkInv'
  <1>1. receipt # {} => UNCHANGED receipt
    OBVIOUS
  <1>2. links # {} => receipt # {}
    BY DEF LinkInv, OneOutcome
  <1>3. \A x : NotedLate(x) => NotedLate(x)'
    BY DEF NotedLate
  <1>4. \A l \in links : l.applied \in Nat /\ l.applied <= step.claim
    BY LinkTypes DEF LinkInv
  <1>5. \A q, r \in receipt' : q = r
    BY DEF LinkInv
  <1>6. OneOutcome'
    <2> SUFFICES ASSUME NEW l \in links
                 PROVE  \E r \in receipt' : /\ l.producer = r.producer
                                            /\ l.applied = step'.claim /\ ~NotedLate(l.applied)'
                                                  => step'.status = r.result
      BY DEF OneOutcome, NotedLate
    <2>1. PICK r \in receipt : /\ l.producer = r.producer
                               /\ l.applied = step.claim /\ ~NotedLate(l.applied) => step.status = r.result
      BY DEF LinkInv, OneOutcome
    <2>2. UNCHANGED receipt /\ r.result # "running"
      BY <1>1, LinkTypes DEF Outcomes
    <2>3. l.applied = step'.claim /\ ~NotedLate(l.applied)' => step'.status = r.result
      BY <1>3, <1>4, <2>1, <2>2, LinkTypes
    <2> QED
      BY <2>1, <2>2, <2>3
  <1>7. \A l \in links' : l.applied <= step'.claim
    BY <1>4, LinkTypes
  <1>8. \A l \in links' : ~NotedLate(l.applied)' =>
          \A r \in receipt' : r.result = "completed" => step'.status = "completed"
    BY <1>1, <1>2, <1>3 DEF LinkInv
  <1>9. AppliedOnce'
    BY <1>1, <1>2, <1>3 DEF LinkInv, AppliedOnce, NotedLate
  <1> QED
    BY <1>5, <1>6, <1>7, <1>8, <1>9 DEF LinkInv, NotedLate

(* A result that lands without a link.                                     *)
LEMMA LandsLinks ==
    ASSUME TypeInv, LinkInv, NEW fence \in Fences, NEW result \in Outcomes,
           Admissible(fence, result), Lands(fence, result), UNCHANGED <<links, receipt>>
    PROVE  LinkInv'
  <1>1. CASE fence \in step.retired
    <2>1. UNCHANGED step /\ late \subseteq late'
      BY <1>1 DEF Lands
    <2> QED
      BY <2>1, NoLink, LinkTypes DEF LinkInv
  <1>2. CASE fence \notin step.retired
    <2>1. step.status = "running" /\ UNCHANGED late /\ step' = [step EXCEPT !.status = result, !.lapsed = FALSE]
      BY <1>2 DEF Lands, Admissible, FenceHolds
    <2>2. step'.claim = step.claim /\ step'.retired = step.retired
      BY <2>1, Types
    <2> QED
      BY <2>1, <2>2, NoLink, LinkTypes DEF LinkInv
  <1> QED
    BY <1>1, <1>2

(* A receipt that is applied: to a retired claim it is noted as late, and  *)
(* otherwise it moves the step of the current claim, which no link of a    *)
(* success had moved before.                                               *)
LEMMA ApplyLinks ==
    ASSUME TypeInv, LinkInv, NEW fence \in Fences, NEW r \in receipt,
           Apply(LinkOf(fence, r), r), UNCHANGED receipt
    PROVE  LinkInv'
  <1>1. PICK k : k = LinkOf(fence, r)
    OBVIOUS
  <1>2. k.applied = fence /\ k.producer = r.producer
    BY <1>1 DEF LinkOf
  <1>3. links' = links \cup {k} /\ Lands(fence, r.result) /\ Admissible(fence, r.result)
    BY <1>1, <1>2 DEF Apply, Applicable
  <1>4. r.result \in Outcomes /\ step.claim \in Nat /\ \A q \in receipt : q = r
    BY LinkTypes DEF LinkInv
  <1>5. \A l \in links : l.applied \in Nat /\ l.applied <= step.claim /\ l.producer = r.producer
    BY <1>4, LinkTypes DEF LinkInv, OneOutcome
  <1>6. \A l \in links : l.applied = step.claim /\ ~NotedLate(l.applied) => step.status = r.result
    BY <1>4 DEF LinkInv, OneOutcome
  <1>7. CASE fence \in step.retired
    <2>1. UNCHANGED step /\ late' = late \cup {[fence |-> fence, result |-> r.result]} /\ fence <= step.claim
      BY <1>3, <1>7 DEF Lands, LinkInv
    <2>2. NotedLate(fence)' /\ \A x : NotedLate(x) => NotedLate(x)'
      <3>1. PICK n : n = [fence |-> fence, result |-> r.result]
        OBVIOUS
      <3>2. n.fence = fence /\ n \in late' /\ late \subseteq late'
        BY <2>1, <3>1
      <3> QED
        BY <3>2 DEF NotedLate
    <2>3. \A l \in links' : ~NotedLate(l.applied)' => l \in links /\ ~NotedLate(l.applied)
      BY <1>2, <1>3, <2>2
    <2>4. OneOutcome'
      BY <1>2, <1>3, <1>4, <1>5, <1>6, <2>1, <2>3 DEF OneOutcome, NotedLate
    <2>5. AppliedOnce'
      BY <2>3 DEF LinkInv, AppliedOnce, NotedLate
    <2> QED
      BY <1>2, <1>3, <1>5, <2>1, <2>3, <2>4, <2>5 DEF LinkInv, NotedLate
  <1>8. CASE fence \notin step.retired
    <2>1. /\ step.status = "running" /\ step.claim = fence /\ UNCHANGED late
          /\ step' = [step EXCEPT !.status = r.result, !.lapsed = FALSE]
      BY <1>3, <1>8 DEF Lands, Admissible, FenceHolds
    <2>2. step'.claim = fence /\ step'.retired = step.retired /\ step'.status = r.result
      BY <2>1, Types
    <2>3. \A x : NotedLate(x)' <=> NotedLate(x)
      BY <2>1 DEF NotedLate
    <2>4. OneOutcome'
      BY <1>2, <1>3, <1>5, <2>2 DEF OneOutcome, NotedLate
    <2>5. r.result = "completed" => \A l \in links : NotedLate(l.applied)
      BY <2>1 DEF LinkInv
    <2>6. AppliedOnce'
      <3> SUFFICES ASSUME NEW l \in links', NEW m \in links', l # m, ~NotedLate(l.applied)', ~NotedLate(m.applied)'
                   PROVE  r.result = "failed"
        BY <1>4 DEF AppliedOnce, NotedLate
      <3>1. l \in links \/ m \in links
        BY <1>3
      <3>2. ~NotedLate(l.applied) /\ ~NotedLate(m.applied)
        BY <2>3
      <3> QED
        BY <1>4, <2>5, <3>1, <3>2 DEF Outcomes
    <2>7. \A l \in links' : l.applied <= step'.claim
      BY <1>2, <1>3, <1>4, <1>5, <2>1, <2>2
    <2>8. \A f \in step'.retired : f <= step'.claim
      BY <2>1, <2>2 DEF LinkInv
    <2>9. \A q \in receipt' : q.result = "completed" => step'.status = "completed"
      BY <1>4, <2>2
    <2>10. \A p, q \in receipt' : p = q
      BY <1>4
    <2> QED
      BY <2>4, <2>6, <2>7, <2>8, <2>9, <2>10 DEF LinkInv, NotedLate
  <1> QED
    BY <1>7, <1>8

(* Every step keeps links, step and receipt in agreement.                  *)
LEMMA NextLinks == TypeInv /\ LinkInv /\ [Next]_vars => LinkInv'
  <1> SUFFICES ASSUME TypeInv, LinkInv, [Next]_vars PROVE LinkInv'
    OBVIOUS
  <1>1. ASSUME UNCHANGED <<links, late, step>>,
               UNCHANGED receipt \/ (receipt = {} /\ \A q, r \in receipt' : q = r)
        PROVE  LinkInv'
    BY <1>1, NoLink, LinkTypes DEF LinkInv
  <1>2. ASSUME NEW w \in Workers,
               \/ Resume(w) \/ Inspect(w) \/ Recover(w) \/ Crash(w) \/ CheckPrior(w)
               \/ RecordIntent(w) \/ Admit(w) \/ MarkDoubt(w)
        PROVE  LinkInv'
    <2>1. UNCHANGED <<links, late, step, receipt>>
      BY <1>2 DEF Resume, Inspect, Recover, Crash, CheckPrior, RecordIntent, Admit, MarkDoubt,
                  storeVars, ceremonyVars
    <2> QED
      BY <1>1, <2>1
  <1>3. ASSUME NEW w \in Workers,
               \/ StartScript(w) \/ KillScript(w) \/ FailScript(w) \/ Query(w)
               \/ \E result \in Outcomes : RunHandler(w, result) \/ Settle(w, result)
        PROVE  LinkInv'
    <2>1. UNCHANGED <<links, late, step, receipt>>
      BY <1>3 DEF StartScript, KillScript, FailScript, Query, RunHandler, Settle, storeVars, ceremonyVars
    <2> QED
      BY <1>1, <2>1
  <1>4. ASSUME NEW w \in Workers, RecordReceipt(w) PROVE LinkInv'
    <2>1. UNCHANGED <<links, late, step>>
      BY <1>4 DEF RecordReceipt, ceremonyVars
    <2>2. UNCHANGED receipt \/ (receipt = {} /\ \A q, r \in receipt' : q = r)
      BY <1>4 DEF RecordReceipt, KeptReceipt
    <2> QED
      BY <1>1, <2>1, <2>2
  <1>5. ASSUME NEW result \in Outcomes, NEW fence \in requirements, Reconcile(fence, result) PROVE LinkInv'
    <2>1. UNCHANGED <<links, late, step>> /\ receipt = {} /\ \A q, r \in receipt' : q = r
      BY <1>5 DEF Reconcile, ceremonyVars
    <2> QED
      BY <1>1, <2>1
  <1>6. CASE (\E result \in Outcomes : ScriptWrites(result)) \/ UNCHANGED vars
    <2>1. UNCHANGED <<links, late, step, receipt>>
      BY <1>6 DEF ScriptWrites, vars, storeVars, ceremonyVars
    <2> QED
      BY <1>1, <2>1
  <1>7. ASSUME NEW w \in Workers, Claim(w) PROVE LinkInv'
    <2>1. UNCHANGED <<links, late, receipt>> /\ step.status # "completed"
      BY <1>7 DEF Claim, storeVars
    <2>2. step'.claim = step.claim + 1 /\ step'.retired = step.retired
      BY <1>7, Types DEF Claim
    <2>3. step'.claim \in Nat /\ step.claim < step'.claim /\ \A f \in step'.retired : f <= step'.claim
      BY <2>2, LinkTypes DEF LinkInv
    <2> QED
      BY <2>1, <2>3, NoLink
  <1>8. CASE Lapse \/ ExpireDeadline
    <2>1. UNCHANGED <<links, late, receipt>> /\ step.status = "running" /\ step'.claim = step.claim
      BY <1>8, Types DEF Lapse, ExpireDeadline, storeVars
    <2>2. step'.retired \subseteq step.retired \cup {step.claim}
      BY <1>8, Types DEF Lapse, ExpireDeadline
    <2>3. \A f \in step'.retired : f <= step'.claim
      BY <2>1, <2>2, LinkTypes DEF LinkInv
    <2> QED
      BY <2>1, <2>3, NoLink, LinkTypes
  <1>9. ASSUME NEW w \in Workers, Complete(w) PROVE LinkInv'
    <2>1. PICK r \in receipt : Apply(LinkOf(worker[w].fence, r), r) \/ UNCHANGED ceremonyVars
      BY <1>9 DEF Complete
    <2>2. worker[w].fence \in Fences /\ UNCHANGED receipt
      BY <1>9 DEF Complete, TypeInv, Sound, storeVars
    <2> QED
      BY <1>1, <2>1, <2>2, ApplyLinks DEF ceremonyVars
  <1>10. ASSUME NEW fence \in Fences, NEW kind \in {"direct", "adopted"}, HostApplies(fence, kind)
         PROVE  LinkInv'
    <2>1. (\E r \in receipt : Apply(LinkOf(fence, r), r)) /\ UNCHANGED receipt
      BY <1>10 DEF HostApplies, storeVars
    <2> QED
      BY <2>1, ApplyLinks
  <1>11. ASSUME NEW answer \in HostAnswers, CompleteStep(answer.fence, answer.result) PROVE LinkInv'
    <2>1. answer.fence \in Fences /\ answer.result \in Outcomes
      BY ReceiptsAssumption DEF Fences, Outcomes
    <2>2. /\ UNCHANGED <<links, receipt>> /\ Admissible(answer.fence, answer.result)
          /\ Lands(answer.fence, answer.result)
      BY <1>11 DEF CompleteStep, storeVars
    <2> QED
      BY <2>1, <2>2, LandsLinks
  <1> QED
    BY <1>2, <1>3, <1>4, <1>5, <1>6, <1>7, <1>8, <1>9, <1>10, <1>11 DEF Next, WorkerStep

(* Before the first claim there is neither a link nor a receipt.           *)
LEMMA InitLinks == Init => LinkInv
  BY DEF Init, LinkInv, OneOutcome, AppliedOnce

(* Links and the step agree with the one receipt of the operation,         *)
(* whichever worker, recovery pass or operator recorded it, and whoever    *)
(* applied it.                                                             *)
THEOREM OutcomeIsOne == Spec => []OneOutcome
  <1>1. LinkInv => OneOutcome
    BY DEF LinkInv
  <1> QED
    BY <1>1, InitLinks, InitTypes, NextTypes, NextLinks, PTL DEF Spec

(* The receipt of a success moves its step at most once, although workers, *)
(* recovery passes that looked earlier and hosts may all come to apply it, *)
(* to any claim.                                                           *)
THEOREM ReceiptAppliesOnce == Spec => []AppliedOnce
  <1>1. LinkInv => AppliedOnce
    BY DEF LinkInv
  <1> QED
    BY <1>1, InitLinks, InitTypes, NextTypes, NextLinks, PTL DEF Spec
=============================================================================
