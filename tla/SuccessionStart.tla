-------------------------- MODULE SuccessionStart --------------------------
(***************************************************************************)
(* A paused ceremony hands off to a successor: the plan is sealed in the   *)
(* predecessor's stream, then the successor's stream is opened with what   *)
(* the plan gives.  The two appends are made by calls that may be          *)
(* repeated, race one another, or die in between, while claims taken       *)
(* before the pause still complete and write the predecessor's context.    *)
(*                                                                         *)
(* One predecessor with one claimable step is kept.  A context is the      *)
(* number of writes folded into it; a caller's override is a value of its  *)
(* own.  The instant a plan is stamped with stands for the call that built *)
(* it.  The successor's id is derived from the plan id, so the plan id     *)
(* stands for it.  Definition diffs and pins are checked where the         *)
(* instance is modelled; the admission of the target definition is not     *)
(* modelled.                                                               *)
(***************************************************************************)
EXTENDS Naturals

CONSTANTS
    Calls,       \* concurrent calls of StartCeremonySuccessor
    PlanIds,     \* the idempotency keys callers name a handoff by
    Overrides,   \* the contexts a caller may ask for instead
    MaxClaims    \* bound on the claims of the step

ASSUME SuccessionAssumption ==
    /\ MaxClaims \in Nat \ {0} /\ Overrides \cap Nat = {}

Fences   == 1..MaxClaims
Contexts == 0..MaxClaims \cup Overrides
Requests == [id : PlanIds, carry : BOOLEAN, dispose : SUBSET Fences,
             override : {{}} \cup { {o} : o \in Overrides }]
Plans    == [id : PlanIds, by : Calls, carried : SUBSET Fences,
             disposed : SUBSET Fences]

VARIABLES
    phase,       \* the predecessor's lifecycle
    step,        \* [status, fence] of its step's record
    context,     \* the predecessor's context
    plan,        \* {} or {the sealed plan}
    sealedFor,   \* {} or {the request the plan was sealed for}
    successor,   \* [PlanIds -> {} or {the opening of the stream}]
    call,        \* what each call is about to do
    refused      \* the requests refused as a foreign ceremony's

predecessor == <<phase, step, context>>
handoffVars == <<predecessor, plan, sealedFor, successor, call, refused>>

Openings == [plan : Plans, context : Contexts, request : Requests]
NoTask == [pc |-> "idle"]
Tasks == {NoTask}
    \cup [pc : {"seal"}, request : Requests, plan : Plans]
    \cup [pc : {"open"}, request : Requests, plan : Plans, context : Contexts]

(* Every variable keeps its type, and no call holds a plan of another id.  *)
HandoffTypeOK ==
    /\ phase \in {"running", "paused", "ended"}
    /\ step \in [status : {"pending", "in_progress", "completed"}, fence : 0..MaxClaims]
    /\ context \in 0..MaxClaims
    /\ plan \in SUBSET Plans /\ \A s, t \in plan : s = t
    /\ sealedFor \in SUBSET Requests
    /\ successor \in [PlanIds -> SUBSET Openings]
    /\ \A id \in PlanIds : \A s, t \in successor[id] : s = t
    /\ call \in [Calls -> Tasks]
    /\ \A p \in Calls : call[p].pc # "idle" => call[p].plan.id = call[p].request.id
    /\ refused \in SUBSET Requests

HandoffInit ==
    /\ phase = "running" /\ context = 0
    /\ step = [status |-> "pending", fence |-> 0]
    /\ plan = {} /\ sealedFor = {}
    /\ successor = [id \in PlanIds |-> {}]
    /\ call = [p \in Calls |-> NoTask]
    /\ refused = {}

-----------------------------------------------------------------------------
(* The predecessor's own commands.                                         *)

Outstanding == IF step.status = "in_progress" THEN {step.fence} ELSE {}

(* A claim, the first or over a lapsed one; only a running ceremony admits *)
(* one.                                                                    *)
Claim ==
    /\ phase = "running" /\ step.status # "completed"
    /\ step.fence < MaxClaims
    /\ step' = [status |-> "in_progress", fence |-> step.fence + 1]
    /\ UNCHANGED <<phase, context, plan, sealedFor, successor, call, refused>>

(* The exact fenced completion stays valid in a paused and superseded      *)
(* ceremony; its context write is part of the same append.                 *)
CompleteClaim ==
    /\ phase # "ended" /\ step.status = "in_progress"
    /\ step' = [step EXCEPT !.status = "completed"]
    /\ context' = context + 1
    /\ UNCHANGED <<phase, plan, sealedFor, successor, call, refused>>

(* A ceremony with a sealed handoff does not resume.                       *)
MayResume == phase = "paused" /\ plan = {}

Lifecycle ==
    /\ \/ phase = "running" /\ phase' = "paused"
       \/ MayResume /\ phase' = "running"
       \/ phase # "ended" /\ phase' = "ended"
    /\ UNCHANGED <<step, context, plan, sealedFor, successor, call, refused>>

-----------------------------------------------------------------------------
(* StartCeremonySuccessor.                                                 *)

(* The evidence a carried step is resolved to; a step that did not         *)
(* complete cannot be carried and fails the call.                          *)
Carried(request) == IF request.carry THEN {step.fence} ELSE {}
Carries(request) == request.carry => step.status = "completed"

(* A handoff already sealed under this plan id lends the retry its own     *)
(* instant.                                                                *)
Stamp(p, id) ==
    IF \E s \in plan : s.id = id THEN (CHOOSE s \in plan : TRUE).by ELSE p

Begin(p, request) ==
    /\ call[p].pc = "idle" /\ Carries(request)
    /\ call' = [call EXCEPT ![p] =
         [pc |-> "seal", request |-> request,
          plan |-> [id |-> request.id, by |-> Stamp(p, request.id),
                    carried |-> Carried(request),
                    disposed |-> request.dispose]]]
    /\ UNCHANGED <<predecessor, plan, sealedFor, successor, refused>>

(* Mutated form: a claim the plan does not name is left behind.            *)
DisposedIfNamed(s) == s.disposed \subseteq Outstanding

(* Every outstanding claim has a disposition against its current fence,    *)
(* and every disposition names an outstanding claim.                       *)
EveryClaimIsDisposed(s) == s.disposed = Outstanding

CarriedIsSound(s) ==
    \A f \in s.carried : step.status = "completed" /\ step.fence = f

Decides(s) ==
    /\ phase = "paused"
    /\ EveryClaimIsDisposed(s) /\ CarriedIsSound(s)

(* Mutated form: the plan id alone says it is the same handoff.            *)
IsSealedByName(s) == \E t \in plan : t.id = s.id

(* Mutated form: a sealed ceremony refuses every handoff.                  *)
IsSealedNever(s) == FALSE

(* The handoff is already sealed, exactly as this plan has it.             *)
IsSealedAs(s) == plan = {s}

(* The plan is sealed, found sealed as it is, or refused.  The opening     *)
(* takes the caller's context, or the one the session then folds to.       *)
Seal(p) ==
    LET c == call[p]
        opens == [call EXCEPT ![p] =
            [pc |-> "open", request |-> c.request, plan |-> c.plan,
             context |-> IF c.request.override = {} THEN context
                         ELSE CHOOSE o \in c.request.override : TRUE]]
    IN  /\ c.pc = "seal"
        /\ \/ /\ plan = {} /\ Decides(c.plan)
              /\ plan' = {c.plan} /\ sealedFor' = {c.request}
              /\ call' = opens
           \/ /\ IsSealedAs(c.plan)
              /\ call' = opens /\ UNCHANGED <<plan, sealedFor>>
           \/ /\ IF plan = {} THEN ~Decides(c.plan) ELSE ~IsSealedAs(c.plan)
              /\ call' = [call EXCEPT ![p] = NoTask]
              /\ UNCHANGED <<plan, sealedFor>>
        /\ UNCHANGED <<predecessor, successor, refused>>

(* The opening of the stream, as it is compared event by event.            *)
SameOpening(s, c) == s.plan = c.plan /\ s.context = c.context

(* The expected-empty append, or the verification of what is there.        *)
Open(p) ==
    LET c == call[p]
        id == c.plan.id
    IN  /\ c.pc = "open"
        /\ successor' =
             IF successor[id] = {}
             THEN [successor EXCEPT ![id] =
                    {[plan |-> c.plan, context |-> c.context,
                      request |-> c.request]}]
             ELSE successor
        /\ refused' = IF \E s \in successor[id] : ~SameOpening(s, c)
                      THEN refused \cup {c.request} ELSE refused
        /\ call' = [call EXCEPT ![p] = NoTask]
        /\ UNCHANGED <<predecessor, plan, sealedFor>>

(* A call may die at any point; what it appended stays.                    *)
Die(p) ==
    /\ call[p].pc # "idle"
    /\ call' = [call EXCEPT ![p] = NoTask]
    /\ UNCHANGED <<predecessor, plan, sealedFor, successor, refused>>

HandoffNext ==
    \/ Claim \/ CompleteClaim \/ Lifecycle
    \/ \E p \in Calls :
         \/ \E request \in Requests : Begin(p, request)
         \/ Seal(p) \/ Open(p) \/ Die(p)

HandoffSpec == HandoffInit /\ [][HandoffNext]_handoffVars

(* The caller who was not answered asks again for the same thing until a   *)
(* call of his runs to its end: a process that dies now and then does not  *)
(* die at this point every time.                                           *)
Repeats(p) == call[p].pc # "idle" /\ call[p].request \in sealedFor

FairHandoffSpec ==
    /\ HandoffSpec
    /\ \A p \in Calls :
         /\ WF_handoffVars(Seal(p) \/ Open(p))
         /\ SF_handoffVars(\E request \in sealedFor : Begin(p, request))
         /\ SF_handoffVars(Repeats(p) /\ Seal(p))
         /\ SF_handoffVars(Repeats(p) /\ Open(p))

-----------------------------------------------------------------------------
(* A successor's stream exists only for the plan its predecessor sealed,   *)
(* with that plan's evidence, and there is one: no race of calls, names or *)
(* retries opens a second one or one nobody sealed.                        *)
OpenedAsSealed ==
    \A id \in PlanIds : \A s \in successor[id] : plan = {s.plan}

(* A ceremony that sealed its handoff admits no work again, and every      *)
(* claim it still holds is one the plan answered for: nothing is           *)
(* abandoned silently, whatever raced the sealing.                         *)
HandoffIsFinal ==
    \A s \in plan : phase # "running" /\ Outstanding \subseteq s.disposed

(* A sealed handoff is opened in the end: a call that died between the two *)
(* appends is made good by asking again.                                   *)
SealedIsOpened ==
    \A id \in PlanIds : (\E s \in plan : s.id = id) ~> (successor[id] # {})

-----------------------------------------------------------------------------
(* What the documents say of the handoff and the code does not keep. *)

(* Everything the opening writes is derived from what was sealed, so the   *)
(* request that sealed and opened a handoff, asked again, verifies its own *)
(* earlier work and is never refused as somebody else's ceremony.          *)
RetryVerifies ==
    \A id \in PlanIds : \A s \in successor[id] :
      sealedFor = {s.request} => s.request \notin refused

(* A retry that asks for something else is a different handoff wearing one *)
(* name, and the decision refuses it: a successor is opened only with what *)
(* the sealing request asked for.                                          *)
OtherRequestIsRefused ==
    \A id \in PlanIds : \A s \in successor[id] : sealedFor = {s.request}
=============================================================================
