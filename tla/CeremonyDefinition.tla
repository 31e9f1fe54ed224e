------------------------- MODULE CeremonyDefinition -------------------------
(***************************************************************************)
(* The definition a ceremony runs under: its states, the steps each state  *)
(* declares, the transitions between states with the guards they require,  *)
(* and the policies (retry, repetition, parallelism, budgets, timeouts)    *)
(* the aggregate consults while it decides.  A definition is immutable     *)
(* once a ceremony is bound to it, so everything here is a CONSTANT.       *)
(*                                                                         *)
(* An optional value is a set with at most one element, {} when absent.    *)
(***************************************************************************)
EXTENDS Naturals, Sequences, FiniteSets

CONSTANTS
    States,           \* the state ids
    Steps,            \* the step ids
    Roles,            \* the declared roles
    Guards,           \* the guard names
    Conditions,       \* the output predicates a repeat or a guard tests
    InitialState,
    TerminalStates,
    StepsForState,    \* [States -> Seq(Steps)], in declaration order
    ConcurrentStates, \* the states whose steps may run in parallel
    MaxParallel,      \* the definition's own width
    Transitions,      \* a set of [from, trigger, to, guards]
    GuardCondition,   \* [Guards -> condition], see GuardIsSatisfied
    MaxAttempts,      \* [Steps -> retry policy's max_attempts]
    StepRepeat,       \* [Steps -> optional [until, max]]
    StateRepeat,      \* [States -> optional [step, until, max]]
    RolesForStep,     \* [Steps -> the roles allowed to execute the step]
    RoleIdForStep,    \* [Steps -> the first role allowed to execute it]
    MaxTransitions,   \* optional bound on all moves
    MaxBounces,       \* optional bound on the moves along one exact edge
    CeremonyTimeout,  \* optional durations
    StateTimeout,
    StepTimeout       \* [Steps -> optional duration]

(* The steps declared in a state, without their order. *)
InState(st) == { StepsForState[st][i] : i \in DOMAIN StepsForState[st] }

(***************************************************************************)
(* What CeremonyDefinition's analysis guarantees of a definition that was  *)
(* accepted, as far as the aggregate relies on it.                         *)
(***************************************************************************)
ASSUME DefinitionAssumption ==
    /\ InitialState \in States
    /\ TerminalStates \subseteq States
    /\ ConcurrentStates \subseteq States
    /\ StepsForState \in [States -> Seq(Steps)]
    /\ \A st \in TerminalStates : InState(st) = {}
    /\ \A st1, st2 \in States :
          st1 # st2 => InState(st1) \cap InState(st2) = {}
    /\ \A st \in States : \A i, j \in DOMAIN StepsForState[st] :
          StepsForState[st][i] = StepsForState[st][j] => i = j
    /\ \A tr \in Transitions :
          /\ tr.from \in States \ TerminalStates
          /\ tr.to \in States
          /\ tr.guards \subseteq Guards
    /\ \A t1, t2 \in Transitions :
          t1.from = t2.from /\ t1.trigger = t2.trigger => t1 = t2

ASSUME PolicyAssumption ==
    /\ MaxParallel \in Nat \ {0}
    /\ MaxAttempts \in [Steps -> Nat \ {0}]
    /\ StepRepeat \in [Steps -> SUBSET [until : Conditions, max : Nat]]
    /\ StateRepeat \in
          [States -> SUBSET [step : Steps, until : Conditions, max : Nat]]
    /\ RolesForStep \in [Steps -> SUBSET Roles]
    /\ RoleIdForStep \in [Steps -> Roles]
    /\ MaxTransitions \subseteq Nat
    /\ MaxBounces \subseteq Nat

ASSUME TimeoutAssumption ==
    /\ CeremonyTimeout \subseteq Nat \ {0}
    /\ StateTimeout \subseteq Nat \ {0}
    /\ StepTimeout \in [Steps -> SUBSET (Nat \ {0})]

-----------------------------------------------------------------------------
(* MaxParallel::effective_with: the lower of the definition's width and   *)
(* the ceiling of the host that claims.                                   *)
EffectiveWith(ceiling) == IF MaxParallel < ceiling THEN MaxParallel ELSE ceiling

(* The earliest of a set of instants, {} when there is none.              *)
EarliestOf(times) == { t \in times : \A u \in times : t <= u }

(* transition_routes_state_repeat_exhaustion: the transition requires an  *)
(* exhausted-repeat guard naming its own source state.                    *)
TransitionRoutesStateRepeatExhaustion(tr) ==
    \E g \in tr.guards : /\ GuardCondition[g].kind = "state_repeat_exhausted"
                         /\ GuardCondition[g].state = tr.from
=============================================================================
