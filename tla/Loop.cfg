SPECIFICATION Spec
CONSTANTS
    k1 = k1
    k2 = k2
    k3 = k3
    States <- LoopStates
    Steps <- LoopSteps
    Roles <- LoopRoles
    Guards <- LoopGuards
    Conditions <- MCConditions
    InitialState = "draft"
    TerminalStates <- LoopTerminal
    StepsForState <- LoopStepsForState
    ConcurrentStates <- None
    MaxParallel = 2
    Transitions <- LoopTransitions
    GuardCondition <- LoopGuardCondition
    MaxAttempts <- LoopMaxAttempts
    StepRepeat <- LoopStepRepeat
    StateRepeat <- LoopStateRepeat
    RolesForStep <- LoopRolesForStep
    RoleIdForStep <- LoopRoleIdForStep
    MaxTransitions <- Three
    MaxBounces <- One
    CeremonyTimeout <- None
    StateTimeout <- Two
    StepTimeout <- LoopStepTimeout
    Owners = {"w1"}
    Keys <- SomeKeys
    LeaseTtl = 1
    HostCeilings = {1}
    RequestIds = {"q1"}
    Interventions = {"i1"}
    Results <- OpenResults
    MaxTime = 2
    MaxLag = 0
    MaxVisits = 4
SYMMETRY SomeSymmetry
CHECK_DEADLOCK FALSE
INVARIANTS
    RecordsCarryCurrentCoordinates
    WorkBelongsToItsVisit
    CompletedWorkIsKept
    CarriedEvidenceStands
