SPECIFICATION Spec
CONSTANTS
    k1 = k1
    k2 = k2
    k3 = k3
    States <- FanStates
    Steps <- FanSteps
    Roles <- FanRoles
    Guards <- FanGuards
    Conditions <- MCConditions
    InitialState = "build"
    TerminalStates <- FanTerminal
    StepsForState <- FanStepsForState
    ConcurrentStates <- FanConcurrent
    MaxParallel = 2
    Transitions <- FanTransitions
    GuardCondition <- FanGuardCondition
    MaxAttempts <- FanMaxAttempts
    StepRepeat <- FanStepRepeat
    StateRepeat <- FanStateRepeat
    RolesForStep <- FanRolesForStep
    RoleIdForStep <- FanRoleIdForStep
    MaxTransitions <- None
    MaxBounces <- None
    CeremonyTimeout <- Three
    StateTimeout <- None
    StepTimeout <- FanStepTimeout
    Owners = {"w1"}
    Keys <- SomeKeys
    LeaseTtl = 2
    HostCeilings = {1, 2}
    RequestIds = {}
    Interventions = {}
    Results <- SureResults
    MaxTime = 3
    MaxLag = 1
    MaxVisits = 2
SYMMETRY SomeSymmetry
CHECK_DEADLOCK FALSE
INVARIANTS
    CapacityRespected
    RoleExclusivity
