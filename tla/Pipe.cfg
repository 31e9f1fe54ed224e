SPECIFICATION OrderedLiveSpec
CONSTANTS
    k1 = k1
    k2 = k2
    k3 = k3
    States <- PipeStates
    Steps <- PipeSteps
    Roles <- PipeRoles
    Guards <- PipeGuards
    Conditions <- MCConditions
    InitialState = "draft"
    TerminalStates <- PipeTerminal
    StepsForState <- PipeStepsForState
    ConcurrentStates <- None
    MaxParallel = 2
    Transitions <- PipeTransitions
    GuardCondition <- PipeGuardCondition
    MaxAttempts <- PipeMaxAttempts
    StepRepeat <- PipeStepRepeat
    StateRepeat <- PipeStateRepeat
    RolesForStep <- PipeRolesForStep
    RoleIdForStep <- PipeRoleIdForStep
    MaxTransitions <- None
    MaxBounces <- None
    CeremonyTimeout <- Four
    StateTimeout <- None
    StepTimeout <- PipeStepTimeout
    Owners = {"w1"}
    Keys = {1, 2, 3}
    LeaseTtl = 1
    HostCeilings = {1}
    RequestIds = {}
    Interventions = {}
    Results <- AllResults
    MaxTime = 5
    MaxLag = 1
    MaxVisits = 2
CHECK_DEADLOCK FALSE
INVARIANTS
    SequentialOrder
    OneResultPerClaim
    OneClaimPerAttempt
PROPERTIES
    EndedFreezesExecution
    DeadlineEndsCeremony
