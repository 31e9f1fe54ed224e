SPECIFICATION LiveSpec
CONSTANTS
    w1 = w1
    w2 = w2
    Workers = {w1, w2}
    MaxClaims = 2
    HostAnswers <- MCHostAnswers
CHECK_DEADLOCK FALSE
INVARIANTS
    EffectOnce
    OneOutcome
    AppliedOnce
PROPERTIES
    EventuallyAnswered
