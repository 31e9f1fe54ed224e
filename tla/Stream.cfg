SPECIFICATION Spec
CONSTANTS
    w1 = w1
    w2 = w2
    open = open
    complete = complete
    moveA = moveA
    moveB = moveB
    reason = reason
    Writers = {w1, w2}
    Commands <- MCCommands
    Opening = open
    EventIds <- MCEventIds
    Facts <- MCFacts
    Needs <- MCNeeds
    Blocks <- MCBlocks
    Attempts <- MCAttempts
    PageLimit = 2
SYMMETRY WriterSymmetry
INVARIANTS
    LoadedSessionsAreFolds
    CausationFollowsTheStream
PROPERTIES
    ExecutesSerially
