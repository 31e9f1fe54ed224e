SPECIFICATION Spec
CONSTANTS
    c1 = c1
    c2 = c2
    s1 = s1
    s2 = s2
    Clients = {c1, c2}
    Steps = {s1, s2}
    MaxIteration = 2
    MaxRetries = 1
    Dimensions <- TwoDimensions
    Operations <- TwoByTwo
    MaxAmount = 4
    Receipts = {"receipt", "meter"}
    OwnReceipt = "receipt"
    LimitChoices <- TwoLimits
    Estimates <- OneEstimate
    MeasureChoices <- TwoMeasures
    ReceiptChoices <- TwoReceipts
SYMMETRY Symmetry
CHECK_DEADLOCK FALSE
INVARIANTS
    WorkIsFunded
    AppliedIsAccounted
PROPERTIES
    LedgerKeepsItsWord
