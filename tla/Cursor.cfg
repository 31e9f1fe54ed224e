SPECIFICATION LiveSpec
CONSTANTS
    w1 = w1
    w2 = w2
    Workers = {w1, w2}
    LeaseIds = {1, 2, 3}
    MaxAttempts = 2
    PageLimit = 2
    MaxLog = 2
PROPERTIES
    QuarantineIsEarned
    DeliversInOrder
    EverythingSettles
