SPECIFICATION FairHandoffSpec
CONSTANTS
  Calls = {p1, p2}
  PlanIds = {k1, k2}
  Overrides = {}
  MaxClaims = 2
CHECK_DEADLOCK FALSE
INVARIANTS
    OpenedAsSealed
    HandoffIsFinal
PROPERTIES
    SealedIsOpened
