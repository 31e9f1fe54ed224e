SPECIFICATION MCFairSpec
CONSTANTS
  Calls = {p1, p2}
  Recoverers = {r1, r2}
  Width = 1
  MaxVisits = 2
  MaxClaims = 2
  MaxFaults = 1
  MaxTrouble = 1
CHECK_DEADLOCK FALSE
INVARIANTS
    ChildrenAsSealed
    NothingIsCountedEarly
    CompletedByTheAdopter
PROPERTIES
    PlansAreCarriedOut
