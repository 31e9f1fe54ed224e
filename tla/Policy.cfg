SPECIFICATION MCSpec
CONSTANTS
  a = a
  b = b
  Owner = o
  Principals = {a, b}
  GrantIds = {1, 2}
  Issuable <- DelegationsAndDuties
  Asked = {"run", "claim", "approve"}
  RequestIds = {1, 2}
  Desks = {1, 2}
  Ttl = 1
  MaxTime = 1
  MaxVersion = 4
CHECK_DEADLOCK FALSE
INVARIANTS
    DelegationNarrows
    DecisionsStand
    RevokedWorkClaimsNothing
    DutiesAreSeparated

    
