SPECIFICATION Spec
CONSTRAINT Bounded
CHECK_DEADLOCK FALSE
SYMMETRY SameHost
CONSTANTS
  w1 = w1
  w2 = w2
  i1 = i1
  i2 = i2
  b1 = b1
  b2 = b2
  Workers = {w1, w2}
  Incarnations = {i1, i2}
  IncarnationOf <- OneHost
  BindingIds = {b1, b2}
  Projectors = {p1, p2}
  Leases <- Lease3
  MaxAttempts = 1
  MaxNews = 2
  Blocking <- Last
  QueueLimit = 1
  ReusesIds = FALSE
  MaxBindings = 2
  MaxFence = 2
  MaxMishaps = 1
  MaxTrouble = 2
  MaxWalkTrouble = 4
  MaxOffers = 2
  LimitsRounds = TRUE
  NoOne = NoOne
  NoBinding = NoBinding
  NoDelivery = NoDelivery
  NoItem = NoItem
  NobodyWalks = NobodyWalks
INVARIANTS
    OneActor
    NothingSkipped
PROPERTIES
    ClosedOnce
