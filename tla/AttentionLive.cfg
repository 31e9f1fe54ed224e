SPECIFICATION FairSpec
CONSTRAINT FewSetbacks
CHECK_DEADLOCK FALSE
CONSTANTS
  w1 = w1
  w2 = w2
  i1 = i1
  i2 = i2
  b1 = b1
  b2 = b2
  Workers = {w1, w2}
  Incarnations = {i1}
  IncarnationOf <- OneHost
  BindingIds = {b1}
  Projectors = {p1}
  Leases <- Lease3
  MaxAttempts = 2
  MaxNews = 1
  Blocking <- Last
  QueueLimit = 1
  ReusesIds = FALSE
  MaxBindings = 1
  MaxFence = 1
  MaxMishaps = 1
  MaxTrouble = 2
  MaxWalkTrouble = 4
  MaxOffers = 2
  LimitsRounds = FALSE
  NoOne = NoOne
  NoBinding = NoBinding
  NoDelivery = NoDelivery
  NoItem = NoItem
  NobodyWalks = NobodyWalks
PROPERTIES
    NewsIsAnswered
