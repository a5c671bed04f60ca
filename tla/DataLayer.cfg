CONSTANTS
  Clients = {c1, c2, c3}
  Pair = {p1, p2}
  Items = {k1, k2}
  Values = {v1, v2}
  Attempts = {1, 2, 3, 4, 5, 6, 7}
  MaxRequests = 2
  Window = 2
  Setups <- BothStores
  RateTime = 3
  FreshTtl = 1
  KeepTtl = 2
  Ttl = 1
  StaleTtl = 2
  HttpStores = {"local", "async"}
  MaxVersion = 1
  MaxBatch = 2
  CacheErrors = TRUE
  Ids = {1, 2}
  Creates = {"eager", "lazy"}
  Rollings = {TRUE, FALSE}
  MaxEntries = 1
  Coalesce = 1
  Drivers = {"memory", "file", "coalesced"}
  MaxCrashes = 1
  MaxFaults = 1
  MaxTime = 3
  TouchesDead = FALSE
  None = None
SPECIFICATION Spec
SYMMETRY Symmetry
CHECK_DEADLOCK FALSE
INVARIANTS BurstBounded SingleFlight NeverOlder OneFlight CloneBeforeRead LoadsCarried LossBounded
PROPERTIES NoStaleJoin UpdateKeepsChanges BuriedForGood KeyValueSpec
