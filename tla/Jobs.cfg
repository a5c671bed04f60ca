CONSTANTS
  MaxJobs = 2
  Tokens = {1, 2, 3, 4}
  Specs <- TwoKinds
  MaxCompleted = 1
  MaxLag = 0
  Instants = {1}
  Workers = {w1, w2}
  Concurrency = 1
  Lease = 1
  Interval = 1
  Timely = FALSE
  MaxCrashes = 0
  MaxFaults = 0
  MaxStops = 1
  NoToken = NoToken
  NoJob = NoJob
  NoTask = NoTask
SPECIFICATION Spec
SYMMETRY Symmetry
INVARIANTS LeaseOwnership HeldByOwnTask ConcurrencyBounded
PROPERTIES LifecycleSpec
