CONSTANTS
  MaxJobs = 2
  Tokens = {1, 2, 3}
  Specs <- RecurringOnly
  MaxCompleted = 1
  MaxLag = 1
  Instants = {1, 2}
  Workers = {w1, w2}
  Concurrency = 1
  Lease = 2
  Interval = 1
  Timely = TRUE
  MaxCrashes = 1
  MaxFaults = 1
  MaxStops = 0
  NoToken = NoToken
  NoJob = NoJob
  NoTask = NoTask
SPECIFICATION Spec
SYMMETRY Symmetry
INVARIANTS NeverStolen ChainIntact
PROPERTIES NewestHistoryKept
