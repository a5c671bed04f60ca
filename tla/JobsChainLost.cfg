CONSTANTS
  MaxJobs = 3
  Tokens = {1, 2, 3, 4}
  Specs <- RecurringOnly
  MaxCompleted = 1
  MaxLag = 1
  Instants = {1}
  Workers = {w1}
  Concurrency = 1
  Lease = 2
  Interval = 1
  Timely = TRUE
  MaxCrashes = 1
  MaxFaults = 0
  MaxStops = 0
  NoToken = NoToken
  NoJob = NoJob
  NoTask = NoTask
SPECIFICATION Spec
SYMMETRY Symmetry
INVARIANTS ChainGoesOn
