CONSTANTS
  MaxJobs = 3
  Tokens = {1, 2, 3, 4, 5, 6}
  Specs <- RunOnly
  MaxCompleted = 2
  MaxLag = 0
  Instants = {1}
  Schedulers = {s1, s2}
  HasWorker = TRUE
  WorkerLease = 1
  InlineLease = 1
  SlowTasks = FALSE
  TasksFail = FALSE
  MaxCrashes = 0
  MaxFaults = 0
  NoToken = NoToken
  NoJob = NoJob
SPECIFICATION Spec
INVARIANTS NoPileUp
