CONSTANTS
  MaxJobs = 3
  Tokens = {1, 2, 3, 4, 5, 6}
  Specs <- RunOnly
  MaxCompleted = 2
  MaxLag = 0
  Instants = {1}
  Schedulers = {s1}
  HasWorker = TRUE
  WorkerLease = 1
  InlineLease = 1
  SlowTasks = FALSE
  TasksFail = TRUE
  MaxCrashes = 1
  MaxFaults = 1
  NoToken = NoToken
  NoJob = NoJob
SPECIFICATION FairSpec
INVARIANTS NoPileUp RunsOnce
PROPERTIES ScheduleLives
