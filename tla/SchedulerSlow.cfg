CONSTANTS
  MaxJobs = 2
  Tokens = {1, 2, 3, 4, 5, 6}
  Specs <- RunOnly
  MaxCompleted = 2
  MaxLag = 0
  Instants = {1}
  Schedulers = {s1, s2}
  HasWorker = TRUE
  WorkerLease = 1
  InlineLease = 1
  SlowTasks = TRUE
  TasksFail = TRUE
  MaxCrashes = 1
  MaxFaults = 0
  NoToken = NoToken
  NoJob = NoJob
SPECIFICATION Spec
INVARIANTS TypeOK
PROPERTIES EndedByRunner
