CONSTANTS
  j1 = j1
  j2 = j2
  Jobs <- TwoJobs
  MaxRuns = 2
  Concurrency = 2
  Retries = 1
  Stuck <- OneStuck
  MaxChanges = 2
  MaxCrashes = 3
  MaxRestarts = 2
SPECIFICATION FairSpec
CHECK_DEADLOCK FALSE
PROPERTY TornDown
