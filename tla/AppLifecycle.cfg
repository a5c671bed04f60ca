CONSTANTS
  NumPlugins = 2
  Requests = {r1, r2}
SPECIFICATION FairSpec
INVARIANTS StrictFailsClosed DrainedBeforeClose ExitZeroIsClean
PROPERTIES StopsEnd
CHECK_DEADLOCK FALSE
