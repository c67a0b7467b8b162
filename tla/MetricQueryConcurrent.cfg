\* Two goroutines on replicas that share memcached, everything may fail.
CONSTANTS
  t1 = t1
  t2 = t2
  w1 = w1
  j1 = j1
  Threads <- TwoThreads
  Workflows <- OneWorkflow
  Jobs <- OneJob
  CacheWindow = 0
  CacheWindowWhenEmpty = 1
  ForceScaleUpWindow = 3
  ForceScaleUpFrequency = 1
  MaxDelay = 0
  StoreCanFail = TRUE
  StoreCanForget = TRUE
  GitHubCanFail = TRUE
  MaxTime = 2
SPECIFICATION Spec
INVARIANTS StoredGenuine
PROPERTIES LooksOnce
SYMMETRY ThreadSymmetry
