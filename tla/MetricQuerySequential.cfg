\* One poller that waits for each answer: what the cache promises on its own.
CONSTANTS
  t1 = t1
  t2 = t2
  w1 = w1
  j1 = j1
  Threads <- OneThread
  Workflows <- OneWorkflow
  Jobs <- OneJob
  CacheWindow = 1
  CacheWindowWhenEmpty = 2
  ForceScaleUpWindow = 1
  ForceScaleUpFrequency = 2
  MaxDelay = 1
  StoreCanFail = TRUE
  StoreCanForget = FALSE
  GitHubCanFail = TRUE
  MaxTime = 6
SPECIFICATION Spec
INVARIANTS TypeOK ServedFresh NoRequestWithoutStore
PROPERTIES WindowHonoured ForcedWindowsApart
