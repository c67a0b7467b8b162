\* Forced scaling switched off with a window of 0, as the README says to.
CONSTANTS
  t1 = t1
  t2 = t2
  w1 = w1
  j1 = j1
  Threads <- OneThread
  Workflows <- OneWorkflow
  Jobs <- OneJob
  CacheWindow = 1
  CacheWindowWhenEmpty = 2
  ForceScaleUpWindow = 0
  ForceScaleUpFrequency = 2
  MaxDelay = 1
  StoreCanFail = FALSE
  StoreCanForget = FALSE
  GitHubCanFail = FALSE
  MaxTime = 3
SPECIFICATION Spec
INVARIANT NoPanic
