\* Two goroutines and a store that never fails: is GitHub asked once per window?
CONSTANTS
  t1 = t1
  t2 = t2
  w1 = w1
  j1 = j1
  Threads <- TwoThreads
  Workflows <- OneWorkflow
  Jobs <- OneJob
  CacheWindow = 1
  CacheWindowWhenEmpty = 2
  ForceScaleUpWindow = 1
  ForceScaleUpFrequency = 2
  MaxDelay = 1
  StoreCanFail = FALSE
  StoreCanForget = FALSE
  GitHubCanFail = FALSE
  MaxTime = 3
SPECIFICATION Spec
PROPERTY WindowHonoured
