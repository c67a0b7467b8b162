\* Every runner of scaling_test.go and a few more; queues of up to 21 runs.
CONSTANTS
  build = build
  deploy = deploy
  NoFile = NoFile
  NoInfo = NoInfo
  Runners <- AllRunners
  MaxQueue = 21
  Workflows <- BuildAndDeploy
  NameOf <- Name
  Repositories <- Edits
  Failures <- Outages
  Selectors <- Wanted
  MostQueued <- Most
SPECIFICATION ServedSpec
INVARIANTS WithinLimits QueueIsServed ConformsToTests
PROPERTIES NeverFewer MatchesAlone JobsFindRunners
