\* Who registers runners, all at once.
CONSTANTS
  None = None
  Requests <- TheRequests
  RepoOf <- TheRepos
  RunnerNames <- TheNames
  DryRun = {"dry"}
  Places <- ThePlaces
  Tools = {"tool"}
  ToolRepo <- TheToolRepo
  Indexed <- TheIndexed
SPECIFICATION Spec
CHECK_DEADLOCK FALSE
INVARIANTS TypeOK CredentialsOwn CleanedUp SecretsMatchPods
