\* Two cores of one cluster and three objects of theirs.
CONSTANTS
  None = None
  Unspecified = Unspecified
  Cores = {"core", "other"}
  Kinds = {"secret", "memcached", "apiserver"}
  PreReqs = {"secret"}
  KindSets <- AllOrWithoutMemcached
  MaxChanges = 2
  MaxFaults = 1
SPECIFICATION Spec
CHECK_DEADLOCK FALSE
INVARIANTS TypeOK RestsOnCurrent
PROPERTIES PrereqsFirst SettlesWithoutRival StaysSettled DeploysWhatIsAsked
