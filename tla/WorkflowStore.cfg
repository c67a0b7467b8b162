\* Two runners of two names: does the cache follow the cluster?
CONSTANTS
  r1 = r1
  r2 = r2
  n1 = n1
  n2 = n2
  k1 = k1
  k2 = k2
  s1 = s1
  s2 = s2
  a = a
  NoSpec = NoSpec
  NoEntry = NoEntry
  Unspecified = Unspecified
  Runners <- TwoRunners
  Keys <- TwoNames
  KeyOf <- OwnName
  Scopes <- TwoNamespaces
  ScopeOf <- NamespaceOf
  FromEnd <- ListOrder
  Specs <- TwoSpecs
  Tokens <- OneToken
  ListCanFail = FALSE
  MaxTroubles = 2
SPECIFICATION Spec
INVARIANT TypeOK
PROPERTIES ResyncRecent FailedLoadKeepsOld FollowsCluster
