\* One runner, its secrets and its objects: does the operator converge?
CONSTANTS
  None = None
  Unspecified = Unspecified
  Images = {"a", "b"}
  Variables = {"LABELS"}
  Servers = {"s", "t"}
  Scalings = {"slow", "fast"}
  Specs <- AllSpecs
  Patches = {"none", "compared", "uncompared", "broken"}
  PatchVaries = FALSE
  SecretVersions = {1, 2}
  MaxChanges = 2
  MaxFaults = 1
SPECIFICATION Spec
CHECK_DEADLOCK FALSE
INVARIANTS TypeOK RestsOnCurrent
PROPERTIES RotationReachesPods ScaledObjectFollows NothingLeftBehind Settles StaysSettled DeploysWhatIsAsked
