\* The patch is set, removed and set again.
CONSTANTS
  None = None
  Unspecified = Unspecified
  Images = {"a", "b"}
  Variables = {"LABELS"}
  Servers = {"s", "t"}
  Scalings = {"slow", "fast"}
  Specs <- AllSpecs
  Patches = {"none", "compared", "uncompared", "broken"}
  PatchVaries = TRUE
  SecretVersions = {1, 2}
  MaxChanges = 2
  MaxFaults = 0
SPECIFICATION Spec
CHECK_DEADLOCK FALSE
INVARIANT PatchApplied
