SPECIFICATION Spec
CONSTANTS
  Key = {"x", "y", "z"}
  N = 3
  KeyLists <- MCThreeFields
  DefaultKinds <- MCSetDefault
  Starts <- MCEmpty
  RequiredSets = {{1, 3}}
  Startups = {"default_safe"}
  SecretNeeds = {FALSE}
INVARIANTS
  AllRequiredConfigDefaulted
CHECK_DEADLOCK FALSE
