SPECIFICATION Spec
CONSTANTS
  Key = {"x", "y", "z"}
  N = 3
  KeyLists <- MCAnyFields
  DefaultKinds <- MCAnyDefault
  Starts <- MCEmpty
  RequiredSets = {{1, 3}}
  Startups = {"default_safe"}
  SecretNeeds = {FALSE}
INVARIANTS
  TypeOK
  SuppliedKept
  NoOrphanDefault
  OnePassCompletes
  SafeStartWhenOrdered
CHECK_DEADLOCK FALSE
