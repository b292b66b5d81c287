SPECIFICATION Spec
CONSTANTS
  Job = {"i", "j"}
  Identity = {"p", "q"}
  Key = {"read", "send"}
  Hash = {"h1", "h2"}
  Decodes <- MCDecodes
  Contracts <- MCContracts
  Builds <- MCBuilds
  Outcomes <- MCOutcomes
  Nothing = Nothing
INVARIANTS
  HealthPreserved
