SPECIFICATION Spec
CONSTANTS
  Operation = {"send", "other"}
  Described = {"send"}
  MaxChain = 3
INVARIANTS
  TypeOK
  ExactOptional
  AuthorizerSurvives
  SnapshotsAgree
