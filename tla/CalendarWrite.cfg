SPECIFICATION Spec
CONSTANTS
  Event = {d, e}
  Ref = {r1, r2}
  Worker = {w1, w2}
  Field = {"start", "end"}
  Patches <- MCPatches
  Shapes <- MCShapes
  MaxTag = 3
  Owner = Owner
  None = None
SYMMETRY MCSymmetry
INVARIANTS
  TypeOK
  AppliedAsPreviewed
  AppliedOnce
  OutdatedByItself
  ScopeExact
  BoundsTogether
  ReceiptOwn
CHECK_DEADLOCK FALSE
