SPECIFICATION FairSpec
CONSTANTS
  c1 = c1  c2 = c2  c3 = c3
  a1 = a1  a2 = a2  a3 = a3  nil = nil
  k1 = k1  k2 = k2
  o1 = o1  o2 = o2
  Caller = {c1, c2}
  Adapter = {a1, a2, a3}
  NilAdapter = nil
  Key = {k1, k2}
  Operation = {o1, o2}
  Ident <- MCIdent
  Reconciles <- MCReconciles
  Declares <- MCDeclares
  Initial <- MCInitial
  Edits <- MCNoEdits
  Singles = {a1, a3}
  Batches <- MCLiveBatches
  Reentrant = {a1}
  Quiet = {a1, a2, a3}
  NoEntry = NoEntry
  Free = Free
CHECK_DEADLOCK FALSE
PROPERTIES
  CallsReturn
