SPECIFICATION Spec
CONSTANTS
  Listing <- MCListing
  Address = {"ann", "ANN", "bob", "list", "odd"}
  Topic = {"tea", "rum"}
  Originals <- MCOriginals
  MaximumAddresses = 1
  DefaultPageSize = 1
  MaximumPageSize = 2
  Limits <- MCLimits
  MaxVersion = 2
  Ref = {r1, r2}
  Parseable = {"ann", "ANN", "bob", "list"}
  Folded <- MCFolded
  Messages <- MCMessages
  MaximumRecipients = 2
  None = None
SYMMETRY Symmetry
CHECK_DEADLOCK FALSE
INVARIANTS
  TypeOK
  WalkHonest
  ReplyReachesAll
  ReceiptProves
