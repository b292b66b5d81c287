SPECIFICATION FairSpec
CONSTANTS
  Key = {"charge", "release"}
  Blank = Blank
  Descriptors <- MCDescriptors
  MaxFaults = 4
  Nothing = Nothing
CHECK_DEADLOCK FALSE
INVARIANTS
  TypeOK
PROPERTIES
  ExactlyOnce
  Settles
