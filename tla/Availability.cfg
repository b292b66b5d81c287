SPECIFICATION Spec
CONSTANTS
  Calendar = {"a", "b", "c"}
  Time <- MCTime
  Requests <- MCRequests
  Answers <- MCAnswers
  MaximumCalendars = 2
  MaximumWindow = 5
INVARIANTS
  TypeOK
  FreeIsFree
  AllFreeFound
  FreeInOrder
CHECK_DEADLOCK FALSE
