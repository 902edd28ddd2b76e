CONSTANTS
  Thread = {t1, t2, t3}
  None = None
  Capacity = 1
  Person <- MCPerson
  Hint <- MCHint
  Words <- MCWords
  Loads <- MCLoads
SYMMETRY Alike
SPECIFICATION Spec
INVARIANTS
  NothingInTheClear
  SameBody
  ReadsAgain
  OwnWordsOnly
  WithinCapacity
CHECK_DEADLOCK FALSE
