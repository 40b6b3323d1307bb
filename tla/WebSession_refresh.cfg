\* A browser whose tabs are one person's: a refresh while one goes and another comes.
SPECIFICATION OwnSpec
CONSTANTS
  None = None
  Person = {u1, u2}
  Workspace = {t1, t2}
  Query = {q1}
  MaxTokens = 3
CHECK_DEADLOCK FALSE
INVARIANTS
  ClearingMissesNothing
