SPECIFICATION Spec
CONSTANTS
  Accounts = {"a", "b", "c"}
  Ids = {1, 2, 3, 4, 5}
  Values = {v1, v2}
  Home <- MCHome
  Stored = {"a"}
  Foreign = {"b"}
  Orphan = {"c"}
  Options <- MCOptions
  Jobs = {j1, j2}
  MaxRequests = 3
  MaxUpsets = 1
  None = None
SYMMETRY Symmetry
CHECK_DEADLOCK FALSE
INVARIANTS TypeOK NothingVanishes RestoredOnce
PROPERTIES UndoRestores DeletionsJustified
