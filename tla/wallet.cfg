SPECIFICATION Spec
CONSTANTS
  Users = {u1}
  Handlers = {h1, h2}
  Amounts = {1, 2}
  Limits = {0, 2}
  MaxRows = 3
  NoRequest = NoRequest
SYMMETRY Symmetry
INVARIANTS TypeOK FloorRespected LedgerChained
PROPERTIES WalletIsAccount
