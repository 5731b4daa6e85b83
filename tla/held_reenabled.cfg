SPECIFICATION Spec
CONSTANTS
  Accounts = {s1}
  Handlers = {h1}
  Sums = {1, 2}
  Limit = 2
  Grace = 1
  CardRenewals = TRUE
  MaxTime = 2
  MaxRequests = 3
  MaxFaults = 0
  NoDeadline = NoDeadline
  NoAccount = NoAccount
SYMMETRY Symmetry
CHECK_DEADLOCK FALSE
INVARIANTS HeldStaysOff
