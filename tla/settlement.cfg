SPECIFICATION FairSpec
CONSTANTS
  Accounts = {s1, s2}
  Handlers = {h1, h2}
  Sums = {1, 2}
  Limit = 2
  Grace = 1
  CardRenewals = TRUE
  MaxTime = 2
  MaxRequests = 3
  MaxFaults = 1
  NoDeadline = NoDeadline
  NoAccount = NoAccount
CHECK_DEADLOCK FALSE
INVARIANTS TypeOK SettledCleared DebtFlagged
PROPERTIES GraceEnds
