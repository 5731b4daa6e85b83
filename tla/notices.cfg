SPECIFICATION FairSpec
CONSTANTS
  MaxTicks = 2
  Settings <- MCSettings
  Month = 1
  Near = 1
  Grace = 1
  Final = 2
  Gone = 3
  LastDay = 3
  MaxRenewals = 1
  MaxUpsets = 1
  NoClient = NoClient
  None = None
CHECK_DEADLOCK FALSE
INVARIANTS TypeOK ToldOnce
PROPERTIES RenewalSurvives LowTold
