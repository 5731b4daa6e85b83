SPECIFICATION Spec
CONSTANTS
  MaxTicks = 1
  Settings <- MCAll
  Month = 1
  Near = 1
  Grace = 1
  Final = 2
  Gone = 3
  LastDay = 5
  MaxRenewals = 0
  MaxUpsets = 0
  NoClient = NoClient
  None = None
CHECK_DEADLOCK FALSE
PROPERTIES UnusedKept
