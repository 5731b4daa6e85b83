SPECIFICATION FairSpec
CONSTANTS
  Orders = {"bulk"}
  Handlers = {h1, h2}
  Kind <- MCKind
  Price <- MCPrice
  Quantity <- MCQuantity
  Modes = {TRUE, FALSE}
  Native = {}
  Discounted = {"bulk"}
  Gifts = {"bulk"}
  MaxUses = 1
  Opening = 4
  Overdraft = 0
  Channels = {"bot", "web"}
  MaxRequests = 4
  MaxFaults = 1
  NoOrder = NoOrder
CHECK_DEADLOCK FALSE
INVARIANTS TypeOK NothingFree AccountsWithinQuantity ProvisioningAttended CompletedFulfilled
PROPERTIES ProvisioningEnds
