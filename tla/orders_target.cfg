SPECIFICATION Spec
CONSTANTS
  Orders = {"prepaid", "renewal"}
  Handlers = {h1, h2}
  Kind <- MCKind
  Price <- MCPrice
  Quantity <- MCQuantity
  Modes = {TRUE, FALSE}
  Native = {}
  Discounted = {}
  Gifts = {}
  MaxUses = 1
  Opening = 4
  Overdraft = 0
  Channels = {"web"}
  MaxRequests = 3
  MaxFaults = 1
  NoOrder = NoOrder
SYMMETRY Symmetry
CHECK_DEADLOCK FALSE
INVARIANTS NothingFree CompletedFulfilled
