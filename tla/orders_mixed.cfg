SPECIFICATION Spec
CONSTANTS
  Orders = {"manual", "charge"}
  Handlers = {h1, h2}
  Kind <- MCKind
  Price <- MCPrice
  Quantity <- MCQuantity
  Modes = {TRUE}
  Native = {}
  Discounted = {}
  Gifts = {}
  MaxUses = 1
  Opening = 3
  Overdraft = 1
  Channels = {"bot"}
  MaxRequests = 4
  MaxFaults = 1
  NoOrder = NoOrder
SYMMETRY Symmetry
CHECK_DEADLOCK FALSE
INVARIANTS NothingFree CreditsApproved DebitOncePerLife
