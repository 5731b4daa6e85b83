SPECIFICATION Spec
CONSTANTS
  Orders = {"charge"}
  Handlers = {h1, h2}
  Kind <- MCKind
  Price <- MCPrice
  Quantity <- MCQuantity
  Modes = {FALSE}
  Native = {}
  Discounted = {}
  Gifts = {}
  MaxUses = 1
  Opening = 4
  Overdraft = 0
  Channels = {"bot", "web"}
  MaxRequests = 3
  MaxFaults = 0
  NoOrder = NoOrder
SYMMETRY Symmetry
CHECK_DEADLOCK FALSE
INVARIANTS CreditOnce
