SPECIFICATION FairSpec
CONSTANTS
  Users = {u1}
  Owner = u1
  Codes = {TRUE, FALSE}
  MaxUses = 1
  MaxMonths = 1
  Requested <- MCRequested
  Jobs = {j1, j2}
  MaxOrders = 2
  MaxRequests = 4
  MaxUpsets = 1
  None = None
CHECK_DEADLOCK FALSE
INVARIANTS TypeOK OneTap ReservationsBounded CodeOncePerBuyer TestsBounded
PROPERTIES LockFreed
