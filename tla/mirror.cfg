SPECIFICATION FairSpec
CONSTANTS
  MaxJobs = 2
  Requests <- MCRequests
  Month = 2
  Year = 3
  Today = 9
  Mirrors <- MCMirrors
  Volumes = {2}
  MaxRequests = 2
  MaxUpsets = 1
  NoClient = NoClient
  NoMirror = NoMirror
  NoRequest = NoRequest
CHECK_DEADLOCK FALSE
INVARIANTS TypeOK VolumeSold
PROPERTIES AloneAgrees PurchaseDelivered ReconcileSpares Settles
