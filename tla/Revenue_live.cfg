SPECIFICATION FairSpec
CONSTANTS
  Listings <- Workspaces
  Prices = {2}
  Requests = {r1, r2}
  PageSize = 1
  MaxPages = 2
  MaxChanges = 2
  MaxBills = 2
  MaxErased = 1
  MaxFaults = 2
  MaxEvents = 2
INVARIANTS LedgerIsTrue
PROPERTIES RevenueSettles
CHECK_DEADLOCK FALSE
