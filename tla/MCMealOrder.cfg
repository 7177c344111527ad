CONSTANTS
  Days = {d1, d2, d3}
  MaxOrders = 3
  MaxRequests = 2
  Limit = 2
SYMMETRY DaysAreAlike
SPECIFICATION OrderSpec
INVARIANTS
  OrderTypeOK
  OneOrderPerDay
  ListIsTheServers
CHECK_DEADLOCK FALSE
