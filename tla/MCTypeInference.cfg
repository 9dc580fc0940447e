CONSTANTS
  Programs <- MCPrograms
  HashOrders <- Orders
SPECIFICATION FairSpec
INVARIANTS NoStaleType NothingLeft Sound Expected
PROPERTY EventuallyDone
