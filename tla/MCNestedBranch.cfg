CONSTANT Programs <- NestedBranch
CONSTANT HashOrders <- AllOrders
SPECIFICATION FairSpec
INVARIANT MergesAgree
