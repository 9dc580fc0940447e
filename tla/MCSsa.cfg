CONSTANT Programs <- MCPrograms
CONSTANT HashOrders <- AllOrders
SPECIFICATION FairSpec
INVARIANTS SsaForm UsesDominated
PROPERTIES EventuallyDone
