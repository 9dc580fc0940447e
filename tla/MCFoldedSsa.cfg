CONSTANTS Input = in Deref = at
CONSTANT Programs <- MCPrograms
SPECIFICATION FairSpec
INVARIANTS FoldingSound FoldedExactly
PROPERTIES EventuallyDone
