CONSTANT Programs <- MCPrograms
SPECIFICATION FairSpec
INVARIANTS PassesSound FlowExact LocalReadsDefined
PROPERTIES OnlyGrow EventuallyDone
