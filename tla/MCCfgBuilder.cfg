CONSTANT Images <- MCImages
CONSTANT Addresses <- MCAddresses
SPECIFICATION FairSpec
INVARIANTS ScanClosed ScanReaches GraphsExact
PROPERTIES EventuallyDone
