CONSTANTS
    Gap = 2
    MaxIndex = 5
SPECIFICATION FairScanSpec
INVARIANTS
    NoUsedAddressIsMissed
    AloneItIsLastUsedIndex
PROPERTIES
    ScanEnds
CHECK_DEADLOCK FALSE
