\* A routing table at its maximum size.
SPECIFICATION Spec
CONSTANTS
    Setups <- SmallTableSetups
    DefaultNfcid1 <- DynamicId
    NoHistBytes = "none"
    EntrySize = 5
INVARIANT RoutingTableFits
