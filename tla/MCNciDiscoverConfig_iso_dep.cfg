\* The route for ISO-DEP.
SPECIFICATION Spec
CONSTANTS
    Setups <- ProtocolSetups
    DefaultNfcid1 <- DynamicId
    NoHistBytes = "none"
    EntrySize = 5
INVARIANT IsoDepIsRouted
