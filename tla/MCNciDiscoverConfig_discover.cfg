\* Every operation mode with groups of technologies, and parameters that the NFCC
\* keeps across modes and identities.
SPECIFICATION Spec
CONSTANTS
    Setups <- DiscoverSetups
    DefaultNfcid1 <- DynamicId
    NoHistBytes = "none"
    EntrySize = 5
INVARIANTS DiscoveredIsMapped ListenTechsAreRouted AdvertisedIsMapped IdentityFits
PROPERTY OtherBitsKept
