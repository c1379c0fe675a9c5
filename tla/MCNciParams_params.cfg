\* Parameters that are changed in the middle of a change, and of a reset.
SPECIFICATION FairSpec
CONSTANTS
    Files <- SomeFiles
    Lists <- SomeLists
    Versions = {2}
    MaxDepth = 2
    MaxPending = 3
INVARIANTS TypeOK ListenersAreUpToDate NfccHasLlcParams
PROPERTY Settles
