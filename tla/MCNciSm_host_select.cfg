\* The last RF_DISCOVER_NTF.
SPECIFICATION Spec
CONSTANTS
    Targets = {"IDLE", "DISCOVERY"}
    Modes = {"poll"}
    ListenModes = {}
    RoutingKinds = {"none"}
    Timeouts = TRUE
    MaxOut = 2
    MaxWire = 1
INVARIANT HostSelectIsLast
