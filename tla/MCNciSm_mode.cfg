\* A change of the operation mode while the NFCC is being configured.
SPECIFICATION Spec
CONSTANTS
    Targets = {"DISCOVERY"}
    Modes = {"poll", "listen"}
    ListenModes = {"listen"}
    RoutingKinds = {"none"}
    Timeouts = TRUE
    MaxOut = 2
    MaxWire = 1
INVARIANT ConfiguredForMode
