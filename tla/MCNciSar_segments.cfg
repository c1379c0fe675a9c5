\* Segmented commands and data without flow control.
SPECIFICATION Spec
CONSTANTS
    MaxConns = 2
    Unlimited = 3
    MinControlLimit = 2
    CommandSizes = {3}
    DataSizes = {3}
    Limits = {2}
    Grants = {0, 3}
    IdSpace = 4
    MaxPackets = 2
    StrictCaller = TRUE
INVARIANTS NoTornMessage NoPacketLost
PROPERTY RefinesQueues
