\* Segmented data packets under flow control, and commands that go before them.
SPECIFICATION FairSpec
CONSTANTS
    MaxConns = 1
    Unlimited = 3
    MinControlLimit = 2
    CommandSizes = {1}
    DataSizes = {3}
    Limits = {}
    Grants = {1, 2}
    IdSpace = 4
    MaxPackets = 3
    StrictCaller = TRUE
INVARIANTS TypeOK OneWriteInFlight NoLostWakeup FlowControl
PROPERTY CommandsGetWritten
