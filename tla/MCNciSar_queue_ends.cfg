\* The assertions of nci_sar_send on the ends of a queue.
SPECIFICATION Spec
CONSTANTS
    MaxConns = 1
    Unlimited = 3
    MinControlLimit = 2
    CommandSizes = {1}
    DataSizes = {2}
    Limits = {1}
    Grants = {1}
    IdSpace = 4
    MaxPackets = 2
    StrictCaller = TRUE
INVARIANT QueueEndsAgree
