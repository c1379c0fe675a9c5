\* Interleaved messages of several segments in reads of any size.
SPECIFICATION Spec
CONSTANTS
    HdrSize = 3
    Conns = 1
    Keys = {"ntf", "rsp"}
    PayloadSizes = {0, 1}
    Messages = {m1, m2}
    MaxSegments = 3
    MaxWire = 7
INVARIANTS PacketsAreWhole ParsedAtHeaders NothingStaysBehind
SYMMETRY Symmetry
