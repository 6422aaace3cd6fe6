CONSTANTS
    Requests <- MCRequests
    MaxRequests = 3
    MaxHostFds = 5
    align = 4
    max_chunk = 8
    Bytes = 12
    Segments <- MCSegments
SPECIFICATION Spec
INVARIANTS HtifProtocol FdsFollow AccessExact
PROPERTY HtifLive
CHECK_DEADLOCK FALSE
