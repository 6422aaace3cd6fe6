CONSTANTS
    NumHarts = 2
    MemSize = 2
    Ops <- MCOps
    MaxOps = 2
    buf_size = 3
    MaxScans = 2
SPECIFICATION Spec
INVARIANTS CommandExclusive DtmFaithful JtagDelivers
PROPERTY RequestsComplete
CHECK_DEADLOCK FALSE
