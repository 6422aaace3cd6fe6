SPECIFICATION ExuSpec
CONSTANTS
    OITF_DEPTH = 2
    RfIdx = {r1, r2}
    Ops = {"alu", "ld", "st", "amo"}
    Vals = {v1, v2}
    IrqLevels = {FALSE}
    DbgLevels = {FALSE}
    DcsrWrites <- NoDcsrWrites
    RspKinds = {"ok", "err"}
    CmdRdyLevels = {TRUE, FALSE}
INVARIANTS
    HazardsInterlocked
    GatingLosesNothing
    VldBetweenPointers
PROPERTY
    ImplementsTracker
SYMMETRY ValSymmetry
