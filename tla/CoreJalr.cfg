SPECIFICATION CoreSpec
CONSTANTS
    OITF_DEPTH = 2
    RfIdx = {r1, r2}
    Ops = {"lui", "ld", "jalr1", "jalrn"}
    Vals = {v1, v2}
    IrqLevels = {FALSE}
    DbgLevels = {FALSE}
    DcsrWrites <- NoDcsrWrites
    RspKinds = {"ok"}
    CmdRdyLevels = {TRUE}
    NPath = 2
    ReqRdyLevels = {TRUE, FALSE}
INVARIANT
    JalrTargetFresh
SYMMETRY ValSymmetry
