SPECIFICATION CoreSpec
CONSTANTS
    OITF_DEPTH = 2
    RfIdx = {r1}
    Ops = {"ld", "csr", "brmis", "wfi"}
    Vals = {v1}
    IrqLevels = {TRUE, FALSE}
    DbgLevels = {FALSE}
    DcsrWrites <- NoDcsrWrites
    RspKinds = {"ok", "err"}
    CmdRdyLevels = {TRUE}
    NPath = 3
    ReqRdyLevels = {TRUE, FALSE}
INVARIANT
    PathIsCurrent
PROPERTY
    ImplementsExu
