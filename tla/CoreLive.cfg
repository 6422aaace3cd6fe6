SPECIFICATION CoreLiveSpec
CONSTANTS
    OITF_DEPTH = 2
    RfIdx = {r1}
    Ops = {"ld", "amo", "csr", "jalr1", "wfi"}
    Vals = {v1}
    IrqLevels = {TRUE, FALSE}
    DbgLevels = {FALSE}
    DcsrWrites <- NoDcsrWrites
    RspKinds = {"ok"}
    CmdRdyLevels = {TRUE}
    NPath = 2
    ReqRdyLevels = {TRUE}
PROPERTIES
    Progress
    InterruptsServed
