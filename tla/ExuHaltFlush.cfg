SPECIFICATION ExuSpec
CONSTANTS
    OITF_DEPTH = 2
    RfIdx = {r1}
    Ops = {"ld", "wfi"}
    Vals = {v1}
    IrqLevels = {FALSE}
    DbgLevels = {FALSE}
    DcsrWrites <- NoDcsrWrites
    RspKinds = {"ok", "err"}
    CmdRdyLevels = {TRUE, FALSE}
INVARIANT
    OneHotFlushHalt
