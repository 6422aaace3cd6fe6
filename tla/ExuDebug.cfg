SPECIFICATION ExuSpec
CONSTANTS
    OITF_DEPTH = 2
    RfIdx = {r1}
    Ops = {"alu", "ld", "ldmis", "amo", "csr", "csrd", "fence", "fencei", "bjp", "brmis", "mret", "dret", "ecall", "ebreak", "ilgl", "wfi"}
    Vals = {v1}
    IrqLevels = {TRUE, FALSE}
    DbgLevels = {TRUE, FALSE}
    DcsrWrites <- DebuggerWrites
    RspKinds = {"ok", "err"}
    CmdRdyLevels = {TRUE}
INVARIANTS
    ExuTypeOK
    TrapsArePrecise
    SleepIsSafe
    StepsAreExact
