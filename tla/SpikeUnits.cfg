SPECIFICATION MCSpec
CONSTANTS
    NumProcs = 2
    Locations = {0, 1}
    INTERLEAVE = 3
    Tick = 1
    MaxTime = 2
    MaxInsns = 6
    Registered <- MCRegistered
    Words <- MCWords
    OPCODE_CACHE_SIZE = 3
    Addrs = {0, 1, 2, 3}
    Configs <- MCConfigs
    FaWays = 2
    MaxAccesses = 5
    RegBits = 8
    Instructions = {"alu", "ecall", "ebreak", "mret", "sret", "wfi", "instret"}
    CsrWrites <- MCCsrWrites
    Batches = {1, 2}
    MaxExecuted = 4
    MaxEvents = 2
    F32 <- MCF32
    F64 <- MCF64
    F32R <- MCF32R
    F64R <- MCF64R
    RoundBits = 2
INVARIANTS InstructionsExact SimSound WritesConserved HartSound ArithmeticExact ConversionsExact
PROPERTIES SupervisorConfined FlagsAccrue
CHECK_DEADLOCK FALSE
