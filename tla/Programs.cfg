SPECIFICATION Spec
CONSTANTS
    SizeT = 2
    Sizes = {0, 3, 6}
    Aligns = {4, 8}
    Limits = {22}
    MaxRestarts = 1
    Buttons = {1, 2}
    MaxPresses = 2
    MaxTime = 5
    HalfRange = 4
    Period = 2
    MaxCalls = 3
    TimeRange = 8
    CycleRange = 32
    CyclesPerTick = 5
    Ticks = {1, 3}
    MaxTrim = 4
    Frequencies <- MCFrequencies
    lda = 32
    DATA_SIZE = 1000
    MaxCores = 2
    Seen = {0, 2, 7, 15, 16, 18, 31}
    SeenElems = {0, 3, 4, 7, 8, 15, 499, 500, 503, 504, 991, 992, 996, 999}
INVARIANTS HeapIsSound ProgramsSound ResultsExact
PROPERTIES PressesServed TestsEnd
CHECK_DEADLOCK FALSE
