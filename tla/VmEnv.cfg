SPECIFICATION Spec
CONSTANTS
    Entries = 4
    TLB_ENTRIES = 1
    ICACHE_ENTRIES = 1
    MAX_TEST_PAGES = 3
    DRAM = 16
    Triggers <- MCTriggers
    Machines <- MCMachines
INVARIANTS PagingExact AccessesWatched
PROPERTY AccessCompletes
