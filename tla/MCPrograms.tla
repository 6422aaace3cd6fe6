----------------------------- MODULE MCPrograms -----------------------------
(* The programs that run on the core, one in each behaviour: the test       *)
(* programs' allocator, the SDK's interrupt demonstration and its clocks,   *)
(* and the multi-threaded tests.                                            *)
EXTENDS TinyMalloc, SdkDemo, SdkClock, Mt

VARIABLE part

vars == <<part, mallocVars, demoVars, clockVars, mtVars>>

MCFrequencies ==
    {[t \in 0 .. MaxTrim |-> (2 * t) + 1], [t \in 0 .. MaxTrim |-> 3 * t], [t \in 0 .. MaxTrim |-> t + (t * t)]}

Init ==
    /\ part \in {"malloc", "demo", "clock", "mt"} /\ MallocInit
    /\ DemoInit /\ (part # "demo" => lo_first /\ ~sim)
    /\ ClockInit /\ (part # "clock" => job = "driver")
    /\ MtInit /\ (part # "mt" => prog = "ad" /\ ncores = 1)

Heap == part = "malloc" /\ MallocStep /\ UNCHANGED <<part, demoVars, clockVars, mtVars>>
Demo(A) == part = "demo" /\ A /\ UNCHANGED <<part, mallocVars, clockVars, mtVars>>
DemoProgram == Demo(Program)
DemoHandler == Demo(Handler)
DemoGateways == Demo(Gateways)
Others == Demo(Bang) \/ Demo(Devices)
Clocks == part = "clock" /\ ClockStep /\ UNCHANGED <<part, mallocVars, demoVars, mtVars>>
MtCore(c) == part = "mt" /\ c \in Cores /\ Core(c) /\ UNCHANGED <<part, mallocVars, demoVars, clockVars>>
Next == Heap \/ DemoProgram \/ DemoHandler \/ DemoGateways \/ Others \/ Clocks \/ \E c \in Cores : MtCore(c)

\* The core keeps executing the set-up and the handlers, and takes the
\* interrupts that are enabled; the gateways are clocked.  Nobody need press
\* a button.  In the tests every core keeps executing.
Spec == /\ Init /\ [][Next]_vars
        /\ WF_vars(DemoProgram) /\ WF_vars(DemoHandler) /\ WF_vars(DemoGateways)
        /\ \A c \in Range0(MaxCores) : WF_vars(MtCore(c))

----------------------------------------------------------------------------
\* Whatever is allocated and freed, in any order and after a restart, the heap
\* of tiny-malloc.c is sound.
HeapIsSound == part = "malloc" => HeapSound

\* The demonstration's handlers and its main loop share the GPIO registers and
\* the PLIC without losing an update or an interrupt (demo_gpio.c); the clock
\* driver never stops the clock the core runs on (fe300prci_driver.c); and no
\* core is through a barrier that another has not reached (common/util.h).
ProgramsSound == /\ part = "demo" => DemoSound
                 /\ part = "clock" => ClockAlive
                 /\ part = "mt" => BarrierHolds

\* Measurements are exact at every position of counters that wrap
\* (fe300prci_driver.c, init.c); whatever the timing of the cores, verify()
\* finds every product added once (mt/*.c), in every program on one core and
\* in all but cf and cm, whose cores race, on two.
ResultsExact == /\ part = "clock" => MeasureExact
                /\ part = "mt" => VerifySucceeds

\* Every multi-threaded test that is followed (cf and cm on one core only)
\* ends: no core spins for ever in a barrier that another never enters or has
\* left behind.
TestsEnd == part = "mt" ~> AllDone
====
