------------------------------ MODULE SdkClock ------------------------------
(***************************************************************************)
(* Clocks and time in the SDK: the clock driver (fe300prci_driver.c),      *)
(* which moves the core from one clock to another while it runs on them,   *)
(* and the measurements of time and frequency there and in init.c, which   *)
(* read counters that run on and wrap.                                     *)
(*                                                                         *)
(* One of four jobs: calls of the driver, a measurement by either of the   *)
(* two routines, or the search for a trim.  A step of a measurement is one *)
(* read and takes one cycle.                                               *)
(***************************************************************************)
EXTENDS Integers, FiniteSets

CONSTANTS
    MaxCalls,       \* bound: calls of the clock driver
    TimeRange,      \* values of the word of mtime the programs read
    CycleRange,     \* values of mcycle's low word
    CyclesPerTick,
    Ticks,          \* lengths of measurements
    MaxTrim,        \* 0x1F
    Frequencies     \* what the oscillator may give for the trims, increasing

ASSUME RangeAssumption == TimeRange \in Nat \ {0}

VARIABLES
    job,
    hfrosc, pll, age, rtc, since,       \* clock control, mtime_lo() and now; age: ticks since the PLL was started
    cp, call, ret, calls,               \* the driver
    cyc, phase, m0,                     \* cycles so far; where the clocks started
    mp, ticks, start, end, tmp, cycle_hi, cycle_lo, c0, c1, earliest, dticks,   \* a measurement
    freq, desired, target, trim, prev, chosen       \* the search

prciVars == <<hfrosc, pll, age, rtc, since, cp, call, ret, calls>>
measureVars == <<cyc, phase, m0, mp, ticks, start, end, tmp, cycle_hi, cycle_lo, c0, c1, earliest, dticks>>
trimVars == <<freq, desired, target, trim, prev, chosen>>
clockVars == <<job, prciVars, measureVars, trimVars>>

SettleTicks == 4            \* "So wait 4 ticks of RTC."
NoCall == [refsel |-> FALSE, bypass |-> FALSE, over |-> FALSE]

ClockInit ==
    /\ job \in {"driver", "PRCI_measure_mcycle_freq", "measure_cpu_freq", "trim"}
    /\ hfrosc = [en |-> TRUE, rdy |-> TRUE] /\ pll = [sel |-> FALSE, refsel |-> FALSE, bypass |-> TRUE]
    /\ age = 0 /\ rtc = 0 /\ since = 0 /\ cp = "idle" /\ call = NoCall /\ ret = "idle" /\ calls = 0
    /\ cyc \in (IF job \in {"driver", "trim"} THEN {0} ELSE 0 .. CycleRange - 1)
    /\ phase \in (IF job \in {"driver", "trim"} THEN {0} ELSE 0 .. CyclesPerTick - 1)
    /\ m0 \in (IF job \in {"driver", "trim"} THEN {0} ELSE 0 .. TimeRange - 1)
    /\ ticks \in (IF job \in {"driver", "trim"} THEN {1} ELSE Ticks)
    /\ mp = "first" /\ start = 0 /\ end = 0 /\ tmp = 0 /\ cycle_hi = 0 /\ cycle_lo = 0 /\ c0 = 0 /\ c1 = 0 /\ earliest = 0 /\ dticks = 0
    /\ freq \in (IF job = "trim" THEN Frequencies ELSE {[t \in 0 .. MaxTrim |-> t]})
    /\ desired \in (IF job = "trim" THEN 0 .. freq[MaxTrim] + 1 ELSE {0})
    /\ target \in (IF job = "trim" THEN {"CLOSEST", "UNDERSHOOT", "OVERSHOOT"} ELSE {"CLOSEST"})
    /\ trim = 0 /\ prev = 0 /\ chosen = -1

----------------------------------------------------------------------------
(* The clock driver. *)

Drive(at, then) == job = "driver" /\ cp = at /\ cp' = then
driverRest == <<job, measureVars, trimVars>>
\* Calls into PRCI_use_hfrosc come back to r.
Enter(at, r) == job = "driver" /\ cp = at /\ cp' = "rosc" /\ ret' = r

CallHfrosc ==
    /\ calls < MaxCalls /\ calls' = calls + 1
    /\ Enter("idle", "idle")
    /\ UNCHANGED <<driverRest, hfrosc, pll, age, rtc, since, call>>
CallPll(c) ==
    /\ calls < MaxCalls /\ calls' = calls + 1
    /\ Drive("idle", "pll") /\ call' = c
    /\ UNCHANGED <<driverRest, hfrosc, pll, age, rtc, since, ret>>

\* PRCI_use_hfrosc: starts it, waits until it is ready, selects it.
RoscStart ==
    /\ Drive("rosc", "ready") /\ hfrosc' = [hfrosc EXCEPT !.en = TRUE]
    /\ UNCHANGED <<driverRest, pll, age, rtc, since, call, ret, calls>>
RoscReady ==
    /\ Drive("ready", "deselect") /\ hfrosc.rdy
    /\ UNCHANGED <<driverRest, hfrosc, pll, age, rtc, since, call, ret, calls>>
RoscSelect ==
    /\ Drive("deselect", ret) /\ pll' = [pll EXCEPT !.sel = FALSE]
    /\ UNCHANGED <<driverRest, hfrosc, age, rtc, since, call, ret, calls>>

\* PRCI_use_pll.
PllLeave ==
    /\ \/ pll.sel /\ Enter("pll", "config")
       \/ ~pll.sel /\ Drive("pll", "config") /\ UNCHANGED ret
    /\ UNCHANGED <<driverRest, hfrosc, pll, age, rtc, since, call, calls>>
PllConfig ==
    /\ \/ ~call.bypass /\ call.over /\ Enter("config", "setup") /\ UNCHANGED pll
       \/ ~call.bypass /\ ~call.over /\ Drive("config", "setup") /\ UNCHANGED <<ret, pll>>
       \/ call.bypass /\ Drive("config", "select") /\ UNCHANGED ret
             /\ pll' = [sel |-> FALSE, refsel |-> call.refsel, bypass |-> TRUE]
    /\ UNCHANGED <<driverRest, hfrosc, age, rtc, since, call, calls>>
PllSetup ==
    /\ Drive("setup", "unbypass") /\ pll' = [sel |-> FALSE, refsel |-> call.refsel, bypass |-> TRUE]
    /\ UNCHANGED <<driverRest, hfrosc, age, rtc, since, call, ret, calls>>
PllUnbypass ==
    /\ Drive("unbypass", "now") /\ pll' = [pll EXCEPT !.bypass = FALSE] /\ age' = 0
    /\ UNCHANGED <<driverRest, hfrosc, rtc, since, call, ret, calls>>
PllNow ==
    /\ Drive("now", "wait") /\ since' = rtc
    /\ UNCHANGED <<driverRest, hfrosc, pll, age, rtc, call, ret, calls>>
PllWait ==
    /\ Drive("wait", "lock") /\ (rtc - since) % TimeRange >= SettleTicks
    /\ UNCHANGED <<driverRest, hfrosc, pll, age, rtc, since, call, ret, calls>>
\* The lock bit, which may be anything until the PLL has settled.
PllLock ==
    /\ Drive("lock", "select")
    /\ UNCHANGED <<driverRest, hfrosc, pll, age, rtc, since, call, ret, calls>>
PllSelect ==
    /\ Drive("select", "save") /\ pll' = [pll EXCEPT !.sel = TRUE]
    /\ UNCHANGED <<driverRest, hfrosc, age, rtc, since, call, ret, calls>>
PllSave ==
    /\ Drive("save", "idle") /\ hfrosc' = IF call.refsel THEN [en |-> FALSE, rdy |-> FALSE] ELSE hfrosc
    /\ UNCHANGED <<driverRest, pll, age, rtc, since, call, ret, calls>>
\* The oscillator becomes ready, and time passes.
Oscillates ==
    /\ job = "driver" /\ hfrosc.en /\ ~hfrosc.rdy /\ hfrosc' = [hfrosc EXCEPT !.rdy = TRUE]
    /\ UNCHANGED <<driverRest, pll, age, rtc, since, cp, call, ret, calls>>
Tick1 ==
    /\ job = "driver" /\ rtc' = (rtc + 1) % TimeRange
    /\ age' = IF age < SettleTicks THEN age + 1 ELSE age
    /\ UNCHANGED <<driverRest, hfrosc, pll, since, cp, call, ret, calls>>

Calls == [refsel : BOOLEAN, bypass : BOOLEAN, over : BOOLEAN]
DriverStep ==
    \/ CallHfrosc \/ (\E c \in Calls : CallPll(c))
    \/ RoscStart \/ RoscReady \/ RoscSelect \/ PllLeave \/ PllConfig \/ PllSetup \/ PllUnbypass \/ PllNow
    \/ PllWait \/ PllLock \/ PllSelect \/ PllSave \/ Oscillates \/ Tick1

----------------------------------------------------------------------------
(* The measurements. *)

MTIME == (m0 + ((cyc + phase) \div CyclesPerTick)) % TimeRange
Read(j, at, then) == job = j /\ mp = at /\ mp' = then /\ cyc' = cyc + 1
readRest == <<job, prciVars, trimVars, phase, m0, ticks>>
Prci == "PRCI_measure_mcycle_freq"
Init_c == "measure_cpu_freq"

\* Its first read; again while the end would be beyond the wrap.
MeasureFirst ==
    /\ Read(Prci, "first", IF (MTIME + ticks + 1) % TimeRange < MTIME THEN "first" ELSE "edge")
    /\ start' = MTIME /\ end' = (MTIME + ticks + 1) % TimeRange /\ tmp' = MTIME
    /\ UNCHANGED <<readRest, cycle_hi, cycle_lo, c0, c1, earliest, dticks>>
CpuFirst ==
    /\ Read(Init_c, "first", "edge") /\ tmp' = MTIME
    /\ UNCHANGED <<readRest, start, end, cycle_hi, cycle_lo, c0, c1, earliest, dticks>>
\* Not before mtime has ticked.
MeasureEdge ==
    /\ \/ Read(Prci, "edge", IF MTIME = tmp THEN "edge" ELSE "c0hi")
       \/ Read(Init_c, "edge", IF MTIME = tmp THEN "edge" ELSE "c0")
    /\ start' = MTIME
    /\ UNCHANGED <<readRest, end, tmp, cycle_hi, cycle_lo, c0, c1, earliest, dticks>>
\* rdmcycle, and get_timer_value, get_cycle_value, get_instret_value: high,
\* low, and high again, until the two agree.
ReadHigh ==
    /\ (Read(Prci, "c0hi", "c0lo") \/ Read(Prci, "c1hi", "c1lo"))
    /\ cycle_hi' = cyc \div CycleRange /\ earliest' = cyc
    /\ UNCHANGED <<readRest, start, end, tmp, cycle_lo, c0, c1, dticks>>
ReadLow ==
    /\ (Read(Prci, "c0lo", "c0hi2") \/ Read(Prci, "c1lo", "c1hi2"))
    /\ cycle_lo' = cyc % CycleRange
    /\ UNCHANGED <<readRest, start, end, tmp, cycle_hi, c0, c1, earliest, dticks>>
ReadHighAgain ==
    /\ \/ Read(Prci, "c0hi2", IF cycle_hi = cyc \div CycleRange THEN "until" ELSE "c0hi")
             /\ c0' = (cycle_hi * CycleRange) + cycle_lo /\ UNCHANGED c1
       \/ Read(Prci, "c1hi2", IF cycle_hi = cyc \div CycleRange THEN "done" ELSE "c1hi")
             /\ c1' = (cycle_hi * CycleRange) + cycle_lo /\ UNCHANGED c0
    /\ UNCHANGED <<readRest, start, end, tmp, cycle_hi, cycle_lo, earliest, dticks>>
\* init.c reads the low word only.
CpuCycle ==
    /\ \/ Read(Init_c, "c0", "until") /\ c0' = cyc % CycleRange /\ UNCHANGED c1
       \/ Read(Init_c, "c1", "done") /\ c1' = cyc % CycleRange /\ UNCHANGED c0
    /\ earliest' = cyc
    /\ UNCHANGED <<readRest, start, end, tmp, cycle_hi, cycle_lo, dticks>>
MeasureUntil ==
    /\ Read(Prci, "until", IF MTIME < end THEN "until" ELSE "c1hi") /\ dticks' = ticks
    /\ UNCHANGED <<readRest, start, end, tmp, cycle_hi, cycle_lo, c0, c1, earliest>>
CpuUntil ==
    /\ Read(Init_c, "until", IF (MTIME - start) % TimeRange < ticks THEN "until" ELSE "c1")
    /\ dticks' = (MTIME - start) % TimeRange
    /\ UNCHANGED <<readRest, start, end, tmp, cycle_hi, cycle_lo, c0, c1, earliest>>
MeasureStep ==
    \/ MeasureFirst \/ CpuFirst \/ MeasureEdge \/ ReadHigh \/ ReadLow \/ ReadHighAgain \/ CpuCycle
    \/ MeasureUntil \/ CpuUntil

----------------------------------------------------------------------------
(* PRCI_set_hfrosctrim_for_f_cpu: raises the trim until the frequency is   *)
(* reached, and decides between the last two.                              *)

trimRest == <<job, prciVars, measureVars, freq, desired, target>>
TrimRaise ==
    /\ job = "trim" /\ chosen = -1 /\ freq[trim] < desired /\ trim < MaxTrim
    /\ prev' = trim /\ trim' = trim + 1
    /\ UNCHANGED <<trimRest, chosen>>
Decide(f, d, g, t, p) ==
    IF f[p] > d \/ f[t] < d THEN p
    ELSE CASE g = "CLOSEST" -> IF d - f[p] < f[t] - d THEN p ELSE t
           [] g = "UNDERSHOOT" -> p
           [] OTHER -> t
TrimDecide ==
    /\ job = "trim" /\ chosen = -1 /\ ~(freq[trim] < desired /\ trim < MaxTrim)
    /\ chosen' = Decide(freq, desired, target, trim, prev)
    /\ UNCHANGED <<trimRest, trim, prev>>

ClockStep == DriverStep \/ MeasureStep \/ TrimRaise \/ TrimDecide

----------------------------------------------------------------------------
\* The clock the core runs on is always running: the driver leaves one only
\* for another that is ready, and stops none that is in use, in any sequence
\* of calls and with the timer anywhere.
ClockAlive ==
    IF pll.sel THEN (pll.refsel \/ (hfrosc.en /\ hfrosc.rdy)) /\ (pll.bypass \/ age >= SettleTicks)
    ELSE hfrosc.en /\ hfrosc.rdy

\* A measurement counts the cycles of exactly the ticks it divides by, but
\* for the reads at its ends, wherever the counters stand and wrap; a count
\* read in two halves is one the counter had meanwhile.
Distance(f, d, t) == IF f[t] < d THEN d - f[t] ELSE f[t] - d
MeasureExact ==
    /\ (job = Prci /\ mp = "until") => c0 \in earliest .. cyc
    /\ mp = "done" =>
          LET n == IF job = Prci THEN c1 - c0 ELSE (c1 - c0) % CycleRange IN
          n - (dticks * CyclesPerTick) \in -4 .. 4
    \* The trim is the best one for the target, when the frequency is in reach.
    /\ (chosen # -1 /\ freq[0] <= desired /\ freq[MaxTrim] >= desired) =>
          CASE target = "CLOSEST" -> \A t \in 0 .. MaxTrim : Distance(freq, desired, chosen) <= Distance(freq, desired, t)
            [] target = "UNDERSHOOT" -> freq[chosen] <= desired /\ \A t \in 0 .. MaxTrim : freq[t] < desired => t <= chosen
            [] OTHER -> freq[chosen] >= desired /\ \A t \in 0 .. MaxTrim : freq[t] >= desired => t >= chosen
====
