------------------------------ MODULE SdkDemo -------------------------------
(***************************************************************************)
(* The SDK's interrupt demonstration (demo_gpio.c) with the drivers it     *)
(* uses (plic_driver.c, handle_trap() of init.c) on the devices of the     *)
(* SoC: buttons raise GPIO interrupts, which reach the core through the    *)
(* PLIC; a timer inverts the blue light; the main loop toggles a pin.      *)
(*                                                                         *)
(* A step is one access of the program to a device, and an interrupt may   *)
(* come before any of them.  The core is RV32: the 64-bit accesses to      *)
(* mtime are two loads, in the order the compiler chose (lo_first).  The   *)
(* version for simulation (demo_gpio4sim) sets up in another order and     *)
(* inverts another light.                                                  *)
(***************************************************************************)
EXTENDS Integers, Sequences, FiniteSets

CONSTANTS
    Buttons,        \* 0 .. 2: BUTTON_0, BUTTON_1, BUTTON_2; interrupt source b + 1
    MaxPresses,     \* bound
    MaxTime,        \* bound on mtime
    HalfRange,      \* values of one half of mtime (2^32)
    Period          \* 2 * RTC_FREQ

ASSUME ButtonsAssumption == Buttons \subseteq 0..2

VARIABLES
    sim,            \* which of the two programs
    pc, trap,       \* where main() and the trap handler are
    int_num, reg, mreg,     \* the claimed source; a register of the handler, and of main
    handlers,       \* g_ext_interrupt_handlers: sources with a button's handler
    output_val, rise_ip, rise_ie,       \* GPIO
    enab, prio, inFlight, pend,         \* PLIC
    meie, mtie, mie,                    \* mie.MEIE, mie.MTIE, mstatus.MIE
    mtime, mtimecmp, lo_first, now,     \* CLINT, and the halves read
    presses, wanted         \* history: presses, and the lights the handlers have set

gpioVars == <<output_val, rise_ip, rise_ie>>
plicVars == <<enab, prio, inFlight, pend>>
csrVars == <<meie, mtie, mie>>
timeVars == <<mtime, mtimecmp, lo_first, now>>
demoVars == <<sim, pc, trap, int_num, reg, mreg, handlers, gpioVars, plicVars, csrVars, timeVars, presses, wanted>>

Source(b) == b + 1
Light(b) == CASE b = 0 -> "red" [] b = 1 -> "green" [] OTHER -> "blue"
Toggled(s, x) == IF x \in s THEN s \ {x} ELSE s \cup {x}

\* The order in which main() sets up.
SdkOrder == <<"disable", "handlers", "enable", "prio", "rise_ie", "mtimecmp", "meie", "mtie", "mie", "bang">>
SimOrder == <<"rise_ie", "disable", "handlers", "enable", "prio", "mtimecmp", "meie", "mtie", "mie", "bang">>
Order == IF sim THEN SimOrder ELSE SdkOrder
After(at) == Order[1 + CHOOSE i \in DOMAIN Order : Order[i] = at]
TimerLight == IF sim THEN "red" ELSE "blue"
SimLights == {"red"}        \* lit before the set-up
Lights == IF sim THEN SimLights ELSE {}

\* Out of reset: PLIC_init has cleared its registers, main() the lights.
DemoInit ==
    /\ sim \in BOOLEAN /\ pc = Order[1] /\ trap = "none" /\ int_num = 0 /\ reg = {} /\ mreg = {} /\ handlers = {}
    /\ output_val = Lights /\ rise_ip = {} /\ rise_ie = {}
    /\ enab = {} /\ prio = [b \in Buttons |-> 0] /\ inFlight = {} /\ pend = {}
    /\ meie = FALSE /\ mtie = FALSE /\ mie = FALSE
    /\ mtime = 0 /\ mtimecmp = MaxTime + 1 /\ lo_first \in BOOLEAN /\ now = [lo |-> 0, hi |-> 0]
    /\ presses = 0 /\ wanted = Lights

----------------------------------------------------------------------------
(* The devices. *)

\* A rising edge is remembered whether or not its interrupt is enabled.
Press(b) ==
    /\ presses < MaxPresses /\ presses' = presses + 1
    /\ rise_ip' = rise_ip \cup {b}
    /\ UNCHANGED <<sim, pc, trap, int_num, reg, mreg, handlers, output_val, rise_ie, plicVars, csrVars, timeVars, wanted>>
\* The gateway passes a level once, until the interrupt is completed.
Gateway(b) ==
    /\ b \in rise_ip \cap rise_ie /\ b \notin inFlight /\ b \notin pend
    /\ inFlight' = inFlight \cup {b} /\ pend' = pend \cup {b}
    /\ UNCHANGED <<sim, pc, trap, int_num, reg, mreg, handlers, gpioVars, enab, prio, csrVars, timeVars, presses, wanted>>
Candidates == {b \in pend \cap enab : prio[b] > 0}
irq_o == Candidates # {}
irq_id ==
    IF Candidates = {} THEN 0
    ELSE Source(CHOOSE b \in Candidates : \A c \in Candidates : prio[c] < prio[b] \/ (prio[c] = prio[b] /\ b <= c))
Clock ==
    /\ mtime < MaxTime /\ mtime' = mtime + 1
    /\ UNCHANGED <<sim, pc, trap, int_num, reg, mreg, handlers, gpioVars, plicVars, csrVars, mtimecmp, lo_first, now, presses, wanted>>
MTIP == mtime >= mtimecmp

----------------------------------------------------------------------------
(* main() and reset_demo(). *)

Main(at) == trap = "none" /\ pc = at /\ pc' = After(at)
mainVars == <<sim, trap, int_num, reg, presses, wanted, mtime, lo_first>>
DisableInterrupts ==
    /\ Main("disable") /\ meie' = FALSE /\ mtie' = FALSE
    /\ UNCHANGED <<mainVars, mreg, handlers, gpioVars, plicVars, mie, mtimecmp, now>>
SetHandlers ==
    /\ Main("handlers") /\ handlers' = {Source(b) : b \in Buttons}
    /\ UNCHANGED <<mainVars, mreg, gpioVars, plicVars, csrVars, mtimecmp, now>>
PLIC_enable_interrupt ==
    /\ Main("enable") /\ enab' = enab \cup Buttons
    /\ UNCHANGED <<mainVars, mreg, handlers, gpioVars, prio, inFlight, pend, csrVars, mtimecmp, now>>
PLIC_set_priority ==
    /\ Main("prio") /\ prio' = [b \in Buttons |-> 1]
    /\ UNCHANGED <<mainVars, mreg, handlers, gpioVars, enab, inFlight, pend, csrVars, mtimecmp, now>>
EnableRise(b) ==
    /\ trap = "none" /\ pc = "rise_ie" /\ b \notin rise_ie
    /\ rise_ie' = rise_ie \cup {b}
    /\ pc' = IF rise_ie' = Buttons THEN After("rise_ie") ELSE "rise_ie"
    /\ UNCHANGED <<mainVars, mreg, handlers, output_val, rise_ip, plicVars, csrVars, mtimecmp, now>>
StartTimer ==
    /\ Main("mtimecmp") /\ mtimecmp' = mtime + Period
    /\ UNCHANGED <<mainVars, mreg, handlers, gpioVars, plicVars, csrVars, now>>
\* mie.MEIE, mie.MTIE, mstatus.MIE.
EnableInterrupts ==
    /\ \/ Main("meie") /\ meie' = TRUE /\ UNCHANGED <<mtie, mie>>
       \/ Main("mtie") /\ mtie' = TRUE /\ UNCHANGED <<meie, mie>>
       \/ Main("mie") /\ mie' = TRUE /\ UNCHANGED <<meie, mtie>>
    /\ UNCHANGED <<mainVars, mreg, handlers, gpioVars, plicVars, mtimecmp, now>>
InLoop == trap = "none" /\ pc = "bang" /\ UNCHANGED pc
\* Mutant: load, xor and store instead of the atomic.
BangTorn ==
    /\ InLoop
    /\ \/ mreg' = output_val /\ UNCHANGED output_val
       \/ output_val' = Toggled(mreg, "pin") /\ UNCHANGED mreg
    /\ UNCHANGED <<mainVars, handlers, rise_ip, rise_ie, plicVars, csrVars, mtimecmp, now>>
\* atomic_fetch_xor of the pin.
Bang ==
    /\ InLoop
    /\ output_val' = Toggled(output_val, "pin") /\ mreg' = output_val
    /\ UNCHANGED <<mainVars, handlers, rise_ip, rise_ie, plicVars, csrVars, mtimecmp, now>>

----------------------------------------------------------------------------
(* Traps: the timer's interrupt comes first. *)

Trap(at, then) == trap = at /\ trap' = then
trapVars == <<sim, pc, mreg, handlers, presses, mtime, lo_first>>
TakeTimer ==
    /\ Trap("none", "mask") /\ mie /\ mtie /\ MTIP /\ mie' = FALSE
    /\ UNCHANGED <<trapVars, int_num, reg, gpioVars, plicVars, meie, mtie, mtimecmp, now, wanted>>
TakeExternal ==
    /\ Trap("none", "claim") /\ mie /\ meie /\ irq_o /\ ~(mtie /\ MTIP) /\ mie' = FALSE
    /\ UNCHANGED <<trapVars, int_num, reg, gpioVars, plicVars, meie, mtie, mtimecmp, now, wanted>>
Mret == mie' = TRUE

\* handle_m_ext_interrupt: claim, the button's handler, complete.
PLIC_claim_interrupt ==
    /\ trap = "claim" /\ int_num' = irq_id /\ pend' = {b \in pend : Source(b) # irq_id}
    /\ trap' = IF irq_id = 0 THEN "exit" ELSE IF irq_id \in handlers THEN "light" ELSE "complete"
    /\ UNCHANGED <<trapVars, reg, gpioVars, enab, prio, inFlight, csrVars, mtimecmp, now, wanted>>
button_handlerLoad ==
    /\ Trap("light", "store") /\ reg' = output_val \cup {Light(int_num - 1)}
    /\ UNCHANGED <<trapVars, int_num, gpioVars, plicVars, csrVars, mtimecmp, now, wanted>>
button_handlerStore ==
    /\ Trap("store", "clear") /\ output_val' = reg
    /\ wanted' = wanted \cup {Light(int_num - 1)}
    /\ UNCHANGED <<trapVars, int_num, reg, rise_ip, rise_ie, plicVars, csrVars, mtimecmp, now>>
button_handlerClear ==
    /\ Trap("clear", "complete") /\ rise_ip' = rise_ip \ {int_num - 1}
    /\ UNCHANGED <<trapVars, int_num, reg, output_val, rise_ie, plicVars, csrVars, mtimecmp, now, wanted>>
\* Mutant: the interrupt is never completed.
PLIC_never_complete ==
    /\ Trap("complete", "none") /\ Mret
    /\ UNCHANGED <<trapVars, int_num, reg, gpioVars, plicVars, meie, mtie, mtimecmp, now, wanted>>
PLIC_complete_interrupt ==
    /\ Trap("complete", "none") /\ inFlight' = {b \in inFlight : Source(b) # int_num} /\ Mret
    /\ UNCHANGED <<trapVars, int_num, reg, gpioVars, enab, prio, pend, meie, mtie, mtimecmp, now, wanted>>

\* handle_m_time_interrupt: masks itself, sets the next time, inverts the light.
TimeMask ==
    /\ Trap("mask", "first") /\ mtie' = FALSE
    /\ UNCHANGED <<trapVars, int_num, reg, gpioVars, plicVars, meie, mie, mtimecmp, now, wanted>>
ReadHalf(half) == [now EXCEPT ![half] = IF half = "lo" THEN mtime % HalfRange ELSE mtime \div HalfRange]
TimeRead ==
    /\ \/ Trap("first", "second") /\ now' = ReadHalf(IF lo_first THEN "lo" ELSE "hi")
       \/ Trap("second", "cmp") /\ now' = ReadHalf(IF lo_first THEN "hi" ELSE "lo")
    /\ UNCHANGED <<trapVars, int_num, reg, gpioVars, plicVars, csrVars, mtimecmp, wanted>>
TimeSet ==
    /\ Trap("cmp", "read") /\ mtimecmp' = (now.hi * HalfRange) + now.lo + Period
    /\ UNCHANGED <<trapVars, int_num, reg, gpioVars, plicVars, csrVars, now, wanted>>
TimeInvert ==
    /\ \/ Trap("read", "invert") /\ reg' = Toggled(output_val, TimerLight) /\ UNCHANGED <<output_val, wanted>>
       \/ Trap("invert", "unmask") /\ output_val' = reg /\ wanted' = Toggled(wanted, TimerLight) /\ UNCHANGED reg
    /\ UNCHANGED <<trapVars, int_num, rise_ip, rise_ie, plicVars, csrVars, mtimecmp, now>>
TimeUnmask ==
    /\ Trap("unmask", "none") /\ mtie' = TRUE /\ Mret
    /\ UNCHANGED <<trapVars, int_num, reg, gpioVars, plicVars, meie, mtimecmp, now, wanted>>

Program ==
    \/ DisableInterrupts \/ SetHandlers \/ PLIC_enable_interrupt \/ PLIC_set_priority
    \/ (\E b \in Buttons : EnableRise(b)) \/ StartTimer \/ EnableInterrupts
Handler ==
    \/ TakeTimer \/ TakeExternal
    \/ PLIC_claim_interrupt \/ button_handlerLoad \/ button_handlerStore \/ button_handlerClear
    \/ PLIC_complete_interrupt \/ TimeMask \/ TimeRead \/ TimeSet \/ TimeInvert \/ TimeUnmask
Devices == Clock \/ \E b \in Buttons : Press(b)
Gateways == \E b \in Buttons : Gateway(b)

----------------------------------------------------------------------------
\* The lights are what the handlers made them, whatever the main loop and the
\* handlers do to the same register in between; a claim always finds its
\* interrupt (the program would exit); and a source is in flight exactly
\* while the PLIC or the handler has it.
DemoSound ==
    /\ trap \notin {"invert", "store"} => output_val \ {"pin"} = wanted
    /\ trap # "exit"
    /\ inFlight = pend \cup (IF trap \in {"light", "store", "clear", "complete"} THEN {int_num - 1} ELSE {})

\* Every press is served: its light is set and its edge forgotten, also when
\* it comes before the interrupts are enabled or while its handler runs.
PressesServed ==
    \A b \in Buttons : (b \in rise_ip) ~> (b \notin rise_ip /\ trap = "none" /\ Light(b) \in output_val)
====
