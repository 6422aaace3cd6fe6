--------------------------- MODULE ProgramsProofs ----------------------------
(***************************************************************************)
(* Proofs about the programs that run on the core, for any number of       *)
(* cores and any program on them, any times and any buttons among the      *)
(* three: MCPrograms' ProgramsSound; and about the allocator of the debug  *)
(* tests, for any word size and any requests: MCPrograms' HeapIsSound.     *)
(*                                                                         *)
(* The four parts share no variable, so each has an inductive invariant of *)
(* its own, and a step of one leaves the others' alone.                    *)
(***************************************************************************)
EXTENDS MCPrograms, FiniteSetTheorems, SequenceTheorems, WellFoundedInduction, TLAPS

----------------------------------------------------------------------------
(* The barrier.  Its state is that of one round e: every core has entered  *)
(* e or e + 1 barriers, its own sense differs from the shared one exactly  *)
(* in the second case, and it is then held until the last one, which has   *)
(* found the others waiting, has cleared the count and turned the sense.   *)

Waiting(c) == stage[c] \in {"spin", "reset", "release"}
Entered(e) == {c \in Cores : arrived[c] = e + 1}

BarrierTypeOK ==
    /\ ncores \in Nat \ {0}
    /\ stage \in [Cores -> {"begin", "end", "arrive", "spin", "reset", "release"}]
    /\ arrived \in [Cores -> Nat] /\ left \in [Cores -> Nat]
    /\ threadsense \in [Cores -> BOOLEAN] /\ sense \in BOOLEAN
    /\ count \in Nat
LeftBehind == \A c \in Cores : left[c] = IF Waiting(c) THEN arrived[c] - 1 ELSE arrived[c]

InRound(e) ==
    \A c \in Cores : /\ arrived[c] = e \/ arrived[c] = e + 1
                     /\ (arrived[c] = e) <=> (threadsense[c] = sense)
                     /\ arrived[c] = e + 1 => Waiting(c)
                     /\ arrived[c] = e => stage[c] \notin {"reset", "release"}
\* Not all are there; the last one has come; it has cleared the count.
Gathering(e) ==
    /\ \A c \in Cores : stage[c] \notin {"reset", "release"}
    /\ count = Cardinality(Entered(e)) /\ count < ncores
Complete(e) ==
    /\ \A c \in Cores : arrived[c] = e + 1
    /\ \E d \in Cores : stage[d] = "reset" /\ \A c \in Cores \ {d} : stage[c] = "spin"
Cleared(e) ==
    /\ \A c \in Cores : arrived[c] = e + 1
    /\ count = 0
    /\ \E d \in Cores : stage[d] = "release" /\ \A c \in Cores \ {d} : stage[c] = "spin"
Round(e) == InRound(e) /\ (Gathering(e) \/ Complete(e) \/ Cleared(e))

BarrierInv == BarrierTypeOK /\ LeftBehind /\ \E e \in Nat : Round(e)

\* A core has left at most as many barriers as the round's number, and every
\* core has entered as many.
LEMMA BarrierInvHolds == BarrierInv => BarrierHolds
BY DEF BarrierInv, BarrierTypeOK, LeftBehind, Round, InRound, BarrierHolds, Waiting

\* Out of reset nobody has entered a barrier, and the senses agree.
LEMMA BarrierInit == MtInit => BarrierInv
<1> SUFFICES ASSUME MtInit PROVE BarrierInv
  OBVIOUS
<1>0. /\ ncores \in 1..MaxCores /\ stage = [c \in Cores |-> "begin"]
      /\ count = 0 /\ sense = FALSE /\ threadsense = [c \in Cores |-> FALSE]
      /\ arrived = [c \in Cores |-> 0] /\ left = [c \in Cores |-> 0]
  BY DEF MtInit
<1>1. BarrierTypeOK /\ LeftBehind
  <2>1. ncores \in Nat \ {0}
    BY <1>0, CoresAssumption
  <2> QED
    BY <1>0, <2>1 DEF BarrierTypeOK, LeftBehind, Waiting
<1>2. Entered(0) = {}
  BY <1>0 DEF Entered
<1>3. InRound(0)
  <2>1. ASSUME NEW c \in Cores
        PROVE  arrived[c] = 0 /\ threadsense[c] = FALSE /\ stage[c] = "begin"
    BY <1>0
  <2>2. \A c \in Cores : threadsense[c] = sense
    BY <1>0, <2>1
  <2>3. 0 # 0 + 1
    OBVIOUS
  <2> QED
    BY <2>1, <2>2, <2>3, Zenon DEF InRound
<1>4. Gathering(0)
  BY <1>0, <1>1, <1>2, FS_EmptySet DEF Gathering, BarrierTypeOK
<1> QED
  BY <1>1, <1>3, <1>4 DEF BarrierInv, Round

\* The cores are finitely many, and those who entered a barrier some of them.
LEMMA CoresCount ==
    ASSUME ncores \in Nat
    PROVE  /\ IsFiniteSet(Cores) /\ Cardinality(Cores) = ncores
           /\ \A S \in SUBSET Cores : /\ IsFiniteSet(S) /\ Cardinality(S) \in Nat
                                      /\ Cardinality(S) <= ncores
                                      /\ Cardinality(S) = ncores => S = Cores
<1>1. Cores = 0..(ncores - 1)
  BY DEF Cores, Range0
<1>2. IsFiniteSet(Cores) /\ Cardinality(Cores) = ncores
  BY <1>1, FS_Interval
<1> QED
  BY <1>2, FS_Subset, FS_CardinalityType

\* Outside the barrier a core only moves between its operations and to the
\* barrier's door; its program and the elements do not matter.
LEMMA OperationStep ==
    ASSUME BarrierInv, NEW c \in Cores, stage[c] \in {"begin", "end"},
           stage' \in {[stage EXCEPT ![c] = s] : s \in {"begin", "end", "arrive"}},
           UNCHANGED <<ncores, barrierVars>>
    PROVE  BarrierInv'
<1> USE DEF BarrierInv, BarrierTypeOK
<1>1. PICK e \in Nat : Round(e)
  OBVIOUS
<1>2. Cores' = Cores /\ Entered(e)' = Entered(e)
  BY DEF Cores, Entered, barrierVars
<1>3. arrived[c] = e
  BY <1>1 DEF Round, InRound, Waiting
<1>4. Gathering(e)
  BY <1>1, <1>3 DEF Round, Complete, Cleared
<1>5. BarrierTypeOK'
  BY <1>2 DEF barrierVars
<1>6. LeftBehind'
  BY <1>2 DEF barrierVars, LeftBehind, Waiting
<1>7. Round(e)'
  BY <1>1, <1>2, <1>3, <1>4 DEF barrierVars, Round, InRound, Gathering, Waiting
<1> QED
  BY <1>5, <1>6, <1>7

\* The last core to enter finds all the others waiting.
LEMMA ArriveStep ==
    ASSUME BarrierInv, NEW c \in Cores, Arrive(c)
    PROVE  BarrierInv'
<1> USE DEF BarrierInv, BarrierTypeOK
<1>1. PICK e \in Nat : Round(e)
  OBVIOUS
<1>2. Cores' = Cores /\ ncores' = ncores
  BY DEF Cores, Arrive
<1>3. arrived[c] = e
  BY <1>1 DEF Round, InRound, Waiting, Arrive
<1>4. Gathering(e)
  BY <1>1, <1>3 DEF Round, Complete, Cleared
<1>5. Entered(e)' = Entered(e) \cup {c} /\ c \notin Entered(e)
  BY <1>1, <1>2, <1>3 DEF Entered, Arrive
<1>6. count' = Cardinality(Entered(e)')
  <2>1. Entered(e) \in SUBSET Cores
    BY DEF Entered
  <2>2. IsFiniteSet(Entered(e)) /\ Cardinality(Entered(e)) \in Nat
    BY <2>1, CoresCount
  <2>3. Cardinality(Entered(e) \cup {c}) = Cardinality(Entered(e)) + 1
    BY <1>5, <2>2, FS_AddElement
  <2> QED
    BY <1>4, <1>5, <2>3 DEF Gathering, Arrive
<1>7. BarrierTypeOK' /\ LeftBehind'
  BY <1>2, <1>3 DEF Arrive, LeftBehind, Waiting
<1>8. InRound(e)'
  BY <1>1, <1>2, <1>3 DEF Round, InRound, Arrive, Waiting
<1>9. CASE count = ncores - 1
  <2>1. Entered(e)' = Cores
    BY <1>5, <1>6, <1>9, CoresCount DEF Arrive, Entered
  <2>2. \A d \in Cores : arrived'[d] = e + 1
    BY <2>1, <1>2 DEF Entered
  <2>3. \A d \in Cores \ {c} : stage[d] = "spin"
    BY <2>2, <1>1, <1>4 DEF Round, InRound, Gathering, Waiting, Arrive
  <2>4. Complete(e)'
    BY <1>2, <1>9, <2>2, <2>3 DEF Complete, Arrive
  <2> QED
    BY <1>7, <1>8, <2>4 DEF Round
<1>10. CASE count # ncores - 1
  <2>1. Gathering(e)'
    BY <1>2, <1>4, <1>6, <1>10 DEF Gathering, Arrive
  <2> QED
    BY <1>7, <1>8, <2>1 DEF Round
<1> QED
  BY <1>9, <1>10

\* It clears the count before it turns the sense ...
LEMMA ResetStep ==
    ASSUME BarrierInv, NEW c \in Cores, ResetCount(c)
    PROVE  BarrierInv'
<1> USE DEF BarrierInv, BarrierTypeOK
<1>1. PICK e \in Nat : Round(e)
  OBVIOUS
<1>2. Cores' = Cores
  BY DEF Cores, ResetCount
<1>3. Complete(e)
  BY <1>1 DEF Round, Gathering, Cleared, ResetCount
<1>4. BarrierTypeOK' /\ LeftBehind'
  BY <1>2 DEF ResetCount, LeftBehind, Waiting
<1>5. InRound(e)'
  BY <1>1, <1>2, <1>3 DEF Round, InRound, Complete, ResetCount, Waiting
<1>6. Cleared(e)'
  BY <1>2, <1>3 DEF Complete, Cleared, ResetCount
<1> QED
  BY <1>4, <1>5, <1>6 DEF Round

\* ... and turning it begins the next round, with all the others to leave.
LEMMA ReleaseStep ==
    ASSUME BarrierInv, NEW c \in Cores, Release(c)
    PROVE  BarrierInv'
<1> USE DEF BarrierInv, BarrierTypeOK
<1>1. PICK e \in Nat : Round(e)
  OBVIOUS
<1>2. Cores' = Cores
  BY DEF Cores, Release, Pass
<1>3. Cleared(e)
  BY <1>1 DEF Round, Gathering, Complete, Release
<1>4. BarrierTypeOK' /\ LeftBehind'
  BY <1>2 DEF Release, Pass, LeftBehind, Waiting
<1>5. \A d \in Cores : arrived[d] = e + 1 /\ threadsense[d] = ~sense
  BY <1>1, <1>3 DEF Round, InRound, Cleared
<1>6. InRound(e + 1)'
  BY <1>2, <1>3, <1>5 DEF InRound, Cleared, Release, Pass
<1>7. Entered(e + 1)' = {}
  BY <1>2, <1>5 DEF Entered, Release, Pass
<1>8. Gathering(e + 1)'
  BY <1>2, <1>3, <1>7, FS_EmptySet DEF Gathering, Cleared, Release, Pass
<1> QED
  BY <1>4, <1>6, <1>8 DEF Round

\* A spinning core that sees its own sense was left from the round before.
LEMMA SpinStep ==
    ASSUME BarrierInv, NEW c \in Cores, Spin(c)
    PROVE  BarrierInv'
<1> USE DEF BarrierInv, BarrierTypeOK
<1>1. PICK e \in Nat : Round(e)
  OBVIOUS
<1>2. Cores' = Cores /\ Entered(e)' = Entered(e)
  BY DEF Cores, Spin, Pass, Entered
<1>3. arrived[c] = e
  BY <1>1 DEF Round, InRound, Spin
<1>4. Gathering(e)
  BY <1>1, <1>3 DEF Round, Complete, Cleared
<1>5. BarrierTypeOK' /\ LeftBehind'
  BY <1>2 DEF Spin, Pass, LeftBehind, Waiting
<1>6. Round(e)'
  BY <1>1, <1>2, <1>3, <1>4 DEF Spin, Pass, Round, InRound, Gathering, Waiting
<1> QED
  BY <1>5, <1>6

\* Every step of a core keeps the barrier's invariant.
LEMMA BarrierStep ==
    ASSUME BarrierInv, NEW c \in Cores, Core(c)
    PROVE  BarrierInv'
<1>1. CASE Begin(c) \/ End(c) \/ Skip(c) \/ FillCopy(c) \/ CopyInput(c) \/ VerifyResults(c)
  <2>1. stage[c] \in {"begin", "end"} /\ UNCHANGED <<ncores, barrierVars>>
    BY <1>1 DEF Begin, End, Skip, FillCopy, CopyInput, VerifyResults
  <2>2. stage' \in {[stage EXCEPT ![c] = s] : s \in {"begin", "end", "arrive"}}
    BY <1>1 DEF Begin, End, Skip, FillCopy, CopyInput, VerifyResults, Leave
  <2> QED
    BY <2>1, <2>2, OperationStep
<1> QED
  BY <1>1, ArriveStep, ResetStep, ReleaseStep, SpinStep DEF Core

----------------------------------------------------------------------------
(* The demonstration.  A handler's read, change and write of the lights    *)
(* are not disturbed, because the main loop does not run in between; the   *)
(* claimed interrupt is the handler's until it completes it, and what is   *)
(* pending stays so until it is claimed.                                   *)

InButtonHandler == trap \in {"light", "store", "clear", "complete"}

DemoTypeOK ==
    /\ trap \in {"none", "mask", "first", "second", "cmp", "read", "invert", "unmask",
                 "claim", "light", "store", "clear", "complete"}
    /\ pend \subseteq Buttons /\ prio \in [Buttons -> {0, 1}]
    /\ "pin" \notin wanted
LightsKept ==
    /\ output_val \ {"pin"} = wanted
    /\ trap = "store" => reg = output_val \cup {Light(int_num - 1)}
    /\ trap = "invert" => reg = Toggled(output_val, TimerLight)
ClaimsKept ==
    /\ trap = "claim" => irq_o
    /\ InButtonHandler => int_num - 1 \notin pend /\ int_num \in Int
    /\ inFlight = pend \cup (IF InButtonHandler THEN {int_num - 1} ELSE {})

DemoInv == DemoTypeOK /\ LightsKept /\ ClaimsKept

\* What the demonstration promises is part of its invariant.
LEMMA DemoInvHolds == DemoInv => DemoSound
BY DEF DemoInv, DemoTypeOK, LightsKept, ClaimsKept, DemoSound, InButtonHandler

\* Out of reset no light is on but the simulation's.
LEMMA DemoInitHolds == DemoInit => DemoInv
BY DEF DemoInit, DemoInv, DemoTypeOK, LightsKept, ClaimsKept, InButtonHandler, Lights, SimLights

\* A claim with something to claim gets the number of a pending button.
LEMMA ClaimFinds ==
    ASSUME DemoTypeOK, irq_o
    PROVE  \E b \in pend : irq_id = Source(b)
<1> DEFINE Best(b) == \A c \in Candidates : prio[c] < prio[b] \/ (prio[c] = prio[b] /\ b <= c)
<1>1. \A b \in Candidates : b \in pend /\ b \in {0, 1, 2} /\ prio[b] = 1
  BY ButtonsAssumption DEF DemoTypeOK, Candidates
<1>2. \E b \in Candidates : Best(b)
  <2>1. CASE 0 \in Candidates
    BY <1>1, <2>1
  <2>2. CASE 0 \notin Candidates /\ 1 \in Candidates
    BY <1>1, <2>2
  <2>3. CASE 0 \notin Candidates /\ 1 \notin Candidates
    BY <1>1, <2>3 DEF irq_o
  <2> QED
    BY <2>1, <2>2, <2>3
<1>3. PICK b \in Candidates : b = CHOOSE x \in Candidates : Best(x)
  BY <1>2
<1>4. irq_id = Source(b)
  BY <1>3 DEF irq_id, irq_o
<1> QED
  BY <1>1, <1>3, <1>4

\* main() and its loop only run outside the handlers; the loop's change of
\* the pin is atomic.
LEMMA ProgramStep ==
    ASSUME DemoInv, Program \/ Bang
    PROVE  DemoInv'
<1> USE DEF DemoInv, DemoTypeOK, LightsKept, ClaimsKept, InButtonHandler
<1>1. CASE Program
  <2>1. trap = "none" /\ trap' = "none" /\ pend' = pend /\ inFlight' = inFlight
        /\ output_val' = output_val /\ wanted' = wanted
    BY <1>1 DEF Program, DisableInterrupts, SetHandlers, PLIC_enable_interrupt, PLIC_set_priority,
        EnableRise, StartTimer, EnableInterrupts, Main, mainVars, gpioVars, plicVars
  <2>2. prio' \in [Buttons -> {0, 1}]
    BY <1>1 DEF Program, DisableInterrupts, SetHandlers, PLIC_enable_interrupt, PLIC_set_priority,
        EnableRise, StartTimer, EnableInterrupts, plicVars
  <2> QED
    BY <2>1, <2>2
<1>2. CASE Bang
  <2>1. output_val' \ {"pin"} = output_val \ {"pin"}
    BY <1>2 DEF Bang, Toggled
  <2> QED
    BY <1>2, <2>1 DEF Bang, InLoop, mainVars, plicVars
<1> QED
  BY <1>1, <1>2

\* The devices add to what is pending and in flight, and touch no light.
LEMMA DevicesStep ==
    ASSUME DemoInv, Devices \/ Gateways
    PROVE  DemoInv'
<1> USE DEF DemoInv, DemoTypeOK, LightsKept, ClaimsKept, InButtonHandler
<1>1. CASE Devices
  <2>1. UNCHANGED <<sim, trap, int_num, reg, output_val, plicVars, wanted>>
    BY <1>1 DEF Devices, Clock, Press, gpioVars
  <2> QED
    BY <2>1 DEF plicVars, TimerLight, irq_o, Candidates
<1>2. CASE Gateways
  <2>1. PICK b \in Buttons : Gateway(b)
    BY <1>2 DEF Gateways
  <2>2. irq_o => irq_o'
    BY <2>1 DEF Gateway, irq_o, Candidates
  <2> QED
    BY <2>1, <2>2 DEF Gateway, gpioVars, TimerLight
<1> QED
  BY <1>1, <1>2

\* The handlers.
LEMMA HandlerStep ==
    ASSUME DemoInv, Handler
    PROVE  DemoInv'
<1> USE DEF DemoInv, DemoTypeOK, LightsKept, ClaimsKept, InButtonHandler, trapVars, Trap
<1>1. CASE TakeTimer \/ TakeExternal
  BY <1>1 DEF TakeTimer, TakeExternal, gpioVars, plicVars, irq_o, Candidates
<1>2. CASE PLIC_claim_interrupt
  <2>1. PICK b \in pend : irq_id = Source(b)
    BY <1>2, ClaimFinds DEF PLIC_claim_interrupt
  <2>2. b \in {0, 1, 2}
    BY ButtonsAssumption
  <2>3. /\ trap' \in {"light", "complete"} /\ int_num' = b + 1
        /\ pend' = pend \ {b} /\ inFlight' = inFlight /\ inFlight = pend
    <3>1. \A c \in pend : c \in {0, 1, 2}
      BY ButtonsAssumption
    <3>2. irq_id = b + 1 /\ irq_id # 0
      BY <2>1, <2>2 DEF Source
    <3>3. trap' \in {"light", "complete"} /\ inFlight' = inFlight /\ inFlight = pend
      BY <1>2, <3>2 DEF PLIC_claim_interrupt
    <3>4. pend' = {c \in pend : c + 1 # b + 1}
      BY <1>2, <3>2 DEF PLIC_claim_interrupt, Source
    <3>5. \A c \in pend : (c + 1 # b + 1) <=> (c # b)
      BY <2>2, <3>1
    <3>6. pend' = pend \ {b}
      BY <3>4, <3>5, Zenon
    <3> QED
      BY <1>2, <3>2, <3>3, <3>6 DEF PLIC_claim_interrupt
  <2>4. int_num' - 1 = b /\ int_num' \in Int
    BY <2>2, <2>3
  <2>5. UNCHANGED <<prio, wanted, output_val>>
    BY <1>2 DEF PLIC_claim_interrupt, gpioVars
  <2> QED
    BY <2>3, <2>4, <2>5
<1>3. CASE button_handlerLoad
  BY <1>3 DEF button_handlerLoad, gpioVars, plicVars
<1>4. CASE button_handlerStore
  <2>1. Light(int_num - 1) # "pin"
    BY DEF Light
  <2>2. output_val' \ {"pin"} = wanted' /\ "pin" \notin wanted'
    BY <1>4, <2>1 DEF button_handlerStore
  <2> QED
    BY <1>4, <2>2 DEF button_handlerStore, plicVars
<1>5. CASE button_handlerClear
  BY <1>5 DEF button_handlerClear, plicVars
<1>6. CASE PLIC_complete_interrupt
  <2>1. inFlight' = pend
    <3>1. \A c \in pend : c \in {0, 1, 2}
      BY ButtonsAssumption
    <3> QED
      BY <1>6, <3>1 DEF PLIC_complete_interrupt, Source
  <2> QED
    BY <1>6, <2>1 DEF PLIC_complete_interrupt, gpioVars
<1>7. CASE TimeMask \/ TimeRead \/ TimeSet \/ TimeUnmask
  BY <1>7 DEF TimeMask, TimeRead, TimeSet, TimeUnmask, gpioVars, plicVars
<1>8. CASE TimeInvert
  <2>1. TimerLight # "pin"
    BY DEF TimerLight
  <2>2. TimerLight' = TimerLight
    BY <1>8 DEF TimeInvert, TimerLight
  <2>3. output_val' \ {"pin"} = wanted' /\ "pin" \notin wanted'
    BY <1>8, <2>1 DEF TimeInvert, Toggled
  <2> QED
    BY <1>8, <2>2, <2>3 DEF TimeInvert, plicVars
<1> QED
  BY <1>1, <1>2, <1>3, <1>4, <1>5, <1>6, <1>7, <1>8 DEF Handler

----------------------------------------------------------------------------
(* The clock driver.  Whenever the core is not on the PLL the ring         *)
(* oscillator runs; what the PLL stands on is settled by the place of the  *)
(* driver.                                                                 *)

Places == {"idle", "rosc", "ready", "deselect", "pll", "config", "setup", "unbypass", "now",
           "wait", "lock", "select", "save"}
ClockTypeOK ==
    /\ hfrosc \in [en : BOOLEAN, rdy : BOOLEAN]
    /\ pll \in [sel : BOOLEAN, refsel : BOOLEAN, bypass : BOOLEAN]
    /\ call \in Calls
    /\ age \in Nat /\ rtc \in 0..(TimeRange - 1) /\ since \in 0..(TimeRange - 1)
    /\ cp \in Places /\ ret \in {"idle", "config", "setup"}

Oscillating == hfrosc.en /\ hfrosc.rdy
PlacesKeep ==
    /\ cp \in {"ready", "deselect"} => hfrosc.en
    /\ cp = "deselect" => hfrosc.rdy
    /\ cp \in {"config", "setup", "unbypass", "now", "wait", "lock", "select"} => ~pll.sel
    /\ cp \in {"unbypass", "now", "wait", "lock", "select", "save"} => pll.refsel = call.refsel
    /\ cp = "save" => pll.sel
\* The ticks counted since `now` was read are no more than have passed.
Settles ==
    /\ cp = "wait" => age >= SettleTicks \/ (rtc - since) % TimeRange <= age
    /\ cp \in {"lock", "select"} => pll.bypass \/ age >= SettleTicks

ClockInv == ClockTypeOK /\ ClockAlive /\ PlacesKeep /\ Settles

\* The difference of two readings of a wrapping counter, in the code's
\* unsigned arithmetic, grows by at most one with a tick.
LEMMA WrapDifference ==
    ASSUME NEW T \in Nat \ {0}, NEW r \in 0..(T - 1), NEW s \in 0..(T - 1)
    PROVE  /\ (r + 1) % T \in 0..(T - 1)
           /\ (r - r) % T = 0
           /\ (r - s) % T \in Nat
           /\ (((r + 1) % T) - s) % T <= ((r - s) % T) + 1
<1>1. \A x \in 0..(T - 1) : x % T = x
  OBVIOUS
<1>2. \A x \in (-T)..(-1) : x % T = x + T
  OBVIOUS
<1>3. (r + 1) % T = IF r = T - 1 THEN 0 ELSE r + 1
  BY <1>1
<1>4. (r - s) % T = IF r >= s THEN r - s ELSE r - s + T
  BY <1>1, <1>2
<1>5. CASE r = T - 1
  BY <1>1, <1>2, <1>3, <1>4, <1>5
<1>6. CASE r # T - 1
  <2>1. (r + 1 - s) % T = IF r + 1 >= s THEN r + 1 - s ELSE r + 1 - s + T
    BY <1>1, <1>2, <1>6
  <2> QED
    BY <1>1, <1>3, <1>4, <1>6, <2>1
<1> QED
  BY <1>5, <1>6

\* The core starts on the oscillator.
LEMMA ClockInitHolds == ClockInit => ClockInv
<1> SUFFICES ASSUME ClockInit PROVE ClockInv
  OBVIOUS
<1>1. /\ hfrosc = [en |-> TRUE, rdy |-> TRUE] /\ pll = [sel |-> FALSE, refsel |-> FALSE, bypass |-> TRUE]
      /\ age = 0 /\ rtc = 0 /\ since = 0 /\ cp = "idle" /\ call = NoCall /\ ret = "idle"
  BY DEF ClockInit
<1>2. 0 \in 0..(TimeRange - 1)
  BY RangeAssumption
<1>3. ClockTypeOK
  BY <1>1, <1>2 DEF ClockTypeOK, Places, Calls, NoCall
<1> QED
  BY <1>1, <1>3 DEF ClockInv, ClockAlive, PlacesKeep, Settles

\* The steps of PRCI_use_hfrosc, and the calls.
LEMMA HfroscStep ==
    ASSUME ClockInv, CallHfrosc \/ (\E c \in Calls : CallPll(c)) \/ RoscStart \/ RoscReady \/ RoscSelect
    PROVE  ClockInv'
<1> USE DEF ClockInv, ClockTypeOK, ClockAlive, PlacesKeep, Settles, Places, Drive, Enter
<1>1. CASE CallHfrosc
  BY <1>1 DEF CallHfrosc
<1>2. CASE \E c \in Calls : CallPll(c)
  BY <1>2 DEF CallPll
<1>3. CASE RoscStart
  BY <1>3 DEF RoscStart
<1>4. CASE RoscReady
  BY <1>4 DEF RoscReady
<1>5. CASE RoscSelect
  BY <1>5 DEF RoscSelect
<1> QED
  BY <1>1, <1>2, <1>3, <1>4, <1>5

\* The steps of PRCI_use_pll, up to the wait.
LEMMA PllSetupStep ==
    ASSUME ClockInv, PllLeave \/ PllConfig \/ PllSetup \/ PllUnbypass \/ PllNow
    PROVE  ClockInv'
<1> USE DEF ClockInv, ClockTypeOK, ClockAlive, PlacesKeep, Settles, Places, Drive, Enter
<1>1. CASE PllLeave
  <2>1. /\ UNCHANGED <<hfrosc, pll, call, age, rtc, since>> /\ ret' \in {"idle", "config", "setup"}
        /\ cp' = "rosc" \/ (cp' = "config" /\ ~pll.sel)
    BY <1>1 DEF PllLeave
  <2> QED
    BY <2>1
<1>2. CASE PllConfig
  <2>1. UNCHANGED <<hfrosc, call, age, rtc, since>> /\ ret' \in {"idle", "config", "setup"} /\ ~pll.sel
    BY <1>2 DEF PllConfig
  <2>2. \/ cp' \in {"rosc", "setup"} /\ UNCHANGED pll
        \/ cp' = "select" /\ pll' = [sel |-> FALSE, refsel |-> call.refsel, bypass |-> TRUE]
    BY <1>2 DEF PllConfig
  <2>3. CASE cp' \in {"rosc", "setup"} /\ UNCHANGED pll
    BY <2>1, <2>3
  <2>4. CASE cp' = "select" /\ pll' = [sel |-> FALSE, refsel |-> call.refsel, bypass |-> TRUE]
    BY <2>1, <2>4 DEF Calls
  <2> QED
    BY <2>2, <2>3, <2>4
<1>3. CASE PllSetup
  BY <1>3 DEF PllSetup, Calls
<1>4. CASE PllUnbypass
  BY <1>4 DEF PllUnbypass
<1>5. CASE PllNow
  <2>1. (rtc - rtc) % TimeRange = 0
    BY RangeAssumption, WrapDifference
  <2> QED
    BY <1>5, <2>1 DEF PllNow
<1> QED
  BY <1>1, <1>2, <1>3, <1>4, <1>5

\* The wait for the lock, the choice of the PLL, and the oscillator stopped
\* only behind it.
LEMMA PllSelectStep ==
    ASSUME ClockInv, PllWait \/ PllLock \/ PllSelect \/ PllSave
    PROVE  ClockInv'
<1> USE DEF ClockInv, ClockTypeOK, ClockAlive, PlacesKeep, Settles, Places, Drive, Enter
<1>1. CASE PllWait
  <2>1. (rtc - since) % TimeRange \in Nat
    BY RangeAssumption, WrapDifference
  <2>2. age >= SettleTicks
    BY <1>1, <2>1 DEF PllWait, SettleTicks
  <2> QED
    BY <1>1, <2>2 DEF PllWait
<1>2. CASE PllLock
  BY <1>2 DEF PllLock
<1>3. CASE PllSelect
  BY <1>3 DEF PllSelect
<1>4. CASE PllSave
  BY <1>4 DEF PllSave
<1> QED
  BY <1>1, <1>2, <1>3, <1>4

\* Time passes: the counter wraps, the PLL's age does not.
LEMMA TimeStep ==
    ASSUME ClockInv, Oscillates \/ Tick1
    PROVE  ClockInv'
<1> USE DEF ClockInv, ClockTypeOK, ClockAlive, PlacesKeep, Settles, Places
<1>1. CASE Oscillates
  BY <1>1 DEF Oscillates
<1>2. CASE Tick1
  <2> DEFINE was == (rtc - since) % TimeRange
             is  == (rtc' - since) % TimeRange
  <2>1. rtc' \in 0..(TimeRange - 1) /\ was \in Nat /\ is <= was + 1
    BY <1>2, RangeAssumption, WrapDifference DEF Tick1
  <2>2. is \in Nat
    BY <2>1, RangeAssumption, WrapDifference
  <2>3. age' \in Nat /\ age' >= age /\ (age >= SettleTicks \/ age' = age + 1)
    BY <1>2 DEF Tick1, SettleTicks
  <2>4. cp = "wait" => age' >= SettleTicks \/ is <= age'
    <3> HIDE DEF was, is
    <3> QED
      BY <2>1, <2>2, <2>3 DEF was, SettleTicks
  <2> QED
    BY <1>2, <2>1, <2>3, <2>4 DEF Tick1, SettleTicks
<1> QED
  BY <1>1, <1>2

\* The measurements and the search touch neither the clocks nor the driver.
LEMMA ClockInvStep ==
    ASSUME ClockInv, ClockStep
    PROVE  ClockInv'
<1>1. CASE DriverStep
  BY <1>1, HfroscStep, PllSetupStep, PllSelectStep, TimeStep DEF DriverStep
<1>2. CASE MeasureStep \/ TrimRaise \/ TrimDecide
  <2>1. UNCHANGED prciVars
    BY <1>2 DEF MeasureStep, MeasureFirst, CpuFirst, MeasureEdge, ReadHigh, ReadLow, ReadHighAgain,
        CpuCycle, MeasureUntil, CpuUntil, TrimRaise, TrimDecide, readRest, trimRest
  <2> QED
    BY <2>1 DEF prciVars, ClockInv, ClockTypeOK, ClockAlive, PlacesKeep, Settles
<1> QED
  BY <1>1, <1>2 DEF ClockStep

----------------------------------------------------------------------------
(* The parts together. *)

ProgramsInv == DemoInv /\ ClockInv /\ BarrierInv

\* A step of one part leaves the others' variables as they are.
LEMMA ProgramsStep ==
    ASSUME ProgramsInv, [Next]_vars
    PROVE  ProgramsInv'
<1> USE DEF ProgramsInv
<1>1. ASSUME UNCHANGED demoVars PROVE DemoInv'
  BY <1>1 DEF demoVars, gpioVars, plicVars, csrVars, timeVars, DemoInv, DemoTypeOK, LightsKept,
      ClaimsKept, InButtonHandler, TimerLight, irq_o, Candidates
<1>2. ASSUME UNCHANGED clockVars PROVE ClockInv'
  BY <1>2 DEF clockVars, prciVars, ClockInv, ClockTypeOK, ClockAlive, PlacesKeep, Settles
<1>3. ASSUME UNCHANGED mtVars PROVE BarrierInv'
  <2>1. Cores' = Cores /\ \A e : Entered(e)' = Entered(e)
    BY <1>3 DEF mtVars, Cores, Entered
  <2> QED
    BY <1>3, <2>1 DEF mtVars, BarrierInv, BarrierTypeOK, LeftBehind, Waiting, Round, InRound,
        Gathering, Complete, Cleared
<1>4. CASE Heap \/ UNCHANGED vars
  BY <1>1, <1>2, <1>3, <1>4 DEF Heap, vars
<1>5. CASE DemoProgram \/ DemoHandler \/ DemoGateways \/ Others
  <2>1. DemoInv' /\ UNCHANGED <<clockVars, mtVars>>
    BY <1>5, ProgramStep, HandlerStep, DevicesStep
        DEF DemoProgram, DemoHandler, DemoGateways, Others, Demo
  <2> QED
    BY <1>2, <1>3, <2>1
<1>6. CASE Clocks
  BY <1>1, <1>3, <1>6, ClockInvStep DEF Clocks
<1>7. CASE \E c \in Cores : MtCore(c)
  BY <1>1, <1>2, <1>7, BarrierStep DEF MtCore
<1> QED
  BY <1>4, <1>5, <1>6, <1>7 DEF Next

\* The interrupt demonstration keeps every light, claim and interrupt
\* (demo_gpio.c), the clock driver never stops the core's clock
\* (fe300prci_driver.c), and no core is through a barrier that another has
\* not reached (common/util.h), for any number of cores, buttons and any
\* periods and ranges of the counters.
THEOREM ProgramsAreSound == Spec => []ProgramsSound
<1>1. Init => ProgramsInv
  BY DemoInitHolds, ClockInitHolds, BarrierInit DEF Init, ProgramsInv
<1>2. ProgramsInv /\ [Next]_vars => ProgramsInv'
  BY ProgramsStep
<1>3. ProgramsInv => ProgramsSound
  BY DemoInvHolds, BarrierInvHolds DEF ProgramsInv, ClockInv, ProgramsSound
<1> QED
  BY <1>1, <1>2, <1>3, PTL DEF Spec

----------------------------------------------------------------------------
(* The allocator.  First the sum of the sizes of a set of blocks, which    *)
(* FiniteSetsExt defines by a recursive function over its subsets.         *)

\* A set of numbers up to n that is not empty has a least element.
LEMMA LeastNat ==
  ASSUME NEW n \in Nat, NEW T, T \subseteq 0 .. n, T # {}
  PROVE  \E x \in T : \A y \in T : x <= y
  <1> DEFINE Below == {0 .. x : x \in T}
             R == StrictSubsetOrdering(0 .. n)
             S == FiniteSubsetsOf(0 .. n)
  <1>1. Below \subseteq S /\ Below # {}
    <2>1. ASSUME NEW x \in T
          PROVE  0 .. x \in S
      <3>1. x \in Int /\ 0 .. x \subseteq 0 .. n
        OBVIOUS
      <3>2. IsFiniteSet(0 .. x)
        BY <3>1, FS_Interval
      <3> QED BY <3>1, <3>2 DEF FiniteSubsetsOf
    <2>2. Below # {}
      OBVIOUS
    <2> QED BY <2>1, <2>2
  <1>2. IsWellFoundedOn(R, S)
    BY FS_StrictSubsetOrderingWellFounded
  <1>3. \E b \in Below : \A c \in Below : ~ (<<c, b>> \in R)
    <2> HIDE DEF Below, R, S
    <2> QED BY <1>1, <1>2, WFMin
  <1>4. PICK x \in T : \A c \in Below : ~ (<<c, 0 .. x>> \in R)
    BY <1>3
  <1>5. \A y \in T : x <= y
    <2>1. SUFFICES ASSUME NEW y \in T, ~(x <= y)
                   PROVE  <<0 .. y, 0 .. x>> \in R
      BY <1>4
    <2>2. x \in 0 .. n /\ y \in 0 .. n /\ y < x
      BY <2>1
    <2>3. 0 .. y \subseteq 0 .. x /\ 0 .. y # 0 .. x /\ 0 .. x \in SUBSET (0 .. n) /\ 0 .. y \in SUBSET (0 .. n)
      BY <2>2
    <2> QED BY <2>3 DEF StrictSubsetOrdering
  <1> QED BY <1>5

\* A set of numbers with 0 and every successor has them all.
LEMMA NatClimb ==
  ASSUME NEW T, 0 \in T, \A k \in Nat : k \in T => k + 1 \in T
  PROVE  Nat \subseteq T
  <1>1. SUFFICES ASSUME NEW n \in Nat, n \notin T
                 PROVE  FALSE
    OBVIOUS
  <1> DEFINE M == {k \in 0 .. n : k \notin T}
  <1>2. PICK x \in M : \A y \in M : x <= y
    <2>1. M \subseteq 0 .. n /\ M # {}
      BY <1>1
    <2> HIDE DEF M
    <2> QED BY <2>1, LeastNat
  <1>3. x \in 1 .. n
    BY <1>2
  <1>4. x - 1 \in Nat /\ x - 1 \in T /\ (x - 1) + 1 = x
    BY <1>2, <1>3
  <1> QED BY <1>2, <1>3, <1>4

\* What FiniteSetsExt's sum is the value of, for the subsets of B.
Summed(g, s) == IF s = {} THEN 0 ELSE LET x == CHOOSE x \in s : TRUE IN SizeOf(x) + g[s \ {x}]
IsSum(g, B) == g = [s \in SUBSET B |-> Summed(g, s)]
Bytes(B) == MapThenSumSet(SizeOf, B)
Sized(B) == IsFiniteSet(B) /\ \A b \in B : b.size \in Nat
SmallSets(B, n) == {s \in SUBSET B : Cardinality(s) <= n}

\* The recursive function exists: it is built up by the size of the subsets.
LEMMA SumExists ==
  ASSUME NEW B, IsFiniteSet(B)
  PROVE  \E g : IsSum(g, B)
  <1> DEFINE Upto(g, n) == g = [s \in SUBSET B |-> g[s]] /\ \A s \in SmallSets(B, n) : g[s] = Summed(g, s)
             T == {n \in Nat : \E g : Upto(g, n)}
  <1>1. 0 \in T
    <2> DEFINE g == [s \in SUBSET B |-> 0]
    <2>1. ASSUME NEW s \in SmallSets(B, 0)
          PROVE  s = {}
      <3>1. s \in SUBSET B /\ Cardinality(s) <= 0 /\ IsFiniteSet(s)
        BY FS_Subset DEF SmallSets
      <3> QED BY <3>1, FS_CardinalityType, FS_EmptySet
    <2>2. \A s \in SmallSets(B, 0) : g[s] = Summed(g, s)
      BY <2>1 DEF Summed
    <2>3. g = [s \in SUBSET B |-> g[s]]
      OBVIOUS
    <2>4. Upto(g, 0)
      <3> HIDE DEF g
      <3> QED BY <2>2, <2>3
    <2> QED BY <2>4
  <1>2. ASSUME NEW n \in Nat, n \in T
        PROVE  n + 1 \in T
    <2>1. PICK g : Upto(g, n)
      BY <1>2
    <2> DEFINE h == [s \in SUBSET B |-> Summed(g, s)]
    <2>2. ASSUME NEW s \in SmallSets(B, n + 1)
          PROVE  h[s] = Summed(h, s)
      <3>1. s \in SUBSET B /\ Cardinality(s) <= n + 1 /\ IsFiniteSet(s)
        BY FS_Subset DEF SmallSets
      <3>2. h[s] = Summed(g, s)
        BY <3>1
      <3>3. CASE s = {}
        BY <3>2, <3>3 DEF Summed
      <3>4. CASE s # {}
        <4>1. PICK x \in s : x = CHOOSE y \in s : TRUE
          BY <3>4
        <4>2. IsFiniteSet(s \ {x}) /\ Cardinality(s \ {x}) = Cardinality(s) - 1
          BY <3>1, FS_RemoveElement
        <4>3. s \ {x} \in SmallSets(B, n)
          BY <3>1, <4>2, FS_CardinalityType DEF SmallSets
        <4>4. g[s \ {x}] = Summed(g, s \ {x})
          BY <2>1, <4>3
        <4>5. h[s \ {x}] = Summed(g, s \ {x})
          BY <4>3 DEF SmallSets
        <4>6. h[s \ {x}] = g[s \ {x}]
          BY <4>4, <4>5
        <4>7. Summed(g, s) = SizeOf(x) + g[s \ {x}] /\ Summed(h, s) = SizeOf(x) + h[s \ {x}]
          <5> HIDE DEF h
          <5> QED BY <3>4, <4>1 DEF Summed
        <4> QED BY <3>2, <4>6, <4>7
      <3> QED BY <3>3, <3>4
    <2>3. h = [s \in SUBSET B |-> h[s]]
      OBVIOUS
    <2>4. Upto(h, n + 1)
      <3> HIDE DEF h
      <3> QED BY <2>2, <2>3
    <2>5. \E f : Upto(f, n + 1)
      <3> HIDE DEF h, Upto
      <3> QED BY <2>4
    <2> HIDE DEF Upto
    <2> QED BY <2>5
  <1>3. Cardinality(B) \in T
    <2> HIDE DEF T
    <2> QED BY <1>1, <1>2, NatClimb, FS_CardinalityType
  <1>4. PICK g : Upto(g, Cardinality(B))
    BY <1>3
  <1>5. ASSUME NEW s \in SUBSET B
        PROVE  s \in SmallSets(B, Cardinality(B))
    BY FS_Subset DEF SmallSets
  <1>6. g = [s \in SUBSET B |-> Summed(g, s)]
    <2>1. g = [s \in SUBSET B |-> g[s]] /\ \A s \in SUBSET B : g[s] = Summed(g, s)
      BY <1>4, <1>5
    <2> QED BY <2>1
  <1> QED BY <1>6 DEF IsSum

\* The sum does not depend on the order in which the elements are chosen.
AnyOrder(g, B) ==
    \A s \in SUBSET B : g[s] \in Nat /\ \A x \in s : g[s] = x.size + g[s \ {x}]
\* Whichever element is taken first, the sum is the same.
LEMMA SumAnyOrder ==
  ASSUME NEW B, Sized(B), NEW g, IsSum(g, B)
  PROVE  AnyOrder(g, B)
  <1> DEFINE Good(s) == g[s] \in Nat /\ \A x \in s : g[s] = x.size + g[s \ {x}]
             T == {n \in Nat : \A s \in SmallSets(B, n) : Good(s)}
  <1>0. ASSUME NEW s \in SUBSET B
        PROVE  IsFiniteSet(s) /\ Cardinality(s) \in Nat
    BY FS_Subset, FS_CardinalityType DEF Sized
  <1>1. ASSUME NEW s \in SUBSET B
        PROVE  /\ s = {} => g[s] = 0
               /\ s # {} => \E x \in s : g[s] = x.size + g[s \ {x}]
    <2>1. g[s] = Summed(g, s)
      <3>1. g = [t \in SUBSET B |-> Summed(g, t)]
        BY DEF IsSum
      <3>2. [t \in SUBSET B |-> Summed(g, t)][s] = Summed(g, s)
        OBVIOUS
      <3> QED BY <3>1, <3>2
    <2>2. s # {} => (CHOOSE x \in s : TRUE) \in s
      OBVIOUS
    <2> QED BY <2>1, <2>2 DEF Summed, SizeOf
  <1>2. 0 \in T
    <2>1. ASSUME NEW s \in SmallSets(B, 0)
          PROVE  Good(s)
      <3>1. s \in SUBSET B /\ Cardinality(s) = 0
        BY <1>0 DEF SmallSets
      <3>2. s = {}
        BY <3>1, <1>0, FS_EmptySet
      <3> QED BY <3>1, <3>2, <1>1
    <2> QED BY <2>1
  <1>3. ASSUME NEW n \in Nat, n \in T
        PROVE  n + 1 \in T
    <2>1. ASSUME NEW s \in SmallSets(B, n + 1), NEW x \in s
          PROVE  g[s] \in Nat /\ g[s] = x.size + g[s \ {x}]
      <3>1. s \in SUBSET B /\ Cardinality(s) <= n + 1 /\ IsFiniteSet(s)
        BY <1>0 DEF SmallSets
      <3>2. ASSUME NEW t \in SUBSET s, NEW y \in t
            PROVE  t \ {y} \in SmallSets(B, n)
        <4>1. t \in SUBSET B /\ IsFiniteSet(t)
          BY <3>1, <1>0
        <4>2. Cardinality(t) <= Cardinality(s)
          BY <3>1, FS_Subset
        <4>3. Cardinality(t \ {y}) = Cardinality(t) - 1
          BY <4>1, FS_RemoveElement
        <4> QED BY <3>1, <4>1, <4>2, <4>3, <1>0 DEF SmallSets
      <3>3. ASSUME NEW t \in SmallSets(B, n), NEW y \in t
            PROVE  g[t] \in Nat /\ g[t] = y.size + g[t \ {y}]
        BY <1>3
      <3>4. ASSUME NEW y \in s
            PROVE  g[s \ {y}] \in Nat /\ y.size \in Nat
        BY <3>1, <3>2, <1>3 DEF Sized
      <3>5. PICK y \in s : g[s] = y.size + g[s \ {y}]
        BY <3>1, <1>1
      <3>a. g[s \ {y}] \in Nat /\ y.size \in Nat /\ x.size \in Nat
        BY <3>4
      <3>6. CASE x = y
        <4>1. g[s] = y.size + g[s \ {y}] /\ g[s] \in Nat
          BY <3>a, <3>5
        <4> QED BY <4>1, <3>6
      <3>7. CASE x # y
        <4>1. g[s \ {y}] = x.size + g[(s \ {y}) \ {x}]
          BY <3>2, <3>3, <3>7
        <4>2. g[s \ {x}] = y.size + g[(s \ {x}) \ {y}]
          BY <3>2, <3>3, <3>7
        <4>3. (s \ {y}) \ {x} = (s \ {x}) \ {y}
          OBVIOUS
        <4>4. (s \ {y}) \ {x} \in SmallSets(B, n)
          <5>1. s \ {y} \in SUBSET s /\ x \in s \ {y}
            BY <3>7
          <5> QED BY <3>2, <5>1
        <4>5. g[(s \ {y}) \ {x}] \in Nat
          BY <4>4, <1>3
        <4>6. \E r \in Nat : g[s \ {y}] = x.size + r /\ g[s \ {x}] = y.size + r
          BY <4>1, <4>2, <4>3, <4>5
        <4> HIDE DEF Good, T
        <4> QED BY ONLY <3>a, <3>5, <4>6
      <3> QED BY <3>6, <3>7
    <2>2. ASSUME NEW s \in SmallSets(B, n + 1)
          PROVE  Good(s)
      <3>1. s = {} => g[s] \in Nat
        BY <1>1 DEF SmallSets
      <3> QED BY <2>1, <3>1
    <2> QED BY <2>2
  <1>4. \A n \in Nat : n \in T
    <2> HIDE DEF T
    <2> QED BY <1>2, <1>3, NatClimb
  <1>5. ASSUME NEW s \in SUBSET B
        PROVE  Good(s)
    <2>1. s \in SmallSets(B, Cardinality(s)) /\ Cardinality(s) \in T
      BY <1>0, <1>4 DEF SmallSets
    <2> QED BY <2>1
  <1> QED BY <1>5 DEF AnyOrder

\* Two such functions agree where both are defined.
LEMMA SumUnique ==
  ASSUME NEW B, Sized(B), NEW Q \in SUBSET B, NEW g, IsSum(g, B), NEW h, IsSum(h, Q)
  PROVE  \A s \in SUBSET Q : g[s] = h[s]
  <1> DEFINE T == {n \in Nat : \A s \in SmallSets(Q, n) : g[s] = h[s]}
  <1>0. ASSUME NEW s \in SUBSET Q
        PROVE  IsFiniteSet(s) /\ Cardinality(s) \in Nat
    BY FS_Subset, FS_CardinalityType DEF Sized
  <1>1. Sized(Q)
    BY <1>0 DEF Sized
  <1>2. g[{}] = 0 /\ h[{}] = 0
    <2>1. ASSUME NEW D, NEW f, IsSum(f, D)
          PROVE  f[{}] = 0
      <3>1. f = [t \in SUBSET D |-> Summed(f, t)]
        BY <2>1 DEF IsSum
      <3>2. [t \in SUBSET D |-> Summed(f, t)][{}] = Summed(f, {})
        OBVIOUS
      <3> QED BY <3>1, <3>2 DEF Summed
    <2> QED BY <2>1
  <1>3. 0 \in T
    <2>1. ASSUME NEW s \in SmallSets(Q, 0)
          PROVE  s = {}
      <3>1. s \in SUBSET Q /\ Cardinality(s) = 0
        BY <1>0 DEF SmallSets
      <3> QED BY <3>1, <1>0, FS_EmptySet
    <2> QED BY <2>1, <1>2
  <1>4. ASSUME NEW n \in Nat, n \in T
        PROVE  n + 1 \in T
    <2>1. ASSUME NEW s \in SmallSets(Q, n + 1), s # {}
          PROVE  g[s] = h[s]
      <3>1. s \in SUBSET Q /\ s \in SUBSET B /\ Cardinality(s) <= n + 1 /\ IsFiniteSet(s)
        BY <1>0 DEF SmallSets
      <3>2. PICK x \in s : TRUE
        BY <2>1
      <3>3. Cardinality(s \ {x}) = Cardinality(s) - 1 /\ Cardinality(s) \in Nat
        BY <3>1, FS_RemoveElement, <1>0
      <3>4. s \ {x} \in SmallSets(Q, n)
        BY <3>1, <3>3 DEF SmallSets
      <3>5. g[s \ {x}] = h[s \ {x}]
        BY <3>4, <1>4
      <3>6. g[s] = x.size + g[s \ {x}]
        BY <3>1, SumAnyOrder DEF AnyOrder
      <3>7. h[s] = x.size + h[s \ {x}]
        BY <3>1, <1>1, SumAnyOrder DEF AnyOrder
      <3> QED BY <3>5, <3>6, <3>7
    <2>2. \A s \in SmallSets(Q, n + 1) : g[s] = h[s]
      BY <2>1, <1>2
    <2> QED BY <2>2
  <1>5. \A n \in Nat : n \in T
    <2> HIDE DEF T
    <2> QED BY <1>3, <1>4, NatClimb
  <1>6. ASSUME NEW s \in SUBSET Q
        PROVE  g[s] = h[s]
    <2>1. s \in SmallSets(Q, Cardinality(s)) /\ Cardinality(s) \in T
      BY <1>0, <1>5 DEF SmallSets
    <2> QED BY <2>1
  <1> QED BY <1>6

\* The sum itself: each element adds its size once.
LEMMA SumStep ==
  ASSUME NEW B, Sized(B)
  PROVE  /\ Bytes(B) \in Nat
         /\ \A x \in B : Bytes(B) = x.size + Bytes(B \ {x})
         /\ B = {} => Bytes(B) = 0
  <1>1. ASSUME NEW Q, Sized(Q)
        PROVE  \E g : IsSum(g, Q) /\ Bytes(Q) = g[Q]
    <2> DEFINE g == CHOOSE f : IsSum(f, Q)
    <2>1. IsSum(g, Q)
      <3>1. \E f : IsSum(f, Q)
        BY <1>1, SumExists DEF Sized
      <3> QED BY <3>1
    <2>2. Bytes(Q) = g[Q]
      BY DEF Bytes, MapThenSumSet, MapThenFoldSet, IsSum, Summed
    <2> QED BY <2>1, <2>2
  <1>2. PICK g : IsSum(g, B) /\ Bytes(B) = g[B]
    BY <1>1
  <1>3. B \in SUBSET B
    OBVIOUS
  <1>a. AnyOrder(g, B)
    BY <1>2, SumAnyOrder
  <1>4. Bytes(B) \in Nat
    BY <1>2, <1>a, <1>3 DEF AnyOrder
  <1>5. ASSUME NEW x \in B
        PROVE  Bytes(B) = x.size + Bytes(B \ {x})
    <2>1. Sized(B \ {x})
      BY FS_Subset DEF Sized
    <2>2. PICK h : IsSum(h, B \ {x}) /\ Bytes(B \ {x}) = h[B \ {x}]
      BY <1>1, <2>1
    <2>3. g[B \ {x}] = h[B \ {x}]
      BY <1>2, <2>2, SumUnique
    <2>4. g[B] = x.size + g[B \ {x}]
      BY <1>3, <1>a DEF AnyOrder
    <2> QED BY <1>2, <2>2, <2>3, <2>4
  <1>6. ASSUME B = {}
        PROVE  Bytes(B) = 0
    <2>1. g[B] = Summed(g, B)
      <3>1. g = [t \in SUBSET B |-> Summed(g, t)]
        BY <1>2 DEF IsSum
      <3>2. [t \in SUBSET B |-> Summed(g, t)][B] = Summed(g, B)
        BY <1>3
      <3> QED BY <3>1, <3>2
    <2> QED BY <1>2, <1>6, <2>1 DEF Summed
  <1> QED BY <1>4, <1>5, <1>6

\* The sum of two sets without a common element.
LEMMA SumUnion ==
  ASSUME NEW A, NEW Q, Sized(A), Sized(Q), A \cap Q = {}
  PROVE  Bytes(A \cup Q) = Bytes(A) + Bytes(Q)
  <1> DEFINE T == {n \in Nat : \A s \in SmallSets(Q, n) : Bytes(A \cup s) = Bytes(A) + Bytes(s)}
  <1>0. ASSUME NEW s \in SUBSET Q
        PROVE  Sized(s) /\ Sized(A \cup s) /\ Cardinality(s) \in Nat /\ Bytes(s) \in Nat /\ Bytes(A \cup s) \in Nat
    <2>1. Sized(s) /\ Sized(A \cup s)
      BY FS_Subset, FS_Union DEF Sized
    <2>2. Bytes(s) \in Nat /\ Bytes(A \cup s) \in Nat
      BY <2>1, SumStep
    <2> QED BY <2>1, <2>2, FS_CardinalityType DEF Sized
  <1>a. Bytes(A) \in Nat
    BY SumStep
  <1>c. ASSUME NEW s \in SUBSET Q
        PROVE  IsFiniteSet(s) /\ Cardinality(s) \in Nat
    BY <1>0 DEF Sized
  <1>1. 0 \in T
    <2>1. ASSUME NEW s \in SmallSets(Q, 0)
          PROVE  Bytes(A \cup s) = Bytes(A) + Bytes(s)
      <3>1. s \in SUBSET Q /\ Cardinality(s) = 0 /\ IsFiniteSet(s)
        BY <1>c DEF SmallSets
      <3>2. s = {} /\ A \cup s = A
        BY <3>1, FS_EmptySet
      <3>3. Bytes(s) = 0
        BY <3>1, <3>2, <1>0, SumStep
      <3> QED BY <3>2, <3>3, <1>a
    <2> QED BY <2>1
  <1>2. ASSUME NEW n \in Nat, n \in T
        PROVE  n + 1 \in T
    <2>1. ASSUME NEW s \in SmallSets(Q, n + 1)
          PROVE  Bytes(A \cup s) = Bytes(A) + Bytes(s)
      <3>1. s \in SUBSET Q /\ Cardinality(s) <= n + 1 /\ Sized(s) /\ Sized(A \cup s)
        BY <1>0 DEF SmallSets
      <3>2. CASE s = {}
        <4>1. s \in SmallSets(Q, n)
          BY <3>1, <3>2, FS_EmptySet DEF SmallSets
        <4> QED BY <4>1, <1>2
      <3>3. CASE s # {}
        <4>1. PICK x \in s : TRUE
          BY <3>3
        <4>2. x \notin A /\ (A \cup s) \ {x} = A \cup (s \ {x})
          BY <3>1, <4>1
        <4>3. s \ {x} \in SmallSets(Q, n)
          <5>1. Cardinality(s \ {x}) = Cardinality(s) - 1 /\ Cardinality(s) \in Nat
            BY <3>1, <4>1, <1>c, FS_RemoveElement
          <5> QED BY <3>1, <5>1 DEF SmallSets
        <4>4. Bytes(A \cup (s \ {x})) = Bytes(A) + Bytes(s \ {x})
          BY <4>3, <1>2
        <4>5. Bytes(A \cup s) = x.size + Bytes((A \cup s) \ {x})
          BY <3>1, <4>1, SumStep
        <4>6. Bytes(s) = x.size + Bytes(s \ {x})
          BY <3>1, <4>1, SumStep
        <4>7. x.size \in Nat /\ Bytes(s \ {x}) \in Nat
          <5>1. s \ {x} \in SUBSET Q
            BY <3>1
          <5> QED BY <3>1, <5>1, <1>0 DEF Sized
        <4> HIDE DEF T
        <4>8. Bytes((A \cup s) \ {x}) = Bytes(A) + Bytes(s \ {x})
          BY ONLY <4>2, <4>4
        <4> QED BY ONLY <4>5, <4>6, <4>7, <4>8, <1>a
      <3> QED BY <3>2, <3>3
    <2> QED BY <2>1
  <1>3. \A n \in Nat : n \in T
    <2> HIDE DEF T
    <2> QED BY <1>1, <1>2, NatClimb
  <1>4. Q \in SmallSets(Q, Cardinality(Q)) /\ Cardinality(Q) \in T
    <2>1. Cardinality(Q) \in Nat
      BY <1>c
    <2> QED BY <2>1, <1>3 DEF SmallSets
  <1> QED BY <1>4

----------------------------------------------------------------------------
(* Blocks side by side from lo to hi, without a gap.                        *)

Tiling(B, lo, hi) ==
    /\ IsFiniteSet(B) /\ lo \in Nat /\ hi \in Nat /\ lo <= hi
    /\ \A b \in B : b.at \in Nat /\ b.size \in Nat /\ b.size > 0 /\ lo <= b.at /\ EndOf(b) <= hi
    /\ \A b, c \in B : b # c => EndOf(b) <= c.at \/ EndOf(c) <= b.at
    /\ \A n \in lo .. hi - 1 : \E b \in B : b.at <= n /\ n < EndOf(b)

\* Their sizes are what lies between.
LEMMA TileSum ==
  ASSUME NEW B, NEW lo, NEW hi, Tiling(B, lo, hi)
  PROVE  Sized(B) /\ Bytes(B) = hi - lo
  <1> DEFINE T == {n \in Nat : \A s \in SmallSets(B, n), y \in Nat : Tiling(s, lo, y) => Bytes(s) = y - lo}
  <1>0. Sized(B) /\ lo \in Nat /\ hi \in Nat
    BY DEF Tiling, Sized
  <1>a. ASSUME NEW s \in SUBSET B
        PROVE  IsFiniteSet(s) /\ Cardinality(s) \in Nat
    BY <1>0, FS_Subset, FS_CardinalityType DEF Sized
  <1>b. ASSUME NEW s, NEW y, Tiling(s, lo, y)
        PROVE  /\ s = {} => Bytes(s) = y - lo
               /\ s # {} => \E x \in s : EndOf(x) = y /\ Tiling(s \ {x}, lo, x.at)
    <2>1. CASE s = {}
      <3>1. lo = y
        BY <1>b, <2>1 DEF Tiling
      <3>2. Bytes(s) = 0
        BY <1>b, <2>1, SumStep DEF Sized, Tiling
      <3> QED BY <3>1, <3>2, <2>1, <1>0
    <2>2. CASE s # {}
      <3>1. lo < y
        BY <1>b, <2>2 DEF Tiling, EndOf
      <3>2. PICK x \in s : x.at <= y - 1 /\ y - 1 < EndOf(x)
        BY <1>b, <3>1 DEF Tiling
      <3>3. EndOf(x) = y
        BY <1>b, <3>2 DEF Tiling, EndOf
      <3>4. Tiling(s \ {x}, lo, x.at)
        <4>1. IsFiniteSet(s \ {x})
          BY <1>b, FS_Subset DEF Tiling
        <4>2. x.at \in Nat /\ x.size \in Nat /\ lo <= x.at
          BY <1>b DEF Tiling
        <4>3. ASSUME NEW b \in s \ {x}
              PROVE  EndOf(b) <= x.at
          <5>1. EndOf(b) <= x.at \/ y <= b.at
            BY <1>b, <3>3 DEF Tiling
          <5>2. b.at \in Nat /\ b.size \in Nat /\ b.size > 0 /\ EndOf(b) <= y /\ y \in Nat
            BY <1>b DEF Tiling
          <5> QED BY <5>1, <5>2 DEF EndOf
        <4>4. ASSUME NEW n \in lo .. x.at - 1
              PROVE  \E b \in s \ {x} : b.at <= n /\ n < EndOf(b)
          <5>1. n \in lo .. y - 1
            BY <1>b, <4>2, <3>3, <1>0 DEF EndOf, Tiling
          <5>2. PICK b \in s : b.at <= n /\ n < EndOf(b)
            BY <1>b, <5>1 DEF Tiling
          <5>3. b # x
            BY <5>2, <4>2, <1>0
          <5> QED BY <5>2, <5>3
        <4> QED BY <1>b, <4>1, <4>2, <4>3, <4>4 DEF Tiling
      <3> QED BY <2>2, <3>3, <3>4
    <2> QED BY <2>1, <2>2
  <1>1. 0 \in T
    <2>1. ASSUME NEW s \in SmallSets(B, 0)
          PROVE  s = {}
      <3>1. s \in SUBSET B /\ Cardinality(s) = 0
        BY <1>a DEF SmallSets
      <3> QED BY <3>1, <1>a, FS_EmptySet
    <2> QED BY <2>1, <1>b
  <1>2. ASSUME NEW n \in Nat, n \in T
        PROVE  n + 1 \in T
    <2>1. ASSUME NEW s \in SmallSets(B, n + 1), NEW y \in Nat, Tiling(s, lo, y)
          PROVE  Bytes(s) = y - lo
      <3>1. s \in SUBSET B /\ Cardinality(s) <= n + 1
        BY DEF SmallSets
      <3>2. CASE s = {}
        BY <2>1, <3>2, <1>b
      <3>3. CASE s # {}
        <4>1. PICK x \in s : EndOf(x) = y /\ Tiling(s \ {x}, lo, x.at)
          BY <2>1, <3>3, <1>b
        <4>2. s \ {x} \in SmallSets(B, n)
          BY <3>1, <1>a, FS_RemoveElement DEF SmallSets
        <4>3. x.at \in Nat /\ x.size \in Nat
          BY <2>1 DEF Tiling
        <4>4. Bytes(s \ {x}) = x.at - lo
          BY <4>1, <4>2, <4>3, <1>2
        <4>5. Sized(s)
          BY <2>1 DEF Sized, Tiling
        <4>6. Bytes(s) = x.size + Bytes(s \ {x})
          BY <4>5, SumStep
        <4> QED BY <4>1, <4>3, <4>4, <4>6, <1>0 DEF EndOf
      <3> QED BY <3>2, <3>3
    <2> QED BY <2>1
  <1>3. \A n \in Nat : n \in T
    <2> HIDE DEF T
    <2> QED BY <1>1, <1>2, NatClimb
  <1>4. B \in SmallSets(B, Cardinality(B)) /\ Cardinality(B) \in T
    BY <1>a, <1>3 DEF SmallSets
  <1> QED BY <1>0, <1>4

\* Blocks that lie from x to y may be replaced by others that do, or at the end
\* by others that reach further.
LEMMA TileReplace ==
  ASSUME NEW B, NEW lo, NEW hi, NEW R, NEW N, NEW x, NEW y, NEW z,
         Tiling(B, lo, hi), R \subseteq B, Tiling(R, x, y), Tiling(N, x, z),
         lo <= x, y <= hi, z = y \/ (y = hi /\ z >= y)
  PROVE  Tiling((B \ R) \cup N, lo, (hi + z) - y)
  <1> DEFINE D == (B \ R) \cup N
  <1>1. lo \in Nat /\ hi \in Nat /\ x \in Nat /\ y \in Nat /\ z \in Nat /\ x <= y /\ x <= z
    BY DEF Tiling
  <1>2. IsFiniteSet(D)
    BY FS_Subset, FS_Union DEF Tiling
  <1>b. ASSUME NEW b \in B
        PROVE  b.at \in Nat /\ b.size \in Nat /\ b.size > 0 /\ lo <= b.at /\ EndOf(b) <= hi /\ EndOf(b) = b.at + b.size
    BY DEF Tiling, EndOf
  <1>n. ASSUME NEW b \in N
        PROVE  b.at \in Nat /\ b.size \in Nat /\ b.size > 0 /\ x <= b.at /\ EndOf(b) <= z /\ EndOf(b) = b.at + b.size
    BY DEF Tiling, EndOf
  <1>r. ASSUME NEW b \in R
        PROVE  b.at \in Nat /\ b.size \in Nat /\ b.size > 0 /\ x <= b.at /\ EndOf(b) <= y /\ EndOf(b) = b.at + b.size
    BY DEF Tiling, EndOf
  <1>3. ASSUME NEW b \in B \ R, x < z
        PROVE  EndOf(b) <= x \/ y <= b.at
    <2>1. SUFFICES ASSUME x < EndOf(b), b.at < y, x < y
                   PROVE  FALSE
      BY <1>b, <1>1, <1>3
    <2>2. PICK n \in x .. y - 1 : b.at <= n /\ n < EndOf(b)
      <3>1. CASE b.at <= x
        BY <3>1, <2>1, <1>1, <1>b
      <3>2. CASE x < b.at
        BY <3>2, <2>1, <1>1, <1>b
      <3> QED BY <3>1, <3>2, <1>1, <1>b
    <2>3. PICK r \in R : r.at <= n /\ n < EndOf(r)
      BY <2>2 DEF Tiling
    <2>4. r # b /\ r \in B
      BY <2>3
    <2>5. EndOf(r) <= b.at \/ EndOf(b) <= r.at
      BY <2>4 DEF Tiling
    <2>6. n \in Int /\ r.at \in Int /\ EndOf(r) \in Int /\ b.at \in Int /\ EndOf(b) \in Int
      BY <1>r, <1>b, <1>1
    <2> QED BY <2>2, <2>3, <2>5, <2>6
  <1>4. ASSUME NEW b \in B \ R, NEW c \in N
        PROVE  EndOf(b) <= c.at \/ EndOf(c) <= b.at
    <2>1. x < z /\ c.at \in Nat /\ x <= c.at /\ EndOf(c) <= z /\ EndOf(c) \in Nat
      BY <1>n, <1>1
    <2>2. EndOf(b) <= x \/ y <= b.at
      BY <1>3, <2>1
    <2>3. b.at \in Nat /\ EndOf(b) \in Nat /\ EndOf(b) <= hi /\ b.at < EndOf(b)
      BY <1>b
    <2> QED BY <1>1, <2>1, <2>2, <2>3
  <1>5. ASSUME NEW b \in D
        PROVE  b.at \in Nat /\ b.size \in Nat /\ b.size > 0 /\ lo <= b.at /\ EndOf(b) <= (hi + z) - y
    <2>1. CASE b \in B \ R
      BY <2>1, <1>b, <1>1
    <2>2. CASE b \in N
      BY <2>2, <1>n, <1>1
    <2> QED BY <2>1, <2>2
  <1>6. ASSUME NEW b \in D, NEW c \in D, b # c
        PROVE  EndOf(b) <= c.at \/ EndOf(c) <= b.at
    <2>1. CASE b \in B \ R /\ c \in B \ R
      BY <2>1, <1>6 DEF Tiling
    <2>2. CASE b \in N /\ c \in N
      BY <2>2, <1>6 DEF Tiling
    <2>3. CASE b \in B \ R /\ c \in N
      BY <2>3, <1>4
    <2>4. CASE b \in N /\ c \in B \ R
      BY <2>4, <1>4
    <2> QED BY <2>1, <2>2, <2>3, <2>4
  <1>7. ASSUME NEW n \in lo .. ((hi + z) - y) - 1
        PROVE  \E b \in D : b.at <= n /\ n < EndOf(b)
    <2>1. CASE x <= n /\ n < z
      <3>1. n \in x .. z - 1
        BY <2>1, <1>1
      <3> QED BY <3>1 DEF Tiling
    <2>2. CASE ~(x <= n /\ n < z)
      <3>1. n \in lo .. hi - 1 /\ ~(x <= n /\ n < y)
        BY <2>2, <1>1
      <3>2. PICK b \in B : b.at <= n /\ n < EndOf(b)
        BY <3>1 DEF Tiling
      <3>3. b \notin R
        BY <3>1, <3>2, <1>r, <1>1
      <3> QED BY <3>2, <3>3
    <2> QED BY <2>1, <2>2
  <1>8. (hi + z) - y \in Nat /\ lo <= (hi + z) - y
    BY <1>1
  <1> QED BY <1>1, <1>2, <1>5, <1>6, <1>7, <1>8 DEF Tiling

\* No blocks, one, two or three in a row.
LEMMA FewTiles ==
  /\ \A x \in Nat : Tiling({}, x, x)
  /\ \A b : b.at \in Nat /\ b.size \in Nat /\ b.size > 0 => Tiling({b}, b.at, EndOf(b))
  /\ \A B, b, lo : \A hi : Tiling(B, lo, hi) /\ b.at = hi /\ b.size \in Nat /\ b.size > 0 => Tiling(B \cup {b}, lo, EndOf(b))
  <1>1. ASSUME NEW x \in Nat
        PROVE  Tiling({}, x, x)
    BY FS_EmptySet DEF Tiling
  <1>2. ASSUME NEW b, b.at \in Nat, b.size \in Nat, b.size > 0
        PROVE  Tiling({b}, b.at, EndOf(b))
    <2>1. IsFiniteSet({b}) /\ EndOf(b) = b.at + b.size
      BY FS_Singleton DEF EndOf
    <2>2. \A n \in b.at .. EndOf(b) - 1 : b.at <= n /\ n < EndOf(b)
      BY <1>2, <2>1
    <2>3. EndOf(b) \in Nat /\ b.at <= EndOf(b)
      BY <1>2, <2>1
    <2>4. \A c \in {b} : c = b
      OBVIOUS
    <2> QED BY <1>2, <2>1, <2>2, <2>3, <2>4 DEF Tiling
  <1>3. ASSUME NEW B, NEW b, NEW lo, NEW hi, Tiling(B, lo, hi), b.at = hi, b.size \in Nat, b.size > 0
        PROVE  Tiling(B \cup {b}, lo, EndOf(b))
    <2>1. hi \in Nat /\ lo \in Nat /\ lo <= hi /\ EndOf(b) = hi + b.size
      BY <1>3 DEF Tiling, EndOf
    <2>2. IsFiniteSet(B \cup {b})
      BY <1>3, FS_AddElement DEF Tiling
    <2>3. ASSUME NEW c \in B
          PROVE  c.at \in Nat /\ c.size \in Nat /\ c.size > 0 /\ lo <= c.at /\ EndOf(c) <= hi /\ EndOf(c) = c.at + c.size
      BY <1>3 DEF Tiling, EndOf
    <2>4. ASSUME NEW c \in B \cup {b}, NEW d \in B \cup {b}, c # d
          PROVE  EndOf(c) <= d.at \/ EndOf(d) <= c.at
      <3>1. CASE c \in B /\ d \in B
        BY <3>1, <2>4, <1>3 DEF Tiling
      <3>2. CASE c \in B /\ d = b
        BY <3>2, <2>3, <1>3
      <3>3. CASE c = b /\ d \in B
        BY <3>3, <2>3, <1>3
      <3> QED BY <2>4, <3>1, <3>2, <3>3
    <2>5. ASSUME NEW n \in lo .. EndOf(b) - 1
          PROVE  \E c \in B \cup {b} : c.at <= n /\ n < EndOf(c)
      <3>1. CASE n < hi
        <4>1. n \in lo .. hi - 1
          BY <3>1, <2>1
        <4> QED BY <4>1, <1>3 DEF Tiling
      <3>2. CASE ~(n < hi)
        BY <3>2, <2>1, <1>3
      <3> QED BY <3>1, <3>2
    <2>6. ASSUME NEW c \in B \cup {b}
          PROVE  c.at \in Nat /\ c.size \in Nat /\ c.size > 0 /\ lo <= c.at /\ EndOf(c) <= EndOf(b)
      BY <2>1, <2>3, <1>3
    <2> QED BY <2>1, <2>2, <2>4, <2>5, <2>6, <1>3 DEF Tiling
  <1> QED BY <1>1, <1>2, <1>3

----------------------------------------------------------------------------
(* The free list with the blocks after the p-th and before the q-th replaced. *)

Elems(s) == {s[i] : i \in DOMAIN s}
InOrder(s) == \A i, j \in DOMAIN s : i < j => EndOf(s[i]) < s[j].at
Spliced(s, p, q, bs) == SubSeq(s, 1, p) \o bs \o SubSeq(s, q, Len(s))
Cut(s, p, q) == {s[j] : j \in p + 1 .. q - 1}

Indexed(t, s, p, q, bs) ==
    /\ Len(t) = p + Len(bs) + ((Len(s) - q) + 1)
    /\ \A k \in 1 .. p : t[k] = s[k]
    /\ \A k \in 1 .. Len(bs) : t[p + k] = bs[k]
    /\ \A k \in q .. Len(s) : t[p + Len(bs) + (k - q) + 1] = s[k]
\* Where the elements of a spliced list are.
LEMMA SpliceIndex ==
  ASSUME NEW S, NEW s \in Seq(S), NEW bs \in Seq(S), NEW p \in 0 .. Len(s), NEW q \in p + 1 .. Len(s) + 1
  PROVE  Spliced(s, p, q, bs) \in Seq(S) /\ Indexed(Spliced(s, p, q, bs), s, p, q, bs)
  <1> DEFINE front == SubSeq(s, 1, p)
             back == SubSeq(s, q, Len(s))
             fb == front \o bs
             t == fb \o back
  <1>0. Len(s) \in Nat /\ Len(bs) \in Nat /\ p \in Nat /\ q \in Nat /\ p <= Len(s) /\ p < q /\ q <= Len(s) + 1
    OBVIOUS
  <1>1. front \in Seq(S) /\ Len(front) = p /\ \A k \in 1 .. p : front[k] = s[k]
    BY <1>0
  <1>2. back \in Seq(S) /\ Len(back) = (Len(s) - q) + 1 /\ \A k \in 1 .. (Len(s) - q) + 1 : back[k] = s[(q + k) - 1]
    BY <1>0
  <1> HIDE DEF front, back
  <1>3. fb \in Seq(S) /\ Len(fb) = p + Len(bs) /\ \A k \in 1 .. Len(fb) : fb[k] = IF k <= p THEN front[k] ELSE bs[k - p]
    BY <1>0, <1>1
  <1> HIDE DEF fb
  <1>4. t \in Seq(S) /\ Len(t) = Len(fb) + Len(back)
        /\ \A k \in 1 .. Len(t) : t[k] = IF k <= Len(fb) THEN fb[k] ELSE back[k - Len(fb)]
    <2>1. fb \in Seq(S) /\ back \in Seq(S)
      BY <1>2, <1>3
    <2> QED BY <2>1, ConcatProperties
  <1> HIDE DEF t
  <1>5. t = Spliced(s, p, q, bs)
    BY DEF t, fb, front, back, Spliced
  <1>6. Len(t) = p + Len(bs) + ((Len(s) - q) + 1)
    BY <1>2, <1>3, <1>4, <1>0
  <1>7. ASSUME NEW k \in 1 .. p
        PROVE  t[k] = s[k]
    <2>1. k \in 1 .. Len(fb) /\ k \in 1 .. Len(t) /\ k <= Len(fb) /\ k <= p
      BY <1>0, <1>3, <1>6
    <2> QED BY <2>1, <1>1, <1>3, <1>4
  <1>8. ASSUME NEW k \in 1 .. Len(bs)
        PROVE  t[p + k] = bs[k]
    <2>1. p + k \in 1 .. Len(fb) /\ p + k \in 1 .. Len(t) /\ p + k <= Len(fb) /\ ~(p + k <= p) /\ (p + k) - p = k
      BY <1>0, <1>3, <1>6
    <2> QED BY <2>1, <1>3, <1>4
  <1>9. ASSUME NEW k \in q .. Len(s)
        PROVE  t[p + Len(bs) + (k - q) + 1] = s[k]
    <2> DEFINE m == p + Len(bs) + (k - q) + 1
               l == (k - q) + 1
    <2>1. m \in 1 .. Len(t) /\ ~(m <= Len(fb)) /\ m - Len(fb) = l
      BY <1>0, <1>3, <1>6
    <2>2. l \in 1 .. (Len(s) - q) + 1 /\ (q + l) - 1 = k
      BY <1>0
    <2> HIDE DEF m, l
    <2>3. t[m] = back[l] /\ back[l] = s[k]
      BY <2>1, <2>2, <1>2, <1>4
    <2> QED BY <2>3 DEF m
  <1> QED BY <1>4, <1>5, <1>6, <1>7, <1>8, <1>9 DEF Indexed

\* Where an index of the spliced list points to.
LEMMA SpliceWhere ==
  ASSUME NEW S, NEW s \in Seq(S), NEW bs \in Seq(S), NEW p \in 0 .. Len(s), NEW q \in p + 1 .. Len(s) + 1,
         NEW k \in DOMAIN Spliced(s, p, q, bs)
  PROVE  \/ k \in 1 .. p /\ Spliced(s, p, q, bs)[k] = s[k]
         \/ \E j \in 1 .. Len(bs) : k = p + j /\ Spliced(s, p, q, bs)[k] = bs[j]
         \/ \E j \in q .. Len(s) : k = p + Len(bs) + (j - q) + 1 /\ Spliced(s, p, q, bs)[k] = s[j]
  <1> DEFINE t == Spliced(s, p, q, bs)
  <1>0. Len(s) \in Nat /\ Len(bs) \in Nat /\ p \in Nat /\ q \in Nat /\ p <= Len(s) /\ p < q /\ q <= Len(s) + 1
    OBVIOUS
  <1>a. t \in Seq(S) /\ Indexed(t, s, p, q, bs)
    BY SpliceIndex
  <1>1. /\ t \in Seq(S)
        /\ Len(t) = p + Len(bs) + ((Len(s) - q) + 1)
        /\ \A i \in 1 .. p : t[i] = s[i]
        /\ \A i \in 1 .. Len(bs) : t[p + i] = bs[i]
        /\ \A i \in q .. Len(s) : t[p + Len(bs) + (i - q) + 1] = s[i]
    <2> HIDE DEF t
    <2> QED BY <1>a DEF Indexed
  <1> HIDE DEF t
  <1>2. k \in 1 .. p + Len(bs) + ((Len(s) - q) + 1)
    <2>1. DOMAIN t = 1 .. Len(t)
      BY <1>1
    <2>2. k \in DOMAIN t
      BY DEF t
    <2> QED BY <2>1, <2>2, <1>1
  <1>3. CASE k <= p
    BY <1>1, <1>2, <1>3 DEF t
  <1>4. CASE k > p /\ k <= p + Len(bs)
    <2>1. k - p \in 1 .. Len(bs) /\ p + (k - p) = k
      BY <1>0, <1>2, <1>4
    <2>2. t[p + (k - p)] = bs[k - p]
      BY <2>1, <1>1
    <2> QED BY <2>1, <2>2 DEF t
  <1>5. CASE k > p + Len(bs)
    <2> DEFINE j == (((k - p) - Len(bs)) + q) - 1
    <2>1. j \in q .. Len(s) /\ k = p + Len(bs) + (j - q) + 1
      BY ONLY <1>0, <1>2, <1>5 DEF j
    <2> HIDE DEF j
    <2>2. t[p + Len(bs) + (j - q) + 1] = s[j]
      BY <2>1, <1>1
    <2> QED BY <2>1, <2>2 DEF t
  <1> QED BY <1>0, <1>2, <1>3, <1>4, <1>5

Between(s, p, q, bs) ==
    \A b \in Elems(bs) : /\ \A j \in 1 .. p : EndOf(s[j]) < b.at
                         /\ \A j \in q .. Len(s) : EndOf(b) < s[j].at
AreCells(S) == \A b \in S : b.at \in Nat /\ b.size \in Nat /\ b.size > 0 /\ EndOf(b) \in Nat /\ b.at < EndOf(b)
SplicedWell(S, s, p, q, bs) ==
    /\ Spliced(s, p, q, bs) \in Seq(S)
    /\ InOrder(Spliced(s, p, q, bs))
    /\ Elems(Spliced(s, p, q, bs)) = (Elems(s) \ Cut(s, p, q)) \cup Elems(bs)
    /\ Cut(s, p, q) \subseteq Elems(s)
\* The elements that are left, and those put in, in order.
LEMMA SpliceFacts ==
  ASSUME NEW S, NEW s \in Seq(S), NEW bs \in Seq(S), NEW p \in 0 .. Len(s), NEW q \in p + 1 .. Len(s) + 1,
         AreCells(S), InOrder(s), InOrder(bs), Between(s, p, q, bs)
  PROVE  SplicedWell(S, s, p, q, bs)
  <1>b. /\ \A b \in S : b.at \in Nat /\ b.size \in Nat /\ b.size > 0 /\ EndOf(b) \in Nat /\ b.at < EndOf(b)
        /\ \A b \in Elems(bs) : /\ \A j \in 1 .. p : EndOf(s[j]) < b.at
                                /\ \A j \in q .. Len(s) : EndOf(b) < s[j].at
    BY DEF AreCells, Between
  <1> DEFINE t == Spliced(s, p, q, bs)
  <1>0. Len(s) \in Nat /\ Len(bs) \in Nat /\ p \in Nat /\ q \in Nat /\ p <= Len(s) /\ p < q /\ q <= Len(s) + 1 /\ DOMAIN s = 1 .. Len(s) /\ DOMAIN bs = 1 .. Len(bs)
        /\ (\A i \in 1 .. Len(s) : s[i] \in S) /\ (\A i \in 1 .. Len(bs) : bs[i] \in S)
    OBVIOUS
  <1>a. t \in Seq(S) /\ Indexed(t, s, p, q, bs)
    BY SpliceIndex
  <1>1. /\ t \in Seq(S)
        /\ Len(t) = p + Len(bs) + ((Len(s) - q) + 1)
        /\ \A i \in 1 .. p : t[i] = s[i]
        /\ \A i \in 1 .. Len(bs) : t[p + i] = bs[i]
        /\ \A i \in q .. Len(s) : t[p + Len(bs) + (i - q) + 1] = s[i]
    <2> HIDE DEF t
    <2> QED BY <1>a DEF Indexed
  <1>2. ASSUME NEW k \in DOMAIN t
        PROVE  \/ k \in 1 .. p /\ t[k] = s[k]
               \/ \E j \in 1 .. Len(bs) : k = p + j /\ t[k] = bs[j]
               \/ \E j \in q .. Len(s) : k = p + Len(bs) + (j - q) + 1 /\ t[k] = s[j]
    BY <1>2, SpliceWhere
  <1>3. \A k \in 1 .. Len(bs) : bs[k] \in Elems(bs)
    BY <1>0 DEF Elems
  <1> HIDE DEF t
  <1>4. InOrder(t)
    <2>1. SUFFICES ASSUME NEW k \in DOMAIN t, NEW l \in DOMAIN t, k < l
                   PROVE  EndOf(t[k]) < t[l].at
      BY DEF InOrder
    <2>2. CASE k \in 1 .. p /\ t[k] = s[k]
      <3>1. CASE l \in 1 .. p /\ t[l] = s[l]
        BY <2>1, <2>2, <3>1, <1>0 DEF InOrder
      <3>2. CASE \E j \in 1 .. Len(bs) : l = p + j /\ t[l] = bs[j]
        BY <2>2, <3>2, <1>3, <1>b
      <3>3. CASE \E j \in q .. Len(s) : l = p + Len(bs) + (j - q) + 1 /\ t[l] = s[j]
        <4>1. PICK j \in q .. Len(s) : t[l] = s[j]
          BY <3>3
        <4>2. k \in DOMAIN s /\ j \in DOMAIN s /\ k < j
          BY <2>2, <4>1, <1>0
        <4> QED BY <2>2, <4>1, <4>2 DEF InOrder
      <3> QED BY <1>2, <3>1, <3>2, <3>3
    <2>3. ASSUME NEW i \in 1 .. Len(bs), k = p + i, t[k] = bs[i]
          PROVE  EndOf(t[k]) < t[l].at
      <3>1. CASE l \in 1 .. p /\ t[l] = s[l]
        BY <2>1, <2>3, <3>1, <1>0, <1>b, <1>3
      <3>2. CASE \E j \in 1 .. Len(bs) : l = p + j /\ t[l] = bs[j]
        <4>1. PICK j \in 1 .. Len(bs) : l = p + j /\ t[l] = bs[j]
          BY <3>2
        <4>2. i \in DOMAIN bs /\ j \in DOMAIN bs /\ i < j
          BY <2>1, <2>3, <4>1, <1>0
        <4> QED BY <2>3, <4>1, <4>2 DEF InOrder
      <3>3. CASE \E j \in q .. Len(s) : l = p + Len(bs) + (j - q) + 1 /\ t[l] = s[j]
        <4>1. PICK j \in q .. Len(s) : t[l] = s[j]
          BY <3>3
        <4>2. EndOf(bs[i]) < s[j].at
          BY <1>3, <1>b
        <4> QED BY <2>3, <4>1, <4>2
      <3> QED BY <1>2, <3>1, <3>2, <3>3
    <2>4. ASSUME NEW i \in q .. Len(s), k = p + Len(bs) + (i - q) + 1, t[k] = s[i]
          PROVE  EndOf(t[k]) < t[l].at
      <3>1. CASE l \in 1 .. p /\ t[l] = s[l]
        BY <2>1, <2>4, <3>1, <1>0
      <3>2. CASE \E j \in 1 .. Len(bs) : l = p + j /\ t[l] = bs[j]
        BY <2>1, <2>4, <3>2, <1>0
      <3>3. CASE \E j \in q .. Len(s) : l = p + Len(bs) + (j - q) + 1 /\ t[l] = s[j]
        <4>1. PICK j \in q .. Len(s) : l = p + Len(bs) + (j - q) + 1 /\ t[l] = s[j]
          BY <3>3
        <4>2. i \in DOMAIN s /\ j \in DOMAIN s /\ i < j
          BY <2>1, <2>4, <4>1, <1>0
        <4> QED BY <2>4, <4>1, <4>2 DEF InOrder
      <3> QED BY <1>2, <3>1, <3>2, <3>3
    <2> QED BY <1>2, <2>2, <2>3, <2>4
  <1>5. ASSUME NEW i \in 1 .. Len(s), NEW j \in 1 .. Len(s), i # j
        PROVE  s[i] # s[j]
    <2>1. i < j \/ j < i
      BY <1>5, <1>0
    <2>2. EndOf(s[i]) < s[j].at \/ EndOf(s[j]) < s[i].at
      BY <2>1, <1>0 DEF InOrder
    <2>3. s[i].at \in Nat /\ s[j].at \in Nat /\ EndOf(s[i]) \in Nat /\ EndOf(s[j]) \in Nat
          /\ s[i].at < EndOf(s[i]) /\ s[j].at < EndOf(s[j])
      BY <1>0, <1>b
    <2> QED BY <2>2, <2>3
  <1>6. Cut(s, p, q) \subseteq Elems(s)
    <2>1. \A j \in p + 1 .. q - 1 : j \in DOMAIN s
      BY <1>0
    <2> QED BY <2>1 DEF Cut, Elems
  <1>7. Elems(t) \subseteq (Elems(s) \ Cut(s, p, q)) \cup Elems(bs)
    <2>1. SUFFICES ASSUME NEW k \in DOMAIN t
                   PROVE  t[k] \in (Elems(s) \ Cut(s, p, q)) \cup Elems(bs)
      BY DEF Elems
    <2>2. ASSUME NEW i \in 1 .. Len(s), i <= p \/ i >= q
          PROVE  s[i] \in Elems(s) \ Cut(s, p, q)
      <3>1. \A j \in p + 1 .. q - 1 : j \in 1 .. Len(s) /\ j # i
        BY <2>2, <1>0
      <3>2. \A j \in p + 1 .. q - 1 : s[j] # s[i]
        BY <3>1, <1>5
      <3> QED BY <3>2, <1>0 DEF Cut, Elems
    <2>3. CASE k \in 1 .. p /\ t[k] = s[k]
      <3>1. k \in 1 .. Len(s) /\ k <= p
        BY <2>3, <1>0
      <3> QED BY <3>1, <2>2, <2>3
    <2>4. CASE \E j \in 1 .. Len(bs) : k = p + j /\ t[k] = bs[j]
      BY <2>4, <1>3
    <2>5. CASE \E j \in q .. Len(s) : k = p + Len(bs) + (j - q) + 1 /\ t[k] = s[j]
      <3>1. PICK j \in q .. Len(s) : t[k] = s[j]
        BY <2>5
      <3>2. j \in 1 .. Len(s) /\ j >= q
        BY <3>1, <1>0
      <3> QED BY <3>1, <3>2, <2>2
    <2> QED BY <1>2, <2>3, <2>4, <2>5
  <1>8. (Elems(s) \ Cut(s, p, q)) \cup Elems(bs) \subseteq Elems(t)
    <2>0. DOMAIN t = 1 .. Len(t)
      BY <1>1
    <2>1. ASSUME NEW i \in 1 .. Len(bs)
          PROVE  bs[i] \in Elems(t)
      <3>1. p + i \in DOMAIN t
        BY <1>0, <1>1, <2>0
      <3>2. t[p + i] = bs[i]
        BY <1>1
      <3> QED BY <3>1, <3>2 DEF Elems
    <2>2. ASSUME NEW i \in 1 .. Len(s), s[i] \notin Cut(s, p, q)
          PROVE  s[i] \in Elems(t)
      <3>1. i \in 1 .. p \/ i \in q .. Len(s)
        <4>1. i \in p + 1 .. q - 1 => s[i] \in Cut(s, p, q)
          BY DEF Cut
        <4>2. i \notin p + 1 .. q - 1
          BY <4>1, <2>2
        <4>3. i \in 1 .. Len(s)
          OBVIOUS
        <4> QED BY ONLY <4>2, <4>3, <1>0
      <3>2. CASE i \in 1 .. p
        <4>1. i \in DOMAIN t /\ t[i] = s[i]
          BY <3>2, <1>0, <1>1, <2>0
        <4> QED BY <4>1 DEF Elems
      <3>3. CASE i \in q .. Len(s)
        <4>0. p + Len(bs) + (i - q) + 1 \in Int
          BY ONLY <1>0, <3>3
        <4>1. PICK m \in Int : m = p + Len(bs) + (i - q) + 1
          BY <4>0
        <4>2. m \in DOMAIN t
          BY <4>1, <3>3, <1>0, <1>1, <2>0
        <4>3. t[m] = s[i]
          BY <4>1, <3>3, <1>1
        <4> QED BY <4>2, <4>3 DEF Elems
      <3> QED BY <3>1, <3>2, <3>3
    <2> QED BY <2>1, <2>2, <1>0 DEF Elems
  <1> QED BY <1>1, <1>4, <1>6, <1>7, <1>8 DEF t, SplicedWell

----------------------------------------------------------------------------
(* Sizes and alignment. *)

Divides(m, v) == \E q \in Int : v = q * m

\* A remainder is 0 exactly for multiples.
LEMMA Remainders ==
  ASSUME NEW m \in Nat \ {0}, NEW v \in Nat
  PROVE  /\ v % m \in 0 .. m - 1
         /\ (v % m = 0) <=> Divides(m, v)
         /\ \A r \in 0 .. m - 1 : Divides(m, v - r) => v % m = r
         /\ Divides(m, v - (v % m))
  <1>1. v \div m \in Nat /\ v % m \in 0 .. m - 1 /\ v = (v \div m) * m + (v % m)
    OBVIOUS
  <1>2. ASSUME NEW r \in 0 .. m - 1, Divides(m, v - r)
        PROVE  v % m = r
    <2>1. PICK q \in Int : v - r = q * m
      BY <1>2 DEF Divides
    <2>2. v = q * m + r
      <3>1. q * m \in Int
        OBVIOUS
      <3> QED BY <2>1, <3>1
    <2> QED BY <2>2
  <1>3. Divides(m, v - (v % m))
    <2>1. PICK q \in Int, r \in 0 .. m - 1 : v = q * m + r /\ r = v % m
      BY <1>1
    <2>2. q * m \in Int
      OBVIOUS
    <2>3. v - r = q * m
      BY <2>1, <2>2
    <2> QED BY <2>1, <2>3 DEF Divides
  <1>4. v % m = 0 => Divides(m, v)
    BY <1>3
  <1>5. Divides(m, v) => v % m = 0
    <2>1. 0 \in 0 .. m - 1 /\ v - 0 = v
      OBVIOUS
    <2> QED BY <2>1, <1>2
  <1> QED BY <1>1, <1>2, <1>3, <1>4, <1>5

\* Sums and differences of multiples are multiples.
LEMMA DividesSum ==
  ASSUME NEW m \in Nat \ {0}, NEW v \in Int, NEW w \in Int, Divides(m, v), Divides(m, w)
  PROVE  Divides(m, v + w) /\ Divides(m, v - w)
  <1>1. PICK q \in Int, r \in Int : v = q * m /\ w = r * m
    BY DEF Divides
  <1>2. v + w = (q + r) * m /\ v - w = (q - r) * m /\ q + r \in Int /\ q - r \in Int
    BY <1>1
  <1> QED BY <1>2 DEF Divides

\* A multiple of a multiple is one.
LEMMA DividesTransitive ==
  ASSUME NEW k \in Nat \ {0}, NEW m \in Nat \ {0}, NEW v \in Int, Divides(k, m), Divides(m, v)
  PROVE  Divides(k, v)
  <1>1. PICK q \in Int, r \in Int : m = q * k /\ v = r * m
    BY DEF Divides
  <1>2. v = (r * q) * k /\ r * q \in Int
    BY <1>1
  <1> QED BY <1>2 DEF Divides

\* What M_ALIGN adds makes a multiple.
LEMMA AlignUp ==
  ASSUME NEW a \in Nat \ {0}, NEW v \in Nat
  PROVE  /\ M_ALIGN(v, a) \in Nat
         /\ Divides(a, v + M_ALIGN(v, a))
         /\ M_ALIGN(v, a) = 0 => Divides(a, v)
         /\ Divides(a, v) => M_ALIGN(v, a) = 0
  <1>1. PICK r \in 0 .. a - 1 : r = v % a
    BY Remainders
  <1>2. Divides(a, v - r) /\ (r = 0 <=> Divides(a, v))
    BY <1>1, Remainders
  <1>3. Divides(a, a) /\ Divides(a, 0)
    <2>1. a = 1 * a /\ 0 = 0 * a
      OBVIOUS
    <2> QED BY <2>1 DEF Divides
  <1>4. a - r \in Nat /\ M_ALIGN(v, a) = (a - r) % a
    BY <1>1 DEF M_ALIGN
  <1>5. CASE r = 0
    <2>1. (a - r) % a = 0
      BY <1>3, <1>4, <1>5, Remainders
    <2>2. M_ALIGN(v, a) = 0 /\ v + 0 = v
      BY <2>1, <1>4
    <2> QED BY <2>2, <1>2, <1>5
  <1>6. CASE r # 0
    <2>1. a - r \in 0 .. a - 1 /\ (a - r) - (a - r) = 0
      BY <1>1, <1>6
    <2>2. (a - r) % a = a - r
      BY <2>1, <1>3, <1>4, Remainders
    <2>3. M_ALIGN(v, a) = a - r /\ a - r # 0 /\ v + (a - r) = (v - r) + a /\ v - r \in Int
      BY <2>1, <2>2, <1>1, <1>4
    <2>4. Divides(a, (v - r) + a)
      BY <2>3, <1>2, <1>3, DividesSum
    <2> QED BY <2>3, <2>4, <1>2, <1>4, <1>6
  <1> QED BY <1>5, <1>6

\* size_t and the header of a free block.
LEMMA Words ==
  /\ SizeT \in Nat \ {0} /\ Entry \in Nat /\ Entry > SizeT /\ Divides(SizeT, Entry) /\ Divides(SizeT, SizeT)
  <1>1. SizeT \in Nat \ {0}
    BY MallocAssumption
  <1>2. SizeT = 1 * SizeT /\ Entry = 2 * SizeT
    BY <1>1 DEF Entry
  <1> QED BY <1>1, <1>2 DEF Divides

\* Whole words add up to whole words.
LEMMA WordsAdd ==
  ASSUME NEW v \in Nat, NEW w \in Nat, Divides(SizeT, v), Divides(SizeT, w)
  PROVE  v + w \in Nat /\ Divides(SizeT, v + w)
  <1>1. SizeT \in Nat \ {0} /\ v \in Int /\ w \in Int
    BY Words
  <1>2. Divides(SizeT, v + w)
    BY <1>1, DividesSum
  <1> QED BY <1>2

\* REAL_SIZE is in whole words, and large enough for the header, for what is asked and for a free block.
LEMMA RealSize ==
  ASSUME NEW sz \in Nat
  PROVE  REAL_SIZE(sz) \in Nat /\ REAL_SIZE(sz) >= Entry /\ REAL_SIZE(sz) - SizeT >= sz /\ Divides(SizeT, REAL_SIZE(sz))
  <1>1. PICK m \in Nat : m = M_ALIGN(sz, SizeT)
    BY Words, AlignUp
  <1>2. Divides(SizeT, sz + m)
    BY <1>1, Words, AlignUp
  <1>3. Divides(SizeT, (sz + m) + SizeT)
    BY <1>2, Words, DividesSum
  <1>4. (sz + m) + SizeT = sz + SizeT + m /\ Entry - SizeT = SizeT /\ Entry = SizeT + SizeT
    BY <1>1, Words DEF Entry
  <1> QED BY <1>1, <1>3, <1>4, Words DEF REAL_SIZE

\* What memalign leaves in front of the block, from an address of whole words.
LEMMA Before ==
  ASSUME NEW pos \in Nat, Divides(SizeT, pos), NEW a \in Aligns
  PROVE  /\ BeforeSize(pos, a) \in Nat /\ Divides(SizeT, BeforeSize(pos, a))
         /\ BeforeSize(pos, a) = 0 \/ BeforeSize(pos, a) >= Entry
         /\ Divides(a, (pos + BeforeSize(pos, a)) + SizeT)
         /\ M_ALIGN(pos + SizeT, a) \in Nat /\ Divides(SizeT, M_ALIGN(pos + SizeT, a))
  <1>1. a \in Nat \ {0} /\ (Divides(SizeT, a) \/ Divides(a, SizeT))
    <2>1. a \in Nat \ {0} /\ (a % SizeT = 0 \/ SizeT % a = 0)
      BY MallocAssumption
    <2> QED BY <2>1, Words, Remainders
  <1>2. ASSUME NEW v \in Nat, Divides(SizeT, v)
        PROVE  M_ALIGN(v, a) \in Nat /\ Divides(SizeT, M_ALIGN(v, a)) /\ Divides(a, v + M_ALIGN(v, a))
    <2>1. PICK m \in Nat : m = M_ALIGN(v, a)
      BY <1>1, AlignUp
    <2>2. Divides(a, v + m) /\ (Divides(a, v) => m = 0)
      BY <1>1, <2>1, AlignUp
    <2>3. CASE Divides(SizeT, a)
      <3>1. Divides(SizeT, v + m)
        BY <2>2, <2>3, <1>1, Words, DividesTransitive
      <3>2. Divides(SizeT, (v + m) - v) /\ (v + m) - v = m
        BY <3>1, <1>2, Words, DividesSum
      <3> QED BY <2>1, <2>2, <3>2
    <2>4. CASE Divides(a, SizeT)
      <3>1. Divides(a, v)
        BY <2>4, <1>1, <1>2, Words, DividesTransitive
      <3>2. m = 0 /\ 0 = 0 * SizeT
        BY <3>1, <2>2, Words
      <3> QED BY <2>1, <2>2, <3>2 DEF Divides
    <2> QED BY <1>1, <2>3, <2>4
  <1>3. pos + SizeT \in Nat /\ Divides(SizeT, pos + SizeT)
    BY Words, DividesSum
  <1>4. (pos + Entry) + SizeT \in Nat /\ Divides(SizeT, (pos + Entry) + SizeT)
    <2>1. Divides(SizeT, pos + Entry)
      BY Words, DividesSum
    <2> QED BY <2>1, Words, DividesSum
  <1>5. PICK m \in Nat : m = M_ALIGN(pos + SizeT, a) /\ Divides(SizeT, m)
    BY <1>2, <1>3
  <1>6. PICK n \in Nat : n = M_ALIGN(pos + Entry + SizeT, a) /\ Divides(SizeT, n) /\ Divides(a, ((pos + Entry) + SizeT) + n)
    BY <1>2, <1>4
  <1>7. CASE m = 0
    <2>1. BeforeSize(pos, a) = 0 /\ Divides(a, pos + SizeT) /\ 0 = 0 * SizeT /\ (pos + 0) + SizeT = pos + SizeT
      BY <1>1, <1>3, <1>5, <1>7, AlignUp, Words DEF BeforeSize
    <2> QED BY <1>5, <2>1 DEF Divides
  <1>8. CASE m # 0
    <2>1. BeforeSize(pos, a) = Entry + n
      BY <1>5, <1>6, <1>8 DEF BeforeSize
    <2>2. ((pos + Entry) + SizeT) + n = (pos + (Entry + n)) + SizeT /\ Entry + n \in Nat /\ Entry + n >= Entry
      BY <1>6, Words
    <2>3. Divides(SizeT, Entry + n)
      BY <1>6, Words, DividesSum
    <2>4. Divides(a, (pos + (Entry + n)) + SizeT)
      BY <2>2, <1>6
    <2> QED BY <1>5, <2>1, <2>2, <2>3, <2>4
  <1> QED BY <1>7, <1>8

----------------------------------------------------------------------------
(* The invariant of the heap: from the bytes given up by restarts to the   *)
(* end, blocks given out and free blocks tile it; each is large enough to  *)
(* be a free one and begins at a word.                                     *)

FreeCells == [at : Nat, size : Nat \ {0}]
UsedCells == [at : Nat, size : Nat \ {0}, asked : Nat, align : Nat \ {0}]
Shaped(b) == b.size >= Entry /\ Divides(SizeT, b.at)
Serves(b) == b.size - SizeT >= b.asked /\ Divides(b.align, b.at + SizeT)
HeapOK(fl, hi, U, lo) ==
    /\ fl \in Seq(FreeCells) /\ InOrder(fl)
    /\ U \subseteq UsedCells
    /\ Tiling(U \cup Elems(fl), lo, hi)
    /\ \A b \in U \cup Elems(fl) : Shaped(b)
    /\ \A b \in U : Serves(b)
    /\ Divides(SizeT, hi)

\* Blocks are not empty, and a free one is none of those given out.
LEMMA Cells ==
  /\ \A b \in FreeCells \cup UsedCells : /\ b.at \in Nat /\ b.size \in Nat /\ b.size > 0 /\ EndOf(b) = b.at + b.size
                                         /\ EndOf(b) \in Nat /\ b.at < EndOf(b)
  /\ \A b \in FreeCells, u \in UsedCells : b # u
  <1>1. ASSUME NEW b \in FreeCells \cup UsedCells
        PROVE  b.at \in Nat /\ b.size \in Nat /\ b.size > 0 /\ EndOf(b) = b.at + b.size /\ EndOf(b) \in Nat /\ b.at < EndOf(b)
    BY DEF FreeCells, UsedCells, EndOf
  <1>2. ASSUME NEW b \in FreeCells, NEW u \in UsedCells
        PROVE  b # u
    <2>1. DOMAIN b = {"at", "size"} /\ DOMAIN u = {"at", "size", "asked", "align"}
      BY DEF FreeCells, UsedCells
    <2>2. "align" \in DOMAIN u /\ "align" \notin DOMAIN b
      BY <2>1
    <2> QED BY <2>2
  <1> QED BY <1>1, <1>2

\* What a list holds.
LEMMA ListElems ==
  ASSUME NEW S, NEW s \in Seq(S)
  PROVE  Elems(s) \subseteq S
  BY DEF Elems

\* A step of the allocator: blocks G given out before are not any more, those of
\* A are, and bs replaces the free blocks between the p-th and the q-th.
LEMMA HeapSplice ==
  ASSUME NEW fl, NEW hi, NEW U, NEW lo, HeapOK(fl, hi, U, lo),
         NEW p \in 0 .. Len(fl), NEW q \in p + 1 .. Len(fl) + 1, NEW bs \in Seq(FreeCells), InOrder(bs),
         NEW G \in SUBSET U, NEW A \in SUBSET UsedCells,
         Between(fl, p, q, bs),
         NEW x, NEW y, NEW z, Tiling(G \cup Cut(fl, p, q), x, y), Tiling(A \cup Elems(bs), x, z),
         lo <= x, y <= hi, z = y \/ (y = hi /\ z >= y),
         \A b \in A \cup Elems(bs) : Shaped(b), \A b \in A : Serves(b), Divides(SizeT, (hi + z) - y)
  PROVE  HeapOK(Spliced(fl, p, q, bs), (hi + z) - y, (U \ G) \cup A, lo)
  <1> DEFINE fl2 == Spliced(fl, p, q, bs)
             U2 == (U \ G) \cup A
             R == G \cup Cut(fl, p, q)
             N == A \cup Elems(bs)
             B == U \cup Elems(fl)
  <1>0. fl \in Seq(FreeCells) /\ InOrder(fl) /\ U \subseteq UsedCells /\ Tiling(B, lo, hi)
        /\ (\A b \in B : Shaped(b)) /\ \A b \in U : Serves(b)
    BY DEF HeapOK
  <1>1. SplicedWell(FreeCells, fl, p, q, bs)
    <2>1. AreCells(FreeCells)
      BY Cells DEF AreCells
    <2> QED BY <1>0, <2>1, SpliceFacts
  <1>2. fl2 \in Seq(FreeCells) /\ InOrder(fl2) /\ Elems(fl2) = (Elems(fl) \ Cut(fl, p, q)) \cup Elems(bs)
        /\ Cut(fl, p, q) \subseteq Elems(fl)
    BY <1>1 DEF SplicedWell
  <1> HIDE DEF fl2
  <1>3. Elems(fl) \subseteq FreeCells /\ Elems(bs) \subseteq FreeCells
    BY <1>0, ListElems
  <1>4. U \cap Elems(fl) = {}
    BY <1>0, <1>3, Cells
  <1>5. U2 \cup Elems(fl2) = (B \ R) \cup N
    BY <1>2, <1>4
  <1>6. R \subseteq B
    BY <1>2
  <1>7. Tiling((B \ R) \cup N, lo, (hi + z) - y)
    <2> HIDE DEF B, R, N
    <2>1. Tiling(R, x, y) /\ Tiling(N, x, z)
      BY DEF R, N
    <2> QED BY <1>0, <1>6, <2>1, TileReplace
  <1>8. Tiling(U2 \cup Elems(fl2), lo, (hi + z) - y)
    BY <1>5, <1>7
  <1>9. \A b \in U2 \cup Elems(fl2) : Shaped(b)
    BY <1>0, <1>5
  <1>10. \A b \in U2 : Serves(b)
    BY <1>0
  <1>11. U2 \subseteq UsedCells
    BY <1>0
  <1>12. HeapOK(fl2, (hi + z) - y, U2, lo)
    <2> HIDE DEF U2, B, R, N
    <2> QED BY <1>2, <1>8, <1>9, <1>10, <1>11 DEF HeapOK
  <1> QED BY <1>12 DEF fl2

\* The same with the free list as it is.
LEMMA ListStays ==
  ASSUME NEW fl \in Seq(FreeCells)
  PROVE  /\ Spliced(fl, Len(fl), Len(fl) + 1, <<>>) = fl
         /\ Cut(fl, Len(fl), Len(fl) + 1) = {}
         /\ <<>> \in Seq(FreeCells) /\ InOrder(<<>>) /\ Elems(<<>>) = {}
         /\ Len(fl) \in 0 .. Len(fl) /\ Len(fl) + 1 \in Len(fl) + 1 .. Len(fl) + 1
  <1>1. Len(fl) \in Nat
    OBVIOUS
  <1>2. SubSeq(fl, 1, Len(fl)) = fl /\ SubSeq(fl, Len(fl) + 1, Len(fl)) = <<>>
    BY <1>1, SubSeqFull, SubSeqEmpty
  <1>3. (fl \o <<>>) \o <<>> = fl
    BY ConcatEmptySeq
  <1> QED BY <1>1, <1>2, <1>3 DEF Spliced, Cut, InOrder, Elems


\* One, two or three blocks in a row.
Cell(b) == b.at \in Nat /\ b.size \in Nat /\ b.size > 0
\* One block in a row,
LEMMA RowOne ==
  ASSUME NEW b, Cell(b)
  PROVE  Tiling({b}, b.at, EndOf(b))
  BY FewTiles DEF Cell

\* one more behind a row,
LEMMA RowMore ==
  ASSUME NEW B, NEW b, NEW lo, NEW hi, Tiling(B, lo, hi), Cell(b), b.at = hi
  PROVE  Tiling(B \cup {b}, lo, EndOf(b))
  <1>1. b.size \in Nat /\ b.size > 0
    BY DEF Cell
  <1> QED BY <1>1, FewTiles

\* two,
LEMMA RowTwo ==
  ASSUME NEW b, NEW c, Cell(b), Cell(c), c.at = EndOf(b)
  PROVE  Tiling({b, c}, b.at, EndOf(c))
  <1>1. Tiling({b} \cup {c}, b.at, EndOf(c))
    BY RowOne, RowMore
  <1>2. {b} \cup {c} = {b, c}
    OBVIOUS
  <1> QED BY <1>1, <1>2

\* three.
LEMMA RowThree ==
  ASSUME NEW b, NEW c, NEW d, Cell(b), Cell(c), Cell(d), c.at = EndOf(b), d.at = EndOf(c)
  PROVE  Tiling({b, c, d}, b.at, EndOf(d))
  <1>1. Tiling({b, c} \cup {d}, b.at, EndOf(d))
    BY RowTwo, RowMore
  <1>2. {b, c} \cup {d} = {b, c, d}
    OBVIOUS
  <1> QED BY <1>1, <1>2

\* What a list in the heap is.
Listed(fl, hi, U, lo) ==
    /\ fl \in Seq(FreeCells) /\ Len(fl) \in Nat /\ DOMAIN fl = 1 .. Len(fl)
    /\ hi \in Nat /\ lo \in Nat /\ lo <= hi /\ Divides(SizeT, hi)
    /\ \A i \in 1 .. Len(fl) : /\ fl[i] \in FreeCells /\ Cell(fl[i]) /\ EndOf(fl[i]) = fl[i].at + fl[i].size
                               /\ fl[i].at \in Nat /\ fl[i].size \in Nat /\ fl[i].at < EndOf(fl[i])
                               /\ EndOf(fl[i]) \in Nat /\ lo <= fl[i].at /\ EndOf(fl[i]) <= hi /\ Shaped(fl[i])
    /\ \A i, j \in 1 .. Len(fl) : i < j => EndOf(fl[i]) < fl[j].at
    /\ \A b \in U : Cell(b) /\ EndOf(b) = b.at + b.size /\ EndOf(b) \in Nat /\ lo <= b.at /\ EndOf(b) <= hi /\ Shaped(b)
    /\ \A b \in U : \A i \in 1 .. Len(fl) : EndOf(b) <= fl[i].at \/ EndOf(fl[i]) <= b.at
\* It is so in a heap that is as it should be.
LEMMA ListFacts ==
  ASSUME NEW fl, NEW hi, NEW U, NEW lo, HeapOK(fl, hi, U, lo)
  PROVE  Listed(fl, hi, U, lo)
  <1> DEFINE B == U \cup Elems(fl)
  <1>1. fl \in Seq(FreeCells) /\ InOrder(fl) /\ U \subseteq UsedCells /\ Tiling(B, lo, hi) /\ Divides(SizeT, hi)
        /\ \A b \in B : Shaped(b)
    BY DEF HeapOK
  <1>2. Len(fl) \in Nat /\ DOMAIN fl = 1 .. Len(fl) /\ (\A i \in 1 .. Len(fl) : fl[i] \in FreeCells)
    BY <1>1
  <1>3. \A i \in 1 .. Len(fl) : fl[i] \in Elems(fl)
    BY <1>2 DEF Elems
  <1>4. ASSUME NEW b \in B
        PROVE  Cell(b) /\ EndOf(b) = b.at + b.size /\ EndOf(b) \in Nat /\ b.at \in Nat /\ b.size \in Nat /\ b.at < EndOf(b) /\ lo <= b.at /\ EndOf(b) <= hi /\ Shaped(b)
    BY <1>1 DEF Tiling, Cell, EndOf
  <1>5. \A i, j \in 1 .. Len(fl) : i < j => EndOf(fl[i]) < fl[j].at
    BY <1>1, <1>2 DEF InOrder
  <1>6. ASSUME NEW b \in U, NEW i \in 1 .. Len(fl)
        PROVE  EndOf(b) <= fl[i].at \/ EndOf(fl[i]) <= b.at
    <2>1. b # fl[i]
      BY <1>1, <1>2, Cells
    <2> QED BY <2>1, <1>1, <1>3 DEF Tiling
  <1>7. hi \in Nat /\ lo \in Nat /\ lo <= hi
    BY <1>1 DEF Tiling
  <1>8. \A i \in 1 .. Len(fl) : /\ fl[i] \in FreeCells /\ Cell(fl[i]) /\ EndOf(fl[i]) = fl[i].at + fl[i].size
                                /\ fl[i].at \in Nat /\ fl[i].size \in Nat /\ fl[i].at < EndOf(fl[i])
                                /\ EndOf(fl[i]) \in Nat /\ lo <= fl[i].at /\ EndOf(fl[i]) <= hi /\ Shaped(fl[i])
    BY <1>2, <1>3, <1>4
  <1> QED BY <1>1, <1>2, <1>4, <1>5, <1>6, <1>7, <1>8 DEF Listed

\* The i-th free block becomes the blocks bs and what is given out, A; at the
\* end of the heap they may be longer.
Replacing(fl, hi, i, bs, A, z, end2) ==
    /\ bs \in Seq(FreeCells) /\ InOrder(bs) /\ A \in SUBSET UsedCells
    /\ Tiling(A \cup Elems(bs), fl[i].at, z) /\ (z = EndOf(fl[i]) \/ (EndOf(fl[i]) = hi /\ z >= hi))
    /\ \A b \in A \cup Elems(bs) : Shaped(b)
    /\ \A b \in A : Serves(b)
    /\ end2 = (hi + z) - EndOf(fl[i]) /\ Divides(SizeT, end2)
\* The heap is then as it should be again, and what is given out is new.
LEMMA ReplaceOne ==
  ASSUME NEW fl, NEW hi, NEW U, NEW lo, HeapOK(fl, hi, U, lo), NEW i \in 1 .. Len(fl),
         NEW bs, NEW A, NEW z, NEW end2, Replacing(fl, hi, i, bs, A, z, end2)
  PROVE  HeapOK(Replaced(fl, i, bs), end2, U \cup A, lo) /\ A \cap U = {}
  <1>a. /\ bs \in Seq(FreeCells) /\ InOrder(bs) /\ A \in SUBSET UsedCells
        /\ Tiling(A \cup Elems(bs), fl[i].at, z) /\ (z = EndOf(fl[i]) \/ (EndOf(fl[i]) = hi /\ z >= hi))
        /\ \A b \in A \cup Elems(bs) : Shaped(b)
        /\ \A b \in A : Serves(b)
        /\ end2 = (hi + z) - EndOf(fl[i]) /\ Divides(SizeT, end2)
    BY DEF Replacing
  <1> DEFINE p == i - 1
             q == i + 1
             y == EndOf(fl[i])
             x == fl[i].at
             G == {}
  <1>0. Listed(fl, hi, U, lo)
    BY ListFacts
  <1>1. /\ fl \in Seq(FreeCells) /\ Len(fl) \in Nat /\ i \in Nat /\ i >= 1 /\ i <= Len(fl) /\ hi \in Nat /\ lo \in Nat
        /\ fl[i] \in FreeCells /\ Cell(fl[i]) /\ y \in Nat /\ x \in Nat /\ x < y /\ lo <= x /\ y <= hi
        /\ \A j \in 1 .. Len(fl) : EndOf(fl[j]) \in Nat /\ fl[j].at \in Nat /\ EndOf(fl[j]) <= hi /\ fl[j].at < EndOf(fl[j])
    <2>1. i \in Nat /\ i >= 1 /\ i <= Len(fl) /\ Len(fl) \in Nat /\ fl \in Seq(FreeCells) /\ hi \in Nat /\ lo \in Nat
      BY <1>0 DEF Listed
    <2>2. \A j \in 1 .. Len(fl) : EndOf(fl[j]) \in Nat /\ fl[j].at \in Nat /\ EndOf(fl[j]) <= hi /\ fl[j].at < EndOf(fl[j])
      BY <1>0 DEF Listed
    <2>3. fl[i] \in FreeCells /\ Cell(fl[i]) /\ lo <= fl[i].at
      BY <1>0 DEF Listed
    <2> QED BY <2>1, <2>2, <2>3
  <1>2. p \in 0 .. Len(fl) /\ q \in p + 1 .. Len(fl) + 1 /\ p + 1 .. q - 1 = {i} /\ 1 .. p \subseteq 1 .. Len(fl) /\ q .. Len(fl) \subseteq 1 .. Len(fl)
        /\ (\A j \in 1 .. p : j < i) /\ \A j \in q .. Len(fl) : i < j
    <2>1. i \in Nat /\ i >= 1 /\ i <= Len(fl) /\ Len(fl) \in Nat
      BY <1>1
    <2> QED BY ONLY <2>1 DEF p, q
  <1>3. Cut(fl, p, q) = {fl[i]} /\ Replaced(fl, i, bs) = Spliced(fl, p, q, bs)
    BY <1>2 DEF Cut, Replaced, Spliced
  <1>4. Tiling(G \cup Cut(fl, p, q), x, y)
    <2>1. G \cup Cut(fl, p, q) = {fl[i]}
      BY <1>3
    <2> QED BY <2>1, <1>1, RowOne
  <1>5. z \in Nat /\ \A b \in A \cup Elems(bs) : b.at \in Nat /\ x <= b.at /\ EndOf(b) <= z /\ EndOf(b) \in Nat /\ b.at < EndOf(b)
    BY <1>a DEF Tiling, EndOf
  <1> HIDE DEF p, q
  <1>6. Between(fl, p, q, bs)
    <2>1. ASSUME NEW b \in Elems(bs), NEW j \in 1 .. p
          PROVE  EndOf(fl[j]) < b.at
      <3>1. j \in 1 .. Len(fl) /\ EndOf(fl[j]) < x
        BY <1>0, <1>2 DEF Listed
      <3> QED BY <3>1, <1>a, <1>1, <1>5
    <2>2. ASSUME NEW b \in Elems(bs), NEW j \in q .. Len(fl)
          PROVE  EndOf(b) < fl[j].at
      <3>1. j \in 1 .. Len(fl) /\ y < fl[j].at
        BY <1>0, <1>2 DEF Listed
      <3> QED BY <3>1, <1>a, <1>1, <1>5
    <2> QED BY <2>1, <2>2 DEF Between
  <1>7. A \cap U = {}
    <2>1. SUFFICES ASSUME NEW b \in A, b \in U
                   PROVE  FALSE
      OBVIOUS
    <2>2. b.at \in Nat /\ x <= b.at /\ EndOf(b) <= z /\ EndOf(b) \in Nat /\ b.at < EndOf(b)
      BY <1>5
    <2>3. EndOf(b) <= x \/ y <= b.at
      <3>1. EndOf(b) <= fl[i].at \/ EndOf(fl[i]) <= b.at
        BY <1>0, <2>1 DEF Listed
      <3> QED BY <3>1
    <2>4. EndOf(b) <= hi
      BY <1>0, <2>1 DEF Listed
    <2> QED BY <2>2, <2>3, <2>4, <1>a, <1>1, <1>5
  <1>8. HeapOK(Spliced(fl, p, q, bs), (hi + z) - y, (U \ G) \cup A, lo)
    <2>1. G \in SUBSET U /\ (z = y \/ (y = hi /\ z >= y)) /\ Divides(SizeT, (hi + z) - y)
      BY <1>a
    <2> HIDE DEF G, x, y
    <2>2. Tiling(A \cup Elems(bs), x, z)
      BY <1>a DEF x
    <2> QED BY <1>a, <1>1, <1>2, <1>4, <1>6, <2>1, <2>2, HeapSplice
  <1>9. (U \ G) \cup A = U \cup A
    OBVIOUS
  <1> QED BY <1>a, <1>3, <1>7, <1>8, <1>9

\* A block at the end of the heap: given out, or a free one.
LEMMA GrowUsed ==
  ASSUME NEW fl, NEW hi, NEW U, NEW lo, HeapOK(fl, hi, U, lo), NEW g \in UsedCells, g.at = hi, Shaped(g), Serves(g),
         Divides(SizeT, EndOf(g))
  PROVE  HeapOK(fl, EndOf(g), U \cup {g}, lo) /\ {g} \cap U = {}
  <1> DEFINE p == Len(fl)
             q == Len(fl) + 1
             bs == <<>>
             G == {}
             A == {g}
             z == EndOf(g)
  <1>0. Listed(fl, hi, U, lo)
    BY ListFacts
  <1>1. fl \in Seq(FreeCells) /\ hi \in Nat /\ lo \in Nat /\ lo <= hi
    BY <1>0 DEF Listed
  <1>2. Spliced(fl, p, q, bs) = fl /\ Cut(fl, p, q) = {} /\ bs \in Seq(FreeCells) /\ InOrder(bs) /\ Elems(bs) = {}
        /\ p \in 0 .. Len(fl) /\ q \in p + 1 .. Len(fl) + 1
    BY <1>1, ListStays
  <1>3. Cell(g) /\ z \in Nat /\ z > hi
    BY Cells, <1>1 DEF Cell
  <1> HIDE DEF p, q, bs
  <1>4. Tiling(G \cup Cut(fl, p, q), hi, hi)
    BY <1>1, <1>2, FewTiles
  <1>5. Tiling(A \cup Elems(bs), hi, z)
    <2>1. A \cup Elems(bs) = {g}
      BY <1>2
    <2> QED BY <1>3, <2>1, RowOne
  <1>6. Between(fl, p, q, bs)
    BY <1>2 DEF Between
  <1>7. {g} \cap U = {}
    <2>1. g \in U => EndOf(g) <= hi
      BY <1>0 DEF Listed
    <2> QED BY <2>1, <1>1, <1>3
  <1>8. HeapOK(Spliced(fl, p, q, bs), (hi + z) - hi, (U \ G) \cup A, lo)
    <2>1. (\A b \in A \cup Elems(bs) : Shaped(b)) /\ (\A b \in A : Serves(b)) /\ A \in SUBSET UsedCells /\ G \in SUBSET U
      BY <1>2
    <2>2. (hi + z) - hi = z /\ Divides(SizeT, z) /\ z >= hi
      BY <1>1, <1>3
    <2>3. lo <= hi /\ hi <= hi /\ (z = hi \/ (hi = hi /\ z >= hi)) /\ Divides(SizeT, (hi + z) - hi)
      BY <1>1, <2>2
    <2> HIDE DEF G, A, z
    <2> QED BY <1>2, <1>4, <1>5, <1>6, <2>1, <2>3, HeapSplice
  <1>9. (U \ G) \cup A = U \cup {g} /\ (hi + z) - hi = z
    BY <1>1, <1>3
  <1> QED BY <1>2, <1>7, <1>8, <1>9

\* A free one, behind a last block that does not end the heap.
LEMMA GrowFree ==
  ASSUME NEW fl, NEW hi, NEW U, NEW lo, HeapOK(fl, hi, U, lo), NEW more \in Nat, more >= Entry, Divides(SizeT, more),
         ~LastAtEnd(fl, hi)
  PROVE  HeapOK(Append(fl, Blk(hi, more)), hi + more, U, lo)
  <1> DEFINE p == Len(fl)
             q == Len(fl) + 1
             b == Blk(hi, more)
             bs == <<b>>
             G == {}
             A == {}
             z == hi + more
  <1>0. Listed(fl, hi, U, lo)
    BY ListFacts
  <1>1. fl \in Seq(FreeCells) /\ hi \in Nat /\ lo \in Nat /\ lo <= hi /\ Len(fl) \in Nat /\ Divides(SizeT, hi)
    BY <1>0 DEF Listed
  <1>2. more > 0 /\ SizeT \in Nat \ {0}
    BY Words
  <1>3. b \in FreeCells /\ Cell(b) /\ b.at = hi /\ EndOf(b) = z /\ Shaped(b) /\ bs \in Seq(FreeCells) /\ z \in Nat /\ z > hi
    BY <1>1, <1>2 DEF Blk, FreeCells, Cell, EndOf, Shaped
  <1>4. p \in 0 .. Len(fl) /\ q \in p + 1 .. Len(fl) + 1 /\ q .. Len(fl) = {} /\ p + 1 .. q - 1 = {}
    BY <1>1
  <1>5. Spliced(fl, p, q, bs) = Append(fl, b) /\ Cut(fl, p, q) = {} /\ Elems(bs) = {b} /\ InOrder(bs)
    <2>1. SubSeq(fl, 1, Len(fl)) = fl /\ SubSeq(fl, Len(fl) + 1, Len(fl)) = <<>>
      BY <1>1, SubSeqFull, SubSeqEmpty
    <2>2. (fl \o bs) \o <<>> = Append(fl, b)
      BY <1>1, <1>3
    <2>3. Spliced(fl, p, q, bs) = Append(fl, b)
      BY <2>1, <2>2 DEF Spliced
    <2>4. DOMAIN bs = {1} /\ bs[1] = b
      OBVIOUS
    <2> HIDE DEF bs
    <2> QED BY <2>3, <2>4, <1>4 DEF Cut, Elems, InOrder
  <1> HIDE DEF p, q, bs
  <1>6. Tiling(G \cup Cut(fl, p, q), hi, hi)
    BY <1>1, <1>5, FewTiles
  <1>7. Tiling(A \cup Elems(bs), hi, z)
    <2>1. A \cup Elems(bs) = {b}
      BY <1>5
    <2> HIDE DEF b, A
    <2>2. Tiling({b}, b.at, EndOf(b))
      BY <1>3, RowOne
    <2> QED BY <1>3, <2>1, <2>2
  <1>8. Between(fl, p, q, bs)
    <2>1. ASSUME NEW j \in 1 .. Len(fl)
          PROVE  EndOf(fl[j]) < hi
      <3>1. EndOf(fl[j]) \in Nat /\ EndOf(fl[j]) <= hi
        BY <1>0 DEF Listed
      <3>2. CASE j = Len(fl)
        <4>1. fl # <<>>
          BY <1>1, <3>2
        <4>2. EndOf(fl[j]) # hi
          BY <4>1, <3>2 DEF LastAtEnd
        <4> QED BY <4>2, <3>1, <1>1
      <3>3. CASE j # Len(fl)
        <4>1. j < Len(fl) /\ Len(fl) \in 1 .. Len(fl)
          BY <3>3, <1>1
        <4>2. EndOf(fl[j]) < fl[Len(fl)].at /\ fl[Len(fl)].at < EndOf(fl[Len(fl)]) /\ EndOf(fl[Len(fl)]) <= hi
              /\ fl[Len(fl)].at \in Nat /\ EndOf(fl[Len(fl)]) \in Nat
          BY <1>0, <4>1 DEF Listed
        <4> QED BY <4>2, <3>1, <1>1
      <3> QED BY <3>2, <3>3
    <2>2. 1 .. p = 1 .. Len(fl)
      BY DEF p
    <2>3. \A c \in Elems(bs) : c.at = hi
      BY <1>3, <1>5
    <2> QED BY <2>1, <2>2, <2>3, <1>4 DEF Between
  <1>9. HeapOK(Spliced(fl, p, q, bs), (hi + z) - hi, (U \ G) \cup A, lo)
    <2>1. (\A c \in A \cup Elems(bs) : Shaped(c)) /\ (\A c \in A : Serves(c)) /\ A \in SUBSET UsedCells /\ G \in SUBSET U
      BY <1>3, <1>5
    <2>2. Divides(SizeT, hi + more)
      BY <1>1, Words, DividesSum
    <2>3. (hi + z) - hi = hi + more
      BY <1>1
    <2>4. lo <= hi /\ hi <= hi /\ (z = hi \/ (hi = hi /\ z >= hi)) /\ Divides(SizeT, (hi + z) - hi)
      BY <1>1, <2>2, <2>3
    <2>5. bs \in Seq(FreeCells)
      BY <1>3 
    <2> HIDE DEF G, A, z, b
    <2> QED BY <1>4, <1>5, <1>6, <1>7, <1>8, <2>1, <2>4, <2>5, HeapSplice
  <1>10. (U \ G) \cup A = U /\ (hi + z) - hi = hi + more
    BY <1>1
  <1> QED BY <1>5, <1>9, <1>10

\* Lists of at most two blocks.
ListOf(s, E) == s \in Seq(FreeCells) /\ Elems(s) = E /\ InOrder(s)
\* The empty list,
LEMMA ListOfNone == ListOf(<<>>, {}) /\ <<>> \o <<>> = <<>>
  BY DEF ListOf, Elems, InOrder

\* the list of one block,
LEMMA ListOfOne ==
  ASSUME NEW b \in FreeCells
  PROVE  ListOf(<<b>>, {b}) /\ <<>> \o <<b>> = <<b>> /\ <<b>> \o <<>> = <<b>>
  <1> DEFINE s == <<b>>
  <1>1. DOMAIN s = {1} /\ s[1] = b /\ s \in Seq(FreeCells)
    OBVIOUS
  <1>2. <<>> \o s = s /\ s \o <<>> = s
    OBVIOUS
  <1> HIDE DEF s
  <1>3. ListOf(s, {b})
    BY <1>1 DEF ListOf, Elems, InOrder
  <1> QED BY <1>2, <1>3 DEF s

\* and of two.
LEMMA ListOfTwo ==
  ASSUME NEW b \in FreeCells, NEW c \in FreeCells, EndOf(b) < c.at
  PROVE  ListOf(<<b>> \o <<c>>, {b, c})
  <1> DEFINE s == <<b>> \o <<c>>
  <1>1. s \in Seq(FreeCells) /\ Len(s) = 2 /\ s[1] = b /\ s[2] = c
    OBVIOUS
  <1> HIDE DEF s
  <1>2. DOMAIN s = {1, 2}
    BY <1>1
  <1>3. Elems(s) = {b, c}
    BY <1>1, <1>2 DEF Elems
  <1>4. \A i, j \in {1, 2} : i < j => i = 1 /\ j = 2
    OBVIOUS
  <1>5. InOrder(s)
    BY <1>1, <1>2, <1>4 DEF InOrder
  <1> QED BY <1>1, <1>3, <1>5 DEF s, ListOf

\* What a call that gives out a block for (sz, a) leaves of the heap.
Grants(o, U, lo, sz, a) ==
    IF o.blk = NULL THEN HeapOK(o.fl, o.end, U, lo)
    ELSE HeapOK(o.fl, o.end, U \cup {Given(o.blk, sz, a)}, lo) /\ {Given(o.blk, sz, a)} \cap U = {}
\* A block of the size and at the place computed serves what was asked for.
LEMMA GrantedBlock ==
  ASSUME NEW pos \in Nat, NEW size \in Nat, NEW sz \in Nat, NEW a \in Nat \ {0}, size - SizeT >= sz, size >= Entry,
         Divides(SizeT, pos), Divides(a, pos + SizeT), NEW g, g = Given(Blk(pos, size), sz, a)
  PROVE  /\ g \in UsedCells /\ Shaped(g) /\ Serves(g) /\ g.at = pos /\ EndOf(g) = pos + size /\ Cell(g)
         /\ Blk(pos, size) # NULL
  <1>1. SizeT \in Nat \ {0} /\ size > 0
    BY Words
  <1>2. Blk(pos, size).at = pos /\ Blk(pos, size).size = size /\ NULL.at = -1
    BY DEF Blk, NULL
  <1>3. g = [at |-> pos, size |-> size, asked |-> sz, align |-> a]
    BY <1>2 DEF Given
  <1> QED BY <1>1, <1>2, <1>3 DEF UsedCells, Shaped, Serves, EndOf, Cell

\* From the i-th free block: before bytes stay in front, then size are given out.
Taking(fl, i, before, size, rest, sz, a) ==
    /\ i \in 1 .. Len(fl) /\ before \in Nat /\ size \in Nat /\ rest \in Nat /\ fl[i].size = (before + size) + rest
    /\ (before = 0 \/ before >= Entry) /\ Divides(SizeT, before)
    /\ (rest = 0 \/ (rest >= Entry /\ Divides(SizeT, size))) /\ size >= Entry
    /\ sz \in Nat /\ a \in Nat \ {0} /\ size - SizeT >= sz /\ Divides(a, (fl[i].at + before) + SizeT)
\* The heap is then as it should be, with the block given out.
LEMMA TakePart ==
  ASSUME NEW fl, NEW hi, NEW U, NEW lo, HeapOK(fl, hi, U, lo), NEW i, NEW before, NEW size, NEW rest, NEW sz, NEW a,
         Taking(fl, i, before, size, rest, sz, a),
         NEW front, front = IF before = 0 THEN <<>> ELSE <<Blk(fl[i].at, before)>>,
         NEW back, back = IF rest = 0 THEN <<>> ELSE <<Blk((fl[i].at + before) + size, rest)>>
  PROVE  Grants(Outcome(Replaced(fl, i, front \o back), hi, Blk(fl[i].at + before, size)), U, lo, sz, a)
  <1> DEFINE pos == fl[i].at
             g == Given(Blk(pos + before, size), sz, a)
             f == Blk(pos, before)
             r == Blk((pos + before) + size, rest)
             bs == front \o back
             A == {g}
             y == EndOf(fl[i])
  <1>0. Listed(fl, hi, U, lo)
    BY ListFacts
  <1>a. front = (IF before = 0 THEN <<>> ELSE <<f>>) /\ back = (IF rest = 0 THEN <<>> ELSE <<r>>)
    OBVIOUS
  <1>b. before \in Nat /\ size \in Nat /\ rest \in Nat /\ fl[i].size = (before + size) + rest /\ size >= Entry
        /\ (before = 0 \/ before >= Entry) /\ (rest = 0 \/ (rest >= Entry /\ Divides(SizeT, size)))
        /\ sz \in Nat /\ a \in Nat \ {0} /\ size - SizeT >= sz /\ Divides(SizeT, before) /\ Divides(a, (pos + before) + SizeT)
        /\ i \in 1 .. Len(fl)
    BY DEF Taking
  <1>1. pos \in Nat /\ y = pos + fl[i].size /\ Divides(SizeT, pos) /\ Divides(SizeT, hi) /\ hi \in Nat /\ y \in Nat
    BY <1>0, <1>b DEF Listed, Shaped
  <1> HIDE DEF pos, y, f, r, g
  <1>2. pos + before \in Nat /\ Divides(SizeT, pos + before) /\ size > 0 /\ SizeT \in Nat \ {0} /\ Entry \in Nat /\ Entry > 0
    <2>1. SizeT \in Nat \ {0} /\ Entry \in Nat /\ Entry > 0
      BY Words
    <2>a. pos \in Nat /\ before \in Nat /\ Divides(SizeT, pos) /\ Divides(SizeT, before)
      BY <1>1, <1>b
    <2>2. Divides(SizeT, pos + before)
      BY <2>a, <2>1, DividesSum
    <2>3. pos + before \in Nat
      BY <2>a
    <2>4. size > 0
      BY <1>b, <2>1
    <2> QED BY <2>1, <2>2, <2>3, <2>4
  <1>3. /\ g \in UsedCells /\ Shaped(g) /\ Serves(g) /\ g.at = pos + before /\ EndOf(g) = (pos + before) + size /\ Cell(g)
        /\ Blk(pos + before, size) # NULL
    BY ONLY <1>b, <1>1, <1>2, GrantedBlock DEF g
  <1>4. ASSUME before # 0
        PROVE  f \in FreeCells /\ Shaped(f) /\ f.at = pos /\ EndOf(f) = pos + before /\ Cell(f)
    BY ONLY <1>4, <1>1, <1>2, <1>b DEF FreeCells, Shaped, Blk, EndOf, Cell, f
  <1>5. ASSUME rest # 0
        PROVE  r \in FreeCells /\ Shaped(r) /\ r.at = (pos + before) + size /\ EndOf(r) = y /\ Cell(r)
    <2>a. size \in Nat /\ Divides(SizeT, size)
      BY <1>5, <1>b
    <2>1. Divides(SizeT, (pos + before) + size)
      BY <1>2, <2>a, DividesSum
    <2>2. (pos + before) + size \in Nat /\ ((pos + before) + size) + rest = y
      BY ONLY <1>1, <1>2, <1>b
    <2>3. rest >= Entry /\ rest > 0
      BY ONLY <1>2, <1>5, <1>b
    <2> QED BY ONLY <1>b, <2>1, <2>2, <2>3 DEF FreeCells, Shaped, Blk, EndOf, Cell, r
  <1>6. /\ bs \in Seq(FreeCells) /\ InOrder(bs) /\ Tiling(A \cup Elems(bs), pos, y)
        /\ \A b \in A \cup Elems(bs) : Shaped(b)
    <2>e. bs = front \o back
      OBVIOUS
    <2> HIDE DEF bs
    <2>1. CASE before = 0 /\ rest = 0
      <3>1. ListOf(bs, {})
        BY ONLY <1>a, <2>1, <2>e, ListOfNone
      <3>2. A \cup Elems(bs) = {g} /\ bs \in Seq(FreeCells) /\ InOrder(bs)
        BY ONLY <3>1 DEF ListOf, A
      <3>3. g.at = pos /\ EndOf(g) = y
        BY ONLY <2>1, <1>1, <1>3, <1>b
      <3>4. Tiling({g}, g.at, EndOf(g))
        BY <1>3, RowOne
      <3> QED BY <3>2, <3>3, <3>4, <1>3
    <2>2. CASE before = 0 /\ rest # 0
      <3>1. ListOf(bs, {r})
        BY ONLY <1>a, <2>2, <2>e, <1>5, ListOfOne
      <3>2. A \cup Elems(bs) = {g, r} /\ bs \in Seq(FreeCells) /\ InOrder(bs)
        BY ONLY <3>1 DEF ListOf, A
      <3>3. g.at = pos /\ EndOf(g) = r.at
        BY ONLY <2>2, <1>1, <1>3, <1>5, <1>b
      <3>4. Tiling({g, r}, g.at, EndOf(r))
        BY <2>2, <3>3, <1>3, <1>5, RowTwo
      <3> QED BY <2>2, <3>2, <3>3, <3>4, <1>3, <1>5
    <2>3. CASE before # 0 /\ rest = 0
      <3>1. ListOf(bs, {f})
        BY ONLY <1>a, <2>3, <2>e, <1>4, ListOfOne
      <3>2. A \cup Elems(bs) = {f, g} /\ bs \in Seq(FreeCells) /\ InOrder(bs)
        BY ONLY <3>1 DEF ListOf, A
      <3>3. EndOf(f) = g.at /\ EndOf(g) = y
        BY ONLY <2>3, <1>1, <1>3, <1>4, <1>b
      <3>4. Tiling({f, g}, f.at, EndOf(g))
        BY <2>3, <3>3, <1>3, <1>4, RowTwo
      <3> QED BY <2>3, <3>2, <3>3, <3>4, <1>3, <1>4
    <2>4. CASE before # 0 /\ rest # 0
      <3>0. EndOf(f) < r.at
        <4>1. EndOf(f) = pos + before /\ r.at = (pos + before) + size
          BY <2>4, <1>4, <1>5
        <4> QED BY <4>1, <1>2, <1>b
      <3>1. ListOf(bs, {f, r})
        BY ONLY <3>0, <1>a, <2>4, <2>e, <1>4, <1>5, ListOfTwo
      <3>2. A \cup Elems(bs) = {f, g, r} /\ bs \in Seq(FreeCells) /\ InOrder(bs)
        BY ONLY <3>1 DEF ListOf, A
      <3>3. EndOf(f) = g.at /\ EndOf(g) = r.at
        BY ONLY <2>4, <1>1, <1>3, <1>4, <1>5, <1>b
      <3>4. Tiling({f, g, r}, f.at, EndOf(r))
        BY <2>4, <3>3, <1>3, <1>4, <1>5, RowThree
      <3> QED BY <2>4, <3>2, <3>3, <3>4, <1>3, <1>4, <1>5
    <2> QED BY <2>1, <2>2, <2>3, <2>4
  <1>7. HeapOK(Replaced(fl, i, bs), hi, U \cup A, lo) /\ A \cap U = {}
    <2>1. A \in SUBSET UsedCells /\ (\A b \in A : Serves(b)) /\ y = EndOf(fl[i]) /\ pos = fl[i].at
      BY <1>3 DEF y, pos
    <2>2. hi = (hi + y) - y
      BY ONLY <1>1
    <2> HIDE DEF bs, A
    <2>3. Tiling(A \cup Elems(bs), fl[i].at, y) /\ (y = EndOf(fl[i]) \/ (EndOf(fl[i]) = hi /\ y >= hi)) /\ hi = (hi + y) - EndOf(fl[i])
      BY ONLY <1>6, <2>1, <2>2
    <2>4. Divides(SizeT, hi) /\ bs \in Seq(FreeCells) /\ InOrder(bs) /\ \A b \in A \cup Elems(bs) : Shaped(b)
      BY ONLY <1>1, <1>6
    <2>5. Replacing(fl, hi, i, bs, A, y, hi)
      BY ONLY <2>1, <2>3, <2>4 DEF Replacing
    <2> QED BY <1>b, <2>5, ReplaceOne
  <1> DEFINE o == Outcome(Replaced(fl, i, bs), hi, Blk(pos + before, size))
  <1>8. o.fl = Replaced(fl, i, bs) /\ o.end = hi /\ o.blk = Blk(pos + before, size)
    BY DEF Outcome
  <1> HIDE DEF o, bs
  <1>9. Grants(o, U, lo, sz, a)
    BY <1>3, <1>7, <1>8 DEF Grants, g, A
  <1> QED BY <1>9 DEF o, bs, pos

\* The last block, which ends the heap, is enlarged and given out.
LEMMA Enlarged ==
  ASSUME NEW fl, NEW hi, NEW U, NEW lo, HeapOK(fl, hi, U, lo), LastAtEnd(fl, hi),
         NEW k, k = Len(fl), NEW real \in Nat, real > fl[k].size, Divides(SizeT, real)
  PROVE  /\ k \in 1 .. Len(fl) /\ EndOf(fl[k]) = hi /\ fl[k].at \in Nat
         /\ Divides(SizeT, fl[k].at) /\ Divides(SizeT, fl[k].at + real) /\ fl[k].at + real > hi /\ fl[k].at + real \in Nat
         /\ fl[k].at + real = (hi + (fl[k].at + real)) - EndOf(fl[k])
  <1>0. Listed(fl, hi, U, lo)
    BY ListFacts
  <1>1. fl \in Seq(FreeCells) /\ Len(fl) \in Nat /\ fl # <<>> /\ EndOf(fl[k]) = hi
    BY <1>0 DEF Listed, LastAtEnd
  <1>2. k \in 1 .. Len(fl)
    BY <1>1
  <1>3. fl[k].at \in Nat /\ fl[k].size \in Nat /\ EndOf(fl[k]) = fl[k].at + fl[k].size /\ Divides(SizeT, fl[k].at) /\ hi \in Nat
    BY <1>0, <1>2 DEF Listed, Shaped
  <1>5. PICK pos \in Nat : pos = fl[k].at
    BY <1>3
  <1>4. Divides(SizeT, fl[k].at + real)
    BY <1>3, <1>5, WordsAdd
  <1>6. pos + real > hi /\ pos + real \in Nat /\ pos + real = (hi + (pos + real)) - hi
    <2>1. real \in Nat /\ hi \in Nat /\ hi = pos + fl[k].size /\ real > fl[k].size /\ fl[k].size \in Nat
      BY <1>1, <1>3, <1>5
    <2>2. pos + real \in Nat /\ pos + real > hi
      BY <2>1
    <2> QED BY <2>1, <2>2
  <1> QED BY <1>1, <1>2, <1>3, <1>4, <1>5, <1>6

\* malloc gives out a block of the list, the enlarged last one or a new one.
LEMMA MallocGrants ==
  ASSUME NEW lo, HeapOK(freelist, malloc_end, used, lo), NEW sz \in Nat, NEW limit \in Int
  PROVE  Grants(malloc(sz, limit), used, lo, sz, SizeT)
  <1> DEFINE fl == freelist
             hi == malloc_end
             U == used
             real == REAL_SIZE(sz)
             fits(b) == b.size >= real
             k == Len(freelist)
             i == First(fl, fits)
             o == malloc(sz, limit)
  <1>0. Listed(fl, hi, U, lo) /\ HeapOK(fl, hi, U, lo)
    BY ListFacts
  <1>1. real \in Nat /\ real >= Entry /\ real - SizeT >= sz /\ Divides(SizeT, real)
    BY RealSize
  <1>2. SizeT \in Nat \ {0} /\ Entry \in Nat /\ Entry > 0 /\ Divides(SizeT, SizeT)
    BY Words
  <1>3. /\ fl \in Seq(FreeCells) /\ Len(fl) \in Nat /\ DOMAIN fl = 1 .. Len(fl)
        /\ \A j \in 1 .. Len(fl) : /\ fl[j] \in FreeCells /\ fl[j].at \in Nat /\ fl[j].size \in Nat
                                   /\ Divides(SizeT, fl[j].at)
        /\ hi \in Nat /\ Divides(SizeT, hi)
    BY <1>0 DEF Listed, Shaped
  <1>4. CASE \E j \in DOMAIN fl : fits(fl[j])
    <2>1. i \in 1 .. Len(fl) /\ fl[i].size >= real
      <3>1. \E j \in DOMAIN fl : fits(fl[j]) /\ \A l \in 1 .. j - 1 : ~fits(fl[l])
        <4> DEFINE T == {j \in 1 .. Len(fl) : fits(fl[j])}
        <4>1. T \subseteq 0 .. Len(fl) /\ T # {}
          BY <1>3, <1>4
        <4>2. PICK j \in T : \A l \in T : j <= l
          <5> HIDE DEF T
          <5> QED BY <4>1, <1>3, LeastNat
        <4>3. \A l \in 1 .. j - 1 : l \in 1 .. Len(fl) /\ ~(j <= l)
          BY <1>3, <4>1
        <4> QED BY <1>3, <4>2, <4>3
      <3>2. i \in DOMAIN fl /\ fits(fl[i])
        BY <3>1 DEF First
      <3> QED BY <3>2, <1>3
    <2>2. o = Outcome(Split(fl, i, real).fl, hi, Split(fl, i, real).blk)
      BY <1>4 DEF malloc
    <2> HIDE DEF i, fits, o, fl, hi, U, real
    <2>3. PICK f \in FreeCells : f = fl[i]
      BY <1>3, <2>1
    <2>4. f.at \in Nat /\ f.size \in Nat /\ f.size >= real /\ Divides(SizeT, f.at) /\ f = Blk(f.at, f.size) /\ f.at + 0 = f.at
      BY <2>1, <2>3, <1>3 DEF FreeCells, Blk
    <2>5. Divides(SizeT, 0) /\ Divides(SizeT, (f.at + 0) + SizeT)
      <3>1. 0 = 0 * SizeT
        BY <1>2
      <3>2. Divides(SizeT, f.at + SizeT)
        <4>1. PICK pos \in Nat : pos = f.at /\ Divides(SizeT, pos)
          BY <2>4
        <4> QED BY <4>1, <1>2, WordsAdd
      <3> QED BY <3>1, <3>2, <2>4 DEF Divides
    <2>6. CASE f.size < real + Entry
      <3>1. o = Outcome(Replaced(fl, i, <<>> \o <<>>), hi, Blk(f.at + 0, f.size))
        BY <2>2, <2>3, <2>4, <2>6, ListOfNone DEF Split
      <3>2. f.size - SizeT >= sz /\ f.size >= Entry /\ f.size = (0 + f.size) + 0
        BY <2>4, <1>1, <1>2
      <3>3. Taking(fl, i, 0, f.size, 0, sz, SizeT)
        BY <3>2, <2>1, <2>3, <2>4, <2>5, <1>2 DEF Taking
      <3>4. Grants(Outcome(Replaced(fl, i, <<>> \o <<>>), hi, Blk(fl[i].at + 0, f.size)), U, lo, sz, SizeT)
        BY <3>3, <1>0, TakePart
      <3> QED BY <3>1, <3>4, <2>3 DEF U, o
    <2>7. CASE ~(f.size < real + Entry)
      <3> DEFINE rest == f.size - real
                 b == Blk((f.at + 0) + real, rest)
      <3>1. rest \in Nat /\ rest >= Entry /\ rest # 0 /\ f.size = (0 + real) + rest /\ b = Blk(f.at + real, f.size - real)
        BY <2>4, <2>7, <1>1, <1>2
      <3>2. b \in FreeCells
        BY <3>1, <2>4, <1>1, <1>2 DEF FreeCells, Blk
      <3>3. Split(fl, i, real).fl = Replaced(fl, i, <<b>>) /\ Split(fl, i, real).blk = Blk(f.at + 0, real)
        BY <2>3, <2>4, <2>7, <3>1 DEF Split
      <3>4. o = Outcome(Replaced(fl, i, <<>> \o <<b>>), hi, Blk(f.at + 0, real))
        BY <2>2, <3>2, <3>3, ListOfOne
      <3> HIDE DEF rest
      <3>5. Taking(fl, i, 0, real, rest, sz, SizeT)
        BY <3>1, <2>1, <2>3, <2>4, <2>5, <1>1, <1>2 DEF Taking
      <3>6. <<b>> = IF rest = 0 THEN <<>> ELSE <<Blk((fl[i].at + 0) + real, rest)>>
        BY <3>1, <2>3
      <3> HIDE DEF b
      <3>7. Grants(Outcome(Replaced(fl, i, <<>> \o <<b>>), hi, Blk(fl[i].at + 0, real)), U, lo, sz, SizeT)
        BY <3>5, <3>6, <1>0, TakePart
      <3> QED BY <3>4, <3>7, <2>3 DEF U, o
    <2> QED BY <2>6, <2>7
  <1>5. CASE ~(\E j \in DOMAIN fl : fits(fl[j])) /\ LastAtEnd(fl, hi)
    <2>1. fl # <<>> /\ k \in 1 .. Len(fl)
      BY <1>3, <1>5 DEF LastAtEnd
    <2>2. real > fl[k].size
      BY <1>1, <1>3, <1>5, <2>1
    <2>3. CASE ~CAN_ALLOC_P(real - fl[k].size, limit)
      BY <1>0, <1>5, <2>3 DEF malloc, Fails, Grants, Outcome
    <2>4. CASE CAN_ALLOC_P(real - fl[k].size, limit)
      <3> DEFINE pos == fl[k].at
                 z == pos + real
                 g == Given(Blk(pos, real), sz, SizeT)
      <3>1. o = Outcome(SubSeq(fl, 1, k - 1), z, Blk(pos, real))
        BY <1>5, <2>4 DEF malloc
      <3> HIDE DEF o, fits, i
      <3>2. /\ k \in 1 .. Len(fl) /\ EndOf(fl[k]) = hi /\ pos \in Nat
            /\ Divides(SizeT, pos) /\ Divides(SizeT, z) /\ z > hi /\ z \in Nat /\ z = (hi + z) - EndOf(fl[k])
        BY <1>0, <1>1, <1>5, <2>2, Enlarged
      <3> HIDE DEF pos
      <3>3. Divides(SizeT, pos + SizeT)
        BY <3>2, <1>2, WordsAdd
      <3>4. /\ g \in UsedCells /\ Shaped(g) /\ Serves(g) /\ g.at = pos /\ EndOf(g) = z /\ Cell(g)
            /\ Blk(pos, real) # NULL
        BY <1>1, <1>2, <3>2, <3>3, GrantedBlock
      <3>5. SubSeq(fl, 1, k - 1) = Replaced(fl, k, <<>>)
        <4>1. SubSeq(fl, k + 1, Len(fl)) = <<>> /\ SubSeq(fl, 1, k - 1) \in Seq(FreeCells)
          BY <1>3, <2>1, SubSeqEmpty
        <4>2. SubSeq(fl, 1, k - 1) \o <<>> = SubSeq(fl, 1, k - 1)
          BY <4>1, ConcatEmptySeq
        <4> QED BY <4>1, <4>2 DEF Replaced
      <3> HIDE DEF g, z
      <3>6. Replacing(fl, hi, k, <<>>, {g}, z, z)
        <4>1. {g} \cup Elems(<<>>) = {g} /\ <<>> \in Seq(FreeCells) /\ InOrder(<<>>)
          BY ListOfNone DEF ListOf
        <4>2. Tiling({g}, pos, z)
          BY <3>4, RowOne
        <4>3. EndOf(fl[k]) = hi /\ z >= hi
          BY <3>2, <1>3
        <4> QED BY <4>1, <4>2, <4>3, <3>2, <3>4 DEF Replacing, pos
      <3>7. HeapOK(SubSeq(fl, 1, k - 1), z, U \cup {g}, lo) /\ {g} \cap U = {}
        <4> HIDE DEF fl, hi, U, k
        <4>1. HeapOK(Replaced(fl, k, <<>>), z, U \cup {g}, lo) /\ {g} \cap U = {}
          BY ONLY <1>0, <2>1, <3>6, ReplaceOne
        <4> QED BY <4>1, <3>5
      <3> QED BY <3>1, <3>4, <3>7 DEF Grants, Outcome, o, g
    <2> QED BY <2>3, <2>4
  <1>6. CASE ~(\E j \in DOMAIN fl : fits(fl[j])) /\ ~LastAtEnd(fl, hi)
    <2>1. CASE ~CAN_ALLOC_P(real, limit)
      BY <1>0, <1>6, <2>1 DEF malloc, Fails, Grants, Outcome
    <2>2. CASE CAN_ALLOC_P(real, limit)
      <3> DEFINE g == Given(Blk(hi, real), sz, SizeT)
      <3>1. o = Outcome(fl, hi + real, Blk(hi, real))
        BY <1>6, <2>2 DEF malloc
      <3>2. Divides(SizeT, hi + SizeT) /\ Divides(SizeT, hi + real)
        BY <1>1, <1>2, <1>3, WordsAdd
      <3>3. /\ g \in UsedCells /\ Shaped(g) /\ Serves(g) /\ g.at = hi /\ EndOf(g) = hi + real /\ Cell(g)
            /\ Blk(hi, real) # NULL
        BY <1>1, <1>2, <1>3, <3>2, GrantedBlock
      <3> HIDE DEF g, o
      <3>4. HeapOK(fl, hi + real, U \cup {g}, lo) /\ {g} \cap U = {}
        BY <1>0, <3>2, <3>3, GrowUsed
      <3> QED BY <3>1, <3>3, <3>4 DEF Grants, Outcome, o, g
    <2> QED BY <2>1, <2>2
  <1> QED BY <1>4, <1>5, <1>6

\* memalign takes its block behind what it must leave in front.
LEMMA AlignedGrants ==
  ASSUME NEW fl, NEW hi, NEW U, NEW lo, HeapOK(fl, hi, U, lo), NEW i \in 1 .. Len(fl),
         NEW sz \in Nat, NEW a \in Aligns, NEW real, real = REAL_SIZE(sz), fl[i].size >= real + BeforeSize(fl[i].at, a)
  PROVE  Grants(TakeAligned(fl, hi, i, real, a), U, lo, sz, a)
  <1> DEFINE o == TakeAligned(fl, hi, i, real, a)
  <1>0. Listed(fl, hi, U, lo)
    BY ListFacts
  <1>1. real \in Nat /\ real >= Entry /\ real - SizeT >= sz /\ Divides(SizeT, real)
    BY RealSize
  <1>2. SizeT \in Nat \ {0} /\ Entry \in Nat /\ Entry > 0 /\ a \in Nat \ {0}
    BY Words, MallocAssumption
  <1>3. PICK pos \in Nat : pos = fl[i].at /\ Divides(SizeT, pos)
    BY <1>0 DEF Listed, Shaped
  <1>4. PICK old \in Nat : old = fl[i].size
    BY <1>0 DEF Listed
  <1>5. /\ BeforeSize(pos, a) \in Nat /\ Divides(SizeT, BeforeSize(pos, a))
        /\ BeforeSize(pos, a) = 0 \/ BeforeSize(pos, a) >= Entry
        /\ Divides(a, (pos + BeforeSize(pos, a)) + SizeT)
    BY <1>3, Before
  <1>6. PICK before \in Nat : /\ before = BeforeSize(pos, a) /\ Divides(SizeT, before) /\ (before = 0 \/ before >= Entry)
                              /\ Divides(a, (pos + before) + SizeT)
    BY <1>5
  <1>7. old >= real + before
    BY <1>3, <1>4, <1>6
  <1> DEFINE front == IF before = 0 THEN <<>> ELSE <<Blk(pos, before)>>
             rest == old - before - real
  <1>8. rest \in Nat /\ old = (before + real) + rest
    BY <1>1, <1>7
  <1>9. CASE rest <= Entry
    <2>1. o = Outcome(Replaced(fl, i, front), hi, Blk(pos + before, old - before))
      BY <1>3, <1>4, <1>6, <1>9 DEF TakeAligned
    <2>2. front \o <<>> = front
      <3>1. CASE before = 0
        BY <3>1, ListOfNone
      <3>2. CASE before # 0
        <4>1. <<Blk(pos, before)>> \in Seq({Blk(pos, before)})
          OBVIOUS
        <4>2. <<Blk(pos, before)>> \o <<>> = <<Blk(pos, before)>>
          BY <4>1, ConcatEmptySeq
        <4> QED BY <3>2, <4>2
      <3> QED BY <3>1, <3>2
    <2>3. Taking(fl, i, before, old - before, 0, sz, a)
      <3>1. old - before \in Nat /\ old - before >= Entry /\ (old - before) - SizeT >= sz /\ old = (before + (old - before)) + 0
        BY <1>1, <1>2, <1>7
      <3> HIDE DEF front, rest
      <3> QED BY <3>1, <1>2, <1>3, <1>4, <1>6 DEF Taking
    <2>4. Grants(Outcome(Replaced(fl, i, front \o <<>>), hi, Blk(fl[i].at + before, old - before)), U, lo, sz, a)
      <3>1. front = IF before = 0 THEN <<>> ELSE <<Blk(fl[i].at, before)>>
        BY <1>3
      <3> HIDE DEF front
      <3> QED BY <2>3, <3>1, TakePart
    <2> QED BY <2>1, <2>2, <2>4, <1>3
  <1>10. CASE ~(rest <= Entry)
    <2> DEFINE b == Blk((pos + before) + real, rest)
    <2>1. rest > Entry /\ rest # 0
      BY <1>2, <1>8, <1>10
    <2>2. o = Outcome(Replaced(fl, i, front \o <<b>>), hi, Blk(pos + before, real))
      BY <1>3, <1>4, <1>6, <1>10 DEF TakeAligned
    <2> HIDE DEF rest, b, front
    <2>3. Taking(fl, i, before, real, rest, sz, a)
      BY <2>1, <1>1, <1>2, <1>3, <1>4, <1>6, <1>8 DEF Taking
    <2>4. front = (IF before = 0 THEN <<>> ELSE <<Blk(fl[i].at, before)>>)
          /\ <<b>> = IF rest = 0 THEN <<>> ELSE <<Blk((fl[i].at + before) + real, rest)>>
      BY <1>3, <2>1 DEF b, front
    <2>5. Grants(Outcome(Replaced(fl, i, front \o <<b>>), hi, Blk(fl[i].at + before, real)), U, lo, sz, a)
      BY <2>3, <2>4, TakePart
    <2> QED BY <2>2, <2>5, <1>3
  <1> QED BY <1>9, <1>10

\* At the last block, enlarged if need be.
LEMMA LastGrants ==
  ASSUME NEW fl, NEW hi, NEW U, NEW lo, HeapOK(fl, hi, U, lo), LastAtEnd(fl, hi),
         NEW sz \in Nat, NEW a \in Aligns, NEW real, real = REAL_SIZE(sz), NEW limit \in Int
  PROVE  Grants(AtLast(fl, hi, real, a, limit), U, lo, sz, a)
  <1> DEFINE k == Len(fl)
             need == BeforeSize(fl[k].at, a) + real
             b == Blk(fl[k].at, need)
             fl2 == Replaced(fl, k, <<b>>)
             z == fl[k].at + need
             o == AtLast(fl, hi, real, a, limit)
  <1>0. Listed(fl, hi, U, lo)
    BY ListFacts
  <1>1. real \in Nat /\ real >= Entry /\ Divides(SizeT, real)
    BY RealSize
  <1>2. SizeT \in Nat \ {0} /\ Entry \in Nat /\ Entry > 0
    BY Words
  <1>3. fl \in Seq(FreeCells) /\ Len(fl) \in Nat /\ k \in 1 .. Len(fl)
    <2>1. fl \in Seq(FreeCells) /\ Len(fl) \in Nat
      BY <1>0 DEF Listed
    <2>2. fl # <<>>
      BY DEF LastAtEnd
    <2> QED BY <2>1, <2>2
  <1>4. fl[k].at \in Nat /\ fl[k].size \in Nat /\ Divides(SizeT, fl[k].at)
    BY <1>0, <1>3 DEF Listed, Shaped
  <1>5. need \in Nat /\ need >= Entry /\ Divides(SizeT, need)
    <2>1. PICK before \in Nat : before = BeforeSize(fl[k].at, a) /\ Divides(SizeT, before)
      BY <1>4, Before
    <2>2. before + real \in Nat /\ before + real >= Entry /\ Divides(SizeT, before + real)
      <3>1. before + real \in Nat /\ Divides(SizeT, before + real)
        BY <1>1, <2>1, WordsAdd
      <3>2. before + real >= Entry
        BY <1>1, <1>2, <2>1
      <3> QED BY <3>1, <3>2
    <2> QED BY <2>1, <2>2
  <1>6. CASE fl[k].size >= need
    <2>1. o = TakeAligned(fl, hi, k, real, a)
      BY <1>6 DEF AtLast
    <2>2. fl[k].size >= real + BeforeSize(fl[k].at, a)
      <3>1. PICK before \in Nat : before = BeforeSize(fl[k].at, a)
        BY <1>4, Before
      <3> QED BY <1>1, <1>6, <3>1
    <2> HIDE DEF o, k
    <2>3. Grants(TakeAligned(fl, hi, k, real, a), U, lo, sz, a)
      BY <1>3, <2>2, AlignedGrants
    <2> QED BY <2>1, <2>3 DEF o
  <1>7. CASE ~(fl[k].size >= need) /\ limit - hi < need - fl[k].size
    <2>1. o = Outcome(fl, hi, NULL)
      BY <1>7 DEF AtLast
    <2> QED BY <2>1 DEF Grants, Outcome
  <1>8. CASE ~(fl[k].size >= need) /\ ~(limit - hi < need - fl[k].size)
    <2>1. o = TakeAligned(fl2, z, k, real, a)
      BY <1>8 DEF AtLast
    <2> HIDE DEF o
    <2>2. need > fl[k].size
      BY <1>4, <1>5, <1>8
    <2>3. /\ EndOf(fl[k]) = hi /\ Divides(SizeT, z) /\ z > hi /\ z \in Nat /\ z = (hi + z) - EndOf(fl[k])
      <3> HIDE DEF need
      <3> QED BY <2>2, <1>5, Enlarged
    <2>4. b \in FreeCells /\ Cell(b) /\ Shaped(b) /\ b.at = fl[k].at /\ EndOf(b) = z
      <3> HIDE DEF need, k
      <3>1. need > 0
        BY <1>2, <1>5
      <3> QED BY <3>1, <1>4, <1>5 DEF Blk, FreeCells, Cell, Shaped, EndOf
    <2> HIDE DEF b, z, k, need, fl2
    <2>5. Replacing(fl, hi, k, <<b>>, {}, z, z)
      <3>1. <<b>> \in Seq(FreeCells) /\ InOrder(<<b>>) /\ Elems(<<b>>) = {b} /\ {} \cup Elems(<<b>>) = {b}
        BY <2>4, ListOfOne DEF ListOf
      <3>2. Tiling({b}, b.at, EndOf(b))
        BY <2>4, RowOne
      <3>3. z >= hi
        BY <2>3, <1>0 DEF Listed
      <3> QED BY <2>3, <2>4, <3>1, <3>2, <3>3 DEF Replacing
    <2>6. HeapOK(fl2, z, U, lo)
      <3>1. HeapOK(Replaced(fl, k, <<b>>), z, U \cup {}, lo)
        BY <1>3, <2>5, ReplaceOne
      <3> QED BY <3>1 DEF fl2
    <2>7. k \in 1 .. Len(fl2) /\ fl2[k] = b
      <3> DEFINE p == k - 1
                 q == k + 1
                 bs == <<b>>
      <3>1. p \in 0 .. Len(fl) /\ q \in p + 1 .. Len(fl) + 1 /\ k \in Nat /\ p \in Nat /\ k = Len(fl) /\ k >= 1
        BY <1>3 DEF k
      <3>2. bs \in Seq(FreeCells) /\ Len(bs) = 1 /\ bs[1] = b
        BY <2>4
      <3>3. fl2 = Spliced(fl, p, q, bs)
        BY DEF fl2, Replaced, Spliced
      <3> HIDE DEF bs, p, q
      <3>4. Indexed(fl2, fl, p, q, bs)
        BY <1>3, <3>1, <3>2, <3>3, SpliceIndex
      <3>5. Len(fl2) = p + 1 + ((k - q) + 1) /\ fl2[p + 1] = b
        BY <3>1, <3>2, <3>4 DEF Indexed
      <3>6. p + 1 = k /\ p + 1 + ((k - q) + 1) = k
        BY <3>1 DEF p, q
      <3> QED BY <3>1, <3>5, <3>6
    <2>8. fl2[k].size >= real + BeforeSize(fl2[k].at, a)
      <3>1. PICK before \in Nat : before = BeforeSize(fl[k].at, a)
        BY <1>4, Before
      <3>2. b.size = before + real /\ b.at = fl[k].at
        BY <3>1, <2>4 DEF b, Blk, need
      <3> QED BY <1>1, <2>7, <3>1, <3>2
    <2>9. Grants(TakeAligned(fl2, z, k, real, a), U, lo, sz, a)
      BY <2>6, <2>7, <2>8, AlignedGrants
    <2> QED BY <2>1, <2>9 DEF o
  <1> QED BY <1>6, <1>7, <1>8

\* memalign, from the list, the last block or a new one.
LEMMA MemalignGrants ==
  ASSUME NEW lo, HeapOK(freelist, malloc_end, used, lo), NEW sz \in Nat, NEW a \in Aligns, NEW limit \in Int
  PROVE  Grants(memalign(a, sz, limit), used, lo, sz, a)
  <1> DEFINE fl == freelist
             hi == malloc_end
             U == used
             real == REAL_SIZE(sz)
             fits(b) == b.size >= real + BeforeSize(b.at, a)
             more == real + M_ALIGN(hi + SizeT, a)
             i == First(fl, fits)
             o == memalign(a, sz, limit)
  <1>0. Listed(fl, hi, U, lo) /\ HeapOK(fl, hi, U, lo)
    BY ListFacts
  <1>1. real \in Nat /\ real >= Entry /\ Divides(SizeT, real)
    BY RealSize
  <1>2. SizeT \in Nat \ {0} /\ Entry \in Nat /\ Entry > 0
    BY Words
  <1>3. fl \in Seq(FreeCells) /\ Len(fl) \in Nat /\ DOMAIN fl = 1 .. Len(fl) /\ hi \in Nat /\ Divides(SizeT, hi)
    BY <1>0 DEF Listed
  <1>4. CASE \E j \in DOMAIN fl : fits(fl[j])
    <2>1. i \in 1 .. Len(fl) /\ fits(fl[i])
      <3>1. \E j \in DOMAIN fl : fits(fl[j]) /\ \A l \in 1 .. j - 1 : ~fits(fl[l])
        <4> DEFINE T == {j \in 1 .. Len(fl) : fits(fl[j])}
        <4>1. T \subseteq 0 .. Len(fl) /\ T # {}
          BY <1>3, <1>4
        <4>2. PICK j \in T : \A l \in T : j <= l
          <5> HIDE DEF T
          <5> QED BY <4>1, <1>3, LeastNat
        <4>3. \A l \in 1 .. j - 1 : l \in 1 .. Len(fl) /\ ~(j <= l)
          BY <1>3, <4>1
        <4> QED BY <1>3, <4>2, <4>3
      <3>2. i \in DOMAIN fl /\ fits(fl[i])
        BY <3>1 DEF First
      <3> QED BY <3>2, <1>3
    <2>2. o = TakeAligned(fl, hi, i, real, a)
      BY <1>4 DEF memalign
    <2>3. fl[i].size >= real + BeforeSize(fl[i].at, a)
      BY <2>1
    <2> HIDE DEF i, fits, o, fl, hi, U
    <2>4. Grants(TakeAligned(fl, hi, i, real, a), U, lo, sz, a)
      BY <2>1, <2>3, <1>0, AlignedGrants
    <2> QED BY <2>2, <2>4 DEF o, U
  <1>5. CASE ~(\E j \in DOMAIN fl : fits(fl[j])) /\ LastAtEnd(fl, hi)
    <2>1. o = AtLast(fl, hi, real, a, limit)
      BY <1>5 DEF memalign
    <2>2. LastAtEnd(fl, hi)
      BY <1>5
    <2> HIDE DEF o, fl, hi, U, fits
    <2>3. Grants(AtLast(fl, hi, real, a, limit), U, lo, sz, a)
      BY <2>2, <1>0, LastGrants
    <2> QED BY <2>1, <2>3 DEF o, U
  <1>6. CASE ~(\E j \in DOMAIN fl : fits(fl[j])) /\ ~LastAtEnd(fl, hi)
    <2>1. CASE ~CAN_ALLOC_P(more, limit)
      BY <1>0, <1>6, <2>1 DEF memalign, Fails, Grants, Outcome
    <2>2. CASE CAN_ALLOC_P(more, limit)
      <3> DEFINE b == Blk(hi, more)
                 fl2 == Append(fl, b)
      <3>1. o = AtLast(fl2, hi + more, real, a, limit)
        BY <1>6, <2>2 DEF memalign
      <3>2. ~LastAtEnd(fl, hi)
        BY <1>6
      <3>3. more \in Nat /\ more >= Entry /\ Divides(SizeT, more)
        <4>1. PICK m \in Nat : m = M_ALIGN(hi + SizeT, a) /\ Divides(SizeT, m)
          BY <1>3, Before
        <4>2. real + m \in Nat /\ Divides(SizeT, real + m)
          BY <1>1, <4>1, WordsAdd
        <4>3. real + m >= Entry
          BY <1>1, <1>2, <4>1
        <4> QED BY <4>1, <4>2, <4>3
      <3> HIDE DEF o, fl, hi, U, fits, more
      <3>4. HeapOK(fl2, hi + more, U, lo)
        BY <1>0, <3>2, <3>3, GrowFree
      <3>5. LastAtEnd(fl2, hi + more)
        <4>1. fl2 # <<>> /\ Len(fl2) = Len(fl) + 1 /\ fl2[Len(fl) + 1] = b
          BY <1>3
        <4>2. EndOf(b) = hi + more
          BY DEF Blk, EndOf
        <4> QED BY <4>1, <4>2 DEF LastAtEnd
      <3> HIDE DEF fl2
      <3>6. Grants(AtLast(fl2, hi + more, real, a, limit), U, lo, sz, a)
        BY <3>4, <3>5, LastGrants
      <3> QED BY <3>1, <3>6 DEF o, U
    <2> QED BY <2>1, <2>2
  <1> QED BY <1>4, <1>5, <1>6

----------------------------------------------------------------------------
(* free. *)

Joining(fl, b, p, q, x, y) ==
    /\ p \in 0 .. Len(fl) /\ q \in p + 1 .. Len(fl) + 1 /\ x \in Nat /\ y \in Nat /\ x < y
    /\ Tiling({b} \cup Cut(fl, p, q), x, y) /\ Shaped(Blk(x, y - x))
    /\ \A j \in 1 .. p : EndOf(fl[j]) < x
    /\ \A j \in q .. Len(fl) : y < fl[j].at
\* The heap is then as it should be, without the block given back.
LEMMA JoinSplice ==
  ASSUME NEW fl, NEW hi, NEW U, NEW lo, HeapOK(fl, hi, U, lo), NEW b \in U, NEW p, NEW q, NEW x, NEW y,
         Joining(fl, b, p, q, x, y), lo <= x, y <= hi
  PROVE  HeapOK(Spliced(fl, p, q, <<Blk(x, y - x)>>), hi, U \ {b}, lo)
  <1> DEFINE c == Blk(x, y - x)
             bs == <<c>>
             G == {b}
             A == {}
  <1>0. Listed(fl, hi, U, lo)
    BY ListFacts
  <1>1. /\ p \in 0 .. Len(fl) /\ q \in p + 1 .. Len(fl) + 1 /\ x \in Nat /\ y \in Nat /\ x < y
        /\ Tiling(G \cup Cut(fl, p, q), x, y) /\ Shaped(c)
        /\ \A j \in 1 .. p : EndOf(fl[j]) < x
        /\ \A j \in q .. Len(fl) : y < fl[j].at
    BY DEF Joining
  <1>2. c \in FreeCells /\ Cell(c) /\ c.at = x /\ EndOf(c) = y
    BY <1>1 DEF FreeCells, Cell, Blk, EndOf
  <1>3. bs \in Seq(FreeCells) /\ InOrder(bs) /\ Elems(bs) = {c} /\ A \cup Elems(bs) = {c}
    BY <1>2, ListOfOne DEF ListOf
  <1>4. Tiling(A \cup Elems(bs), x, y)
    <2> HIDE DEF c
    <2>1. Tiling({c}, c.at, EndOf(c))
      BY <1>2, RowOne
    <2> QED BY <2>1, <1>2, <1>3
  <1>5. Between(fl, p, q, bs)
    <2> HIDE DEF c, bs
    <2> QED BY <1>1, <1>2, <1>3 DEF Between
  <1>6. (\A d \in A \cup Elems(bs) : Shaped(d)) /\ (\A d \in A : Serves(d)) /\ A \in SUBSET UsedCells /\ G \in SUBSET U
    BY <1>1, <1>3
  <1>7. hi \in Nat /\ Divides(SizeT, hi) /\ (hi + y) - y = hi
    BY <1>0, <1>1 DEF Listed
  <1> HIDE DEF c, bs, G, A
  <1>8. HeapOK(Spliced(fl, p, q, bs), (hi + y) - y, (U \ G) \cup A, lo)
    <2>1. y = y \/ (y = hi /\ y >= y)
      OBVIOUS
    <2>2. Divides(SizeT, (hi + y) - y)
      BY <1>7
    <2> QED BY <1>1, <1>3, <1>4, <1>5, <1>6, <2>1, <2>2, HeapSplice
  <1>9. (U \ G) \cup A = U \ {b}
    BY DEF G, A
  <1> QED BY <1>7, <1>8, <1>9 DEF bs, c

\* What is given back is joined to its free neighbours.
LEMMA MergedOK ==
  ASSUME NEW fl, NEW hi, NEW U, NEW lo, HeapOK(fl, hi, U, lo), NEW b \in U
  PROVE  HeapOK(Merged(fl, b), hi, U \ {b}, lo)
  <1> DEFINE n == Len(fl)
             before == {i \in DOMAIN fl : EndOf(fl[i]) = b.at}
             after == {i \in DOMAIN fl : fl[i].at = EndOf(b)}
             place == Cardinality({i \in DOMAIN fl : fl[i].at < b.at})
  <1>0. Listed(fl, hi, U, lo)
    BY ListFacts
  <1>1. /\ n \in Nat /\ DOMAIN fl = 1 .. n /\ hi \in Nat /\ lo \in Nat
        /\ Cell(b) /\ EndOf(b) = b.at + b.size /\ EndOf(b) \in Nat /\ lo <= b.at /\ EndOf(b) <= hi /\ Shaped(b)
        /\ b.at \in Nat /\ b.size \in Nat /\ b.size > 0 /\ b.at < EndOf(b)
    BY <1>0 DEF Listed, Cell
  <1>2. \A i \in 1 .. n : /\ Cell(fl[i]) /\ EndOf(fl[i]) = fl[i].at + fl[i].size
                          /\ fl[i].at \in Nat /\ fl[i].size \in Nat /\ fl[i].at < EndOf(fl[i])
                          /\ EndOf(fl[i]) \in Nat /\ lo <= fl[i].at /\ EndOf(fl[i]) <= hi /\ Shaped(fl[i])
    BY <1>0 DEF Listed
  <1>3. \A i, j \in 1 .. n : i < j => EndOf(fl[i]) < fl[j].at
    BY <1>0 DEF Listed
  <1>4. \A i \in 1 .. n : EndOf(b) <= fl[i].at \/ EndOf(fl[i]) <= b.at
    BY <1>0 DEF Listed
  <1>5. ASSUME NEW x \in Nat, NEW y \in Nat, NEW size \in Nat, Divides(SizeT, x), size >= Entry, size <= y - x
        PROVE  Shaped(Blk(x, y - x))
    <2>1. y - x >= Entry
      BY <1>5, Words
    <2> QED BY <2>1, <1>5 DEF Shaped, Blk
  <1>6. CASE before # {}
    <2> DEFINE i == CHOOSE j \in before : TRUE
    <2>1. i \in before
      BY <1>6
    <2>2. i \in 1 .. n /\ EndOf(fl[i]) = b.at
      BY <2>1, <1>1
    <2>3. Merged(fl, b) = IF i < n /\ fl[i + 1].at = EndOf(b)
                          THEN SubSeq(fl, 1, i - 1) \o <<Blk(fl[i].at, fl[i].size + b.size + fl[i + 1].size)>>
                                   \o SubSeq(fl, i + 2, n)
                          ELSE Replaced(fl, i, <<Blk(fl[i].at, fl[i].size + b.size)>>)
      BY <1>6 DEF Merged
    <2> HIDE DEF i, before, after, place
    <2>4. PICK x \in Nat : x = fl[i].at
      BY <2>2, <1>2
    <2>5. Cell(fl[i]) /\ EndOf(fl[i]) = x + fl[i].size /\ fl[i].size \in Nat /\ fl[i].size >= Entry /\ Divides(SizeT, x)
          /\ lo <= x /\ x < b.at
      BY <2>2, <2>4, <1>2 DEF Shaped
    <2>6. i \in Nat /\ i >= 1 /\ i <= n /\ i - 1 \in 0 .. n /\ (i - 1) + 1 = i
      BY <2>2, <1>1
    <2>7. \A j \in 1 .. i - 1 : EndOf(fl[j]) < x
      <3>1. \A j \in 1 .. i - 1 : j \in 1 .. n /\ j < i
        BY <2>6, <1>1
      <3> QED BY <3>1, <2>2, <2>4, <1>3
    <2>8. CASE i < n /\ fl[i + 1].at = EndOf(b)
      <3> DEFINE y == EndOf(fl[i + 1])
                 p == i - 1
                 q == i + 2
      <3>1. i + 1 \in 1 .. n
        BY <2>6, <2>8, <1>1
      <3>2. Cell(fl[i + 1]) /\ y \in Nat /\ y <= hi /\ y = EndOf(b) + fl[i + 1].size /\ fl[i + 1].size \in Nat
            /\ fl[i + 1].at < y
        BY <3>1, <2>8, <1>2
      <3>3. x < y /\ fl[i].size <= y - x /\ fl[i].size + b.size + fl[i + 1].size = y - x
        <4>1. PICK s \in Nat, t \in Nat, u \in Nat : s = fl[i].size /\ t = b.size /\ u = fl[i + 1].size
          BY <3>2, <2>5, <1>1
        <4>2. b.at = x + s /\ EndOf(b) = b.at + t /\ y = EndOf(b) + u /\ x < b.at
          BY <4>1, <3>2, <2>2, <2>5, <1>1
        <4>3. y = x + s + t + u /\ x < x + s
          BY <4>1, <4>2
        <4> HIDE DEF y
        <4>4. x < y /\ s <= y - x /\ s + t + u = y - x
          BY <4>3
        <4> QED BY <4>1, <4>4
      <3>4. p \in 0 .. n /\ q \in p + 1 .. n + 1 /\ p + 1 .. q - 1 = {i, i + 1}
        <4>1. i \in Nat /\ i >= 1 /\ i < n /\ n \in Nat
          BY <2>6, <2>8, <1>1
        <4> QED BY ONLY <4>1 DEF p, q
      <3>5. Merged(fl, b) = Spliced(fl, p, q, <<Blk(x, y - x)>>)
        <4> HIDE DEF y
        <4> QED BY <2>3, <2>4, <2>8, <3>3 DEF Spliced
      <3>6. {b} \cup Cut(fl, p, q) = {fl[i], b, fl[i + 1]}
        BY <3>4 DEF Cut
      <3>7. Tiling({fl[i], b, fl[i + 1]}, fl[i].at, EndOf(fl[i + 1]))
        BY <3>2, <2>2, <2>5, <2>8, <1>1, RowThree
      <3>8. \A j \in q .. n : y < fl[j].at
        <4>1. \A j \in q .. n : j \in 1 .. n /\ i + 1 < j
          BY <2>6, <1>1
        <4> QED BY <4>1, <3>1, <1>3
      <3>9. Shaped(Blk(x, y - x))
        BY <3>2, <3>3, <2>5, <1>5
      <3> HIDE DEF p, q, y
      <3>10. Joining(fl, b, p, q, x, y)
        BY <3>2, <3>3, <3>4, <3>6, <3>7, <3>8, <3>9, <2>4, <2>7 DEF Joining, y, p
      <3> QED BY <3>2, <3>5, <3>10, <2>5, JoinSplice
    <2>9. CASE ~(i < n /\ fl[i + 1].at = EndOf(b))
      <3> DEFINE y == EndOf(b)
                 p == i - 1
                 q == i + 1
      <3>3. x < y /\ fl[i].size <= y - x /\ fl[i].size + b.size = y - x /\ y \in Nat /\ y <= hi
        <4>1. PICK s \in Nat, t \in Nat : s = fl[i].size /\ t = b.size
          BY <2>5, <1>1
        <4>2. b.at = x + s /\ y = b.at + t /\ x < b.at /\ y \in Nat /\ y <= hi
          BY <4>1, <2>2, <2>5, <1>1
        <4>3. y = x + s + t /\ x < x + s
          BY <4>1, <4>2
        <4> HIDE DEF y
        <4>4. x < y /\ s <= y - x /\ s + t = y - x
          BY <4>3
        <4> QED BY <4>1, <4>2, <4>4
      <3>4. p \in 0 .. n /\ q \in p + 1 .. n + 1 /\ p + 1 .. q - 1 = {i}
        BY <2>6, <1>1
      <3>5. Merged(fl, b) = Spliced(fl, p, q, <<Blk(x, y - x)>>)
        <4> HIDE DEF y
        <4> QED BY <2>3, <2>4, <2>9, <3>3 DEF Spliced, Replaced
      <3>6. {b} \cup Cut(fl, p, q) = {fl[i], b}
        BY <3>4 DEF Cut
      <3>7. Tiling({fl[i], b}, fl[i].at, EndOf(b))
        BY <2>2, <2>5, <1>1, RowTwo
      <3>8. \A j \in q .. n : y < fl[j].at
        <4>1. SUFFICES ASSUME NEW j \in q .. n
                       PROVE  y < fl[j].at
          OBVIOUS
        <4>2. j \in 1 .. n /\ i < j /\ i + 1 \in 1 .. n /\ i < i + 1 /\ i < n
          BY <2>6, <1>1
        <4>3. fl[i + 1].at # EndOf(b)
          BY <4>2, <2>9
        <4>4. b.at < fl[i + 1].at
          BY <4>2, <2>2, <1>3
        <4>5. fl[i + 1].at \in Nat /\ EndOf(fl[i + 1]) \in Nat /\ fl[i + 1].at < EndOf(fl[i + 1])
              /\ (EndOf(b) <= fl[i + 1].at \/ EndOf(fl[i + 1]) <= b.at)
          BY <4>2, <1>2, <1>4
        <4>6. EndOf(b) < fl[i + 1].at
          BY <4>3, <4>4, <4>5, <1>1
        <4>7. CASE j = i + 1
          BY <4>6, <4>7
        <4>8. CASE j # i + 1
          <5>1. i + 1 < j
            BY <4>2, <4>8, <2>6
          <5>2. EndOf(fl[i + 1]) < fl[j].at /\ fl[j].at \in Nat
            BY <5>1, <4>2, <1>2, <1>3
          <5> QED BY <5>2, <4>5, <4>6, <1>1
        <4> QED BY <4>7, <4>8
      <3>9. Shaped(Blk(x, y - x))
        BY <3>3, <2>5, <1>5
      <3> HIDE DEF p, q, y
      <3>10. Joining(fl, b, p, q, x, y)
        BY <3>3, <3>4, <3>6, <3>7, <3>8, <3>9, <2>4, <2>7 DEF Joining, y, p
      <3> QED BY <3>3, <3>5, <3>10, <2>5, JoinSplice
    <2> QED BY <2>8, <2>9
  <1>7. CASE before = {} /\ after # {}
    <2> DEFINE i == CHOOSE j \in after : TRUE
               x == b.at
               y == EndOf(fl[i])
               p == i - 1
               q == i + 1
    <2>1. i \in after
      BY <1>7
    <2>2. i \in 1 .. n /\ fl[i].at = EndOf(b)
      BY <2>1, <1>1
    <2>3. Merged(fl, b) = Replaced(fl, i, <<Blk(b.at, b.size + fl[i].size)>>)
      BY <1>7 DEF Merged
    <2>a. \A j \in 1 .. n : EndOf(fl[j]) # b.at
      BY <1>1, <1>7
    <2> HIDE DEF i, before, after, place
    <2>4. i \in Nat /\ i >= 1 /\ i <= n
      BY <2>2, <1>1
    <2>5. Cell(fl[i]) /\ y \in Nat /\ y <= hi /\ y = EndOf(b) + fl[i].size /\ fl[i].size \in Nat
      BY <2>2, <1>2
    <2>6. x < y /\ b.size <= y - x /\ b.size + fl[i].size = y - x /\ x \in Nat
      BY <2>5, <1>1
    <2>7. p \in 0 .. n /\ q \in p + 1 .. n + 1 /\ p + 1 .. q - 1 = {i}
      BY <2>4, <1>1
    <2>8. Merged(fl, b) = Spliced(fl, p, q, <<Blk(x, y - x)>>)
      <3> HIDE DEF y
      <3> QED BY <2>3, <2>6 DEF Spliced, Replaced
    <2>9. {b} \cup Cut(fl, p, q) = {b, fl[i]}
      BY <2>7 DEF Cut
    <2>10. Tiling({b, fl[i]}, b.at, EndOf(fl[i]))
      BY <2>2, <2>5, <1>1, RowTwo
    <2>11. \A j \in 1 .. p : EndOf(fl[j]) < x
      <3>1. SUFFICES ASSUME NEW j \in 1 .. p
                     PROVE  EndOf(fl[j]) < x
        OBVIOUS
      <3>2. j \in 1 .. n /\ j < i
        BY <2>4, <1>1
      <3>3. EndOf(fl[j]) < EndOf(b)
        BY <3>2, <2>2, <1>3
      <3>4. fl[j].at \in Nat /\ EndOf(fl[j]) \in Nat /\ fl[j].at < EndOf(fl[j]) /\ EndOf(fl[j]) # b.at
            /\ (EndOf(b) <= fl[j].at \/ EndOf(fl[j]) <= b.at)
        BY <3>2, <2>a, <1>2, <1>4
      <3> QED BY <3>3, <3>4, <1>1
    <2>12. \A j \in q .. n : y < fl[j].at
      <3>1. \A j \in q .. n : j \in 1 .. n /\ i < j
        BY <2>4, <1>1
      <3> QED BY <3>1, <2>2, <1>3
    <2>13. Shaped(Blk(x, y - x))
      <3>1. b.size >= Entry /\ Divides(SizeT, x)
        BY <1>1 DEF Shaped
      <3> QED BY <3>1, <2>5, <2>6, <1>1, <1>5
    <2>14. lo <= x
      BY <1>1
    <2> HIDE DEF p, q, y, x
    <2>15. Joining(fl, b, p, q, x, y)
      BY <2>5, <2>6, <2>7, <2>9, <2>10, <2>11, <2>12, <2>13 DEF Joining, x, y
    <2> QED BY <2>5, <2>8, <2>14, <2>15, JoinSplice
  <1>8. CASE before = {} /\ after = {}
    <2> DEFINE x == b.at
               y == EndOf(b)
               S == {i \in 1 .. n : fl[i].at < b.at}
               T == {m \in 1 .. n + 1 : m = n + 1 \/ ~(fl[m].at < b.at)}
    <2>1. Merged(fl, b) = SubSeq(fl, 1, place) \o <<Blk(b.at, b.size)>> \o SubSeq(fl, place + 1, Len(fl))
      BY <1>8 DEF Merged
    <2>2. \A j \in 1 .. n : EndOf(fl[j]) # b.at /\ fl[j].at # EndOf(b)
      BY <1>1, <1>8
    <2>3. place = Cardinality(S)
      BY <1>1
    <2> HIDE DEF before, after, place
    <2>4. PICK m \in T : \A l \in T : m <= l
      <3>1. T \subseteq 0 .. n + 1 /\ n + 1 \in T /\ n + 1 \in Nat
        BY <1>1
      <3> HIDE DEF T
      <3> QED BY <3>1, LeastNat
    <2>5. m \in 1 .. n + 1 /\ (m = n + 1 \/ ~(fl[m].at < b.at))
      OBVIOUS
    <2>6. \A j \in 1 .. n : j < m => fl[j].at < b.at
      <3>1. SUFFICES ASSUME NEW j \in 1 .. n, j < m, ~(fl[j].at < b.at)
                     PROVE  FALSE
        OBVIOUS
      <3>2. j \in T
        BY <3>1, <1>1
      <3> QED BY <3>1, <3>2, <2>4, <2>5, <1>1
    <2>7. \A j \in 1 .. n : j >= m => ~(fl[j].at < b.at)
      <3>1. SUFFICES ASSUME NEW j \in 1 .. n, j >= m, fl[j].at < b.at
                     PROVE  FALSE
        OBVIOUS
      <3>2. m \in 1 .. n /\ ~(fl[m].at < b.at)
        BY <3>1, <2>5, <1>1
      <3>3. m < j
        BY <3>1, <3>2, <2>5, <1>1
      <3>4. EndOf(fl[m]) < fl[j].at
        BY <3>2, <3>3, <1>3
      <3> QED BY <3>1, <3>2, <3>4, <1>1, <1>2
    <2> HIDE DEF T
    <2> DEFINE p == m - 1
               q == p + 1
    <2>8. p \in 0 .. n /\ q \in p + 1 .. n + 1 /\ p + 1 .. q - 1 = {} /\ p \in Nat /\ p <= n
      BY <2>5, <1>1
    <2>9. place = p
      <3>1. S = 1 .. p
        BY <2>5, <2>6, <2>7, <1>1
      <3>2. Cardinality(1 .. p) = p
        <4> HIDE DEF p
        <4>1. Cardinality(1 .. p) = IF 1 > p THEN 0 ELSE p - 1 + 1
          BY <2>8, FS_Interval
        <4> QED BY <4>1, <2>8
      <3> QED BY <3>1, <3>2, <2>3
    <2>10. x < y /\ x \in Nat /\ y \in Nat /\ b.size = y - x /\ lo <= x /\ y <= hi
      BY <1>1
    <2>11. Merged(fl, b) = Spliced(fl, p, q, <<Blk(x, y - x)>>)
      <3> HIDE DEF p, y
      <3> QED BY <2>1, <2>9, <2>10 DEF Spliced
    <2>12. {b} \cup Cut(fl, p, q) = {b}
      BY <2>8 DEF Cut
    <2>13. Tiling({b}, b.at, EndOf(b))
      BY <1>1, RowOne
    <2>14. \A j \in 1 .. p : EndOf(fl[j]) < x
      <3>1. SUFFICES ASSUME NEW j \in 1 .. p
                     PROVE  EndOf(fl[j]) < x
        OBVIOUS
      <3>2. j \in 1 .. n /\ j < m
        BY <2>5, <1>1
      <3>3. fl[j].at < b.at
        BY <3>2, <2>6
      <3>4. fl[j].at \in Nat /\ EndOf(fl[j]) \in Nat /\ EndOf(fl[j]) # b.at
            /\ (EndOf(b) <= fl[j].at \/ EndOf(fl[j]) <= b.at)
        BY <3>2, <2>2, <1>2, <1>4
      <3> QED BY <3>3, <3>4, <1>1
    <2>15. \A j \in q .. n : y < fl[j].at
      <3>1. SUFFICES ASSUME NEW j \in q .. n
                     PROVE  y < fl[j].at
        OBVIOUS
      <3>2. j \in 1 .. n /\ j >= m
        BY <2>5, <1>1
      <3>3. ~(fl[j].at < b.at)
        BY <3>2, <2>7
      <3>4. fl[j].at \in Nat /\ EndOf(fl[j]) \in Nat /\ fl[j].at < EndOf(fl[j]) /\ fl[j].at # EndOf(b)
            /\ (EndOf(b) <= fl[j].at \/ EndOf(fl[j]) <= b.at)
        BY <3>2, <2>2, <1>2, <1>4
      <3> QED BY <3>3, <3>4, <1>1
    <2>16. Shaped(Blk(x, y - x))
      <3>1. b.size >= Entry /\ Divides(SizeT, x) /\ b.size <= y - x
        BY <1>1, <2>10 DEF Shaped
      <3> QED BY <3>1, <2>10, <1>1, <1>5
    <2> HIDE DEF p, q, x, y
    <2>17. Joining(fl, b, p, q, x, y)
      BY <2>8, <2>10, <2>12, <2>13, <2>14, <2>15, <2>16 DEF Joining, x, y
    <2> QED BY <2>10, <2>11, <2>17, JoinSplice
  <1> QED BY <1>6, <1>7, <1>8

----------------------------------------------------------------------------
(* The invariant, and its steps. *)

HeapInv == \E lo \in Nat : lost = 0 .. lo - 1 /\ HeapOK(freelist, malloc_end, used, lo)

\* A block given out becomes others, the free list as it is.
LEMMA Swapped ==
  ASSUME NEW fl, NEW hi, NEW U, NEW lo, HeapOK(fl, hi, U, lo), NEW b \in U, NEW A \in SUBSET UsedCells,
         Tiling(A, b.at, EndOf(b)), \A c \in A : Shaped(c) /\ Serves(c)
  PROVE  HeapOK(fl, hi, (U \ {b}) \cup A, lo)
  <1> DEFINE p == Len(fl)
             q == Len(fl) + 1
             bs == <<>>
             G == {b}
             x == b.at
             y == EndOf(b)
  <1>0. Listed(fl, hi, U, lo)
    BY ListFacts
  <1>1. fl \in Seq(FreeCells) /\ hi \in Nat /\ Cell(b) /\ lo <= x /\ y <= hi /\ y \in Nat /\ Divides(SizeT, hi)
        /\ (hi + y) - y = hi
    BY <1>0 DEF Listed
  <1>2. Spliced(fl, p, q, bs) = fl /\ Cut(fl, p, q) = {} /\ bs \in Seq(FreeCells) /\ InOrder(bs) /\ Elems(bs) = {}
        /\ p \in 0 .. Len(fl) /\ q \in p + 1 .. Len(fl) + 1
    BY <1>1, ListStays
  <1> HIDE DEF p, q, bs
  <1>3. Tiling(G \cup Cut(fl, p, q), x, y)
    <2>1. G \cup Cut(fl, p, q) = {b}
      BY <1>2
    <2> QED BY <1>1, <2>1, RowOne
  <1>4. Tiling(A \cup Elems(bs), x, y)
    <2>1. A \cup Elems(bs) = A
      BY <1>2
    <2> QED BY <2>1
  <1>5. Between(fl, p, q, bs)
    BY <1>2 DEF Between
  <1>6. (\A c \in A \cup Elems(bs) : Shaped(c)) /\ (\A c \in A : Serves(c)) /\ G \in SUBSET U
    BY <1>2
  <1>7. (y = y \/ (y = hi /\ y >= y)) /\ Divides(SizeT, (hi + y) - y)
    BY <1>1
  <1> HIDE DEF G, x, y
  <1>8. HeapOK(Spliced(fl, p, q, bs), (hi + y) - y, (U \ G) \cup A, lo)
    BY <1>1, <1>2, <1>3, <1>4, <1>5, <1>6, <1>7, HeapSplice
  <1> QED BY <1>1, <1>2, <1>8 DEF G

\* A heap with nothing in it.
LEMMA EmptyHeap ==
  ASSUME NEW hi \in Nat, Divides(SizeT, hi)
  PROVE  HeapOK(<<>>, hi, {}, hi)
  <1>1. <<>> \in Seq(FreeCells) /\ Elems(<<>>) = {} /\ InOrder(<<>>)
    BY ListOfNone DEF ListOf
  <1>2. {} \cup Elems(<<>>) = {} /\ Tiling({}, hi, hi)
    BY <1>1, FewTiles
  <1> QED BY <1>1, <1>2 DEF HeapOK

\* The heap is empty when the program starts.
LEMMA HeapStarts == MallocInit => HeapInv
  <1> SUFFICES ASSUME MallocInit PROVE HeapInv
    OBVIOUS
  <1>1. Divides(SizeT, 0)
    <2>1. 0 = 0 * SizeT
      BY Words
    <2> QED BY <2>1 DEF Divides
  <1>2. HeapOK(<<>>, 0, {}, 0) /\ 0 .. 0 - 1 = {}
    BY <1>1, EmptyHeap
  <1> QED BY <1>2 DEF MallocInit, HeapInv

\* What malloc and memalign return is a list, an end and a block.
IsOutcome(o) == o = Outcome(o.fl, o.end, o.blk)
\* malloc's is one.
LEMMA MallocOutcome ==
  ASSUME NEW sz, NEW limit
  PROVE  IsOutcome(malloc(sz, limit))
  <1>1. \A x, y, z : IsOutcome(Outcome(x, y, z))
    BY DEF IsOutcome, Outcome
  <1> HIDE DEF IsOutcome
  <1>2. \E x, y, z : malloc(sz, limit) = Outcome(x, y, z)
    BY Zenon DEF malloc, Fails
  <1> QED BY <1>1, <1>2

\* malloc, calloc, memalign, valloc and pvalloc keep the invariant;
LEMMA HeapGrants ==
  ASSUME NEW lo \in Nat, HeapOK(freelist, malloc_end, used, lo), NEW sz, NEW a, NEW o, Grants(o, used, lo, sz, a),
         Becomes(o, IF o.blk = NULL THEN used ELSE used \cup {Given(o.blk, sz, a)})
  PROVE  HeapOK(freelist', malloc_end', used', lo) /\ lost' = lost
  BY DEF Grants, Becomes

\* so do free,
LEMMA HeapFree ==
  ASSUME NEW lo \in Nat, HeapOK(freelist, malloc_end, used, lo), NEW b \in used, Free(b)
  PROVE  HeapOK(freelist', malloc_end', used', lo) /\ lost' = lost
  <1>1. HeapOK(Merged(freelist, b), malloc_end, used \ {b}, lo)
    BY MergedOK
  <1>2. freelist' = Merged(freelist, b) /\ malloc_end' = malloc_end /\ used' = used \ {b} /\ lost' = lost
    BY DEF Free, Becomes, Outcome
  <1> QED BY <1>1, <1>2

\* realloc of more, which allocates, copies and frees,
LEMMA HeapReallocGrows ==
  ASSUME NEW lo \in Nat, HeapOK(freelist, malloc_end, used, lo), NEW b \in used, NEW sz \in Nat, NEW limit \in Int,
         ReallocGrows(b, sz, limit)
  PROVE  HeapOK(freelist', malloc_end', used', lo) /\ lost' = lost
  <1>1. PICK o : /\ o = malloc(sz, limit)
                 /\ IF o.blk = NULL THEN Becomes(o, used)
                    ELSE Becomes([o EXCEPT !.fl = Merged(o.fl, b)], (used \ {b}) \cup {Given(o.blk, sz, SizeT)})
    BY DEF ReallocGrows
  <1>2. Grants(o, used, lo, sz, SizeT) /\ IsOutcome(o)
    BY <1>1, MallocGrants, MallocOutcome
  <1>3. CASE o.blk = NULL
    BY <1>1, <1>2, <1>3 DEF Grants, Becomes
  <1>4. CASE o.blk # NULL
    <2> DEFINE g == Given(o.blk, sz, SizeT)
               fl2 == Merged(o.fl, b)
    <2>1. HeapOK(o.fl, o.end, used \cup {g}, lo) /\ {g} \cap used = {}
      BY <1>2, <1>4 DEF Grants
    <2>2. freelist' = fl2 /\ malloc_end' = o.end /\ used' = (used \ {b}) \cup {g} /\ lost' = lost
      <3> DEFINE o2 == [o EXCEPT !.fl = fl2]
      <3>1. Becomes(o2, (used \ {b}) \cup {g})
        BY <1>1, <1>4
      <3>2. o2.fl = fl2 /\ o2.end = o.end
        <4> HIDE DEF fl2
        <4> QED BY <1>2 DEF IsOutcome, Outcome
      <3> HIDE DEF o2, fl2, g
      <3> QED BY <3>1, <3>2 DEF Becomes
    <2> HIDE DEF g
    <2>3. HeapOK(fl2, o.end, (used \cup {g}) \ {b}, lo)
      BY <2>1, MergedOK
    <2>4. (used \cup {g}) \ {b} = (used \ {b}) \cup {g}
      BY <2>1
    <2> QED BY <2>2, <2>3, <2>4
  <1> QED BY <1>3, <1>4

\* realloc of less, which gives the end back if it can be a free block,
LEMMA HeapReallocShrinks ==
  ASSUME NEW lo \in Nat, HeapOK(freelist, malloc_end, used, lo), NEW b \in used, NEW sz \in Nat, ReallocShrinks(b, sz)
  PROVE  HeapOK(freelist', malloc_end', used', lo) /\ lost' = lost
  <1> DEFINE real == REAL_SIZE(sz)
             U == used
  <1>0. Listed(freelist, malloc_end, U, lo) /\ U \subseteq UsedCells /\ (\A c \in U : Serves(c))
    BY ListFacts DEF HeapOK
  <1>1. real \in Nat /\ real >= Entry /\ real - SizeT >= sz /\ Divides(SizeT, real) /\ b.size >= real
    BY RealSize DEF ReallocShrinks
  <1>2. SizeT \in Nat \ {0} /\ Entry \in Nat /\ Entry > SizeT
    BY Words
  <1>3. /\ b \in UsedCells /\ Serves(b) /\ Shaped(b) /\ b.at \in Nat /\ b.size \in Nat /\ EndOf(b) = b.at + b.size
        /\ Divides(SizeT, b.at) /\ Divides(b.align, b.at + SizeT) /\ b.align \in Nat \ {0}
    BY <1>0 DEF Listed, Cell, Shaped, Serves, UsedCells
  <1>4. CASE b.size - real < Entry
    <2> DEFINE c == [b EXCEPT !.asked = sz]
    <2>1. freelist' = freelist /\ malloc_end' = malloc_end /\ used' = (U \ {b}) \cup {c} /\ lost' = lost
      BY <1>4 DEF ReallocShrinks, Becomes, Fails, Outcome
    <2>2. c \in UsedCells /\ c.at = b.at /\ c.size = b.size /\ c.asked = sz /\ c.align = b.align
      BY <1>3 DEF UsedCells
    <2> HIDE DEF c
    <2>3. Shaped(c) /\ Serves(c)
      BY <2>2, <1>1, <1>2, <1>3 DEF Shaped, Serves
    <2>4. Tiling({c}, b.at, EndOf(b))
      <3>1. Cell(c) /\ EndOf(c) = EndOf(b)
        BY <2>2, <1>3, Cells DEF Cell, EndOf
      <3>2. Tiling({c}, c.at, EndOf(c))
        BY <3>1, RowOne
      <3> QED BY <3>1, <3>2, <2>2
    <2>5. HeapOK(freelist, malloc_end, (U \ {b}) \cup {c}, lo)
      <3>1. {c} \in SUBSET UsedCells /\ \A d \in {c} : Shaped(d) /\ Serves(d)
        BY <2>2, <2>3
      <3> QED BY <2>4, <3>1, Swapped
    <2> QED BY <2>1, <2>5
  <1>5. CASE ~(b.size - real < Entry)
    <2> DEFINE g == [b EXCEPT !.size = real, !.asked = sz]
               h == [at |-> b.at + real, size |-> b.size - real, asked |-> 0, align |-> 1]
               e == Blk(b.at + real, b.size - real)
    <2>1. freelist' = Merged(freelist, e) /\ malloc_end' = malloc_end /\ used' = (U \ {b}) \cup {g} /\ lost' = lost
      BY <1>5 DEF ReallocShrinks, Becomes, Outcome
    <2>2. Merged(freelist, e) = Merged(freelist, h)
      <3>1. e.at = h.at /\ e.size = h.size /\ EndOf(e) = EndOf(h)
        BY DEF Blk, EndOf
      <3> HIDE DEF e, h
      <3> QED BY <3>1 DEF Merged
    <2>3. g \in UsedCells /\ g.at = b.at /\ g.size = real /\ g.asked = sz /\ g.align = b.align
      <3>1. PICK r \in Nat : r = real /\ r > 0
        BY <1>1, <1>2
      <3>2. b \in UsedCells
        BY <1>3
      <3> HIDE DEF real
      <3>3. [b EXCEPT !.size = r, !.asked = sz] \in UsedCells
        <4> DEFINE c == [b EXCEPT !.size = r]
        <4>1. c \in UsedCells
          BY <3>1, <3>2 DEF UsedCells
        <4> HIDE DEF c
        <4>2. [c EXCEPT !.asked = sz] \in UsedCells
          BY <4>1 DEF UsedCells
        <4>3. [c EXCEPT !.asked = sz] = [b EXCEPT !.size = r, !.asked = sz]
          BY <3>2 DEF c, UsedCells
        <4> QED BY <4>2, <4>3
      <3>4. g.at = b.at /\ g.size = r /\ g.asked = sz /\ g.align = b.align
        BY ONLY <3>1, <3>2 DEF UsedCells
      <3> QED BY <3>1, <3>3, <3>4
    <2>4. h \in UsedCells /\ h.at = b.at + real /\ h.size = b.size - real /\ h.asked = 0 /\ h.align = 1 /\ h.size >= Entry
      BY <1>1, <1>2, <1>3, <1>5 DEF UsedCells
    <2> HIDE DEF e, g, h
    <2>5. Shaped(g) /\ Serves(g) /\ Cell(g)
      BY <2>3, <1>1, <1>2, <1>3 DEF Shaped, Serves, Cell
    <2>6. Shaped(h) /\ Serves(h) /\ Cell(h)
      <3>1. Divides(SizeT, b.at + real)
        BY <1>1, <1>3, WordsAdd
      <3>2. PICK v \in Int : v = h.at + SizeT
        BY <2>4, <1>1, <1>2, <1>3
      <3>3. v = v * 1
        OBVIOUS
      <3>4. Divides(1, v)
        BY <3>3 DEF Divides
      <3>5. h.size - SizeT >= 0
        BY <2>4, <1>1, <1>2, <1>3
      <3>6. h.at \in Nat /\ h.size \in Nat /\ h.size > 0
        BY <2>4, <1>1, <1>2, <1>3
      <3> QED BY <2>4, <3>1, <3>2, <3>4, <3>5, <3>6 DEF Shaped, Serves, Cell
    <2>7. h.at = EndOf(g) /\ EndOf(h) = EndOf(b)
      <3>1. EndOf(g) = b.at + real /\ EndOf(h) = (b.at + real) + (b.size - real)
        BY <2>3, <2>4 DEF EndOf
      <3> QED BY <3>1, <2>4, <1>1, <1>3
    <2>8. Tiling({g, h}, b.at, EndOf(b))
      BY <2>3, <2>5, <2>6, <2>7, RowTwo
    <2>9. HeapOK(freelist, malloc_end, (U \ {b}) \cup {g, h}, lo)
      <3>1. {g, h} \in SUBSET UsedCells /\ \A d \in {g, h} : Shaped(d) /\ Serves(d)
        BY <2>3, <2>4, <2>5, <2>6
      <3> QED BY <2>8, <3>1, Swapped
    <2>10. h \notin U /\ h # g
      <3>1. h.at # g.at
        BY <2>3, <2>4, <1>1, <1>2, <1>3
      <3>2. ASSUME h \in U
            PROVE  FALSE
        <4>1. h # b
          BY <2>4, <1>1, <1>2, <1>3
        <4>2. EndOf(h) <= b.at \/ EndOf(b) <= h.at
          BY <3>2, <4>1 DEF HeapOK, Tiling
        <4>3. h.at < EndOf(h) /\ h.at >= b.at /\ EndOf(h) = EndOf(b) /\ h.at \in Nat /\ EndOf(h) \in Nat
          BY <2>4, <2>7, <1>1, <1>2, <1>3, Cells
        <4> QED BY <4>2, <4>3, <1>3
      <3> QED BY <3>1, <3>2
    <2>11. ((U \ {b}) \cup {g, h}) \ {h} = (U \ {b}) \cup {g}
      BY <2>10
    <2>12. HeapOK(Merged(freelist, h), malloc_end, ((U \ {b}) \cup {g, h}) \ {h}, lo)
      BY <2>9, MergedOK
    <2> QED BY <2>1, <2>2, <2>11, <2>12
  <1> QED BY <1>4, <1>5

\* and a restart of the program, which gives up all there was.
LEMMA HeapRestart ==
  ASSUME HeapInv, Restart
  PROVE  HeapInv'
  <1>1. PICK lo \in Nat : lost = 0 .. lo - 1 /\ HeapOK(freelist, malloc_end, used, lo)
    BY DEF HeapInv
  <1>2. malloc_end \in Nat /\ lo <= malloc_end /\ Divides(SizeT, malloc_end)
    BY <1>1, ListFacts DEF Listed
  <1>3. freelist' = <<>> /\ used' = {} /\ malloc_end' = malloc_end /\ lost' = 0 .. malloc_end - 1
    BY <1>1, <1>2 DEF Restart
  <1>4. HeapOK(<<>>, malloc_end, {}, malloc_end)
    BY <1>2, EmptyHeap
  <1> QED BY <1>2, <1>3, <1>4 DEF HeapInv

\* Every step of the allocator keeps the invariant.
LEMMA HeapSteps ==
  ASSUME HeapInv, MallocStep \/ UNCHANGED mallocVars
  PROVE  HeapInv'
  <1>1. PICK lo \in Nat : lost = 0 .. lo - 1 /\ HeapOK(freelist, malloc_end, used, lo)
    BY DEF HeapInv
  <1>2. Limits \subseteq Int /\ Sizes \subseteq Nat
    BY MallocAssumption
  <1>3. ASSUME HeapOK(freelist', malloc_end', used', lo), lost' = lost
        PROVE  HeapInv'
    BY <1>1, <1>3 DEF HeapInv
  <1>4. ASSUME NEW limit \in Limits, NEW sz \in Sizes, Malloc(sz, limit)
        PROVE  HeapInv'
    <2>1. PICK o : o = malloc(sz, limit) /\ Becomes(o, IF o.blk = NULL THEN used ELSE used \cup {Given(o.blk, sz, SizeT)})
      BY <1>4 DEF Malloc
    <2>2. Grants(o, used, lo, sz, SizeT)
      BY <2>1, <1>1, <1>2, MallocGrants
    <2> QED BY <2>1, <2>2, <1>1, <1>3, HeapGrants
  <1>5. ASSUME NEW limit \in Limits, NEW sz \in Sizes, NEW a \in Aligns, Memalign(a, sz, limit)
        PROVE  HeapInv'
    <2>1. PICK o : o = memalign(a, sz, limit) /\ Becomes(o, IF o.blk = NULL THEN used ELSE used \cup {Given(o.blk, sz, a)})
      BY <1>5 DEF Memalign
    <2>2. Grants(o, used, lo, sz, a)
      BY <2>1, <1>1, <1>2, MemalignGrants
    <2> QED BY <2>1, <2>2, <1>1, <1>3, HeapGrants
  <1>6. ASSUME NEW limit \in Limits, NEW sz \in Sizes, NEW b \in used, ReallocGrows(b, sz, limit)
        PROVE  HeapInv'
    BY <1>1, <1>2, <1>3, <1>6, HeapReallocGrows
  <1>7. ASSUME NEW b \in used, Free(b)
        PROVE  HeapInv'
    BY <1>1, <1>3, <1>7, HeapFree
  <1>8. ASSUME NEW b \in used, NEW sz \in Sizes, ReallocShrinks(b, sz)
        PROVE  HeapInv'
    BY <1>1, <1>2, <1>3, <1>8, HeapReallocShrinks
  <1>9. CASE Restart
    BY <1>9, HeapRestart
  <1>10. CASE UNCHANGED mallocVars
    BY <1>1, <1>10 DEF mallocVars, HeapInv
  <1> QED BY <1>4, <1>5, <1>6, <1>7, <1>8, <1>9, <1>10 DEF MallocStep

\* The statistics: what lies between the bytes given up and the end is given
\* out or free.
LEMMA HeapCounts ==
  ASSUME NEW lo \in Nat, lost = 0 .. lo - 1, HeapOK(freelist, malloc_end, used, lo)
  PROVE  /\ mallinfo.uordblks = MapThenSumSet(SizeOf, used) + Cardinality(lost)
         /\ mallinfo.keepcost + mallinfo.uordblks <= mallinfo.arena
  <1> DEFINE F == FreeBlocks
             U == used
             free == Bytes(F)
             k == Len(freelist)
  <1>0. Listed(freelist, malloc_end, U, lo) /\ F = Elems(freelist) /\ U \subseteq UsedCells /\ freelist \in Seq(FreeCells)
        /\ Tiling(U \cup Elems(freelist), lo, malloc_end)
    BY ListFacts DEF FreeBlocks, Elems, HeapOK
  <1>1. Tiling(U \cup F, lo, malloc_end) /\ malloc_end \in Nat /\ Elems(freelist) \subseteq FreeCells
    BY <1>0, ListElems DEF Listed
  <1>2. U \cap F = {}
    BY <1>0, <1>1, Cells
  <1> HIDE DEF F, U
  <1>3. Sized(U \cup F) /\ Bytes(U \cup F) = malloc_end - lo
    BY <1>1, TileSum
  <1>4. Sized(U) /\ Sized(F)
    BY <1>3, FS_Subset DEF Sized
  <1>5. Bytes(U \cup F) = Bytes(U) + Bytes(F) /\ Bytes(U) \in Nat /\ Bytes(F) \in Nat
    BY <1>2, <1>4, SumUnion, SumStep
  <1>6. Cardinality(lost) = lo
    <2>1. Cardinality(0 .. lo - 1) = IF 0 > lo - 1 THEN 0 ELSE (lo - 1) - 0 + 1
      BY FS_Interval
    <2> QED BY <2>1
  <1>7. mallinfo.arena = malloc_end /\ mallinfo.uordblks = malloc_end - Bytes(F)
        /\ mallinfo.keepcost = IF LastAtEnd(freelist, malloc_end) THEN freelist[Len(freelist)].size ELSE 0
    BY DEF mallinfo, Bytes, F
  <1>8. mallinfo.uordblks = Bytes(U) + Cardinality(lost)
    BY <1>3, <1>5, <1>6, <1>7, <1>1
  <1>9. ASSUME LastAtEnd(freelist, malloc_end)
        PROVE  freelist[k].size \in Nat /\ freelist[k].size <= Bytes(F)
    <2>1. freelist # <<>> /\ Len(freelist) \in Nat
      BY <1>0, <1>9 DEF LastAtEnd
    <2>2. k \in DOMAIN freelist
      BY <2>1, <1>0
    <2>3. PICK x \in F : x = freelist[k]
      BY <2>2, <1>0 DEF Elems
    <2>4. Bytes(F) = x.size + Bytes(F \ {x}) /\ x.size \in Nat
      BY <2>3, <1>4, SumStep DEF Sized
    <2>5. Bytes(F \ {x}) \in Nat
      <3>1. Sized(F \ {x})
        BY <1>4, FS_Subset DEF Sized
      <3> QED BY <3>1, SumStep
    <2> QED BY <2>3, <2>4, <2>5, <1>5
  <1>10. mallinfo.keepcost + mallinfo.uordblks <= mallinfo.arena
    BY <1>1, <1>5, <1>7, <1>9
  <1> QED BY <1>8, <1>10 DEF U, Bytes

\* The invariant is stronger than what is claimed of the heap.
LEMMA HeapInvHolds == HeapInv => HeapSound
  <1> SUFFICES ASSUME HeapInv PROVE HeapSound
    OBVIOUS
  <1>1. PICK lo \in Nat : lost = 0 .. lo - 1 /\ HeapOK(freelist, malloc_end, used, lo)
    BY DEF HeapInv
  <1> DEFINE B == used \cup FreeBlocks
  <1>2. Listed(freelist, malloc_end, used, lo)
    BY <1>1, ListFacts
  <1>3. FreeBlocks = Elems(freelist)
    BY DEF FreeBlocks, Elems
  <1>4. Tiling(B, lo, malloc_end) /\ (\A b \in B : Shaped(b)) /\ (\A b \in used : Serves(b)) /\ used \subseteq UsedCells
    BY <1>1, <1>3 DEF HeapOK
  <1>5. SizeT \in Nat \ {0} /\ lo \in Nat /\ malloc_end \in Nat /\ lo <= malloc_end
    BY <1>2, Words DEF Listed
  <1> HIDE DEF B
  <1>6. \A b \in B : b.at \in Nat /\ b.size \in Nat /\ EndOf(b) \in Nat /\ lo <= b.at /\ EndOf(b) <= malloc_end /\ b.at < EndOf(b)
    BY <1>4 DEF Tiling, EndOf
  <1>7. \A b, c \in B : b # c => BytesOf(b) \cap BytesOf(c) = {}
    <2>1. SUFFICES ASSUME NEW b \in B, NEW c \in B, b # c, NEW n \in BytesOf(b), n \in BytesOf(c)
                   PROVE  FALSE
      OBVIOUS
    <2>2. EndOf(b) <= c.at \/ EndOf(c) <= b.at
      BY <1>4, <2>1 DEF Tiling
    <2>3. n \in b.at .. EndOf(b) - 1 /\ n \in c.at .. EndOf(c) - 1
      BY <2>1 DEF BytesOf
    <2> QED BY <2>2, <2>3, <1>6
  <1>8. (UNION {BytesOf(b) : b \in B}) \cup lost = 0 .. malloc_end - 1
    <2>1. ASSUME NEW n \in 0 .. malloc_end - 1
          PROVE  n \in (UNION {BytesOf(b) : b \in B}) \cup lost
      <3>1. CASE n < lo
        <4>1. n \in 0 .. lo - 1
          BY <3>1, <1>5
        <4> QED BY <4>1, <1>1
      <3>2. CASE ~(n < lo)
        <4>1. n \in lo .. malloc_end - 1
          BY <3>2, <1>5
        <4>2. PICK b \in B : b.at <= n /\ n < EndOf(b)
          BY <4>1, <1>4 DEF Tiling
        <4>3. n \in BytesOf(b)
          BY <4>1, <4>2, <1>5, <1>6 DEF BytesOf
        <4> QED BY <4>3
      <3> QED BY <3>1, <3>2
    <2>2. ASSUME NEW n \in lost
          PROVE  n \in 0 .. malloc_end - 1
      BY <1>1, <1>5
    <2>3. ASSUME NEW b \in B, NEW n \in BytesOf(b)
          PROVE  n \in 0 .. malloc_end - 1
      <3>1. n \in b.at .. EndOf(b) - 1
        BY DEF BytesOf
      <3> QED BY <3>1, <1>5, <1>6
    <2> QED BY <2>1, <2>2, <2>3
  <1>9. \A b \in used : malloc_usable_size(b) >= b.asked /\ (b.at + SizeT) % b.align = 0
    <2>1. SUFFICES ASSUME NEW b \in used
                   PROVE  malloc_usable_size(b) >= b.asked /\ (b.at + SizeT) % b.align = 0
      OBVIOUS
    <2>2. b \in UsedCells /\ b.size - SizeT >= b.asked /\ Divides(b.align, b.at + SizeT)
      BY <1>4 DEF Serves
    <2>3. PICK m \in Nat \ {0} : m = b.align
      BY <2>2 DEF UsedCells
    <2>4. PICK v \in Nat : v = b.at + SizeT
      BY <2>2, <1>5 DEF UsedCells
    <2>5. v % m = 0
      BY <2>2, <2>3, <2>4, Remainders
    <2> QED BY <2>2, <2>3, <2>4, <2>5 DEF malloc_usable_size
  <1>10. \A b \in B : b.size >= Entry /\ b.at % SizeT = 0
    <2>1. SUFFICES ASSUME NEW b \in B
                   PROVE  b.size >= Entry /\ b.at % SizeT = 0
      OBVIOUS
    <2>2. b.size >= Entry /\ Divides(SizeT, b.at) /\ b.at \in Nat
      BY <1>4, <1>6 DEF Shaped
    <2>3. PICK v \in Nat : v = b.at
      BY <2>2
    <2>4. v % SizeT = 0
      BY <2>2, <2>3, <1>5, Remainders
    <2> QED BY <2>2, <2>3, <2>4
  <1>11. \A i \in 1 .. Len(freelist) - 1 : EndOf(freelist[i]) < freelist[i + 1].at
    <2>1. Len(freelist) \in Nat /\ \A i, j \in 1 .. Len(freelist) : i < j => EndOf(freelist[i]) < freelist[j].at
      BY <1>2 DEF Listed
    <2>2. \A i \in 1 .. Len(freelist) - 1 : i \in 1 .. Len(freelist) /\ i + 1 \in 1 .. Len(freelist) /\ i < i + 1
      BY <2>1
    <2> QED BY <2>1, <2>2
  <1>12. /\ mallinfo.uordblks = MapThenSumSet(SizeOf, used) + Cardinality(lost)
         /\ mallinfo.keepcost + mallinfo.uordblks <= mallinfo.arena
    BY <1>1, HeapCounts
  <1> QED BY <1>7, <1>8, <1>9, <1>10, <1>11, <1>12 DEF HeapSound, B

----------------------------------------------------------------------------
\* Whatever is allocated, aligned, resized and given back, in any order and
\* after any restart, with the stack anywhere, the heap of tiny-malloc.c is
\* sound: no two blocks overlap, no byte is lost, every block serves what was
\* asked for, the free list is in order with its neighbours joined, and
\* mallinfo counts what is there; for any sizes, any alignments memalign takes
\* and any sizeof (size_t).
THEOREM HeapStaysSound == Spec => []HeapIsSound
  <1>1. Init => HeapInv
    BY HeapStarts DEF Init
  <1>2. HeapInv /\ [Next]_vars => HeapInv'
    <2>1. ASSUME HeapInv, [Next]_vars
          PROVE  MallocStep \/ UNCHANGED mallocVars
      BY <2>1 DEF Next, Heap, DemoProgram, DemoHandler, DemoGateways, Others, Demo, Clocks, MtCore, vars
    <2> QED BY <2>1, HeapSteps
  <1>3. HeapInv => HeapIsSound
    BY HeapInvHolds DEF HeapIsSound
  <1> QED BY <1>1, <1>2, <1>3, PTL DEF Spec
==============================================================================
