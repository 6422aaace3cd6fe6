# A TLA+ model of the E203 core and of the software that comes with it

The repository is the Hummingbird E203, a two-stage RISC-V core (RV32IMAC) with
its bus fabric and peripherals in Verilog, and the C and C++ programs it is
verified and used with: the instruction set simulator (Spike) that the tests are
compared against, the front-end server that loads and serves a target, the
multi-threaded and virtual-memory tests, and the SDK's drivers and
demonstration. The project models the core's control cycle by cycle, and of the
software the parts with state: what is shared between threads, harts, host and
target, what is cached, what is retried, and the arithmetic the rest is checked
against. It holds TLA+ modules translated from the sources, TLC configurations,
and proofs checked by TLAPS.

`PROJECT.json` lists components, runs, mutants, findings, hazards and theorems,
and maps every definition to the lines it models.

    tlc -workers 2 -config ExuHazard.cfg MCExu     # a run: see PROJECT.json "runs"
    tlapm ExuProofs.tla                            # a module's proofs

## 1. Inventory

### The pipeline

| Part | State it keeps | Operations | Talks to |
|---|---|---|---|
| Fetch stage, `e203_ifu_ifetch.v` | PC, one outstanding fetch, IR, the IR's PC with its own valid bit, delayed flush, halt acknowledge, reset request | request, answer, flush, halt, hand the IR over | lane logic (request/answer), EXU (IR, flush, halt) |
| Static predictor, `e203_ifu_litebpu.v` | borrowed register port | predict, wait for a JALR's register | fetch stage, OITF, register file |
| Lane logic, `e203_ifu_ift2icb.v` | state machine 0/1/2 accesses, leftover halfword, bypass buffer | split a fetch into bus accesses, reuse a held lane | fetch stage, ITCM, BIU |
| ITCM, `e203_itcm_ctrl.v` | command buffer, response stage, held-up flag, outstanding count | arbitrate, access, respond | IFU, LSU, external port |
| Dispatch, `e203_exu_disp.v` | none | RAW/WAW check, dispatch conditions, WFI halt | IR, OITF, ALU |
| OITF, `e203_exu_oitf.v` | ring of valid bits and payloads, two pointers with wrap flags | allocate, retire, match | dispatch, long-pipe write-back |
| AGU, `e203_exu_alu_lsuagu.v` | AMO state machine, leftover data and error | load, store, AMO | dispatch, LSU, commit |
| LSU, `e203_lsu_ctrl.v` | FIFO of one outstanding command | command, answer | AGU, memories, long-pipe write-back |
| Write-back, `e203_exu_wbck.v`, `_longpwbck.v` | register file | ALU and long-pipe write-back, match an answer with the OITF head | ALU, LSU, OITF, commit |
| Commit, `e203_exu_commit.v`, `_branchslv.v`, `_excp.v` | WFI flag and halt request, step request | commit, flush, trap, interrupt, debug entry, WFI | all of the above |
| CSRs, `e203_exu_csr.v`, `debug/sirv_debug_csr.v` | mstatus, dcsr, dpc, cause of the debug entry | CSR writes, traps, mret, dret | commit |
| Clock control, `e203_clk_ctrl.v` | none | gate the clocks of IFU and EXU | activity and WFI signals |

### Around it

LSU split and exclusive monitor, DTCM, BIU, multiplier and divider; the ICB
building blocks (`general/sirv_gnrl_icbs.v`, `sirv_gnrl_bufs.v`: arbiter,
splitter, buffer, FIFO, clock-domain crossing, width converter) and the fabric
instantiating them; reset and clock generation with a glitch-free multiplexer;
JTAG and debug module; PLIC, CLINT, always-on domain; serial peripherals.

### The software

Sources under `riscv-tools/`: `isim` is `riscv-isa-sim/riscv`, `fesvr` is
`riscv-fesvr/fesvr`, `tests` is `riscv-tests`.

| Part | State it keeps | Operations | Talks to |
|---|---|---|---|
| Floating point, `riscv-isa-sim/softfloat`, `isim/insns/f*.h` | fflags, frm, FP registers | every F and D instruction | hart |
| Integer instructions, `isim/insns`, `decode.h`, `mulhi.h` | none | I, M, A and C instructions at XLEN 32 and 64 | hart |
| Hart, `isim/processor.cc`, `execute.cc` | privilege, CSRs, batch counter, step state, debug mode | run a batch, trap, interrupt, CSR write, debug entry and return | scheduler, debug module |
| Scheduler and CLINT, `isim/sim.cc`, `clint.cc` | current hart and its turn, reservations, mtime, mtimecmp | step, switch, load, store, LR, SC | harts, host |
| Decoder, `isim/processor.cc` | instruction list, opcode cache | look up, move to front | hart |
| Cache models, `isim/cachesim.cc` | tags with valid and dirty bits | access, evict, write back | MMU's tracer |
| MMU, `isim/mmu.cc`, `mmu.h` | TLB with three tags per index, instruction cache, matched trigger | load, store, fetch, refill, flush | hart, triggers, tracers |
| Paging environment, `tests/env/v/vm.c` | page tables, free list, saved pages | handle fault, evict, terminate | MMU (it runs on it) |
| Debug module, `isim/debug_module.cc`, `debug_rom` | DMI registers, flags, halted words, buffers | DMI read and write, abstract command, the ROM's polling loop | harts, transports |
| Debug transport, `fesvr/dtm.cc` | host thread's position, request on the wires | halt, resume, read and write chunks, CSR access | debug module |
| JTAG port, `isim/jtag_dtm.cc`, `remote_bitbang.cc` | TAP state, shift registers, buffers | bit-bang commands, DMI scans | debug module, a client |
| Host-target interface, `fesvr/htif.cc`, `syscall.cc`, `device.cc`, `tsi.cc` | tohost, fromhost, reply queue, descriptors, exit code | poll, dispatch, system calls, reply, signal | target, host's files |
| Memory interface, `fesvr/memif.cc`, `elfloader.cc` | none | read, write, load segments in aligned chunks | transport |
| Contexts, `fesvr/context.cc` | flag, mutex, condition | create, switch to | host and target threads |
| Multi-threaded tests, `tests/mt`, `benchmarks/mt-*` | matrices, barrier | divide, copy, multiply, barrier, verify | each other |
| Allocator, `tests/debug/programs/tiny-malloc.c` | free list, heap end | malloc, free, realloc, memalign | test program |
| Demonstration and PLIC driver, `sirv-e-sdk` | GPIO, PLIC and timer registers, handler table | set up, toggle, handle timer and buttons | PLIC, CLINT |
| Clock driver, `sirv-e-sdk/bsp/drivers/fe300prci` | oscillator and PLL configuration, trim | switch, measure, search | CLINT, counters |

### What is hard, and what correctness means

* **Out-of-order completion.** Loads finish after younger ALU instructions.
  Correct when no instruction reads a stale operand, no late answer overwrites
  a younger value, and an answer is matched with its own OITF entry.
* **Precise traps.** Flush and the ready towards the ALU are computed along
  different combinational paths, from interrupts, late bus errors, debug
  requests and the instruction's own exception, all in one cycle. Correct when
  the instruction in the IR takes effect or is flushed, never both or neither.
* **AMO.** A seven-state machine that interrupts and the debugger must not cut.
* **WFI and clock gating.** A four-party handshake (commit, dispatch, IFU,
  clock control), parts of it in gated clock domains. Correct when nothing is
  in flight while the clock is stopped and every wake-up gets through.
* **Delayed flush.** A flush is acknowledged before its target can be fetched;
  answers to cancelled fetches arrive later. Correct when only the current path
  is executed, with the PCs it was fetched from.
* **Prediction of JALR.** The target is read from the register file under the
  EXU's nose and never checked again.
* **Lanes.** A 32-bit instruction may lie across two lanes, two memories or the
  end of the address space, and half of it may still be on the ITCM's output.

* **Caches of decisions.** TLB tags, opcode cache, decoder list and instruction
  cache answer in place of a walk. Correct when the answer is what the walk would
  say now, and when nothing that must see every access is bypassed.
* **Batches.** The simulator retires instructions in batches that end in eight
  ways. Correct when counters, saved PCs and the step agree in all of them.
* **Shared words without locks.** Debugger and hart, host and target, handler and
  main loop, core and core. Correct when each message is seen once, no update is
  lost and nobody waits for ever.
* **Failure in the middle.** A chunk whose third word faults, a signal during a
  system call, a restart of the test program, an eviction during a fault.
* **Arithmetic at its edges.** Rounding, saturation, carries between words,
  counters that wrap during a measurement.

The hazards in `PROJECT.json` name these line by line.

## 2. Modules

### The core

One step is one rising clock edge. A register is a variable, a wire an operator
with the RTL's name, and what a block does at the edge a `...Clk` operator; the
next-state relation is their conjunction, so there is no interleaving inside a
clock domain, and what is interleaved is the environment: memories, interrupt
lines, debugger, other bus agents, the program.

    InOrderTracker      what the OITF promises
          ^ refines
        Oitf  <------ ExuProofs
          ^               ^
         Exu  <-----------+          MCExu: execution stage, abstract fetch stage
          ^ refines       ^
        Core  <------ CoreProofs     MCCore: Exu + INSTANCE Ifetch + predictor
       Ifetch                        fetch stage
          ^
        Fetch <------ FetchProofs    MCFetch: Ifetch + Ift2icb + Itcm + BIU
    Itcm <- Ift2icb

The proof modules are on the right; section 4 is about them.

* **`InOrderTracker`** is a bounded queue: track while there is room, retire the
  oldest, both in a cycle.
* **`Oitf`** is `e203_exu_oitf.v`. `Dispatch`, `Retire` and `DispatchAndRetire`
  are the module with its users' guarantees; `OitfClk` is what `Exu` uses. The
  refinement mapping `Flight` reads the ring from the retire pointer on.
* **`Exu`** is the execution stage. Input wires (interrupt lines, the memory's
  answer and ready) are variables, so every wire is a function of the state and
  an RTL assertion is an invariant. An instruction is an operation with the
  registers it reads and writes. Addresses, PCs and arithmetic are abstracted:
  an ALU result or load value is any of `Vals`. An unaligned AMO traps like an
  unaligned load and is merged with it. The three interrupt lines are one,
  already masked by `mie`. `arch` is a history variable: the registers as
  program order defines them. `stepped` counts commits since debug mode was
  left. The IFU is abstract here: it fills a free IR, it may show the PC
  before the instruction, it acknowledges a halt at some time.
* **`Ifetch`** is `e203_ifu_ifetch.v`, its inputs collected in a record `i`.
  `req_pc` is the address on the bus; `ir_src` is history.
* **`Core`** puts `Ifetch` and the predictor in the place of Exu's abstract IFU.
  A PC is abstracted to the *path* it lies on: each flush starts a new one,
  counted modulo `NPath`. `ImplementsExu` says that the real fetch stage is one
  that `Exu` allows for, so what is checked of `Exu` carries over.
* **`Itcm`**, **`Ift2icb`**, **`Fetch`**: the whole fetch path. Addresses count
  halfwords; a halfword's contents are its own address, so that what is
  delivered tells where it came from. A lane is four halfwords in the ITCM and
  two behind the BIU. A bus nobody drives for the IFU carries `Junk`, which the
  mini-decoder may read as anything in `Junks`; a multiplexer with nothing
  selected delivers `Zero`. A program gives each halfword an instruction length
  and a jump distance. The inputs of the cycle are a record `e` chosen in
  `FetchNext`; inputs on which no wire depends in the state at hand are fixed. The EXU is
  reduced to taking instructions, flushing, halting and waking. `npc` is the
  next instruction of the program and `slipped` remembers the situation of
  observation 3 below.

### The software

A step is one access to what is shared: a load or store of a register or a word,
a lock, a message, one instruction of a hart. Where nothing is shared, as in an
arithmetic function, the whole call is a step. Functions keep the code's names;
their results are values (records of what is left in registers, flags and
memory), so that one definition serves the model and the comparison with a
reference.

    SoftFloat <- SfConvert <- SpikeFpu                   IeeeReference
    SpikeInsns   SpikeDecode                             IsaReference
    SpikeHart   SpikeSim   CacheSim  <------ SpikeProofs
        all of these  <------ MCSpikeUnits
    SpikeMmu <- VmEnv <------ MCVmEnv         VmEnv <------ VmEnvProofs
    DebugModule <- Dtm, JtagDtm <------ MCDebug <------ DebugProofs
    Htif, Memif, Context <------ MCHtif <------ HtifProofs
    TinyMalloc, SdkDemo, SdkClock, Mt <------ MCPrograms <------ ProgramsProofs

An arrow points from the module to the one that is used. The four MC modules with
several parts hold a variable (`unit`, `port`, `part`) that says which part runs in
a behaviour; the others keep their initial values. `MCDebug` composes: the debug
module and its harts run under either transport.

* **`SoftFloat`, `SfConvert`, `SpikeFpu`** are the simulator's
  floating point. A format is a pair of widths; the code's masks and shifts are
  functions of them, so binary32 and binary64 are two instances of one text and
  small formats exercise the same paths. The 64- and 128-bit words of the code
  are split where the code splits them. `softfloat_roundingMode` and the
  exception flags are variables because they outlive an instruction.
  `IeeeReference` is written from IEEE 754, not from the code: exact numbers,
  rounded once.
* **`SpikeInsns`** has the integer and compressed instructions over words of `RegBits`
  bits; **`IsaReference`** says what each is to do in integers, a compressed one
  being the one it expands to.
* **`SpikeHart`** is one hart: `Begin`, `TakeInterrupt`, `StartBatch` and
  `execute_insn` are the parts of `processor_t::step`; `Event` is what the CLINT
  and the debug module do between two calls. `retired`, `saved*` and `stepped` are
  history.
* **`SpikeSim`** is the main loop with its turns, reservations and the CLINT;
  **`SpikeDecode`** the decoder's list and hash table; **`CacheSim`** two levels
  of the cache models, the pseudo-random victim being any way.
* **`SpikeMmu`** is the memory port: walk, TLB, instruction cache, triggers,
  tracers. **`VmEnv`** runs `vm.c`'s handler on it, instruction by instruction
  where it touches tables or user pages, under a test that loads, stores, fetches
  and makes system calls, and a debugger that sets triggers.
* **`DebugModule`** has the DMI registers, abstract commands and the words shared
  with the debug ROM, whose loop each hart runs; **`Dtm`** is the host's side over
  direct DMI requests; **`JtagDtm`** the TAP, the bit-bang server and its client.
* **`Htif`** is the server's loop, devices, system calls and descriptors with the
  target's `syscall()` and `do_tohost()`; **`Memif`** the cutting of an access
  into chunks; **`Context`** the pthread coroutines, lock by lock: the flag is read
  in one step and the wait begun in another, so the mutex has something to protect.
* **`TinyMalloc`** has a heap of bytes with a list of free blocks; **`SdkDemo`** the
  program, handlers, PLIC driver, and the devices as far as the driver sees them;
  **`SdkClock`** the clock driver and the measurements; **`Mt`** the division of
  work of 49 test programs as sequences of loop nests and barriers. An element of
  a matrix is the set of products added to it, so a product lost, added twice or
  read from an unfinished copy is visible.

A mutant is a plausible bug in the definition below it; no specification uses
one. Each property is violated when its mutant replaces the original.

## 3. Runs

| Run | Bounds | Shows |
|---|---|---|
| `exu_hazard` | depth 2, 2 registers, 2 values; ALU, load, store, AMO; memory answers at any time, also with errors, and stalls commands | no RAW or WAW hazard gets through and an answer finds its entry at the head (`HazardsInterlocked`); gating the EXU's clock loses nothing; the OITF's pointers and valid bits agree, and it implements the queue |
| `exu_debug` | depth 2, 1 register, 1 value; every operation but JALR (and plain stores, which differ from loads in nothing checked here); interrupts, debug interrupts, halt or step or ebreak redirection | precise flushes and atomic AMO (`TrapsArePrecise`), safe sleep, every instruction commits and a step executes one (`StepsAreExact`) |
| `core_fetch` | 3 paths; load, CSR, mispredicted branch, WFI, bus errors, interrupts; fetch target stalls | only the current path is issued and the saved PC is current (`PathIsCurrent`); Core implements Exu |
| `core_jalr` | 2 registers, 2 values; LUI, load, both JALRs | the JALR target comes from the program-order value |
| `core_live` | load, AMO, CSR, JALR, WFI, interrupts | no lock-up of the whole pipeline; WFI wakes and an enabled pending interrupt is taken (`InterruptsServed`) |
| `fetch` | 3 ITCM lanes, 2 system lanes, one with a bus error | the IR carries what memory holds at its PC, IR and PC belong together, the next instruction is fetched (`FetchedExact`); the held lane is the IFU's; the IFU sleeps with no answer under way |
| `spike_units` | formats of 6+4, 8+13 (8+6, 11+18 for the wide paths) bits with operands at every boundary, all rounding modes; RegBits = 8; 2 harts with turns of 3; a hart of 4 instructions and 2 events; 5 cache accesses; hash table of 3 | results are exact arithmetic rounded once, conversions saturate and round (`ArithmeticExact`, `ConversionsExact`), flags accrue; integer instructions are the ISA's and decoding does not depend on history (`InstructionsExact`); reservations and timer (`SimSound`); no write is lost between cache levels (`WritesConserved`); instruction count, returns and steps (`HartSound`); supervisor code cannot reach machine state |
| `spike_vm` | 2 user pages on 1 TLB entry, 3 frames; 3 triggers; 3 machines (RV32, RV64, tracers) | TLB and tables agree and paging is invisible (`PagingExact`); no data access escapes a trigger or a tracer (`AccessesWatched`); each access completes |
| `debug` | 2 harts, 2 words, 2 operations of 6; a buffer of 3 bytes, 2 scans | buffers belong to one side at a time; registers come back and transfers are right after faults (`DtmFaithful`); scans are done once and in order; all that is asked ends |
| `htif` | 3 requests of 18, 5 descriptors; memory of 12 bytes, chunks of 4 to 8, a program with overlapping segments | one reply per request, none lost; descriptors follow the host's; chunked access and coroutines (`AccessExact`); every wait ends |
| `programs` | heap of 22 bytes, 3 sizes, 2 alignments, a restart; 2 buttons, 2 presses; counters of 8 and 32; 49 programs on one core, all but `cf` and `cm` (observation 15) on two | the heap is sound; no update, press or interrupt is lost, the clock never stops and the barrier separates (`ProgramsSound`); measurements are exact and verify() succeeds (`ResultsExact`); a press is served and leaves its light set (`PressesServed`); these tests end |
| `exu_halt_flush` | as small as shows it | the finding below |

Deadlock is checked in the core's runs and in `spike_vm`. The other software
stops: calls, requests and presses are finite.
`exu_hazard` and `core_jalr` are reduced by the symmetry of the data values, which
the models only move and compare; registers are not symmetric, as `x1` is one of
them.

Why the bounds suffice. `OITF_DEPTH = 2` is the value the E203 is built with;
the ring, and the execution stage around it, is proved for every depth. With one command
outstanding in the LSU (`E203_LSU_OUTS_NUM` = 1), two registers let a RAW, a WAW
and an independent instruction meet, and two values tell a stale one from a
fresh one. Where a property does not look at data, one register and one value
are used, so that every operation, interrupt and debugger write fits. Three
paths tell the current path, the one cancelled last and the one before apart;
a fetch answered late is of one of them since only one is outstanding. In
`core_jalr` there is no flush, and in `core_live` no property looks at paths, so
two do. `fetch`'s program has a 32-bit instruction across the end of an ITCM lane, of
the ITCM, of a system lane and of the address space, a 16-bit one at the end of
a lane, and a 32-bit jump; flushes go into the middle of a lane and to a word
that crosses into the lane with the bus error. `stepped` stops at 2, enough to
see that a step executed more than one.

In the software, bounds are chosen so that what is limited in the code is at its
limit: one TLB entry shared by all pages, a hash table
smaller than the program, a send buffer smaller than an answer, a heap that
fills, counters that wrap inside a measurement. The small floating-point
formats keep the relations between widths that the code relies on (a product of
two F32 fractions in an F64 word, guard bits, the split of the wide product), and
their operands lie around zero, subnormals, powers of two, ties, the largest
number, infinity and NaN. Two cores and two harts suffice where the code tells
only self from another; the barrier's second round is included. In `Mt` the rows
and columns followed are those at the ends of every block the programs cut.

`HaltFlush = FALSE` in `fetch` restricts the environment by the commit
stage's own assertion, that no flush comes during a halt. The finding shows that
the EXU can break it; observation 6 says what the fetch path then does.
`exu_debug` restricts the debugger to halt *or* step, as a debugger does;
observation 1 says what both do. `core_fetch` has no debug interrupts, see
observation 2, and `FetchFollows` excepts the state of observation 3.

### Fairness

* `WF_core_reg_vars(CoreCycle)`: the clock ticks. The subscript has the registers
  only, so a step that only changes inputs does not count, and no input is
  forced to toggle.
* A memory answers every command and becomes ready again: what the ICB protocol
  asks of a slave. Without it the RTL waits for ever, by design.
* `VmEnv`: the simulator keeps stepping the hart (its main loop is endless).
* `MCDebug`: the main loop steps every hart and calls the server's tick in
  turn, the target's clock ticks the transport. The client owes nothing.
* `MCHtif`: host, adapter and a target that waits keep running. A thread that
  wants a mutex gets it (strong fairness: the mutex is free again and again);
  the scheduler guarantees it.
* `MCPrograms`: the core executes, takes enabled interrupts, the gateways are
  clocked; each core of a test keeps executing. Nobody need press a button.

## 4. Proofs

Eight modules hold theorems. Each theorem is about a specification TLC also runs,
without its fairness, and holds for every value of the constants that the named
assumptions admit: any depth, any set of operations, registers, programs, lanes
and requests. The runs show the same properties, and most parts of the inductive
invariants were checked by TLC on the runs' instances before they were proved.

| Module | Specification | Proved |
|---|---|---|
| `ExuProofs` | `OitfSpec` | type, `VldBetweenPointers`, refinement of `InOrderTracker` |
| | `ExuSpec` | type, `VldBetweenPointers`, `HazardsInterlocked`, `TrapsArePrecise`, `SleepIsSafe`, `GatingLosesNothing`, `StepsAreExact`, refinement of `InOrderTracker` |
| `CoreProofs` | `CoreSpec` | refinement of `ExuSpec`, `PathIsCurrent`, `JalrTargetFresh`, and what holds of paths with a debugger |
| `FetchProofs` | `FetchSpec` | `FetchedExact`, `HoldupIsIfuLane`, `IfuSleepsQuietly` |
| `HtifProofs` | `HtifSpec` | `HtifProtocol`, `FdsFollow` |
| | `Spec` of `MCHtif` | `AccessExact`, from `MemifSpec` and `ContextSpec` |
| `DebugProofs` | `Spec` of `MCDebug` | `CommandExclusive`, `JtagDelivers` |
| `SpikeProofs` | `HartSpec` | `HartSound`, `SupervisorConfined` |
| | `SimSpec`, `CacheSpec` | `SimSound`, `WritesConserved` |
| `VmEnvProofs` | `Spec` of `VmEnv` | `PagingExact`, `AccessesWatched` |
| `ProgramsProofs` | `Spec` of `MCPrograms` | `ProgramsSound`, `HeapIsSound` |

### The OITF

The inductive invariant is `OitfInv == OitfTypeOK /\ VldBetweenPointers`. Types
alone are not inductive for the agreement, nor is the agreement of the status
wires: one needs that an entry is valid exactly when its age is below the
occupancy, an occupancy computed from pointers and wrap flags. `OccupancyStep`
shows, case by case over dispatch and retirement, that a clock edge changes the
occupancy by what was dispatched less what was retired; `OitfClkInv` lifts that
to the valid bits. For the refinement, `SlotFacts` and `SlotShift` say where the
k-th oldest instruction lies before and after the retire pointer moves, and one
lemma per action (`FlightTrack`, `FlightRetire`, `FlightTrackAndRetire`) shows
that the queue read from the ring makes the abstract step. `OitfSpec` lets
dispatch and write-back act at any time their guards allow. That the EXU drives
it no other way is `OitfStep` of `ExuProofs`, so the theorems carry over
(`ExuImplementsTracker`).

### The execution stage

`ExuInv` is the type invariant, the agreement of the OITF's pointers,
`RegfileArchitectural`, and:

* `LsuInv`: the LSU's slot and the OITF count the same instructions. With one
  command outstanding, a load or store in the slot is the OITF's only entry, and
  the command of an AMO has none; what a load will deliver is what program order
  says its register holds. Without it an answer might find a foreign entry at the
  head, and the register file would be right only by accident.
* `AmoInv`: an AMO beyond its first state is in the IR, owns the LSU, and no step
  or halt request was pending when it began. Only so can nothing but its own bus
  error flush it.
* `WfiInv`, `StepInv`, `IrInv`: a sleeping core has halted its IFU and has an empty
  OITF; a pending step request dates from the one commit that a step allows.

The properties are functions of one state's wires, and each has a lemma
(`FlushPrecise`, `AmoAtomic`, `SleepSafe`, `GatingSafe`, `LeavingCommits`) that
derives it from `ExuInv`. The edge is proved register by register. One assumption
is a theorem's own: `ExuStepsAreExact` assumes that no write of dcsr sets halt and
step at once, because the code is wrong then (observation 1).

### The pipeline

`FetchIsAllowed` shows that a cycle of the real fetch stage is one of those that
`Exu` allows its abstract one; hence `ImplementsExu`, and all of `ExuInv` as an
invariant of `Core`. `CoreInv` adds what ties a PC to a path (`PathInv`): every PC
in the fetch stage lies on the current path but the IR's PC, which a flush may leave
behind in an empty IR, and while it is stale interrupts are masked. This clause is
what observation 2 breaks: a debug interrupt is not masked. So
`CorePathIsCurrent` assumes `DbgLevels = {FALSE}`, as the run does, with
`NoDebugInv` as one more conjunct; `CoreOnlyCurrentPath` says what holds without
that assumption: everything but dpc.

### The fetch path

`FetchInv` locates the outstanding fetch: in the lane logic or its bypass buffer
(`OutInv`), its accesses in the ITCM's command buffer, its response stage or the BIU
(`BusInv`), each made for the lane that the fetch needs, unless a flush has
cancelled it (`LaneInv`, `UopInv`), and what the SRAM's output still shows when the
next fetch reuses it (`HoldInv`). `NextInv` ties the PC on the bus to the
program's next instruction. The two assumptions of the theorems are
`HaltFlush = FALSE`, the commit stage's assertion `CHECK_1HOT_FLUSH_HALT`, without
which observation 6 applies, and `ITCM_OUTS_NUM = 1`, which is how
`e203_defines.v:202` sets it.

### The host-target interface

The theorems hold for any `MaxRequests`. `OrderInv` numbers the commands and says that what was issued
has been handled, is being handled or waits in tohost; `WiresInv` what a transport
that posts its writes may still hold; `AnswerInv` that a waiting program has one
request, which is in exactly one place: tohost, the handler, the queue, the pending
reads, a posted write or fromhost. `DataInv` says which of the
memory and the posted writes hold a system call's result, and that the buffer
arrives first. `FdsInv` is about the descriptor table: used slots lead to
different open descriptors of the host, which needs that a new descriptor of the
host is one not open (`FirstFreeIs`, `FreeHostFdIs`). `HtifAssumption` says that
a request is one of the calls of the table in `syscall.cc`.

### The debug module

The module does not stop a debugger from selecting another hart, or from
resetting the module, while a command runs; after that, busy would be about the
wrong hart. On the JTAG port the modelled client reaches only the data register.
On the transport it is the front-end server that keeps itself from it, and the proof
is about what it has still to ask for. `Scripts` are the sequences of requests in
which whatever may start a command is followed by the poll that sees busy clear
before anything selects a hart, and in which autoexec is switched on only while no
data is read and switched off later. A lemma for each function of `dtm.cc` shows
that its requests are such a script, for chunks of every length and any number
of harts, and `ScriptTail` that a script stays one as it is worked off. `DebugInv`
then relates the two sides: while the module is busy the rest of the script
awaits the poll (`Orderly`), while autoexec is on the rest reads no data, and a
poll that has seen busy clear has seen it for good. `HartKeeps` and `DmiKeeps`
show that every step of a hart, and every access of a debugger so polite, keeps
`CommandExclusive`. `OpsAssumption` says that memif asks for at least one word.

`JtagDelivers` is proved from what is left to happen. `Run` says what a character does
to the TAP, the data register, the scans performed and the bits given back; a `Trail`
is the port after each of a string of characters, and `OnTheWay` that the characters in
the server's buffer and in the socket lead from where the port is to where every scan
has been performed and the client has its bits (`Settles`), with no more than the last
two scans missing on the way (`Recent`). A character that the server takes is one
step of the trail, wherever its batches end (`TurnHolds`); the socket's cuts move
characters from one part of the string to the other (`Cut`); a scan that the client
begins goes behind what is left of the last one (`NewScan`), which may still be its return
to the idle state, as the client has its five bits before that. What a
scan's characters do, with and without the pause, from any such state, is worked out
clock by clock (`DmiScan`, `SelectsDmi`, `Opens`), and the bits of the register that is
shifted are those that went in (`ShiftedIn`). `BufAssumption` has batches hold
at least one character.

### Access to memory, and the contexts

`MemifInv` follows an access through the pieces it is cut into. What remains is
`Fit`: each piece is a legal chunk of the target and moves its own bytes to or from
their own place in the buffer; and what none of the remaining pieces holds is done
(`Written`, and its counterpart for reads). A piece that is read and written back
(`modify`) then keeps its neighbours because memory has not changed since. While a
program is loaded, memory is the image of the segments before the current one, the
last one that holds a byte giving its value. The proof attempt corrected the model
here: the image had been defined for segments that do not overlap, which nothing in
`elfloader.cc` demands. `MemifAssumption` has the sizes of chunks whole words (4 and
1024 on the TSI, xlen/8 and 4096 over DMI, 8 and 8 in the simulator), programs in
memory, and memsz at least filesz, as ELF has it.

`ContextInv` says that somebody has the baton: the other thread has its flag cleared
and is on its way to its wait, or in it, and who finds its flag set there will be woken
(`WillWake`). Here too the proof found the model too generous: reading the flag and
beginning to wait were one step, and the alternation then held without the
mutex. They are two now, as in `switch_to`, and `Held`, who has the mutex when, is
what excludes the wake-up that comes in between.

### The simulator

`HartInv` states what holds between two instructions of a batch: nothing that retired
is uncounted until debug mode is first entered, a step in progress is remembered and
outside debug mode, and the saved registers still say what the ghosts of the latest
trap and debug entry say. The first form of the ghost was not inductive: a wfi, mret
or sret that is stepped leaves `single_step` at "stepped"; a halt request then enters
debug mode, the first instruction of the ROM "ends the step", and debug mode is
entered again with dpc in the ROM (observation 9). `SupervisorConfined` is proved from the shape of the steps (`StepEffect`,
`TrapEffect`, `CsrEffect`): below machine mode they change only supervisor fields,
those of mstatus, mie and mip through masks. `CsrWritesAssumption` has privileges
of two bits and no jump of the software into the debug ROM.

`SimInv`: only the hart whose turn it is holds a reservation, none does while the host
runs, and nobody has written where it points. That is why the code's reservation,
which no store clears, is good after all: the turn ends first.

`CacheInv` follows each dirty line: what was stored is dirty in the first level, dirty
in the second, or written to memory. A miss of the first level that evicts writes back
before it reads, and the read may then evict that very line, so the proof goes through
the two accesses one after the other (`Kept`). `CacheAssumption` demands that a line
of the second level holds whole lines of the first; the code accepts other sizes, and
the property is false for them (observation 11).

`VmInv` says of each statement of `vm.c` what it may rely on. The tables are what
`vm_boot` made them but for the test's pages, each mapped to a frame of its own; the
free list has a frame for each of the others; a page holds what the test stored, and
the image until it is dirty; and a valid tag of the TLB grants what the tables grant,
with `check` set exactly when a trigger watches that type of access and no tag at all
where a tracer does. Each store to the tables is followed by its flush before user
mode runs again, which is what keeps the last clause. `VmAssumption` keeps triggers
to user mode, as the debugger does here, and the test within one table; sizes are free.

### The programs

`BarrierInv` is that of one round: every core has entered e or e + 1 barriers, its own
sense differs from the shared one exactly in the second case, and `count` is the
number that entered. The last to come is alone in clearing the count and turning the
sense, for any number of cores. `DemoInv` relates the lights to what the handlers have
asked for, in the middle of a read, change and write as well, and what is in flight in
the PLIC to the handler that has claimed it. `ClockInv` says which oscillator runs at
each place of the driver, with `Settles` for the wait of the PLL across a wrap of the
counter.

`HeapInv` says that from some address on, everything below which restarts have given
up, the blocks given out and those of the free list tile the heap up to its end; each
is in whole words, large enough to become free and, if given out, as large and aligned
as asked for, and the free list is in order without two neighbours. What a call does is
always the same: it replaces what lies between two places of the list, and blocks given
out, by others that fill the same bytes, or more at the end (`HeapSplice`). `malloc`
and `memalign` are four instances (`TakePart`, `Enlarged`, `GrowFree`, `GrowUsed`),
`free` one with four cases (`MergedOK`), `realloc` of less splits a block given out in
two and frees the second. The counts of mallinfo follow from the tiling: the sizes of
blocks side by side add up to what they cover (`TileSum`). `MallocAssumption` has
positive sizes and, of alignments, that they divide or are divided by sizeof (size_t),
as powers of two do; `memalign` returns NULL for others.

### Technique, and what is left to TLC

Induction over numbers is done with a least element: a set of numbers that is not
empty has one (`LeastNat`, from the well-foundedness of strict inclusion on finite
sets), which gives `NatClimb`, for sequences of sequences `FlattenClosed`, and for the
fold over a set of blocks that it exists and does not depend on the order (`SumExists`,
`SumAnyOrder`).
Component specifications share no variables in the MC modules that put several side
by side, so an invariant of each is one of their composition; of `MCSpikeUnits`, which
reaches operators the prover cannot, the components' own specifications are proved
(`HartSpec`, `SimSpec`, `CacheSpec`).

Left to TLC, since no installed prover does them: liveness and everything under
fairness, and what a definition recursive over data computes for every input. The
latter is what `SoftFloat`, `SpikeInsns` and the two references are about; modules that
reach a RECURSIVE operator or `Bitwise` (`IsaReference`, `SpikeDecode`,
`SpikeInsns`, `MCSpikeUnits`) hold no theorems.

Model-checked only: the arithmetic (`InstructionsExact`, `ArithmeticExact`,
`ConversionsExact`, `FlagsAccrue`), the results of the measurements and of the matrix
programs (`ResultsExact`), the registers and the words that a transport restores and
delivers (`DtmFaithful`).

## 5. Findings

**A halt and a flush meet** (`exu_halt_flush`, `e203_exu_excp.v:169`). The
assertion `CHECK_1HOT_FLUSH_HALT` fails when a load in flight behind a
committed WFI is answered with a bus error.

### Observations on the source

Met while modelling; the models state the code's behaviour, and the properties
above except what is said here.

The core:

1. With dcsr.halt and dcsr.step both set, a load, store or AMO leaves the IR
   without command, OITF entry or commit: the AGU is masked by the raw halt
   request (`e203_exu_alu_lsuagu.v:141`, `e203_exu_excp.v:346-352`), the commit
   stage looks at the one that the step masks (lines 309-311). "Each instruction
   need to be commited" (`e203_exu_alu.v:762`). `EveryInstrCommits` fails with
   `DcsrWrites <- AllDcsrWrites`.
2. A flush clears the IR's PC-valid bit only when the IR is valid
   (`e203_ifu_ifetch.v:236-238`). An interrupt taken with only the PC in the IR,
   then a debug interrupt in the next cycle: dpc gets the PC of the interrupted
   program, not of the handler (compare the comment at
   `e203_exu_alu.v:781-783`). `SavedPcIsCurrent` fails in `core_fetch` with
   `DbgLevels = {TRUE, FALSE}`.
3. An instruction may enter the IR during a WFI's halt without its successor
   being requested (`e203_ifu_ifetch.v:485,505`); when the halt ends without a
   flush, length and jump are decoded from wires that no longer show it (lines
   438-439). `FetchFollowsProgram` fails in `fetch`.
4. An AMO behind an outstanding load may send its read twice: the command is
   valid as soon as dispatch lets it go (`e203_exu_alu_lsuagu.v:640-652`), the
   state machine leaves IDLE only with an empty OITF (lines 291-305).
5. wfi_flag may stay 0 when the EXU's clock stops in the cycle of the handshake
   (`e203_exu_excp.v:143`). The core then does not report sleep; `WfiWakes` holds.
6. With `HaltFlush = TRUE`, `IfuSleepsQuietly` and `IrCarriesMemory` fail: the
   halt is acknowledged on account of the old answer in the cycle in which the
   flush issues a new fetch, whose answer then meets a stopped clock. This is
   the consequence the finding has for the fetch path.
7. A 16-bit instruction at the end of a lane takes the bus error of the next
   lane, read ahead for it (`IrCarriesMemory` states it as the code does it).
8. `outs_cnt` of the ICB buffer is declared one bit wide
   (`general/sirv_gnrl_icbs.v:495`); to be modelled with the building blocks.

The simulator:

9. After a dret with step set, wfi, mret and sret leave the loop before the test
   for a step, and one more instruction is executed ("execute a single
   instruction and then enter debug mode", `processor.h:128`). Stepping an ebreak
   with ebreakm set enters debug mode twice and loses dpc; so does a halt request
   behind a stepped wfi, mret or sret. A `return` inside the
   debug region skips the update of minstret.
10. Execute triggers are looked at when the TLB is refilled, not on a hit of the
    instruction cache; and the second execution of an instruction whose trigger
    has timing "after" may trap outside any handler (`execute.cc:206-217`).
11. Word 0 decodes as illegal or as c.addi4spn depending on what was decoded
    before. An L1 line longer than an L2 line loses dirty data in the counts. A
    successful SC keeps its reservation until the end of the turn. mtime has no
    initial value.
12. The debug module's constructor leaves datacount 0 until reset(); a hart that
    goes clears the flag of the *selected* hart; the program buffer can be
    accessed while busy without cmderr; anyresumeack is never set.

The front-end server:

13. `modify_csr` puts both halves of a 64-bit CSR together without shifting
    (`dtm.cc:446-448`), and `die()` goes on after an error.
14. `sys_fstat`, `sys_lstat` and `sys_fstatat` test for -1 after the result has
    become -errno, and then write an unset structure to the target. `sys_chdir`
    does not respect the chroot. Exit codes are cut to 31 bits. A partial
    `write()` of the bit-bang server is continued with the wrong length.

Tests and SDK:

15. Two matmul programs (`cf`, `cm`) race on two cores, and one vvadd writes
    eight elements past the vector; `mt-matmul/dataset.h` has DIM_SIZE 16 where
    half of the programs say 32. `vm.c` clears the tail of its free list while one
    node is left, which is harmless as long as one handler runs.
16. `debug.c` resets the allocator's free list but not its end of heap when it
    starts again. `CAN_ALLOC_P` and the rounding of sizes wrap near the limits.
17. The 64-bit read of mtime in `demo_gpio.c:51` is two loads and may be torn; the
    timer then waits a whole turn of the low word. The wait of four RTC ticks for
    the PLL may be as short as 91.6 us where the comment says 100.

## 6. Not modelled, and why

Decoder and ALU datapath of the core are pure functions of words; the models
enumerate their results. The multiplexing of operand buses, cause codes, trap
values, counters and read-only CSRs carry data that no property looks at. LR and
SC, the LSU's split, DTCM, BIU, multiplier and divider, the ICB blocks, the
PLIC's arithmetic, the RTL's debug module and the clock multiplexer are planned.
Metastability and reset synchronisation are below the level of a cycle model.
Generated peripherals (from Chisel) and FPGA scripts are left out.

Of the software: the disassembler, option parsing, the VNC server and terminal
code format text; the RoCC example is not part of the core; encodings are
generated constants; the single-core benchmarks and the assembly tests are inputs
of the core and have no control worth a model.

## 7. Plan

Items 1 to 4 are done, and 5 but for what it names.

1. `InOrderTracker`, `Oitf`.
2. `Exu`; `Ifetch` and `Core` on top of it, with the refinement between them.
3. `Itcm`, `Ift2icb`, `Fetch`.
4. The simulator, the front-end server, the tests and the SDK.
5. Proofs. Done: the core, the host-target interface, memory accesses and contexts,
   the debug module's exclusion, the JTAG port, hart, scheduler, caches, demand
   paging, the programs. Left: `DtmFaithful` on top of `DebugInv`, by which registers
   a hart enters the buffers with; the loops of `ResultsExact`.
6. ICB building blocks: arbiter, splitter, buffer, FIFO, each against an
   abstract in-order bus; then the BIU, the LSU's split and DTCM composed from
   them, the exclusive monitor with LR and SC, and the AGU's AMO on top.
7. Multiplier and divider: iteration counts, abort by a flush, validity of the
   back-to-back reuse.
8. Two-clock models: four-phase handshake of `sirv_gnrl_bufs.v`, JTAG to debug
   module, glitch-free multiplexer.
