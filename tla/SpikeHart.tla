----------------------------- MODULE SpikeHart ------------------------------
(***************************************************************************)
(* One hart of the simulator (riscv-isa-sim/riscv/processor.cc, execute.cc *)
(* and the system instructions): traps and interrupts, the CSR file, debug *)
(* mode and single step, and the loop of step(), which executes a batch of *)
(* instructions between two looks at the interrupts and adds the batch to  *)
(* minstret at its end.                                                    *)
(*                                                                         *)
(* The program is any sequence of instructions; what they compute is left  *)
(* out.  mip, mie and mideleg are sets of interrupts, medeleg one of       *)
(* causes, mstatus a record of its fields.  Registers that only hold what  *)
(* is written to them are left out, as is the fetch (see VmEnv).           *)
(***************************************************************************)
EXTENDS Integers, Sequences, FiniteSets

CONSTANTS
    Instructions,   \* the instruction kinds the program uses
    CsrWrites,      \* the [which, val] its CSR instructions write
    Batches,        \* the arguments step() is called with
    MaxExecuted,       \* bound: instructions executed
    MaxEvents       \* bound: events from outside the hart

ASSUME CsrWritesAssumption ==
    \A w \in CsrWrites :
        /\ w.which \in {"FFLAGS", "MSTATUS", "SSTATUS", "MIP", "SIP", "MIE", "SIE", "MIDELEG",
                        "MEDELEG", "MEPC", "SEPC", "MCOUNTEREN", "SCOUNTEREN"}
        \* privileges are two bits
        /\ w.which \in {"MSTATUS", "SSTATUS"} =>
               \A f \in {"mpp", "spp"} \cap DOMAIN w.val : w.val[f] \in {"U", "S", "H", "M"}
        \* software does not jump into the debug ROM
        /\ w.which \in {"MEPC", "SEPC"} => w.val \in Nat \ {10, 11}

VARIABLES
    h,              \* the hart's state_t, and halt_request
    loop,           \* where step() is: "idle", "outer", "slow" or "fast"
    nleft, instret, \* its variables: n, instret
    executed, events,
    retired,        \* instructions retired outside debug mode
    debugged,       \* the hart has been in debug mode
    stepped,        \* instructions retired since a dret with dcsr.step; -1: not stepping
    savedM, savedS, savedD      \* what the last trap or debug entry interrupted

hartVars == <<h, loop, nleft, instret, executed, events, retired, debugged, stepped,
          savedM, savedS, savedD>>
ghostVars == <<retired, debugged, stepped, savedM, savedS, savedD>>

----------------------------------------------------------------------------
Rank == [U |-> 0, S |-> 1, H |-> 2, M |-> 3]

Bit == [SSIP |-> 1, MSIP |-> 3, STIP |-> 5, MTIP |-> 7, SEIP |-> 9, COP |-> 12]
Delegable == {"SSIP", "STIP", "SEIP", "COP"}
AllInts == Delegable \cup {"MSIP", "MTIP"}
Causes == {"illegal", "breakpoint", "U_ecall", "S_ecall", "M_ecall"}

(* The code is at 0 and 1, the handlers at their vectors, the debug ROM at *)
(* ROM and its exception entry at TVEC.                                    *)
MTVEC == 2
STVEC == 3
ROM == 10
TVEC == 11
NextPc(pc) == CASE pc < 2 -> 1 - pc [] pc = TVEC -> ROM [] OTHER -> pc
InDebugRegion(pc) == pc \in {ROM, TVEC}

StatusReset == [sie |-> FALSE, spie |-> FALSE, spp |-> "U", mie |-> FALSE, mpie |-> FALSE,
                mpp |-> "U", fs |-> 0, sd |-> FALSE, sum |-> FALSE, tsr |-> FALSE]
reset == [pc |-> 0, prv |-> "M", mstatus |-> StatusReset,
          mepc |-> 0, sepc |-> 0, mcause |-> "none", scause |-> "none",
          mip |-> {}, mie |-> {}, mideleg |-> {}, medeleg |-> {},
          minstret |-> 0, fflags |-> 0, mcounteren |-> FALSE, scounteren |-> FALSE,
          dpc |-> 0, dcause |-> "none", dprv |-> "U", dstep |-> FALSE, dhalt |-> FALSE, ebreakm |-> FALSE,
          single_step |-> "none", serialized |-> FALSE, halt_request |-> FALSE]

----------------------------------------------------------------------------
(* Traps. *)

set_privilege(s, prv) == [s EXCEPT !.prv = IF prv = "H" THEN "U" ELSE prv]

enter_debug_mode(s, cause) ==
    [set_privilege([s EXCEPT !.dcause = cause, !.dprv = s.prv], "M")
        EXCEPT !.dpc = s.pc, !.pc = ROM]

(* take_interrupt: the enabled interrupt with the lowest number, those of  *)
(* the machine before the delegated ones.                                  *)
Enabled(s) ==
    LET pending == s.mip \cap s.mie
        machine == IF Rank[s.prv] < 3 \/ s.mstatus.mie THEN pending \ s.mideleg ELSE {}
        super   == IF Rank[s.prv] < 1 \/ (s.prv = "S" /\ s.mstatus.sie)
                     THEN pending \cap s.mideleg ELSE {}
    IN  IF machine # {} THEN machine ELSE super
Lowest(ints) == CHOOSE i \in ints : \A j \in ints : Bit[i] <= Bit[j]

(* take_trap: to debug mode, to S mode if delegated from below M, else M.  *)
TrapToS(s, cause, epc) ==
    LET st == s.mstatus
    IN  set_privilege([s EXCEPT !.pc = STVEC, !.scause = cause, !.sepc = epc,
                !.mstatus = [st EXCEPT !.spie = st.sie, !.sie = FALSE,
                                       !.spp = IF s.prv = "S" THEN "S" ELSE "U"]], "S")
TrapToM(s, cause, epc) ==
    LET st == s.mstatus
    IN  set_privilege([s EXCEPT !.pc = MTVEC, !.mcause = cause, !.mepc = epc,
                !.mstatus = [st EXCEPT !.mpie = st.mie, !.mie = FALSE, !.mpp = s.prv]], "M")
Delegated(s, cause) ==
    Rank[s.prv] <= 1 /\ cause \in (IF cause \in AllInts THEN s.mideleg ELSE s.medeleg)
take_trap(s, cause, epc) ==
    IF s.dcause # "none" THEN [s EXCEPT !.pc = IF cause = "breakpoint" THEN ROM ELSE TVEC]
    ELSE IF cause = "breakpoint" /\ s.prv = "M" /\ s.ebreakm
      THEN enter_debug_mode(s, "swbp")
    ELSE IF Delegated(s, cause) THEN TrapToS(s, cause, epc)
    ELSE TrapToM(s, cause, epc)

----------------------------------------------------------------------------
(* The CSR file.  A value is what the register's abstraction is; for the   *)
(* status registers it is a record of new fields, the others as read.      *)

Merge(st, val, fields) == [f \in DOMAIN st |-> IF f \in fields \cap DOMAIN val THEN val[f] ELSE st[f]]
SstatusFields == {"sie", "spie", "spp", "fs", "sum"}
SetStatus(s, val) ==
    LET st == Merge(s.mstatus, val, DOMAIN s.mstatus \ {"sd"})
    IN  [s EXCEPT !.mstatus = [st EXCEPT !.sd = st.fs = 3]]
SetMip(s, val) == [s EXCEPT !.mip = (@ \ {"SSIP", "STIP"}) \cup (val \cap {"SSIP", "STIP"})]
SetMie(s, val) == [s EXCEPT !.mie = (@ \ AllInts) \cup (val \cap AllInts)]
DirtyFp(s) == [s EXCEPT !.mstatus = [@ EXCEPT !.fs = 3, !.sd = TRUE]]

\* (sie is not masked by mideleg.)
SetSieUnmasked(s, val) == SetMie(s, (s.mie \ Delegable) \cup (val \cap Delegable))
SetSie(s, val) == SetMie(s, (s.mie \ s.mideleg) \cup (val \cap s.mideleg))

set_csr(s, which, val) ==
    CASE which = "FFLAGS"     -> [DirtyFp(s) EXCEPT !.fflags = val]
      [] which = "MSTATUS"    -> SetStatus(s, val)
      [] which = "SSTATUS"    -> SetStatus(s, Merge(s.mstatus, val, SstatusFields))
      [] which = "MIP"        -> SetMip(s, val)
      [] which = "SIP"        -> LET mask == {"SSIP"} \cap s.mideleg
                                 IN  SetMip(s, (s.mip \ mask) \cup (val \cap mask))
      [] which = "MIE"        -> SetMie(s, val)
      [] which = "SIE"        -> SetSie(s, val)
      [] which = "MIDELEG"    -> [s EXCEPT !.mideleg = (@ \ Delegable) \cup (val \cap Delegable)]
      [] which = "MEDELEG"    -> [s EXCEPT !.medeleg = val \cap Causes]
      [] which = "MEPC"       -> [s EXCEPT !.mepc = val]
      [] which = "SEPC"       -> [s EXCEPT !.sepc = val]
      [] which = "MCOUNTEREN" -> [s EXCEPT !.mcounteren = val]
      [] which = "SCOUNTEREN" -> [s EXCEPT !.scounteren = val]
      [] OTHER                -> s

CsrPriv == [FFLAGS |-> "U", INSTRET |-> "U", MSTATUS |-> "M", SSTATUS |-> "S", MIP |-> "M",
            SIP |-> "S", MIE |-> "M", SIE |-> "S", MIDELEG |-> "M", MEDELEG |-> "M",
            MEPC |-> "M", SEPC |-> "S", MCOUNTEREN |-> "M", SCOUNTEREN |-> "S"]
CsrReadOnly == {"INSTRET"}
(* get_csr and validate_csr: the access is illegal below the register's    *)
(* privilege, to a read-only register, with the FPU off, or to a counter   *)
(* not enabled for the privilege.                                          *)
CsrLegal(s, which, write) ==
    /\ ~(write /\ which \in CsrReadOnly) /\ Rank[s.prv] >= Rank[CsrPriv[which]]
    /\ which = "FFLAGS" => s.mstatus.fs # 0
    /\ which = "INSTRET" => /\ s.prv # "M" => s.mcounteren
                            /\ s.prv = "U" => s.scounteren

----------------------------------------------------------------------------
(* The instructions: the state after one and what its npc says -- the next *)
(* instruction, serialize before or after, or a trap.                      *)

Done(s) == [npc |-> "next", cause |-> "none", s |-> s]
After(s, pc) == [npc |-> "after", cause |-> "none", s |-> [s EXCEPT !.pc = pc]]
Trap(s, cause) == [npc |-> "trap", cause |-> cause, s |-> s]

ecall(s) == Trap(s, CASE s.prv = "U" -> "U_ecall" [] s.prv = "S" -> "S_ecall" [] OTHER -> "M_ecall")
mret(s) ==
    IF s.prv # "M" THEN Trap(s, "illegal")
    ELSE LET st == s.mstatus
         IN  After([set_privilege(s, st.mpp) EXCEPT
                      !.mstatus = [st EXCEPT !.mie = st.mpie, !.mpie = TRUE, !.mpp = "U"]], s.mepc)
sret(s) ==
    IF Rank[s.prv] < (IF s.mstatus.tsr THEN 3 ELSE 1) THEN Trap(s, "illegal")
    ELSE LET st == s.mstatus
         IN  After([set_privilege(s, st.spp) EXCEPT
                      !.mstatus = [st EXCEPT !.sie = st.spie, !.spie = TRUE, !.spp = "U"]], s.sepc)
dret(s) ==
    IF s.prv # "M" THEN Trap(s, "illegal")
    ELSE After([set_privilege(s, s.dprv) EXCEPT
                  !.dcause = "none",
                  !.single_step = IF s.dstep THEN "stepping" ELSE @], s.dpc)
wfi(s) == IF s.prv = "U" THEN Trap(s, "illegal") ELSE After(s, NextPc(s.pc))

(* csrrw and the like: the first time round the loop ends the batch.       *)
csrrw(s, which, write, val) ==
    IF ~s.serialized THEN [npc |-> "before", cause |-> "none", s |-> s]
    ELSE LET t == [s EXCEPT !.serialized = FALSE]
         IN  IF ~CsrLegal(t, which, write) THEN Trap(t, "illegal")
             ELSE Done(IF write THEN set_csr(t, which, val) ELSE t)

Results(s) ==
    (IF "alu" \in Instructions THEN {Done(s)} ELSE {})
    \cup (IF "ecall" \in Instructions THEN {ecall(s)} ELSE {})
    \cup (IF "ebreak" \in Instructions THEN {Trap(s, "breakpoint")} ELSE {})
    \cup (IF "mret" \in Instructions THEN {mret(s)} ELSE {})
    \cup (IF "sret" \in Instructions THEN {sret(s)} ELSE {})
    \cup (IF "wfi" \in Instructions THEN {wfi(s)} ELSE {})
    \cup {csrrw(s, w.which, TRUE, w.val) : w \in CsrWrites}
    \cup (IF "instret" \in Instructions THEN {csrrw(s, "INSTRET", FALSE, 0)} ELSE {})

(* In debug mode the hart runs the debug ROM: it waits, lets the debugger  *)
(* write dcsr, or resumes.                                                 *)
RomResults(s) ==
    {Done(s), dret(s)} \cup
    {Done([s EXCEPT !.dstep = d[1], !.dhalt = FALSE, !.ebreakm = d[2]]) : d \in BOOLEAN \X BOOLEAN}

----------------------------------------------------------------------------
HartInit ==
    /\ \E halt_on_reset \in BOOLEAN : h = [reset EXCEPT !.dhalt = halt_on_reset]
    /\ loop = "idle" /\ nleft = 0 /\ instret = 0
    /\ executed = 0 /\ events = 0
    /\ retired = 0 /\ debugged = FALSE /\ stepped = -1
    /\ savedM = <<>> /\ savedS = <<>> /\ savedD = <<>>

(* What the ghosts remember: of a trap s -> t, with the instruction at epc *)
(* to come; and of the debug entry that may follow it, t -> f.  A step that *)
(* ends in debug mode enters it twice, and dpc is then the debug ROM: what *)
(* was interrupted is lost.  An ebreak does so that enters debug mode and  *)
(* is also the end of a step, and so does the first instruction or trap in *)
(* debug mode after a stepped wfi, mret or sret and a halt.                *)
EntersTwice(t, f) == t.dcause # "none" /\ f # t
Interrupted(s, t, f, epc) ==
    /\ savedM' = IF t.pc = MTVEC /\ s.dcause = "none" /\ t.dcause = "none"
                   THEN <<s.prv, s.mstatus.mie, epc>> ELSE savedM
    /\ savedS' = IF t.pc = STVEC /\ s.dcause = "none" /\ t.dcause = "none"
                   THEN <<s.prv, s.mstatus.sie, epc>> ELSE savedS
    /\ savedD' = IF EntersTwice(t, f) THEN <<>>
                 ELSE IF s.dcause = "none" /\ t.dcause # "none" THEN <<s.prv, epc>>
                 ELSE IF t.dcause = "none" /\ f.dcause # "none" THEN <<t.prv, t.pc>>
                 ELSE savedD
    /\ debugged' = (debugged \/ f.dcause # "none")
    /\ stepped' = IF f.dcause # "none" THEN -1 ELSE stepped

SlowPath(s) == s.single_step # "none" \/ s.dcause # "none"

(* step(n), up to the loop. *)
Begin ==
    /\ loop = "idle"
    /\ executed < MaxExecuted
    /\ \E k \in Batches : nleft' = k
    /\ h' = IF h.dcause = "none" /\ h.halt_request THEN enter_debug_mode(h, "debugint")
            ELSE IF h.dcause = "none" /\ h.dhalt THEN enter_debug_mode(h, "halt") ELSE h
    /\ debugged' = (debugged \/ h'.dcause # "none")
    /\ savedD' = IF h'.dcause # h.dcause THEN <<h.prv, h.pc>> ELSE savedD
    /\ loop' = "outer"
    /\ stepped' = IF h'.dcause # "none" THEN -1 ELSE stepped
    /\ UNCHANGED <<instret, executed, events, retired, savedM, savedS>>

(* A trap has been caught: a step is over. *)
EndStep(t) ==
    IF t.single_step = "stepped"
      THEN [enter_debug_mode(t, "step") EXCEPT !.single_step = "none"] ELSE t

(* The top of the loop: interrupts are looked at before each batch only. *)
TakeInterrupt ==
    /\ loop = "outer" /\ nleft > 0 /\ Enabled(h) # {}
    /\ \E t \in {take_trap(h, Lowest(Enabled(h)), h.pc)} :
          /\ h' = EndStep(t)
          /\ Interrupted(h, t, EndStep(t), h.pc)
    /\ nleft' = 0 /\ instret' = 0 /\ loop' = "idle"
    /\ UNCHANGED <<executed, events, retired>>
StartBatch ==
    /\ loop = "outer" /\ nleft > 0 /\ Enabled(h) = {}
    /\ instret' = 0
    /\ loop' = IF SlowPath(h) THEN "slow" ELSE "fast"
    /\ UNCHANGED <<h, nleft, executed, events, ghostVars>>

(* The end of an iteration: minstret += instret, n -= instret. *)
\* (minstret += n.)
EndIterationAll(s, k, left) ==
    /\ h' = [s EXCEPT !.minstret = @ + left]
    /\ nleft' = left - k /\ instret' = 0
    /\ loop' = IF left - k = 0 THEN "idle" ELSE "outer"
EndIteration(s, k, left) ==
    /\ h' = [s EXCEPT !.minstret = @ + k]
    /\ nleft' = left - k /\ instret' = 0
    /\ loop' = IF left - k = 0 THEN "idle" ELSE "outer"

(* One instruction of the batch. *)
InstructionTrap(s, r) ==
    /\ r.npc = "trap"
    /\ \E t \in {take_trap(r.s, r.cause, s.pc)} :
          /\ EndIteration(EndStep(t), instret, instret)
          /\ Interrupted(r.s, t, EndStep(t), s.pc)
    /\ UNCHANGED retired
SerializeBefore(s, r) ==
    /\ r.npc = "before"
    /\ EndIteration([r.s EXCEPT !.serialized = TRUE], instret, nleft)
    /\ UNCHANGED ghostVars
StepCount == IF stepped >= 0 THEN stepped + 1 ELSE -1
Retire(s) == retired' = IF s.dcause = "none" THEN retired + 1 ELSE retired
\* The break of advance_pc leaves the loop before the test for a step: a step
\* that ends here is not counted.
SerializeAfter(s, r) ==
    /\ r.npc = "after"
    /\ EndIteration(r.s, instret + 1, instret + 1)
    /\ Retire(s)
    /\ stepped' = IF s.dcause # "none" /\ s.dstep THEN 0 ELSE -1
    /\ savedM' = IF s.mepc = r.s.pc /\ s.prv = "M" THEN <<>> ELSE savedM
    /\ savedS' = IF s.sepc = r.s.pc THEN <<>> ELSE savedS
    /\ savedD' = IF s.dcause # "none" THEN <<>> ELSE savedD
    /\ UNCHANGED debugged
\* savedM and savedS are void once software writes what they remember.
Software(s, t) ==
    /\ savedM' = IF [t.mstatus EXCEPT !.fs = 0, !.sd = FALSE] # [s.mstatus EXCEPT !.fs = 0, !.sd = FALSE]
                    \/ t.mepc # s.mepc THEN <<>> ELSE savedM
    /\ savedS' = IF [t.mstatus EXCEPT !.fs = 0, !.sd = FALSE] # [s.mstatus EXCEPT !.fs = 0, !.sd = FALSE]
                    \/ t.sepc # s.sepc THEN <<>> ELSE savedS
Retired(s, r) ==
    /\ r.npc = "next"
    /\ Retire(s)
    /\ Software(s, r.s)
    /\ LET t == [r.s EXCEPT !.pc = NextPc(s.pc)]
       IN  \/ /\ loop = "slow" /\ s.single_step = "stepped"
              /\ EndIteration([enter_debug_mode(t, "step") EXCEPT !.single_step = "none"],
                              instret + 1, nleft)
              /\ stepped' = -1 /\ debugged' = TRUE
              /\ savedD' = IF t.dcause # "none" THEN <<>> ELSE <<t.prv, t.pc>>
           \* return: the batch is not added to minstret
           \/ /\ loop = "slow" /\ s.single_step # "stepped" /\ InDebugRegion(t.pc)
              /\ h' = t /\ loop' = "idle" /\ nleft' = 0 /\ instret' = 0
              /\ UNCHANGED <<stepped, debugged, savedD>>
           \/ /\ loop = "fast" \/ (s.single_step # "stepped" /\ ~InDebugRegion(t.pc))
              /\ stepped' = StepCount
              /\ UNCHANGED <<debugged, savedD>>
              /\ IF instret + 1 = nleft THEN EndIteration(t, nleft, nleft)
                 ELSE h' = t /\ instret' = instret + 1 /\ UNCHANGED <<nleft, loop>>

execute_insn ==
    /\ loop \in {"slow", "fast"}
    /\ UNCHANGED events
    /\ \E s \in {IF loop = "slow" /\ h.single_step = "stepping"
                   THEN [h EXCEPT !.single_step = "stepped"] ELSE h} :
         \E r \in IF s.dcause = "none" THEN Results(s) ELSE RomResults(s) :
             /\ executed' = IF r.npc = "before" THEN executed ELSE executed + 1
             /\ \/ InstructionTrap(s, r) \/ SerializeBefore(s, r)
                \/ SerializeAfter(s, r) \/ Retired(s, r)

(* Between two calls: the CLINT and the debug module. *)
Event ==
    /\ loop = "idle" /\ events < MaxEvents
    /\ events' = events + 1
    /\ \/ \E i \in {"MTIP", "MSIP"} : h' = [h EXCEPT !.mip = IF i \in @ THEN @ \ {i} ELSE @ \cup {i}]
       \/ h' = [h EXCEPT !.halt_request = ~@]
    /\ UNCHANGED <<loop, nleft, instret, executed, ghostVars>>

AtBound == executed >= MaxExecuted /\ loop = "idle" /\ UNCHANGED hartVars

HartNext == Begin \/ TakeInterrupt \/ StartBatch \/ execute_insn \/ Event \/ AtBound

HartSpec == HartInit /\ [][HartNext]_hartVars

----------------------------------------------------------------------------
(* Between two calls of step() minstret is the number of instructions      *)
(* retired, whatever ended the batches: traps, interrupts, serialization.  *)
InstretSettles == loop = "idle" /\ ~debugged => h.minstret = retired

(* Software below machine mode changes nothing that belongs to machine     *)
(* mode: not through the supervisor's views of mstatus, mie and mip.       *)
MachineState(s) == <<s.mstatus.mie, s.mstatus.mpie, s.mstatus.mpp, s.mstatus.tsr, s.mepc,
                     s.mideleg, s.medeleg, s.mcounteren, s.mie \ s.mideleg, s.mip \ s.mideleg>>
SupervisorConfined ==
    [][h.prv # "M" /\ h'.prv # "M" /\ loop \in {"slow", "fast"}
         => MachineState(h') = MachineState(h)]_hartVars

(* The latest trap taken to a mode can be returned from: its privilege,    *)
(* interrupt enable and instruction are what mepc, mpp and mpie (sepc ...) *)
(* still say, whatever happened since -- traps to the other mode, debug    *)
(* mode entered and left -- unless software wrote them or returned.        *)
TrapsReturn ==
    /\ savedM # <<>> => savedM = <<h.mstatus.mpp, h.mstatus.mpie, h.mepc>>
    /\ savedS # <<>> => savedS = <<h.mstatus.spp, h.mstatus.spie, h.sepc>>
    /\ h.dcause # "none" /\ savedD # <<>> => savedD = <<h.dprv, h.dpc>>

(* "When true, execute a single instruction and then enter debug mode"     *)
(* (processor.h): after a dret with dcsr.step set one instruction at most  *)
(* retires, whatever traps and interrupts come, except behind wfi, mret    *)
(* and sret, which leave the loop before the test.                         *)
StepExecutesOne == stepped <= 1

\* Whatever ends a batch of instructions, minstret is right between two calls
\* of step(), the latest trap and debug entry can be returned from, and a step
\* executes one instruction, but for what StepExecutesOne exempts (execute.cc,
\* processor.cc).
HartSound == InstretSettles /\ TrapsReturn /\ StepExecutesOne
====
