------------------------------- MODULE Fetch --------------------------------
(***************************************************************************)
(* The whole fetch path, e203_ifu.v with the ITCM: the fetch stage of      *)
(* Ifetch, whose next PC comes from the instruction on the answer's wires, *)
(* the lane logic of Ift2icb, the ITCM shared with other agents, and the   *)
(* BIU.  The EXU is reduced to what the IFU sees of it: it takes           *)
(* instructions, flushes, and after an instruction (a WFI) may halt the    *)
(* fetch and stop the IFU's clock.                                         *)
(*                                                                         *)
(* A program gives each halfword the length of the instruction that starts *)
(* there and, for a jump, its distance; a distance of 0 is no jump.  JALR, *)
(* whose target depends on registers, is in Core.                          *)
(***************************************************************************)
EXTENDS Ifetch, Ift2icb, Sequences

CONSTANTS prog,       \* the program: a function from PC to [rv32, ofst]
          FlushPcs,   \* targets of a flush
          HaltFlush,  \* may the EXU flush during a halt?  The commit stage asserts
                      \* that it does not (CHECK_1HOT_FLUSH_HALT)
          Junks       \* what junk on a bus may be decoded to

ASSUME FetchAssumption ==
    /\ PC = 0 .. PC_HW - 1 /\ pc_rtvec \in PC
    /\ prog \in [PC -> [rv32 : BOOLEAN, ofst : Int]]
    /\ FlushPcs \subseteq PC /\ HaltFlush \in BOOLEAN
    /\ Junks \subseteq [rv32 : BOOLEAN, ofst : Int] /\ Junks # {}

VARIABLES wfi_halt_req, core_wfi,   \* the EXU's halt request and WFI state
          npc,       \* history: the next instruction of the program
          slipped    \* history: since the last flush, an instruction entered
                     \* the IR and its successor was not requested with it

fetch_vars == <<ifetch_vars, itcm_vars, ift2icb_vars, biu, wfi_halt_req,
                core_wfi, npc, slipped>>

Succ(a) == Plus(a, IF prog[a].ofst # 0 THEN prog[a].ofst
                   ELSE IF prog[a].rv32 THEN 2 ELSE 1)

AJunk == CHOOSE j \in Junks : TRUE

-----------------------------------------------------------------------------
\* minidec on the answer's wires, valid or not: junk decodes to anything, and
\* so does the distance in a word whose halves do not belong together.
minidec(e) ==
    LET w == ifu_rsp_instr
    IN IF w.lo = Zero THEN [rv32 |-> FALSE, ofst |-> 0]
       ELSE IF w.lo = Junk THEN e.junk
       ELSE IF prog[w.lo].rv32 /\ prog[w.lo].ofst # 0 /\ w.hi # Plus(w.lo, 1)
            THEN [rv32 |-> TRUE, ofst |-> e.junk.ofst]
       ELSE prog[w.lo]

ifu_halt_req(e) == wfi_halt_req /\ ~e.wake

\* The halfword above a 16-bit instruction is not loaded into the IR.
fetch_in_pre(e, dec) ==
    [flush |-> e.flush, flush_pc |-> e.flush_pc,
     halt |-> ifu_halt_req(e), o_hsked |-> e.o_hsked,
     req_ready |-> FALSE,
     rsp_valid |-> ifu_rsp_valid,
     rsp_instr |-> [ifu_rsp_instr EXCEPT !.hi = IF dec.rv32 THEN @ ELSE Zero],
     bpu_wait |-> FALSE,
     bjp |-> dec.ofst # 0, prdt_pc |-> Plus(pc_r, dec.ofst),
     seq_pc |-> Plus(pc_r, IF dec.rv32 THEN 2 ELSE 1)]

\* The request: ifu_req_pc is pc_nxt, which does not depend on ifu_req_ready.
ifu_req(i, dec) ==
    [pc |-> pc_nxt(i), rv32 |-> dec.rv32, last_pc |-> pc_r,
     seq |-> ~pipe_flush_req_real(i) /\ ~reset_req /\ ~i.bjp]

-----------------------------------------------------------------------------
FetchInit ==
    /\ IfetchInit /\ ItcmInit /\ Ift2icbInit
    /\ wfi_halt_req = FALSE /\ core_wfi = FALSE
    /\ npc = pc_rtvec /\ slipped = FALSE

\* The IFU's clock stops in WFI; the memories go on.
clk_core_ifu_on(e) == ~core_wfi \/ e.wake

\* A halt follows the instruction that asks for it, and ends when an interrupt
\* or the debugger wakes the core.
WfiClk(e) ==
    /\ wfi_halt_req' \in IF wfi_halt_req THEN {~e.wake}
                         ELSE {FALSE, e.o_hsked}
    /\ core_wfi' = (~e.wake /\ (core_wfi \/ (ifu_halt_req(e) /\ halt_ack /\ e.exu_ack)))

HistoryClk(i) ==
    /\ npc' = IF i.flush THEN i.flush_pc
              ELSE IF ir_valid_set(i) THEN Succ(req_pc) ELSE npc
    /\ slipped' = (~i.flush /\ (slipped \/ (ir_valid_set(i) /\ ~ifu_req_hsked(i))))

\* (\E x \in {v} only names the value v.)
FetchCycle(e) ==
    \E dec \in {minidec(e)} :
    \E i0 \in {fetch_in_pre(e, dec)} :
    \E q \in {ifu_req(i0, dec)} :
    \E i \in {[i0 EXCEPT !.req_ready = ifu2icb_req_ready(e, q)]} :
    LET req_valid == ifu_req_valid(i)
    IN /\ IF clk_core_ifu_on(e)
          THEN /\ IfetchClk(i)
               /\ Ift2icbClk(e, q, req_valid, ifu_rsp_ready(i))
               /\ HistoryClk(i)
          ELSE UNCHANGED <<ifetch_vars, ift2icb_vars, npc, slipped>>
       /\ ItcmClk(e, ifu2itcm_cmd(q, req_valid), ifu_icb_rsp_ready)
       /\ BiuClk(e, q, req_valid)
       /\ WfiClk(e)

\* When the EXU may flush: not before the first fetch, and when it halts the
\* IFU only for an instruction still outstanding, that is, before it
\* acknowledges the halt itself.
may_flush(wake, exu_ack) ==
    /\ ~reset_flag /\ ~reset_req
    /\ wfi_halt_req /\ ~wake => HaltFlush /\ ~exu_ack /\ ~core_wfi

\* Inputs that no wire depends on are not varied.
FetchNext ==
    \E flush, arb_cmd, biu_cmd_ready \in BOOLEAN,
       arb_rsp_ready \in IF e1 = OtherCmd THEN BOOLEAN ELSE {FALSE},
       wake, exu_ack \in IF wfi_halt_req THEN BOOLEAN ELSE {FALSE} :
    \E flush_pc \in IF flush THEN FlushPcs ELSE {pc_rtvec},
       o_hsked \in IF ir_valid /\ ~wfi_halt_req /\ ~flush THEN BOOLEAN ELSE {FALSE},
       junk \in IF flush \/ ifu_rsp_instr.hi = ifu_rsp_instr.lo + 1 THEN {AJunk} ELSE Junks :
        /\ flush => may_flush(wake, exu_ack)
        /\ FetchCycle([flush |-> flush, flush_pc |-> flush_pc, o_hsked |-> o_hsked,
                       wake |-> wake, exu_ack |-> exu_ack,
                       arb_cmd |-> arb_cmd, arb_rsp_ready |-> arb_rsp_ready,
                       biu_cmd_ready |-> biu_cmd_ready, junk |-> junk])

FetchSpec == FetchInit /\ [][FetchNext]_fetch_vars

-----------------------------------------------------------------------------
TouchedLanes(a) ==
    {LaneOf(a)} \cup IF ifu_req_lane_cross([pc |-> a]) THEN {LaneOf(Plus(a, 1))} ELSE {}

\* What the EXU gets is what the memory holds at the PC it gets with it: both
\* halves of the word, through the held lane, the leftover buffer and two
\* accesses with other agents between them, and the bus error of a lane that
\* was read for it, no other's.
IrCarriesMemory ==
    ir_valid => /\ ir.lo = ifu_pc_r
                /\ prog[ifu_pc_r].rv32 => ir.hi = Plus(ifu_pc_r, 1)
                /\ ir.err <=> (TouchedLanes(ifu_pc_r) \cap ErrLanes # {})

\* When the IFU's clock stops, no answer of a memory is under way, which would
\* be lost: an answer not yet taken is in the bypass buffer.
IfuSleepsQuietly == core_wfi => icb_state = "IDLE" /\ ~ifu_icb_rsp_valid

\* "If the instruciton is 32bits length, increament 4, otherwise 2"
\* (e203_ifu_ifetch.v), a jump goes to its target and a flush to its own: the
\* fetch outstanding, when no flush has cancelled it, is that of the next
\* instruction of the program.
FetchFollowsProgram == out_flag /\ ~dly_flush => req_pc = npc

\* The same, except behind a halt in which an instruction entered the IR while
\* its successor could not be requested.
FetchFollows == slipped \/ FetchFollowsProgram

\* What the EXU gets is the next instruction of the program, whole, and with
\* its own PC: lanes, leftover, buffers and the PC register never drift apart
\* (Ifetch, Ift2icb and Itcm under flushes, halts and other agents).
FetchedExact == IrCarriesMemory /\ IrBelongsToPc /\ FetchFollows
=============================================================================
