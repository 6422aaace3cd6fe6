-------------------------------- MODULE Exu --------------------------------
(***************************************************************************)
(* The execution stage of the E203 core: dispatch, the OITF, the AGU with  *)
(* its AMO state machine, the LSU's outstanding slot, long-pipe and ALU    *)
(* write-back, the register file, and the commit stage with exceptions,    *)
(* interrupts, debug entry and WFI.                                        *)
(*                                                                         *)
(* One step is one rising clock edge.  A register is a variable, a wire an *)
(* operator with the RTL's name, and Cycle the conjunction of what every   *)
(* block does at the edge.  An input wire is a variable too, so that every *)
(* wire is a function of the state and an RTL assertion is an invariant.   *)
(*                                                                         *)
(* Abstracted: addresses and PCs; an instruction is an operation with the  *)
(* registers it reads and writes; the three interrupt lines are one level, *)
(* already masked by the mie CSR; an unaligned AMO is an unaligned load.   *)
(***************************************************************************)
EXTENDS Oitf

CONSTANTS Ops,           \* operations the program may contain
          Vals,          \* data values
          IrqLevels,     \* levels of irq_req_raw
          DbgLevels,     \* levels of dbg_irq_r
          DcsrWrites,    \* values the debugger writes to dcsr
          RspKinds,      \* what the memory answers
          CmdRdyLevels   \* levels of the memory's command ready

ASSUME ExuAssumption ==
    /\ Ops \subseteq {"alu", "lui", "jalr1", "jalrn", "ld", "st", "amo", "ldmis",
                      "csr", "csrd", "fence", "fencei", "bjp", "brmis", "mret",
                      "dret", "ecall", "ebreak", "ilgl", "wfi"}
    /\ RfIdx # {} /\ Vals # {}
    /\ IrqLevels \subseteq BOOLEAN /\ FALSE \in IrqLevels
    /\ DbgLevels \subseteq BOOLEAN /\ FALSE \in DbgLevels
    /\ CmdRdyLevels \subseteq BOOLEAN /\ TRUE \in CmdRdyLevels
    /\ RspKinds \subseteq {"ok", "err"} /\ "ok" \in RspKinds
    /\ DcsrWrites \subseteq [halt : BOOLEAN, step : BOOLEAN, ebreakm : BOOLEAN]

VARIABLES
    ir_valid, ir, ir_pc_vld,   \* the instruction register and its PC's valid bit
    halt_ack,                  \* the IFU's acknowledge of a WFI halt
    icb_state, leftover, leftover_err,   \* the AGU
    lsu,                       \* the LSU's outstanding command, or NoCmd
    rsp,                       \* the memory's response to it
    cmd_rdy,                   \* every memory target is ready for a command
    rf,                        \* the register file
    wfi_flag, wfi_halt_req, step_req,
    mie, mpie, dcsr, dcause,   \* CSRs
    irq_req_raw, dbg_irq_r,    \* interrupt lines
    arch,      \* history: the registers as program order defines them
    stepped    \* history: commits since debug mode was left, at most 2

ifu_vars == <<ir_valid, ir, ir_pc_vld, halt_ack>>
agu_vars == <<icb_state, leftover, leftover_err>>
lsu_vars == <<lsu, rsp, cmd_rdy>>
cmt_vars == <<wfi_flag, wfi_halt_req, step_req, mie, mpie, dcsr, dcause>>
irq_vars == <<irq_req_raw, dbg_irq_r>>
reg_vars == <<oitf_vars, ifu_vars, agu_vars, lsu, rsp, cmt_vars, rf, arch, stepped>>
vars == <<oitf_vars, ifu_vars, agu_vars, lsu_vars, cmt_vars, irq_vars, rf, arch, stepped>>

AnyReg == CHOOSE r \in RfIdx : TRUE

\* The link register, which the predictor reads through a port of its own.
x1 == AnyReg

\* What the decoder tells dispatch about an instruction of each operation.
InstrOf(op) ==
    LET I(rdwen, rd, rs) == [op : {op}, rdwen : {rdwen}, rdidx : rd, rs : rs]
        One == {{r} : r \in RfIdx}
    IN CASE op \in {"alu", "ld", "amo"} -> I(TRUE, RfIdx, One)
         [] op = "lui" -> I(TRUE, RfIdx, {{}})
         [] op = "jalr1" -> I(TRUE, RfIdx, {{x1}})
         [] op = "jalrn" -> I(TRUE, RfIdx, One \ {{x1}})
         [] op \in {"st", "ldmis", "brmis"} -> I(FALSE, {AnyReg}, One)
         [] OTHER -> I(FALSE, {AnyReg}, {{}})

Instr == UNION {InstrOf(op) : op \in Ops}

NoInstr == [op |-> "none", rdwen |-> FALSE, rdidx |-> AnyReg, rs |-> {}]

NoCmd == [cmd |-> "none", itag |-> 0, back2agu |-> FALSE, rdata |-> "none"]

dbg_mode == dcause # 0

ifu_ilegl == ir.op = "ilgl" \/ (ir.op = "dret" /\ ~dbg_mode)

agu_op == ir.op \in {"ld", "st", "amo", "ldmis"}

-----------------------------------------------------------------------------
(* LSU response and long-pipe write-back: neither looks at the ALU side.   *)

lsu_o_valid == rsp # "none" /\ ~lsu.back2agu

agu_icb_rsp_hsked == rsp # "none" /\ lsu.back2agu

\* Mutant: the response's tag is compared with the allocate pointer.
wbck_ready4lsu_AllocPtr == lsu.itag = alc_ptr /\ ~oitf_empty

wbck_ready4lsu == lsu.itag = ret_ptr /\ ~oitf_empty

\* longp_excp_o_ready is pipe_flush_ack, which the IFU ties to 1.
oitf_ret_ena == lsu_o_valid /\ wbck_ready4lsu

longp_wbck_valid == oitf_ret_ena /\ rsp = "ok" /\ ret_payload.rdwen

longp_need_flush == oitf_ret_ena /\ rsp = "err"

splt_fifo_ren == agu_icb_rsp_hsked \/ oitf_ret_ena

\* One command outstanding; the slot takes a new one as it is emptied.
agu_icb_cmd_ready == cmd_rdy /\ (lsu = NoCmd \/ splt_fifo_ren)

wbck_ready4alu == ~longp_wbck_valid

-----------------------------------------------------------------------------
(* Interrupt and debug requests that do not depend on the instruction.     *)

amo_wait == icb_state # "IDLE"

irq_req == irq_req_raw /\ ~(dbg_mode \/ dcsr.step \/ ~mie \/ amo_wait)

\* Mutant: a disabled interrupt does not end WFI.
wfi_irq_req_Masked == irq_req_raw /\ ~(dbg_mode \/ dcsr.step \/ ~mie)

wfi_irq_req == irq_req_raw /\ ~(dbg_mode \/ dcsr.step)

nonalu_dbg_entry_req_raw == ~dbg_mode /\ (dbg_irq_r \/ dcsr.halt \/ step_req)

\* Mutant: a pending step does not hold the ALU's commit back.
nonalu_dbg_entry_req_NoStep ==
    /\ ~dbg_mode
    /\ \/ dbg_irq_r /\ ~step_req /\ ~amo_wait
       \/ dcsr.halt /\ ~dbg_irq_r /\ ~step_req /\ ~dcsr.step /\ ~amo_wait

nonalu_dbg_entry_req ==
    /\ ~dbg_mode
    /\ \/ dbg_irq_r /\ ~step_req /\ ~amo_wait
       \/ dcsr.halt /\ ~dbg_irq_r /\ ~step_req /\ ~dcsr.step /\ ~amo_wait
       \/ step_req

\* flush_req of the commit stage: a flush the ALU must expect.
nonalu_excpirq_flush_req_raw ==
    longp_need_flush \/ nonalu_dbg_entry_req_raw \/ irq_req

-----------------------------------------------------------------------------
(* Dispatch.                                                               *)

raw_dep == \E r \in ir.rs : oitfrd_match(r)

\* Mutant: the destination is not compared with the instructions in flight.
waw_dep_Dropped == FALSE

waw_dep == ir.rdwen /\ oitfrd_match(ir.rdidx)

wfi_halt_exu_ack == oitf_empty /\ ~amo_wait

disp_condition ==
    /\ ir.op \in {"csr", "csrd"} => oitf_empty
    /\ ir.op \in {"fence", "fencei"} => oitf_empty
    /\ ~wfi_halt_req                    \* wfi_halt_exu_req
    /\ ~raw_dep /\ ~waw_dep
    /\ agu_op => dis_ready

i_valid == ir_valid /\ disp_condition

-----------------------------------------------------------------------------
(* The AGU's view of the instruction; a pending non-ALU flush masks it.    *)

flush_block == nonalu_excpirq_flush_req_raw /\ icb_state = "IDLE"

algnldst == ir.op \in {"ld", "st"} /\ ~flush_block
unalgnldst == ir.op = "ldmis" /\ ~flush_block
algnamo == ir.op = "amo" /\ ~flush_block

agu_o_valid ==
    \/ icb_state = "WBCK"
    \/ i_valid /\ (algnldst \/ unalgnldst) /\ agu_icb_cmd_ready

agu_o_cmt_buserr == algnamo /\ leftover_err

-----------------------------------------------------------------------------
(* ALU result and what the commit stage makes of it.                       *)

i_longpipe == algnldst

wbck_o_err ==
    \/ ifu_ilegl
    \/ ir.op \in {"ecall", "ebreak", "wfi"}
    \/ unalgnldst \/ agu_o_cmt_buserr

o_need_wbck == ir.rdwen /\ ~i_longpipe /\ ~wbck_o_err

o_valid == IF agu_op THEN agu_o_valid ELSE i_valid

cmt_o_valid == o_valid /\ (o_need_wbck => wbck_ready4alu)

ebreak4excp == ir.op = "ebreak" /\ (~dcsr.ebreakm \/ dbg_mode)

alu_need_flush ==
    ifu_ilegl \/ ir.op = "ecall" \/ ebreak4excp \/ unalgnldst \/ agu_o_cmt_buserr

ebreak4dbg == ir.op = "ebreak" /\ ~alu_need_flush /\ dcsr.ebreakm /\ ~dbg_mode

alu_ebreakm_flush_req == cmt_o_valid /\ ebreak4dbg

dbg_irq_req == dbg_irq_r /\ ~alu_ebreakm_flush_req /\ ~step_req

dbg_halt_req ==
    dcsr.halt /\ ~dbg_irq_r /\ ~alu_ebreakm_flush_req /\ ~step_req /\ ~dcsr.step

dbg_ebrk_req == alu_ebreakm_flush_req /\ ~step_req

\* Mutant: a debug entry does not wait for the AMO under way.
dbg_entry_req_AnyTime ==
    ~dbg_mode /\ (dbg_irq_req \/ dbg_halt_req \/ step_req \/ dbg_ebrk_req)

dbg_entry_req ==
    /\ ~dbg_mode
    /\ \/ dbg_irq_req /\ ~amo_wait
       \/ dbg_halt_req /\ ~amo_wait
       \/ step_req
       \/ dbg_ebrk_req

dbg_entry_flush_req == dbg_entry_req /\ oitf_empty /\ ir_pc_vld /\ ~longp_need_flush

irq_flush_req ==
    irq_req /\ oitf_empty /\ ir_pc_vld /\ ~dbg_entry_req /\ ~longp_need_flush

alu_excp_flush_req ==
    /\ cmt_o_valid /\ alu_need_flush /\ oitf_empty
    /\ ~irq_req /\ ~dbg_entry_req /\ ~longp_need_flush

excpirq_flush_req ==
    longp_need_flush \/ dbg_entry_flush_req \/ irq_flush_req \/ alu_excp_flush_req

alu_excp_i_ready ==
    IF ebreak4dbg
    THEN oitf_empty /\ ir_pc_vld /\ ~longp_need_flush
    ELSE /\ alu_need_flush => oitf_empty
         /\ ~irq_req /\ ~nonalu_dbg_entry_req /\ ~longp_need_flush

cmt_is_branch ==
    ir.op \in {"bjp", "jalr1", "jalrn", "brmis", "fencei", "mret"} \/ (ir.op = "dret" /\ ~ifu_ilegl)

\* The predictor was right about a "bjp" and wrong about a "brmis"; a JALR's
\* prediction is never questioned.
brchmis_need_flush == cmt_is_branch /\ ir.op \notin {"bjp", "jalr1", "jalrn"}

brchmis_flush_req ==
    cmt_o_valid /\ brchmis_need_flush /\ ~nonalu_excpirq_flush_req_raw

brchmis_i_ready == cmt_is_branch => ~nonalu_excpirq_flush_req_raw

pipe_flush_req == excpirq_flush_req \/ brchmis_flush_req

cmt_o_ready == alu_excp_i_ready /\ brchmis_i_ready

cmt_ena == cmt_o_valid /\ cmt_o_ready

o_ready == cmt_o_ready /\ (o_need_wbck => wbck_ready4alu)

alu_wbck_ena == o_need_wbck /\ o_valid /\ cmt_o_ready /\ wbck_ready4alu

-----------------------------------------------------------------------------
(* AGU command and the ready that goes back to dispatch.                   *)

agu_icb_cmd_valid ==
    \/ algnldst /\ i_valid /\ o_ready
    \/ algnamo /\ icb_state = "IDLE" /\ i_valid /\ o_ready
    \/ algnamo /\ icb_state = "WAIT2ND"

agu_icb_cmd_hsked == agu_icb_cmd_valid /\ agu_icb_cmd_ready

agu_icb_cmd_read == ir.op = "ld" \/ (algnamo /\ icb_state = "IDLE")

state_wbck_exit_ena == icb_state = "WBCK" /\ (o_ready \/ pipe_flush_req)

agu_i_ready == IF algnamo THEN state_wbck_exit_ena ELSE agu_icb_cmd_ready /\ o_ready

i_ready == IF agu_op THEN agu_i_ready ELSE o_ready

\* The IR hands its instruction over.
ir_o_hsked == i_valid /\ i_ready

disp_oitf_ena == ir_o_hsked /\ i_longpipe

-----------------------------------------------------------------------------
(* WFI.                                                                    *)

wfi_flag_clr == wfi_irq_req \/ dbg_entry_req

wfi_halt_ifu_req == wfi_halt_req /\ ~wfi_flag_clr

wfi_req_hsked == wfi_halt_ifu_req /\ halt_ack /\ wfi_halt_exu_ack

\* Mutant: the sleep indication ignores the request that ends it.
core_wfi_Unmasked == wfi_flag

core_wfi == wfi_flag /\ ~wfi_flag_clr

\* The clock of the IFU stops in WFI, that of the EXU when it has nothing to do.
excp_active == (IF wfi_flag THEN wfi_irq_req ELSE irq_req) \/ nonalu_dbg_entry_req_raw

\* Mutant: an instruction in flight does not keep the clock running.
exu_clk_en_NoOitf == ir_valid \/ excp_active

exu_clk_en == ~oitf_empty \/ ir_valid \/ excp_active

-----------------------------------------------------------------------------
ExuInit ==
    /\ OitfInit
    /\ ir_valid = FALSE /\ ir = NoInstr /\ ir_pc_vld = FALSE /\ halt_ack = FALSE
    /\ icb_state = "IDLE" /\ leftover \in Vals /\ leftover_err = FALSE
    /\ lsu = NoCmd /\ rsp = "none" /\ cmd_rdy \in CmdRdyLevels
    /\ rf \in [RfIdx -> Vals] /\ arch = rf
    /\ wfi_flag = FALSE /\ wfi_halt_req = FALSE /\ step_req = FALSE
    /\ mie = FALSE /\ mpie = FALSE /\ dcause = 0
    /\ dcsr = [halt |-> FALSE, step |-> FALSE, ebreakm |-> FALSE]
    /\ irq_req_raw \in IrqLevels /\ dbg_irq_r \in DbgLevels
    /\ stepped = 0

\* The AMO state machine; a flush sends every state back to IDLE.
icb_state_nxt ==
    LET unless_flushed(s) == IF pipe_flush_req THEN "IDLE" ELSE s
        on(c, s) == IF c \/ pipe_flush_req THEN unless_flushed(s) ELSE icb_state
    IN CASE icb_state = "IDLE" ->
              IF algnamo /\ oitf_empty /\ agu_icb_cmd_hsked /\ ~pipe_flush_req
              THEN "1ST" ELSE "IDLE"
         [] icb_state = "1ST"     -> on(agu_icb_rsp_hsked, "AMOALU")
         [] icb_state = "AMOALU"  -> on(TRUE, "AMORDY")
         [] icb_state = "AMORDY"  -> on(TRUE, "WAIT2ND")
         [] icb_state = "WAIT2ND" -> on(agu_icb_cmd_ready, "2ND")
         [] icb_state = "2ND"     -> on(agu_icb_rsp_hsked, "WBCK")
         [] icb_state = "WBCK"    -> IF state_wbck_exit_ena THEN "IDLE" ELSE "WBCK"

AguClk ==
    LET uop(s) == agu_icb_rsp_hsked /\ icb_state = s /\ algnamo
    IN /\ icb_state' = icb_state_nxt
       /\ leftover' = IF uop("1ST") THEN lsu.rdata ELSE leftover
       /\ leftover_err' = CASE uop("1ST") -> rsp = "err"
                            [] uop("2ND") -> rsp = "err" \/ leftover_err
                            [] OTHER -> leftover_err

\* The LSU's outstanding slot and the memory behind it.  A response may come
\* from the cycle after the command on, and is held until it is taken.
LsuClk ==
    /\ lsu' \in IF agu_icb_cmd_hsked
               THEN [cmd : {IF agu_icb_cmd_read THEN "read" ELSE "write"},
                     itag : {alc_ptr}, back2agu : {algnamo},
                     rdata : IF agu_icb_cmd_read THEN Vals ELSE {"none"}]
               ELSE {IF splt_fifo_ren THEN NoCmd ELSE lsu}
    /\ rsp' \in CASE lsu' = NoCmd -> {"none"}
                  [] lsu' # NoCmd /\ (agu_icb_cmd_hsked \/ rsp = "none") ->
                         {"none"} \cup RspKinds
                  [] OTHER -> {rsp}
    /\ cmd_rdy' \in CmdRdyLevels

\* The write-back arbiter: a long-pipe result goes first.  arch follows the
\* program: a load defines its register when it is dispatched, and leaves it
\* alone after all when the memory answers with an error.
RegfileClk ==
    \E v \in IF ~alu_wbck_ena THEN {leftover}
             ELSE IF ir.op = "amo" THEN {leftover} ELSE Vals :
      /\ rf' = CASE alu_wbck_ena     -> [rf EXCEPT ![ir.rdidx] = v]
                 [] longp_wbck_valid -> [rf EXCEPT ![ret_payload.rdidx] = lsu.rdata]
                 [] OTHER            -> rf
      /\ arch' =
           LET failed == IF longp_need_flush /\ ret_payload.rdwen
                         THEN [arch EXCEPT ![ret_payload.rdidx] = rf[ret_payload.rdidx]]
                         ELSE arch
           IN CASE alu_wbck_ena -> [failed EXCEPT ![ir.rdidx] = v]
                [] disp_oitf_ena /\ ir.rdwen ->
                       [failed EXCEPT ![ir.rdidx] = lsu'.rdata]
                [] OTHER -> failed

WfiClk ==
    LET wfi_cmt == ir.op = "wfi" /\ cmt_ena /\ ~dbg_mode
    IN /\ wfi_flag' = (~wfi_flag_clr /\ (wfi_flag \/ wfi_req_hsked))
       /\ wfi_halt_req' = (~wfi_flag_clr /\ (wfi_halt_req \/ wfi_cmt))

\* mstatus: a trap goes before mret, mret before a CSR instruction.
MstatusClk ==
    LET cmt_status_ena == ~dbg_mode /\ (longp_need_flush \/ alu_excp_flush_req \/ irq_flush_req)
        cmt_mret_ena == ir.op = "mret" /\ brchmis_flush_req
        wr_mstatus == ir.op = "csr" /\ i_valid /\ o_ready
    IN /\ mpie' \in CASE cmt_status_ena -> {mie}
                      [] ~cmt_status_ena /\ cmt_mret_ena -> {TRUE}
                      [] ~cmt_status_ena /\ ~cmt_mret_ena /\ wr_mstatus -> BOOLEAN
                      [] OTHER -> {mpie}
       /\ mie' \in CASE cmt_status_ena -> {FALSE}
                     [] ~cmt_status_ena /\ cmt_mret_ena -> {mpie}
                     [] ~cmt_status_ena /\ ~cmt_mret_ena /\ wr_mstatus -> BOOLEAN
                     [] OTHER -> {mie}

\* Mutant: the cause of a debug interrupt is encoded off by one.
set_dcause_nxt_OffByOne == IF dbg_ebrk_req THEN 1 ELSE IF dbg_irq_req THEN 2
                           ELSE IF step_req THEN 4 ELSE 5

set_dcause_nxt == CASE dbg_ebrk_req -> 1
                    [] ~dbg_ebrk_req /\ dbg_irq_req -> 3
                    [] ~dbg_ebrk_req /\ ~dbg_irq_req /\ step_req -> 4
                    [] OTHER -> 5

DebugClk ==
    LET cmt_dret_ena == ir.op = "dret" /\ brchmis_flush_req
        step_req_set == ~dbg_mode /\ dcsr.step /\ cmt_ena /\ ~dbg_entry_flush_req
        wr_dcsr_ena == dbg_mode /\ ir.op = "csrd" /\ i_valid /\ o_ready
    IN /\ dcause' = IF dbg_entry_flush_req THEN set_dcause_nxt
                    ELSE IF cmt_dret_ena THEN 0 ELSE dcause
       /\ step_req' = (step_req_set \/ (step_req /\ ~dbg_entry_flush_req))
       /\ dcsr' \in IF wr_dcsr_ena THEN DcsrWrites ELSE {dcsr}
       /\ stepped' = CASE dbg_mode -> 0
                       [] ~dbg_mode /\ cmt_ena /\ stepped < 2 -> stepped + 1
                       [] OTHER -> stepped

\* The registers of the EXU's clock domain.
ExuClk ==
    IF exu_clk_en
    THEN /\ OitfClk(disp_oitf_ena, oitf_ret_ena, [rdwen |-> ir.rdwen, rdidx |-> ir.rdidx])
         /\ AguClk /\ WfiClk /\ MstatusClk /\ DebugClk /\ RegfileClk
    ELSE UNCHANGED <<oitf_vars, agu_vars, rf, arch, cmt_vars, stepped>>

ir_valid_clr == ir_o_hsked \/ (pipe_flush_req /\ ir_valid)

(***************************************************************************)
(* The IFU as the EXU sees it: it may fill the IR whenever the IR is free  *)
(* and no flush goes on, it may know the PC before the instruction, and it *)
(* acknowledges a halt when no fetch is outstanding, whenever that is.  A  *)
(* flush of an empty IR does not take its PC's valid bit away.             *)
(***************************************************************************)
IfuClk ==
    IF core_wfi THEN UNCHANGED ifu_vars
    ELSE LET ifu_ir_i_ready == ~ir_valid \/ ir_valid_clr
             set == ifu_ir_i_ready /\ ~pipe_flush_req
         IN /\ ir' \in IF set THEN Instr \cup {NoInstr}
                      ELSE {IF ifu_ir_i_ready THEN NoInstr ELSE ir}
            /\ ir_valid' = (ir' # NoInstr)
            /\ ir_pc_vld' \in IF ir_valid' THEN {TRUE}
                              ELSE {ir_pc_vld /\ ~ir_valid_clr} \cup {b \in {TRUE} : set}
            /\ halt_ack' \in IF wfi_halt_ifu_req THEN {halt_ack, TRUE} ELSE {FALSE}

IrqClk == irq_req_raw' \in IrqLevels /\ dbg_irq_r' \in DbgLevels

Cycle == LsuClk /\ ExuClk /\ IfuClk /\ IrqClk

ExuSpec == ExuInit /\ [][Cycle]_vars

-----------------------------------------------------------------------------
ExuTypeOK ==
    /\ OitfTypeOK
    /\ ir \in Instr \cup {NoInstr} /\ ir_valid \in BOOLEAN
    /\ ir_pc_vld \in BOOLEAN /\ halt_ack \in BOOLEAN
    /\ icb_state \in {"IDLE", "1ST", "AMOALU", "AMORDY", "WAIT2ND", "2ND", "WBCK"}
    /\ leftover \in Vals /\ leftover_err \in BOOLEAN
    /\ lsu \in [cmd : {"none", "read", "write"}, itag : Itag, back2agu : BOOLEAN,
               rdata : Vals \cup {"none"}]
    /\ rsp \in {"none"} \cup RspKinds /\ cmd_rdy \in CmdRdyLevels
    /\ rf \in [RfIdx -> Vals] /\ arch \in [RfIdx -> Vals]
    /\ wfi_flag \in BOOLEAN /\ wfi_halt_req \in BOOLEAN /\ step_req \in BOOLEAN
    /\ mie \in BOOLEAN /\ mpie \in BOOLEAN /\ dcause \in {0, 1, 3, 4, 5}
    /\ dcsr \in [halt : BOOLEAN, step : BOOLEAN, ebreakm : BOOLEAN]
    /\ irq_req_raw \in IrqLevels /\ dbg_irq_r \in DbgLevels
    /\ stepped \in 0 .. 2

\* A register no in-flight instruction will write holds what the program last
\* put there, although loads finish after the ALU instructions that follow
\* them (the WAW check of dispatch).
RegfileArchitectural == \A r \in RfIdx : ~oitfrd_match(r) => rf[r] = arch[r]

\* An instruction that dispatch lets go reads the values the program order
\* gives its operands (the RAW check of dispatch).
OperandsFresh == i_valid => \A r \in ir.rs : rf[r] = arch[r]

\* The memory's answer to a load or store always finds its entry at the head
\* of the OITF, so it is never held up, and the error of an older instruction
\* never finds a younger one in flight.
ResponseFindsHead ==
    lsu # NoCmd /\ ~lsu.back2agu => wbck_ready4lsu

\* Nothing overtakes: register file, operands and answers are those of the
\* program order whenever the memory answers (dispatch and the OITF).
HazardsInterlocked == RegfileArchitectural /\ OperandsFresh /\ ResponseFindsHead

\* Precise traps: when an exception, an interrupt or a debug entry flushes the
\* pipeline, the instruction in the IR has no effect in that cycle, although
\* the flush and the ready towards the ALU are computed along different paths.
\* Only ebreak is accounted as committed by the debug entry that it asks for.
FlushIsPrecise ==
    excpirq_flush_req =>
        /\ ~alu_wbck_ena /\ ~disp_oitf_ena /\ ~agu_icb_cmd_hsked
        /\ ~(ir.op \in {"csr", "csrd"} /\ ir_o_hsked)
        /\ cmt_ena => alu_excp_flush_req \/ ebreak4dbg

\* An AMO that has read the memory is never flushed: it writes back and
\* commits, or takes its own bus error.
AmoIsAtomic ==
    icb_state # "IDLE" /\ pipe_flush_req => icb_state = "WBCK" /\ leftover_err

\* A trap, interrupt or debug entry finds and leaves every instruction done or
\* not begun, the two memory accesses of an AMO included (excp, AGU).
TrapsArePrecise == FlushIsPrecise /\ AmoIsAtomic

\* While the core sleeps in WFI nothing is in flight in the EXU and nothing
\* flushes an IFU whose clock is stopped.
SleepIsSafe == core_wfi => oitf_empty /\ ~amo_wait /\ ~pipe_flush_req

\* The EXU's clock is only stopped when no register behind it, except the WFI
\* handshake's, would have changed.
GatingLosesNothing ==
    ~exu_clk_en => /\ ~cmt_ena /\ ~ir_o_hsked /\ ~oitf_ret_ena /\ ~pipe_flush_req
                   /\ icb_state_nxt = icb_state

\* An instruction that leaves the IR is committed in the same cycle.
EveryInstrCommits == ir_o_hsked => cmt_ena

\* Single step: out of debug mode with dcsr.step set, at most one instruction
\* commits before debug mode is entered again.
StepExecutesOne == ~dbg_mode /\ dcsr.step => stepped <= 1

\* Nothing leaves the IR without a commit, and a step commits one instruction
\* (the debugger's halt, step and ebreak against the ALU's handshake).
StepsAreExact == EveryInstrCommits /\ StepExecutesOne

\* Dispatch, AGU, LSU, write-back, commit and fetch never wait on one another
\* for ever: the core goes on committing or flushing, or waits in WFI.
Progress == []<>(cmt_ena \/ pipe_flush_req \/ wfi_halt_req)

\* An interrupt that stays pending ends WFI, enabled or not, also when the EXU's
\* clock was stopped before the WFI handshake could set wfi_flag.
WfiWakes == []<>(irq_req_raw /\ ~dbg_mode /\ ~dcsr.step => ~wfi_halt_req)

\* An interrupt that stays pending and enabled is taken, whatever loads, AMOs
\* and branches the program goes on executing.
InterruptTaken ==
    []<>(irq_req_raw /\ mie /\ ~dbg_mode /\ ~dcsr.step => irq_flush_req)

\* A pending interrupt is served: it ends WFI, and it is taken when enabled.
InterruptsServed == WfiWakes /\ InterruptTaken

\* The assertion CHECK_1HOT_FLUSH_HALT of e203_exu_commit.v.
OneHotFlushHalt == ~(wfi_halt_ifu_req /\ pipe_flush_req)
=============================================================================
