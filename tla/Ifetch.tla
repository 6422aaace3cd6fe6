------------------------------- MODULE Ifetch -------------------------------
(***************************************************************************)
(* The instruction fetch stage, e203_ifu_ifetch.v: the PC, the one fetch   *)
(* outstanding, the instruction register with its own PC, and the delayed  *)
(* flush.  One step is one rising edge of the IFU's clock.                 *)
(*                                                                         *)
(* A flush is acknowledged at once, so that no combinational path joins    *)
(* EXU and IFU; when the fetch of its target cannot be issued in the same  *)
(* cycle, dly_flush remembers it.                                          *)
(*                                                                         *)
(* The wires depend on input wires, collected in a record i:               *)
(*   flush, flush_pc       the commit stage's flush and its target         *)
(*   halt                  WFI's halt request                              *)
(*   o_hsked               the EXU takes the instruction in the IR         *)
(*   req_ready             the memory side takes a new request             *)
(*   rsp_valid, rsp_instr  the memory side's answer                        *)
(*   bpu_wait              the predictor waits for a JALR's register       *)
(*   bjp, prdt_pc, seq_pc  a jump is predicted, its target, and the PC     *)
(*                         behind the instruction                          *)
(***************************************************************************)
CONSTANTS PC,        \* program counters
          pc_rtvec,  \* the reset vector
          Word,      \* instructions
          NoInstr    \* the contents of an instruction register not valid

VARIABLES reset_flag, reset_req,
          halt_ack,
          dly_flush,
          ir_valid, ir, ir_pc_vld, ifu_pc_r,
          pc_r, out_flag, pc_newpend,
          req_pc,    \* the PC of the outstanding request: it is on the bus
          ir_src     \* history: where the instruction in the IR came from

ifetch_vars == <<reset_flag, reset_req, halt_ack, dly_flush, ir_valid, ir, ir_pc_vld,
                 ifu_pc_r, pc_r, out_flag, pc_newpend, req_pc, ir_src>>

IfetchInit ==
    /\ reset_flag = TRUE /\ reset_req = FALSE
    /\ halt_ack = FALSE /\ dly_flush = FALSE
    /\ ir_valid = FALSE /\ ir = NoInstr /\ ir_pc_vld = FALSE
    /\ out_flag = FALSE /\ pc_newpend = FALSE
    /\ ifu_pc_r = pc_rtvec /\ pc_r = pc_rtvec
    /\ req_pc = pc_rtvec /\ ir_src = pc_rtvec

pipe_flush_req_real(i) == i.flush \/ dly_flush

ir_valid_clr(i) == i.o_hsked \/ (i.flush /\ ir_valid)

ifu_ir_i_ready(i) == ~ir_valid \/ ir_valid_clr(i)

\* A flush throws the answer away whatever the state of the IR.
ifu_rsp_ready(i) ==
    pipe_flush_req_real(i) \/ (ifu_ir_i_ready(i) /\ i.req_ready /\ ~i.bpu_wait)

ifu_rsp_hsked(i) == i.rsp_valid /\ ifu_rsp_ready(i)

\* Mutant: the answer enters the IR during a flush.
ir_valid_set_Flushed(i) == ifu_rsp_hsked(i)

ir_valid_set(i) == ifu_rsp_hsked(i) /\ ~pipe_flush_req_real(i)

\* The PC goes to the IR as soon as the IR is free, before the instruction.
ir_pc_vld_set(i) == pc_newpend /\ ifu_ir_i_ready(i) /\ ~pipe_flush_req_real(i)

new_req_condi(i) == ~out_flag \/ ifu_rsp_hsked(i)

\* Mutant: a halt is acknowledged whatever is outstanding.
ifu_no_outs_Always(i) == TRUE

ifu_no_outs(i) == ~out_flag \/ i.rsp_valid

ifu_req_valid(i) ==
    /\ \/ ~i.bpu_wait /\ ~i.halt /\ ~reset_flag
       \/ reset_req
       \/ pipe_flush_req_real(i)
    /\ new_req_condi(i)

ifu_req_hsked(i) == ifu_req_valid(i) /\ i.req_ready

\* The order of the multiplexers in front of the PC adder.
pc_nxt(i) == IF i.flush THEN i.flush_pc
             ELSE IF dly_flush THEN pc_r
             ELSE IF i.bjp THEN i.prdt_pc
             ELSE IF reset_req THEN pc_rtvec
             ELSE i.seq_pc

pc_ena(i) == ifu_req_hsked(i) \/ i.flush

\* Mutant: a flush whose fetch has to wait is forgotten.
dly_flush_nxt_Forgets(i) == FALSE

dly_flush_nxt(i) == ~ifu_req_hsked(i) /\ pipe_flush_req_real(i)

\* Set and cleared in the same cycle, a register below ends up set.
IfetchClk(i) ==
    /\ reset_flag' = FALSE
    /\ reset_req'  = IF reset_req THEN ~ifu_req_hsked(i) ELSE reset_flag
    /\ halt_ack'   = (i.halt /\ (halt_ack \/ ifu_no_outs(i)))
    /\ dly_flush'  = dly_flush_nxt(i)
    /\ ir_valid'   = (ir_valid_set(i) \/ (ir_valid /\ ~ir_valid_clr(i)))
    /\ ir' = IF ir_valid_set(i) THEN i.rsp_instr
             ELSE IF ir_valid_clr(i) THEN NoInstr ELSE ir
    /\ ir_pc_vld'  = (ir_pc_vld_set(i) \/ (ir_pc_vld /\ ~ir_valid_clr(i)))
    /\ ifu_pc_r'   = IF ir_pc_vld_set(i) THEN pc_r ELSE ifu_pc_r
    /\ pc_r'       = IF pc_ena(i) THEN pc_nxt(i) ELSE pc_r
    /\ out_flag'   = (ifu_req_hsked(i) \/ (out_flag /\ ~ifu_rsp_hsked(i)))
    /\ pc_newpend' = (pc_ena(i) \/ (pc_newpend /\ ~ir_pc_vld_set(i)))
    /\ req_pc' = IF ifu_req_hsked(i) THEN pc_nxt(i) ELSE req_pc
    /\ ir_src' = IF ir_valid_set(i) THEN req_pc ELSE ir_src

-----------------------------------------------------------------------------
\* The IR and the IR's PC are loaded by different rules, the one by the answer
\* and the other by the free IR, and still belong together: the instruction
\* handed to the EXU is the one fetched from the PC that goes with it.
IrBelongsToPc == ir_valid => ir_pc_vld /\ ir_src = ifu_pc_r
=============================================================================
