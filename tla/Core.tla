-------------------------------- MODULE Core --------------------------------
(***************************************************************************)
(* The two-stage pipeline: the execution stage of Exu with the real fetch  *)
(* stage of Ifetch in the place of Exu's abstract one, and the static      *)
(* predictor e203_ifu_litebpu.v, which reads the register file under the   *)
(* EXU's nose when it meets a JALR.                                        *)
(*                                                                         *)
(* A program counter is abstracted to the path it lies on.  Each flush     *)
(* starts a new path; going on or jumping as predicted stays on it.  The   *)
(* paths are counted modulo NPath, enough to tell the current one from     *)
(* those that a late answer or a stale register may still belong to.       *)
(***************************************************************************)
EXTENDS Exu

CONSTANTS NPath,         \* paths told apart
          ReqRdyLevels   \* levels of the fetch target's ready

ASSUME CoreAssumption ==
    /\ NPath \in Nat /\ NPath >= 2
    /\ ReqRdyLevels \subseteq BOOLEAN /\ TRUE \in ReqRdyLevels

VARIABLES reset_flag, reset_req, dly_flush, ifu_pc_r, pc_r, out_flag, pc_newpend,
          req_pc, ir_src,
          ifu_rsp,        \* the answer to the outstanding fetch, or NoInstr
          ifu_req_ready,
          rs1xn_rdrf,     \* litebpu: the register file's port is being read
          path            \* history: the path the program is on

fetch_vars == <<reset_flag, reset_req, dly_flush, ifu_pc_r, pc_r, out_flag,
                pc_newpend, req_pc, ir_src>>
core_reg_vars == <<reg_vars, fetch_vars, ifu_rsp, rs1xn_rdrf, path>>
core_vars == <<vars, fetch_vars, ifu_rsp, ifu_req_ready, rs1xn_rdrf, path>>

IF1 == INSTANCE Ifetch WITH PC <- 0 .. NPath - 1, pc_rtvec <- 0, Word <- Instr

new_path == (path + 1) % NPath

-----------------------------------------------------------------------------
(* litebpu: a JALR waits until the register its target comes from is safe. *)

ir_rdidx_match(r) == ir_valid /\ ir.rdwen /\ ir.rdidx = r

\* Mutant: the instruction in the IR is not compared with x1.
jalr_rs1x1_dep_NoIr == ifu_rsp.op = "jalr1" /\ ~oitf_empty

jalr_rs1x1_dep == ifu_rsp.op = "jalr1" /\ (~oitf_empty \/ ir_rdidx_match(x1))

jalr_rs1xn_dep == ifu_rsp.op = "jalrn" /\ (~oitf_empty \/ ir_valid)

\* The port may be taken from an instruction that leaves the IR or does not
\* use it.
jalr_rs1xn_dep_ir_clr ==
    jalr_rs1xn_dep /\ oitf_empty /\ ir_valid /\ (ir_valid_clr \/ ir.rs = {})

rs1xn_rdrf_set ==
    ~rs1xn_rdrf /\ ifu_rsp.op = "jalrn" /\ (~jalr_rs1xn_dep \/ jalr_rs1xn_dep_ir_clr)

bpu_wait == jalr_rs1x1_dep \/ jalr_rs1xn_dep \/ rs1xn_rdrf_set

\* What the fetch stage is given in this cycle.
fetch_in == [flush |-> pipe_flush_req, flush_pc |-> new_path,
             halt |-> wfi_halt_ifu_req, o_hsked |-> ir_o_hsked,
             req_ready |-> ifu_req_ready, rsp_valid |-> ifu_rsp # NoInstr,
             rsp_instr |-> ifu_rsp, bpu_wait |-> bpu_wait, bjp |-> FALSE,
             prdt_pc |-> pc_r, seq_pc |-> pc_r]

-----------------------------------------------------------------------------
CoreInit ==
    /\ ExuInit /\ IF1!IfetchInit
    /\ ifu_rsp = NoInstr /\ ifu_req_ready \in ReqRdyLevels
    /\ rs1xn_rdrf = FALSE /\ path = 0

\* The IFU's clock stops in WFI.
IfuStageClk(i) ==
    IF core_wfi THEN UNCHANGED <<ifu_vars, fetch_vars, rs1xn_rdrf>>
    ELSE /\ IF1!IfetchClk(i)
         /\ rs1xn_rdrf' = rs1xn_rdrf_set

\* The memory: a request is answered from the next cycle on, and the answer
\* is held until it is taken.
FetchMemClk(i) ==
    \E taken \in {~core_wfi /\ IF1!ifu_rsp_hsked(i)} :
       /\ ifu_rsp' \in IF out_flag' /\ (taken \/ ifu_rsp = NoInstr)
                      THEN Instr \cup {NoInstr}
                      ELSE {IF taken THEN NoInstr ELSE ifu_rsp}
       /\ ifu_req_ready' \in ReqRdyLevels

PathClk(i) == path' = IF i.flush THEN new_path ELSE path

CoreCycle ==
    \E i \in {fetch_in} :
        PathClk(i) /\ IfuStageClk(i) /\ LsuClk /\ ExuClk /\ FetchMemClk(i) /\ IrqClk

CoreSpec == CoreInit /\ [][CoreCycle]_core_vars

\* Fairness: the clock ticks, and the memories answer and become ready.
CoreLiveSpec ==
    /\ CoreSpec
    /\ WF_core_reg_vars(CoreCycle)
    /\ WF_core_vars(rsp = "none" /\ CoreCycle /\ rsp' # "none")
    /\ WF_core_vars(ifu_rsp = NoInstr /\ CoreCycle /\ ifu_rsp' # NoInstr)
    /\ WF_core_vars(~ifu_req_ready /\ CoreCycle /\ ifu_req_ready')

-----------------------------------------------------------------------------
\* The fetch stage is one of those that Exu allows for: what is checked of Exu
\* holds with the real IFU, its delayed flush and its early PC included.
ImplementsExu == ExuSpec

\* However late the fetch of a cancelled path is answered, and however often
\* the flush is delayed, only instructions of the current path reach the EXU,
\* and they carry the PC they were fetched from.
OnlyCurrentPathIssues ==
    ir_valid => ir_pc_vld /\ ifu_pc_r = path /\ ir_src = path

\* The PC that a trap or a debug entry saves in mepc or dpc lies on the current
\* path: "otherwise, the commit stage may use wrong PC value to stored in DPC
\* or EPC" (e203_exu_alu.v).
SavedPcIsCurrent ==
    irq_flush_req \/ dbg_entry_flush_req \/ alu_excp_flush_req => ifu_pc_r = path

\* What is issued and what is saved belongs to the path the program is on,
\* however late the memory answers (ifetch's delayed flush, pc_vld).
PathIsCurrent == OnlyCurrentPathIssues /\ SavedPcIsCurrent

\* The register that a JALR's target is computed from, when the target is
\* fetched, holds what the program order gives it: nothing checks the target
\* again later.
JalrTargetFresh ==
    ifu_rsp.op \in {"jalr1", "jalrn"} /\ IF1!ir_valid_set(fetch_in) =>
        \A r \in ifu_rsp.rs : rf[r] = arch[r] /\ ~ir_rdidx_match(r)
=============================================================================
