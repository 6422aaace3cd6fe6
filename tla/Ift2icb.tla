------------------------------- MODULE Ift2icb -------------------------------
(***************************************************************************)
(* e203_ifu_ift2icb.v: turns the fetch of a 32-bit word at any halfword    *)
(* address into bus commands.  A lane is what one access returns: four     *)
(* halfwords from the ITCM, two from the system memory behind the BIU.  A  *)
(* fetch needs no access when its lane is still held on the ITCM's output, *)
(* one access, or two when it crosses into the next lane; the halfword in  *)
(* front of the crossing waits in the leftover buffer.                     *)
(*                                                                         *)
(* An address counts halfwords; the ITCM lies at 0 .. ITCM_HW - 1 and the  *)
(* system memory behind it.  A halfword's contents are its own address, so *)
(* that what is delivered tells where it came from; junk is on a bus that  *)
(* holds nothing for the IFU.  The request of the fetch stage is a record  *)
(* q: its pc, whether it follows its predecessor (seq), whether that one   *)
(* was 32 bits long (rv32), and the predecessor's address last_pc.  In e,  *)
(* biu_cmd_ready: the BIU takes a command.                                 *)
(***************************************************************************)
EXTENDS Itcm

CONSTANTS PC_HW,       \* halfwords in all; addresses are modulo this
          itcm_nohold, \* the CSR bit that turns the reuse of a held lane off
          ErrLanes     \* lanes of the system memory that answer with an error

ASSUME Ift2icbAssumption ==
    /\ PC_HW \in Nat /\ PC_HW > ITCM_HW /\ PC_HW % 2 = 0
    /\ itcm_nohold \in BOOLEAN
    /\ ErrLanes \subseteq {a \in ITCM_HW .. PC_HW - 1 : a % 2 = 0}

VARIABLES icb_state,
          req_same_cross_holdup, req_need_2uop, req_need_0uop, req_lane_cross,
          icb_cmd2,       \* target of the last command: "itcm", "biu", or "none"
          icb_addr_2_1,   \* its offset in the lane
          leftover, leftover_err,
          rsp_buf,        \* the bypass buffer towards the IR: <<>> or <<word>>
          biu             \* the read outstanding in the BIU, or NoRead

ift2icb_vars == <<icb_state, req_same_cross_holdup, req_need_2uop, req_need_0uop,
                  req_lane_cross, icb_cmd2, icb_addr_2_1, leftover, leftover_err, rsp_buf>>

Junk == -1
Zero == -2     \* what a multiplexer with nothing selected delivers
NoRead == [lane |-> Junk, vld |-> FALSE]

in_itcm(a) == a < ITCM_HW
LaneSize(a) == IF in_itcm(a) THEN 4 ELSE 2
LaneOf(a) == a - (a % LaneSize(a))
Plus(a, n) == (a + n) % PC_HW

-----------------------------------------------------------------------------
(* The request: which lane, and is it still there?                         *)

ifu_req_lane_cross(q) == q.pc % LaneSize(q.pc) = LaneSize(q.pc) - 1
ifu_req_lane_begin(q) == q.pc % LaneSize(q.pc) = 0

\* The first halfword of a lane lies in the lane accessed last only if that
\* access was made ahead, for the second half of a crossing word.
ifu_req_lane_same(q) == q.seq /\ (ifu_req_lane_begin(q) => req_lane_cross)

ifu_req_lane_holdup(q) == in_itcm(q.pc) /\ ifu_holdup /\ ~itcm_nohold

same_cross_holdup(q) ==
    ifu_req_lane_same(q) /\ ifu_req_lane_cross(q) /\ ifu_req_lane_holdup(q)
need_2uop(q) == ifu_req_lane_cross(q) /\ ~same_cross_holdup(q)
need_0uop(q) == ifu_req_lane_same(q) /\ ~ifu_req_lane_cross(q) /\ ifu_req_lane_holdup(q)

-----------------------------------------------------------------------------
(* The response.                                                           *)

\* The k-th halfword of the lane on the bus the last command went to.
rsp_rdata(k) ==
    CASE icb_cmd2 = "itcm" /\ ram_dout \in Lane -> ram_dout + k
      [] icb_cmd2 = "biu" /\ biu.vld -> biu.lane + k
      [] icb_cmd2 = "none" -> Zero
      [] OTHER -> Junk

ifu_icb_rsp_err == icb_cmd2 = "biu" /\ biu.vld /\ biu.lane \in ErrLanes

ifu_icb_rsp_valid ==
    \/ icb_cmd2 = "itcm" /\ ifu2itcm_icb_rsp_valid
    \/ icb_cmd2 = "biu" /\ biu.vld

ifu_icb_rsp2leftover == req_need_2uop /\ icb_state = "1ST"

rsp_instr_sel_leftover ==
    (icb_state = "1ST" /\ req_same_cross_holdup) \/ icb_state = "2ND"

i_ifu_rsp_instr ==
    IF rsp_instr_sel_leftover
    THEN [lo |-> leftover, hi |-> rsp_rdata(0), err |-> ifu_icb_rsp_err \/ leftover_err]
    ELSE LET off == IF icb_cmd2 = "itcm" THEN icb_addr_2_1 ELSE 0
         IN [lo |-> IF off = 3 THEN Zero ELSE rsp_rdata(off),
             hi |-> IF off = 3 THEN Zero ELSE rsp_rdata(off + 1),
             err |-> ifu_icb_rsp_err]

\* A fetch without an access answers itself.
holdup_gen_fake_rsp_valid == icb_state = "1ST" /\ req_need_0uop

i_ifu_rsp_valid ==
    holdup_gen_fake_rsp_valid \/ (ifu_icb_rsp_valid /\ ~ifu_icb_rsp2leftover)
i_ifu_rsp_hsked == i_ifu_rsp_valid /\ rsp_buf = <<>>

ifu_icb_rsp_ready == ifu_icb_rsp2leftover \/ rsp_buf = <<>>
ifu_icb_rsp_hsked == ifu_icb_rsp_valid /\ ifu_icb_rsp_ready

\* Behind the bypass buffer.
ifu_rsp_valid == rsp_buf # <<>> \/ i_ifu_rsp_valid
ifu_rsp_instr == IF rsp_buf # <<>> THEN rsp_buf[1] ELSE i_ifu_rsp_instr

-----------------------------------------------------------------------------
(* The command.                                                            *)

icb_addr_sel_2ndnxtalgn == req_need_2uop /\ icb_state \in {"1ST", "WAIT2ND"}

\* Computed from the predecessor's address, for timing.
ifu_icb_cmd_addr(q) ==
    IF icb_addr_sel_2ndnxtalgn THEN Plus(q.last_pc, 1)
    ELSE IF same_cross_holdup(q) THEN Plus(q.last_pc, IF q.rv32 THEN 3 ELSE 2)
    ELSE q.pc

ifu_icb_cmd_ready(e, q) ==
    IF in_itcm(ifu_icb_cmd_addr(q)) THEN ifu2itcm_icb_cmd_ready(e)
    ELSE e.biu_cmd_ready

ifu_req_ready_condi ==
    \/ icb_state = "IDLE"
    \/ icb_state = (IF req_need_2uop THEN "2ND" ELSE "1ST") /\ i_ifu_rsp_hsked

ifu2icb_req_ready(e, q) == ifu_icb_cmd_ready(e, q) /\ ifu_req_ready_condi

ifu_icb_cmd_valid(q, req_valid) ==
    \/ req_valid /\ ifu_req_ready_condi /\ ~need_0uop(q)
    \/ req_need_2uop /\ ((icb_state = "1ST" /\ ifu_icb_rsp_hsked) \/ icb_state = "WAIT2ND")

\* What the ITCM is asked for in this cycle.
ifu2itcm_cmd(q, req_valid) ==
    LET a == ifu_icb_cmd_addr(q)
    IN IF ifu_icb_cmd_valid(q, req_valid) /\ in_itcm(a) THEN IfuCmd(LaneOf(a)) ELSE NoCmd

-----------------------------------------------------------------------------
Ift2icbInit ==
    /\ icb_state = "IDLE" /\ icb_cmd2 = "none" /\ icb_addr_2_1 = 0
    /\ req_same_cross_holdup = FALSE /\ req_need_2uop = FALSE
    /\ req_need_0uop = FALSE /\ req_lane_cross = FALSE
    /\ leftover = Junk /\ leftover_err = FALSE
    /\ rsp_buf = <<>> /\ biu = NoRead

\* Mutant: the halfword of a held lane is not kept in front of a crossing.
leftover_ena_NoHoldup(q, req_hsked) == ifu_icb_rsp_hsked /\ ifu_icb_rsp2leftover

leftover_ena(q, req_hsked) ==
    \/ req_hsked /\ same_cross_holdup(q)
    \/ ifu_icb_rsp_hsked /\ ifu_icb_rsp2leftover

icb_state_nxt(e, q, req_hsked) ==
    LET again == IF req_hsked THEN "1ST" ELSE "IDLE"
    IN CASE icb_state = "IDLE" -> again
         [] icb_state = "1ST" /\ ifu_icb_rsp2leftover ->
                IF ~ifu_icb_rsp_hsked THEN "1ST"
                ELSE IF ifu_icb_cmd_ready(e, q) THEN "2ND" ELSE "WAIT2ND"
         [] icb_state = "WAIT2ND" -> IF ifu_icb_cmd_ready(e, q) THEN "2ND" ELSE "WAIT2ND"
         [] OTHER -> IF i_ifu_rsp_hsked THEN again ELSE icb_state

Ift2icbClk(e, q, req_valid, rsp_ready) ==
    LET req_hsked == req_valid /\ ifu2icb_req_ready(e, q)
        cmd_hsked == ifu_icb_cmd_valid(q, req_valid) /\ ifu_icb_cmd_ready(e, q)
        a == ifu_icb_cmd_addr(q)
    IN /\ icb_state' = icb_state_nxt(e, q, req_hsked)
       /\ req_same_cross_holdup' = IF req_hsked THEN same_cross_holdup(q) ELSE req_same_cross_holdup
       /\ req_need_2uop'  = IF req_hsked THEN need_2uop(q) ELSE req_need_2uop
       /\ req_need_0uop'  = IF req_hsked THEN need_0uop(q) ELSE req_need_0uop
       /\ req_lane_cross' = IF req_hsked THEN ifu_req_lane_cross(q) ELSE req_lane_cross
       /\ icb_cmd2' = IF cmd_hsked THEN (IF in_itcm(a) THEN "itcm" ELSE "biu") ELSE icb_cmd2
       /\ icb_addr_2_1' = IF cmd_hsked \/ req_hsked THEN a % 4 ELSE icb_addr_2_1
       /\ leftover' = IF leftover_ena(q, req_hsked)
                      THEN rsp_rdata(IF icb_cmd2 = "itcm" THEN 3 ELSE 1) ELSE leftover
       /\ leftover_err' = IF leftover_ena(q, req_hsked)
                          THEN ifu_icb_rsp2leftover /\ ifu_icb_rsp_err ELSE leftover_err
       /\ rsp_buf' = IF rsp_ready THEN <<>>
                     ELSE IF i_ifu_rsp_hsked THEN <<i_ifu_rsp_instr>>
                     ELSE rsp_buf

\* The BIU and what lies behind it: an answer may come from the next cycle on
\* and is held until it is taken.
BiuClk(e, q, req_valid) ==
    LET a == ifu_icb_cmd_addr(q)
        cmd_hsked == /\ ifu_icb_cmd_valid(q, req_valid) /\ ~in_itcm(a)
                     /\ ifu_icb_cmd_ready(e, q)
    IN biu' \in IF cmd_hsked THEN [lane : {LaneOf(a)}, vld : BOOLEAN]
               ELSE IF biu.vld /\ ifu_icb_rsp_ready THEN {NoRead}
               ELSE IF biu # NoRead THEN {biu, [biu EXCEPT !.vld = TRUE]}
               ELSE {biu}
=============================================================================
