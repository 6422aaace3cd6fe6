-------------------------------- MODULE Itcm --------------------------------
(***************************************************************************)
(* The ITCM controller, e203_itcm_ctrl.v: a 64-bit SRAM shared by the IFU  *)
(* with the LSU and an external master, which go first.  A command passes  *)
(* a one-entry bypass buffer, reads the SRAM, and waits one stage further  *)
(* until its response is taken.  The SRAM holds its output until its next  *)
(* access; ifu_holdup tells the IFU that this output is still its own, so  *)
(* that it may use it again without an access.                             *)
(*                                                                         *)
(* A lane is named by the address of its first halfword; an access of the  *)
(* LSU or the external master leaves OtherLane on the SRAM's output.  The  *)
(* input wires of the cycle are in e: arb_cmd, another agent presents a    *)
(* command, and arb_rsp_ready, it takes its response.                      *)
(***************************************************************************)
EXTENDS Integers

CONSTANTS ITCM_OUTS_NUM,   \* `E203_ITCM_OUTS_NUM
          ITCM_HW          \* halfwords in the ITCM

ASSUME ItcmAssumption ==
    /\ ITCM_OUTS_NUM \in Nat \ {0}
    /\ ITCM_HW \in Nat \ {0} /\ ITCM_HW % 4 = 0

VARIABLES byp_cmd,      \* the bypass buffer in front of the SRAM
          e1,           \* the command whose response is due
          arbt_outs,    \* commands of the other agents outstanding
          ram_dout,     \* the lane on the SRAM's output
          ifu_holdup

itcm_vars == <<byp_cmd, e1, arbt_outs, ram_dout, ifu_holdup>>

Lane == {a \in 0 .. ITCM_HW - 1 : a % 4 = 0}

NoLane == -1
OtherLane == -2

NoCmd == [ifu |-> FALSE, lane |-> NoLane]
OtherCmd == [ifu |-> FALSE, lane |-> OtherLane]
IfuCmd(l) == [ifu |-> TRUE, lane |-> l]

ItcmInit == /\ byp_cmd = NoCmd /\ e1 = NoCmd
            /\ arbt_outs = 0
            /\ ram_dout = OtherLane /\ ifu_holdup = FALSE

arbt_rsp_hsked(e) == e1 = OtherCmd /\ arbt_outs > 0 /\ e.arb_rsp_ready

\* Mutant: the arbiter lets one command too many through.
arbt_icb_cmd_valid_OneMore(e) == e.arb_cmd /\ arbt_outs <= ITCM_OUTS_NUM

\* The arbiter remembers whose response comes next; with one entry it takes a
\* new command as the old one leaves.
arbt_icb_cmd_valid(e) ==
    e.arb_cmd /\ (arbt_outs < ITCM_OUTS_NUM \/ (ITCM_OUTS_NUM = 1 /\ arbt_rsp_hsked(e)))

sram_icb_cmd_ready == byp_cmd = NoCmd

ifu2itcm_icb_cmd_ready(e) == ~arbt_icb_cmd_valid(e) /\ sram_icb_cmd_ready

ifu2itcm_icb_rsp_valid == e1.ifu

\* ifu_cmd is the IFU's command or NoCmd, ifu_rsp_ready its response's ready.
ItcmClk(e, ifu_cmd, ifu_rsp_ready) ==
    LET arbt_valid == arbt_icb_cmd_valid(e)
        i_cmd == IF arbt_valid THEN OtherCmd ELSE ifu_cmd
        o_cmd == IF byp_cmd # NoCmd THEN byp_cmd ELSE i_cmd
        uop_cmd_ready == \/ e1 = NoCmd
                         \/ e1.ifu /\ ifu_rsp_ready
                         \/ arbt_rsp_hsked(e)
        ram_cs == o_cmd # NoCmd /\ uop_cmd_ready
    IN /\ byp_cmd' = IF uop_cmd_ready THEN NoCmd ELSE o_cmd
       /\ e1' = IF uop_cmd_ready THEN o_cmd ELSE e1
       /\ arbt_outs' = arbt_outs + (IF arbt_valid /\ sram_icb_cmd_ready THEN 1 ELSE 0)
                                 - (IF arbt_rsp_hsked(e) THEN 1 ELSE 0)
       /\ ram_dout' = IF ram_cs THEN o_cmd.lane ELSE ram_dout
       \* sram_sel_ifu looks at the buffer's input, ram_cs at its output
       /\ ifu_holdup' = IF ram_cs THEN ifu_cmd # NoCmd /\ ~arbt_valid ELSE ifu_holdup

-----------------------------------------------------------------------------
\* When ifu_holdup is set the SRAM's output is a lane the IFU asked for, although
\* the flag is computed in front of the buffer and the access happens behind it.
HoldupIsIfuLane == ifu_holdup => ram_dout \in Lane
=============================================================================
