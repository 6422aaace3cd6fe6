----------------------------- MODULE CoreProofs -----------------------------
(***************************************************************************)
(* The pipeline for every program, memory and number of paths: the fetch   *)
(* stage is one that the execution stage allows for, it issues only the    *)
(* current path, and a JALR's target is computed from a current register.  *)
(***************************************************************************)
EXTENDS Core, ExuProofs

\* The fetch stage's own registers.
FetchBits ==
    /\ reset_flag \in BOOLEAN /\ reset_req \in BOOLEAN /\ dly_flush \in BOOLEAN
    /\ out_flag \in BOOLEAN /\ pc_newpend \in BOOLEAN
    /\ ifu_rsp \in Instr \cup {NoInstr}

\* An answer belongs to an outstanding request, and while a request is
\* outstanding its PC either waits for the IR or is in a free IR already.
OutInv ==
    /\ ifu_rsp # NoInstr => out_flag
    /\ out_flag /\ ~pc_newpend => ir_pc_vld /\ ~ir_valid
    /\ dly_flush => pc_newpend

\* Until the fetch that follows a reset is issued, the pipeline is empty.
ResetInv ==
    reset_flag \/ reset_req =>
        /\ ~ir_valid /\ ~ir_pc_vld /\ ~pc_newpend /\ ~out_flag /\ ~dly_flush
        /\ path = 0 /\ oitf_empty

\* Which of the fetch stage's PCs are those of the current path.  A PC that a
\* flush left behind in an empty IR is about to be replaced, and until then the
\* trap or the debug entry that flushed it keeps interrupts masked.
PathInv ==
    /\ pc_r = path
    /\ out_flag /\ ~dly_flush => req_pc = path
    /\ ir_valid => ir_pc_vld /\ ifu_pc_r = path /\ ir_src = path
    /\ ir_pc_vld /\ (~pc_newpend \/ (mie /\ ~dbg_mode)) => ifu_pc_r = path

CoreInv == ExuInv /\ FetchBits /\ OutInv /\ ResetInv /\ PathInv

\* Without debug interrupts there is no way into debug mode.
NoDebugInv ==
    ~dbg_mode /\ ~step_req /\ ~dbg_irq_r /\ ~dcsr.halt /\ ~dcsr.step /\ ~dcsr.ebreakm

\* What a trap saves in mepc, with or without a debugger.
SavedEpcIsCurrent == irq_flush_req \/ alu_excp_flush_req => ifu_pc_r = path

-----------------------------------------------------------------------------
(* The wires of the fetch stage in one cycle, and what the edge does.      *)

req_hsked == IF1!ifu_req_hsked(fetch_in)
rsp_hsked == IF1!ifu_rsp_hsked(fetch_in)
ir_set    == IF1!ir_valid_set(fetch_in)
pc_set    == IF1!ir_pc_vld_set(fetch_in)
ir_free   == ~ir_valid \/ ir_valid_clr

\* What the fetch stage sees of the execution stage.
LEMMA FetchInputs ==
    /\ fetch_in.flush = pipe_flush_req /\ fetch_in.flush_pc = new_path
    /\ fetch_in.halt = wfi_halt_ifu_req /\ fetch_in.o_hsked = ir_o_hsked
    /\ fetch_in.rsp_valid = (ifu_rsp # NoInstr) /\ fetch_in.rsp_instr = ifu_rsp
    /\ fetch_in.bpu_wait = bpu_wait /\ ~fetch_in.bjp
    /\ fetch_in.req_ready = ifu_req_ready /\ fetch_in.seq_pc = pc_r
  BY DEF fetch_in

\* The fetch stage's wires in terms of those inputs.
LEMMA FetchWires ==
    /\ ir_set <=> rsp_hsked /\ ~pipe_flush_req /\ ~dly_flush
    /\ rsp_hsked => ifu_rsp # NoInstr
    /\ rsp_hsked => pipe_flush_req \/ dly_flush \/ (ir_free /\ ~bpu_wait)
    /\ rsp_hsked <=> IF1!ifu_rsp_hsked(fetch_in)
    /\ pc_set <=> pc_newpend /\ ir_free /\ ~pipe_flush_req /\ ~dly_flush
    /\ req_hsked => ~out_flag \/ rsp_hsked
    /\ req_hsked /\ reset_flag => reset_req \/ pipe_flush_req \/ dly_flush
<1>1. IF1!ir_valid_clr(fetch_in) <=> ir_valid_clr
  BY FetchInputs DEF IF1!ir_valid_clr, ir_valid_clr
<1>2. IF1!ifu_ir_i_ready(fetch_in) <=> ir_free
  BY <1>1 DEF IF1!ifu_ir_i_ready, ir_free
<1>3. IF1!pipe_flush_req_real(fetch_in) <=> pipe_flush_req \/ dly_flush
  BY FetchInputs DEF IF1!pipe_flush_req_real
<1>4. rsp_hsked => ifu_rsp # NoInstr
  BY FetchInputs DEF rsp_hsked, IF1!ifu_rsp_hsked
<1>5. rsp_hsked => pipe_flush_req \/ dly_flush \/ (ir_free /\ ~bpu_wait)
  BY FetchInputs, <1>2, <1>3 DEF rsp_hsked, IF1!ifu_rsp_hsked, IF1!ifu_rsp_ready
<1>6. ir_set <=> rsp_hsked /\ ~pipe_flush_req /\ ~dly_flush
  BY <1>3 DEF ir_set, IF1!ir_valid_set, rsp_hsked
<1>7. pc_set <=> pc_newpend /\ ir_free /\ ~pipe_flush_req /\ ~dly_flush
  BY <1>2, <1>3 DEF pc_set, IF1!ir_pc_vld_set
<1>8. /\ req_hsked => ~out_flag \/ rsp_hsked
      /\ req_hsked /\ reset_flag => reset_req \/ pipe_flush_req \/ dly_flush
  BY <1>3 DEF req_hsked, rsp_hsked, IF1!ifu_req_hsked, IF1!ifu_req_valid,
              IF1!new_req_condi
<1> QED
  BY <1>4, <1>5, <1>6, <1>7, <1>8 DEF rsp_hsked

\* The fetch stage's edge in the terms of those wires.
LEMMA FetchEdge ==
    ASSUME IF1!IfetchClk(fetch_in)
    PROVE  /\ ~reset_flag' /\ (reset_req' => reset_flag \/ reset_req)
           /\ reset_req' => ~reset_req \/ ~req_hsked
           /\ dly_flush' <=> ~req_hsked /\ (pipe_flush_req \/ dly_flush)
           /\ ir_valid' <=> ir_set \/ (ir_valid /\ ~ir_valid_clr)
           /\ ir' = IF ir_set THEN ifu_rsp
                    ELSE IF ir_valid_clr THEN NoInstr ELSE ir
           /\ ir_pc_vld' <=> pc_set \/ (ir_pc_vld /\ ~ir_valid_clr)
           /\ ifu_pc_r' = IF pc_set THEN pc_r ELSE ifu_pc_r
           /\ out_flag' <=> req_hsked \/ (out_flag /\ ~rsp_hsked)
           /\ pc_newpend' <=> req_hsked \/ pipe_flush_req \/ (pc_newpend /\ ~pc_set)
           /\ ir_src' = IF ir_set THEN req_pc ELSE ir_src
           /\ ~req_hsked => req_pc' = req_pc
           /\ req_hsked => req_pc' = pc_r'
           /\ ~req_hsked /\ ~pipe_flush_req => pc_r' = pc_r
           /\ pipe_flush_req => pc_r' = new_path
           /\ ~pipe_flush_req => pc_r' = pc_r \/ (reset_req /\ pc_r' = 0)
<1>1. IF1!ir_valid_clr(fetch_in) <=> ir_valid_clr
  BY FetchInputs DEF IF1!ir_valid_clr, ir_valid_clr
<1>2. IF1!pipe_flush_req_real(fetch_in) <=> pipe_flush_req \/ dly_flush
  BY FetchInputs DEF IF1!pipe_flush_req_real
<1>3. /\ ~reset_flag' /\ (reset_req' => reset_flag \/ reset_req)
      /\ reset_req' => ~reset_req \/ ~req_hsked
      /\ dly_flush' <=> ~req_hsked /\ (pipe_flush_req \/ dly_flush)
  BY <1>2 DEF IF1!IfetchClk, IF1!dly_flush_nxt, req_hsked
<1>4. /\ ir_valid' <=> ir_set \/ (ir_valid /\ ~ir_valid_clr)
      /\ ir_pc_vld' <=> pc_set \/ (ir_pc_vld /\ ~ir_valid_clr)
  BY <1>1 DEF IF1!IfetchClk, ir_set, pc_set
<1>5. ir' = IF ir_set THEN ifu_rsp ELSE IF ir_valid_clr THEN NoInstr ELSE ir
  BY <1>1, FetchInputs DEF IF1!IfetchClk, ir_set
<1>6. /\ ifu_pc_r' = IF pc_set THEN pc_r ELSE ifu_pc_r
      /\ ir_src' = IF ir_set THEN req_pc ELSE ir_src
      /\ out_flag' <=> req_hsked \/ (out_flag /\ ~rsp_hsked)
  BY DEF IF1!IfetchClk, ir_set, pc_set, req_hsked, rsp_hsked
<1>7. IF1!pc_ena(fetch_in) <=> req_hsked \/ pipe_flush_req
  BY FetchInputs DEF IF1!pc_ena, req_hsked
<1>8. pc_newpend' <=> req_hsked \/ pipe_flush_req \/ (pc_newpend /\ ~pc_set)
  BY <1>7 DEF IF1!IfetchClk, pc_set
<1>9. /\ pipe_flush_req => IF1!pc_nxt(fetch_in) = new_path
      /\ ~pipe_flush_req => \/ IF1!pc_nxt(fetch_in) = pc_r
                            \/ reset_req /\ IF1!pc_nxt(fetch_in) = 0
  BY FetchInputs DEF IF1!pc_nxt
<1>10. /\ pc_r' = IF IF1!pc_ena(fetch_in) THEN IF1!pc_nxt(fetch_in) ELSE pc_r
       /\ req_pc' = IF req_hsked THEN IF1!pc_nxt(fetch_in) ELSE req_pc
  BY DEF IF1!IfetchClk, req_hsked
<1>11. /\ ~req_hsked => req_pc' = req_pc
       /\ req_hsked => req_pc' = pc_r'
       /\ ~req_hsked /\ ~pipe_flush_req => pc_r' = pc_r
       /\ pipe_flush_req => pc_r' = new_path
       /\ ~pipe_flush_req => pc_r' = pc_r \/ (reset_req /\ pc_r' = 0)
  BY <1>7, <1>9, <1>10
<1> QED
  BY <1>3, <1>4, <1>5, <1>6, <1>8, <1>11

-----------------------------------------------------------------------------
(* The fetch stage as the execution stage sees it.                         *)

\* An edge of the core is an edge of each of its parts.
LEMMA CorePartsOf ==
    ASSUME CoreCycle
    PROVE  /\ IfuStageClk(fetch_in) /\ LsuClk /\ ExuClk /\ IrqClk
           /\ FetchMemClk(fetch_in)
           /\ path' = IF pipe_flush_req THEN new_path ELSE path
  BY FetchInputs DEF CoreCycle, PathClk

\* The fetch stage does what the execution stage's model lets its IFU do.
LEMMA FetchIsAllowed ==
    ASSUME CoreInv, CoreCycle
    PROVE  IfuClk
<1>1. CASE core_wfi
  BY <1>1, CorePartsOf DEF IfuStageClk, IfuClk
<1>2. CASE ~core_wfi
  <2>1. IF1!IfetchClk(fetch_in)
    BY <1>2, CorePartsOf DEF IfuStageClk
  <2>2. /\ ir \in Instr \cup {NoInstr} /\ ir_valid \in BOOLEAN
        /\ ir_valid <=> ir # NoInstr
        /\ ir_pc_vld \in BOOLEAN /\ halt_ack \in BOOLEAN
        /\ ir_valid => ir_pc_vld
    BY DEF CoreInv, ExuInv, FlightInv, ExuTypeOK, IrInv, PathInv
  <2>3. ir_set => /\ ir_free /\ ~pipe_flush_req /\ ~dly_flush
                  /\ ifu_rsp \in Instr /\ ifu_rsp # NoInstr /\ out_flag
    BY FetchWires DEF CoreInv, FetchBits, OutInv
  <2>4. pc_set => ir_free /\ ~pipe_flush_req
    BY FetchWires
  <2>5. ir_valid' <=> ir' # NoInstr
    BY <2>1, <2>2, <2>3, FetchEdge DEF ir_free
  <2>6. ir' \in IF ir_free /\ ~pipe_flush_req THEN Instr \cup {NoInstr}
                ELSE {IF ir_free THEN NoInstr ELSE ir}
    BY <2>1, <2>2, <2>3, FetchEdge DEF ir_free
  <2>7. ir_valid' => ir_pc_vld'
    <3>1. ir_set => pc_set \/ (ir_pc_vld /\ ~ir_valid)
      BY <2>3, FetchWires DEF CoreInv, OutInv
    <3>2. ~ir_valid => ~ir_valid_clr
      BY EmptyIr DEF CoreInv, ir_valid_clr
    <3> QED
      BY <2>1, <2>2, <3>1, <3>2, FetchEdge
  <2>8. ir_pc_vld' \in BOOLEAN /\ ir_valid' \in BOOLEAN
    BY <2>1 DEF IF1!IfetchClk
  <2>9. ir_pc_vld' \in {ir_pc_vld /\ ~ir_valid_clr}
                         \cup {b \in {TRUE} : ir_free /\ ~pipe_flush_req}
    <3>1. CASE pc_set
      BY <2>1, <2>4, <2>8, <3>1, FetchEdge
    <3>2. CASE ~pc_set
      <4>1. ir_pc_vld' <=> ir_pc_vld /\ ~ir_valid_clr
        BY <2>1, <3>2, FetchEdge
      <4>2. ir_pc_vld' = (ir_pc_vld /\ ~ir_valid_clr)
        BY <4>1, <2>8
      <4> QED
        BY <4>2
    <3> QED
      BY <3>1, <3>2
  <2>10. halt_ack' \in IF wfi_halt_ifu_req THEN {halt_ack, TRUE} ELSE {FALSE}
    <3>1. halt_ack' = (wfi_halt_ifu_req /\ (halt_ack \/ IF1!ifu_no_outs(fetch_in)))
      BY <2>1, FetchInputs DEF IF1!IfetchClk
    <3>2. CASE wfi_halt_ifu_req
      <4>1. halt_ack' = (halt_ack \/ IF1!ifu_no_outs(fetch_in))
        BY <3>1, <3>2
      <4>2. halt_ack' = halt_ack \/ halt_ack' = TRUE
        BY <4>1, <2>2
      <4> QED
        BY <3>2, <4>2
    <3>3. CASE ~wfi_halt_ifu_req
      BY <3>1, <3>3
    <3> QED
      BY <3>2, <3>3
  <2>11. ir_valid' = (ir' # NoInstr)
    BY <2>5, <2>8
  <2>12. ir_pc_vld' \in IF ir_valid' THEN {TRUE}
                        ELSE {ir_pc_vld /\ ~ir_valid_clr}
                               \cup {b \in {TRUE} : ir_free /\ ~pipe_flush_req}
    BY <2>7, <2>8, <2>9
  <2> QED
    BY <1>2, <2>6, <2>10, <2>11, <2>12 DEF IfuClk, ir_free
<1> QED
  BY <1>1, <1>2

\* An edge of the core is an edge of the execution stage.
LEMMA CoreStepsExu ==
    ASSUME CoreInv, CoreCycle
    PROVE  Cycle /\ ExuInv'
<1>1. Cycle
  BY FetchIsAllowed, CorePartsOf DEF Cycle
<1>2. ExuInv'
  BY <1>1, ExuNextInv DEF CoreInv
<1> QED
  BY <1>1, <1>2

-----------------------------------------------------------------------------
(* The fetch stage's invariants across an edge.                            *)

\* The outstanding fetch across an edge.
LEMMA OutStep ==
    ASSUME CoreInv, CoreCycle
    PROVE  FetchBits' /\ OutInv'
<1>1. /\ FetchBits /\ OutInv /\ ir_valid \in BOOLEAN /\ ir_pc_vld \in BOOLEAN
  BY DEF CoreInv, ExuInv, FlightInv, ExuTypeOK
<1>2. ifu_rsp' \in Instr \cup {NoInstr}
  BY <1>1, CorePartsOf DEF FetchMemClk, FetchBits
<1>3. CASE core_wfi
  <2>1. UNCHANGED <<ifu_vars, fetch_vars>>
    BY <1>3, CorePartsOf DEF IfuStageClk
  <2>2. out_flag' = out_flag /\ pc_newpend' = pc_newpend /\ dly_flush' = dly_flush
        /\ ir_pc_vld' = ir_pc_vld /\ ir_valid' = ir_valid
        /\ reset_flag' = reset_flag /\ reset_req' = reset_req
    BY <2>1 DEF ifu_vars, fetch_vars
  <2>3. ifu_rsp' # NoInstr => out_flag'
    BY <1>1, <1>3, <2>2, CorePartsOf DEF FetchMemClk, OutInv
  <2> QED
    BY <1>1, <1>2, <2>2, <2>3 DEF FetchBits, OutInv
<1>4. CASE ~core_wfi
  <2>1. IF1!IfetchClk(fetch_in)
    BY <1>4, CorePartsOf DEF IfuStageClk
  <2>2. /\ reset_flag' \in BOOLEAN /\ reset_req' \in BOOLEAN
        /\ dly_flush' \in BOOLEAN /\ out_flag' \in BOOLEAN /\ pc_newpend' \in BOOLEAN
    BY <1>1, <2>1 DEF IF1!IfetchClk, IF1!dly_flush_nxt, IF1!ifu_req_hsked,
                      IF1!pc_ena, FetchBits
  <2>3. ifu_rsp' # NoInstr => out_flag'
    <3>1. CASE ~out_flag'
      <4>1. ifu_rsp' = IF rsp_hsked THEN NoInstr ELSE ifu_rsp
        BY <1>4, <3>1, CorePartsOf DEF FetchMemClk, rsp_hsked
      <4>2. ~rsp_hsked => ~out_flag
        BY <2>1, <3>1, FetchEdge
      <4> QED
        BY <1>1, <4>1, <4>2 DEF OutInv
    <3> QED
      BY <3>1
  <2>4. dly_flush' => pc_newpend'
    BY <1>1, <2>1, FetchEdge, FetchWires DEF OutInv
  <2>5. out_flag' /\ ~pc_newpend' => ir_pc_vld' /\ ~ir_valid'
    <3> SUFFICES ASSUME out_flag', ~pc_newpend'
                 PROVE  ir_pc_vld' /\ ~ir_valid'
      OBVIOUS
    <3>1. ~req_hsked /\ ~pipe_flush_req /\ (pc_newpend => pc_set)
          /\ out_flag /\ ~rsp_hsked
      BY <2>1, FetchEdge
    <3>2. ~ir_set
      BY <3>1, FetchWires
    <3>3. CASE pc_set
      <4>1. ir_free
        BY <3>3, FetchWires
      <4> QED
        BY <2>1, <3>2, <3>3, <4>1, FetchEdge DEF ir_free
    <3>4. CASE ~pc_set
      <4>1. ir_pc_vld /\ ~ir_valid
        BY <1>1, <3>1, <3>4 DEF OutInv
      <4>2. ~ir_valid_clr
        BY <4>1, EmptyIr DEF CoreInv, ir_valid_clr
      <4> QED
        BY <2>1, <3>2, <4>1, <4>2, FetchEdge
    <3> QED
      BY <3>3, <3>4
  <2> QED
    BY <1>2, <2>2, <2>3, <2>4, <2>5 DEF FetchBits, OutInv
<1> QED
  BY <1>3, <1>4

\* An empty IR flushes only for an interrupt, a debug entry or a bus error.
LEMMA EmptyFlush ==
    ASSUME ExuInv, ~ir_valid, pipe_flush_req
    PROVE  longp_need_flush \/ dbg_entry_flush_req \/ irq_flush_req
  BY EmptyIr DEF pipe_flush_req, excpirq_flush_req, alu_excp_flush_req,
                 brchmis_flush_req

\* Reset across an edge.
LEMMA ResetStep ==
    ASSUME CoreInv, CoreCycle
    PROVE  ResetInv'
<1> SUFFICES ASSUME reset_flag' \/ reset_req'
             PROVE  /\ ~ir_valid' /\ ~ir_pc_vld' /\ ~pc_newpend' /\ ~out_flag'
                    /\ ~dly_flush' /\ path' = 0 /\ oitf_empty'
  BY DEF ResetInv
<1>1. reset_flag \/ reset_req
  <2>1. CASE core_wfi
    BY <2>1, CorePartsOf DEF IfuStageClk, fetch_vars
  <2>2. CASE ~core_wfi
    BY <2>2, CorePartsOf, FetchEdge DEF IfuStageClk
  <2> QED
    BY <2>1, <2>2
<1>2. /\ ~ir_valid /\ ~ir_pc_vld /\ ~pc_newpend /\ ~out_flag /\ ~dly_flush
      /\ path = 0 /\ oitf_empty
  BY <1>1 DEF CoreInv, ResetInv
<1>3. ~pipe_flush_req
  BY <1>2, EmptyFlush, RetireFacts
     DEF CoreInv, dbg_entry_flush_req, irq_flush_req
<1>4. oitf_empty'
  <2>1. ~disp_oitf_ena
    BY <1>2, EmptyIr DEF CoreInv, disp_oitf_ena
  <2> QED
    BY <1>2, <2>1, CoreStepsExu, FlightStep DEF CoreInv
<1>5. path' = 0
  BY <1>2, <1>3, CorePartsOf
<1>6. CASE core_wfi
  BY <1>2, <1>4, <1>5, <1>6, CorePartsOf DEF IfuStageClk, fetch_vars, ifu_vars
<1>7. CASE ~core_wfi
  <2>1. IF1!IfetchClk(fetch_in)
    BY <1>7, CorePartsOf DEF IfuStageClk
  <2>2. ~rsp_hsked /\ ~pc_set /\ ~ir_set
    BY <1>2, FetchWires DEF CoreInv, OutInv
  <2>3. ~req_hsked
    <3>1. CASE reset_req
      <4>1. ~reset_flag' /\ (reset_req' => ~reset_req \/ ~req_hsked)
        BY <2>1, FetchEdge
      <4> QED
        BY <3>1, <4>1
    <3>2. CASE ~reset_req
      BY <1>1, <1>2, <1>3, <3>2, FetchWires
    <3> QED
      BY <3>1, <3>2
  <2> QED
    BY <1>2, <1>3, <1>4, <1>5, <2>1, <2>2, <2>3, FetchEdge
<1> QED
  BY <1>6, <1>7

\* Behind a flush of an empty IR, and as long as the IR stays empty, interrupts
\* are masked: by mstatus, or in debug mode.
LEMMA EmptyMasks ==
    ASSUME ExuInv, ExuClk, ~ir_valid,
           pipe_flush_req \/ ~mie \/ dbg_mode
    PROVE  ~mie' \/ dcause' # 0
<1>1. ir.op = "none" /\ ~cmt_o_valid /\ ~i_valid
  BY EmptyIr
<1>2. ~brchmis_flush_req
  BY <1>1 DEF brchmis_flush_req
<1>3. mie \in BOOLEAN
  BY DEF ExuInv, FlightInv, ExuTypeOK
<1>4. CASE ~exu_clk_en
  <2>1. ~pipe_flush_req
    BY <1>4, GatingSafe DEF GatingLosesNothing
  <2> QED
    BY <1>4, <2>1 DEF ExuClk, cmt_vars, dbg_mode
<1>5. CASE exu_clk_en
  <2>1. MstatusClk /\ DebugClk
    BY <1>5 DEF ExuClk
  <2>2. dbg_entry_flush_req => dcause' # 0
    BY <2>1 DEF DebugClk, set_dcause_nxt
  <2>3. dbg_mode => dcause' # 0
    BY <1>2, <2>1, <2>2 DEF DebugClk, dbg_mode
  <2>4. longp_need_flush \/ irq_flush_req => ~mie' \/ dbg_mode
    BY <2>1 DEF MstatusClk
  <2>5. ~mie => ~mie'
    BY <1>1, <1>2, <1>3, <2>1 DEF MstatusClk
  <2> QED
    BY <2>2, <2>3, <2>4, <2>5, EmptyFlush
<1> QED
  BY <1>4, <1>5

\* The path across an edge.
LEMMA PathStep ==
    ASSUME CoreInv, CoreCycle
    PROVE  PathInv'
<1>1. PathInv /\ OutInv /\ ResetInv /\ ExuInv
  BY DEF CoreInv
<1>2. CASE core_wfi
  <2>1. ~pipe_flush_req
    BY <1>1, <1>2, SleepSafe DEF SleepIsSafe
  <2>2. /\ path' = path /\ pc_r' = pc_r /\ out_flag' = out_flag
        /\ dly_flush' = dly_flush /\ req_pc' = req_pc /\ ir_valid' = ir_valid
        /\ ir_pc_vld' = ir_pc_vld /\ ifu_pc_r' = ifu_pc_r /\ ir_src' = ir_src
        /\ pc_newpend' = pc_newpend
    BY <1>2, <2>1, CorePartsOf DEF IfuStageClk, fetch_vars, ifu_vars
  <2>3. ~ir_valid /\ (~mie \/ dbg_mode) => ~mie' \/ dcause' # 0
    BY <1>1, CorePartsOf, EmptyMasks
  <2>4. ir_pc_vld /\ (~pc_newpend \/ (mie' /\ dcause' = 0)) => ifu_pc_r = path
    BY <1>1, <2>3 DEF PathInv
  <2> QED
    BY <1>1, <2>2, <2>4 DEF PathInv, dbg_mode
<1>3. CASE ~core_wfi
  <2>1. IF1!IfetchClk(fetch_in)
    BY <1>3, CorePartsOf DEF IfuStageClk
  <2>2. path' = IF pipe_flush_req THEN new_path ELSE path
    BY CorePartsOf
  <2>3. pc_r' = path'
    <3>1. reset_req => path = 0
      BY <1>1 DEF ResetInv
    <3> QED
      BY <1>1, <2>1, <2>2, <3>1, FetchEdge DEF PathInv
  <2>4. out_flag' /\ ~dly_flush' => req_pc' = path'
    <3>1. CASE req_hsked
      BY <2>1, <2>3, <3>1, FetchEdge
    <3>2. CASE ~req_hsked
      BY <1>1, <2>1, <2>2, <3>2, FetchEdge DEF PathInv
    <3> QED
      BY <3>1, <3>2
  <2>5. ~ir_valid => ~ir_valid_clr
    BY <1>1, EmptyIr DEF ir_valid_clr
  <2>6. ir_valid' => ir_pc_vld' /\ ifu_pc_r' = path' /\ ir_src' = path'
    <3>1. CASE ir_set
      <4>1. /\ ~pipe_flush_req /\ ~dly_flush /\ ir_free /\ out_flag
        BY <1>1, <3>1, FetchWires DEF OutInv
      <4>2. ir_src' = path'
        BY <1>1, <2>1, <2>2, <3>1, <4>1, FetchEdge DEF PathInv
      <4>3. CASE pc_set
        BY <1>1, <2>1, <2>2, <4>1, <4>2, <4>3, FetchEdge DEF PathInv
      <4>4. CASE ~pc_set
        <5>1. ~pc_newpend /\ ir_pc_vld /\ ~ir_valid
          BY <1>1, <4>1, <4>4, FetchWires DEF OutInv
        <5>2. ifu_pc_r = path
          BY <1>1, <5>1 DEF PathInv
        <5> QED
          BY <2>1, <2>2, <2>5, <4>1, <4>2, <4>4, <5>1, <5>2, FetchEdge
      <4> QED
        BY <4>3, <4>4
    <3>2. CASE ~ir_set /\ ir_valid /\ ~ir_valid_clr
      <4>1. ~pipe_flush_req
        BY <3>2 DEF ir_valid_clr
      <4>2. ~pc_set
        BY <3>2, FetchWires DEF ir_free
      <4> QED
        BY <1>1, <2>1, <2>2, <3>2, <4>1, <4>2, FetchEdge DEF PathInv
    <3> QED
      BY <2>1, <3>1, <3>2, FetchEdge
  <2>7. ir_pc_vld' /\ (~pc_newpend' \/ (mie' /\ dcause' = 0)) => ifu_pc_r' = path'
    <3> SUFFICES ASSUME ir_pc_vld', ~pc_newpend' \/ (mie' /\ dcause' = 0)
                 PROVE  ifu_pc_r' = path'
      OBVIOUS
    <3>1. CASE pc_set
      <4>1. ~pipe_flush_req
        BY <3>1, FetchWires
      <4> QED
        BY <1>1, <2>1, <2>2, <3>1, <4>1, FetchEdge DEF PathInv
    <3>2. CASE ~pc_set
      <4>1. ir_pc_vld /\ ~ir_valid_clr /\ ifu_pc_r' = ifu_pc_r
        BY <2>1, <3>2, FetchEdge
      <4>2. CASE ir_valid
        <5>1. ~pipe_flush_req
          BY <4>1, <4>2 DEF ir_valid_clr
        <5> QED
          BY <1>1, <2>2, <4>1, <4>2, <5>1 DEF PathInv
      <4>3. CASE ~ir_valid
        <5>1. ~pipe_flush_req
          <6>1. pipe_flush_req => pc_newpend'
            BY <2>1, FetchEdge
          <6>2. pipe_flush_req => ~mie' \/ dcause' # 0
            BY <1>1, <4>3, CorePartsOf, EmptyMasks
          <6> QED
            BY <6>1, <6>2
        <5>2. ~pc_newpend' => ~pc_newpend
          BY <2>1, <3>2, FetchEdge
        <5>3. mie' /\ dcause' = 0 => mie /\ ~dbg_mode
          BY <1>1, <4>3, CorePartsOf, EmptyMasks
        <5> QED
          BY <1>1, <2>2, <4>1, <5>1, <5>2, <5>3 DEF PathInv
      <4> QED
        BY <4>2, <4>3
    <3> QED
      BY <3>1, <3>2
  <2> QED
    BY <2>3, <2>4, <2>6, <2>7 DEF PathInv, dbg_mode
<1> QED
  BY <1>2, <1>3

-----------------------------------------------------------------------------
(* The inductive invariant.                                                *)

\* Reset is in the invariant.
LEMMA CoreInitInv == CoreInit => CoreInv
<1> SUFFICES ASSUME CoreInit
             PROVE  CoreInv
  OBVIOUS
<1>1. ExuInv
  BY ExuInitInv DEF CoreInit
<1>2. oitf_empty
  BY DEF CoreInit, ExuInit, OitfInit, oitf_empty
<1>3. FetchBits /\ OutInv
  BY DEF CoreInit, IF1!IfetchInit, FetchBits, OutInv
<1>4. ResetInv
  BY <1>2 DEF CoreInit, IF1!IfetchInit, ResetInv
<1>5. PathInv
  BY DEF CoreInit, IF1!IfetchInit, PathInv
<1> QED
  BY <1>1, <1>3, <1>4, <1>5 DEF CoreInv

\* Every edge of the core keeps the invariant.
LEMMA CoreNextInv == CoreInv /\ [CoreCycle]_core_vars => CoreInv'
<1> SUFFICES ASSUME CoreInv, [CoreCycle]_core_vars
             PROVE  CoreInv'
  OBVIOUS
<1>1. CASE CoreCycle
  BY <1>1, CoreStepsExu, OutStep, ResetStep, PathStep DEF CoreInv
<1>2. CASE UNCHANGED core_vars
  <2>1. UNCHANGED <<vars, fetch_vars, ifu_rsp, path>>
    BY <1>2 DEF core_vars
  <2>2. ExuInv'
    BY <2>1, ExuNextInv DEF CoreInv
  <2>3. /\ UNCHANGED <<ir_valid, ir_pc_vld, mie, dcause, alc_ptr, ret_ptr,
                       alc_ptr_flg, ret_ptr_flg>>
        /\ UNCHANGED <<reset_flag, reset_req, dly_flush, ifu_pc_r, pc_r, out_flag,
                       pc_newpend, req_pc, ir_src, ifu_rsp, path>>
    BY <2>1 DEF vars, oitf_vars, ifu_vars, cmt_vars, fetch_vars
  <2>4. FetchBits' /\ OutInv'
    BY <2>3 DEF CoreInv, FetchBits, OutInv
  <2>5. ResetInv'
    BY <2>3 DEF CoreInv, ResetInv, oitf_empty
  <2>6. PathInv'
    BY <2>3 DEF CoreInv, PathInv, dbg_mode
  <2> QED
    BY <2>2, <2>4, <2>5, <2>6 DEF CoreInv
<1> QED
  BY <1>1, <1>2

\* The invariant holds always.
LEMMA CoreAlwaysInv == CoreSpec => []CoreInv
  BY CoreInitInv, CoreNextInv, PTL DEF CoreSpec

-----------------------------------------------------------------------------
\* The fetch stage, with its delayed flush, its early PC and its one outstanding
\* request, is one that the execution stage allows for: what is proved of the
\* execution stage holds of the pipeline.
THEOREM CoreImplementsExu == CoreSpec => ImplementsExu
<1>1. CoreInit => ExuInit
  BY DEF CoreInit
<1>2. CoreInv /\ [CoreCycle]_core_vars => [Cycle]_vars
  <2> SUFFICES ASSUME CoreInv, [CoreCycle]_core_vars
               PROVE  [Cycle]_vars
    OBVIOUS
  <2>1. CASE CoreCycle
    BY <2>1, CoreStepsExu
  <2>2. CASE UNCHANGED core_vars
    BY <2>2 DEF core_vars
  <2> QED
    BY <2>1, <2>2
<1> QED
  BY <1>1, <1>2, CoreAlwaysInv, PTL DEF CoreSpec, ExuSpec, ImplementsExu

\* Only instructions of the current path reach the execution stage, with the PC
\* they were fetched from, and the PC that a trap saves in mepc lies on that
\* path, whatever a debugger does.
THEOREM CoreOnlyCurrentPath == CoreSpec => [](OnlyCurrentPathIssues /\ SavedEpcIsCurrent)
<1>1. CoreInv => OnlyCurrentPathIssues
  BY DEF CoreInv, PathInv, OnlyCurrentPathIssues
<1>2. CoreInv => SavedEpcIsCurrent
  <2> SUFFICES ASSUME CoreInv, irq_flush_req \/ alu_excp_flush_req
               PROVE  ifu_pc_r = path
    BY DEF SavedEpcIsCurrent
  <2>1. CASE irq_flush_req
    <3>1. ir_pc_vld /\ mie /\ ~dbg_mode
      BY <2>1 DEF irq_flush_req, irq_req
    <3> QED
      BY <3>1 DEF CoreInv, PathInv
  <2>2. CASE alu_excp_flush_req
    <3>1. ir_valid
      BY <2>2, EmptyIr DEF CoreInv, alu_excp_flush_req
    <3> QED
      BY <3>1 DEF CoreInv, PathInv
  <2> QED
    BY <2>1, <2>2
<1> QED
  BY <1>1, <1>2, CoreAlwaysInv, PTL

\* With the debug interrupt tied off, no edge enters debug mode.
LEMMA NoDebugStep ==
    ASSUME DbgLevels = {FALSE}, CoreInv, NoDebugInv, CoreCycle
    PROVE  NoDebugInv'
<1>1. ~dbg_irq_r'
  BY CorePartsOf DEF IrqClk
<1>2. /\ dcause = 0 /\ ~step_req /\ ~dbg_irq_r /\ ~dcsr.halt /\ ~dcsr.step
      /\ ~dcsr.ebreakm
  BY DEF NoDebugInv, dbg_mode
<1>3. ~dbg_entry_flush_req
  <2>1. ~alu_ebreakm_flush_req
    BY <1>2 DEF alu_ebreakm_flush_req, ebreak4dbg
  <2> QED
    BY <1>2, <2>1 DEF dbg_entry_flush_req, dbg_entry_req, dbg_irq_req, dbg_halt_req,
                      dbg_ebrk_req
<1>4. dcause' = 0 /\ ~step_req' /\ dcsr' = dcsr
  <2>1. CASE exu_clk_en
    <3>1. DebugClk
      BY <2>1, CorePartsOf DEF ExuClk
    <3> QED
      BY <1>2, <1>3, <3>1 DEF DebugClk, dbg_mode
  <2>2. CASE ~exu_clk_en
    BY <1>2, <2>2, CorePartsOf DEF ExuClk, cmt_vars
  <2> QED
    BY <2>1, <2>2
<1> QED
  BY <1>1, <1>2, <1>4 DEF NoDebugInv, dbg_mode

\* Without debug interrupts, every PC that is saved, and every instruction that
\* is issued, belongs to the current path.  A debug interrupt in the cycle behind
\* a flush of an empty IR saves the PC left behind there: the assumption is
\* needed.
THEOREM CorePathIsCurrent ==
    ASSUME DbgLevels = {FALSE}
    PROVE  CoreSpec => []PathIsCurrent
<1>1. CoreInit => NoDebugInv
  BY DEF CoreInit, ExuInit, NoDebugInv, dbg_mode
<1>2. CoreInv /\ NoDebugInv /\ [CoreCycle]_core_vars => NoDebugInv'
  <2> SUFFICES ASSUME CoreInv, NoDebugInv, [CoreCycle]_core_vars
               PROVE  NoDebugInv'
    OBVIOUS
  <2>1. CASE CoreCycle
    BY <2>1, NoDebugStep
  <2>2. CASE UNCHANGED core_vars
    <3>1. UNCHANGED <<dcause, step_req, dbg_irq_r, dcsr>>
      BY <2>2 DEF core_vars, vars, cmt_vars, irq_vars
    <3> QED
      BY <3>1 DEF NoDebugInv, dbg_mode
  <2> QED
    BY <2>1, <2>2
<1>3. CoreSpec => []NoDebugInv
  BY <1>1, <1>2, CoreAlwaysInv, PTL DEF CoreSpec
<1>4. NoDebugInv => ~dbg_entry_flush_req
  <2> SUFFICES ASSUME NoDebugInv
               PROVE  ~dbg_entry_flush_req
    OBVIOUS
  <2>1. ~alu_ebreakm_flush_req
    BY DEF alu_ebreakm_flush_req, ebreak4dbg, NoDebugInv
  <2> QED
    BY <2>1 DEF dbg_entry_flush_req, dbg_entry_req, dbg_irq_req, dbg_halt_req,
                dbg_ebrk_req, NoDebugInv
<1>5. NoDebugInv /\ OnlyCurrentPathIssues /\ SavedEpcIsCurrent => PathIsCurrent
  BY <1>4 DEF PathIsCurrent, SavedEpcIsCurrent, SavedPcIsCurrent
<1> QED
  BY <1>3, <1>5, CoreOnlyCurrentPath, PTL

\* The register that a JALR's target is computed from holds, when the target is
\* fetched, what program order gives it: no instruction in the IR or in flight
\* writes it.
THEOREM CoreJalrTargetFresh == CoreSpec => []JalrTargetFresh
<1>1. CoreInv => JalrTargetFresh
  <2> SUFFICES ASSUME CoreInv, ifu_rsp.op \in {"jalr1", "jalrn"}, ir_set,
                      NEW r \in ifu_rsp.rs
               PROVE  rf[r] = arch[r] /\ ~ir_rdidx_match(r)
    BY DEF JalrTargetFresh, ir_set
  <2>1. ~bpu_wait /\ ifu_rsp \in Instr
    BY FetchWires DEF CoreInv, FetchBits
  <2>2. r \in RfIdx
    BY <2>1, InstrFacts
  <2>3. oitf_empty
    BY <2>1 DEF bpu_wait, jalr_rs1x1_dep, jalr_rs1xn_dep
  <2>4. rf[r] = arch[r]
    BY <2>2, <2>3, MatchFacts DEF CoreInv, ExuInv, RegfileArchitectural
  <2>5. CASE ifu_rsp.op = "jalrn"
    BY <2>1, <2>4, <2>5 DEF bpu_wait, jalr_rs1xn_dep, ir_rdidx_match
  <2>6. CASE ifu_rsp.op = "jalr1"
    <3>1. r = x1
      <4>1. PICK op \in Ops : ifu_rsp \in InstrOf(op)
        BY <2>1 DEF Instr
      <4>2. ifu_rsp.op = op
        BY <4>1 DEF InstrOf
      <4>3. ifu_rsp.rs \in {{x1}}
        BY <2>6, <4>1, <4>2 DEF InstrOf
      <4> QED
        BY <4>3
    <3> QED
      BY <2>1, <2>4, <2>6, <3>1 DEF bpu_wait, jalr_rs1x1_dep
  <2> QED
    BY <2>5, <2>6
<1> QED
  BY <1>1, CoreAlwaysInv, PTL
=============================================================================
