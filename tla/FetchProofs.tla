---------------------------- MODULE FetchProofs ----------------------------
(***************************************************************************)
(* The fetch path for every program, every size of the two memories, every *)
(* lane with a bus error, and every flush, halt and access of other        *)
(* agents: the execution stage gets the program's instructions, whole, and *)
(* each with its own PC.                                                   *)
(***************************************************************************)
EXTENDS Fetch, TLAPS

Cross(a) == ifu_req_lane_cross([pc |-> a])

\* The halfword that the last access of a fetch at a was made for.
LastAddr(a) == IF Cross(a) THEN Plus(a, 1) ELSE a

\* The two halfwords at a, with the error of the lanes read for them.
WholeWord(w, a) ==
    /\ w.lo = a /\ w.hi = Plus(a, 1)
    /\ w.err <=> (TouchedLanes(a) \cap ErrLanes # {})

BiuLane == {a \in ITCM_HW .. PC_HW - 1 : a % 2 = 0}

\* What the wires of an answer may carry in place of a halfword.
Halfword == PC \cup {Zero, Junk}

-----------------------------------------------------------------------------
FetchTypeOK ==
    /\ reset_flag \in BOOLEAN /\ reset_req \in BOOLEAN /\ halt_ack \in BOOLEAN
    /\ dly_flush \in BOOLEAN /\ ir_valid \in BOOLEAN /\ ir_pc_vld \in BOOLEAN
    /\ out_flag \in BOOLEAN /\ pc_newpend \in BOOLEAN
    /\ pc_r \in PC /\ req_pc \in PC
    /\ icb_state \in {"IDLE", "1ST", "WAIT2ND", "2ND"}
    /\ req_same_cross_holdup \in BOOLEAN /\ req_need_2uop \in BOOLEAN
    /\ req_need_0uop \in BOOLEAN /\ req_lane_cross \in BOOLEAN
    /\ icb_cmd2 \in {"itcm", "biu", "none"} /\ icb_addr_2_1 \in 0 .. 3
    /\ leftover \in Halfword
    /\ rsp_buf # <<>> => rsp_buf[1].lo \in Halfword /\ DOMAIN rsp_buf[1] = {"lo", "hi", "err"}
    /\ wfi_halt_req \in BOOLEAN /\ core_wfi \in BOOLEAN /\ slipped \in BOOLEAN
    /\ ifu_holdup \in BOOLEAN

\* The answer to the outstanding fetch, or the fetch itself, is somewhere in
\* the lane logic; it is cancelled while a flush is pending.  The PC of an
\* outstanding fetch waits for the IR or is in a free IR already.
OutInv ==
    /\ out_flag <=> icb_state # "IDLE" \/ rsp_buf # <<>>
    /\ rsp_buf # <<>> => icb_state = "IDLE"
    /\ out_flag /\ ~pc_newpend => ir_pc_vld /\ ~ir_valid /\ ifu_pc_r = pc_r
    /\ dly_flush => pc_newpend /\ ~ir_valid
    /\ ~reset_flag /\ ~reset_req /\ ~dly_flush => req_pc = pc_r

\* Until the fetch that follows a reset is issued, nothing has happened.
ResetInv ==
    reset_flag \/ reset_req =>
        /\ ~out_flag /\ ~dly_flush /\ ~ir_valid /\ ~wfi_halt_req
        /\ pc_r = pc_rtvec /\ npc = pc_rtvec /\ ~slipped /\ icb_cmd2 = "none"
        /\ ~pc_newpend

\* A halt is acknowledged when nothing is under way, and nothing is started
\* until it ends.
HaltInv ==
    /\ wfi_halt_req => ~dly_flush
    /\ halt_ack => wfi_halt_req /\ icb_state = "IDLE"
    /\ core_wfi => halt_ack

\* The program's next instruction is the one being fetched.
NextInv ==
    /\ npc \in PC
    /\ dly_flush => npc = pc_r
    /\ ~slipped /\ ~out_flag => dly_flush \/ reset_flag \/ reset_req
    /\ FetchFollows

-----------------------------------------------------------------------------
(* The accesses under way.                                                 *)

\* An access of the IFU is under way.
InFlight == icb_state = "2ND" \/ (icb_state = "1ST" /\ ~req_need_0uop)

\* The address it is made for, when no flush has cancelled the fetch.
WantAddr == IF icb_state = "1ST" /\ ~req_same_cross_holdup THEN pc_r ELSE Plus(pc_r, 1)

\* The ITCM holds at most one command of the IFU and one of the other agents,
\* the BIU one of the IFU, and they are where icb_cmd2 says.
BusInv ==
    /\ e1 \in {NoCmd, OtherCmd} \cup {IfuCmd(l) : l \in Lane}
    /\ byp_cmd \in {NoCmd} \cup {IfuCmd(l) : l \in Lane}
    /\ ram_dout \in Lane \cup {OtherLane}
    /\ arbt_outs = IF e1 = OtherCmd THEN 1 ELSE 0
    /\ byp_cmd # NoCmd => e1 = OtherCmd
    /\ e1.ifu \/ byp_cmd.ifu <=> InFlight /\ icb_cmd2 = "itcm"
    /\ biu # NoRead <=> InFlight /\ icb_cmd2 = "biu"
    /\ biu \in {NoRead} \cup [lane : BiuLane, vld : BOOLEAN]
    /\ InFlight => icb_cmd2 # "none"
    /\ e1.ifu => ram_dout = e1.lane
    /\ ifu_holdup => ram_dout \in Lane

\* What the lane logic knows about the request it works on.
UopInv ==
    /\ icb_state \in {"WAIT2ND", "2ND"} => req_need_2uop
    /\ req_need_2uop => ~req_need_0uop /\ ~req_same_cross_holdup
    /\ req_need_0uop => ~req_same_cross_holdup
    /\ ~reset_flag /\ ~reset_req /\ ~dly_flush =>
         /\ req_lane_cross <=> Cross(pc_r)
         /\ req_need_2uop \/ req_same_cross_holdup <=> Cross(pc_r)

\* The accesses of a fetch not cancelled are those it needs, and what they have
\* delivered is kept.
LaneInv ==
    ~dly_flush =>
        /\ InFlight =>
             /\ icb_cmd2 = "itcm" <=> in_itcm(WantAddr)
             /\ byp_cmd.ifu => byp_cmd.lane = LaneOf(WantAddr)
             /\ e1.ifu => e1.lane = LaneOf(WantAddr)
             /\ biu # NoRead => biu.lane = LaneOf(WantAddr)
        /\ icb_state # "IDLE" /\ ~(icb_state = "1ST" /\ ~req_same_cross_holdup) =>
             leftover = pc_r /\ (leftover_err <=> LaneOf(pc_r) \in ErrLanes)
        /\ icb_state = "1ST" /\ ~req_need_2uop /\ ~req_same_cross_holdup =>
             icb_addr_2_1 = pc_r % 4
        /\ icb_state = "1ST" /\ req_need_0uop =>
             in_itcm(pc_r) /\ icb_cmd2 = "itcm" /\ ram_dout = LaneOf(pc_r)
        /\ rsp_buf # <<>> => WholeWord(rsp_buf[1], pc_r)

\* The last access of the fetch under way, or of the last one, has been made.
Settled ==
    \/ icb_state = "IDLE"
    \/ icb_state = "1ST" /\ req_need_0uop
    \/ e1.ifu /\ (icb_state = "2ND" \/ ~req_need_2uop)

\* What the SRAM still holds for the IFU is the lane of the last access.
HoldInv ==
    ifu_holdup /\ Settled /\ ~dly_flush /\ in_itcm(LastAddr(pc_r)) =>
        ram_dout = LaneOf(LastAddr(pc_r)) /\ icb_cmd2 = "itcm"

\* The IR holds a whole instruction, and its own PC.
IrInv ==
    ir_valid => /\ ir_pc_vld /\ ir_src = ifu_pc_r /\ ifu_pc_r \in PC
                /\ ir.lo = ifu_pc_r
                /\ prog[ifu_pc_r].rv32 => ir.hi = Plus(ifu_pc_r, 1)
                /\ ir.err <=> (TouchedLanes(ifu_pc_r) \cap ErrLanes # {})

FetchInv == /\ FetchTypeOK /\ OutInv /\ ResetInv /\ HaltInv /\ NextInv
            /\ BusInv /\ UopInv /\ LaneInv /\ HoldInv /\ IrInv

-----------------------------------------------------------------------------
(* Addresses and lanes.                                                    *)

\* Addresses wrap at the end of the address space.
LEMMA PlusFacts ==
    ASSUME NEW a \in PC
    PROVE  /\ \A n \in Int : Plus(a, n) \in PC
           /\ Plus(a, 1) = IF a = PC_HW - 1 THEN 0 ELSE a + 1
           /\ Plus(a, 2) = Plus(Plus(a, 1), 1) /\ Plus(a, 3) = Plus(Plus(a, 2), 1)
<1> USE DEF Plus
<1>1. PC_HW \in Nat /\ PC_HW >= 6 /\ a \in Int /\ 0 <= a /\ a <= PC_HW - 1
      /\ PC = 0 .. PC_HW - 1
  BY FetchAssumption, Ift2icbAssumption, ItcmAssumption
<1>2. \A n \in Int : Plus(a, n) \in PC
  BY <1>1
<1>3. Plus(a, 1) = IF a = PC_HW - 1 THEN 0 ELSE a + 1
  BY <1>1
<1>w. \A x \in 0 .. PC_HW - 1 : x % PC_HW = x /\ (PC_HW + x) % PC_HW = x
  BY <1>1
<1>4. Plus(a, 2) = IF a = PC_HW - 1 THEN 1 ELSE IF a = PC_HW - 2 THEN 0 ELSE a + 2
  <2>1. a = PC_HW - 1 => a + 2 = PC_HW + 1 /\ 1 \in 0 .. PC_HW - 1
    BY <1>1
  <2>2. a = PC_HW - 2 => a + 2 = PC_HW + 0 /\ 0 \in 0 .. PC_HW - 1
    BY <1>1
  <2>3. a # PC_HW - 1 /\ a # PC_HW - 2 => a + 2 \in 0 .. PC_HW - 1
    BY <1>1
  <2> QED
    BY <1>w, <2>1, <2>2, <2>3
<1>5. Plus(a, 3) = IF a = PC_HW - 1 THEN 2 ELSE IF a = PC_HW - 2 THEN 1
                   ELSE IF a = PC_HW - 3 THEN 0 ELSE a + 3
  <2>1. a = PC_HW - 1 => a + 3 = PC_HW + 2 /\ 2 \in 0 .. PC_HW - 1
    BY <1>1
  <2>2. a = PC_HW - 2 => a + 3 = PC_HW + 1 /\ 1 \in 0 .. PC_HW - 1
    BY <1>1
  <2>3. a = PC_HW - 3 => a + 3 = PC_HW + 0 /\ 0 \in 0 .. PC_HW - 1
    BY <1>1
  <2>4. a # PC_HW - 1 /\ a # PC_HW - 2 /\ a # PC_HW - 3 => a + 3 \in 0 .. PC_HW - 1
    BY <1>1
  <2> QED
    BY <1>w, <2>1, <2>2, <2>3, <2>4
<1>6. \A b \in PC : Plus(b, 1) = IF b = PC_HW - 1 THEN 0 ELSE b + 1
  BY <1>1
<1> HIDE DEF Plus
<1>7. Plus(a, 2) = Plus(Plus(a, 1), 1)
  <2>1. Plus(a, 1) \in PC
    BY <1>2
  <2>2. Plus(Plus(a, 1), 1) = IF Plus(a, 1) = PC_HW - 1 THEN 0 ELSE Plus(a, 1) + 1
    BY <1>6, <2>1
  <2> QED
    BY <1>1, <1>3, <1>4, <2>2
<1>8. Plus(a, 3) = Plus(Plus(a, 2), 1)
  <2>1. Plus(a, 2) \in PC
    BY <1>2
  <2>2. Plus(Plus(a, 2), 1) = IF Plus(a, 2) = PC_HW - 1 THEN 0 ELSE Plus(a, 2) + 1
    BY <1>6, <2>1
  <2> QED
    BY <1>1, <1>4, <1>5, <2>2
<1> QED
  BY <1>2, <1>3, <1>7, <1>8

\* A word that crosses into the next lane begins with the last halfword of its
\* lane and ends with the first of the next.
LEMMA LaneFacts ==
    ASSUME NEW a \in PC
    PROVE  /\ LaneOf(a) \in Int /\ LaneOf(a) # Junk
           /\ ~in_itcm(a) => LaneOf(a) \in BiuLane
           /\ in_itcm(a) => LaneOf(a) \in Lane /\ LaneOf(a) \notin ErrLanes
           /\ in_itcm(a) => a = LaneOf(a) + (a % 4) /\ (Cross(a) <=> a % 4 = 3)
           /\ ~in_itcm(a) => a = LaneOf(a) + IF Cross(a) THEN 1 ELSE 0
           /\ ~Cross(a) => Plus(a, 1) = a + 1 /\ a % 4 \in 0 .. 3
           /\ Cross(a) => LaneOf(Plus(a, 1)) = Plus(a, 1)
           /\ TouchedLanes(a) = {LaneOf(a)} \cup
                                  IF Cross(a) THEN {LaneOf(Plus(a, 1))} ELSE {}
<1>1. /\ PC_HW \in Nat /\ PC_HW > ITCM_HW /\ PC_HW % 2 = 0
      /\ ITCM_HW \in Nat /\ ITCM_HW % 4 = 0 /\ a \in Int /\ 0 <= a /\ a <= PC_HW - 1
      /\ PC = 0 .. PC_HW - 1
  BY FetchAssumption, Ift2icbAssumption, ItcmAssumption
<1>2. Plus(a, 1) = IF a = PC_HW - 1 THEN 0 ELSE a + 1
  BY PlusFacts
<1>3. Cross(a) <=> a % LaneSize(a) = LaneSize(a) - 1
  BY DEF Cross, ifu_req_lane_cross
<1>t. TouchedLanes(a) = {LaneOf(a)} \cup
                          IF Cross(a) THEN {LaneOf(Plus(a, 1))} ELSE {}
  BY DEF TouchedLanes, Cross
<1>4. CASE in_itcm(a)
  <2>1. a < ITCM_HW /\ LaneOf(a) = a - (a % 4) /\ (Cross(a) <=> a % 4 = 3)
    BY <1>3, <1>4 DEF in_itcm, LaneOf, LaneSize
  <2>2. LaneOf(a) \in Lane /\ LaneOf(a) \notin ErrLanes
    BY <1>1, <2>1, Ift2icbAssumption DEF Lane
  <2>3. Cross(a) => LaneOf(Plus(a, 1)) = Plus(a, 1)
    <3> SUFFICES ASSUME Cross(a)
                 PROVE  LaneOf(Plus(a, 1)) = Plus(a, 1)
      OBVIOUS
    <3>1. Plus(a, 1) = a + 1 /\ (a + 1) % 4 = 0 /\ (a + 1) % 2 = 0
      BY <1>1, <1>2, <2>1
    <3> QED
      BY <1>1, <3>1 DEF LaneOf, LaneSize
  <2>4. ~Cross(a) => Plus(a, 1) = a + 1
    BY <1>1, <1>2, <2>1
  <2>5. a % 4 \in 0 .. 3
    BY <1>1
  <2>6. LaneOf(a) \in Int /\ a = LaneOf(a) + (a % 4)
    <3>1. \A x, y \in Int : x - y \in Int /\ x = (x - y) + y
      OBVIOUS
    <3>2. a \in Int /\ a % 4 \in Int
      BY <1>1, <2>5
    <3>3. LaneOf(a) = a - (a % 4)
      BY <2>1
    <3> QED
      BY <3>1, <3>2, <3>3
  <2>7. LaneOf(a) # Junk
    BY <2>2 DEF Lane, Junk
  <2> QED
    BY <1>4, <1>t, <2>1, <2>2, <2>3, <2>4, <2>5, <2>6, <2>7
<1>5. CASE ~in_itcm(a)
  <2>1. a >= ITCM_HW /\ LaneOf(a) = a - (a % 2) /\ (Cross(a) <=> a % 2 = 1)
    BY <1>1, <1>3, <1>5 DEF in_itcm, LaneOf, LaneSize
  <2>2. Cross(a) => LaneOf(Plus(a, 1)) = Plus(a, 1)
    <3> SUFFICES ASSUME Cross(a)
                 PROVE  LaneOf(Plus(a, 1)) = Plus(a, 1)
      OBVIOUS
    <3>1. CASE a = PC_HW - 1
      BY <1>1, <1>2, <3>1 DEF LaneOf, LaneSize
    <3>2. CASE a # PC_HW - 1
      <4>1. Plus(a, 1) = a + 1 /\ (a + 1) % 2 = 0 /\ ~in_itcm(a + 1)
        BY <1>1, <1>2, <2>1, <3>2 DEF in_itcm
      <4> QED
        BY <1>1, <4>1 DEF LaneOf, LaneSize
    <3> QED
      BY <3>1, <3>2
  <2>3. ~Cross(a) => Plus(a, 1) = a + 1
    BY <1>1, <1>2, <2>1
  <2>4. a % 4 \in 0 .. 3 /\ LaneOf(a) \in Int /\ LaneOf(a) # Junk
        /\ a = LaneOf(a) + IF Cross(a) THEN 1 ELSE 0
    BY <1>1, <2>1 DEF Junk
  <2>5. LaneOf(a) \in BiuLane
    BY <1>1, <2>1 DEF BiuLane
  <2> QED
    BY <1>5, <1>t, <2>1, <2>2, <2>3, <2>4, <2>5
<1> QED
  BY <1>4, <1>5

-----------------------------------------------------------------------------
(* One cycle: the inputs the environment chooses and the wires they drive. *)

Dec(e) == minidec(e)
PreIn(e) == fetch_in_pre(e, Dec(e))
Req(e) == ifu_req(PreIn(e), Dec(e))
In(e) == [PreIn(e) EXCEPT !.req_ready = ifu2icb_req_ready(e, Req(e))]
ReqValid(e) == ifu_req_valid(In(e))

Inputs(e) ==
    /\ e.flush \in BOOLEAN /\ e.o_hsked \in BOOLEAN /\ e.wake \in BOOLEAN
    /\ e.flush_pc \in PC /\ e.junk \in Junks
    /\ e.o_hsked => ir_valid /\ ~wfi_halt_req /\ ~e.flush
    /\ e.flush => ~reset_flag /\ ~reset_req /\ (wfi_halt_req => e.wake)

FetchStep(e) ==
    /\ IF clk_core_ifu_on(e)
       THEN /\ IfetchClk(In(e))
            /\ Ift2icbClk(e, Req(e), ReqValid(e), ifu_rsp_ready(In(e)))
            /\ HistoryClk(In(e))
       ELSE UNCHANGED <<ifetch_vars, ift2icb_vars, npc, slipped>>
    /\ ItcmClk(e, ifu2itcm_cmd(Req(e), ReqValid(e)), ifu_icb_rsp_ready)
    /\ BiuClk(e, Req(e), ReqValid(e))
    /\ WfiClk(e)

\* A cycle of the model is a step with some input.
LEMMA CycleIsStep ==
    ASSUME NEW e, FetchCycle(e)
    PROVE  FetchStep(e)
<1>1. PICK dec \in {minidec(e)} :
        \E i0 \in {fetch_in_pre(e, dec)} :
        \E q \in {ifu_req(i0, dec)} :
        \E i \in {[i0 EXCEPT !.req_ready = ifu2icb_req_ready(e, q)]} :
           /\ IF clk_core_ifu_on(e)
              THEN /\ IfetchClk(i)
                   /\ Ift2icbClk(e, q, ifu_req_valid(i), ifu_rsp_ready(i))
                   /\ HistoryClk(i)
              ELSE UNCHANGED <<ifetch_vars, ift2icb_vars, npc, slipped>>
           /\ ItcmClk(e, ifu2itcm_cmd(q, ifu_req_valid(i)), ifu_icb_rsp_ready)
           /\ BiuClk(e, q, ifu_req_valid(i))
           /\ WfiClk(e)
  BY Zenon DEF FetchCycle
<1>2. dec = Dec(e)
  BY DEF Dec
<1> HIDE DEF Dec
<1>3. PICK i0 \in {fetch_in_pre(e, dec)} :
        \E q \in {ifu_req(i0, dec)} :
        \E i \in {[i0 EXCEPT !.req_ready = ifu2icb_req_ready(e, q)]} :
           /\ IF clk_core_ifu_on(e)
              THEN /\ IfetchClk(i)
                   /\ Ift2icbClk(e, q, ifu_req_valid(i), ifu_rsp_ready(i))
                   /\ HistoryClk(i)
              ELSE UNCHANGED <<ifetch_vars, ift2icb_vars, npc, slipped>>
           /\ ItcmClk(e, ifu2itcm_cmd(q, ifu_req_valid(i)), ifu_icb_rsp_ready)
           /\ BiuClk(e, q, ifu_req_valid(i))
           /\ WfiClk(e)
  BY <1>1
<1>4. i0 = PreIn(e)
  BY <1>2 DEF PreIn
<1>5. PICK q \in {ifu_req(i0, dec)} :
        \E i \in {[i0 EXCEPT !.req_ready = ifu2icb_req_ready(e, q)]} :
           /\ IF clk_core_ifu_on(e)
              THEN /\ IfetchClk(i)
                   /\ Ift2icbClk(e, q, ifu_req_valid(i), ifu_rsp_ready(i))
                   /\ HistoryClk(i)
              ELSE UNCHANGED <<ifetch_vars, ift2icb_vars, npc, slipped>>
           /\ ItcmClk(e, ifu2itcm_cmd(q, ifu_req_valid(i)), ifu_icb_rsp_ready)
           /\ BiuClk(e, q, ifu_req_valid(i))
           /\ WfiClk(e)
  BY <1>3
<1>6. q = Req(e)
  BY <1>2, <1>4 DEF Req
<1>7. PICK i \in {[i0 EXCEPT !.req_ready = ifu2icb_req_ready(e, q)]} :
           /\ IF clk_core_ifu_on(e)
              THEN /\ IfetchClk(i)
                   /\ Ift2icbClk(e, q, ifu_req_valid(i), ifu_rsp_ready(i))
                   /\ HistoryClk(i)
              ELSE UNCHANGED <<ifetch_vars, ift2icb_vars, npc, slipped>>
           /\ ItcmClk(e, ifu2itcm_cmd(q, ifu_req_valid(i)), ifu_icb_rsp_ready)
           /\ BiuClk(e, q, ifu_req_valid(i))
           /\ WfiClk(e)
  BY <1>5
<1>8. i = In(e)
  BY <1>4, <1>6, <1>7 DEF In
<1> QED
  BY <1>6, <1>7, <1>8, Zenon DEF FetchStep, ReqValid

\* With an EXU that keeps its promise not to flush during a halt.
LEMMA NextIsStep ==
    ASSUME FetchNext, HaltFlush = FALSE
    PROVE  \E e : Inputs(e) /\ FetchStep(e)
<1>1. PICK flush, arb_cmd, biu_cmd_ready \in BOOLEAN,
           arb_rsp_ready \in IF e1 = OtherCmd THEN BOOLEAN ELSE {FALSE},
           wake, exu_ack \in IF wfi_halt_req THEN BOOLEAN ELSE {FALSE} :
       \E flush_pc \in IF flush THEN FlushPcs ELSE {pc_rtvec},
          o_hsked \in IF ir_valid /\ ~wfi_halt_req /\ ~flush THEN BOOLEAN ELSE {FALSE},
          junk \in IF flush \/ ifu_rsp_instr.hi = ifu_rsp_instr.lo + 1 THEN {AJunk} ELSE Junks :
           /\ flush => may_flush(wake, exu_ack)
           /\ FetchCycle([flush |-> flush, flush_pc |-> flush_pc, o_hsked |-> o_hsked,
                       wake |-> wake, exu_ack |-> exu_ack,
                       arb_cmd |-> arb_cmd, arb_rsp_ready |-> arb_rsp_ready,
                       biu_cmd_ready |-> biu_cmd_ready, junk |-> junk])
  BY Zenon DEF FetchNext
<1>2. PICK flush_pc \in IF flush THEN FlushPcs ELSE {pc_rtvec},
          o_hsked \in IF ir_valid /\ ~wfi_halt_req /\ ~flush THEN BOOLEAN ELSE {FALSE},
          junk \in IF flush \/ ifu_rsp_instr.hi = ifu_rsp_instr.lo + 1 THEN {AJunk} ELSE Junks :
           /\ flush => may_flush(wake, exu_ack)
           /\ FetchCycle([flush |-> flush, flush_pc |-> flush_pc, o_hsked |-> o_hsked,
                       wake |-> wake, exu_ack |-> exu_ack,
                       arb_cmd |-> arb_cmd, arb_rsp_ready |-> arb_rsp_ready,
                       biu_cmd_ready |-> biu_cmd_ready, junk |-> junk])
  BY <1>1
<1> DEFINE e == [flush |-> flush, flush_pc |-> flush_pc, o_hsked |-> o_hsked,
                 wake |-> wake, exu_ack |-> exu_ack,
                 arb_cmd |-> arb_cmd, arb_rsp_ready |-> arb_rsp_ready,
                 biu_cmd_ready |-> biu_cmd_ready, junk |-> junk]
<1>3. FetchStep(e)
  BY <1>2, CycleIsStep
<1>4. junk \in Junks /\ flush_pc \in PC
  BY FetchAssumption DEF AJunk
<1>5. wake \in BOOLEAN /\ o_hsked \in BOOLEAN
      /\ (o_hsked => ir_valid /\ ~wfi_halt_req /\ ~flush)
  OBVIOUS
<1>6. flush => ~reset_flag /\ ~reset_req /\ (wfi_halt_req => wake)
  BY <1>2 DEF may_flush
<1>7. Inputs(e)
  BY <1>4, <1>5, <1>6 DEF Inputs
<1> QED
  BY <1>3, <1>7

ReqH(e)  == ifu_req_hsked(In(e))
RspH(e)  == ifu_rsp_hsked(In(e))
IrSet(e) == ir_valid_set(In(e))
PcSet(e) == ir_pc_vld_set(In(e))
IrClr(e) == e.o_hsked \/ (e.flush /\ ir_valid)
Cancel(e) == e.flush \/ dly_flush
ReqReady(e) == ifu2icb_req_ready(e, Req(e))

\* The word as the IR takes it.
IrWord(e) == [ifu_rsp_instr EXCEPT !.hi = IF Dec(e).rv32 THEN @ ELSE Zero]

\* What the fetch stage sees of an input.
LEMMA InFields ==
    ASSUME NEW e
    PROVE  /\ In(e).flush = e.flush /\ In(e).flush_pc = e.flush_pc
           /\ In(e).halt = (wfi_halt_req /\ ~e.wake) /\ In(e).o_hsked = e.o_hsked
           /\ In(e).req_ready = ReqReady(e) /\ In(e).rsp_valid = ifu_rsp_valid
           /\ In(e).rsp_instr = IrWord(e) /\ ~In(e).bpu_wait
           /\ In(e).bjp = (Dec(e).ofst # 0) /\ In(e).prdt_pc = Plus(pc_r, Dec(e).ofst)
           /\ In(e).seq_pc = Plus(pc_r, IF Dec(e).rv32 THEN 2 ELSE 1)
           /\ Req(e).pc = pc_nxt(In(e)) /\ Req(e).rv32 = Dec(e).rv32
           /\ Req(e).last_pc = pc_r
           /\ Req(e).seq = (~Cancel(e) /\ ~reset_req /\ ~(Dec(e).ofst # 0))
<1>1. /\ In(e).flush = e.flush /\ In(e).flush_pc = e.flush_pc
      /\ In(e).halt = (wfi_halt_req /\ ~e.wake) /\ In(e).o_hsked = e.o_hsked
      /\ In(e).req_ready = ReqReady(e) /\ In(e).rsp_valid = ifu_rsp_valid
      /\ In(e).rsp_instr = IrWord(e) /\ ~In(e).bpu_wait
      /\ In(e).bjp = (Dec(e).ofst # 0) /\ In(e).prdt_pc = Plus(pc_r, Dec(e).ofst)
      /\ In(e).seq_pc = Plus(pc_r, IF Dec(e).rv32 THEN 2 ELSE 1)
  BY DEF In, PreIn, fetch_in_pre, IrWord, ReqReady, ifu_halt_req
<1>2. /\ PreIn(e).flush = e.flush /\ PreIn(e).flush_pc = e.flush_pc
      /\ PreIn(e).bjp = (Dec(e).ofst # 0) /\ PreIn(e).prdt_pc = Plus(pc_r, Dec(e).ofst)
      /\ PreIn(e).seq_pc = Plus(pc_r, IF Dec(e).rv32 THEN 2 ELSE 1)
  BY DEF PreIn, fetch_in_pre
<1>3. pc_nxt(PreIn(e)) = pc_nxt(In(e))
  BY <1>1, <1>2 DEF pc_nxt
<1>4. /\ Req(e).pc = pc_nxt(PreIn(e)) /\ Req(e).rv32 = Dec(e).rv32
      /\ Req(e).last_pc = pc_r
  BY DEF Req, ifu_req
<1>5. Req(e).seq = (~Cancel(e) /\ ~reset_req /\ ~(Dec(e).ofst # 0))
  BY <1>2 DEF Req, ifu_req, pipe_flush_req_real, Cancel
<1> QED
  BY <1>1, <1>3, <1>4, <1>5

\* The handshakes in terms of those inputs.
LEMMA Wires ==
    ASSUME NEW e
    PROVE  /\ ReqH(e) <=> ReqValid(e) /\ ReqReady(e)
           /\ RspH(e) <=> ifu_rsp_valid /\ ifu_rsp_ready(In(e))
           /\ RspH(e) => Cancel(e) \/ ~ir_valid \/ IrClr(e)
           /\ ifu_rsp_ready(In(e)) => Cancel(e) \/ ReqReady(e)
           /\ IrSet(e) <=> RspH(e) /\ ~Cancel(e)
           /\ PcSet(e) <=> pc_newpend /\ (~ir_valid \/ IrClr(e)) /\ ~Cancel(e)
           /\ ReqValid(e) => ~out_flag \/ RspH(e)
           /\ ReqValid(e) => \/ ~(wfi_halt_req /\ ~e.wake) /\ ~reset_flag
                             \/ reset_req \/ Cancel(e)
<1>1. ReqH(e) <=> ReqValid(e) /\ ReqReady(e)
  BY InFields DEF ReqH, ReqValid, ifu_req_hsked
<1>2. RspH(e) <=> ifu_rsp_valid /\ ifu_rsp_ready(In(e))
  BY InFields DEF RspH, ifu_rsp_hsked
<1>3. pipe_flush_req_real(In(e)) <=> Cancel(e)
  BY InFields DEF pipe_flush_req_real, Cancel
<1>4. ifu_ir_i_ready(In(e)) <=> ~ir_valid \/ IrClr(e)
  BY InFields DEF ifu_ir_i_ready, ir_valid_clr, IrClr
<1>5. ifu_rsp_ready(In(e)) =>
         Cancel(e) \/ ((~ir_valid \/ IrClr(e)) /\ ReqReady(e))
  BY InFields, <1>3, <1>4 DEF ifu_rsp_ready
<1>6. IrSet(e) <=> RspH(e) /\ ~Cancel(e)
  BY <1>3 DEF IrSet, ir_valid_set, RspH
<1>7. PcSet(e) <=> pc_newpend /\ (~ir_valid \/ IrClr(e)) /\ ~Cancel(e)
  BY <1>3, <1>4 DEF PcSet, ir_pc_vld_set
<1>8. /\ ReqValid(e) => ~out_flag \/ RspH(e)
      /\ ReqValid(e) => \/ ~(wfi_halt_req /\ ~e.wake) /\ ~reset_flag
                        \/ reset_req \/ Cancel(e)
  BY InFields, <1>3 DEF ReqValid, ifu_req_valid, new_req_condi, RspH
<1> QED
  BY <1>1, <1>2, <1>5, <1>6, <1>7, <1>8

\* The address a request carries.
LEMMA ReqPc ==
    ASSUME NEW e
    PROVE  /\ e.flush => Req(e).pc = e.flush_pc
           /\ ~e.flush /\ dly_flush => Req(e).pc = pc_r
           /\ ~Cancel(e) /\ Dec(e).ofst # 0 => Req(e).pc = Plus(pc_r, Dec(e).ofst)
           /\ ~Cancel(e) /\ Dec(e).ofst = 0 /\ reset_req => Req(e).pc = pc_rtvec
           /\ ~Cancel(e) /\ Dec(e).ofst = 0 /\ ~reset_req =>
                 Req(e).pc = Plus(pc_r, IF Dec(e).rv32 THEN 2 ELSE 1)
           /\ Req(e).seq => Dec(e).ofst = 0 /\ ~Cancel(e) /\ ~reset_req
<1>1. Req(e).pc = IF e.flush THEN e.flush_pc
                  ELSE IF dly_flush THEN pc_r
                  ELSE IF Dec(e).ofst # 0 THEN Plus(pc_r, Dec(e).ofst)
                  ELSE IF reset_req THEN pc_rtvec
                  ELSE Plus(pc_r, IF Dec(e).rv32 THEN 2 ELSE 1)
  <2>1. (In(e).flush <=> e.flush) /\ (In(e).bjp <=> Dec(e).ofst # 0)
    BY InFields
  <2>2. /\ In(e).flush_pc = e.flush_pc /\ In(e).prdt_pc = Plus(pc_r, Dec(e).ofst)
        /\ In(e).seq_pc = Plus(pc_r, IF Dec(e).rv32 THEN 2 ELSE 1)
        /\ Req(e).pc = pc_nxt(In(e))
    BY InFields
  <2>3. Req(e).pc = IF In(e).flush THEN In(e).flush_pc
                    ELSE IF dly_flush THEN pc_r
                    ELSE IF In(e).bjp THEN In(e).prdt_pc
                    ELSE IF reset_req THEN pc_rtvec
                    ELSE In(e).seq_pc
    BY <2>2, Zenon DEF pc_nxt
  <2> QED
    BY <2>1, <2>2, <2>3
<1>2. Req(e).seq <=> (~Cancel(e) /\ ~reset_req /\ ~(Dec(e).ofst # 0))
  BY InFields
<1> QED
  BY <1>1, <1>2 DEF Cancel

\* The fetch stage's edge in the terms of those wires.
LEMMA IfetchEdge ==
    ASSUME NEW e, IfetchClk(In(e))
    PROVE  /\ ~reset_flag'
           /\ reset_req' <=> IF reset_req THEN ~ReqH(e) ELSE reset_flag
           /\ halt_ack' <=> /\ wfi_halt_req /\ ~e.wake
                            /\ halt_ack \/ ~out_flag \/ ifu_rsp_valid
           /\ dly_flush' <=> ~ReqH(e) /\ Cancel(e)
           /\ ir_valid' <=> IrSet(e) \/ (ir_valid /\ ~IrClr(e))
           /\ IrSet(e) => ir' = IrWord(e)
           /\ ~IrSet(e) /\ ~IrClr(e) => ir' = ir
           /\ ir_pc_vld' <=> PcSet(e) \/ (ir_pc_vld /\ ~IrClr(e))
           /\ ifu_pc_r' = IF PcSet(e) THEN pc_r ELSE ifu_pc_r
           /\ pc_r' = IF ReqH(e) \/ e.flush THEN Req(e).pc ELSE pc_r
           /\ out_flag' <=> ReqH(e) \/ (out_flag /\ ~RspH(e))
           /\ pc_newpend' <=> ReqH(e) \/ e.flush \/ (pc_newpend /\ ~PcSet(e))
           /\ req_pc' = IF ReqH(e) THEN Req(e).pc ELSE req_pc
           /\ ir_src' = IF IrSet(e) THEN req_pc ELSE ir_src
<1>1. ir_valid_clr(In(e)) <=> IrClr(e)
  BY InFields DEF ir_valid_clr, IrClr
<1>2. pipe_flush_req_real(In(e)) <=> Cancel(e)
  BY InFields DEF pipe_flush_req_real, Cancel
<1>3. (In(e).halt <=> wfi_halt_req /\ ~e.wake) /\ (In(e).rsp_valid <=> ifu_rsp_valid)
      /\ (In(e).flush <=> e.flush)
  BY InFields
<1>4. ~reset_flag' /\ (reset_req' <=> IF reset_req THEN ~ReqH(e) ELSE reset_flag)
  BY DEF IfetchClk, ReqH
<1>5. halt_ack' <=> /\ wfi_halt_req /\ ~e.wake
                    /\ halt_ack \/ ~out_flag \/ ifu_rsp_valid
  BY <1>3 DEF IfetchClk, ifu_no_outs
<1>6. dly_flush' <=> ~ReqH(e) /\ Cancel(e)
  BY <1>2 DEF IfetchClk, dly_flush_nxt, ReqH
<1>7. /\ ir_valid' <=> IrSet(e) \/ (ir_valid /\ ~IrClr(e))
      /\ ir_pc_vld' <=> PcSet(e) \/ (ir_pc_vld /\ ~IrClr(e))
  BY <1>1 DEF IfetchClk, IrSet, PcSet
<1>8. In(e).rsp_instr = IrWord(e)
  BY InFields
<1>9. /\ IrSet(e) => ir' = IrWord(e)
      /\ ~IrSet(e) /\ ~IrClr(e) => ir' = ir
  BY <1>1, <1>8 DEF IfetchClk, IrSet
<1>10. /\ ifu_pc_r' = IF PcSet(e) THEN pc_r ELSE ifu_pc_r
       /\ ir_src' = IF IrSet(e) THEN req_pc ELSE ir_src
       /\ out_flag' <=> ReqH(e) \/ (out_flag /\ ~RspH(e))
  BY DEF IfetchClk, IrSet, PcSet, ReqH, RspH
<1>11. Req(e).pc = pc_nxt(In(e))
  BY InFields
<1>12. pc_ena(In(e)) <=> ReqH(e) \/ e.flush
  BY <1>3 DEF pc_ena, ReqH
<1>13. /\ pc_r' = IF ReqH(e) \/ e.flush THEN Req(e).pc ELSE pc_r
       /\ pc_newpend' <=> ReqH(e) \/ e.flush \/ (pc_newpend /\ ~PcSet(e))
       /\ req_pc' = IF ReqH(e) THEN Req(e).pc ELSE req_pc
  BY <1>11, <1>12 DEF IfetchClk, PcSet, ReqH
<1> QED
  BY <1>4, <1>5, <1>6, <1>7, <1>9, <1>10, <1>13

\* The edge of the two history variables.
LEMMA HistoryEdge ==
    ASSUME NEW e, HistoryClk(In(e))
    PROVE  /\ npc' = IF e.flush THEN e.flush_pc
                     ELSE IF IrSet(e) THEN Succ(req_pc) ELSE npc
           /\ slipped' <=> ~e.flush /\ (slipped \/ (IrSet(e) /\ ~ReqH(e)))
<1>1. (In(e).flush <=> e.flush) /\ In(e).flush_pc = e.flush_pc
  BY InFields
<1> QED
  BY <1>1 DEF HistoryClk, IrSet, ReqH

-----------------------------------------------------------------------------
(* The answer's wires and what the mini-decoder makes of them.             *)

\* A halfword of the answer, by where it comes from.
LEMMA Rdata ==
    ASSUME NEW k
    PROVE  /\ icb_cmd2 = "itcm" /\ ram_dout \in Lane => rsp_rdata(k) = ram_dout + k
           /\ icb_cmd2 = "biu" /\ biu.vld => rsp_rdata(k) = biu.lane + k
           /\ icb_cmd2 = "none" => rsp_rdata(k) = Zero
           /\ ~(icb_cmd2 = "itcm" /\ ram_dout \in Lane)
              /\ ~(icb_cmd2 = "biu" /\ biu.vld) /\ icb_cmd2 # "none" =>
                 rsp_rdata(k) = Junk
  BY DEF rsp_rdata

\* A halfword of the answer is one.
LEMMA RdataType ==
    ASSUME FetchTypeOK, BusInv, NEW k \in 0 .. 3, icb_cmd2 = "itcm" \/ k \in 0 .. 1
    PROVE  rsp_rdata(k) \in Halfword
<1>1. /\ PC_HW \in Nat /\ PC_HW > ITCM_HW /\ PC_HW % 2 = 0
      /\ ITCM_HW \in Nat /\ ITCM_HW % 4 = 0 /\ PC = 0 .. PC_HW - 1
  BY FetchAssumption, Ift2icbAssumption, ItcmAssumption
<1>2. CASE icb_cmd2 = "itcm" /\ ram_dout \in Lane
  <2>1. ram_dout + k \in PC
    BY <1>1, <1>2 DEF Lane
  <2> QED
    BY <1>2, <2>1, Rdata DEF Halfword
<1>3. CASE icb_cmd2 = "biu" /\ biu.vld
  <2>1. biu.lane \in BiuLane /\ k \in 0 .. 1
    BY <1>3 DEF BusInv, NoRead
  <2>2. biu.lane + k \in PC
    BY <1>1, <2>1 DEF BiuLane
  <2> QED
    BY <1>3, <2>2, Rdata DEF Halfword
<1>4. CASE ~(icb_cmd2 = "itcm" /\ ram_dout \in Lane) /\ ~(icb_cmd2 = "biu" /\ biu.vld)
  BY <1>4, Rdata DEF Halfword
<1> QED
  BY <1>2, <1>3, <1>4

\* So is the first half of the word the lanes hand up.
LEMMA AnswerType ==
    ASSUME FetchTypeOK, BusInv
    PROVE  ifu_rsp_instr.lo \in Halfword /\ DOMAIN ifu_rsp_instr = {"lo", "hi", "err"}
<1>1. i_ifu_rsp_instr.lo \in Halfword
  <2>1. CASE rsp_instr_sel_leftover
    BY <2>1 DEF i_ifu_rsp_instr, FetchTypeOK
  <2>2. CASE ~rsp_instr_sel_leftover
    <3> DEFINE off == IF icb_cmd2 = "itcm" THEN icb_addr_2_1 ELSE 0
    <3>1. i_ifu_rsp_instr.lo = IF off = 3 THEN Zero ELSE rsp_rdata(off)
      BY <2>2 DEF i_ifu_rsp_instr
    <3>2. off \in 0 .. 3 /\ (icb_cmd2 = "itcm" \/ off \in 0 .. 1)
      BY DEF FetchTypeOK
    <3>3. rsp_rdata(off) \in Halfword
      BY <3>2, RdataType
    <3> QED
      BY <3>1, <3>3 DEF Halfword
  <2> QED
    BY <2>1, <2>2
<1>2. DOMAIN i_ifu_rsp_instr = {"lo", "hi", "err"}
  BY DEF i_ifu_rsp_instr
<1> QED
  BY <1>1, <1>2 DEF ifu_rsp_instr, FetchTypeOK

\* The mini-decoder's result is well-typed, whatever the word.
LEMMA DecType ==
    ASSUME FetchTypeOK, BusInv, NEW e, Inputs(e)
    PROVE  Dec(e) \in [rv32 : BOOLEAN, ofst : Int]
<1>1. e.junk \in [rv32 : BOOLEAN, ofst : Int]
  BY FetchAssumption DEF Inputs
<1>2. CASE ifu_rsp_instr.lo = Zero
  BY <1>2 DEF Dec, minidec
<1>3. CASE ifu_rsp_instr.lo # Zero /\ ifu_rsp_instr.lo = Junk
  BY <1>1, <1>3 DEF Dec, minidec
<1>4. CASE ifu_rsp_instr.lo # Zero /\ ifu_rsp_instr.lo # Junk
  <2>1. ifu_rsp_instr.lo \in PC
    BY <1>4, AnswerType DEF Halfword
  <2>2. prog[ifu_rsp_instr.lo] \in [rv32 : BOOLEAN, ofst : Int]
    BY <2>1, FetchAssumption
  <2>3. \/ Dec(e) = prog[ifu_rsp_instr.lo]
        \/ Dec(e) = [rv32 |-> TRUE, ofst |-> e.junk.ofst]
    BY <1>4 DEF Dec, minidec
  <2>4. e.junk.ofst \in Int
    BY <1>1
  <2>5. [rv32 |-> TRUE, ofst |-> e.junk.ofst] \in [rv32 : BOOLEAN, ofst : Int]
    BY <2>4
  <2> QED
    BY <2>2, <2>3, <2>5, Zenon
<1> QED
  BY <1>2, <1>3, <1>4

\* A request is for an address.
LEMMA ReqPcType ==
    ASSUME FetchTypeOK, BusInv, NEW e, Inputs(e)
    PROVE  Req(e).pc \in PC
<1>1. Dec(e).ofst \in Int /\ pc_r \in PC /\ e.flush_pc \in PC /\ pc_rtvec \in PC
  BY DecType, FetchAssumption DEF FetchTypeOK, Inputs
<1>2. Plus(pc_r, Dec(e).ofst) \in PC /\ Plus(pc_r, 1) \in PC /\ Plus(pc_r, 2) \in PC
  BY <1>1, PlusFacts
<1> QED
  BY <1>1, <1>2, ReqPc DEF Cancel

\* An answer that is the word at a decodes to the instruction at a.
LEMMA DecExact ==
    ASSUME NEW e, NEW a \in PC, WholeWord(ifu_rsp_instr, a)
    PROVE  Dec(e) = prog[a]
<1>1. a # Zero /\ a # Junk
  BY FetchAssumption, Ift2icbAssumption, ItcmAssumption DEF Zero, Junk
<1> QED
  BY <1>1 DEF Dec, minidec, WholeWord

-----------------------------------------------------------------------------
(* The ITCM's edge: an answer of the IFU leaves at once, a new command goes *)
(* to the SRAM or, behind another agent's, into the bypass buffer.          *)

ItcmCmd == {NoCmd} \cup {IfuCmd(l) : l \in Lane}

\* The commands an ITCM stage can hold are told apart.
LEMMA CmdFacts ==
    /\ ~NoCmd.ifu /\ ~OtherCmd.ifu /\ NoCmd # OtherCmd
    /\ \A l : IfuCmd(l).ifu /\ IfuCmd(l).lane = l /\ IfuCmd(l) # NoCmd /\ IfuCmd(l) # OtherCmd
    /\ \A c \in ItcmCmd : c # NoCmd <=> c.ifu
    /\ \A c \in ItcmCmd : c.ifu => c.lane \in Lane /\ c = IfuCmd(c.lane)
    /\ \A c \in ItcmCmd : c # OtherCmd
    /\ NoLane \notin Lane /\ OtherLane \notin Lane /\ NoCmd \in ItcmCmd
<1>1. ~NoCmd.ifu /\ ~OtherCmd.ifu /\ NoCmd # OtherCmd
  BY DEF NoCmd, OtherCmd, NoLane, OtherLane
<1>2. \A l : IfuCmd(l).ifu /\ IfuCmd(l).lane = l
  BY DEF IfuCmd
<1>3. NoLane \notin Lane /\ OtherLane \notin Lane
  BY DEF Lane, NoLane, OtherLane
<1>4. \A l : IfuCmd(l) # NoCmd /\ IfuCmd(l) # OtherCmd
  BY <1>1, <1>2
<1> QED
  BY <1>1, <1>2, <1>3, <1>4 DEF ItcmCmd

\* The ITCM's edge, by the command it holds and the one it gets.
LEMMA ItcmEdge ==
    ASSUME BusInv, ifu_holdup \in BOOLEAN, ITCM_OUTS_NUM = 1, NEW e, NEW c \in ItcmCmd, NEW ready \in BOOLEAN,
           ItcmClk(e, c, ready), e1.ifu => ready, byp_cmd # NoCmd => c = NoCmd
    PROVE  /\ e1' \in ItcmCmd \cup {OtherCmd} /\ byp_cmd' \in ItcmCmd
           /\ ram_dout' \in Lane \cup {OtherLane} /\ ifu_holdup' \in BOOLEAN
           /\ arbt_outs' = IF e1' = OtherCmd THEN 1 ELSE 0
           /\ byp_cmd' # NoCmd => e1' = OtherCmd
           /\ e1'.ifu => ram_dout' = e1'.lane
           /\ e1'.ifu \/ byp_cmd'.ifu <=>
                 (c # NoCmd /\ ifu2itcm_icb_cmd_ready(e)) \/ byp_cmd.ifu
           /\ c # NoCmd /\ ifu2itcm_icb_cmd_ready(e) =>
                 (e1'.ifu => e1' = c) /\ (byp_cmd'.ifu => byp_cmd' = c)
           /\ byp_cmd.ifu =>
                 (e1'.ifu => e1' = byp_cmd) /\ (byp_cmd'.ifu => byp_cmd' = byp_cmd)
           /\ ifu_holdup' => \/ /\ c # NoCmd /\ ifu2itcm_icb_cmd_ready(e)
                                /\ e1' = c /\ ram_dout' = c.lane
                             \/ ifu_holdup /\ ram_dout' = ram_dout /\ ~e1'.ifu
           /\ c = NoCmd /\ ifu2itcm_icb_cmd_ready(e) => ram_dout' = ram_dout
<1> DEFINE arbt_valid == arbt_icb_cmd_valid(e)
           i_cmd == IF arbt_valid THEN OtherCmd ELSE c
           o_cmd == IF byp_cmd # NoCmd THEN byp_cmd ELSE i_cmd
           uop_cmd_ready == e1 = NoCmd \/ (e1.ifu /\ ready) \/ arbt_rsp_hsked(e)
           ram_cs == o_cmd # NoCmd /\ uop_cmd_ready
<1>1. /\ byp_cmd' = IF uop_cmd_ready THEN NoCmd ELSE o_cmd
      /\ e1' = IF uop_cmd_ready THEN o_cmd ELSE e1
      /\ arbt_outs' = arbt_outs + (IF arbt_valid /\ sram_icb_cmd_ready THEN 1 ELSE 0)
                                - (IF arbt_rsp_hsked(e) THEN 1 ELSE 0)
      /\ ram_dout' = IF ram_cs THEN o_cmd.lane ELSE ram_dout
      /\ ifu_holdup' = IF ram_cs THEN c # NoCmd /\ ~arbt_valid ELSE ifu_holdup
  BY DEF ItcmClk
<1>2. /\ e1 \in ItcmCmd \cup {OtherCmd} /\ byp_cmd \in ItcmCmd
      /\ ram_dout \in Lane \cup {OtherLane}
      /\ arbt_outs = IF e1 = OtherCmd THEN 1 ELSE 0
      /\ byp_cmd # NoCmd => e1 = OtherCmd
      /\ e1.ifu => ram_dout = e1.lane
  BY DEF BusInv, ItcmCmd
<1>3. arbt_rsp_hsked(e) => e1 = OtherCmd
  BY DEF arbt_rsp_hsked
<1>4. arbt_valid => e1 # OtherCmd \/ arbt_rsp_hsked(e)
  BY <1>2 DEF arbt_icb_cmd_valid
<1>5. uop_cmd_ready \/ (e1 = OtherCmd /\ ~arbt_rsp_hsked(e))
  BY <1>2, CmdFacts
<1>6. ifu2itcm_icb_cmd_ready(e) <=> ~arbt_valid /\ byp_cmd = NoCmd
  BY DEF ifu2itcm_icb_cmd_ready, sram_icb_cmd_ready
<1>7. sram_icb_cmd_ready <=> byp_cmd = NoCmd
  BY DEF sram_icb_cmd_ready
<1> HIDE DEF arbt_valid, uop_cmd_ready
<1>11. ifu_holdup' \in BOOLEAN
  BY <1>1
<1>8. CASE byp_cmd # NoCmd
  <2>1. o_cmd = byp_cmd /\ c = NoCmd /\ byp_cmd.ifu /\ byp_cmd.lane \in Lane /\ e1 = OtherCmd
    BY <1>2, <1>8, CmdFacts
  <2>2. ~ifu2itcm_icb_cmd_ready(e) /\ ~sram_icb_cmd_ready
    BY <1>6, <1>7, <1>8
  <2>3. CASE uop_cmd_ready
    <3>1. ram_cs /\ arbt_rsp_hsked(e)
      BY <1>8, <2>1, <2>3, CmdFacts DEF uop_cmd_ready
    <3>h. ifu_holdup' = (c # NoCmd /\ ~arbt_valid)
      BY <1>1, <3>1
    <3>o. arbt_outs = 1 /\ arbt_outs' = 0
      BY <1>1, <1>2, <2>1, <2>2, <3>1
    <3>2. byp_cmd' = NoCmd /\ e1' = byp_cmd /\ ram_dout' = byp_cmd.lane /\ ~ifu_holdup'
          /\ arbt_outs' = 0
      BY <1>1, <2>1, <2>3, <3>1, <3>h, <3>o
    <3>3. e1'.ifu /\ ~byp_cmd'.ifu /\ e1'.lane = byp_cmd.lane /\ byp_cmd' \in ItcmCmd
          /\ e1' \in ItcmCmd /\ e1' # OtherCmd /\ ram_dout' \in Lane
      BY <1>2, <2>1, <3>2, CmdFacts
    <3> QED
      BY <1>11, <2>1, <2>2, <3>2, <3>3
  <2>4. CASE ~uop_cmd_ready
    <3>1. ~ram_cs /\ ~arbt_rsp_hsked(e) /\ e1 = OtherCmd
      BY <2>4, <1>5 DEF uop_cmd_ready
    <3>2. byp_cmd' = byp_cmd /\ e1' = e1 /\ ram_dout' = ram_dout /\ ifu_holdup' = ifu_holdup
          /\ arbt_outs' = 1
      BY <1>1, <1>2, <2>1, <2>2, <2>4, <3>1
    <3> QED
      BY <1>2, <1>8, <2>1, <2>2, <3>1, <3>2, <1>11, CmdFacts
  <2> QED
    BY <2>3, <2>4
<1>9. CASE byp_cmd = NoCmd /\ arbt_valid
  <2>1. o_cmd = OtherCmd /\ ~ifu2itcm_icb_cmd_ready(e) /\ sram_icb_cmd_ready /\ ~byp_cmd.ifu
    BY <1>6, <1>7, <1>9, CmdFacts
  <2>2. uop_cmd_ready /\ ram_cs
    BY <1>4, <1>5, <1>9, <2>1, CmdFacts
  <2>3. byp_cmd' = NoCmd /\ e1' = OtherCmd /\ ram_dout' = OtherLane /\ ~ifu_holdup'
    BY <1>1, <1>9, <2>1, <2>2 DEF OtherCmd
  <2>4. arbt_outs' = 1
    <3>1. arbt_rsp_hsked(e) <=> e1 = OtherCmd
      BY <1>3, <1>4, <1>9
    <3> QED
      BY <1>1, <1>2, <1>9, <2>1, <3>1
  <2> QED
    BY <1>11, <2>1, <2>3, <2>4, CmdFacts
<1>10. CASE byp_cmd = NoCmd /\ ~arbt_valid
  <2>1. o_cmd = c /\ ifu2itcm_icb_cmd_ready(e) /\ sram_icb_cmd_ready /\ ~byp_cmd.ifu
    BY <1>6, <1>7, <1>10, CmdFacts
  <2>2. CASE uop_cmd_ready
    <3>1. byp_cmd' = NoCmd /\ e1' = c /\ arbt_outs' = 0
      BY <1>1, <1>2, <1>3, <1>10, <2>1, <2>2, CmdFacts DEF uop_cmd_ready
    <3>2. ram_cs <=> c # NoCmd
      BY <2>1, <2>2
    <3>3. CASE c = NoCmd
      BY <1>1, <1>2, <2>1, <3>1, <3>2, <3>3, <1>11, CmdFacts
    <3>4. CASE c # NoCmd
      <4>1. ram_dout' = c.lane /\ ifu_holdup' = TRUE
        BY <1>1, <1>10, <2>1, <3>2, <3>4
      <4> QED
        BY <1>2, <1>11, <2>1, <3>1, <3>4, <4>1, CmdFacts
    <3> QED
      BY <3>3, <3>4
  <2>3. CASE ~uop_cmd_ready
    <3>1. e1 = OtherCmd /\ ~arbt_rsp_hsked(e) /\ ~ram_cs
      BY <1>5, <2>3
    <3>2. byp_cmd' = c /\ e1' = OtherCmd /\ arbt_outs' = 1
          /\ ram_dout' = ram_dout /\ ifu_holdup' = ifu_holdup
      BY <1>1, <1>2, <1>10, <2>1, <2>3, <3>1
    <3> QED
      BY <1>2, <2>1, <3>2, <1>11, CmdFacts
  <2> QED
    BY <2>2, <2>3
<1> QED
  BY <1>8, <1>9, <1>10

-----------------------------------------------------------------------------
(* The lane logic between two edges.                                       *)

\* It may take a new request; it asks for the second lane of a word.
Free == icb_state = "IDLE" \/ i_ifu_rsp_hsked
Second == req_need_2uop /\ ((icb_state = "1ST" /\ ifu_icb_rsp_valid) \/ icb_state = "WAIT2ND")

\* A command is accepted, and its address.
Acc(e) == ifu_icb_cmd_valid(Req(e), ReqValid(e)) /\ ifu_icb_cmd_ready(e, Req(e))
CmdAddr(e) == ifu_icb_cmd_addr(Req(e))
Cmd(e) == ifu2itcm_cmd(Req(e), ReqValid(e))

\* When an answer comes, and in which state of the lane machine.
LEMMA Answers ==
    ASSUME FetchTypeOK, OutInv, BusInv, UopInv
    PROVE  /\ icb_state # "IDLE" => rsp_buf = <<>> /\ ifu_icb_rsp_ready
           /\ ifu_icb_rsp_valid => InFlight
           /\ InFlight => icb_state # "IDLE"
           /\ e1.ifu => ifu_icb_rsp_ready /\ ifu_icb_rsp_valid /\ InFlight
           /\ i_ifu_rsp_hsked <=>
                \/ icb_state = "1ST" /\ req_need_0uop
                \/ icb_state = "1ST" /\ ~req_need_2uop /\ ifu_icb_rsp_valid
                \/ icb_state = "2ND" /\ ifu_icb_rsp_valid
           /\ ifu_rsp_valid <=> rsp_buf # <<>> \/ i_ifu_rsp_hsked
           /\ ifu_req_ready_condi <=> Free
           /\ Free => ~Second
           /\ ifu_icb_rsp_ready \in BOOLEAN
           /\ ifu_icb_rsp_hsked <=> ifu_icb_rsp_valid
<1>1. icb_state # "IDLE" => rsp_buf = <<>> /\ ifu_icb_rsp_ready
  BY DEF OutInv, ifu_icb_rsp_ready
<1>2. ifu_icb_rsp_valid => InFlight
  BY DEF ifu_icb_rsp_valid, ifu2itcm_icb_rsp_valid, BusInv, NoRead
<1>3. InFlight => icb_state # "IDLE"
  BY DEF InFlight
<1>4. e1.ifu => ifu_icb_rsp_valid
  BY DEF ifu_icb_rsp_valid, ifu2itcm_icb_rsp_valid, BusInv
<1>5. /\ icb_state \in {"WAIT2ND", "2ND"} => req_need_2uop
      /\ req_need_2uop => ~req_need_0uop /\ ~req_same_cross_holdup
      /\ icb_state \in {"IDLE", "1ST", "WAIT2ND", "2ND"}
  BY DEF UopInv, FetchTypeOK
<1>6. i_ifu_rsp_valid <=>
        \/ icb_state = "1ST" /\ req_need_0uop
        \/ ifu_icb_rsp_valid /\ ~(req_need_2uop /\ icb_state = "1ST")
  BY DEF i_ifu_rsp_valid, holdup_gen_fake_rsp_valid, ifu_icb_rsp2leftover
<1>7. InFlight <=> icb_state = "2ND" \/ (icb_state = "1ST" /\ ~req_need_0uop)
  BY DEF InFlight
<1>8. i_ifu_rsp_valid <=>
        \/ icb_state = "1ST" /\ req_need_0uop
        \/ icb_state = "1ST" /\ ~req_need_2uop /\ ifu_icb_rsp_valid
        \/ icb_state = "2ND" /\ ifu_icb_rsp_valid
  BY <1>2, <1>5, <1>6, <1>7
<1>9. i_ifu_rsp_hsked <=> i_ifu_rsp_valid
  BY <1>1, <1>8 DEF i_ifu_rsp_hsked
<1>10. ifu_rsp_valid <=> rsp_buf # <<>> \/ i_ifu_rsp_hsked
  BY <1>9 DEF ifu_rsp_valid
<1>11. ifu_req_ready_condi <=> Free
  <2>1. ifu_req_ready_condi <=>
          \/ icb_state = "IDLE"
          \/ (IF req_need_2uop THEN icb_state = "2ND" ELSE icb_state = "1ST") /\ i_ifu_rsp_hsked
    BY DEF ifu_req_ready_condi
  <2> QED
    BY <1>5, <1>8, <1>9, <2>1 DEF Free
<1>12. Free => ~Second
  BY <1>5, <1>8, <1>9 DEF Free, Second
<1>13. ifu_icb_rsp_ready \in BOOLEAN
  BY DEF ifu_icb_rsp_ready, ifu_icb_rsp2leftover, FetchTypeOK
<1>14. ifu_icb_rsp_hsked <=> ifu_icb_rsp_valid
  BY <1>1, <1>2, <1>3 DEF ifu_icb_rsp_hsked
<1> QED
  BY <1>1, <1>2, <1>3, <1>4, <1>8, <1>9, <1>10, <1>11, <1>12, <1>13, <1>14

\* When a request is taken, and when it needs a command.
LEMMA Commands ==
    ASSUME FetchTypeOK, OutInv, BusInv, UopInv, NEW e, Inputs(e)
    PROVE  /\ ReqH(e) => Free
           /\ Free => (Acc(e) <=> ReqH(e) /\ ~need_0uop(Req(e)))
           /\ ~Free => (Acc(e) <=> Second /\ ifu_icb_cmd_ready(e, Req(e)))
           /\ ReqH(e) => ifu_icb_cmd_ready(e, Req(e)) /\ (~out_flag \/ RspH(e))
           /\ Second => CmdAddr(e) = Plus(pc_r, 1)
           /\ Free /\ ~same_cross_holdup(Req(e)) => CmdAddr(e) = Req(e).pc
           /\ Free /\ same_cross_holdup(Req(e)) => CmdAddr(e) = Plus(Req(e).pc, 1)
           /\ Acc(e) => Free \/ Second
           /\ CmdAddr(e) \in PC
           /\ Cmd(e) \in ItcmCmd
           /\ Cmd(e) # NoCmd => Cmd(e) = IfuCmd(LaneOf(CmdAddr(e))) /\ in_itcm(CmdAddr(e))
           /\ Cmd(e) # NoCmd /\ ifu2itcm_icb_cmd_ready(e) <=> Acc(e) /\ in_itcm(CmdAddr(e))
           /\ byp_cmd # NoCmd => Cmd(e) = NoCmd
<1> DEFINE q == Req(e)
<1>1. ReqH(e) <=> ReqValid(e) /\ ifu_icb_cmd_ready(e, q) /\ Free
  BY Wires, Answers DEF ReqReady, ifu2icb_req_ready
<1>2. ifu_icb_cmd_valid(q, ReqValid(e)) <=>
        (ReqValid(e) /\ Free /\ ~need_0uop(q)) \/ Second
  BY Answers DEF ifu_icb_cmd_valid, Second
<1>3. Free => ~Second
  BY Answers
<1>4. Free => ~icb_addr_sel_2ndnxtalgn
  BY Answers, <1>3 DEF icb_addr_sel_2ndnxtalgn, Free, Second, UopInv
<1>5. Second => icb_addr_sel_2ndnxtalgn
  BY DEF Second, icb_addr_sel_2ndnxtalgn
<1>6. q.last_pc = pc_r /\ q.rv32 = Dec(e).rv32
  BY InFields
<1>7. CmdAddr(e) = IF icb_addr_sel_2ndnxtalgn THEN Plus(pc_r, 1)
                   ELSE IF same_cross_holdup(q) THEN Plus(pc_r, IF Dec(e).rv32 THEN 3 ELSE 2)
                   ELSE q.pc
  BY <1>6 DEF CmdAddr, ifu_icb_cmd_addr
<1>8. pc_r \in PC /\ q.pc \in PC
  BY ReqPcType DEF FetchTypeOK
<1>9. same_cross_holdup(q) => q.seq
  BY DEF same_cross_holdup, ifu_req_lane_same
<1>10. q.seq => q.pc = Plus(pc_r, IF Dec(e).rv32 THEN 2 ELSE 1)
  BY ReqPc
<1>11. q.seq => Plus(pc_r, IF Dec(e).rv32 THEN 3 ELSE 2) = Plus(q.pc, 1)
  BY <1>8, <1>10, PlusFacts
<1>12. CmdAddr(e) \in PC
  <2>1. Plus(pc_r, 1) \in PC /\ Plus(pc_r, 2) \in PC /\ Plus(pc_r, 3) \in PC
    BY <1>8, PlusFacts
  <2> QED
    BY <1>7, <1>8, <2>1
<1>13. Cmd(e) = IF ifu_icb_cmd_valid(q, ReqValid(e)) /\ in_itcm(CmdAddr(e))
                THEN IfuCmd(LaneOf(CmdAddr(e))) ELSE NoCmd
  BY DEF Cmd, ifu2itcm_cmd, CmdAddr
<1>14. in_itcm(CmdAddr(e)) => LaneOf(CmdAddr(e)) \in Lane
  BY <1>12, LaneFacts
<1>15. Cmd(e) \in ItcmCmd
  BY <1>13, <1>14 DEF ItcmCmd
<1>16. Cmd(e) # NoCmd <=> ifu_icb_cmd_valid(q, ReqValid(e)) /\ in_itcm(CmdAddr(e))
  BY <1>13, CmdFacts
<1>17. in_itcm(CmdAddr(e)) =>
         (ifu_icb_cmd_ready(e, q) <=> ifu2itcm_icb_cmd_ready(e))
  BY DEF ifu_icb_cmd_ready, CmdAddr
<1>18. byp_cmd # NoCmd => ~Free /\ ~Second
  <2> SUFFICES ASSUME byp_cmd # NoCmd PROVE ~Free /\ ~Second
    OBVIOUS
  <2>1. byp_cmd.ifu /\ e1 = OtherCmd
    BY CmdFacts DEF BusInv, ItcmCmd
  <2>2. InFlight /\ icb_cmd2 = "itcm" /\ ~e1.ifu
    BY <2>1, CmdFacts DEF BusInv
  <2>3. ~ifu_icb_rsp_valid
    BY <2>2 DEF ifu_icb_rsp_valid, ifu2itcm_icb_rsp_valid
  <2> QED
    BY <2>2, <2>3, Answers DEF Free, Second, InFlight
<1>19. ReqH(e) => ~out_flag \/ RspH(e)
  BY Wires
<1> HIDE DEF q
<1>20. Acc(e) <=> ifu_icb_cmd_valid(q, ReqValid(e)) /\ ifu_icb_cmd_ready(e, q)
  BY DEF Acc, q
<1>21. /\ ReqH(e) => Free
       /\ Free => (Acc(e) <=> ReqH(e) /\ ~need_0uop(q))
       /\ ~Free => (Acc(e) <=> Second /\ ifu_icb_cmd_ready(e, q))
       /\ ReqH(e) => ifu_icb_cmd_ready(e, q) /\ (~out_flag \/ RspH(e))
       /\ Acc(e) => Free \/ Second
  BY <1>1, <1>2, <1>3, <1>19, <1>20
<1>22. /\ Second => CmdAddr(e) = Plus(pc_r, 1)
       /\ Free /\ ~same_cross_holdup(q) => CmdAddr(e) = q.pc
       /\ Free /\ same_cross_holdup(q) => CmdAddr(e) = Plus(q.pc, 1)
  BY <1>4, <1>5, <1>7, <1>9, <1>11
<1>23. Cmd(e) # NoCmd /\ ifu2itcm_icb_cmd_ready(e) <=> Acc(e) /\ in_itcm(CmdAddr(e))
  BY <1>16, <1>17, <1>20
<1>24. Cmd(e) # NoCmd => Cmd(e) = IfuCmd(LaneOf(CmdAddr(e))) /\ in_itcm(CmdAddr(e))
  BY <1>13
<1>25. byp_cmd # NoCmd => Cmd(e) = NoCmd
  BY <1>2, <1>16, <1>18
<1> QED
  BY <1>12, <1>15, <1>21, <1>22, <1>23, <1>24, <1>25 DEF q

\* Its edge.
LEMMA LaneEdge ==
    ASSUME FetchTypeOK, OutInv, BusInv, UopInv, NEW e, Inputs(e),
           Ift2icbClk(e, Req(e), ReqValid(e), ifu_rsp_ready(In(e)))
    PROVE  /\ Free => icb_state' = IF ReqH(e) THEN "1ST" ELSE "IDLE"
           /\ Second => icb_state' = IF Acc(e) THEN "2ND" ELSE "WAIT2ND"
           /\ ~Free /\ ~Second => icb_state' = icb_state
           /\ ReqH(e) => /\ req_same_cross_holdup' = same_cross_holdup(Req(e))
                         /\ req_need_2uop' = need_2uop(Req(e))
                         /\ req_need_0uop' = need_0uop(Req(e))
                         /\ req_lane_cross' = ifu_req_lane_cross(Req(e))
           /\ ~ReqH(e) => /\ req_same_cross_holdup' = req_same_cross_holdup
                          /\ req_need_2uop' = req_need_2uop
                          /\ req_need_0uop' = req_need_0uop
                          /\ req_lane_cross' = req_lane_cross
           /\ icb_cmd2' = IF Acc(e) THEN (IF in_itcm(CmdAddr(e)) THEN "itcm" ELSE "biu")
                          ELSE icb_cmd2
           /\ icb_addr_2_1' = IF Acc(e) \/ ReqH(e) THEN CmdAddr(e) % 4 ELSE icb_addr_2_1
           /\ (ReqH(e) /\ same_cross_holdup(Req(e))) \/ (Second /\ icb_state = "1ST") =>
                    /\ leftover' = rsp_rdata(IF icb_cmd2 = "itcm" THEN 3 ELSE 1)
                    /\ leftover_err' = (Second /\ icb_state = "1ST" /\ ifu_icb_rsp_err)
           /\ ~(ReqH(e) /\ same_cross_holdup(Req(e))) /\ ~(Second /\ icb_state = "1ST") =>
                    leftover' = leftover /\ leftover_err' = leftover_err
           /\ RspH(e) \/ ~ifu_rsp_valid => rsp_buf' = <<>>
           /\ ifu_rsp_valid /\ ~RspH(e) => rsp_buf' # <<>> /\ rsp_buf'[1] = ifu_rsp_instr
<1> DEFINE q == Req(e)
           rdy == ifu_rsp_ready(In(e))
           again == IF ReqH(e) THEN "1ST" ELSE "IDLE"
<1>1. (ReqValid(e) /\ ifu2icb_req_ready(e, q)) <=> ReqH(e)
  BY Wires DEF ReqReady
<1>2. /\ icb_state' = CASE icb_state = "IDLE" -> again
         [] icb_state = "1ST" /\ ifu_icb_rsp2leftover ->
                IF ~ifu_icb_rsp_hsked THEN "1ST"
                ELSE IF ifu_icb_cmd_ready(e, q) THEN "2ND" ELSE "WAIT2ND"
         [] icb_state = "WAIT2ND" -> IF ifu_icb_cmd_ready(e, q) THEN "2ND" ELSE "WAIT2ND"
         [] OTHER -> IF i_ifu_rsp_hsked THEN again ELSE icb_state
  BY <1>1 DEF Ift2icbClk, icb_state_nxt
<1>3. /\ req_same_cross_holdup' = IF ReqH(e) THEN same_cross_holdup(q) ELSE req_same_cross_holdup
      /\ req_need_2uop'  = IF ReqH(e) THEN need_2uop(q) ELSE req_need_2uop
      /\ req_need_0uop'  = IF ReqH(e) THEN need_0uop(q) ELSE req_need_0uop
      /\ req_lane_cross' = IF ReqH(e) THEN ifu_req_lane_cross(q) ELSE req_lane_cross
  BY <1>1 DEF Ift2icbClk
<1>4. /\ icb_cmd2' = IF Acc(e) THEN (IF in_itcm(CmdAddr(e)) THEN "itcm" ELSE "biu")
                     ELSE icb_cmd2
      /\ icb_addr_2_1' = IF Acc(e) \/ ReqH(e) THEN CmdAddr(e) % 4 ELSE icb_addr_2_1
  BY <1>1 DEF Ift2icbClk, Acc, CmdAddr
<1>5. ifu_icb_rsp2leftover <=> req_need_2uop /\ icb_state = "1ST"
  BY DEF ifu_icb_rsp2leftover
<1>6. (ifu_icb_rsp_hsked /\ ifu_icb_rsp2leftover) <=> (Second /\ icb_state = "1ST")
  BY <1>5, Answers DEF Second
<1>7. leftover_ena(q, ReqValid(e) /\ ifu2icb_req_ready(e, q)) <=>
        (ReqH(e) /\ same_cross_holdup(q)) \/ (Second /\ icb_state = "1ST")
  BY <1>1, <1>6 DEF leftover_ena
<1>8. /\ leftover' = IF (ReqH(e) /\ same_cross_holdup(q)) \/ (Second /\ icb_state = "1ST")
                     THEN rsp_rdata(IF icb_cmd2 = "itcm" THEN 3 ELSE 1) ELSE leftover
      /\ leftover_err' = IF (ReqH(e) /\ same_cross_holdup(q)) \/ (Second /\ icb_state = "1ST")
                         THEN ifu_icb_rsp2leftover /\ ifu_icb_rsp_err ELSE leftover_err
  BY <1>7 DEF Ift2icbClk
<1>9. rsp_buf' = IF rdy THEN <<>>
                 ELSE IF i_ifu_rsp_hsked THEN <<i_ifu_rsp_instr>> ELSE rsp_buf
  BY DEF Ift2icbClk
<1>10. RspH(e) <=> ifu_rsp_valid /\ rdy
  BY Wires
<1>11. ifu_rsp_valid <=> rsp_buf # <<>> \/ i_ifu_rsp_hsked
  BY Answers
<1>12. i_ifu_rsp_hsked => rsp_buf = <<>>
  BY DEF i_ifu_rsp_hsked
<1>13. ifu_rsp_instr = IF rsp_buf # <<>> THEN rsp_buf[1] ELSE i_ifu_rsp_instr
  BY DEF ifu_rsp_instr
<1>14. ~Free => (Acc(e) <=> Second /\ ifu_icb_cmd_ready(e, q))
  BY Commands
<1>15. /\ Free => ~Second
       /\ i_ifu_rsp_hsked <=>
                \/ icb_state = "1ST" /\ req_need_0uop
                \/ icb_state = "1ST" /\ ~req_need_2uop /\ ifu_icb_rsp_valid
                \/ icb_state = "2ND" /\ ifu_icb_rsp_valid
       /\ ifu_icb_rsp_hsked <=> ifu_icb_rsp_valid
       /\ icb_state \in {"IDLE", "1ST", "WAIT2ND", "2ND"}
       /\ icb_state = "WAIT2ND" => req_need_2uop
       /\ req_need_2uop => ~req_need_0uop
  BY Answers DEF FetchTypeOK, UopInv
<1> HIDE DEF q, rdy
<1>16. Free => icb_state' = again
  BY <1>2, <1>5, <1>15 DEF Free
<1>17. Second => icb_state' = IF Acc(e) THEN "2ND" ELSE "WAIT2ND"
  <2>1. Second => ~Free
    BY <1>15
  <2>2. Second /\ icb_state = "1ST" => ifu_icb_rsp2leftover /\ ifu_icb_rsp_hsked
    BY <1>6
  <2>3. Second => icb_state \in {"1ST", "WAIT2ND"}
    BY DEF Second
  <2>4. Second /\ icb_state = "1ST" => icb_state' = IF ifu_icb_cmd_ready(e, q) THEN "2ND" ELSE "WAIT2ND"
    BY <1>2, <2>2
  <2>5. Second /\ icb_state = "WAIT2ND" => icb_state' = IF ifu_icb_cmd_ready(e, q) THEN "2ND" ELSE "WAIT2ND"
    BY <1>2
  <2> QED
    BY <1>14, <2>1, <2>3, <2>4, <2>5
<1>18. ~Free /\ ~Second => icb_state' = icb_state
  BY <1>2, <1>5, <1>15 DEF Free, Second
<1>19. /\ RspH(e) \/ ~ifu_rsp_valid => rsp_buf' = <<>>
       /\ ifu_rsp_valid /\ ~RspH(e) => rsp_buf' # <<>> /\ rsp_buf'[1] = ifu_rsp_instr
  BY <1>9, <1>10, <1>11, <1>12, <1>13
<1>20. /\ (ReqH(e) /\ same_cross_holdup(q)) \/ (Second /\ icb_state = "1ST") =>
            leftover_err' = (Second /\ icb_state = "1ST" /\ ifu_icb_rsp_err)
       /\ ~(ReqH(e) /\ same_cross_holdup(q)) /\ ~(Second /\ icb_state = "1ST") =>
            leftover_err' = leftover_err
  <2>1. ReqH(e) => Free
    BY Commands
  <2>2. (ReqH(e) /\ same_cross_holdup(q)) \/ (Second /\ icb_state = "1ST") =>
           (ifu_icb_rsp2leftover <=> (Second /\ icb_state = "1ST"))
    BY <2>1, <1>5, <1>6, <1>15 DEF Free
  <2>3. (ifu_icb_rsp2leftover /\ ifu_icb_rsp_err) \in BOOLEAN
        /\ (Second /\ icb_state = "1ST" /\ ifu_icb_rsp_err) \in BOOLEAN
    OBVIOUS
  <2> QED
    BY <1>8, <2>2, <2>3
<1> QED
  BY <1>3, <1>4, <1>8, <1>16, <1>17, <1>18, <1>19, <1>20 DEF q

\* A command accepted is under way from the next cycle on, and an answer ends it.
LEMMA FlightEdge ==
    ASSUME FetchTypeOK, OutInv, BusInv, UopInv, NEW e, Inputs(e),
           Ift2icbClk(e, Req(e), ReqValid(e), ifu_rsp_ready(In(e)))
    PROVE  /\ InFlight' <=> Acc(e) \/ (InFlight /\ ~ifu_icb_rsp_valid)
           /\ Acc(e) => ~InFlight \/ ifu_icb_rsp_valid
           /\ InFlight' /\ ~Acc(e) => ~Free /\ ~Second /\ ~ReqH(e)
<1>1. /\ Free => icb_state' = IF ReqH(e) THEN "1ST" ELSE "IDLE"
      /\ Second => icb_state' = IF Acc(e) THEN "2ND" ELSE "WAIT2ND"
      /\ ~Free /\ ~Second => icb_state' = icb_state
      /\ ReqH(e) => req_need_0uop' = need_0uop(Req(e))
      /\ ~ReqH(e) => req_need_0uop' = req_need_0uop
  BY LaneEdge
<1>2. /\ ReqH(e) => Free
      /\ Free => (Acc(e) <=> ReqH(e) /\ ~need_0uop(Req(e)))
      /\ Acc(e) => Free \/ Second
  BY Commands
<1>3. /\ Free => ~Second
      /\ i_ifu_rsp_hsked <=>
                \/ icb_state = "1ST" /\ req_need_0uop
                \/ icb_state = "1ST" /\ ~req_need_2uop /\ ifu_icb_rsp_valid
                \/ icb_state = "2ND" /\ ifu_icb_rsp_valid
      /\ ifu_icb_rsp_valid => InFlight
      /\ icb_state = "WAIT2ND" => req_need_2uop
  BY Answers DEF UopInv
<1>4. InFlight' <=> icb_state' = "2ND" \/ (icb_state' = "1ST" /\ ~req_need_0uop')
  BY DEF InFlight
<1>5. InFlight <=> icb_state = "2ND" \/ (icb_state = "1ST" /\ ~req_need_0uop)
  BY DEF InFlight
<1>6. CASE Free
  <2>1. ~InFlight \/ ifu_icb_rsp_valid
    BY <1>3, <1>5, <1>6 DEF Free
  <2>2. InFlight' <=> Acc(e)
    BY <1>1, <1>2, <1>4, <1>6
  <2> QED
    BY <2>1, <2>2
<1>7. CASE Second
  <2>1. ~InFlight \/ ifu_icb_rsp_valid
    BY <1>5, <1>7 DEF Second
  <2>2. InFlight' <=> Acc(e)
    BY <1>1, <1>4, <1>7
  <2> QED
    BY <2>1, <2>2
<1>8. CASE ~Free /\ ~Second
  <2>1. ~Acc(e) /\ ~ReqH(e)
    BY <1>2, <1>8
  <2>2. InFlight' <=> InFlight
    BY <1>1, <1>4, <1>5, <1>8, <2>1
  <2>3. InFlight => ~ifu_icb_rsp_valid
    BY <1>3, <1>5, <1>8 DEF Free, Second
  <2> QED
    BY <1>8, <2>1, <2>2, <2>3
<1> QED
  BY <1>6, <1>7, <1>8

\* The system bus holds the read accepted, until it has answered.
LEMMA BiuEdge ==
    ASSUME FetchTypeOK, OutInv, BusInv, UopInv, NEW e, Inputs(e),
           BiuClk(e, Req(e), ReqValid(e))
    PROVE  /\ Acc(e) /\ ~in_itcm(CmdAddr(e)) =>
                 biu' \in [lane : {LaneOf(CmdAddr(e))}, vld : BOOLEAN]
           /\ ~(Acc(e) /\ ~in_itcm(CmdAddr(e))) /\ biu.vld => biu' = NoRead
           /\ ~(Acc(e) /\ ~in_itcm(CmdAddr(e))) /\ ~biu.vld =>
                 biu' = biu \/ (biu # NoRead /\ biu' = [biu EXCEPT !.vld = TRUE])
<1>1. biu' \in IF Acc(e) /\ ~in_itcm(CmdAddr(e))
               THEN [lane : {LaneOf(CmdAddr(e))}, vld : BOOLEAN]
               ELSE IF biu.vld /\ ifu_icb_rsp_ready THEN {NoRead}
               ELSE IF biu # NoRead THEN {biu, [biu EXCEPT !.vld = TRUE]}
               ELSE {biu}
  BY DEF BiuClk, Acc, CmdAddr
<1>2. biu.vld => ifu_icb_rsp_ready
  <2>1. biu.vld => biu # NoRead
    BY DEF NoRead
  <2> QED
    BY <2>1, Answers DEF BusInv
<1> QED
  BY <1>1, <1>2

-----------------------------------------------------------------------------
(* What the answers are.                                                   *)

\* An instruction that follows another lies in the lane accessed last, unless
\* it is the first of its lane and that access was not made ahead.
LEMMA SeqLane ==
    ASSUME NEW p \in PC, NEW n \in {1, 2}, in_itcm(Plus(p, n)),
           Plus(p, n) % 4 = 0 => Cross(p)
    PROVE  in_itcm(LastAddr(p)) /\ LaneOf(LastAddr(p)) = LaneOf(Plus(p, n))
<1>1. /\ PC_HW \in Nat /\ PC_HW > ITCM_HW /\ PC_HW % 2 = 0
      /\ ITCM_HW \in Nat /\ ITCM_HW % 4 = 0 /\ ITCM_HW > 0
      /\ p \in Int /\ 0 <= p /\ p <= PC_HW - 1 /\ PC = 0 .. PC_HW - 1
  BY FetchAssumption, Ift2icbAssumption, ItcmAssumption
<1>2. /\ Plus(p, 1) = IF p = PC_HW - 1 THEN 0 ELSE p + 1
      /\ Plus(p, 2) = Plus(Plus(p, 1), 1)
      /\ Plus(p, 1) \in PC
  BY PlusFacts
<1>3. Plus(Plus(p, 1), 1) = IF Plus(p, 1) = PC_HW - 1 THEN 0 ELSE Plus(p, 1) + 1
  BY <1>2, PlusFacts
<1>4. Cross(p) <=> IF p < ITCM_HW THEN p % 4 = 3 ELSE p % 2 = 1
  BY <1>1 DEF Cross, ifu_req_lane_cross, LaneSize, in_itcm
<1>5. \A a \in 0 .. ITCM_HW - 1 : in_itcm(a) /\ LaneOf(a) = a - (a % 4)
  BY <1>1 DEF LaneOf, LaneSize, in_itcm
<1>6. Plus(p, n) \in PC /\ Plus(p, n) < ITCM_HW
  BY PlusFacts DEF in_itcm
<1>7. CASE p = PC_HW - 1
  <2>1. Plus(p, 1) = 0 /\ Plus(p, n) = n - 1 /\ Cross(p)
    BY <1>1, <1>2, <1>3, <1>4, <1>7
  <2>2. LastAddr(p) = 0 /\ in_itcm(0) /\ LaneOf(0) = 0
    BY <1>1, <1>5, <2>1 DEF LastAddr
  <2>3. LaneOf(Plus(p, n)) = 0
    BY <1>1, <1>5, <2>1
  <2> QED
    BY <2>2, <2>3
<1>8. CASE p = PC_HW - 2 /\ n = 2
  <2>1. Plus(p, n) = 0 /\ p % 2 = 0 /\ p >= ITCM_HW
    BY <1>1, <1>2, <1>3, <1>8
  <2> QED
    BY <1>1, <1>4, <2>1
<1>9. CASE p # PC_HW - 1 /\ ~(p = PC_HW - 2 /\ n = 2)
  <2>1. Plus(p, n) = p + n /\ Plus(p, 1) = p + 1 /\ p + n < ITCM_HW
    BY <1>1, <1>2, <1>3, <1>6, <1>9
  <2>2. Cross(p) <=> p % 4 = 3
    BY <1>1, <1>4, <2>1
  <2>3. LastAddr(p) = IF p % 4 = 3 THEN p + 1 ELSE p
    BY <2>1, <2>2 DEF LastAddr
  <2>4. in_itcm(LastAddr(p)) /\ LaneOf(LastAddr(p)) = LastAddr(p) - (LastAddr(p) % 4)
    <3>1. LastAddr(p) \in 0 .. ITCM_HW - 1
      BY <1>1, <2>1, <2>3
    <3> QED
      BY <1>5, <3>1
  <2>5. LaneOf(Plus(p, n)) = (p + n) - ((p + n) % 4)
    <3>1. p + n \in 0 .. ITCM_HW - 1
      BY <1>1, <2>1
    <3>2. LaneOf(p + n) = (p + n) - ((p + n) % 4)
      BY <1>5, <3>1
    <3> QED
      BY <2>1, <3>2
  <2>6. (p + n) % 4 = 0 => p % 4 = 3
    <3>1. (p + n) % 4 = 0 => Plus(p, n) % 4 = 0
      BY <2>1
    <3> QED
      BY <2>2, <3>1
  <2>7. CASE n = 1
    <3>1. p % 4 # 3 => (p + 1) % 4 = (p % 4) + 1
      BY <1>1
    <3>2. p % 4 \in 0 .. 3
      BY <1>1
    <3> QED
      BY <1>1, <2>3, <2>4, <2>5, <2>7, <3>1, <3>2
  <2>8. CASE n = 2
    <3>1. /\ p % 4 = 3 => (p + 1) % 4 = 0 /\ (p + 2) % 4 = 1
          /\ p % 4 = 2 => (p + 2) % 4 = 0
          /\ p % 4 \in {0, 1} => (p + 2) % 4 = (p % 4) + 2
          /\ p % 4 \in 0 .. 3
      BY <1>1
    <3>2. p % 4 # 2
      BY <2>6, <2>8, <3>1
    <3> QED
      BY <1>1, <2>3, <2>4, <2>5, <2>8, <3>1, <3>2
  <2> QED
    BY <2>7, <2>8
<1> QED
  BY <1>7, <1>8, <1>9

\* What is on the bus when it answers a fetch not cancelled.
LEMMA OnBus ==
    ASSUME FetchTypeOK, OutInv, BusInv, UopInv, LaneInv, ~dly_flush, ifu_icb_rsp_valid
    PROVE  /\ WantAddr \in PC /\ InFlight
           /\ \A k : rsp_rdata(k) = LaneOf(WantAddr) + k
           /\ ifu_icb_rsp_err <=> LaneOf(WantAddr) \in ErrLanes
           /\ icb_cmd2 = "itcm" <=> in_itcm(WantAddr)
           /\ icb_cmd2 = "biu" <=> ~in_itcm(WantAddr)
           /\ icb_cmd2 = "itcm" => ram_dout = LaneOf(WantAddr)
<1>1. InFlight
  BY Answers
<1>2. WantAddr \in PC
  BY PlusFacts DEF WantAddr, FetchTypeOK
<1>3. /\ icb_cmd2 = "itcm" <=> in_itcm(WantAddr)
      /\ e1.ifu => e1.lane = LaneOf(WantAddr)
      /\ biu # NoRead => biu.lane = LaneOf(WantAddr)
  BY <1>1 DEF LaneInv
<1>4. icb_cmd2 \in {"itcm", "biu"}
  BY <1>1 DEF BusInv, FetchTypeOK
<1>5. CASE icb_cmd2 = "itcm"
  <2>1. e1.ifu
    BY <1>5 DEF ifu_icb_rsp_valid, ifu2itcm_icb_rsp_valid
  <2>2. ram_dout = LaneOf(WantAddr)
    BY <1>3, <2>1 DEF BusInv
  <2>3. LaneOf(WantAddr) \in Lane /\ LaneOf(WantAddr) \notin ErrLanes
    BY <1>2, <1>3, <1>5, LaneFacts
  <2>4. \A k : rsp_rdata(k) = LaneOf(WantAddr) + k
    BY <1>5, <2>2, <2>3, Rdata
  <2>5. ~ifu_icb_rsp_err
    BY <1>5 DEF ifu_icb_rsp_err
  <2> QED
    BY <1>1, <1>2, <1>3, <1>5, <2>2, <2>3, <2>4, <2>5
<1>6. CASE icb_cmd2 = "biu"
  <2>1. biu.vld /\ biu # NoRead
    BY <1>6 DEF ifu_icb_rsp_valid, NoRead
  <2>2. biu.lane = LaneOf(WantAddr)
    BY <1>3, <2>1
  <2>3. \A k : rsp_rdata(k) = LaneOf(WantAddr) + k
    BY <1>6, <2>1, <2>2, Rdata
  <2>4. ifu_icb_rsp_err <=> LaneOf(WantAddr) \in ErrLanes
    BY <1>6, <2>1, <2>2 DEF ifu_icb_rsp_err
  <2> QED
    BY <1>1, <1>2, <1>3, <1>6, <2>3, <2>4
<1> QED
  BY <1>4, <1>5, <1>6

\* An answer is the whole word at the PC.
LEMMA AnswerWhole ==
    ASSUME FetchTypeOK, OutInv, ResetInv, BusInv, UopInv, LaneInv, ~dly_flush, ifu_rsp_valid
    PROVE  WholeWord(ifu_rsp_instr, pc_r)
<1>1. CASE rsp_buf # <<>>
  BY <1>1 DEF LaneInv, ifu_rsp_instr
<1>2. CASE rsp_buf = <<>>
  <2>1. i_ifu_rsp_hsked /\ ifu_rsp_instr = i_ifu_rsp_instr
    BY <1>2, Answers DEF ifu_rsp_instr
  <2>2. icb_state \in {"1ST", "2ND"} /\ out_flag
    BY <2>1, Answers DEF OutInv
  <2>3. req_need_2uop \/ req_same_cross_holdup <=> Cross(pc_r)
    BY <2>2 DEF ResetInv, UopInv
  <2>p. pc_r \in PC /\ pc_r \in Int
    BY FetchAssumption, Ift2icbAssumption, ItcmAssumption DEF FetchTypeOK
  \* a word in one lane
  <2>4. ASSUME ~rsp_instr_sel_leftover, ~Cross(pc_r), icb_cmd2 \in {"itcm", "biu"},
               icb_cmd2 = "itcm" <=> in_itcm(pc_r),
               \A k : rsp_rdata(k) = LaneOf(pc_r) + k,
               ifu_icb_rsp_err <=> LaneOf(pc_r) \in ErrLanes,
               icb_addr_2_1 = pc_r % 4
        PROVE  WholeWord(i_ifu_rsp_instr, pc_r)
    <3> DEFINE off == IF icb_cmd2 = "itcm" THEN icb_addr_2_1 ELSE 0
    <3>1. i_ifu_rsp_instr = [lo |-> IF off = 3 THEN Zero ELSE rsp_rdata(off),
                             hi |-> IF off = 3 THEN Zero ELSE rsp_rdata(off + 1),
                             err |-> ifu_icb_rsp_err]
      BY <2>4 DEF i_ifu_rsp_instr
    <3>2. /\ in_itcm(pc_r) => pc_r = LaneOf(pc_r) + (pc_r % 4) /\ pc_r % 4 # 3
          /\ ~in_itcm(pc_r) => pc_r = LaneOf(pc_r) + 0
          /\ Plus(pc_r, 1) = pc_r + 1 /\ pc_r % 4 \in 0 .. 3 /\ LaneOf(pc_r) \in Int
          /\ TouchedLanes(pc_r) = {LaneOf(pc_r)}
      BY <2>4, <2>p, LaneFacts
    <3>3. off # 3 /\ LaneOf(pc_r) + off = pc_r /\ off \in Int
      BY <2>4, <3>2
    <3>4. LaneOf(pc_r) + (off + 1) = pc_r + 1
      BY <3>2, <3>3
    <3> HIDE DEF off
    <3>5. rsp_rdata(off) = pc_r /\ rsp_rdata(off + 1) = Plus(pc_r, 1)
      BY <2>4, <3>2, <3>3, <3>4
    <3>6. ifu_icb_rsp_err <=> (TouchedLanes(pc_r) \cap ErrLanes # {})
      BY <2>4, <3>2
    <3> QED
      BY <3>1, <3>3, <3>5, <3>6 DEF WholeWord
  \* a word in two lanes
  <2>5. ASSUME rsp_instr_sel_leftover, Cross(pc_r), ifu_icb_rsp_valid,
               WantAddr = Plus(pc_r, 1), leftover = pc_r,
               leftover_err <=> LaneOf(pc_r) \in ErrLanes
        PROVE  WholeWord(i_ifu_rsp_instr, pc_r)
    <3>1. i_ifu_rsp_instr = [lo |-> leftover, hi |-> rsp_rdata(0),
                             err |-> ifu_icb_rsp_err \/ leftover_err]
      BY <2>5 DEF i_ifu_rsp_instr
    <3>2. /\ rsp_rdata(0) = LaneOf(Plus(pc_r, 1)) + 0
          /\ ifu_icb_rsp_err <=> LaneOf(Plus(pc_r, 1)) \in ErrLanes
      BY <2>5, OnBus
    <3>3. /\ LaneOf(Plus(pc_r, 1)) = Plus(pc_r, 1)
          /\ TouchedLanes(pc_r) = {LaneOf(pc_r), LaneOf(Plus(pc_r, 1))}
      BY <2>5, <2>p, LaneFacts
    <3>4. Plus(pc_r, 1) + 0 = Plus(pc_r, 1)
      BY <2>p, PlusFacts, FetchAssumption
    <3>5. ifu_icb_rsp_err \/ leftover_err <=> (TouchedLanes(pc_r) \cap ErrLanes # {})
      BY <2>5, <3>2, <3>3
    <3> QED
      BY <2>5, <3>1, <3>2, <3>3, <3>4, <3>5 DEF WholeWord
  <2>6. CASE icb_state = "1ST" /\ req_need_0uop
    <3>1. ~req_need_2uop /\ ~req_same_cross_holdup /\ ~rsp_instr_sel_leftover
      BY <2>6 DEF UopInv, rsp_instr_sel_leftover
    <3>2. /\ in_itcm(pc_r) /\ icb_cmd2 = "itcm" /\ ram_dout = LaneOf(pc_r)
          /\ icb_addr_2_1 = pc_r % 4
      BY <2>6, <3>1 DEF LaneInv
    <3>3. LaneOf(pc_r) \in Lane /\ LaneOf(pc_r) \notin ErrLanes
      BY <2>p, <3>2, LaneFacts
    <3>4. (\A k : rsp_rdata(k) = LaneOf(pc_r) + k) /\ ~ifu_icb_rsp_err
      BY <3>2, <3>3, Rdata DEF ifu_icb_rsp_err
    <3> QED
      BY <2>1, <2>3, <2>4, <3>1, <3>2, <3>3, <3>4
  <2>7. CASE icb_state = "1ST" /\ ~req_need_0uop /\ ~req_same_cross_holdup
    <3>1. ~req_need_2uop /\ ifu_icb_rsp_valid /\ ~rsp_instr_sel_leftover /\ WantAddr = pc_r
      BY <2>1, <2>7, Answers DEF rsp_instr_sel_leftover, WantAddr
    <3>2. /\ \A k : rsp_rdata(k) = LaneOf(pc_r) + k
          /\ ifu_icb_rsp_err <=> LaneOf(pc_r) \in ErrLanes
          /\ icb_cmd2 = "itcm" <=> in_itcm(pc_r)
          /\ icb_cmd2 = "biu" <=> ~in_itcm(pc_r)
      BY <3>1, OnBus
    <3>3. icb_addr_2_1 = pc_r % 4
      BY <2>7, <3>1 DEF LaneInv
    <3> QED
      BY <2>1, <2>3, <2>4, <2>7, <3>1, <3>2, <3>3
  <2>8. CASE icb_state = "2ND" \/ (icb_state = "1ST" /\ ~req_need_0uop /\ req_same_cross_holdup)
    <3>1. rsp_instr_sel_leftover /\ ifu_icb_rsp_valid /\ WantAddr = Plus(pc_r, 1)
      BY <2>1, <2>8, Answers DEF rsp_instr_sel_leftover, WantAddr
    <3>2. Cross(pc_r)
      BY <2>3, <2>8 DEF UopInv
    <3>3. leftover = pc_r /\ (leftover_err <=> LaneOf(pc_r) \in ErrLanes)
      BY <2>8 DEF LaneInv
    <3> QED
      BY <2>1, <2>5, <3>1, <3>2, <3>3
  <2> QED
    BY <2>2, <2>6, <2>7, <2>8
<1> QED
  BY <1>1, <1>2

\* The request that goes out with an answer is that of the next instruction.
LEMMA ReqFollows ==
    ASSUME FetchTypeOK, OutInv, ResetInv, BusInv, UopInv, LaneInv, NEW e, Inputs(e),
           IrSet(e)
    PROVE  /\ Req(e).pc = Succ(pc_r) /\ Dec(e) = prog[pc_r]
           /\ WholeWord(ifu_rsp_instr, pc_r) /\ req_pc = pc_r
<1>1. RspH(e) /\ ~Cancel(e) /\ ifu_rsp_valid /\ ~dly_flush
  BY Wires DEF Cancel
<1>2. WholeWord(ifu_rsp_instr, pc_r)
  BY <1>1, AnswerWhole
<1>3. Dec(e) = prog[pc_r]
  BY <1>2, DecExact DEF FetchTypeOK
<1>4. out_flag /\ ~reset_flag /\ ~reset_req /\ req_pc = pc_r
  BY <1>1, Answers DEF OutInv, ResetInv
<1>5. Req(e).pc = Succ(pc_r)
  BY <1>1, <1>3, <1>4, ReqPc DEF Succ
<1> QED
  BY <1>2, <1>3, <1>4, <1>5

\* Out of reset nothing is on the wires, and the first fetch goes to the vector.
LEMMA DecReset ==
    ASSUME icb_state = "IDLE", rsp_buf = <<>>, icb_cmd2 = "none", NEW e
    PROVE  Dec(e).ofst = 0
<1>1. ~rsp_instr_sel_leftover
  BY DEF rsp_instr_sel_leftover
<1>2. rsp_rdata(0) = Zero
  BY Rdata
<1>3. ifu_rsp_instr.lo = Zero
  BY <1>1, <1>2 DEF ifu_rsp_instr, i_ifu_rsp_instr
<1> QED
  BY <1>3 DEF Dec, minidec

\* When a request is taken, a lane the ITCM still holds is that of the last
\* access.
LEMMA Held ==
    ASSUME FetchTypeOK, OutInv, ResetInv, BusInv, UopInv, LaneInv, HoldInv,
           Free, ifu_holdup, ~dly_flush, in_itcm(LastAddr(pc_r))
    PROVE  ram_dout = LaneOf(LastAddr(pc_r)) /\ icb_cmd2 = "itcm"
<1>1. CASE Settled
  BY <1>1 DEF HoldInv
<1>2. CASE ~Settled
  <2>1. /\ icb_state # "IDLE" /\ i_ifu_rsp_hsked /\ ~(icb_state = "1ST" /\ req_need_0uop)
        /\ ~(e1.ifu /\ (icb_state = "2ND" \/ ~req_need_2uop))
    BY <1>2 DEF Settled, Free
  <2>2. ifu_icb_rsp_valid /\ (icb_state = "2ND" \/ (icb_state = "1ST" /\ ~req_need_2uop))
    BY <2>1, Answers
  <2>3. icb_cmd2 = "biu"
    BY <2>1, <2>2 DEF ifu_icb_rsp_valid, ifu2itcm_icb_rsp_valid
  <2>4. ~in_itcm(WantAddr)
    BY <2>2, <2>3, OnBus
  <2>5. req_need_2uop \/ req_same_cross_holdup <=> Cross(pc_r)
    BY <2>1 DEF OutInv, ResetInv, UopInv
  <2>6. WantAddr = LastAddr(pc_r)
    BY <2>2, <2>5 DEF WantAddr, LastAddr, UopInv
  <2> QED
    BY <2>4, <2>6
<1> QED
  BY <1>1, <1>2

\* A request served from the held lane, wholly or in its first half, is right
\* about what the ITCM holds.
LEMMA HeldForRequest ==
    ASSUME FetchTypeOK, OutInv, ResetInv, BusInv, UopInv, LaneInv, HoldInv, NEW e, Inputs(e),
           ReqH(e), ifu_req_lane_same(Req(e)), ifu_req_lane_holdup(Req(e))
    PROVE  /\ ram_dout = LaneOf(Req(e).pc) /\ icb_cmd2 = "itcm" /\ in_itcm(Req(e).pc)
           /\ ~Cancel(e) /\ ~reset_flag /\ ~reset_req
<1>1. Req(e).seq /\ in_itcm(Req(e).pc) /\ ifu_holdup
      /\ (ifu_req_lane_begin(Req(e)) => req_lane_cross)
  BY DEF ifu_req_lane_same, ifu_req_lane_holdup
<1>2. ~Cancel(e) /\ ~reset_req /\ Dec(e).ofst = 0 /\ ~dly_flush
  BY <1>1, ReqPc DEF Cancel
<1>3. ~reset_flag
  BY <1>2, Wires DEF ResetInv
<1>4. PICK n \in {1, 2} : Req(e).pc = Plus(pc_r, n)
  BY <1>2, ReqPc
<1>5. pc_r \in PC
  BY DEF FetchTypeOK
<1>6. ifu_req_lane_begin(Req(e)) <=> Req(e).pc % 4 = 0
  BY <1>1 DEF ifu_req_lane_begin, LaneSize
<1>7. req_lane_cross <=> Cross(pc_r)
  BY <1>2, <1>3 DEF UopInv
<1>8. Plus(pc_r, n) % 4 = 0 => Cross(pc_r)
  BY <1>1, <1>4, <1>6, <1>7
<1>9. in_itcm(LastAddr(pc_r)) /\ LaneOf(LastAddr(pc_r)) = LaneOf(Req(e).pc)
  BY <1>1, <1>4, <1>5, <1>8, SeqLane
<1>10. Free
  BY Commands
<1> QED
  BY <1>1, <1>2, <1>3, <1>9, <1>10, Held

-----------------------------------------------------------------------------
(* A cycle in which the IFU's clock runs.                                  *)

Clocked(e) ==
    /\ IfetchClk(In(e))
    /\ Ift2icbClk(e, Req(e), ReqValid(e), ifu_rsp_ready(In(e)))
    /\ HistoryClk(In(e))
    /\ ItcmClk(e, Cmd(e), ifu_icb_rsp_ready)
    /\ BiuClk(e, Req(e), ReqValid(e))
    /\ WfiClk(e)

\* Reset ends with the first request taken.
LEMMA ResetEnds ==
    ASSUME FetchInv, NEW e, Inputs(e), Clocked(e)
    PROVE  /\ ~reset_flag'
           /\ ReqH(e) => ~reset_req'
           /\ ~ReqH(e) /\ ~reset_req' => ~reset_flag /\ ~reset_req
           /\ reset_req' => /\ reset_flag \/ reset_req
                            /\ ~ReqH(e) /\ ~Cancel(e) /\ ~out_flag /\ icb_state = "IDLE"
           /\ out_flag => ~reset_flag /\ ~reset_req
<1>1. ~reset_flag' /\ (reset_req' <=> IF reset_req THEN ~ReqH(e) ELSE reset_flag)
  BY IfetchEdge DEF Clocked
<1>2. reset_flag \/ reset_req => ~out_flag /\ ~dly_flush /\ ~e.flush
  BY DEF FetchInv, ResetInv, Inputs
<1>3. ReqH(e) /\ ~reset_req => ~reset_flag
  BY <1>2, Wires DEF Cancel
<1>4. ~out_flag => icb_state = "IDLE"
  BY DEF FetchInv, OutInv
<1> QED
  BY <1>1, <1>2, <1>3, <1>4 DEF Cancel

\* What is on the buses across an edge.
LEMMA BusStep ==
    ASSUME FetchInv, NEW e, Inputs(e), Clocked(e), ITCM_OUTS_NUM = 1
    PROVE  BusInv' /\ ifu_holdup' \in BOOLEAN
<1> USE DEF FetchInv
<1>i. FetchTypeOK /\ OutInv /\ BusInv /\ UopInv
  OBVIOUS
<1> HIDE DEF FetchInv
<1>c. /\ Ift2icbClk(e, Req(e), ReqValid(e), ifu_rsp_ready(In(e)))
      /\ ItcmClk(e, Cmd(e), ifu_icb_rsp_ready) /\ BiuClk(e, Req(e), ReqValid(e))
  BY DEF Clocked
<1>1. /\ InFlight' <=> Acc(e) \/ (InFlight /\ ~ifu_icb_rsp_valid)
      /\ Acc(e) => ~InFlight \/ ifu_icb_rsp_valid
  BY <1>i, <1>c, FlightEdge
<1>2. icb_cmd2' = IF Acc(e) THEN (IF in_itcm(CmdAddr(e)) THEN "itcm" ELSE "biu")
                  ELSE icb_cmd2
  BY <1>i, <1>c, LaneEdge
<1>3. /\ Cmd(e) \in ItcmCmd /\ CmdAddr(e) \in PC
      /\ Cmd(e) # NoCmd /\ ifu2itcm_icb_cmd_ready(e) <=> Acc(e) /\ in_itcm(CmdAddr(e))
      /\ byp_cmd # NoCmd => Cmd(e) = NoCmd
  BY <1>i, Commands
<1>4. (e1.ifu => ifu_icb_rsp_ready) /\ ifu_icb_rsp_ready \in BOOLEAN /\ ifu_holdup \in BOOLEAN
  BY <1>i, Answers DEF FetchTypeOK
<1>5. /\ e1' \in ItcmCmd \cup {OtherCmd} /\ byp_cmd' \in ItcmCmd
      /\ ram_dout' \in Lane \cup {OtherLane} /\ ifu_holdup' \in BOOLEAN
      /\ arbt_outs' = IF e1' = OtherCmd THEN 1 ELSE 0
      /\ byp_cmd' # NoCmd => e1' = OtherCmd
      /\ e1'.ifu => ram_dout' = e1'.lane
      /\ e1'.ifu \/ byp_cmd'.ifu <=>
            (Cmd(e) # NoCmd /\ ifu2itcm_icb_cmd_ready(e)) \/ byp_cmd.ifu
      /\ ifu_holdup' => \/ /\ Cmd(e) # NoCmd /\ ifu2itcm_icb_cmd_ready(e)
                           /\ e1' = Cmd(e) /\ ram_dout' = Cmd(e).lane
                        \/ ifu_holdup /\ ram_dout' = ram_dout /\ ~e1'.ifu
  BY <1>i, <1>c, <1>3, <1>4, ItcmEdge
<1>6. e1'.ifu \/ byp_cmd'.ifu <=> InFlight' /\ icb_cmd2' = "itcm"
  <2>1. e1.ifu \/ byp_cmd.ifu <=> InFlight /\ icb_cmd2 = "itcm"
    BY <1>i DEF BusInv
  <2>2. ~(e1.ifu /\ byp_cmd.ifu)
    BY <1>i, CmdFacts DEF BusInv
  <2>3. icb_cmd2 = "itcm" => (ifu_icb_rsp_valid <=> e1.ifu)
    BY DEF ifu_icb_rsp_valid, ifu2itcm_icb_rsp_valid
  <2> QED
    BY <1>1, <1>2, <1>3, <1>5, <2>1, <2>2, <2>3
<1>7. biu' # NoRead <=> InFlight' /\ icb_cmd2' = "biu"
  <2>1. biu # NoRead <=> InFlight /\ icb_cmd2 = "biu"
    BY <1>i DEF BusInv
  <2>2. icb_cmd2 = "biu" => (ifu_icb_rsp_valid <=> biu.vld)
    BY DEF ifu_icb_rsp_valid
  <2>3. CASE Acc(e) /\ ~in_itcm(CmdAddr(e))
    <3>1. biu' \in [lane : {LaneOf(CmdAddr(e))}, vld : BOOLEAN]
      BY <1>i, <1>c, <2>3, BiuEdge
    <3>2. LaneOf(CmdAddr(e)) # Junk
      BY <1>3, LaneFacts
    <3>3. biu' # NoRead
      BY <3>1, <3>2 DEF NoRead
    <3> QED
      BY <1>1, <1>2, <2>3, <3>3
  <2>4. CASE ~(Acc(e) /\ ~in_itcm(CmdAddr(e))) /\ biu.vld
    <3>1. biu' = NoRead
      BY <1>i, <1>c, <2>4, BiuEdge
    <3>2. biu # NoRead
      BY <2>4 DEF NoRead
    <3> QED
      BY <1>1, <1>2, <2>1, <2>2, <2>4, <3>1, <3>2
  <2>5. CASE ~(Acc(e) /\ ~in_itcm(CmdAddr(e))) /\ ~biu.vld
    <3>1. biu' = biu \/ (biu # NoRead /\ biu' = [biu EXCEPT !.vld = TRUE])
      BY <1>i, <1>c, <2>5, BiuEdge
    <3>2. biu' # NoRead <=> biu # NoRead
      <4>1. biu # NoRead => biu \in [lane : BiuLane, vld : BOOLEAN]
        BY <1>i DEF BusInv
      <4>2. biu # NoRead => [biu EXCEPT !.vld = TRUE].vld = TRUE
        BY <4>1
      <4>3. NoRead.vld = FALSE
        BY DEF NoRead
      <4> QED
        BY <3>1, <4>2, <4>3
    <3>3. Acc(e) => ~(InFlight /\ icb_cmd2 = "biu")
      BY <1>1, <2>2, <2>5
    <3> QED
      BY <1>1, <1>2, <2>1, <2>2, <2>5, <3>2, <3>3
  <2> QED
    BY <2>3, <2>4, <2>5
<1>8. biu' \in {NoRead} \cup [lane : BiuLane, vld : BOOLEAN]
  <2>1. ~in_itcm(CmdAddr(e)) => LaneOf(CmdAddr(e)) \in BiuLane
    BY <1>3, LaneFacts
  <2>2. biu \in {NoRead} \cup [lane : BiuLane, vld : BOOLEAN]
    BY <1>i DEF BusInv
  <2>3. \/ ~in_itcm(CmdAddr(e)) /\ biu' \in [lane : {LaneOf(CmdAddr(e))}, vld : BOOLEAN]
        \/ biu' = NoRead \/ biu' = biu
        \/ biu # NoRead /\ biu' = [biu EXCEPT !.vld = TRUE]
    BY <1>i, <1>c, BiuEdge
  <2> QED
    BY <2>1, <2>2, <2>3
<1>9. InFlight' => icb_cmd2' # "none"
  <2>1. InFlight => icb_cmd2 # "none"
    BY <1>i DEF BusInv
  <2> QED
    BY <1>1, <1>2, <2>1
<1>10. ifu_holdup' => ram_dout' \in Lane
  <2>1. ifu_holdup => ram_dout \in Lane
    BY <1>i DEF BusInv
  <2>2. Cmd(e) # NoCmd => Cmd(e).lane \in Lane
    BY <1>3, CmdFacts
  <2> QED
    BY <1>5, <2>1, <2>2
<1>11. /\ e1' \in {NoCmd, OtherCmd} \cup {IfuCmd(l) : l \in Lane}
       /\ byp_cmd' \in {NoCmd} \cup {IfuCmd(l) : l \in Lane}
  BY <1>5 DEF ItcmCmd
<1> QED
  BY <1>5, <1>6, <1>7, <1>8, <1>9, <1>10, <1>11 DEF BusInv

\* Every register keeps its type.
LEMMA TypeStep ==
    ASSUME FetchInv, NEW e, Inputs(e), Clocked(e), ITCM_OUTS_NUM = 1
    PROVE  FetchTypeOK'
<1>i. FetchTypeOK /\ OutInv /\ BusInv /\ UopInv
  BY DEF FetchInv
<1>c. /\ IfetchClk(In(e)) /\ HistoryClk(In(e)) /\ WfiClk(e)
      /\ Ift2icbClk(e, Req(e), ReqValid(e), ifu_rsp_ready(In(e)))
  BY DEF Clocked
<1>1. /\ reset_flag' \in BOOLEAN /\ reset_req' \in BOOLEAN /\ halt_ack' \in BOOLEAN
      /\ dly_flush' \in BOOLEAN /\ ir_valid' \in BOOLEAN /\ ir_pc_vld' \in BOOLEAN
      /\ out_flag' \in BOOLEAN /\ pc_newpend' \in BOOLEAN
  BY <1>i, <1>c DEF IfetchClk, dly_flush_nxt, FetchTypeOK
<1>2. slipped' \in BOOLEAN
  BY <1>c DEF HistoryClk
<1>3. wfi_halt_req' \in BOOLEAN /\ core_wfi' \in BOOLEAN
  <2>1. wfi_halt_req' \in IF wfi_halt_req THEN {~e.wake} ELSE {FALSE, e.o_hsked}
    BY <1>c DEF WfiClk
  <2>2. e.wake \in BOOLEAN /\ e.o_hsked \in BOOLEAN
    BY DEF Inputs
  <2> QED
    BY <1>c, <2>1, <2>2 DEF WfiClk
<1>4. pc_r' \in PC /\ req_pc' \in PC
  <2>1. Req(e).pc \in PC
    BY <1>i, ReqPcType
  <2>2. /\ pc_r' = IF ReqH(e) \/ e.flush THEN Req(e).pc ELSE pc_r
        /\ req_pc' = IF ReqH(e) THEN Req(e).pc ELSE req_pc
    BY <1>c, IfetchEdge
  <2> QED
    BY <1>i, <2>1, <2>2 DEF FetchTypeOK
<1>5. /\ Free => icb_state' = IF ReqH(e) THEN "1ST" ELSE "IDLE"
      /\ Second => icb_state' = IF Acc(e) THEN "2ND" ELSE "WAIT2ND"
      /\ ~Free /\ ~Second => icb_state' = icb_state
      /\ ReqH(e) => /\ req_same_cross_holdup' = same_cross_holdup(Req(e))
                    /\ req_need_2uop' = need_2uop(Req(e))
                    /\ req_need_0uop' = need_0uop(Req(e))
                    /\ req_lane_cross' = ifu_req_lane_cross(Req(e))
      /\ ~ReqH(e) => /\ req_same_cross_holdup' = req_same_cross_holdup
                     /\ req_need_2uop' = req_need_2uop
                     /\ req_need_0uop' = req_need_0uop
                     /\ req_lane_cross' = req_lane_cross
      /\ icb_cmd2' = IF Acc(e) THEN (IF in_itcm(CmdAddr(e)) THEN "itcm" ELSE "biu")
                     ELSE icb_cmd2
      /\ icb_addr_2_1' = IF Acc(e) \/ ReqH(e) THEN CmdAddr(e) % 4 ELSE icb_addr_2_1
      /\ leftover' \in {leftover, rsp_rdata(IF icb_cmd2 = "itcm" THEN 3 ELSE 1)}
      /\ RspH(e) \/ ~ifu_rsp_valid => rsp_buf' = <<>>
      /\ ifu_rsp_valid /\ ~RspH(e) => rsp_buf' # <<>> /\ rsp_buf'[1] = ifu_rsp_instr
  BY <1>i, <1>c, LaneEdge
<1>6. icb_state' \in {"IDLE", "1ST", "WAIT2ND", "2ND"}
  BY <1>i, <1>5 DEF FetchTypeOK
<1>7. /\ req_same_cross_holdup' \in BOOLEAN /\ req_need_2uop' \in BOOLEAN
      /\ req_need_0uop' \in BOOLEAN /\ req_lane_cross' \in BOOLEAN
  <2>1. /\ same_cross_holdup(Req(e)) \in BOOLEAN /\ need_2uop(Req(e)) \in BOOLEAN
        /\ need_0uop(Req(e)) \in BOOLEAN /\ ifu_req_lane_cross(Req(e)) \in BOOLEAN
    BY DEF same_cross_holdup, need_2uop, need_0uop, ifu_req_lane_cross
  <2> QED
    BY <1>i, <1>5, <2>1 DEF FetchTypeOK
<1>8. icb_cmd2' \in {"itcm", "biu", "none"} /\ icb_addr_2_1' \in 0 .. 3
  <2>1. CmdAddr(e) \in Int
    BY <1>i, Commands, FetchAssumption, Ift2icbAssumption, ItcmAssumption
  <2>2. CmdAddr(e) % 4 \in 0 .. 3
    BY <2>1
  <2> QED
    BY <1>i, <1>5, <2>2 DEF FetchTypeOK
<1>9. leftover' \in Halfword
  <2>1. rsp_rdata(IF icb_cmd2 = "itcm" THEN 3 ELSE 1) \in Halfword
    <3>1. CASE icb_cmd2 = "itcm"
      BY <1>i, <3>1, RdataType
    <3>2. CASE icb_cmd2 # "itcm"
      BY <1>i, <3>2, RdataType
    <3> QED
      BY <3>1, <3>2
  <2> QED
    BY <1>i, <1>5, <2>1 DEF FetchTypeOK
<1>10. rsp_buf' # <<>> =>
          rsp_buf'[1].lo \in Halfword /\ DOMAIN rsp_buf'[1] = {"lo", "hi", "err"}
  <2>1. ifu_rsp_instr.lo \in Halfword /\ DOMAIN ifu_rsp_instr = {"lo", "hi", "err"}
    BY <1>i, AnswerType
  <2> QED
    BY <1>5, <2>1
<1>11. ifu_holdup' \in BOOLEAN
  BY BusStep
<1> QED
  BY <1>1, <1>2, <1>3, <1>4, <1>6, <1>7, <1>8, <1>9, <1>10, <1>11 DEF FetchTypeOK, Halfword

\* The outstanding request across an edge.
LEMMA OutStep ==
    ASSUME FetchInv, NEW e, Inputs(e), Clocked(e)
    PROVE  OutInv'
<1>i. FetchTypeOK /\ OutInv /\ BusInv /\ UopInv
  BY DEF FetchInv
<1>c. IfetchClk(In(e)) /\ Ift2icbClk(e, Req(e), ReqValid(e), ifu_rsp_ready(In(e)))
  BY DEF Clocked
<1>1. /\ out_flag <=> icb_state # "IDLE" \/ rsp_buf # <<>>
      /\ rsp_buf # <<>> => icb_state = "IDLE"
      /\ out_flag /\ ~pc_newpend => ir_pc_vld /\ ~ir_valid /\ ifu_pc_r = pc_r
      /\ dly_flush => pc_newpend /\ ~ir_valid
      /\ ~reset_flag /\ ~reset_req /\ ~dly_flush => req_pc = pc_r
  BY <1>i DEF OutInv
<1>2. /\ RspH(e) <=> ifu_rsp_valid /\ ifu_rsp_ready(In(e))
      /\ RspH(e) => Cancel(e) \/ ~ir_valid \/ IrClr(e)
      /\ IrSet(e) <=> RspH(e) /\ ~Cancel(e)
      /\ PcSet(e) <=> pc_newpend /\ (~ir_valid \/ IrClr(e)) /\ ~Cancel(e)
  BY Wires
<1>3. /\ ReqH(e) => Free
      /\ ReqH(e) => ~out_flag \/ RspH(e)
  BY <1>i, Commands
<1>4. ifu_rsp_valid <=> rsp_buf # <<>> \/ i_ifu_rsp_hsked
  BY <1>i, Answers
<1>5. /\ dly_flush' <=> ~ReqH(e) /\ Cancel(e)
      /\ ir_valid' <=> IrSet(e) \/ (ir_valid /\ ~IrClr(e))
      /\ ir_pc_vld' <=> PcSet(e) \/ (ir_pc_vld /\ ~IrClr(e))
      /\ ifu_pc_r' = IF PcSet(e) THEN pc_r ELSE ifu_pc_r
      /\ pc_r' = IF ReqH(e) \/ e.flush THEN Req(e).pc ELSE pc_r
      /\ out_flag' <=> ReqH(e) \/ (out_flag /\ ~RspH(e))
      /\ pc_newpend' <=> ReqH(e) \/ e.flush \/ (pc_newpend /\ ~PcSet(e))
      /\ req_pc' = IF ReqH(e) THEN Req(e).pc ELSE req_pc
  BY <1>c, IfetchEdge
<1>6. /\ Free => icb_state' = IF ReqH(e) THEN "1ST" ELSE "IDLE"
      /\ Second => icb_state' = IF Acc(e) THEN "2ND" ELSE "WAIT2ND"
      /\ ~Free /\ ~Second => icb_state' = icb_state
      /\ RspH(e) \/ ~ifu_rsp_valid => rsp_buf' = <<>>
      /\ ifu_rsp_valid /\ ~RspH(e) => rsp_buf' # <<>>
  BY <1>i, <1>c, LaneEdge
<1>7. Free <=> icb_state = "IDLE" \/ i_ifu_rsp_hsked
  BY DEF Free
<1>8. e.o_hsked => ir_valid /\ ~e.flush
  BY DEF Inputs
<1>9. /\ out_flag' <=> icb_state' # "IDLE" \/ rsp_buf' # <<>>
      /\ rsp_buf' # <<>> => icb_state' = "IDLE"
  <2>1. i_ifu_rsp_hsked => icb_state # "IDLE"
    BY <1>i, Answers
  <2>2. CASE ~Free
    <3>1. ~ReqH(e) /\ icb_state # "IDLE" /\ ~ifu_rsp_valid /\ ~RspH(e) /\ out_flag
      BY <1>1, <1>2, <1>3, <1>4, <1>7, <2>2
    <3> QED
      BY <1>5, <1>6, <2>2, <3>1
  <2>3. CASE Free /\ ReqH(e)
    <3>1. rsp_buf' = <<>>
      BY <1>1, <1>3, <1>4, <1>6, <2>1, <2>3
    <3> QED
      BY <1>5, <1>6, <2>3, <3>1
  <2>4. CASE Free /\ ~ReqH(e)
    <3>1. ifu_rsp_valid <=> out_flag
      BY <1>1, <1>4, <1>7, <2>1, <2>4
    <3> QED
      BY <1>2, <1>5, <1>6, <2>4, <3>1
  <2> QED
    BY <2>2, <2>3, <2>4
<1>10. out_flag' /\ ~pc_newpend' => ir_pc_vld' /\ ~ir_valid' /\ ifu_pc_r' = pc_r'
  BY <1>1, <1>2, <1>5, <1>8 DEF IrClr, Cancel
<1>11. dly_flush' => pc_newpend' /\ ~ir_valid'
  BY <1>1, <1>2, <1>5 DEF IrClr, Cancel
<1>12. ~reset_flag' /\ ~reset_req' /\ ~dly_flush' => req_pc' = pc_r'
  <2>1. ~ReqH(e) /\ ~reset_req' => ~reset_flag /\ ~reset_req
    BY ResetEnds
  <2> QED
    BY <1>1, <1>5, <2>1 DEF Cancel
<1> QED
  BY <1>9, <1>10, <1>11, <1>12 DEF OutInv

\* Reset across an edge.
LEMMA ResetStep ==
    ASSUME FetchInv, NEW e, Inputs(e), Clocked(e)
    PROVE  ResetInv'
<1> SUFFICES ASSUME reset_flag' \/ reset_req'
             PROVE  /\ ~out_flag' /\ ~dly_flush' /\ ~ir_valid' /\ ~wfi_halt_req'
                    /\ pc_r' = pc_rtvec /\ npc' = pc_rtvec /\ ~slipped' /\ icb_cmd2' = "none"
                    /\ ~pc_newpend'
  BY DEF ResetInv
<1>i. FetchTypeOK /\ OutInv /\ BusInv /\ UopInv
  BY DEF FetchInv
<1>1. /\ reset_flag \/ reset_req
      /\ ~ReqH(e) /\ ~Cancel(e) /\ ~out_flag /\ icb_state = "IDLE"
  BY ResetEnds
<1>2. /\ ~ir_valid /\ ~wfi_halt_req /\ pc_r = pc_rtvec /\ npc = pc_rtvec
      /\ ~slipped /\ icb_cmd2 = "none" /\ ~pc_newpend
  BY <1>1 DEF FetchInv, ResetInv
<1>3. rsp_buf = <<>>
  BY <1>i, <1>1 DEF OutInv
<1>4. ~ifu_rsp_valid
  BY <1>i, <1>1, <1>3, Answers
<1>5. ~RspH(e) /\ ~IrSet(e) /\ ~e.flush /\ ~PcSet(e)
  BY <1>1, <1>2, <1>4, Wires DEF Cancel
<1>6. ~Acc(e)
  BY <1>i, <1>1, Commands DEF Free
<1>7. icb_cmd2' = icb_cmd2
  BY <1>i, <1>6, LaneEdge DEF Clocked
<1>8. npc' = npc /\ (slipped' <=> slipped)
  BY <1>5, HistoryEdge DEF Clocked
<1>9. /\ pc_r' = pc_r /\ ~out_flag' /\ ~dly_flush' /\ ~ir_valid' /\ ~pc_newpend'
  BY <1>1, <1>2, <1>5, IfetchEdge DEF Clocked
<1>10. ~wfi_halt_req'
  BY <1>2 DEF Clocked, WfiClk, Inputs
<1> QED
  BY <1>2, <1>7, <1>8, <1>9, <1>10

\* What the EXU's halt request does.
LEMMA HaltReq ==
    ASSUME NEW e, Inputs(e), WfiClk(e)
    PROVE  /\ wfi_halt_req' => \/ wfi_halt_req /\ ~e.wake /\ ~e.flush
                               \/ ~wfi_halt_req /\ ir_valid /\ ~e.flush
           /\ wfi_halt_req /\ ~e.wake => wfi_halt_req'
           /\ core_wfi' => ~e.wake /\ (core_wfi \/ (wfi_halt_req /\ halt_ack))
<1>1. wfi_halt_req' \in IF wfi_halt_req THEN {~e.wake} ELSE {FALSE, e.o_hsked}
  BY DEF WfiClk
<1>2. /\ e.wake \in BOOLEAN /\ e.o_hsked \in BOOLEAN
      /\ e.o_hsked => ir_valid /\ ~wfi_halt_req /\ ~e.flush
      /\ e.flush => (wfi_halt_req => e.wake)
  BY DEF Inputs
<1>3. wfi_halt_req => wfi_halt_req' = ~e.wake
  BY <1>1
<1>4. ~wfi_halt_req => wfi_halt_req' = FALSE \/ wfi_halt_req' = e.o_hsked
  BY <1>1
<1>5. core_wfi' => ~e.wake /\ (core_wfi \/ (wfi_halt_req /\ halt_ack))
  BY DEF WfiClk, ifu_halt_req
<1> QED
  BY <1>2, <1>3, <1>4, <1>5

\* The halt handshake across an edge.
LEMMA HaltStep ==
    ASSUME FetchInv, NEW e, Inputs(e), Clocked(e), clk_core_ifu_on(e)
    PROVE  HaltInv'
<1>i. FetchTypeOK /\ OutInv /\ BusInv /\ UopInv /\ HaltInv /\ ResetInv
  BY DEF FetchInv
<1>c. IfetchClk(In(e)) /\ Ift2icbClk(e, Req(e), ReqValid(e), ifu_rsp_ready(In(e))) /\ WfiClk(e)
  BY DEF Clocked
<1>1. /\ wfi_halt_req' => \/ wfi_halt_req /\ ~e.wake /\ ~e.flush
                          \/ ~wfi_halt_req /\ ir_valid /\ ~e.flush
      /\ wfi_halt_req /\ ~e.wake => wfi_halt_req'
      /\ core_wfi' => ~e.wake /\ (core_wfi \/ (wfi_halt_req /\ halt_ack))
  BY <1>c, HaltReq
<1>2. /\ halt_ack' <=> /\ wfi_halt_req /\ ~e.wake
                       /\ halt_ack \/ ~out_flag \/ ifu_rsp_valid
      /\ dly_flush' <=> ~ReqH(e) /\ Cancel(e)
  BY <1>c, IfetchEdge
<1>3. /\ wfi_halt_req => ~dly_flush
      /\ halt_ack => wfi_halt_req /\ icb_state = "IDLE"
      /\ dly_flush => ~ir_valid
      /\ wfi_halt_req => ~reset_flag /\ ~reset_req
      /\ ~out_flag => icb_state = "IDLE"
      /\ rsp_buf # <<>> => icb_state = "IDLE"
  BY <1>i DEF HaltInv, OutInv, ResetInv
<1>4. wfi_halt_req' => ~dly_flush'
  BY <1>1, <1>2, <1>3 DEF Cancel
<1>5. halt_ack' => wfi_halt_req' /\ icb_state' = "IDLE"
  <2> SUFFICES ASSUME halt_ack' PROVE wfi_halt_req' /\ icb_state' = "IDLE"
    OBVIOUS
  <2>1. wfi_halt_req /\ ~e.wake /\ wfi_halt_req' /\ ~Cancel(e) /\ ~reset_req
    BY <1>1, <1>2, <1>3 DEF Cancel
  <2>2. ~ReqH(e)
    BY <2>1, Wires
  <2>3. Free
    BY <1>i, <1>2, <1>3, Answers DEF Free
  <2>4. icb_state' = "IDLE"
    BY <1>i, <1>c, <2>2, <2>3, LaneEdge
  <2> QED
    BY <2>1, <2>4
<1>6. core_wfi' => halt_ack'
  BY <1>1, <1>2 DEF clk_core_ifu_on
<1> QED
  BY <1>4, <1>5, <1>6 DEF HaltInv

\* The next instruction's address across an edge.
LEMMA NextStep ==
    ASSUME FetchInv, NEW e, Inputs(e), Clocked(e)
    PROVE  NextInv'
<1>i. /\ FetchTypeOK /\ OutInv /\ ResetInv /\ BusInv /\ UopInv /\ LaneInv
  BY DEF FetchInv
<1>c. IfetchClk(In(e)) /\ HistoryClk(In(e))
  BY DEF Clocked
<1>1. /\ npc \in PC
      /\ dly_flush => npc = pc_r
      /\ ~slipped /\ ~out_flag => dly_flush \/ reset_flag \/ reset_req
      /\ slipped \/ (out_flag /\ ~dly_flush => req_pc = npc)
  BY DEF FetchInv, NextInv, FetchFollows, FetchFollowsProgram
<1>2. /\ npc' = IF e.flush THEN e.flush_pc
                ELSE IF IrSet(e) THEN Succ(req_pc) ELSE npc
      /\ slipped' <=> ~e.flush /\ (slipped \/ (IrSet(e) /\ ~ReqH(e)))
  BY <1>c, HistoryEdge
<1>3. /\ dly_flush' <=> ~ReqH(e) /\ Cancel(e)
      /\ pc_r' = IF ReqH(e) \/ e.flush THEN Req(e).pc ELSE pc_r
      /\ out_flag' <=> ReqH(e) \/ (out_flag /\ ~RspH(e))
      /\ req_pc' = IF ReqH(e) THEN Req(e).pc ELSE req_pc
      /\ reset_req' <=> IF reset_req THEN ~ReqH(e) ELSE reset_flag
  BY <1>c, IfetchEdge
<1>4. IrSet(e) <=> RspH(e) /\ ~Cancel(e)
  BY Wires
<1>5. IrSet(e) => Req(e).pc = Succ(req_pc)
  BY <1>i, ReqFollows
<1>6. Req(e).pc \in PC /\ e.flush_pc \in PC
  BY <1>i, ReqPcType DEF Inputs
<1>7. npc' \in PC
  BY <1>1, <1>2, <1>5, <1>6
<1>8. e.flush => Req(e).pc = e.flush_pc
  BY ReqPc
<1>9. ~e.flush /\ dly_flush => Req(e).pc = pc_r
  BY ReqPc
<1>10. dly_flush' => npc' = pc_r'
  BY <1>1, <1>2, <1>3, <1>4, <1>8 DEF Cancel
<1>11. ReqH(e) => ~out_flag \/ RspH(e)
  BY <1>i, Commands
<1>12. ~slipped' /\ ~out_flag' => dly_flush' \/ reset_flag' \/ reset_req'
  BY <1>1, <1>2, <1>3, <1>4 DEF Cancel
<1>13. slipped' \/ (out_flag' /\ ~dly_flush' => req_pc' = npc')
  <2>1. CASE ReqH(e) /\ Cancel(e)
    BY <1>1, <1>2, <1>3, <1>4, <1>8, <1>9, <2>1 DEF Cancel
  <2>2. CASE ReqH(e) /\ IrSet(e)
    BY <1>2, <1>3, <1>4, <1>5, <2>2 DEF Cancel
  <2>3. CASE ReqH(e) /\ ~Cancel(e) /\ ~IrSet(e)
    <3>1. ~out_flag /\ ~dly_flush /\ ~e.flush
      BY <1>4, <1>11, <2>3 DEF Cancel
    <3>2. CASE slipped
      BY <1>2, <3>1, <3>2
    <3>3. CASE ~slipped
      <4>1. reset_req
        BY <1>1, <2>3, <3>1, <3>3, Wires
      <4>2. icb_state = "IDLE" /\ rsp_buf = <<>> /\ icb_cmd2 = "none" /\ npc = pc_rtvec
        BY <1>i, <4>1 DEF OutInv, ResetInv
      <4>3. Dec(e).ofst = 0
        BY <4>2, DecReset
      <4>4. Req(e).pc = pc_rtvec
        BY <2>3, <4>1, <4>3, ReqPc
      <4> QED
        BY <1>2, <1>3, <2>3, <3>1, <4>2, <4>4
    <3> QED
      BY <3>2, <3>3
  <2>4. CASE ~ReqH(e)
    BY <1>1, <1>2, <1>3, <1>4, <2>4 DEF Cancel
  <2> QED
    BY <2>1, <2>2, <2>3, <2>4
<1> QED
  BY <1>7, <1>10, <1>12, <1>13 DEF NextInv, FetchFollows, FetchFollowsProgram

\* The instruction register across an edge.
LEMMA IrStep ==
    ASSUME FetchInv, NEW e, Inputs(e), Clocked(e)
    PROVE  IrInv'
<1>i. FetchTypeOK /\ OutInv /\ ResetInv /\ BusInv /\ UopInv /\ LaneInv /\ IrInv
  BY DEF FetchInv
<1>1. /\ ir_valid' <=> IrSet(e) \/ (ir_valid /\ ~IrClr(e))
      /\ IrSet(e) => ir' = IrWord(e)
      /\ ~IrSet(e) /\ ~IrClr(e) => ir' = ir
      /\ ir_pc_vld' <=> PcSet(e) \/ (ir_pc_vld /\ ~IrClr(e))
      /\ ifu_pc_r' = IF PcSet(e) THEN pc_r ELSE ifu_pc_r
      /\ ir_src' = IF IrSet(e) THEN req_pc ELSE ir_src
  BY IfetchEdge DEF Clocked
<1>2. /\ RspH(e) => Cancel(e) \/ ~ir_valid \/ IrClr(e)
      /\ IrSet(e) <=> RspH(e) /\ ~Cancel(e)
      /\ PcSet(e) <=> pc_newpend /\ (~ir_valid \/ IrClr(e)) /\ ~Cancel(e)
  BY Wires
<1>3. CASE IrSet(e)
  <2>1. /\ Dec(e) = prog[pc_r] /\ WholeWord(ifu_rsp_instr, pc_r) /\ req_pc = pc_r
    BY <1>i, <1>3, ReqFollows
  <2>2. out_flag
    BY <1>i, <1>2, <1>3, Wires, Answers DEF OutInv
  <2>3. e.o_hsked => ir_valid
    BY DEF Inputs
  <2>4. ir_pc_vld' /\ ifu_pc_r' = pc_r /\ ir_src' = pc_r
    BY <1>i, <1>1, <1>2, <1>3, <2>1, <2>2, <2>3 DEF OutInv, IrClr
  <2>5. /\ IrWord(e).lo = ifu_rsp_instr.lo /\ IrWord(e).err = ifu_rsp_instr.err
        /\ Dec(e).rv32 => IrWord(e).hi = ifu_rsp_instr.hi
    <3>1. DOMAIN ifu_rsp_instr = {"lo", "hi", "err"}
      BY <1>i, AnswerType
    <3> QED
      BY <3>1 DEF IrWord
  <2>6. /\ ir'.lo = pc_r
        /\ prog[pc_r].rv32 => ir'.hi = Plus(pc_r, 1)
        /\ ir'.err <=> (TouchedLanes(pc_r) \cap ErrLanes # {})
    BY <1>1, <1>3, <2>1, <2>5 DEF WholeWord
  <2>7. pc_r \in PC
    BY <1>i DEF FetchTypeOK
  <2> QED
    BY <2>4, <2>6, <2>7 DEF IrInv, TouchedLanes, ifu_req_lane_cross, LaneOf, LaneSize,
                            in_itcm, Plus
<1>4. CASE ~IrSet(e)
  <2>1. ir_valid' => /\ ir_valid /\ ir' = ir /\ ir_pc_vld' = TRUE /\ ifu_pc_r' = ifu_pc_r
                     /\ ir_src' = ir_src
    <3>1. ir_valid' => ir_valid /\ ~IrClr(e) /\ ~PcSet(e)
      BY <1>1, <1>2, <1>4
    <3> QED
      BY <1>i, <1>1, <1>4, <3>1 DEF IrInv, FetchTypeOK
  <2> QED
    BY <1>i, <2>1 DEF IrInv, TouchedLanes, ifu_req_lane_cross, LaneOf, LaneSize,
                      in_itcm, Plus
<1> QED
  BY <1>3, <1>4

\* The second access of a request across an edge.
LEMMA UopStep ==
    ASSUME FetchInv, NEW e, Inputs(e), Clocked(e)
    PROVE  UopInv'
<1>i. FetchTypeOK /\ OutInv /\ BusInv /\ UopInv
  BY DEF FetchInv
<1>c. IfetchClk(In(e)) /\ Ift2icbClk(e, Req(e), ReqValid(e), ifu_rsp_ready(In(e)))
  BY DEF Clocked
<1>1. /\ Free => icb_state' = IF ReqH(e) THEN "1ST" ELSE "IDLE"
      /\ Second => icb_state' = IF Acc(e) THEN "2ND" ELSE "WAIT2ND"
      /\ ~Free /\ ~Second => icb_state' = icb_state
  BY <1>i, <1>c, LaneEdge
<1>2. ReqH(e) => /\ req_same_cross_holdup' = same_cross_holdup(Req(e))
                 /\ req_need_2uop' = need_2uop(Req(e))
                 /\ req_need_0uop' = need_0uop(Req(e))
                 /\ req_lane_cross' = ifu_req_lane_cross(Req(e))
  BY <1>i, <1>c, LaneEdge
<1>3. ~ReqH(e) => /\ req_same_cross_holdup' = req_same_cross_holdup
                  /\ req_need_2uop' = req_need_2uop
                  /\ req_need_0uop' = req_need_0uop
                  /\ req_lane_cross' = req_lane_cross
  BY <1>i, <1>c, LaneEdge
<1>4. /\ icb_state \in {"WAIT2ND", "2ND"} => req_need_2uop
      /\ req_need_2uop => ~req_need_0uop /\ ~req_same_cross_holdup
      /\ req_need_0uop => ~req_same_cross_holdup
      /\ ~reset_flag /\ ~reset_req /\ ~dly_flush =>
           /\ req_lane_cross <=> Cross(pc_r)
           /\ req_need_2uop \/ req_same_cross_holdup <=> Cross(pc_r)
  BY <1>i DEF UopInv
<1>5. ReqH(e) => Free
  BY <1>i, Commands
<1>6. Second => req_need_2uop
  BY DEF Second
<1>7. /\ dly_flush' <=> ~ReqH(e) /\ Cancel(e)
      /\ pc_r' = IF ReqH(e) \/ e.flush THEN Req(e).pc ELSE pc_r
  BY <1>c, IfetchEdge
<1>8. ifu_req_lane_cross(Req(e)) <=> Cross(Req(e).pc)
  BY DEF Cross, ifu_req_lane_cross
<1>9. /\ need_2uop(Req(e)) => ~need_0uop(Req(e)) /\ ~same_cross_holdup(Req(e))
      /\ need_0uop(Req(e)) => ~same_cross_holdup(Req(e))
      /\ need_2uop(Req(e)) \/ same_cross_holdup(Req(e)) <=> Cross(Req(e).pc)
  BY <1>8 DEF need_2uop, need_0uop, same_cross_holdup
<1>10. icb_state' \in {"WAIT2ND", "2ND"} => req_need_2uop'
  BY <1>i, <1>1, <1>3, <1>4, <1>5, <1>6, Answers
<1>11. /\ req_need_2uop' => ~req_need_0uop' /\ ~req_same_cross_holdup'
       /\ req_need_0uop' => ~req_same_cross_holdup'
  BY <1>2, <1>3, <1>4, <1>9
<1>12. ~reset_flag' /\ ~reset_req' /\ ~dly_flush' =>
         /\ req_lane_cross' <=> Cross(pc_r')
         /\ req_need_2uop' \/ req_same_cross_holdup' <=> Cross(pc_r')
  <2>1. CASE ReqH(e)
    BY <1>2, <1>7, <1>8, <1>9, <2>1
  <2>2. CASE ~ReqH(e)
    <3>1. ~reset_req' => ~reset_flag /\ ~reset_req
      BY <2>2, ResetEnds
    <3> QED
      BY <1>3, <1>4, <1>7, <2>2, <3>1 DEF Cancel
  <2> QED
    BY <2>1, <2>2
<1> QED
  BY <1>10, <1>11, <1>12 DEF UopInv

\* The lane on its way across an edge.
LEMMA LaneStep ==
    ASSUME FetchInv, NEW e, Inputs(e), Clocked(e), ITCM_OUTS_NUM = 1
    PROVE  LaneInv'
<1> SUFFICES ASSUME ~dly_flush'
             PROVE
        /\ InFlight' =>
             /\ icb_cmd2' = "itcm" <=> in_itcm(WantAddr')
             /\ byp_cmd'.ifu => byp_cmd'.lane = LaneOf(WantAddr')
             /\ e1'.ifu => e1'.lane = LaneOf(WantAddr')
             /\ biu' # NoRead => biu'.lane = LaneOf(WantAddr')
        /\ icb_state' # "IDLE" /\ ~(icb_state' = "1ST" /\ ~req_same_cross_holdup') =>
             leftover' = pc_r' /\ (leftover_err' <=> LaneOf(pc_r') \in ErrLanes)
        /\ icb_state' = "1ST" /\ ~req_need_2uop' /\ ~req_same_cross_holdup' =>
             icb_addr_2_1' = pc_r' % 4
        /\ icb_state' = "1ST" /\ req_need_0uop' =>
             in_itcm(pc_r') /\ icb_cmd2' = "itcm" /\ ram_dout' = LaneOf(pc_r')
        /\ rsp_buf' # <<>> => WholeWord(rsp_buf'[1], pc_r')
  BY DEF LaneInv
<1>i. FetchTypeOK /\ OutInv /\ ResetInv /\ BusInv /\ UopInv /\ LaneInv /\ HoldInv
  BY DEF FetchInv
<1>c. /\ IfetchClk(In(e)) /\ Ift2icbClk(e, Req(e), ReqValid(e), ifu_rsp_ready(In(e)))
      /\ ItcmClk(e, Cmd(e), ifu_icb_rsp_ready) /\ BiuClk(e, Req(e), ReqValid(e))
  BY DEF Clocked
<1>1. /\ ~ReqH(e) => ~Cancel(e) /\ ~dly_flush
      /\ pc_r' = IF ReqH(e) THEN Req(e).pc ELSE pc_r
  <2>1. /\ dly_flush' <=> ~ReqH(e) /\ Cancel(e)
        /\ pc_r' = IF ReqH(e) \/ e.flush THEN Req(e).pc ELSE pc_r
    BY <1>c, IfetchEdge
  <2> QED
    BY <2>1 DEF Cancel
<1>2. /\ Free => icb_state' = IF ReqH(e) THEN "1ST" ELSE "IDLE"
      /\ Second => icb_state' = IF Acc(e) THEN "2ND" ELSE "WAIT2ND"
      /\ ~Free /\ ~Second => icb_state' = icb_state
      /\ icb_cmd2' = IF Acc(e) THEN (IF in_itcm(CmdAddr(e)) THEN "itcm" ELSE "biu")
                     ELSE icb_cmd2
      /\ icb_addr_2_1' = IF Acc(e) \/ ReqH(e) THEN CmdAddr(e) % 4 ELSE icb_addr_2_1
  BY <1>i, <1>c, LaneEdge
<1>3. ReqH(e) => /\ req_same_cross_holdup' = same_cross_holdup(Req(e))
                 /\ req_need_2uop' = need_2uop(Req(e))
                 /\ req_need_0uop' = need_0uop(Req(e))
  BY <1>i, <1>c, LaneEdge
<1>4. ~ReqH(e) => /\ req_same_cross_holdup' = req_same_cross_holdup
                  /\ req_need_2uop' = req_need_2uop
                  /\ req_need_0uop' = req_need_0uop
  BY <1>i, <1>c, LaneEdge
<1>5. /\ ReqH(e) => Free
      /\ Free => (Acc(e) <=> ReqH(e) /\ ~need_0uop(Req(e)))
      /\ Acc(e) => Free \/ Second
      /\ Second => CmdAddr(e) = Plus(pc_r, 1)
      /\ Free /\ ~same_cross_holdup(Req(e)) => CmdAddr(e) = Req(e).pc
      /\ Free /\ same_cross_holdup(Req(e)) => CmdAddr(e) = Plus(Req(e).pc, 1)
      /\ CmdAddr(e) \in PC
  BY <1>i, Commands
<1>6. Free => ~Second
  BY <1>i, Answers
<1>7. Req(e).pc \in PC /\ pc_r \in PC
  BY <1>i, ReqPcType DEF FetchTypeOK
<1>8. BusInv'
  BY BusStep
<1>9. InFlight' =>
        /\ icb_cmd2' = "itcm" <=> in_itcm(WantAddr')
        /\ byp_cmd'.ifu => byp_cmd'.lane = LaneOf(WantAddr')
        /\ e1'.ifu => e1'.lane = LaneOf(WantAddr')
        /\ biu' # NoRead => biu'.lane = LaneOf(WantAddr')
  <2> SUFFICES ASSUME InFlight'
               PROVE  /\ icb_cmd2' = "itcm" <=> in_itcm(WantAddr')
                      /\ byp_cmd'.ifu => byp_cmd'.lane = LaneOf(WantAddr')
                      /\ e1'.ifu => e1'.lane = LaneOf(WantAddr')
                      /\ biu' # NoRead => biu'.lane = LaneOf(WantAddr')
    OBVIOUS
  <2>w. WantAddr' = IF icb_state' = "1ST" /\ ~req_same_cross_holdup' THEN pc_r'
                    ELSE Plus(pc_r', 1)
    BY DEF WantAddr
  <2>e. /\ e1'.ifu \/ byp_cmd'.ifu <=>
              (Cmd(e) # NoCmd /\ ifu2itcm_icb_cmd_ready(e)) \/ byp_cmd.ifu
        /\ Cmd(e) # NoCmd /\ ifu2itcm_icb_cmd_ready(e) =>
              (e1'.ifu => e1' = Cmd(e)) /\ (byp_cmd'.ifu => byp_cmd' = Cmd(e))
        /\ byp_cmd.ifu =>
              (e1'.ifu => e1' = byp_cmd) /\ (byp_cmd'.ifu => byp_cmd' = byp_cmd)
    <3>1. (e1.ifu => ifu_icb_rsp_ready) /\ ifu_icb_rsp_ready \in BOOLEAN
          /\ ifu_holdup \in BOOLEAN
      BY <1>i, Answers DEF FetchTypeOK
    <3>2. Cmd(e) \in ItcmCmd /\ (byp_cmd # NoCmd => Cmd(e) = NoCmd)
      BY <1>i, Commands
    <3> QED
      BY <1>i, <1>c, <3>1, <3>2, ItcmEdge
  <2>m. /\ Cmd(e) # NoCmd => Cmd(e) = IfuCmd(LaneOf(CmdAddr(e))) /\ in_itcm(CmdAddr(e))
        /\ Cmd(e) # NoCmd /\ ifu2itcm_icb_cmd_ready(e) <=> Acc(e) /\ in_itcm(CmdAddr(e))
    BY <1>i, Commands
  <2>b. /\ e1'.ifu \/ byp_cmd'.ifu <=> icb_cmd2' = "itcm"
        /\ biu' # NoRead <=> icb_cmd2' = "biu"
    BY <1>8 DEF BusInv
  <2>1. CASE Acc(e)
    <3>1. WantAddr' = CmdAddr(e)
      <4>1. CASE Free
        BY <1>1, <1>2, <1>3, <1>5, <2>1, <2>w, <4>1
      <4>2. CASE Second
        BY <1>1, <1>2, <1>5, <1>6, <2>1, <2>w, <4>2
      <4> QED
        BY <1>5, <2>1, <4>1, <4>2
    <3>2. CASE in_itcm(CmdAddr(e))
      <4>1. icb_cmd2' = "itcm" /\ biu' = NoRead
        BY <1>2, <2>1, <2>b, <3>2
      <4>2. IfuCmd(LaneOf(CmdAddr(e))).lane = LaneOf(CmdAddr(e))
        BY CmdFacts
      <4> QED
        BY <2>1, <2>e, <2>m, <3>1, <3>2, <4>1, <4>2
    <3>3. CASE ~in_itcm(CmdAddr(e))
      <4>1. icb_cmd2' = "biu" /\ ~e1'.ifu /\ ~byp_cmd'.ifu
        BY <1>2, <2>1, <2>b, <3>3
      <4>2. biu' \in [lane : {LaneOf(CmdAddr(e))}, vld : BOOLEAN]
        BY <1>i, <1>c, <2>1, <3>3, BiuEdge
      <4> QED
        BY <3>1, <3>3, <4>1, <4>2
    <3> QED
      BY <3>2, <3>3
  <2>2. CASE ~Acc(e)
    <3>1. ~Free /\ ~Second /\ ~ReqH(e) /\ InFlight
      BY <1>i, <1>c, <2>2, FlightEdge
    <3>2. ~dly_flush /\ WantAddr' = WantAddr /\ icb_cmd2' = icb_cmd2
      BY <1>1, <1>2, <1>4, <2>2, <2>w, <3>1 DEF WantAddr
    <3>3. /\ icb_cmd2 = "itcm" <=> in_itcm(WantAddr)
          /\ byp_cmd.ifu => byp_cmd.lane = LaneOf(WantAddr)
          /\ biu # NoRead => biu.lane = LaneOf(WantAddr)
      BY <1>i, <3>1, <3>2 DEF LaneInv
    <3>4. /\ byp_cmd'.ifu => byp_cmd'.lane = LaneOf(WantAddr)
          /\ e1'.ifu => e1'.lane = LaneOf(WantAddr)
      BY <2>2, <2>e, <2>m, <3>3
    <3>5. biu' # NoRead => biu'.lane = LaneOf(WantAddr)
      <4>1. /\ biu.vld => biu' = NoRead
            /\ ~biu.vld => biu' = biu \/ (biu # NoRead /\ biu' = [biu EXCEPT !.vld = TRUE])
        BY <1>i, <1>c, <2>2, BiuEdge
      <4>2. biu # NoRead => [biu EXCEPT !.vld = TRUE].lane = biu.lane
        BY <1>i DEF BusInv
      <4> QED
        BY <3>3, <4>1, <4>2
    <3> QED
      BY <3>2, <3>3, <3>4, <3>5
  <2> QED
    BY <2>1, <2>2
<1>10. icb_state' # "IDLE" /\ ~(icb_state' = "1ST" /\ ~req_same_cross_holdup') =>
         leftover' = pc_r' /\ (leftover_err' <=> LaneOf(pc_r') \in ErrLanes)
  <2>1. /\ (ReqH(e) /\ same_cross_holdup(Req(e))) \/ (Second /\ icb_state = "1ST") =>
            /\ leftover' = rsp_rdata(IF icb_cmd2 = "itcm" THEN 3 ELSE 1)
            /\ leftover_err' = (Second /\ icb_state = "1ST" /\ ifu_icb_rsp_err)
        /\ ~(ReqH(e) /\ same_cross_holdup(Req(e))) /\ ~(Second /\ icb_state = "1ST") =>
            leftover' = leftover /\ leftover_err' = leftover_err
    BY <1>i, <1>c, LaneEdge
  <2>2. CASE ReqH(e) /\ same_cross_holdup(Req(e))
    <3>1. /\ ifu_req_lane_same(Req(e)) /\ ifu_req_lane_holdup(Req(e))
          /\ Cross(Req(e).pc)
      BY <2>2 DEF same_cross_holdup, Cross, ifu_req_lane_cross
    <3>2. ram_dout = LaneOf(Req(e).pc) /\ icb_cmd2 = "itcm" /\ in_itcm(Req(e).pc)
      BY <1>i, <2>2, <3>1, HeldForRequest
    <3>3. /\ LaneOf(Req(e).pc) \in Lane /\ LaneOf(Req(e).pc) \notin ErrLanes
          /\ Req(e).pc = LaneOf(Req(e).pc) + 3
      BY <1>7, <3>1, <3>2, LaneFacts
    <3>4. rsp_rdata(3) = Req(e).pc
      BY <3>2, <3>3, Rdata
    <3>5. leftover' = Req(e).pc /\ ~leftover_err'
      BY <1>5, <1>6, <2>1, <2>2, <3>2, <3>4
    <3> QED
      BY <1>1, <2>2, <3>3, <3>5
  <2>3. CASE ReqH(e) /\ ~same_cross_holdup(Req(e))
    BY <1>2, <1>3, <1>5, <2>3
  <2>4. CASE ~ReqH(e) /\ Second /\ icb_state = "1ST"
    <3>1. req_need_2uop /\ ~req_same_cross_holdup /\ ifu_icb_rsp_valid /\ ~dly_flush
      BY <1>i, <1>1, <2>4 DEF Second, UopInv
    <3>2. WantAddr = pc_r
      BY <2>4, <3>1 DEF WantAddr
    <3>3. /\ \A k : rsp_rdata(k) = LaneOf(pc_r) + k
          /\ ifu_icb_rsp_err <=> LaneOf(pc_r) \in ErrLanes
          /\ icb_cmd2 = "itcm" <=> in_itcm(pc_r)
      BY <1>i, <3>1, <3>2, OnBus
    <3>4. Cross(pc_r)
      BY <1>i, <2>4, <3>1 DEF UopInv, OutInv, ResetInv
    <3>5. pc_r = LaneOf(pc_r) + IF in_itcm(pc_r) THEN 3 ELSE 1
      BY <1>7, <3>4, LaneFacts
    <3>6. leftover' = pc_r /\ (leftover_err' <=> ifu_icb_rsp_err)
      BY <2>1, <2>4, <3>3, <3>5
    <3> QED
      BY <1>1, <2>4, <3>3, <3>6
  <2>5. CASE ~ReqH(e) /\ ~(Second /\ icb_state = "1ST")
    <3>1. leftover' = leftover /\ leftover_err' = leftover_err /\ pc_r' = pc_r /\ ~dly_flush
          /\ req_same_cross_holdup' = req_same_cross_holdup
      BY <1>1, <1>4, <2>1, <2>5
    <3>2. icb_state # "IDLE" /\ ~(icb_state = "1ST" /\ ~req_same_cross_holdup) =>
            leftover = pc_r /\ (leftover_err <=> LaneOf(pc_r) \in ErrLanes)
      BY <1>i, <3>1 DEF LaneInv
    <3>3. Second => icb_state = "WAIT2ND"
      BY <2>5 DEF Second
    <3> QED
      BY <1>2, <2>5, <3>1, <3>2, <3>3
  <2> QED
    BY <2>2, <2>3, <2>4, <2>5
<1>11. ~ReqH(e) /\ icb_state' = "1ST" => icb_state = "1ST" /\ ~Free /\ ~Second /\ ~Acc(e)
  BY <1>2, <1>5
<1>12. icb_state' = "1ST" /\ ~req_need_2uop' /\ ~req_same_cross_holdup' =>
         icb_addr_2_1' = pc_r' % 4
  <2>1. CASE ReqH(e)
    BY <1>1, <1>2, <1>3, <1>5, <2>1
  <2>2. CASE ~ReqH(e)
    BY <1>i, <1>1, <1>2, <1>4, <1>11, <2>2 DEF LaneInv
  <2> QED
    BY <2>1, <2>2
<1>13. icb_state' = "1ST" /\ req_need_0uop' =>
         in_itcm(pc_r') /\ icb_cmd2' = "itcm" /\ ram_dout' = LaneOf(pc_r')
  <2>1. CASE ReqH(e) /\ need_0uop(Req(e))
    <3>1. /\ ifu_req_lane_same(Req(e)) /\ ifu_req_lane_holdup(Req(e))
          /\ ~same_cross_holdup(Req(e))
      BY <2>1 DEF need_0uop, same_cross_holdup
    <3>2. ram_dout = LaneOf(Req(e).pc) /\ icb_cmd2 = "itcm" /\ in_itcm(Req(e).pc)
      BY <1>i, <2>1, <3>1, HeldForRequest
    <3>3. CmdAddr(e) = Req(e).pc /\ ~Acc(e)
      BY <1>5, <2>1, <3>1
    <3>4. ifu2itcm_icb_cmd_ready(e)
      <4>1. ifu_icb_cmd_ready(e, Req(e))
        BY <1>i, <2>1, Commands
      <4> QED
        BY <3>2, <3>3, <4>1 DEF ifu_icb_cmd_ready, CmdAddr
    <3>5. Cmd(e) = NoCmd
      BY <1>i, <3>2, <3>3, <3>4, Commands
    <3>6. ram_dout' = ram_dout
      <4>1. (e1.ifu => ifu_icb_rsp_ready) /\ ifu_icb_rsp_ready \in BOOLEAN
            /\ ifu_holdup \in BOOLEAN
        BY <1>i, Answers DEF FetchTypeOK
      <4>2. Cmd(e) \in ItcmCmd
        BY <1>i, Commands
      <4> QED
        BY <1>i, <1>c, <3>4, <3>5, <4>1, <4>2, ItcmEdge
    <3> QED
      BY <1>1, <1>2, <2>1, <3>2, <3>3, <3>6
  <2>2. CASE ReqH(e) /\ ~need_0uop(Req(e))
    BY <1>3, <2>2
  <2>3. CASE ~ReqH(e)
    <3>1. icb_state = "1ST" /\ req_need_0uop => Free
      BY <1>i, Answers DEF Free
    <3> QED
      BY <1>4, <1>11, <2>3, <3>1
  <2> QED
    BY <2>1, <2>2, <2>3
<1>14. rsp_buf' # <<>> => WholeWord(rsp_buf'[1], pc_r')
  <2> SUFFICES ASSUME rsp_buf' # <<>> PROVE WholeWord(rsp_buf'[1], pc_r')
    OBVIOUS
  <2>1. ifu_rsp_valid /\ ~RspH(e) /\ rsp_buf'[1] = ifu_rsp_instr
    BY <1>i, <1>c, LaneEdge
  <2>2. out_flag
    BY <1>i, <2>1, Answers DEF OutInv
  <2>3. ~ReqH(e)
    BY <1>i, <2>1, <2>2, Commands
  <2>4. WholeWord(ifu_rsp_instr, pc_r)
    BY <1>i, <1>1, <2>1, <2>3, AnswerWhole
  <2> QED
    BY <1>1, <2>1, <2>3, <2>4
<1> QED
  BY <1>9, <1>10, <1>12, <1>13, <1>14

\* The lane the ITCM holds across an edge.
LEMMA HoldStep ==
    ASSUME FetchInv, NEW e, Inputs(e), Clocked(e), ITCM_OUTS_NUM = 1
    PROVE  HoldInv'
<1> SUFFICES ASSUME ifu_holdup', Settled', ~dly_flush', in_itcm(LastAddr(pc_r'))
             PROVE  ram_dout' = LaneOf(LastAddr(pc_r')) /\ icb_cmd2' = "itcm"
  BY DEF HoldInv
<1>i. FetchTypeOK /\ OutInv /\ ResetInv /\ BusInv /\ UopInv /\ LaneInv /\ HoldInv
  BY DEF FetchInv
<1>c. /\ IfetchClk(In(e)) /\ Ift2icbClk(e, Req(e), ReqValid(e), ifu_rsp_ready(In(e)))
      /\ ItcmClk(e, Cmd(e), ifu_icb_rsp_ready)
  BY DEF Clocked
<1>n. UopInv' /\ LaneInv' /\ BusInv' /\ OutInv' /\ ResetInv'
  BY UopStep, LaneStep, BusStep, OutStep, ResetStep
<1>1. /\ ~ReqH(e) => ~Cancel(e) /\ ~dly_flush
      /\ pc_r' = IF ReqH(e) THEN Req(e).pc ELSE pc_r
  <2>1. /\ dly_flush' <=> ~ReqH(e) /\ Cancel(e)
        /\ pc_r' = IF ReqH(e) \/ e.flush THEN Req(e).pc ELSE pc_r
    BY <1>c, IfetchEdge
  <2> QED
    BY <2>1 DEF Cancel
<1>2. \/ /\ Cmd(e) # NoCmd /\ ifu2itcm_icb_cmd_ready(e)
         /\ e1' = Cmd(e) /\ ram_dout' = Cmd(e).lane
      \/ ifu_holdup /\ ram_dout' = ram_dout /\ ~e1'.ifu
  <2>1. (e1.ifu => ifu_icb_rsp_ready) /\ ifu_icb_rsp_ready \in BOOLEAN
        /\ ifu_holdup \in BOOLEAN
    BY <1>i, Answers DEF FetchTypeOK
  <2>2. Cmd(e) \in ItcmCmd /\ (byp_cmd # NoCmd => Cmd(e) = NoCmd)
    BY <1>i, Commands
  <2> QED
    BY <1>i, <1>c, <2>1, <2>2, ItcmEdge
<1>3. Settled' <=> \/ icb_state' = "IDLE"
                   \/ icb_state' = "1ST" /\ req_need_0uop'
                   \/ e1'.ifu /\ (icb_state' = "2ND" \/ ~req_need_2uop')
  BY DEF Settled
\* the last access has been made now
<1>4. CASE Cmd(e) # NoCmd /\ ifu2itcm_icb_cmd_ready(e) /\ e1' = Cmd(e) /\ ram_dout' = Cmd(e).lane
  <2>1. e1'.ifu
    BY <1>i, <1>4, Commands, CmdFacts
  <2>2. Acc(e) /\ InFlight' /\ icb_cmd2' = "itcm"
    BY <1>i, <1>c, <1>n, <2>1, <1>4, Commands DEF BusInv
  <2>3. ram_dout' = LaneOf(WantAddr')
    BY <1>4, <1>n, <2>1, <2>2 DEF LaneInv, BusInv
  <2>4. icb_state' = "2ND" \/ (icb_state' = "1ST" /\ ~req_need_0uop' /\ ~req_need_2uop')
    BY <1>3, <2>2 DEF InFlight
  <2>5. ~reset_flag' /\ ~reset_req'
    BY <1>n, <2>4 DEF OutInv, ResetInv
  <2>6. /\ icb_state' = "2ND" => req_need_2uop'
        /\ req_need_2uop' \/ req_same_cross_holdup' <=> Cross(pc_r')
    BY <1>n, <2>5 DEF UopInv
  <2>7. WantAddr' = IF icb_state' = "1ST" /\ ~req_same_cross_holdup' THEN pc_r'
                    ELSE Plus(pc_r', 1)
    BY DEF WantAddr
  <2>8. WantAddr' = LastAddr(pc_r')
    BY <2>4, <2>6, <2>7 DEF LastAddr
  <2> QED
    BY <2>2, <2>3, <2>8
\* it was made before
<1>5. CASE ifu_holdup /\ ram_dout' = ram_dout /\ ~e1'.ifu
  <2>1. icb_state' = "IDLE" \/ (icb_state' = "1ST" /\ req_need_0uop')
    BY <1>3, <1>5
  <2>2. CASE icb_state' = "1ST" /\ req_need_0uop'
    <3>1. in_itcm(pc_r') /\ icb_cmd2' = "itcm" /\ ram_dout' = LaneOf(pc_r')
      BY <1>n, <2>2 DEF LaneInv
    <3>2. ~Cross(pc_r')
      BY <1>n, <2>2 DEF OutInv, ResetInv, UopInv
    <3> QED
      BY <3>1, <3>2 DEF LastAddr
  <2>3. CASE icb_state' = "IDLE"
    <3>1. Free /\ ~ReqH(e)
      <4>1. /\ Free => icb_state' = IF ReqH(e) THEN "1ST" ELSE "IDLE"
            /\ Second => icb_state' = IF Acc(e) THEN "2ND" ELSE "WAIT2ND"
            /\ ~Free /\ ~Second => icb_state' = icb_state
        BY <1>i, <1>c, LaneEdge
      <4>2. icb_state = "IDLE" => Free
        BY DEF Free
      <4> QED
        BY <2>3, <4>1, <4>2
    <3>2. ~Acc(e)
      BY <1>i, <3>1, Commands
    <3>3. icb_cmd2' = icb_cmd2
      BY <1>i, <1>c, <3>2, LaneEdge
    <3>4. ram_dout = LaneOf(LastAddr(pc_r)) /\ icb_cmd2 = "itcm"
      BY <1>i, <1>1, <1>5, <3>1, Held
    <3> QED
      BY <1>1, <1>5, <3>1, <3>3, <3>4
  <2> QED
    BY <2>1, <2>2, <2>3
<1> QED
  BY <1>2, <1>4, <1>5

-----------------------------------------------------------------------------
(* A cycle in which the IFU's clock stands still.                          *)

\* The invariant across such a cycle.
LEMMA AsleepStep ==
    ASSUME FetchInv, NEW e, Inputs(e), ITCM_OUTS_NUM = 1, ~clk_core_ifu_on(e),
           UNCHANGED <<ifetch_vars, ift2icb_vars, npc, slipped>>,
           ItcmClk(e, Cmd(e), ifu_icb_rsp_ready), BiuClk(e, Req(e), ReqValid(e)), WfiClk(e)
    PROVE  FetchInv'
<1>i. FetchTypeOK /\ OutInv /\ ResetInv /\ HaltInv /\ NextInv /\ BusInv /\ UopInv
      /\ LaneInv /\ HoldInv /\ IrInv
  BY DEF FetchInv
<1>1. core_wfi /\ ~e.wake /\ halt_ack /\ wfi_halt_req /\ icb_state = "IDLE" /\ ~dly_flush
  BY <1>i DEF clk_core_ifu_on, HaltInv
<1>2. ~e.flush /\ ~Cancel(e) /\ ~reset_req /\ ~reset_flag
  BY <1>i, <1>1 DEF Inputs, Cancel, ResetInv
<1>3. ~ReqValid(e)
  BY <1>1, <1>2, Wires
<1>4. ~ifu_icb_cmd_valid(Req(e), ReqValid(e))
  BY <1>1, <1>3 DEF ifu_icb_cmd_valid
<1>5. Cmd(e) = NoCmd /\ ~Acc(e)
  BY <1>4 DEF Cmd, ifu2itcm_cmd, Acc
<1>6. ~InFlight
  BY <1>1 DEF InFlight
<1>7. byp_cmd = NoCmd /\ ~e1.ifu /\ biu = NoRead
  BY <1>i, <1>6, CmdFacts DEF BusInv, ItcmCmd
<1>8. /\ e1' \in ItcmCmd \cup {OtherCmd} /\ byp_cmd' \in ItcmCmd
      /\ ram_dout' \in Lane \cup {OtherLane} /\ ifu_holdup' \in BOOLEAN
      /\ arbt_outs' = IF e1' = OtherCmd THEN 1 ELSE 0
      /\ byp_cmd' # NoCmd => e1' = OtherCmd
      /\ e1'.ifu => ram_dout' = e1'.lane
      /\ ~(e1'.ifu \/ byp_cmd'.ifu)
      /\ ifu_holdup' => ifu_holdup /\ ram_dout' = ram_dout
  <2>1. ifu_icb_rsp_ready \in BOOLEAN /\ ifu_holdup \in BOOLEAN
    BY <1>i, Answers DEF FetchTypeOK
  <2>2. NoCmd \in ItcmCmd /\ ~NoCmd.ifu
    BY CmdFacts
  <2>3. ItcmClk(e, NoCmd, ifu_icb_rsp_ready)
    BY <1>5
  <2> QED
    BY <1>i, <1>7, <2>1, <2>2, <2>3, ItcmEdge
<1>9. biu' = NoRead
  BY <1>i, <1>5, <1>7, BiuEdge DEF NoRead
<1>10. /\ icb_state' = icb_state /\ icb_cmd2' = icb_cmd2 /\ req_need_0uop' = req_need_0uop
       /\ rsp_buf' = rsp_buf /\ pc_r' = pc_r /\ dly_flush' = dly_flush
       /\ icb_addr_2_1' = icb_addr_2_1 /\ leftover' = leftover
       /\ req_same_cross_holdup' = req_same_cross_holdup /\ req_need_2uop' = req_need_2uop
       /\ req_lane_cross' = req_lane_cross
  BY DEF ift2icb_vars, ifetch_vars
<1>11. /\ reset_flag' = reset_flag /\ reset_req' = reset_req /\ halt_ack' = halt_ack
       /\ ir_valid' = ir_valid /\ ir' = ir /\ ir_pc_vld' = ir_pc_vld /\ ifu_pc_r' = ifu_pc_r
       /\ out_flag' = out_flag /\ pc_newpend' = pc_newpend /\ req_pc' = req_pc
       /\ ir_src' = ir_src /\ npc' = npc /\ slipped' = slipped
  BY DEF ifetch_vars
<1>12. /\ wfi_halt_req' /\ (core_wfi' => ~e.wake)
  BY <1>1, HaltReq
<1>13. wfi_halt_req' \in BOOLEAN /\ core_wfi' \in BOOLEAN
  <2>1. wfi_halt_req' = ~e.wake
    BY <1>1 DEF WfiClk
  <2> QED
    BY <2>1 DEF WfiClk, Inputs
<1>14. FetchTypeOK'
  BY <1>i, <1>8, <1>10, <1>11, <1>13 DEF FetchTypeOK, Halfword
<1>15. OutInv' /\ ResetInv' /\ NextInv' /\ HaltInv'
  <2>1. OutInv'
    BY <1>i, <1>10, <1>11 DEF OutInv
  <2>2. ResetInv'
    BY <1>2, <1>11 DEF ResetInv
  <2>3. NextInv'
    BY <1>i, <1>10, <1>11 DEF NextInv, FetchFollows, FetchFollowsProgram
  <2>4. HaltInv'
    BY <1>1, <1>10, <1>11, <1>12 DEF HaltInv
  <2> QED
    BY <2>1, <2>2, <2>3, <2>4
<1>16. ~InFlight'
  BY <1>1, <1>10 DEF InFlight
<1>17. BusInv'
  <2>1. ifu_holdup' => ram_dout' \in Lane
    BY <1>i, <1>8 DEF BusInv
  <2>2. /\ e1' \in {NoCmd, OtherCmd} \cup {IfuCmd(l) : l \in Lane}
        /\ byp_cmd' \in {NoCmd} \cup {IfuCmd(l) : l \in Lane}
    BY <1>8 DEF ItcmCmd
  <2> QED
    BY <1>8, <1>9, <1>16, <2>1, <2>2 DEF BusInv
<1>18. UopInv'
  BY <1>i, <1>10, <1>11 DEF UopInv, Cross, ifu_req_lane_cross, LaneSize, in_itcm
<1>19. LaneInv'
  <2>1. rsp_buf # <<>> => WholeWord(rsp_buf[1], pc_r)
    BY <1>i, <1>1 DEF LaneInv
  <2>2. rsp_buf' # <<>> => WholeWord(rsp_buf'[1], pc_r')
    BY <1>10, <2>1
  <2> QED
    BY <1>1, <1>10, <1>16, <2>2 DEF LaneInv
<1>20. HoldInv'
  <2> SUFFICES ASSUME ifu_holdup', Settled', ~dly_flush', in_itcm(LastAddr(pc_r'))
               PROVE  ram_dout' = LaneOf(LastAddr(pc_r')) /\ icb_cmd2' = "itcm"
    BY DEF HoldInv
  <2>1. in_itcm(LastAddr(pc_r))
    BY <1>10
  <2>2. ram_dout = LaneOf(LastAddr(pc_r)) /\ icb_cmd2 = "itcm"
    BY <1>i, <1>1, <1>8, <2>1 DEF HoldInv, Settled
  <2> QED
    BY <1>8, <1>10, <2>2
<1>21. IrInv'
  BY <1>i, <1>11 DEF IrInv, TouchedLanes, ifu_req_lane_cross, LaneOf, LaneSize, in_itcm, Plus
<1> QED
  BY <1>14, <1>15, <1>17, <1>18, <1>19, <1>20, <1>21 DEF FetchInv

-----------------------------------------------------------------------------
(* The invariant, and what follows from it.                                *)

\* Reset is in the invariant.
LEMMA FetchInvInit ==
    ASSUME FetchInit
    PROVE  FetchInv
<1> USE DEF FetchInit, IfetchInit, ItcmInit, Ift2icbInit
<1>1. pc_rtvec \in PC
  BY FetchAssumption
<1>2. FetchTypeOK
  <2>1. leftover \in Halfword
    BY DEF Halfword
  <2>2. 0 \in 0 .. 3 /\ icb_addr_2_1 = 0
    OBVIOUS
  <2>3. rsp_buf = <<>>
    OBVIOUS
  <2> QED
    BY <1>1, <2>1, <2>2, <2>3, Zenon DEF FetchTypeOK
<1>3. OutInv /\ ResetInv /\ HaltInv /\ UopInv
  BY DEF OutInv, ResetInv, HaltInv, UopInv
<1>4. NextInv
  BY <1>1 DEF NextInv, FetchFollows, FetchFollowsProgram
<1>5. ~InFlight
  BY DEF InFlight
<1>6. BusInv
  BY <1>5, CmdFacts DEF BusInv, ItcmCmd
<1>7. LaneInv
  BY <1>5 DEF LaneInv
<1>8. HoldInv /\ IrInv
  BY DEF HoldInv, IrInv
<1> QED
  BY <1>2, <1>3, <1>4, <1>6, <1>7, <1>8 DEF FetchInv

\* Every cycle keeps the invariant.
LEMMA FetchInvStep ==
    ASSUME FetchInv, [FetchNext]_fetch_vars, HaltFlush = FALSE, ITCM_OUTS_NUM = 1
    PROVE  FetchInv'
<1>1. CASE FetchNext
  <2>1. PICK e : Inputs(e) /\ FetchStep(e)
    BY <1>1, NextIsStep
  <2>2. /\ ItcmClk(e, Cmd(e), ifu_icb_rsp_ready)
        /\ BiuClk(e, Req(e), ReqValid(e)) /\ WfiClk(e)
    BY <2>1 DEF FetchStep, Cmd
  <2>3. CASE clk_core_ifu_on(e)
    <3>1. Clocked(e)
      BY <2>1, <2>2, <2>3 DEF FetchStep, Clocked
    <3> QED
      BY <2>1, <2>3, <3>1, TypeStep, OutStep, ResetStep, HaltStep, NextStep, BusStep,
         UopStep, LaneStep, HoldStep, IrStep DEF FetchInv
  <2>4. CASE ~clk_core_ifu_on(e)
    <3>1. UNCHANGED <<ifetch_vars, ift2icb_vars, npc, slipped>>
      BY <2>1, <2>4 DEF FetchStep
    <3> QED
      BY <2>1, <2>2, <2>4, <3>1, AsleepStep
  <2> QED
    BY <2>3, <2>4
<1>2. CASE UNCHANGED fetch_vars
  <2> USE <1>2 DEF fetch_vars, ifetch_vars, itcm_vars, ift2icb_vars
  <2>1. FetchTypeOK' /\ OutInv' /\ ResetInv' /\ HaltInv'
    BY DEF FetchInv, FetchTypeOK, OutInv, ResetInv, HaltInv, Halfword
  <2>2. NextInv'
    BY DEF FetchInv, NextInv, FetchFollows, FetchFollowsProgram
  <2>3. BusInv'
    BY DEF FetchInv, BusInv, InFlight
  <2>4. UopInv'
    BY DEF FetchInv, UopInv, Cross, ifu_req_lane_cross, LaneSize, in_itcm
  <2>5. LaneInv'
    BY DEF FetchInv, LaneInv, InFlight, WantAddr
  <2>6. HoldInv'
    BY DEF FetchInv, HoldInv, Settled
  <2>7. IrInv'
    BY DEF FetchInv, IrInv, TouchedLanes, ifu_req_lane_cross, LaneOf, LaneSize, in_itcm, Plus
  <2> QED
    BY <2>1, <2>2, <2>3, <2>4, <2>5, <2>6, <2>7 DEF FetchInv
<1> QED
  BY <1>1, <1>2

\* The lane logic, the ITCM and the fetch stage never disagree about what is
\* under way, where it will be answered and for which address.
THEOREM FetchInvariant ==
    ASSUME HaltFlush = FALSE, ITCM_OUTS_NUM = 1
    PROVE  FetchSpec => []FetchInv
<1>1. FetchInit => FetchInv
  BY FetchInvInit
<1>2. FetchInv /\ [FetchNext]_fetch_vars => FetchInv'
  BY FetchInvStep
<1> QED
  BY <1>1, <1>2, PTL DEF FetchSpec

\* What the EXU gets is the program's next instruction, whole and with its PC,
\* for every program and every interleaving with other agents: e203_ifu_ifetch.v
\* and e203_ifu_ift2icb.v, with an EXU that keeps its promise not to flush during
\* a halt, and the ITCM configured with one command outstanding.
THEOREM FetchIsExact ==
    ASSUME HaltFlush = FALSE, ITCM_OUTS_NUM = 1
    PROVE  FetchSpec => []FetchedExact
<1>1. FetchInv => FetchedExact
  BY DEF FetchInv, IrInv, NextInv, FetchedExact, IrCarriesMemory, IrBelongsToPc
<1> QED
  BY <1>1, FetchInvariant, PTL

\* ifu_holdup is never set over the output of another agent's access
\* (e203_itcm_ctrl.v computes it in front of the bypass buffer).
THEOREM FetchHoldup ==
    ASSUME HaltFlush = FALSE, ITCM_OUTS_NUM = 1
    PROVE  FetchSpec => []HoldupIsIfuLane
<1>1. FetchInv => HoldupIsIfuLane
  BY DEF FetchInv, BusInv, HoldupIsIfuLane
<1> QED
  BY <1>1, FetchInvariant, PTL

\* The IFU's clock stops only when no answer is under way
\* (e203_exu_excp.v halts the IFU and waits for its acknowledgement).
THEOREM FetchSleeps ==
    ASSUME HaltFlush = FALSE, ITCM_OUTS_NUM = 1
    PROVE  FetchSpec => []IfuSleepsQuietly
<1>1. FetchInv => IfuSleepsQuietly
  <2> SUFFICES ASSUME FetchInv, core_wfi
               PROVE  icb_state = "IDLE" /\ ~ifu_icb_rsp_valid
    BY DEF IfuSleepsQuietly
  <2>1. icb_state = "IDLE"
    BY DEF FetchInv, HaltInv
  <2>2. ~ifu_icb_rsp_valid
    BY <2>1, Answers DEF FetchInv
  <2> QED
    BY <2>1, <2>2
<1> QED
  BY <1>1, FetchInvariant, PTL
=============================================================================
