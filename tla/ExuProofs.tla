----------------------------- MODULE ExuProofs -----------------------------
(***************************************************************************)
(* The execution stage for every depth of the OITF, every register file,   *)
(* every set of operations and every environment: nothing overtakes, traps *)
(* are precise, gating and sleeping are harmless.                          *)
(***************************************************************************)
EXTENDS Exu, TLAPS

-----------------------------------------------------------------------------
(* The OITF alone: for every depth and every set of register numbers its   *)
(* pointers and valid bits agree, and it is the bounded in-order queue.    *)

OitfInv == OitfTypeOK /\ VldBetweenPointers

\* What the occupancy says about the two status wires.
LEMMA OccupancyStatus ==
    ASSUME OitfInv
    PROVE  /\ Occupancy \in Nat
           /\ oitf_empty <=> Occupancy = 0
           /\ oitf_full <=> Occupancy = OITF_DEPTH
           /\ dis_ready => Occupancy < OITF_DEPTH
  BY OitfDepthAssumption
     DEF OitfInv, OitfTypeOK, VldBetweenPointers, Occupancy, oitf_empty,
         oitf_full, dis_ready, Itag

\* How one clock edge moves the occupancy.
LEMMA OccupancyStep ==
    ASSUME OitfInv,
           NEW dis \in BOOLEAN, NEW ret \in BOOLEAN,
           dis => dis_ready, ret => ~oitf_empty,
           AllocPtr(dis), RetirePtr(ret)
    PROVE  /\ alc_ptr' \in Itag /\ ret_ptr' \in Itag
           /\ alc_ptr_flg' \in {0, 1} /\ ret_ptr_flg' \in {0, 1}
           /\ Occupancy' = Occupancy + (IF dis THEN 1 ELSE 0)
                                     - (IF ret THEN 1 ELSE 0)
           /\ Occupancy' \in 0 .. OITF_DEPTH
<1> USE OitfDepthAssumption
<1> USE DEF OitfInv, OitfTypeOK, VldBetweenPointers, Occupancy, oitf_empty,
            oitf_full, dis_ready, Itag, AllocPtr, RetirePtr, PtrNext, FlgNext
<1>1. CASE dis = TRUE /\ ret = TRUE
  BY <1>1
<1>2. CASE dis = TRUE /\ ret = FALSE
  BY <1>2
<1>3. CASE dis = FALSE /\ ret = TRUE
  BY <1>3
<1>4. CASE dis = FALSE /\ ret = FALSE
  BY <1>4
<1> QED
  BY <1>1, <1>2, <1>3, <1>4

\* One clock edge, whatever its two users do within their guarantees, keeps
\* the pointers and the valid bits in agreement.
LEMMA OitfClkInv ==
    ASSUME OitfInv,
           NEW dis \in BOOLEAN, NEW ret \in BOOLEAN, NEW e \in Payload,
           dis => dis_ready, ret => ~oitf_empty,
           OitfClk(dis, ret, e)
    PROVE  OitfInv'
<1> USE OitfDepthAssumption
<1>1. AllocPtr(dis) /\ RetirePtr(ret) /\ Entries(dis, ret, e)
  BY DEF OitfClk
<1>2. /\ alc_ptr' \in Itag /\ ret_ptr' \in Itag
      /\ alc_ptr_flg' \in {0, 1} /\ ret_ptr_flg' \in {0, 1}
      /\ Occupancy' \in 0 .. OITF_DEPTH
  BY <1>1, OccupancyStep
<1>3. vld' \in [Itag -> BOOLEAN] /\ payload' \in [Itag -> Payload]
  BY <1>1 DEF Entries, OitfInv, OitfTypeOK
<1>4. ASSUME NEW i \in Itag
      PROVE  vld'[i] <=> Age(i)' < Occupancy'
  <2> USE DEF OitfInv, OitfTypeOK, VldBetweenPointers, Occupancy, oitf_empty,
              oitf_full, dis_ready, Itag, AllocPtr, RetirePtr, PtrNext, FlgNext,
              Entries, Age
  <2>1. CASE dis = TRUE /\ ret = TRUE
    BY <1>1, <2>1
  <2>2. CASE dis = TRUE /\ ret = FALSE
    BY <1>1, <2>2
  <2>3. CASE dis = FALSE /\ ret = TRUE
    BY <1>1, <2>3
  <2>4. CASE dis = FALSE /\ ret = FALSE
    BY <1>1, <2>4
  <2> QED
    BY <2>1, <2>2, <2>3, <2>4
<1> QED
  BY <1>2, <1>3, <1>4 DEF OitfInv, OitfTypeOK, VldBetweenPointers

LEMMA OitfInitInv == OitfInit => OitfInv
  BY OitfDepthAssumption
     DEF OitfInit, OitfInv, OitfTypeOK, VldBetweenPointers, Occupancy, Age, Itag

LEMMA OitfNextInv == OitfInv /\ [OitfNext]_oitf_vars => OitfInv'
<1> SUFFICES ASSUME OitfInv, [OitfNext]_oitf_vars
             PROVE  OitfInv'
  OBVIOUS
<1>1. ASSUME NEW e \in Payload, Dispatch(e)
      PROVE  OitfInv'
  BY <1>1, OitfClkInv DEF Dispatch
<1>2. ASSUME NEW e \in Payload, DispatchAndRetire(e)
      PROVE  OitfInv'
  BY <1>2, OitfClkInv DEF DispatchAndRetire
<1>3. CASE Retire
  <2>1. ret_payload \in Payload
    BY DEF OitfInv, OitfTypeOK, ret_payload
  <2> QED
    BY <1>3, <2>1, OitfClkInv DEF Retire
<1>4. CASE UNCHANGED oitf_vars
  BY <1>4 DEF oitf_vars, OitfInv, OitfTypeOK, VldBetweenPointers, Occupancy, Age
<1> QED
  BY <1>1, <1>2, <1>3, <1>4 DEF OitfNext

\* The OITF's registers keep their types, in every reachable state.
THEOREM OitfTypeCorrect == OitfSpec => []OitfTypeOK
<1>1. OitfInv => OitfTypeOK
  BY DEF OitfInv
<1> QED
  BY <1>1, OitfInitInv, OitfNextInv, PTL DEF OitfSpec

\* At every depth the valid bits that dispatch compares against are exactly
\* the entries between the retire and the allocate pointer.
THEOREM OitfPointersAgree == OitfSpec => []VldBetweenPointers
<1>1. OitfInv => VldBetweenPointers
  BY DEF OitfInv
<1> QED
  BY <1>1, OitfInitInv, OitfNextInv, PTL DEF OitfSpec

-----------------------------------------------------------------------------
\* The k-th oldest instruction's entry, before and after the pointers move.
LEMMA SlotFacts ==
    ASSUME OitfInv
    PROVE  /\ \A k \in 0 .. OITF_DEPTH - 1 : Slot(k) \in Itag
           /\ \A k \in 0 .. Occupancy - 1 : dis_ready => Slot(k) # alc_ptr
           /\ dis_ready => Slot(Occupancy) = alc_ptr
           /\ Slot(0) = ret_ptr
  BY OitfDepthAssumption
     DEF OitfInv, OitfTypeOK, VldBetweenPointers, Occupancy, Slot, Itag,
         dis_ready, oitf_full

\* The oldest retires: every other instruction moves up by one.
LEMMA SlotShift ==
    ASSUME OitfInv, RetirePtr(TRUE), NEW k \in Nat, k + 1 < OITF_DEPTH
    PROVE  Slot(k)' = Slot(k + 1)
  BY OitfDepthAssumption DEF OitfInv, OitfTypeOK, Slot, Itag, RetirePtr, PtrNext

\* The mapped queue is a sequence as long as the occupancy.
LEMMA FlightType ==
    OitfInv => Flight \in Seq(Payload) /\ Len(Flight) = Occupancy
<1> SUFFICES ASSUME OitfInv
             PROVE  Flight \in Seq(Payload) /\ Len(Flight) = Occupancy
  OBVIOUS
<1>1. Occupancy \in Nat /\ Occupancy <= OITF_DEPTH
  BY OitfDepthAssumption DEF OitfInv, VldBetweenPointers
<1>2. \A k \in 1 .. Occupancy : payload[Slot(k - 1)] \in Payload
  BY <1>1, SlotFacts, OitfDepthAssumption DEF OitfInv, OitfTypeOK
<1> QED
  BY <1>1, <1>2 DEF Flight

\* A dispatch appends the new instruction.
LEMMA FlightTrack ==
    ASSUME OitfInv, NEW e \in Payload, Dispatch(e)
    PROVE  Abs!Track(e)
<1> USE OitfDepthAssumption
<1>1. AllocPtr(TRUE) /\ RetirePtr(FALSE) /\ Entries(TRUE, FALSE, e) /\ dis_ready
  BY DEF Dispatch, OitfClk
<1>2. Occupancy' = Occupancy + 1 /\ Occupancy \in Nat /\ Occupancy < OITF_DEPTH
  BY <1>1 DEF OitfInv, OitfTypeOK, VldBetweenPointers, Occupancy, oitf_full,
              dis_ready, Itag, AllocPtr, RetirePtr, PtrNext, FlgNext
<1>3. OitfInv'
  BY OitfNextInv DEF OitfNext
<1>4. Flight' \in Seq(Payload) /\ Len(Flight') = Occupancy + 1
  <2>1. (OitfInv => Flight \in Seq(Payload) /\ Len(Flight) = Occupancy)'
    BY FlightType, PTL
  <2> QED
    BY <1>2, <1>3, <2>1
<1>5. ASSUME NEW k \in 1 .. Occupancy + 1
      PROVE  Flight'[k] = Append(Flight, e)[k]
  <2>1. Flight'[k] = payload'[Slot(k - 1)']
    BY <1>2 DEF Flight
  <2>2. Slot(k - 1)' = Slot(k - 1)
    BY <1>1 DEF Slot, RetirePtr
  <2>3. CASE k = Occupancy + 1
    <3>1. Slot(k - 1) = alc_ptr
      BY <1>1, <1>2, <2>3, SlotFacts
    <3>2. payload'[alc_ptr] = e
      BY <1>1 DEF Entries, OitfInv, OitfTypeOK
    <3>3. Append(Flight, e)[k] = e
      BY <2>3, FlightType
    <3> QED
      BY <2>1, <2>2, <3>1, <3>2, <3>3
  <2>4. CASE k \in 1 .. Occupancy
    <3>1. Slot(k - 1) # alc_ptr /\ Slot(k - 1) \in Itag
      BY <1>1, <1>2, <2>4, SlotFacts
    <3>2. payload'[Slot(k - 1)] = payload[Slot(k - 1)]
      BY <1>1, <3>1 DEF Entries, OitfInv, OitfTypeOK
    <3>3. Flight[k] = payload[Slot(k - 1)]
      BY <1>2, <2>4 DEF Flight
    <3>4. Append(Flight, e)[k] = Flight[k]
      BY <1>2, <2>4, FlightType
    <3> QED
      BY <2>1, <2>2, <3>2, <3>3, <3>4
  <2>5. k = Occupancy + 1 \/ k \in 1 .. Occupancy
    BY <1>2
  <2> QED
    BY <2>3, <2>4, <2>5
<1>6. Append(Flight, e) \in Seq(Payload) /\ Len(Append(Flight, e)) = Occupancy + 1
  BY FlightType
<1>7. Flight' = Append(Flight, e)
  BY <1>4, <1>5, <1>6
<1>8. Len(Flight) < OITF_DEPTH
  BY <1>2, FlightType
<1> QED
  BY <1>7, <1>8 DEF Abs!Track

\* A retirement drops the oldest.
LEMMA FlightRetire ==
    ASSUME OitfInv, Retire
    PROVE  Abs!Retire
<1> USE OitfDepthAssumption
<1>1. AllocPtr(FALSE) /\ RetirePtr(TRUE) /\ payload' = payload /\ ~oitf_empty
  BY DEF Retire, OitfClk, Entries
<1>2. /\ Occupancy' = Occupancy - 1
      /\ Occupancy \in Nat /\ Occupancy > 0 /\ Occupancy <= OITF_DEPTH
  BY <1>1 DEF OitfInv, OitfTypeOK, VldBetweenPointers, Occupancy, oitf_empty,
              Itag, AllocPtr, RetirePtr, PtrNext, FlgNext
<1>3. OitfInv'
  BY OitfNextInv DEF OitfNext
<1>4. Flight' \in Seq(Payload) /\ Len(Flight') = Occupancy - 1
  <2>1. (OitfInv => Flight \in Seq(Payload) /\ Len(Flight) = Occupancy)'
    BY FlightType, PTL
  <2> QED
    BY <1>2, <1>3, <2>1
<1>5. /\ Flight \in Seq(Payload) /\ Len(Flight) = Occupancy /\ Flight # << >>
      /\ Tail(Flight) \in Seq(Payload) /\ Len(Tail(Flight)) = Occupancy - 1
  BY <1>2, FlightType
<1>6. ASSUME NEW k \in 1 .. Occupancy - 1
      PROVE  Flight'[k] = Tail(Flight)[k]
  <2>1. Flight'[k] = payload[Slot(k - 1)']
    BY <1>1, <1>2 DEF Flight
  <2>2. Slot(k - 1)' = Slot(k)
    BY <1>1, <1>2, SlotShift
  <2>3. Flight[k + 1] = payload[Slot(k)]
    BY <1>2 DEF Flight
  <2>4. Tail(Flight)[k] = Flight[k + 1]
    BY <1>2, <1>5
  <2> QED
    BY <2>1, <2>2, <2>3, <2>4
<1>7. Flight' = Tail(Flight)
  BY <1>4, <1>5, <1>6
<1> QED
  BY <1>5, <1>7 DEF Abs!Retire

\* A dispatch and a retirement on the same edge do both.
LEMMA FlightTrackAndRetire ==
    ASSUME OitfInv, NEW e \in Payload, DispatchAndRetire(e)
    PROVE  Abs!TrackAndRetire(e)
<1> USE OitfDepthAssumption
<1>1. /\ AllocPtr(TRUE) /\ RetirePtr(TRUE) /\ Entries(TRUE, TRUE, e)
      /\ dis_ready /\ ~oitf_empty
  BY DEF DispatchAndRetire, OitfClk
<1>2. /\ Occupancy' = Occupancy
      /\ Occupancy \in Nat /\ Occupancy > 0 /\ Occupancy < OITF_DEPTH
  BY <1>1 DEF OitfInv, OitfTypeOK, VldBetweenPointers, Occupancy, oitf_empty,
              oitf_full, dis_ready, Itag, AllocPtr, RetirePtr, PtrNext, FlgNext
<1>3. OitfInv'
  BY OitfNextInv DEF OitfNext
<1>4. Flight' \in Seq(Payload) /\ Len(Flight') = Occupancy
  <2>1. (OitfInv => Flight \in Seq(Payload) /\ Len(Flight) = Occupancy)'
    BY FlightType, PTL
  <2> QED
    BY <1>2, <1>3, <2>1
<1> DEFINE new == Append(Tail(Flight), e)
<1>5. /\ Flight \in Seq(Payload) /\ Len(Flight) = Occupancy /\ Flight # << >>
      /\ Tail(Flight) \in Seq(Payload) /\ Len(Tail(Flight)) = Occupancy - 1
  BY <1>2, FlightType
<1>6. new \in Seq(Payload) /\ Len(new) = Occupancy
  BY <1>2, <1>5
<1>7. ASSUME NEW k \in 1 .. Occupancy
      PROVE  Flight'[k] = new[k]
  <2>1. Flight'[k] = payload'[Slot(k - 1)']
    BY <1>2 DEF Flight
  <2>2. Slot(k - 1)' = Slot(k)
    BY <1>1, <1>2, SlotShift
  <2>3. CASE k = Occupancy
    <3>1. Slot(k) = alc_ptr
      BY <1>1, <2>3, SlotFacts
    <3>2. payload'[alc_ptr] = e
      BY <1>1 DEF Entries, OitfInv, OitfTypeOK
    <3>3. new[k] = e
      BY <1>2, <1>5, <2>3
    <3> QED
      BY <2>1, <2>2, <3>1, <3>2, <3>3
  <2>4. CASE k \in 1 .. Occupancy - 1
    <3>1. Slot(k) # alc_ptr /\ Slot(k) \in Itag
      BY <1>1, <1>2, <2>4, SlotFacts
    <3>2. payload'[Slot(k)] = payload[Slot(k)]
      BY <1>1, <3>1 DEF Entries, OitfInv, OitfTypeOK
    <3>3. Flight[k + 1] = payload[Slot(k)]
      BY <1>2, <2>4 DEF Flight
    <3>4. new[k] = Flight[k + 1]
      BY <1>2, <1>5, <2>4
    <3> QED
      BY <2>1, <2>2, <3>2, <3>3, <3>4
  <2>5. k = Occupancy \/ k \in 1 .. Occupancy - 1
    BY <1>2
  <2> QED
    BY <2>3, <2>4, <2>5
<1>8. Flight' = new
  BY <1>4, <1>6, <1>7
<1>9. Len(Flight) < OITF_DEPTH
  BY <1>2, <1>5
<1> QED
  BY <1>5, <1>8, <1>9 DEF Abs!TrackAndRetire

\* The OITF, at every depth, is the bounded in-order queue: long-pipe
\* instructions retire in dispatch order with the destination they had.
THEOREM OitfImplementsTracker == OitfSpec => ImplementsTracker
<1>1. OitfInit => Abs!Init
  BY OitfDepthAssumption DEF OitfInit, Abs!Init, Flight, Occupancy
<1>2. OitfInv /\ [OitfNext]_oitf_vars => [Abs!Next]_Flight
  <2> SUFFICES ASSUME OitfInv, [OitfNext]_oitf_vars
               PROVE  [Abs!Next]_Flight
    OBVIOUS
  <2>1. ASSUME NEW e \in Payload, Dispatch(e)
        PROVE  Abs!Next
    BY <2>1, FlightTrack DEF Abs!Next
  <2>2. ASSUME NEW e \in Payload, DispatchAndRetire(e)
        PROVE  Abs!Next
    BY <2>2, FlightTrackAndRetire DEF Abs!Next
  <2>3. CASE Retire
    BY <2>3, FlightRetire DEF Abs!Next
  <2>4. CASE UNCHANGED oitf_vars
    BY <2>4 DEF oitf_vars, Flight, Occupancy, Slot
  <2> QED
    BY <2>1, <2>2, <2>3, <2>4 DEF OitfNext
<1> QED
  BY <1>1, <1>2, OitfInitInv, OitfNextInv, PTL
     DEF OitfSpec, ImplementsTracker, Abs!Spec

-----------------------------------------------------------------------------
(* The execution stage around it. *)

\* The IR holds an instruction exactly when it says so.
IrInv == ir_valid <=> ir # NoInstr

\* The LSU's slot and the OITF count the same instructions: a load or store in
\* the slot is the only entry of the OITF, the command of an AMO has none.
LsuInv ==
    /\ lsu.cmd = "none" => lsu = NoCmd
    /\ lsu.cmd = "read" => lsu.rdata \in Vals
    /\ lsu = NoCmd => rsp = "none"
    /\ lsu = NoCmd \/ lsu.back2agu => oitf_empty
    /\ lsu # NoCmd /\ ~lsu.back2agu =>
         /\ lsu.itag = ret_ptr /\ Occupancy = 1
         /\ ret_payload.rdwen =>
              lsu.cmd = "read" /\ arch[ret_payload.rdidx] = lsu.rdata

\* An AMO under way is in the IR, its own accesses are the only ones in the
\* LSU, and no request that could flush it was pending when it began.
AmoInv ==
    icb_state # "IDLE" =>
        /\ ir.op = "amo" /\ ~step_req /\ ~wfi_halt_req
        /\ icb_state \in {"1ST", "2ND"} => lsu # NoCmd /\ lsu.back2agu
        /\ icb_state = "1ST" => lsu.cmd = "read"
        /\ icb_state \notin {"1ST", "2ND"} => lsu = NoCmd

\* A sleeping core has halted its IFU and has nothing in flight.
WfiInv == wfi_flag => wfi_halt_req /\ oitf_empty

\* A step request is only pending outside debug mode, and is pending from the
\* one commit that a step allows.
StepInv ==
    /\ step_req => ~dbg_mode
    /\ \/ dbg_mode \/ ~dcsr.step
       \/ stepped = 0 \/ (stepped = 1 /\ step_req)

FlightInv == ExuTypeOK /\ VldBetweenPointers /\ LsuInv

ExuInv == /\ FlightInv
          /\ IrInv /\ AmoInv /\ WfiInv /\ StepInv
          /\ RegfileArchitectural

-----------------------------------------------------------------------------
(* What the decoder can put into the IR.                                   *)

\* What the parts of a decoded instruction say of one another.
LEMMA InstrFacts ==
    ASSUME NEW i \in Instr
    PROVE  /\ i.op \in Ops /\ i.op # "none"
           /\ i.rdwen <=> i.op \in {"alu", "ld", "amo", "lui", "jalr1", "jalrn"}
           /\ i.rdwen \in BOOLEAN /\ i.rdidx \in RfIdx /\ i.rs \subseteq RfIdx
<1>1. AnyReg \in RfIdx
  BY ExuAssumption DEF AnyReg
<1>2. PICK op \in Ops : i \in InstrOf(op)
  BY DEF Instr
<1>3. op # "none"
  BY ExuAssumption
<1>4. CASE op \in {"alu", "ld", "amo"}
  <2>1. i \in [op : {op}, rdwen : {TRUE}, rdidx : RfIdx, rs : {{r} : r \in RfIdx}]
    BY <1>2, <1>4 DEF InstrOf
  <2>2. i.op = op /\ i.rdwen = TRUE
    BY <2>1
  <2>3. i.rdidx \in RfIdx /\ i.rs \subseteq RfIdx
    BY <1>1, <2>1
  <2> QED
    BY <1>3, <1>4, <2>2, <2>3
<1>5. CASE op = "lui"
  <2>1. i \in [op : {op}, rdwen : {TRUE}, rdidx : RfIdx, rs : {{}}]
    BY <1>2, <1>5 DEF InstrOf
  <2>2. i.op = op /\ i.rdwen = TRUE
    BY <2>1
  <2>3. i.rdidx \in RfIdx /\ i.rs \subseteq RfIdx
    BY <1>1, <2>1
  <2> QED
    BY <1>3, <1>5, <2>2, <2>3
<1>6. CASE op = "jalr1"
  <2>1. i \in [op : {op}, rdwen : {TRUE}, rdidx : RfIdx, rs : {{x1}}]
    BY <1>2, <1>6 DEF InstrOf
  <2>2. i.op = op /\ i.rdwen = TRUE
    BY <2>1
  <2>3. i.rdidx \in RfIdx /\ i.rs \subseteq RfIdx
    BY <1>1, <2>1 DEF x1
  <2> QED
    BY <1>3, <1>6, <2>2, <2>3
<1>7. CASE op = "jalrn"
  <2>1. i \in [op : {op}, rdwen : {TRUE}, rdidx : RfIdx,
               rs : {{r} : r \in RfIdx} \ {{x1}}]
    BY <1>2, <1>7 DEF InstrOf
  <2>2. i.op = op /\ i.rdwen = TRUE
    BY <2>1
  <2>3. i.rdidx \in RfIdx /\ i.rs \subseteq RfIdx
    BY <1>1, <2>1
  <2> QED
    BY <1>3, <1>7, <2>2, <2>3
<1>8. CASE op \in {"st", "ldmis", "brmis"}
  <2>1. i \in [op : {op}, rdwen : {FALSE}, rdidx : {AnyReg},
               rs : {{r} : r \in RfIdx}]
    BY <1>2, <1>8 DEF InstrOf
  <2>2. i.op = op /\ i.rdwen = FALSE
    BY <2>1
  <2>3. i.rdidx \in RfIdx /\ i.rs \subseteq RfIdx
    BY <1>1, <2>1
  <2> QED
    BY <1>3, <1>8, <2>2, <2>3
<1>9. CASE op \notin {"alu", "ld", "amo", "lui", "jalr1", "jalrn",
                      "st", "ldmis", "brmis"}
  <2>1. i \in [op : {op}, rdwen : {FALSE}, rdidx : {AnyReg}, rs : {{}}]
    BY <1>2, <1>9 DEF InstrOf
  <2>2. i.op = op /\ i.rdwen = FALSE
    BY <2>1
  <2>3. i.rdidx \in RfIdx /\ i.rs \subseteq RfIdx
    BY <1>1, <2>1
  <2> QED
    BY <1>3, <1>9, <2>2, <2>3
<1> QED
  BY <1>4, <1>5, <1>6, <1>7, <1>8, <1>9

\* The same of whatever the IR holds, an instruction or nothing.
LEMMA IrFacts ==
    ASSUME ExuInv
    PROVE  /\ ir.op \in Ops \cup {"none"}
           /\ ir.rdwen <=> ir.op \in {"alu", "ld", "amo", "lui", "jalr1", "jalrn"}
           /\ ir.rdwen \in BOOLEAN /\ ir.rdidx \in RfIdx /\ ir.rs \subseteq RfIdx
           /\ ir_valid <=> ir.op # "none"
<1>1. CASE ir = NoInstr
  <2>1. AnyReg \in RfIdx
    BY ExuAssumption DEF AnyReg
  <2>2. ir.op = "none" /\ ir.rdwen = FALSE /\ ir.rdidx = AnyReg /\ ir.rs = {}
    BY <1>1 DEF NoInstr
  <2> QED
    BY <1>1, <2>1, <2>2 DEF ExuInv, FlightInv, ExuTypeOK, IrInv
<1>2. CASE ir # NoInstr
  <2>1. ir \in Instr
    BY <1>2 DEF ExuInv, FlightInv, ExuTypeOK
  <2> QED
    BY <1>2, <2>1, InstrFacts DEF ExuInv, IrInv
<1> QED
  BY <1>1, <1>2

-----------------------------------------------------------------------------
(* The OITF holds at most the instruction whose command is in the LSU.     *)

\* The OITF is empty when the LSU's slot is, or when what it holds is the AGU's.
LEMMA LsuFacts ==
    ASSUME FlightInv
    PROVE  /\ oitf_empty <=> lsu = NoCmd \/ lsu.back2agu
           /\ lsu = NoCmd <=> lsu.cmd = "none"
           /\ rsp # "none" => lsu # NoCmd
           /\ ~oitf_empty => wbck_ready4lsu /\ Occupancy = 1
           /\ dis_ready
           /\ ret_payload \in Payload
           /\ ~NoCmd.back2agu
<1> USE OitfDepthAssumption DEF FlightInv, ExuTypeOK, OitfTypeOK, LsuInv
<1>1. OitfInv
  BY DEF OitfInv
<1>2. oitf_empty <=> Occupancy = 0
  BY <1>1, OccupancyStatus
<1>3. oitf_full <=> Occupancy = OITF_DEPTH
  BY <1>1, OccupancyStatus
<1>4. NoCmd.cmd = "none" /\ ~NoCmd.back2agu
  BY DEF NoCmd
<1>5. lsu # NoCmd /\ ~lsu.back2agu => Occupancy = 1
  OBVIOUS
<1>6. oitf_empty <=> lsu = NoCmd \/ lsu.back2agu
  BY <1>2, <1>5
<1>7. lsu = NoCmd <=> lsu.cmd = "none"
  BY <1>4
<1>8. ~oitf_empty => wbck_ready4lsu /\ Occupancy = 1
  BY <1>6 DEF wbck_ready4lsu
<1>9. dis_ready
  BY <1>2, <1>3, <1>8 DEF dis_ready
<1>10. ret_payload \in Payload
  BY DEF ret_payload
<1> QED
  BY <1>4, <1>6, <1>7, <1>8, <1>9, <1>10

\* What dispatch compares against is the entry at the retire pointer.
LEMMA MatchFacts ==
    ASSUME FlightInv, NEW r
    PROVE  oitfrd_match(r) <=>
               ~oitf_empty /\ ret_payload.rdwen /\ ret_payload.rdidx = r
<1> USE OitfDepthAssumption DEF FlightInv, ExuTypeOK, OitfTypeOK
<1>1. oitf_empty <=> Occupancy = 0
  BY OccupancyStatus DEF OitfInv
<1>2. Occupancy \in {0, 1}
  BY <1>1, LsuFacts
<1>3. \A i \in Itag : vld[i] <=> ~oitf_empty /\ i = ret_ptr
  BY <1>1, <1>2 DEF VldBetweenPointers, Age, Itag
<1> QED
  BY <1>3 DEF oitfrd_match, ret_payload

\* The same for every register at once.
LEMMA FlightMatch ==
    FlightInv => \A q : oitfrd_match(q) <=>
                     ~oitf_empty /\ ret_payload.rdwen /\ ret_payload.rdidx = q
  BY MatchFacts

-----------------------------------------------------------------------------
(* Consequences for the wires of one cycle.                                *)

\* A response to a load or store retires it, whenever it comes.
LEMMA RetireFacts ==
    ASSUME ExuInv
    PROVE  /\ oitf_ret_ena <=> lsu_o_valid
           /\ oitf_ret_ena => ~oitf_empty
           /\ longp_need_flush => ~oitf_empty
           /\ longp_wbck_valid => ~oitf_empty
  BY LsuFacts DEF ExuInv, oitf_ret_ena, lsu_o_valid, longp_need_flush,
                  longp_wbck_valid

\* An AMO under way keeps dispatch's grant and cannot be masked by a flush.
LEMMA AmoFacts ==
    ASSUME ExuInv, icb_state # "IDLE"
    PROVE  /\ ir.op = "amo" /\ ir_valid /\ agu_op /\ algnamo /\ oitf_empty
           /\ i_valid
<1>1. ir.op = "amo" /\ ~wfi_halt_req /\ (lsu = NoCmd \/ lsu.back2agu)
  BY DEF ExuInv, AmoInv
<1>2. ir_valid /\ oitf_empty
  BY <1>1, IrFacts, LsuFacts DEF ExuInv
<1>3. agu_op /\ algnamo
  BY <1>1 DEF agu_op, algnamo, flush_block
<1>4. ~raw_dep /\ ~waw_dep
  BY <1>2, MatchFacts DEF ExuInv, raw_dep, waw_dep
<1> QED
  BY <1>1, <1>2, <1>3, <1>4, LsuFacts DEF ExuInv, i_valid, disp_condition

\* Only an AMO that got a bus error is flushed.
LEMMA AmoAtomic ==
    ASSUME ExuInv
    PROVE  AmoIsAtomic
<1> SUFFICES ASSUME icb_state # "IDLE", pipe_flush_req
             PROVE  icb_state = "WBCK" /\ leftover_err
  BY DEF AmoIsAtomic
<1>1. ~longp_need_flush
  BY AmoFacts, RetireFacts
<1>2. ~dbg_entry_flush_req
  BY AmoFacts DEF dbg_entry_flush_req, dbg_entry_req, amo_wait, dbg_ebrk_req,
                  alu_ebreakm_flush_req, ebreak4dbg, ExuInv, AmoInv
<1>3. ~irq_flush_req
  BY DEF irq_flush_req, irq_req, amo_wait
<1>4. ~brchmis_flush_req
  BY AmoFacts DEF brchmis_flush_req, brchmis_need_flush, cmt_is_branch
<1>5. alu_excp_flush_req
  BY <1>1, <1>2, <1>3, <1>4 DEF pipe_flush_req, excpirq_flush_req
<1>6. cmt_o_valid /\ alu_need_flush
  BY <1>5 DEF alu_excp_flush_req
<1>7. icb_state = "WBCK"
  BY <1>6, AmoFacts DEF cmt_o_valid, o_valid, agu_o_valid, algnldst, unalgnldst
<1>8. leftover_err
  BY <1>6, AmoFacts DEF alu_need_flush, ifu_ilegl, ebreak4excp, unalgnldst,
                        agu_o_cmt_buserr
<1> QED
  BY <1>7, <1>8

\* No instruction that an exception, interrupt or debug entry flushes takes
\* effect.
LEMMA FlushPrecise ==
    ASSUME ExuInv
    PROVE  FlushIsPrecise
<1> SUFFICES ASSUME excpirq_flush_req
             PROVE  /\ ~alu_wbck_ena /\ ~disp_oitf_ena /\ ~agu_icb_cmd_hsked
                    /\ ~(ir.op \in {"csr", "csrd"} /\ ir_o_hsked)
                    /\ cmt_ena => alu_excp_flush_req \/ ebreak4dbg
  BY DEF FlushIsPrecise
<1>1. CASE ~cmt_o_ready
  <2>1. ~o_ready /\ ~alu_wbck_ena /\ ~cmt_ena
    BY <1>1 DEF o_ready, alu_wbck_ena, cmt_ena
  <2>2. ~agu_icb_cmd_hsked
    <3>1. CASE icb_state = "WAIT2ND"
      BY <3>1, AmoAtomic DEF AmoIsAtomic, pipe_flush_req
    <3>2. CASE icb_state # "WAIT2ND"
      BY <2>1, <3>2 DEF agu_icb_cmd_hsked, agu_icb_cmd_valid
    <3> QED
      BY <3>1, <3>2
  <2>3. ~disp_oitf_ena
    BY <2>1 DEF disp_oitf_ena, ir_o_hsked, i_ready, i_longpipe, agu_op,
                agu_i_ready, algnldst, algnamo
  <2>4. ~(ir.op \in {"csr", "csrd"} /\ ir_o_hsked)
    BY <2>1 DEF ir_o_hsked, i_ready, agu_op
  <2> QED
    BY <2>1, <2>2, <2>3, <2>4
<1>2. CASE cmt_o_ready
  <2>1. ~longp_need_flush
    BY <1>2 DEF cmt_o_ready, alu_excp_i_ready
  <2>2. ebreak4dbg \/ (~irq_req /\ ~nonalu_dbg_entry_req)
    BY <1>2 DEF cmt_o_ready, alu_excp_i_ready
  <2>3. CASE ebreak4dbg
    BY <2>3, IrFacts
       DEF ebreak4dbg, alu_wbck_ena, o_need_wbck, disp_oitf_ena, i_longpipe,
           agu_icb_cmd_hsked, agu_icb_cmd_valid, algnldst, algnamo
  <2>4. CASE ~ebreak4dbg
    <3>1. ~dbg_entry_req
      BY <2>2, <2>4
         DEF dbg_entry_req, nonalu_dbg_entry_req, dbg_irq_req, dbg_halt_req,
             dbg_ebrk_req, alu_ebreakm_flush_req
    <3>2. alu_excp_flush_req
      BY <2>1, <2>2, <2>4, <3>1
         DEF excpirq_flush_req, dbg_entry_flush_req, irq_flush_req
    <3>3. cmt_o_valid /\ alu_need_flush
      BY <3>2 DEF alu_excp_flush_req
    <3>4. wbck_o_err
      BY <3>3 DEF alu_need_flush, wbck_o_err, ebreak4excp
    <3>5. ir.op \notin {"ld", "st", "csr", "csrd"}
      BY <3>3 DEF alu_need_flush, ifu_ilegl, ebreak4excp, unalgnldst,
                  agu_o_cmt_buserr, algnamo
    <3>6. algnamo => icb_state = "WBCK"
      BY <3>3 DEF cmt_o_valid, o_valid, agu_o_valid, agu_op, algnamo,
                  algnldst, unalgnldst
    <3> QED
      BY <3>2, <3>4, <3>5, <3>6
         DEF alu_wbck_ena, o_need_wbck, disp_oitf_ena, i_longpipe,
             agu_icb_cmd_hsked, agu_icb_cmd_valid, algnldst
  <2> QED
    BY <2>3, <2>4
<1> QED
  BY <1>1, <1>2

\* While WFI holds the IFU, dispatch grants nothing and no AMO is under way.
LEMMA HaltFacts ==
    ASSUME ExuInv, wfi_halt_req
    PROVE  /\ icb_state = "IDLE" /\ ~amo_wait /\ ~i_valid /\ ~o_valid
           /\ ~cmt_o_valid /\ ~ir_o_hsked /\ ~agu_icb_cmd_hsked
<1>1. icb_state = "IDLE"
  BY DEF ExuInv, AmoInv
<1>2. ~i_valid
  BY DEF i_valid, disp_condition
<1>3. ~o_valid
  BY <1>1, <1>2 DEF o_valid, agu_o_valid
<1> QED
  BY <1>1, <1>2, <1>3
     DEF cmt_o_valid, ir_o_hsked, agu_icb_cmd_hsked, agu_icb_cmd_valid, amo_wait

\* Nothing is in flight in a sleeping core and nothing flushes it.
LEMMA SleepSafe ==
    ASSUME ExuInv
    PROVE  SleepIsSafe
<1> SUFFICES ASSUME core_wfi
             PROVE  oitf_empty /\ ~amo_wait /\ ~pipe_flush_req
  BY DEF SleepIsSafe
<1>1. wfi_halt_req /\ oitf_empty /\ ~wfi_flag_clr
  BY DEF core_wfi, ExuInv, WfiInv
<1>2. ~amo_wait /\ ~cmt_o_valid
  BY <1>1, HaltFacts
<1>3. ~longp_need_flush
  BY <1>1, RetireFacts
<1>4. ~dbg_entry_flush_req /\ ~irq_flush_req
  BY <1>1 DEF wfi_flag_clr, dbg_entry_flush_req, irq_flush_req, irq_req, wfi_irq_req
<1>5. ~alu_excp_flush_req /\ ~brchmis_flush_req
  BY <1>2 DEF alu_excp_flush_req, brchmis_flush_req
<1> QED
  BY <1>1, <1>2, <1>3, <1>4, <1>5 DEF pipe_flush_req, excpirq_flush_req

\* An empty IR dispatches and commits nothing.
LEMMA EmptyIr ==
    ASSUME ExuInv, ~ir_valid
    PROVE  /\ icb_state = "IDLE" /\ ~i_valid /\ ~cmt_o_valid
           /\ ~ir_o_hsked /\ ~agu_icb_cmd_hsked /\ ~algnamo /\ ir.op = "none"
<1>1. icb_state = "IDLE"
  BY AmoFacts
<1>2. ~i_valid /\ ir.op = "none"
  BY IrFacts DEF i_valid
<1>3. ~o_valid
  BY <1>1, <1>2 DEF o_valid, agu_o_valid
<1> QED
  BY <1>1, <1>2, <1>3
     DEF cmt_o_valid, ir_o_hsked, agu_icb_cmd_hsked, agu_icb_cmd_valid, algnamo

\* No register of the EXU's clock domain would have moved while its clock is off.
LEMMA GatingSafe ==
    ASSUME ExuInv
    PROVE  GatingLosesNothing
<1> SUFFICES ASSUME ~exu_clk_en
             PROVE  /\ ~cmt_ena /\ ~ir_o_hsked /\ ~oitf_ret_ena /\ ~pipe_flush_req
                    /\ icb_state_nxt = icb_state
  BY DEF GatingLosesNothing
<1>1. oitf_empty /\ ~ir_valid /\ ~excp_active
  BY DEF exu_clk_en
<1>2. ~cmt_o_valid /\ ~ir_o_hsked /\ icb_state = "IDLE" /\ ~algnamo
  BY <1>1, EmptyIr
<1>3. ~oitf_ret_ena /\ ~longp_need_flush
  BY <1>1, RetireFacts
<1>4. ~irq_req /\ ~nonalu_dbg_entry_req_raw
  BY <1>1 DEF excp_active, irq_req, wfi_irq_req
<1>5. ~dbg_entry_req
  BY <1>2, <1>4
     DEF dbg_entry_req, nonalu_dbg_entry_req_raw, dbg_irq_req, dbg_halt_req,
         dbg_ebrk_req, alu_ebreakm_flush_req
<1>6. ~pipe_flush_req
  BY <1>2, <1>3, <1>4, <1>5
     DEF pipe_flush_req, excpirq_flush_req, dbg_entry_flush_req, irq_flush_req,
         alu_excp_flush_req, brchmis_flush_req
<1>7. icb_state_nxt = icb_state
  BY <1>2 DEF icb_state_nxt
<1> QED
  BY <1>2, <1>3, <1>6, <1>7 DEF cmt_ena

\* Without a halt and a step asked for at once, what leaves the IR commits.
LEMMA LeavingCommits ==
    ASSUME ExuInv, ~(dcsr.halt /\ dcsr.step)
    PROVE  EveryInstrCommits
<1> SUFFICES ASSUME ir_o_hsked
             PROVE  cmt_ena
  BY DEF EveryInstrCommits
<1>1. i_valid /\ i_ready
  BY DEF ir_o_hsked
<1>2. CASE ~agu_op
  BY <1>1, <1>2 DEF i_ready, o_ready, cmt_ena, cmt_o_valid, o_valid
<1>3. CASE algnamo /\ agu_op
  <2>1. icb_state = "WBCK" /\ (o_ready \/ pipe_flush_req)
    BY <1>1, <1>3 DEF i_ready, agu_i_ready, state_wbck_exit_ena
  <2>2. o_valid
    BY <1>3, <2>1 DEF o_valid, agu_o_valid
  <2>3. CASE o_ready
    BY <2>2, <2>3 DEF o_ready, cmt_ena, cmt_o_valid
  <2>4. CASE pipe_flush_req
    <3>1. leftover_err
      BY <2>1, <2>4, AmoAtomic DEF AmoIsAtomic
    <3>2. cmt_o_valid
      BY <1>3, <2>2, <3>1 DEF cmt_o_valid, o_need_wbck, wbck_o_err, agu_o_cmt_buserr
    <3>3. oitf_empty /\ ~longp_need_flush /\ ir.op = "amo"
      BY <2>1, AmoFacts, RetireFacts
    <3>4. ~irq_req /\ ~nonalu_dbg_entry_req
      BY <2>1 DEF irq_req, nonalu_dbg_entry_req, amo_wait, ExuInv, AmoInv
    <3>5. cmt_o_ready
      BY <3>3, <3>4
         DEF cmt_o_ready, alu_excp_i_ready, ebreak4dbg, brchmis_i_ready, cmt_is_branch
    <3> QED
      BY <3>2, <3>5 DEF cmt_ena
  <2> QED
    BY <2>1, <2>3, <2>4
<1>4. CASE ~algnamo /\ agu_op
  <2>1. agu_icb_cmd_ready /\ o_ready
    BY <1>1, <1>4 DEF i_ready, agu_i_ready
  <2>2. ~irq_req /\ ~nonalu_dbg_entry_req /\ ~longp_need_flush
    BY <1>4, <2>1 DEF o_ready, cmt_o_ready, alu_excp_i_ready, ebreak4dbg, agu_op
  <2>3. icb_state = "IDLE"
    BY <1>4, AmoFacts
  <2>4. ~nonalu_dbg_entry_req_raw
    BY <2>2, <2>3 DEF nonalu_dbg_entry_req, nonalu_dbg_entry_req_raw, amo_wait
  <2>5. ~flush_block
    BY <2>2, <2>4 DEF flush_block, nonalu_excpirq_flush_req_raw
  <2>6. algnldst \/ unalgnldst
    BY <1>4, <2>5 DEF agu_op, algnldst, unalgnldst, algnamo
  <2>7. o_valid
    BY <1>1, <1>4, <2>1, <2>6 DEF o_valid, agu_o_valid
  <2> QED
    BY <2>1, <2>7 DEF o_ready, cmt_ena, cmt_o_valid
<1> QED
  BY <1>2, <1>3, <1>4

-----------------------------------------------------------------------------
(* One clock edge.                                                         *)

\* Dispatch into the OITF and the command of a load or store are one event.
LEMMA CmdFacts ==
    ASSUME ExuInv
    PROVE  /\ disp_oitf_ena <=> agu_icb_cmd_hsked /\ algnldst
           /\ agu_icb_cmd_hsked => ir_valid /\ (algnldst \/ algnamo)
           /\ agu_icb_cmd_hsked => lsu = NoCmd \/ splt_fifo_ren
           /\ algnldst => ~algnamo
           /\ algnldst /\ ir.rdwen => agu_icb_cmd_read
           /\ disp_oitf_ena \in BOOLEAN /\ oitf_ret_ena \in BOOLEAN
           /\ algnamo \in BOOLEAN
<1>1. algnldst => ~algnamo /\ agu_op
  BY DEF algnldst, algnamo, agu_op
<1>2. disp_oitf_ena <=> agu_icb_cmd_hsked /\ algnldst
  BY <1>1 DEF disp_oitf_ena, i_longpipe, ir_o_hsked, i_ready, agu_i_ready,
              agu_icb_cmd_hsked, agu_icb_cmd_valid
<1>3. agu_icb_cmd_hsked => ir_valid /\ (algnldst \/ algnamo)
  BY AmoFacts DEF agu_icb_cmd_hsked, agu_icb_cmd_valid, i_valid
<1>4. agu_icb_cmd_hsked => lsu = NoCmd \/ splt_fifo_ren
  BY DEF agu_icb_cmd_hsked, agu_icb_cmd_ready
<1>5. algnldst /\ ir.rdwen => agu_icb_cmd_read
  BY IrFacts DEF algnldst, agu_icb_cmd_read
<1> QED
  BY <1>1, <1>2, <1>3, <1>4, <1>5 DEF disp_oitf_ena, oitf_ret_ena, algnamo

\* The ALU writes a register back only when nothing else touches the registers
\* in that cycle and no instruction in flight has the same destination.
LEMMA WbckFacts ==
    ASSUME ExuInv, alu_wbck_ena
    PROVE  /\ ir.rdwen /\ ~oitfrd_match(ir.rdidx)
           /\ ~disp_oitf_ena /\ ~longp_wbck_valid /\ ~longp_need_flush
<1>1. ir.rdwen /\ ~i_longpipe /\ o_valid /\ cmt_o_ready /\ wbck_ready4alu
  BY DEF alu_wbck_ena, o_need_wbck
<1>2. i_valid
  BY <1>1, AmoFacts DEF o_valid, agu_o_valid
<1>3. ~oitfrd_match(ir.rdidx)
  BY <1>1, <1>2 DEF i_valid, disp_condition, waw_dep
<1> QED
  BY <1>1, <1>3 DEF disp_oitf_ena, wbck_ready4alu, cmt_o_ready, alu_excp_i_ready

\* What the edge does to the OITF is one of its own steps, or none.
LEMMA OitfStep ==
    ASSUME ExuInv, Cycle
    PROVE  OitfInv' /\ [OitfNext]_oitf_vars
<1> DEFINE e == [rdwen |-> ir.rdwen, rdidx |-> ir.rdidx]
<1>1. OitfInv
  BY DEF ExuInv, FlightInv, ExuTypeOK, OitfInv
<1>2. CASE ~exu_clk_en
  <2>1. UNCHANGED oitf_vars
    BY <1>2 DEF Cycle, ExuClk
  <2> QED
    BY <1>1, <2>1, OitfNextInv
<1>3. CASE exu_clk_en
  <2>1. OitfClk(disp_oitf_ena, oitf_ret_ena, e)
    BY <1>3 DEF Cycle, ExuClk
  <2>2. e \in Payload /\ disp_oitf_ena \in BOOLEAN /\ oitf_ret_ena \in BOOLEAN
    BY IrFacts, CmdFacts DEF Payload
  <2>3. dis_ready /\ (oitf_ret_ena => ~oitf_empty)
    BY LsuFacts, RetireFacts DEF ExuInv
  <2> HIDE DEF e
  <2>4. CASE disp_oitf_ena = TRUE /\ oitf_ret_ena = TRUE
    BY <1>1, <2>1, <2>2, <2>3, <2>4, OitfNextInv DEF OitfNext, DispatchAndRetire
  <2>5. CASE disp_oitf_ena = TRUE /\ oitf_ret_ena = FALSE
    BY <1>1, <2>1, <2>2, <2>3, <2>5, OitfNextInv DEF OitfNext, Dispatch
  <2>6. CASE disp_oitf_ena = FALSE /\ oitf_ret_ena = TRUE
    <3>1. OitfClk(FALSE, TRUE, ret_payload)
      BY <2>1, <2>6 DEF OitfClk, Entries
    <3> QED
      BY <1>1, <2>3, <2>6, <3>1, OitfNextInv DEF OitfNext, Retire
  <2>7. CASE disp_oitf_ena = FALSE /\ oitf_ret_ena = FALSE
    <3>1. UNCHANGED oitf_vars
      BY <1>1, <2>1, <2>7
         DEF OitfClk, AllocPtr, RetirePtr, Entries, oitf_vars, OitfInv, OitfTypeOK
    <3> QED
      BY <1>1, <3>1, OitfNextInv
  <2> QED
    BY <2>2, <2>4, <2>5, <2>6, <2>7
<1> QED
  BY <1>2, <1>3

\* The OITF is empty when it holds no instruction.
LEMMA EmptyOccupancy == OitfInv => (oitf_empty <=> Occupancy = 0)
  BY OccupancyStatus

\* The OITF after the edge: the new instruction alone, nothing, or as before.
LEMMA FlightStep ==
    ASSUME ExuInv, Cycle
    PROVE  /\ disp_oitf_ena =>
                /\ Occupancy' = 1 /\ ret_ptr' = alc_ptr /\ ~oitf_empty'
                /\ ret_payload' = [rdwen |-> ir.rdwen, rdidx |-> ir.rdidx]
           /\ ~disp_oitf_ena /\ (oitf_empty \/ oitf_ret_ena) => oitf_empty'
           /\ ~disp_oitf_ena /\ ~oitf_ret_ena => UNCHANGED oitf_vars
<1> USE OitfDepthAssumption
<1> DEFINE e == [rdwen |-> ir.rdwen, rdidx |-> ir.rdidx]
<1>1. OitfInv /\ OitfInv'
  BY OitfStep DEF ExuInv, FlightInv, ExuTypeOK, OitfInv
<1>2. (oitf_empty <=> Occupancy = 0) /\ (oitf_empty' <=> Occupancy' = 0)
  <2>1. (OitfInv => (oitf_empty <=> Occupancy = 0))'
    BY EmptyOccupancy, PTL
  <2> QED
    BY <1>1, <2>1, EmptyOccupancy
<1>3. CASE ~exu_clk_en
  <2>1. UNCHANGED oitf_vars
    BY <1>3 DEF Cycle, ExuClk
  <2>2. ~disp_oitf_ena /\ ~oitf_ret_ena
    BY <1>3, GatingSafe DEF GatingLosesNothing, disp_oitf_ena
  <2> QED
    BY <2>1, <2>2 DEF oitf_vars, oitf_empty
<1>4. CASE exu_clk_en
  <2>1. OitfClk(disp_oitf_ena, oitf_ret_ena, e)
    BY <1>4 DEF Cycle, ExuClk
  <2>2. disp_oitf_ena \in BOOLEAN /\ oitf_ret_ena \in BOOLEAN
    BY CmdFacts
  <2>3. dis_ready /\ (oitf_ret_ena => ~oitf_empty) /\ Occupancy \in {0, 1}
    BY <1>2, LsuFacts, RetireFacts DEF ExuInv
  <2>4. AllocPtr(disp_oitf_ena) /\ RetirePtr(oitf_ret_ena)
    BY <2>1 DEF OitfClk
  <2>5. Occupancy' = Occupancy + (IF disp_oitf_ena THEN 1 ELSE 0)
                               - (IF oitf_ret_ena THEN 1 ELSE 0)
    <3> HIDE DEF e
    <3> QED
      BY <1>1, <2>2, <2>3, <2>4, OccupancyStep
  <2>6. ASSUME disp_oitf_ena
        PROVE  /\ Occupancy' = 1 /\ ret_ptr' = alc_ptr /\ ret_payload' = e
    <3>1. oitf_empty \/ oitf_ret_ena
      BY <2>6, CmdFacts, LsuFacts DEF ExuInv, splt_fifo_ren, agu_icb_rsp_hsked
    <3>2. Occupancy' = 1
      BY <1>2, <2>3, <2>5, <2>6, <3>1
    <3>3. ret_ptr' = alc_ptr
      <4>1. CASE oitf_empty
        BY <2>3, <2>4, <4>1 DEF RetirePtr, oitf_empty
      <4>2. CASE ~oitf_empty
        BY <1>1, <1>2, <2>3, <2>4, <3>1, <4>2
           DEF RetirePtr, PtrNext, Occupancy, OitfInv, OitfTypeOK, Itag
      <4> QED
        BY <4>1, <4>2
    <3>4. payload'[alc_ptr] = e
      BY <1>1, <2>1, <2>6 DEF OitfClk, Entries, OitfInv, OitfTypeOK
    <3> QED
      BY <3>2, <3>3, <3>4 DEF ret_payload
  <2>7. ~disp_oitf_ena /\ (oitf_empty \/ oitf_ret_ena) => Occupancy' = 0
    BY <1>2, <2>3, <2>5
  <2>8. ~disp_oitf_ena /\ ~oitf_ret_ena => UNCHANGED oitf_vars
    BY <1>1, <2>1
       DEF OitfClk, AllocPtr, RetirePtr, Entries, oitf_vars, OitfInv, OitfTypeOK
  <2> QED
    BY <1>2, <2>6, <2>7, <2>8
<1> QED
  BY <1>3, <1>4

\* What the LSU's slot holds after the edge.
LEMMA LsuStep ==
    ASSUME ExuInv, Cycle
    PROVE  /\ agu_icb_cmd_hsked =>
                /\ lsu' \in [cmd : {IF agu_icb_cmd_read THEN "read" ELSE "write"},
                             itag : {alc_ptr}, back2agu : {algnamo},
                             rdata : IF agu_icb_cmd_read THEN Vals ELSE {"none"}]
                /\ lsu' # NoCmd
                /\ lsu'.cmd = IF agu_icb_cmd_read THEN "read" ELSE "write"
                /\ lsu'.itag = alc_ptr /\ lsu'.back2agu = algnamo
                /\ agu_icb_cmd_read => lsu'.rdata \in Vals
           /\ ~agu_icb_cmd_hsked /\ splt_fifo_ren => lsu' = NoCmd
           /\ ~agu_icb_cmd_hsked /\ ~splt_fifo_ren => lsu' = lsu
           /\ rsp' \in {"none"} \cup RspKinds
           /\ lsu' = NoCmd => rsp' = "none"
           /\ cmd_rdy' \in CmdRdyLevels
<1>1. LsuClk
  BY DEF Cycle
<1>2. agu_icb_cmd_hsked =>
        lsu' \in [cmd : {IF agu_icb_cmd_read THEN "read" ELSE "write"},
                  itag : {alc_ptr}, back2agu : {algnamo},
                  rdata : IF agu_icb_cmd_read THEN Vals ELSE {"none"}]
  BY <1>1 DEF LsuClk
<1>3. agu_icb_cmd_hsked =>
        /\ lsu'.cmd = IF agu_icb_cmd_read THEN "read" ELSE "write"
        /\ lsu'.itag = alc_ptr /\ lsu'.back2agu = algnamo
        /\ agu_icb_cmd_read => lsu'.rdata \in Vals
  BY <1>2
<1>4. agu_icb_cmd_hsked => lsu' # NoCmd
  BY <1>3 DEF NoCmd
<1>5. /\ ~agu_icb_cmd_hsked /\ splt_fifo_ren => lsu' = NoCmd
      /\ ~agu_icb_cmd_hsked /\ ~splt_fifo_ren => lsu' = lsu
  BY <1>1 DEF LsuClk
<1>6. rsp' \in {"none"} \cup RspKinds /\ (lsu' = NoCmd => rsp' = "none")
  <2>1. CASE lsu' = NoCmd
    BY <1>1, <2>1 DEF LsuClk
  <2>2. CASE lsu' # NoCmd /\ (agu_icb_cmd_hsked \/ rsp = "none")
    BY <1>1, <2>2 DEF LsuClk
  <2>3. CASE lsu' # NoCmd /\ ~(agu_icb_cmd_hsked \/ rsp = "none")
    <3>1. rsp' = rsp
      BY <1>1, <2>3 DEF LsuClk
    <3> QED
      BY <2>3, <3>1 DEF ExuInv, FlightInv, ExuTypeOK
  <2> QED
    BY <2>1, <2>2, <2>3
<1> QED
  BY <1>1, <1>2, <1>3, <1>4, <1>5, <1>6 DEF LsuClk

\* The registers after the edge: an ALU result, or a load's result and what
\* dispatch or a failed load does to the history.
LEMMA RegStep ==
    ASSUME ExuInv, Cycle
    PROVE  \/ /\ alu_wbck_ena
              /\ \E v \in Vals : /\ rf' = [rf EXCEPT ![ir.rdidx] = v]
                                 /\ arch' = [arch EXCEPT ![ir.rdidx] = v]
           \/ /\ ~alu_wbck_ena
              /\ rf' = IF longp_wbck_valid
                       THEN [rf EXCEPT ![ret_payload.rdidx] = lsu.rdata] ELSE rf
              /\ disp_oitf_ena /\ ir.rdwen =>
                    arch' = [arch EXCEPT ![ir.rdidx] = lsu'.rdata]
              /\ longp_need_flush /\ ret_payload.rdwen =>
                    arch' = [arch EXCEPT ![ret_payload.rdidx] = rf[ret_payload.rdidx]]
              /\ ~(disp_oitf_ena /\ ir.rdwen)
                 /\ ~(longp_need_flush /\ ret_payload.rdwen) => arch' = arch
<1>1. disp_oitf_ena => ~longp_need_flush
  BY FlushPrecise DEF FlushIsPrecise, excpirq_flush_req
<1>2. CASE ~exu_clk_en
  <2>1. rf' = rf /\ arch' = arch
    BY <1>2 DEF Cycle, ExuClk
  <2>2. ~alu_wbck_ena /\ ~disp_oitf_ena /\ ~oitf_ret_ena
    BY <1>2, GatingSafe DEF GatingLosesNothing, disp_oitf_ena, alu_wbck_ena,
                            cmt_ena, cmt_o_valid
  <2> QED
    BY <2>1, <2>2 DEF longp_wbck_valid, longp_need_flush
<1>3. CASE exu_clk_en
  <2>1. RegfileClk
    BY <1>3 DEF Cycle, ExuClk
  <2>2. CASE alu_wbck_ena
    <3>1. leftover \in Vals
      BY DEF ExuInv, FlightInv, ExuTypeOK
    <3>2. ~longp_need_flush
      BY <2>2, WbckFacts
    <3>3. PICK v \in IF ~alu_wbck_ena THEN {leftover}
                     ELSE IF ir.op = "amo" THEN {leftover} ELSE Vals :
            /\ rf' = CASE alu_wbck_ena     -> [rf EXCEPT ![ir.rdidx] = v]
                       [] longp_wbck_valid ->
                              [rf EXCEPT ![ret_payload.rdidx] = lsu.rdata]
                       [] OTHER            -> rf
            /\ arch' =
                 LET failed == IF longp_need_flush /\ ret_payload.rdwen
                               THEN [arch EXCEPT ![ret_payload.rdidx] =
                                                     rf[ret_payload.rdidx]]
                               ELSE arch
                 IN CASE alu_wbck_ena -> [failed EXCEPT ![ir.rdidx] = v]
                      [] disp_oitf_ena /\ ir.rdwen ->
                             [failed EXCEPT ![ir.rdidx] = lsu'.rdata]
                      [] OTHER -> failed
      BY <2>1 DEF RegfileClk
    <3>4. v \in Vals
      BY <2>2, <3>1, <3>3
    <3>5. ~longp_wbck_valid /\ ~disp_oitf_ena
      BY <2>2, WbckFacts
    <3>6. rf' = [rf EXCEPT ![ir.rdidx] = v]
      BY <2>2, <3>3, <3>5
    <3>7. arch' = [arch EXCEPT ![ir.rdidx] = v]
      BY <2>2, <3>2, <3>3, <3>5
    <3> QED
      BY <2>2, <3>4, <3>6, <3>7
  <2>3. CASE ~alu_wbck_ena
    BY <1>1, <2>1, <2>3 DEF RegfileClk
  <2> QED
    BY <2>2, <2>3
<1> QED
  BY <1>2, <1>3

\* A load's result is a data value.
LEMMA LoadValue ==
    ASSUME ExuInv, longp_wbck_valid
    PROVE  /\ lsu.rdata \in Vals /\ ret_payload.rdidx \in RfIdx
           /\ arch[ret_payload.rdidx] = lsu.rdata
<1>1. ~oitf_empty /\ ret_payload.rdwen
  BY RetireFacts DEF longp_wbck_valid
<1>2. lsu # NoCmd /\ ~lsu.back2agu
  BY <1>1, LsuFacts DEF ExuInv
<1> QED
  BY <1>1, <1>2, LsuFacts DEF ExuInv, FlightInv, LsuInv, Payload

\* The registers keep their types.
LEMMA RegTypeStep ==
    ASSUME ExuInv, Cycle
    PROVE  rf' \in [RfIdx -> Vals] /\ arch' \in [RfIdx -> Vals]
<1>1. rf \in [RfIdx -> Vals] /\ arch \in [RfIdx -> Vals]
  BY DEF ExuInv, FlightInv, ExuTypeOK
<1>2. ir.rdidx \in RfIdx
  BY IrFacts
<1>3. disp_oitf_ena /\ ir.rdwen => lsu'.rdata \in Vals
  BY CmdFacts, LsuStep
<1>4. ret_payload.rdidx \in RfIdx
  BY LsuFacts DEF ExuInv, Payload
<1>5. CASE alu_wbck_ena
  BY <1>1, <1>2, <1>5, RegStep
<1>6. CASE ~alu_wbck_ena
  BY <1>1, <1>2, <1>3, <1>4, <1>6, RegStep, LoadValue
<1> QED
  BY <1>5, <1>6

\* The IFU's side of the edge; an instruction that neither leaves nor is
\* flushed stays in the IR.
LEMMA IfuStep ==
    ASSUME ExuInv, Cycle
    PROVE  /\ ir' \in Instr \cup {NoInstr} /\ ir_valid' \in BOOLEAN
           /\ ir_pc_vld' \in BOOLEAN /\ halt_ack' \in BOOLEAN
           /\ ir_valid' <=> ir' # NoInstr
           /\ ir_valid /\ ~ir_o_hsked /\ ~pipe_flush_req => ir' = ir
<1>1. IfuClk
  BY DEF Cycle
<1>2. /\ ir \in Instr \cup {NoInstr} /\ ir_valid \in BOOLEAN
      /\ ir_pc_vld \in BOOLEAN /\ halt_ack \in BOOLEAN
      /\ ir_valid <=> ir # NoInstr
  BY DEF ExuInv, FlightInv, ExuTypeOK, IrInv
<1>3. CASE core_wfi
  BY <1>1, <1>2, <1>3 DEF IfuClk, ifu_vars
<1>4. CASE ~core_wfi
  <2>1. ir' \in Instr \cup {NoInstr}
    BY <1>1, <1>2, <1>4 DEF IfuClk
  <2>2. ir_valid' = (ir' # NoInstr)
    BY <1>1, <1>4 DEF IfuClk
  <2>3. ir_pc_vld' \in BOOLEAN
    BY <1>1, <1>2, <1>4, <2>2 DEF IfuClk
  <2>4. halt_ack' \in BOOLEAN
    BY <1>1, <1>2, <1>4 DEF IfuClk
  <2>5. ir_valid /\ ~ir_o_hsked /\ ~pipe_flush_req => ir' = ir
    BY <1>1, <1>4 DEF IfuClk, ir_valid_clr
  <2> QED
    BY <2>1, <2>2, <2>3, <2>4, <2>5
<1> QED
  BY <1>3, <1>4

\* The commit stage's registers keep their types.
LEMMA CmtTypeStep ==
    ASSUME ExuInv, Cycle
    PROVE  /\ wfi_flag' \in BOOLEAN /\ wfi_halt_req' \in BOOLEAN
           /\ step_req' \in BOOLEAN /\ mie' \in BOOLEAN /\ mpie' \in BOOLEAN
           /\ dcause' \in {0, 1, 3, 4, 5} /\ stepped' \in 0 .. 2
           /\ dcsr' \in [halt : BOOLEAN, step : BOOLEAN, ebreakm : BOOLEAN]
<1>1. /\ wfi_flag \in BOOLEAN /\ wfi_halt_req \in BOOLEAN
      /\ step_req \in BOOLEAN /\ mie \in BOOLEAN /\ mpie \in BOOLEAN
      /\ dcause \in {0, 1, 3, 4, 5} /\ stepped \in 0 .. 2
      /\ dcsr \in [halt : BOOLEAN, step : BOOLEAN, ebreakm : BOOLEAN]
  BY DEF ExuInv, FlightInv, ExuTypeOK
<1>2. CASE ~exu_clk_en
  <2>1. UNCHANGED cmt_vars /\ stepped' = stepped
    BY <1>2 DEF Cycle, ExuClk
  <2> QED
    BY <1>1, <2>1 DEF cmt_vars
<1>3. CASE exu_clk_en
  <2>1. WfiClk /\ MstatusClk /\ DebugClk
    BY <1>3 DEF Cycle, ExuClk
  <2>2. wfi_flag' \in BOOLEAN /\ wfi_halt_req' \in BOOLEAN
    BY <2>1 DEF WfiClk
  <2>3. mie' \in BOOLEAN /\ mpie' \in BOOLEAN
    BY <1>1, <2>1 DEF MstatusClk
  <2>4. step_req' \in BOOLEAN
    BY <2>1 DEF DebugClk
  <2>5. set_dcause_nxt \in {1, 3, 4, 5}
    BY DEF set_dcause_nxt
  <2>6. dcause' \in {0, 1, 3, 4, 5}
    BY <1>1, <2>1, <2>5 DEF DebugClk
  <2>7. stepped' \in 0 .. 2
    BY <1>1, <2>1 DEF DebugClk, dbg_mode
  <2>8. dcsr' \in [halt : BOOLEAN, step : BOOLEAN, ebreakm : BOOLEAN]
    <3>1. dcsr' \in DcsrWrites \cup {dcsr}
      BY <2>1 DEF DebugClk
    <3> QED
      BY <1>1, <3>1, ExuAssumption
  <2> QED
    BY <2>2, <2>3, <2>4, <2>6, <2>7, <2>8
<1> QED
  BY <1>2, <1>3

\* So do the AGU's.
LEMMA AguTypeStep ==
    ASSUME ExuInv, Cycle
    PROVE  /\ icb_state' \in {"IDLE", "1ST", "AMOALU", "AMORDY", "WAIT2ND", "2ND",
                              "WBCK"}
           /\ leftover' \in Vals /\ leftover_err' \in BOOLEAN
<1>1. /\ icb_state \in {"IDLE", "1ST", "AMOALU", "AMORDY", "WAIT2ND", "2ND", "WBCK"}
      /\ leftover \in Vals /\ leftover_err \in BOOLEAN
  BY DEF ExuInv, FlightInv, ExuTypeOK
<1>2. CASE ~exu_clk_en
  BY <1>1, <1>2 DEF Cycle, ExuClk, agu_vars
<1>3. CASE exu_clk_en
  <2>1. AguClk
    BY <1>3 DEF Cycle, ExuClk
  <2>2. icb_state_nxt \in {"IDLE", "1ST", "AMOALU", "AMORDY", "WAIT2ND", "2ND", "WBCK"}
    BY <1>1 DEF icb_state_nxt
  <2>3. icb_state = "1ST" => lsu.rdata \in Vals
    BY DEF ExuInv, AmoInv, FlightInv, LsuInv
  <2>4. leftover' \in Vals
    BY <1>1, <2>1, <2>3 DEF AguClk
  <2>5. leftover_err' \in BOOLEAN
    BY <1>1, <2>1 DEF AguClk
  <2> QED
    BY <2>1, <2>2, <2>4, <2>5 DEF AguClk
<1> QED
  BY <1>2, <1>3

\* Every register of the stage keeps its type.
LEMMA TypeStep ==
    ASSUME ExuInv, Cycle
    PROVE  ExuTypeOK' /\ VldBetweenPointers'
<1>1. OitfTypeOK' /\ VldBetweenPointers'
  BY OitfStep DEF OitfInv
<1>2. irq_req_raw' \in IrqLevels /\ dbg_irq_r' \in DbgLevels
  BY DEF Cycle, IrqClk
<1>3. lsu' \in [cmd : {"none", "read", "write"}, itag : Itag, back2agu : BOOLEAN,
                rdata : Vals \cup {"none"}]
  <2>1. alc_ptr \in Itag /\ 0 \in Itag
    BY OitfDepthAssumption DEF ExuInv, FlightInv, ExuTypeOK, OitfTypeOK, Itag
  <2>2. CASE agu_icb_cmd_hsked
    BY <2>1, <2>2, LsuStep, CmdFacts
  <2>3. CASE ~agu_icb_cmd_hsked
    <3>1. lsu' = NoCmd \/ lsu' = lsu
      BY <2>3, LsuStep
    <3>2. NoCmd \in [cmd : {"none", "read", "write"}, itag : Itag,
                     back2agu : BOOLEAN, rdata : Vals \cup {"none"}]
      BY <2>1 DEF NoCmd
    <3> QED
      BY <3>1, <3>2 DEF ExuInv, FlightInv, ExuTypeOK
  <2> QED
    BY <2>2, <2>3
<1> QED
  BY <1>1, <1>2, <1>3, LsuStep, RegTypeStep, IfuStep, CmtTypeStep, AguTypeStep
     DEF ExuTypeOK

\* The slot and the OITF go on counting the same instructions.
LEMMA LsuInvStep ==
    ASSUME ExuInv, Cycle
    PROVE  LsuInv'
<1>1. arch \in [RfIdx -> Vals] /\ ir.rdidx \in RfIdx
  BY IrFacts DEF ExuInv, FlightInv, ExuTypeOK
<1>2. CASE disp_oitf_ena
  <2>1. agu_icb_cmd_hsked /\ algnldst /\ ~algnamo
    BY <1>2, CmdFacts
  <2>2. /\ lsu' # NoCmd /\ lsu'.cmd \in {"read", "write"}
        /\ lsu'.itag = alc_ptr /\ ~lsu'.back2agu
        /\ agu_icb_cmd_read => lsu'.cmd = "read"
        /\ lsu'.cmd = "read" => lsu'.rdata \in Vals
    BY <2>1, LsuStep
  <2>3. /\ Occupancy' = 1 /\ ret_ptr' = alc_ptr
        /\ ret_payload'.rdwen = ir.rdwen /\ ret_payload'.rdidx = ir.rdidx
    BY <1>2, FlightStep
  <2>4. ir.rdwen => lsu'.cmd = "read" /\ arch'[ir.rdidx] = lsu'.rdata
    <3>1. ~alu_wbck_ena
      BY <1>2, WbckFacts
    <3> QED
      BY <1>1, <1>2, <2>1, <2>2, <3>1, RegStep, CmdFacts
  <2> QED
    BY <2>2, <2>3, <2>4 DEF LsuInv
<1>3. CASE ~disp_oitf_ena /\ agu_icb_cmd_hsked
  <2>1. algnamo = TRUE
    BY <1>3, CmdFacts
  <2>2. /\ lsu' # NoCmd /\ lsu'.cmd \in {"read", "write"} /\ lsu'.back2agu
        /\ lsu'.cmd = "read" => lsu'.rdata \in Vals
    BY <1>3, <2>1, LsuStep
  <2>3. oitf_empty'
    BY <1>3, FlightStep, CmdFacts, LsuFacts
       DEF ExuInv, splt_fifo_ren, agu_icb_rsp_hsked
  <2> QED
    BY <2>2, <2>3 DEF LsuInv
<1>4. CASE ~agu_icb_cmd_hsked /\ splt_fifo_ren
  <2>1. lsu' = NoCmd /\ rsp' = "none" /\ ~disp_oitf_ena
    BY <1>4, LsuStep, CmdFacts
  <2>2. oitf_empty'
    BY <1>4, <2>1, FlightStep, LsuFacts DEF ExuInv, splt_fifo_ren, agu_icb_rsp_hsked
  <2>3. NoCmd.cmd = "none"
    BY DEF NoCmd
  <2> QED
    BY <2>1, <2>2, <2>3 DEF LsuInv
<1>5. CASE ~agu_icb_cmd_hsked /\ ~splt_fifo_ren
  <2>1. lsu' = lsu /\ ~disp_oitf_ena /\ ~oitf_ret_ena
    BY <1>5, LsuStep, CmdFacts DEF splt_fifo_ren
  <2>2. UNCHANGED oitf_vars
    BY <2>1, FlightStep
  <2>3. /\ oitf_empty' <=> oitf_empty
        /\ ret_ptr' = ret_ptr /\ Occupancy' = Occupancy /\ ret_payload' = ret_payload
    BY <2>2 DEF oitf_vars, oitf_empty, Occupancy, ret_payload
  <2>4. ASSUME lsu # NoCmd, ~lsu.back2agu, ret_payload.rdwen
        PROVE  arch'[ret_payload.rdidx] = arch[ret_payload.rdidx]
    <3>1. ~oitf_empty /\ ret_payload.rdidx \in RfIdx
      BY <2>4, LsuFacts DEF ExuInv, Payload
    <3>2. oitfrd_match(ret_payload.rdidx)
      BY <2>4, <3>1, MatchFacts DEF ExuInv
    <3>3. alu_wbck_ena => ir.rdidx # ret_payload.rdidx
      BY <3>2, WbckFacts
    <3>4. ~longp_need_flush
      BY <2>1 DEF longp_need_flush
    <3> QED
      BY <1>1, <2>1, <3>1, <3>3, <3>4, RegStep
  <2> QED
    BY <2>1, <2>3, <2>4, LsuStep DEF ExuInv, FlightInv, LsuInv
<1> QED
  BY <1>2, <1>3, <1>4, <1>5

\* The register file stays that of the program order, but for the one register
\* that the load in flight will write.
LEMMA RegfileStep ==
    ASSUME ExuInv, Cycle
    PROVE  RegfileArchitectural'
<1>1. FlightInv'
  BY TypeStep, LsuInvStep DEF FlightInv
<1>2. ASSUME NEW r
      PROVE  oitfrd_match(r)' <=>
                 ~oitf_empty' /\ ret_payload'.rdwen /\ ret_payload'.rdidx = r
  <2>1. (FlightInv => \A q : oitfrd_match(q) <=>
            ~oitf_empty /\ ret_payload.rdwen /\ ret_payload.rdidx = q)'
    BY FlightMatch, PTL
  <2> QED
    BY <1>1, <2>1
<1>3. /\ rf \in [RfIdx -> Vals] /\ arch \in [RfIdx -> Vals]
      /\ ir.rdidx \in RfIdx /\ ret_payload.rdidx \in RfIdx
  BY IrFacts, LsuFacts DEF ExuInv, FlightInv, ExuTypeOK, Payload
<1>4. ASSUME NEW r \in RfIdx, ~oitfrd_match(r)'
      PROVE  rf'[r] = arch'[r]
  <2>1. ~oitfrd_match(r) => rf[r] = arch[r]
    BY DEF ExuInv, RegfileArchitectural
  <2>2. oitfrd_match(r) <=> ~oitf_empty /\ ret_payload.rdwen /\ ret_payload.rdidx = r
    BY MatchFacts DEF ExuInv
  <2>3. CASE alu_wbck_ena
    <3>1. CASE r = ir.rdidx
      BY <1>3, <2>3, <3>1, RegStep
    <3>2. CASE r # ir.rdidx
      <4>1. rf'[r] = rf[r] /\ arch'[r] = arch[r]
        BY <1>3, <2>3, <3>2, RegStep
      <4>2. ~oitf_ret_ena => UNCHANGED oitf_vars
        BY <2>3, WbckFacts, FlightStep
      <4>3. oitf_ret_ena => ~ret_payload.rdwen
        BY <2>3, WbckFacts, ExuAssumption
           DEF longp_wbck_valid, longp_need_flush, oitf_ret_ena, lsu_o_valid,
               ExuInv, FlightInv, ExuTypeOK
      <4>4. ~oitf_ret_ena => (oitfrd_match(r)' <=> oitfrd_match(r))
        BY <4>2 DEF oitfrd_match, oitf_vars
      <4> QED
        BY <1>4, <2>1, <2>2, <4>1, <4>3, <4>4
    <3> QED
      BY <3>1, <3>2
  <2>4. CASE ~alu_wbck_ena /\ disp_oitf_ena
    <3>1. ir.rdwen => r # ir.rdidx
      BY <1>2, <1>4, <2>4, FlightStep
    <3>2. ~longp_need_flush
      BY <2>4, FlushPrecise DEF FlushIsPrecise, excpirq_flush_req
    <3>3. arch'[r] = arch[r]
      BY <1>3, <2>4, <3>1, <3>2, RegStep
    <3>4. CASE longp_wbck_valid /\ r = ret_payload.rdidx
      BY <1>3, <2>4, <3>3, <3>4, RegStep, LoadValue
    <3>5. CASE ~(longp_wbck_valid /\ r = ret_payload.rdidx)
      <4>1. rf'[r] = rf[r]
        BY <1>3, <2>4, <3>5, RegStep
      <4>2. oitf_empty \/ oitf_ret_ena
        BY <2>4, CmdFacts, LsuFacts DEF ExuInv, splt_fifo_ren, agu_icb_rsp_hsked
      <4>3. ~oitfrd_match(r)
        BY <2>2, <3>2, <3>5, <4>2, ExuAssumption
           DEF longp_wbck_valid, longp_need_flush, oitf_ret_ena, lsu_o_valid,
               ExuInv, FlightInv, ExuTypeOK
      <4> QED
        BY <2>1, <3>3, <4>1, <4>3
    <3> QED
      BY <3>4, <3>5
  <2>5. CASE ~alu_wbck_ena /\ ~disp_oitf_ena /\ oitf_ret_ena
    <3>1. CASE ret_payload.rdwen /\ r = ret_payload.rdidx
      <4>1. CASE rsp = "ok"
        <5>1. longp_wbck_valid /\ ~longp_need_flush
          BY <2>5, <3>1, <4>1 DEF longp_wbck_valid, longp_need_flush
        <5> QED
          BY <1>3, <2>5, <3>1, <5>1, RegStep, LoadValue
      <4>2. CASE rsp = "err"
        <5>1. ~longp_wbck_valid /\ longp_need_flush
          BY <2>5, <4>2 DEF longp_wbck_valid, longp_need_flush
        <5> QED
          BY <1>3, <2>5, <3>1, <5>1, RegStep
      <4>3. rsp = "ok" \/ rsp = "err"
        BY <2>5, ExuAssumption DEF oitf_ret_ena, lsu_o_valid, ExuInv, FlightInv, ExuTypeOK
      <4> QED
        BY <4>1, <4>2, <4>3
    <3>2. CASE ~(ret_payload.rdwen /\ r = ret_payload.rdidx)
      BY <1>3, <2>1, <2>2, <2>5, <3>2, RegStep DEF longp_wbck_valid
    <3> QED
      BY <3>1, <3>2
  <2>6. CASE ~alu_wbck_ena /\ ~disp_oitf_ena /\ ~oitf_ret_ena
    <3>1. UNCHANGED oitf_vars
      BY <2>6, FlightStep
    <3>2. oitfrd_match(r)' <=> oitfrd_match(r)
      BY <3>1 DEF oitfrd_match, oitf_vars
    <3>3. rf' = rf /\ arch' = arch
      BY <2>6, RegStep DEF longp_wbck_valid, longp_need_flush
    <3> QED
      BY <1>4, <2>1, <3>2, <3>3
  <2> QED
    BY <2>3, <2>4, <2>5, <2>6
<1> QED
  BY <1>4 DEF RegfileArchitectural

\* An AMO under way neither commits nor leaves the IR before its last state.
LEMMA AmoStays ==
    ASSUME ExuInv, Cycle, icb_state # "IDLE", icb_state' # "IDLE"
    PROVE  ir' = ir /\ ~cmt_ena /\ ~pipe_flush_req /\ exu_clk_en
           /\ icb_state' = icb_state_nxt
<1>1. exu_clk_en /\ AguClk
  BY AmoFacts DEF exu_clk_en, Cycle, ExuClk
<1>2. icb_state' = icb_state_nxt
  BY <1>1 DEF AguClk
<1>3. icb_state \in {"1ST", "AMOALU", "AMORDY", "WAIT2ND", "2ND", "WBCK"}
  BY DEF ExuInv, FlightInv, ExuTypeOK
<1>4. ~pipe_flush_req
  <2> SUFFICES ASSUME pipe_flush_req
               PROVE  icb_state' = "IDLE"
    OBVIOUS
  <2>1. icb_state = "WBCK" /\ state_wbck_exit_ena
    BY AmoAtomic DEF AmoIsAtomic, state_wbck_exit_ena
  <2> QED
    BY <1>2, <2>1 DEF icb_state_nxt
<1>5. icb_state = "WBCK" => ~o_ready
  BY <1>2 DEF icb_state_nxt, state_wbck_exit_ena
<1>6. ~cmt_ena
  <2>1. o_valid => icb_state = "WBCK"
    BY AmoFacts DEF o_valid, agu_o_valid, algnldst, unalgnldst
  <2> QED
    BY <1>5, <2>1 DEF cmt_ena, cmt_o_valid, o_ready
<1>7. ~ir_o_hsked
  BY <1>4, <1>5, AmoFacts DEF ir_o_hsked, i_ready, agu_i_ready, state_wbck_exit_ena
<1>8. ir' = ir
  BY <1>4, <1>7, AmoFacts, IfuStep
<1> QED
  BY <1>1, <1>2, <1>4, <1>6, <1>8

\* What holds while an AMO is under way goes on holding.
LEMMA AmoInvStep ==
    ASSUME ExuInv, Cycle
    PROVE  AmoInv'
<1> SUFFICES ASSUME icb_state' # "IDLE"
             PROVE  AmoInv'
  BY DEF AmoInv
<1>1. CASE icb_state # "IDLE"
  <2>1. ir' = ir /\ ~cmt_ena /\ ~pipe_flush_req /\ exu_clk_en
    BY <1>1, AmoStays
  <2>2. ir.op = "amo" /\ ~step_req /\ ~wfi_halt_req
    BY <1>1 DEF ExuInv, AmoInv
  <2>3. ~step_req' /\ ~wfi_halt_req'
    BY <2>1, <2>2 DEF Cycle, ExuClk, DebugClk, WfiClk
  <2>4. icb_state' = icb_state_nxt
    BY <1>1, AmoStays
  <2>5. oitf_empty /\ algnamo /\ ~oitf_ret_ena /\ ~algnldst
    BY <1>1, <2>2, AmoFacts, RetireFacts DEF algnldst
  <2>6. CASE icb_state \in {"1ST", "2ND"}
    <3>1. ~agu_icb_cmd_hsked
      BY <2>5, <2>6 DEF agu_icb_cmd_hsked, agu_icb_cmd_valid
    <3>2. splt_fifo_ren <=> agu_icb_rsp_hsked
      BY <2>5 DEF splt_fifo_ren
    <3>3. lsu # NoCmd /\ lsu.back2agu /\ (icb_state = "1ST" => lsu.cmd = "read")
      BY <1>1, <2>6 DEF ExuInv, AmoInv
    <3>4. IF agu_icb_rsp_hsked
          THEN lsu' = NoCmd /\ icb_state' \in {"AMOALU", "WBCK"}
          ELSE lsu' = lsu /\ icb_state' = icb_state
      BY <2>1, <2>4, <2>6, <3>1, <3>2, LsuStep DEF icb_state_nxt
    <3> QED
      BY <2>1, <2>2, <2>3, <2>6, <3>3, <3>4 DEF AmoInv
  <2>7. CASE icb_state = "WAIT2ND"
    <3>1. lsu = NoCmd /\ ~splt_fifo_ren
      BY <1>1, <2>5, <2>7, LsuFacts
         DEF ExuInv, AmoInv, splt_fifo_ren, agu_icb_rsp_hsked
    <3>2. agu_icb_cmd_hsked <=> agu_icb_cmd_ready
      BY <2>5, <2>7 DEF agu_icb_cmd_hsked, agu_icb_cmd_valid
    <3>3. IF agu_icb_cmd_ready
          THEN lsu' # NoCmd /\ lsu'.back2agu /\ icb_state' = "2ND"
          ELSE lsu' = NoCmd /\ icb_state' = "WAIT2ND"
      BY <2>1, <2>4, <2>5, <2>7, <3>1, <3>2, LsuStep, CmdFacts DEF icb_state_nxt
    <3> QED
      BY <2>1, <2>2, <2>3, <3>3 DEF AmoInv
  <2>8. CASE icb_state \in {"AMOALU", "AMORDY", "WBCK"}
    <3>1. ~agu_icb_cmd_hsked
      BY <2>5, <2>8 DEF agu_icb_cmd_hsked, agu_icb_cmd_valid
    <3>2. lsu' = NoCmd
      BY <1>1, <2>8, <3>1, LsuStep DEF ExuInv, AmoInv
    <3>3. icb_state' \in {"AMORDY", "WAIT2ND", "WBCK"}
      BY <2>1, <2>4, <2>8 DEF icb_state_nxt
    <3> QED
      BY <2>1, <2>2, <2>3, <3>2, <3>3 DEF AmoInv
  <2> QED
    BY <1>1, <2>6, <2>7, <2>8 DEF ExuInv, FlightInv, ExuTypeOK
<1>2. CASE icb_state = "IDLE"
  <2>1. exu_clk_en
    BY <1>2 DEF Cycle, ExuClk, agu_vars
  <2>2. /\ icb_state' = "1ST" /\ algnamo /\ agu_icb_cmd_hsked /\ ~pipe_flush_req
    BY <1>2, <2>1 DEF Cycle, ExuClk, AguClk, icb_state_nxt
  <2>3. ir.op = "amo" /\ agu_op /\ ~algnldst /\ ~flush_block
    BY <2>2 DEF algnamo, agu_op, algnldst
  <2>4. ir_valid /\ i_valid
    BY <1>2, <2>2, <2>3 DEF agu_icb_cmd_hsked, agu_icb_cmd_valid, i_valid
  <2>5. ~step_req
    BY <1>2, <2>3 DEF flush_block, nonalu_excpirq_flush_req_raw,
                      nonalu_dbg_entry_req_raw, ExuInv, StepInv
  <2>6. ~cmt_ena
    BY <1>2, <2>3 DEF cmt_ena, cmt_o_valid, o_valid, agu_o_valid, unalgnldst
  <2>7. ~wfi_halt_req
    BY <2>4 DEF i_valid, disp_condition
  <2>8. ~step_req' /\ ~wfi_halt_req'
    BY <2>1, <2>3, <2>5, <2>6, <2>7 DEF Cycle, ExuClk, DebugClk, WfiClk
  <2>9. ir' = ir
    <3>1. ~ir_o_hsked
      BY <1>2, <2>2, <2>3 DEF ir_o_hsked, i_ready, agu_i_ready, state_wbck_exit_ena
    <3> QED
      BY <2>2, <2>4, <3>1, IfuStep
  <2>10. lsu' # NoCmd /\ lsu'.back2agu /\ lsu'.cmd = "read"
    <3>1. agu_icb_cmd_read
      BY <1>2, <2>2 DEF agu_icb_cmd_read
    <3> QED
      BY <2>2, <3>1, LsuStep
  <2> QED
    BY <2>2, <2>3, <2>8, <2>9, <2>10 DEF AmoInv
<1> QED
  BY <1>1, <1>2

\* A core that waits for an interrupt still has nothing in flight.
LEMMA WfiInvStep ==
    ASSUME ExuInv, Cycle
    PROVE  WfiInv'
<1> SUFFICES ASSUME wfi_flag'
             PROVE  wfi_halt_req' /\ oitf_empty'
  BY DEF WfiInv
<1>1. CASE ~exu_clk_en
  BY <1>1 DEF Cycle, ExuClk, cmt_vars, oitf_vars, oitf_empty, ExuInv, WfiInv
<1>2. CASE exu_clk_en
  <2>1. ~wfi_flag_clr /\ (wfi_flag \/ wfi_req_hsked)
    BY <1>2 DEF Cycle, ExuClk, WfiClk
  <2>2. wfi_halt_req /\ oitf_empty
    BY <2>1 DEF wfi_req_hsked, wfi_halt_ifu_req, wfi_halt_exu_ack, ExuInv, WfiInv
  <2>3. wfi_halt_req'
    BY <1>2, <2>1, <2>2 DEF Cycle, ExuClk, WfiClk
  <2>4. ~disp_oitf_ena
    BY <2>2, HaltFacts DEF disp_oitf_ena
  <2> QED
    BY <2>2, <2>3, <2>4, FlightStep
<1> QED
  BY <1>1, <1>2

\* A single step still ends with its first instruction.
LEMMA StepInvStep ==
    ASSUME ExuInv, Cycle
    PROVE  StepInv'
<1>1. CASE ~exu_clk_en
  <2>1. UNCHANGED <<step_req, dcause, dcsr, stepped>>
    BY <1>1 DEF Cycle, ExuClk, cmt_vars
  <2> QED
    BY <2>1 DEF StepInv, dbg_mode, ExuInv
<1>2. CASE exu_clk_en
  <2>1. DebugClk
    BY <1>2 DEF Cycle, ExuClk
  <2>2. set_dcause_nxt \in {1, 3, 4, 5}
    BY DEF set_dcause_nxt
  <2>3. /\ dcause \in {0, 1, 3, 4, 5} /\ stepped \in 0 .. 2 /\ step_req \in BOOLEAN
        /\ step_req => dcause = 0
        /\ dcause # 0 \/ ~dcsr.step \/ stepped = 0 \/ (stepped = 1 /\ step_req)
    BY DEF ExuInv, FlightInv, ExuTypeOK, StepInv, dbg_mode
  <2>4. CASE dbg_entry_flush_req
    <3>1. dcause' = set_dcause_nxt
      BY <2>1, <2>4 DEF DebugClk
    <3>2. ~step_req'
      BY <2>1, <2>4 DEF DebugClk
    <3> QED
      BY <2>2, <3>1, <3>2 DEF StepInv, dbg_mode
  <2>5. CASE ~dbg_entry_flush_req /\ dcause # 0
    <3>1. stepped' = 0 /\ ~step_req'
      BY <2>1, <2>3, <2>5 DEF DebugClk, dbg_mode
    <3> QED
      BY <3>1 DEF StepInv
  <2>6. CASE ~dbg_entry_flush_req /\ dcause = 0
    <3>1. dcause' = 0 /\ dcsr' = dcsr
      BY <2>1, <2>6 DEF DebugClk, dbg_mode
    <3>2. step_req => ~cmt_ena
      BY <2>6 DEF cmt_ena, cmt_o_ready, alu_excp_i_ready, nonalu_dbg_entry_req, dbg_mode,
                  dbg_entry_flush_req, dbg_entry_req
    <3>3. (dcsr.step /\ cmt_ena => step_req') /\ (step_req => step_req')
      BY <2>1, <2>6 DEF DebugClk, dbg_mode
    <3>4. stepped' = IF cmt_ena /\ stepped < 2 THEN stepped + 1 ELSE stepped
      BY <2>1, <2>6 DEF DebugClk, dbg_mode
    <3>5. CASE cmt_ena
      <4>1. dcsr.step => stepped = 0
        BY <2>3, <2>6, <3>2, <3>5
      <4>2. dcsr.step => stepped' = 1 /\ step_req'
        BY <2>3, <3>3, <3>4, <3>5, <4>1
      <4> QED
        BY <3>1, <4>2 DEF StepInv, dbg_mode
    <3>6. CASE ~cmt_ena
      <4>1. stepped' = stepped /\ (step_req => step_req')
        BY <3>3, <3>4, <3>6
      <4> QED
        BY <2>3, <2>6, <3>1, <4>1 DEF StepInv, dbg_mode
    <3> QED
      BY <3>5, <3>6
  <2> QED
    BY <2>4, <2>5, <2>6
<1> QED
  BY <1>1, <1>2

-----------------------------------------------------------------------------
(* The inductive invariant.                                                *)

\* Reset is in the invariant.
LEMMA ExuInitInv == ExuInit => ExuInv
<1> SUFFICES ASSUME ExuInit
             PROVE  ExuInv
  OBVIOUS
<1> USE DEF ExuInit
<1>1. OitfTypeOK /\ VldBetweenPointers
  BY OitfInitInv DEF OitfInv
<1>2. oitf_empty /\ 0 \in Itag
  BY OitfDepthAssumption DEF OitfInit, oitf_empty, Itag
<1>3. NoCmd.cmd = "none" /\ NoCmd.back2agu = FALSE
  BY DEF NoCmd
<1>4. NoCmd \in [cmd : {"none", "read", "write"}, itag : Itag, back2agu : BOOLEAN,
                 rdata : Vals \cup {"none"}]
  BY <1>2 DEF NoCmd
<1>5. ExuTypeOK
  <2>1. rf \in [RfIdx -> Vals] /\ arch \in [RfIdx -> Vals]
    OBVIOUS
  <2>2. dcsr \in [halt : BOOLEAN, step : BOOLEAN, ebreakm : BOOLEAN]
    OBVIOUS
  <2>3. lsu = NoCmd /\ ir = NoInstr
    OBVIOUS
  <2>4. /\ ir_valid \in BOOLEAN /\ ir_pc_vld \in BOOLEAN /\ halt_ack \in BOOLEAN
        /\ leftover_err \in BOOLEAN /\ wfi_flag \in BOOLEAN /\ wfi_halt_req \in BOOLEAN
        /\ step_req \in BOOLEAN /\ mie \in BOOLEAN /\ mpie \in BOOLEAN
    OBVIOUS
  <2>5. icb_state \in {"IDLE", "1ST", "AMOALU", "AMORDY", "WAIT2ND", "2ND", "WBCK"}
    OBVIOUS
  <2>6. /\ leftover \in Vals /\ cmd_rdy \in CmdRdyLevels
        /\ irq_req_raw \in IrqLevels /\ dbg_irq_r \in DbgLevels
    OBVIOUS
  <2>7. dcause \in {0, 1, 3, 4, 5} /\ stepped \in 0 .. 2
    OBVIOUS
  <2>8. rsp \in {"none"} \cup RspKinds
    OBVIOUS
  <2>9. ir \in Instr \cup {NoInstr}
    BY <2>3
  <2>10. lsu \in [cmd : {"none", "read", "write"}, itag : Itag, back2agu : BOOLEAN,
                  rdata : Vals \cup {"none"}]
    BY <1>4, <2>3
  <2> HIDE DEF ExuInit
  <2> QED
    BY <1>1, <2>1, <2>2, <2>4, <2>5, <2>6, <2>7, <2>8, <2>9, <2>10 DEF ExuTypeOK
<1>6. LsuInv
  <2>1. lsu = NoCmd /\ rsp = "none"
    OBVIOUS
  <2> QED
    BY <1>2, <1>3, <2>1 DEF LsuInv
<1>7. IrInv /\ AmoInv /\ WfiInv /\ RegfileArchitectural
  BY DEF IrInv, AmoInv, WfiInv, RegfileArchitectural
<1>8. StepInv
  BY DEF StepInv
<1> QED
  BY <1>1, <1>5, <1>6, <1>7, <1>8 DEF ExuInv, FlightInv

\* Every edge keeps the invariant.
LEMMA ExuNextInv == ExuInv /\ [Cycle]_vars => ExuInv'
<1> SUFFICES ASSUME ExuInv, [Cycle]_vars
             PROVE  ExuInv'
  OBVIOUS
<1>1. CASE Cycle
  <2>1. FlightInv'
    BY <1>1, TypeStep, LsuInvStep DEF FlightInv
  <2>2. IrInv'
    BY <1>1, IfuStep DEF IrInv
  <2> QED
    BY <1>1, <2>1, <2>2, RegfileStep, AmoInvStep, WfiInvStep, StepInvStep DEF ExuInv
<1>2. CASE UNCHANGED vars
  <2> USE <1>2 DEF vars, oitf_vars, ifu_vars, agu_vars, lsu_vars, cmt_vars, irq_vars
  <2>1. ExuTypeOK'
    BY DEF ExuInv, FlightInv, ExuTypeOK, OitfTypeOK
  <2>2. VldBetweenPointers'
    BY DEF ExuInv, FlightInv, VldBetweenPointers, Occupancy, Age
  <2>3. LsuInv'
    BY DEF ExuInv, FlightInv, LsuInv, Occupancy, oitf_empty, ret_payload
  <2>4. IrInv' /\ AmoInv' /\ WfiInv' /\ StepInv'
    BY DEF ExuInv, IrInv, AmoInv, WfiInv, StepInv, dbg_mode, oitf_empty
  <2>5. RegfileArchitectural'
    BY DEF ExuInv, RegfileArchitectural, oitfrd_match
  <2> QED
    BY <2>1, <2>2, <2>3, <2>4, <2>5 DEF ExuInv, FlightInv
<1> QED
  BY <1>1, <1>2

\* The invariant holds always.
LEMMA ExuAlwaysInv == ExuSpec => []ExuInv
  BY ExuInitInv, ExuNextInv, PTL DEF ExuSpec

-----------------------------------------------------------------------------
\* Every register of the execution stage keeps its type, whatever the program,
\* the memory, the debugger and the interrupt lines do.
THEOREM ExuTypeCorrect == ExuSpec => []ExuTypeOK
<1>1. ExuInv => ExuTypeOK
  BY DEF ExuInv, FlightInv
<1> QED
  BY <1>1, ExuAlwaysInv, PTL

\* The OITF's users keep its pointers and valid bits in agreement: dispatch and
\* write-back never allocate into a full OITF or retire from an empty one.
THEOREM ExuPointersAgree == ExuSpec => []VldBetweenPointers
<1>1. ExuInv => VldBetweenPointers
  BY DEF ExuInv, FlightInv
<1> QED
  BY <1>1, ExuAlwaysInv, PTL

\* Nothing overtakes in the execution stage: every operand is that of the
\* program order, and every answer of the memory finds its instruction at the
\* head of the OITF.
THEOREM ExuHazardsInterlocked == ExuSpec => []HazardsInterlocked
<1>1. ExuInv => HazardsInterlocked
  <2> SUFFICES ASSUME ExuInv
               PROVE  HazardsInterlocked
    OBVIOUS
  <2>1. RegfileArchitectural
    BY DEF ExuInv
  <2>2. OperandsFresh
    BY <2>1, IrFacts DEF OperandsFresh, RegfileArchitectural, i_valid, disp_condition,
                         raw_dep
  <2>3. ResponseFindsHead
    BY LsuFacts DEF ExuInv, ResponseFindsHead
  <2> QED
    BY <2>1, <2>2, <2>3 DEF HazardsInterlocked
<1> QED
  BY <1>1, ExuAlwaysInv, PTL

\* Every trap, interrupt and debug entry is precise, and an AMO that has begun
\* is flushed by nothing but its own bus error.
THEOREM ExuTrapsArePrecise == ExuSpec => []TrapsArePrecise
<1>1. ExuInv => TrapsArePrecise
  BY FlushPrecise, AmoAtomic DEF TrapsArePrecise
<1> QED
  BY <1>1, ExuAlwaysInv, PTL

\* A core asleep in WFI has nothing in flight and is flushed by nothing.
THEOREM ExuSleepIsSafe == ExuSpec => []SleepIsSafe
<1>1. ExuInv => SleepIsSafe
  BY SleepSafe
<1> QED
  BY <1>1, ExuAlwaysInv, PTL

\* Stopping the EXU's clock loses no commit, no retirement and no flush.
THEOREM ExuGatingLosesNothing == ExuSpec => []GatingLosesNothing
<1>1. ExuInv => GatingLosesNothing
  BY GatingSafe
<1> QED
  BY <1>1, ExuAlwaysInv, PTL

\* As long as the debugger never sets halt and step in dcsr at once, nothing
\* leaves the IR without a commit and a step commits one instruction.
THEOREM ExuStepsAreExact ==
    ASSUME \A w \in DcsrWrites : ~(w.halt /\ w.step)
    PROVE  ExuSpec => []StepsAreExact
<1> DEFINE DcsrInv == ~(dcsr.halt /\ dcsr.step)
<1>1. ExuInit => DcsrInv
  BY DEF ExuInit
<1>2. DcsrInv /\ [Cycle]_vars => DcsrInv'
  <2> SUFFICES ASSUME DcsrInv, [Cycle]_vars
               PROVE  DcsrInv'
    OBVIOUS
  <2>1. dcsr' \in DcsrWrites \cup {dcsr}
    BY DEF Cycle, ExuClk, DebugClk, cmt_vars, vars
  <2> QED
    BY <2>1
<1>3. ExuInv /\ DcsrInv => StepsAreExact
  <2> SUFFICES ASSUME ExuInv, DcsrInv
               PROVE  StepsAreExact
    OBVIOUS
  <2>1. EveryInstrCommits
    BY LeavingCommits
  <2>2. StepExecutesOne
    BY DEF ExuInv, StepInv, StepExecutesOne
  <2> QED
    BY <2>1, <2>2 DEF StepsAreExact
<1> QED
  BY <1>1, <1>2, <1>3, ExuAlwaysInv, PTL DEF ExuSpec

\* In the execution stage, too, the OITF is the bounded in-order queue.
THEOREM ExuImplementsTracker == ExuSpec => ImplementsTracker
<1>1. ExuInit => OitfInit
  BY DEF ExuInit
<1>2. ExuInv /\ [Cycle]_vars => [OitfNext]_oitf_vars
  BY OitfStep DEF vars
<1>3. ExuSpec => OitfSpec
  BY <1>1, <1>2, ExuAlwaysInv, PTL DEF ExuSpec, OitfSpec
<1> QED
  BY <1>3, OitfImplementsTracker
=============================================================================
