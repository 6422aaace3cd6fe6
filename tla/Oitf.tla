-------------------------------- MODULE Oitf --------------------------------
(***************************************************************************)
(* The Outstanding Instructions Track FIFO, e203_exu_oitf.v: the circular  *)
(* buffer in which dispatch records every long-pipe instruction and from   *)
(* which the long-pipe write-back retires it.  One step is one rising edge *)
(* of clk.  Registers are variables, wires are operators.                  *)
(*                                                                         *)
(* Both pointers carry a flag that flips when they wrap, which is how an   *)
(* empty buffer is told from a full one.  An entry's payload is written    *)
(* when it is allocated and never cleared, so an entry that is not valid   *)
(* keeps stale contents, as in the RTL.                                    *)
(***************************************************************************)
EXTENDS Integers, Sequences

CONSTANTS OITF_DEPTH,   \* `E203_OITF_DEPTH
          RfIdx         \* register numbers an instruction may write

ASSUME OitfDepthAssumption == OITF_DEPTH \in Nat /\ OITF_DEPTH >= 2

VARIABLES alc_ptr, alc_ptr_flg,   \* where dispatch allocates
          ret_ptr, ret_ptr_flg,   \* where write-back retires
          vld,                    \* entry -> occupied
          payload                 \* entry -> rdwen and rdidx of its instruction

oitf_vars == <<alc_ptr, alc_ptr_flg, ret_ptr, ret_ptr_flg, vld, payload>>

Itag == 0 .. OITF_DEPTH - 1

\* rdfpu is always 0 (there is no FPU); the PC only travels with the entry.
Payload == [rdwen : BOOLEAN, rdidx : RfIdx]

oitf_empty == ret_ptr = alc_ptr /\ ret_ptr_flg = alc_ptr_flg
oitf_full  == ret_ptr = alc_ptr /\ ret_ptr_flg # alc_ptr_flg

\* Retirement in the same cycle does not make room.
dis_ready == ~oitf_full

\* Some instruction in flight will write register r.
oitfrd_match(r) ==
    \E i \in Itag : vld[i] /\ payload[i].rdwen /\ payload[i].rdidx = r

ret_payload == payload[ret_ptr]

PtrNext(p) == IF p = OITF_DEPTH - 1 THEN 0 ELSE p + 1

\* Mutant: the wrap flag never flips.
FlgNext_Stuck(p, flg) == flg

FlgNext(p, flg) == IF p = OITF_DEPTH - 1 THEN 1 - flg ELSE flg

-----------------------------------------------------------------------------
OitfInit ==
    /\ alc_ptr = 0 /\ ret_ptr = 0
    /\ alc_ptr_flg = 0 /\ ret_ptr_flg = 0
    /\ vld = [i \in Itag |-> FALSE]
    /\ payload \in [Itag -> Payload]      \* these flops have no reset

AllocPtr(ena) ==
    /\ alc_ptr'     = IF ena THEN PtrNext(alc_ptr) ELSE alc_ptr
    /\ alc_ptr_flg' = IF ena THEN FlgNext(alc_ptr, alc_ptr_flg) ELSE alc_ptr_flg

\* Mutant: the wrap flag of the retire pointer is forgotten.
RetirePtr_NoFlag(ena) ==
    /\ ret_ptr'     = IF ena THEN PtrNext(ret_ptr) ELSE ret_ptr
    /\ UNCHANGED ret_ptr_flg

RetirePtr(ena) ==
    /\ ret_ptr'     = IF ena THEN PtrNext(ret_ptr) ELSE ret_ptr
    /\ ret_ptr_flg' = IF ena THEN FlgNext(ret_ptr, ret_ptr_flg) ELSE ret_ptr_flg

\* An entry allocated and retired on the same edge ends up valid.
Entries(dis_ena, ret_ena, e) ==
    /\ vld' = [i \in Itag |-> IF dis_ena /\ alc_ptr = i THEN TRUE
                              ELSE vld[i] /\ ~(ret_ena /\ ret_ptr = i)]
    /\ payload' = IF dis_ena THEN [payload EXCEPT ![alc_ptr] = e] ELSE payload

\* One clock edge of the whole module.
OitfClk(dis_ena, ret_ena, e) ==
    /\ AllocPtr(dis_ena)
    /\ RetirePtr(ret_ena)
    /\ Entries(dis_ena, ret_ena, e)

-----------------------------------------------------------------------------
(***************************************************************************)
(* The module with its two users reduced to what they guarantee: dispatch  *)
(* allocates only when dis_ready (disp_condition), and write-back retires  *)
(* only when the buffer is not empty (wbck_ready4lsu).                     *)
(***************************************************************************)
Dispatch(e) == dis_ready /\ OitfClk(TRUE, FALSE, e)

Retire == ~oitf_empty /\ OitfClk(FALSE, TRUE, ret_payload)

DispatchAndRetire(e) == dis_ready /\ ~oitf_empty /\ OitfClk(TRUE, TRUE, e)

OitfNext == \/ \E e \in Payload : Dispatch(e) \/ DispatchAndRetire(e)
            \/ Retire

OitfSpec == OitfInit /\ [][OitfNext]_oitf_vars

-----------------------------------------------------------------------------
OitfTypeOK ==
    /\ alc_ptr \in Itag /\ ret_ptr \in Itag
    /\ alc_ptr_flg \in {0, 1} /\ ret_ptr_flg \in {0, 1}
    /\ vld \in [Itag -> BOOLEAN]
    /\ payload \in [Itag -> Payload]

\* Number of entries between the retire and the allocate pointer.
Occupancy == IF alc_ptr_flg = ret_ptr_flg
             THEN alc_ptr - ret_ptr
             ELSE OITF_DEPTH + alc_ptr - ret_ptr

\* The entry of the k-th oldest instruction, counting from 0.
Slot(k) == IF ret_ptr + k < OITF_DEPTH THEN ret_ptr + k
                                       ELSE ret_ptr + k - OITF_DEPTH

\* The distance of entry i from the retire pointer.
Age(i) == IF i >= ret_ptr THEN i - ret_ptr ELSE i + OITF_DEPTH - ret_ptr

\* The pointers never disagree with the valid bits the dependency check
\* reads: an entry is valid exactly when it lies between the retire and the
\* allocate pointer, wrap included, and there are never more than DEPTH.
VldBetweenPointers ==
    /\ Occupancy \in 0 .. OITF_DEPTH
    /\ \A i \in Itag : vld[i] <=> Age(i) < Occupancy

Flight == [k \in 1 .. Occupancy |-> payload[Slot(k - 1)]]

Abs == INSTANCE InOrderTracker WITH Depth <- OITF_DEPTH, Entry <- Payload,
                                    flight <- Flight

\* The circular buffer behaves as the bounded in-order queue: long-pipe
\* instructions retire in the order they were dispatched, none is lost,
\* duplicated or given another's destination register.
ImplementsTracker == Abs!Spec
=============================================================================
