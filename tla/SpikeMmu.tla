------------------------------ MODULE SpikeMmu ------------------------------
(***************************************************************************)
(* The simulator's memory port (riscv-isa-sim/riscv/mmu.cc, mmu.h,         *)
(* memtracer.h): the page-table walk, the TLB with its three tag arrays    *)
(* over one data array, the decoded-instruction cache, the tracers and the *)
(* address triggers.                                                       *)
(*                                                                         *)
(* Addresses are page numbers: what is said of a page is said of an        *)
(* aligned word in it.  Entries is the length of a page table, 2^idxbits;  *)
(* it, TLB_ENTRIES and ICACHE_ENTRIES stand for 1024 or 512, 256 and 1024. *)
(* Built without RISCV_ENABLE_DIRTY.                                       *)
(***************************************************************************)
EXTENDS Integers, Sequences, FiniteSets

CONSTANTS Entries, TLB_ENTRIES, ICACHE_ENTRIES

ASSUME MmuAssumption == /\ Entries \in Nat \ {0} /\ Entries % 2 = 0
                        /\ TLB_ENTRIES \in Nat \ {0} /\ ICACHE_ENTRIES \in Nat \ {0}

VARIABLES
    xlen,       \* 32: two levels of tables; 64: three
    prv,        \* the hart's privilege
    mstatus,    \* [mprv, mpp, sum, mxr]
    debugCause, \* dcsr.cause # 0
    pt,         \* the page tables: [table -> [index -> pte]]
    mem,        \* the pages of memory: [frame -> value]
    mmu,        \* [load, store, insn: tag arrays, data: frames, icache, matched]
    mcontrol,   \* the trigger
    tracer      \* the access types the registered tracers are interested in

hartVars == <<xlen, prv, mstatus, debugCause>>

----------------------------------------------------------------------------
Types == {"FETCH", "LOAD", "STORE"}
NoPte == [v |-> FALSE, r |-> FALSE, w |-> FALSE, x |-> FALSE, u |-> FALSE,
          a |-> FALSE, d |-> FALSE, ppn |-> 0]
NoTag == [vpn |-> -1, check |-> FALSE]
Fault == -1
AccessFault == -2

\* Tables are frames too: table t is frame -10 - t, which no data page is.
TableFrame(t) == -10 - t
Frames == DOMAIN mem
addr_to_mem(frame) == frame \in Frames \/ \E t \in DOMAIN pt : frame = TableFrame(t)

(* flush_tlb, flush_icache *)
NoEntries == [i \in 0..(ICACHE_ENTRIES - 1) |-> [tag |-> -1, data |-> 0]]
NoTags == [i \in 0..(TLB_ENTRIES - 1) |-> NoTag]
flush_tlb(m) == [load |-> NoTags, store |-> NoTags, insn |-> NoTags, data |-> m.data,
                 icache |-> NoEntries, matched |-> m.matched]

(* set_privilege: every change of privilege empties the TLB. *)
set_privilege(p) == prv' = p /\ mmu' = flush_tlb(mmu)

(* The levels and the width of an address.  In 64-bit mode an address has  *)
(* bits above the translated ones, two of which are kept.                  *)
decode_vm_info(mode) == IF mode = "M" THEN 0 ELSE IF xlen = 32 THEN 2 ELSE 3
Span(i) == CASE i = 0 -> 1 [] i = 1 -> Entries [] i = 2 -> Entries * Entries
             [] OTHER -> Entries * Entries * Entries
Digit(vpn, i) == (vpn \div Span(i)) % Entries
Canonical(vpn) == xlen = 32 \/ vpn \div (Span(3) \div 2) \in {0, 3}

(* The checks of walk() on a leaf, in its order. *)
LeafOk(pte, level, type, mode) ==
    /\ IF pte.u THEN ~(mode = "S" /\ (type = "FETCH" \/ ~mstatus.sum)) ELSE mode = "S"
    /\ pte.v /\ ~(~pte.r /\ pte.w)
    /\ CASE type = "FETCH" -> pte.x
         [] type = "LOAD"  -> pte.r \/ (mstatus.mxr /\ pte.x)
         [] OTHER          -> pte.r /\ pte.w
    /\ pte.ppn % Span(level) = 0
    /\ pte.a /\ (type = "STORE" => pte.d)
IsTable(pte) == pte.v /\ ~pte.r /\ ~pte.w /\ ~pte.x

(* walk(): the turns of its loop, from the last level up.                 *)
Entry(base, level, vpn) == pt[-10 - base][Digit(vpn, level)]
Leaf(pte, level, vpn, type, mode) ==
    IF ~IsTable(pte) /\ LeafOk(pte, level, type, mode) THEN pte.ppn + (vpn % Span(level))
    ELSE Fault
Level0(base, vpn, type, mode) ==
    IF addr_to_mem(base) THEN Leaf(Entry(base, 0, vpn), 0, vpn, type, mode) ELSE AccessFault
Level1(base, vpn, type, mode) ==
    LET pte == Entry(base, 1, vpn)
    IN  IF ~addr_to_mem(base) THEN AccessFault
        ELSE IF IsTable(pte) THEN Level0(pte.ppn, vpn, type, mode)
        ELSE Leaf(pte, 1, vpn, type, mode)
Level2(base, vpn, type, mode) ==
    LET pte == Entry(base, 2, vpn)
    IN  IF ~addr_to_mem(base) THEN AccessFault
        ELSE IF IsTable(pte) THEN Level1(pte.ppn, vpn, type, mode)
        ELSE Leaf(pte, 2, vpn, type, mode)
walk(vpn, type, mode) ==
    IF decode_vm_info(mode) = 0 THEN vpn
    ELSE IF ~Canonical(vpn) THEN Fault
    ELSE IF decode_vm_info(mode) = 2 THEN Level1(TableFrame(0), vpn, type, mode)
    ELSE Level2(TableFrame(0), vpn, type, mode)

translate(vpn, type) ==
    walk(vpn, type, IF type # "FETCH" /\ ~debugCause /\ mstatus.mprv THEN mstatus.mpp ELSE prv)

----------------------------------------------------------------------------
(* Triggers: one mcontrol with action "debug mode", matching the page and, *)
(* with select, the data.                                                  *)

\* (check_triggers_store is not kept.)
CheckLoadsOnly(type) == type \in mcontrol.types \ {"STORE"}
check_triggers(type) == type \in mcontrol.types
trigger_match(type, vpn, data) ==
    /\ ~debugCause
    /\ type \in mcontrol.types /\ prv \in mcontrol.modes
    /\ IF mcontrol.select THEN data = mcontrol.tdata2 ELSE vpn = mcontrol.tdata2

----------------------------------------------------------------------------
(* refill_tlb: the data array is shared, so the tags of the other types    *)
(* for this index go unless they are for the same page.                    *)

Idx(vpn) == vpn % TLB_ENTRIES
Keep(tags, vpn) == IF tags[Idx(vpn)].vpn = vpn THEN tags
                   ELSE [tags EXCEPT ![Idx(vpn)] = NoTag]
\* (The tags of the other types are left.)
RefillOneTag(m, vpn, frame, type) ==
    LET tag == [vpn |-> vpn, check |-> check_triggers(type)]
        at  == Idx(vpn)
    IN  [m EXCEPT !.load  = IF type = "LOAD" THEN [@ EXCEPT ![at] = tag] ELSE @,
                  !.store = IF type = "STORE" THEN [@ EXCEPT ![at] = tag] ELSE @,
                  !.insn  = IF type = "FETCH" THEN [@ EXCEPT ![at] = tag] ELSE @,
                  !.data[at] = frame]
refill_tlb(m, vpn, frame, type) ==
    LET tag == [vpn |-> vpn, check |-> check_triggers(type)]
        Refilled(tags, t) ==
            IF type = t THEN [tags EXCEPT ![Idx(vpn)] = tag] ELSE Keep(tags, vpn)
    IN  [load |-> Refilled(m.load, "LOAD"), store |-> Refilled(m.store, "STORE"),
         insn |-> Refilled(m.insn, "FETCH"), data |-> [m.data EXCEPT ![Idx(vpn)] = frame],
         icache |-> m.icache, matched |-> m.matched]

TagOf(m, vpn, type) ==
    (CASE type = "LOAD" -> m.load [] type = "STORE" -> m.store [] OTHER -> m.insn)[Idx(vpn)]
Hit(m, vpn, type) == TagOf(m, vpn, type).vpn = vpn
HitFrame(m, vpn) == m.data[Idx(vpn)]

(* What an access comes to: the frame, the MMU after it, the kinds of      *)
(* access a tracer saw and whether a trigger stops it.                     *)
Outcome(frame, m, traced, fired) ==
    [frame |-> frame, mmu |-> m, traced |-> traced, fired |-> fired]

(* A trigger that matches throws; it is checked unless it was matched for  *)
(* this instruction already.                                               *)
Fires(m, type, vpn, data) == ~m.matched /\ trigger_match(type, vpn, data)

(* load_slow_path: the TLB is filled before the trigger is looked at, ...  *)
load_slow_path(m, vpn, frame) ==
    Outcome(frame,
            IF "LOAD" \in tracer THEN m ELSE refill_tlb(m, vpn, frame, "LOAD"),
            {"LOAD"} \cap tracer, Fires(m, "LOAD", vpn, mem[frame]))
(* ... store_slow_path: after it. *)
store_slow_path(m, vpn, frame, data) ==
    IF Fires(m, "STORE", vpn, data) THEN Outcome(frame, m, {}, TRUE)
    ELSE Outcome(frame,
                 IF "STORE" \in tracer THEN m ELSE refill_tlb(m, vpn, frame, "STORE"),
                 {"STORE"} \cap tracer, FALSE)

(* load_func: a hit, a hit that must be checked, or the slow path. *)
Load(m, vpn) ==
    IF Hit(m, vpn, "LOAD")
      THEN Outcome(HitFrame(m, vpn), m, {},
                   /\ TagOf(m, vpn, "LOAD").check
                   /\ Fires(m, "LOAD", vpn, mem[HitFrame(m, vpn)]))
    ELSE LET frame == translate(vpn, "LOAD")
         IN  IF frame < 0 THEN Outcome(frame, m, {}, FALSE)
             ELSE load_slow_path(m, vpn, frame)

(* store_func *)
Store(m, vpn, data) ==
    IF Hit(m, vpn, "STORE")
      THEN Outcome(HitFrame(m, vpn), m, {},
                   TagOf(m, vpn, "STORE").check /\ Fires(m, "STORE", vpn, data))
    ELSE LET frame == translate(vpn, "STORE")
         IN  IF frame < 0 THEN Outcome(frame, m, {}, FALSE)
             ELSE store_slow_path(m, vpn, frame, data)

(* fetch_slow_path and translate_insn_addr: the trigger is looked at on a  *)
(* hit only.                                                               *)
fetch_slow_path(m, vpn) ==
    LET frame == translate(vpn, "FETCH")
    IN  IF frame < 0 THEN Outcome(frame, m, {}, FALSE)
        ELSE Outcome(frame, refill_tlb(m, vpn, frame, "FETCH"), {}, FALSE)
translate_insn_addr(m, vpn) ==
    IF Hit(m, vpn, "FETCH")
      THEN Outcome(HitFrame(m, vpn), m, {},
                   /\ TagOf(m, vpn, "FETCH").check
                   /\ trigger_match("FETCH", vpn, mem[HitFrame(m, vpn)]))
      ELSE fetch_slow_path(m, vpn)

icache_index(vpn) == vpn % ICACHE_ENTRIES
(* refill_icache: a traced instruction is not left in the cache. *)
FillEntry(m, vpn, frame) ==
    [m EXCEPT !.icache[icache_index(vpn)] =
        [tag |-> IF "FETCH" \in tracer THEN -1 ELSE vpn, data |-> mem[frame]]]
RefillIcache(out, vpn) ==
    IF out.frame < 0 \/ out.fired THEN out
    ELSE Outcome(out.frame, FillEntry(out.mmu, vpn, out.frame), {"FETCH"} \cap tracer, FALSE)
access_icache(m, vpn) ==
    IF m.icache[icache_index(vpn)].tag = vpn
      THEN Outcome(HitFrame(m, vpn), m, {}, FALSE)
      ELSE RefillIcache(translate_insn_addr(m, vpn), vpn)
====
