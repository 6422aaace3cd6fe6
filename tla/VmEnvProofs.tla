---------------------------- MODULE VmEnvProofs ------------------------------
(***************************************************************************)
(* Proofs about the demand pager on the simulator's MMU, for every length  *)
(* of the page tables, of the TLB and of the instruction cache, every      *)
(* number of pages, every set of tracers and triggers of user mode.        *)
(*                                                                         *)
(* The invariant VmInv says of each statement of the handler what it may   *)
(* rely on (ControlOK, FaultOK, EvictOK), that the tables are vm_boot's    *)
(* but for the pages mapped so far (TablesOK, FramesOK), that the free     *)
(* list has a frame for each of the others (FreeOK), that a page holds     *)
(* what the test stored (PagesOK), and that a valid tag of the TLB says no *)
(* more than the tables do (MmuOK).  The simulator may abort, when an      *)
(* instruction that a trigger restarts faults; nothing is then asked but   *)
(* that nothing has gone wrong (Clean).                                    *)
(***************************************************************************)
EXTENDS VmEnv, FiniteSetTheorems, TLAPS

----------------------------------------------------------------------------
(* Page numbers and their digits. *)

\* Division by a positive number, from a quotient and a remainder.
LEMMA Quotient ==
    ASSUME NEW n \in Nat \ {0}, NEW q \in Int, NEW r \in 0..(n - 1), NEW x \in Int, x = q * n + r
    PROVE  x \div n = q /\ x % n = r
OBVIOUS

\* The products of table lengths are natural numbers, in order.
LEMMA Spans ==
    /\ Span(0) = 1 /\ Span(1) = Entries /\ Span(2) = Entries * Entries
    /\ Span(3) = Entries * Entries * Entries
    /\ Entries \in Nat /\ Entries >= 2
    /\ Entries * Entries \in Nat /\ Entries * Entries >= 2 * Entries
    /\ Entries * Entries * Entries \in Nat /\ Entries * Entries * Entries >= 2 * (Entries * Entries)
<1>1. Entries \in Nat /\ Entries >= 2
  BY MmuAssumption
<1>2. Entries * Entries \in Nat /\ Entries * Entries >= 2 * Entries
  BY <1>1
<1>3. Entries * Entries * Entries \in Nat
      /\ Entries * Entries * Entries >= 2 * (Entries * Entries)
  <2> DEFINE S == Entries * Entries
  <2>1. S \in Nat
    BY <1>2
  <2>2. S * Entries \in Nat /\ S * Entries >= 2 * S
    <3> HIDE DEF S
    <3> QED
      BY <1>1, <2>1
  <2> QED
    BY <2>2
<1> QED
  BY <1>1, <1>2, <1>3 DEF Span

\* A page of the test is an entry of the lowest table: its number has one digit.
LEMMA PageDigits ==
    ASSUME NEW p \in 0..(Entries - 1)
    PROVE  Digit(p, 0) = p /\ Digit(p, 1) = 0 /\ Digit(p, 2) = 0 /\ p % Span(0) = 0
<1>1. p \in Nat /\ p < Entries /\ p < Entries * Entries
  BY Spans
<1>2. p \div Span(0) = p /\ p % Span(0) = 0
  BY <1>1, Spans
<1>3. p \div Span(1) = 0
  BY <1>1, Spans, Quotient
<1>4. p \div Span(2) = 0
  <2> DEFINE S == Entries * Entries
  <2>1. S \in Nat \ {0} /\ p \in 0..(S - 1) /\ p = 0 * S + p
    BY <1>1, Spans
  <2>2. p \div S = 0
    <3> HIDE DEF S
    <3> QED
      BY <2>1, Quotient
  <2> QED
    BY <2>2, Spans
<1>5. p % Entries = p /\ 0 % Entries = 0
  BY <1>1, Spans
<1> QED
  BY <1>2, <1>3, <1>4, <1>5 DEF Digit

\* The kernel's own pages are the last entry of every table but the lowest.
LEMMA KernelDigits32 ==
    ASSUME xlen = 32, NEW x \in 0..(Entries - 1)
    PROVE  Kva(x) \in Nat /\ Digit(Kva(x), 1) = Last /\ Digit(Kva(x), 0) = x /\ Kva(x) % Entries = x
<1> DEFINE k == (Entries - 1) * Entries + x
<1>1. Kva(x) = k /\ k \in Nat
  BY Spans DEF Kva
<1>2. k \div Entries = Entries - 1 /\ k % Entries = x
  <2> DEFINE q == Entries - 1
  <2>1. q \in Int /\ k \in Int /\ k = q * Entries + x /\ Entries \in Nat \ {0}
    BY <1>1, Spans
  <2> HIDE DEF q, k
  <2>2. k \div Entries = q /\ k % Entries = x
    BY <2>1, Quotient
  <2> QED
    BY <2>2 DEF q
<1>3. k \div 1 = k
  BY <1>1
<1>4. (Entries - 1) % Entries = Entries - 1
  BY Spans
<1> HIDE DEF k
<1> QED
  BY <1>1, <1>2, <1>3, <1>4, Spans DEF Digit, Last

\* The same with three levels.
LEMMA KernelDigits64 ==
    ASSUME xlen = 64, NEW x \in 0..(Entries - 1)
    PROVE  /\ Kva(x) \in Nat /\ Digit(Kva(x), 2) = Last /\ Digit(Kva(x), 1) = Last
           /\ Digit(Kva(x), 0) = x /\ Kva(x) % Entries = x /\ Canonical(Kva(x))
<1> DEFINE S == Entries * Entries
           k == 2 * (Entries * Entries * Entries) - Entries + x
<1>1. Kva(x) = k
  BY Spans DEF Kva
<1>2. S \in Nat /\ S >= 2 * Entries /\ Entries * S = Entries * Entries * Entries
  BY Spans
<1>3. k \in Nat /\ k = (2 * S - 1) * Entries + x
  BY Spans
<1>4. k \div Entries = 2 * S - 1 /\ k % Entries = x
  <2> DEFINE q == 2 * S - 1
  <2>1. q \in Int /\ k \in Int /\ k = q * Entries + x /\ Entries \in Nat \ {0}
    BY <1>2, <1>3, Spans
  <2> HIDE DEF q, k
  <2>2. k \div Entries = q /\ k % Entries = x
    BY <2>1, Quotient
  <2> QED
    BY <2>2 DEF q
<1>5. 2 * S - 1 = (2 * Entries - 1) * Entries + (Entries - 1)
  BY Spans
<1>6. (2 * S - 1) % Entries = Entries - 1
  <2> DEFINE q == 2 * Entries - 1
             d == 2 * S - 1
  <2>1. q \in Int /\ d \in Int /\ d = q * Entries + (Entries - 1) /\ Entries \in Nat \ {0}
        /\ Entries - 1 \in 0..(Entries - 1)
    BY <1>2, <1>5, Spans
  <2> HIDE DEF q, d
  <2>2. d % Entries = Entries - 1
    BY <2>1, Quotient
  <2> QED
    BY <2>2 DEF d
<1>7. k = (2 * Entries - 1) * S + (S - Entries + x)
  BY Spans
<1>8. k \div S = 2 * Entries - 1
  <2> DEFINE q == 2 * Entries - 1
             e == S - Entries + x
  <2>1. e \in 0..(S - 1) /\ S \in Nat \ {0} /\ q \in Int /\ k \in Int
    BY <1>2, <1>3, Spans
  <2>2. k = q * S + e
    BY <1>7
  <2> HIDE DEF S, k, q, e
  <2>3. k \div S = q
    BY <2>1, <2>2, Quotient
  <2> QED
    BY <2>3 DEF q
<1>9. (2 * Entries - 1) % Entries = Entries - 1
  <2>1. 2 * Entries - 1 = 1 * Entries + (Entries - 1)
    BY Spans
  <2> QED
    BY <2>1, Spans, Quotient
<1>10. PICK h \in Nat \ {0} : Entries = 2 * h
  BY MmuAssumption
<1>11. Span(3) \div 2 = h * S
  <2>1. Entries * Entries * Entries = 2 * (h * S)
    BY <1>2, <1>10
  <2>2. h * S \in Nat
    BY <1>2, <1>10
  <2> QED
    BY <2>1, <2>2, Spans
<1>12. k \div (h * S) = 3
  <2> DEFINE H == h * S
  <2>1. H \in Nat /\ H >= S
    BY <1>2, <1>10
  <2>2. k = 3 * H + (H - Entries + x)
    BY <1>2, <1>10
  <2>3. H - Entries + x \in 0..(H - 1) /\ H \in Nat \ {0}
    BY <2>1, <1>2, Spans
  <2> DEFINE e == H - Entries + x
             q == 3
  <2>4. k = q * H + e /\ e \in 0..(H - 1) /\ k \in Int /\ q \in Int /\ H \in Nat \ {0}
    BY <1>3, <2>2, <2>3
  <2> HIDE DEF H, S, k, e, q
  <2>5. k \div H = q
    BY <2>4, Quotient
  <2> QED
    BY <2>5 DEF H, q
<1>13. k \div 1 = k
  BY <1>3
<1> HIDE DEF S, k
<1>14. Digit(k, 2) = Last /\ Digit(k, 1) = Last /\ Digit(k, 0) = x
  BY <1>4, <1>6, <1>8, <1>9, <1>13, Spans DEF Digit, Last, S
<1>15. Canonical(k)
  BY <1>11, <1>12 DEF Canonical
<1> QED
  BY <1>1, <1>3, <1>4, <1>14, <1>15

\* A page of the test is a canonical address.
LEMMA PageCanonical ==
    ASSUME NEW p \in 0..(Entries - 1)
    PROVE  Canonical(p)
<1> DEFINE S == Entries * Entries
<1>1. PICK h \in Nat \ {0} : Entries = 2 * h
  BY MmuAssumption
<1>2. S \in Nat /\ S >= 2 * Entries
  BY Spans
<1>3. Span(3) \div 2 = h * S
  <2>1. Entries * Entries * Entries = 2 * (h * S)
    BY <1>1, <1>2
  <2>2. h * S \in Nat
    BY <1>1, <1>2
  <2> QED
    BY <2>1, <2>2, Spans
<1>4. p \div (h * S) = 0
  <2> DEFINE H == h * S
  <2>1. H \in Nat /\ H >= S
    BY <1>1, <1>2
  <2>2. p \in 0..(H - 1) /\ H \in Nat \ {0} /\ p = 0 * H + p
    BY <2>1, <1>2, Spans
  <2> HIDE DEF H, S
  <2>3. p \div H = 0
    BY <2>2, Quotient
  <2> QED
    BY <2>3 DEF H
<1> HIDE DEF S
<1> QED
  BY <1>3, <1>4 DEF Canonical

\* The kernel's addresses are none of the test's, and each is another's only once.
LEMMA KernelApart ==
    ASSUME xlen \in {32, 64}, NEW x \in 0..(Entries - 1)
    PROVE  /\ Kva(x) \in Nat /\ Kva(x) >= Entries
           /\ \A y \in 0..(Entries - 1) : Kva(x) = Kva(y) => x = y
<1> DEFINE base == IF xlen = 32 THEN Span(2) ELSE 2 * Span(3)
<1>1. base \in Nat /\ base >= 2 * Entries
  BY Spans
<1>2. \A y : Kva(y) = base - Entries + y
  BY DEF Kva
<1> HIDE DEF base
<1> QED
  BY <1>1, <1>2, Spans

----------------------------------------------------------------------------
(* The invariant. *)

Slots == 0..(TLB_ENTRIES - 1)
Lines == 0..(ICACHE_ENTRIES - 1)
Homes == 0..(MAX_TEST_PAGES - 1)
Mapped(p) == Pte(p) # NoPte
Allowed(p, type) == Mapped(p) /\ Pte(p).a /\ (type = "STORE" => Pte(p).d)

\* Where the handler is: with supervisor access to user pages or without; in a
\* fault, at the end of the test, or outside.
WithSum == {"copy", "sum_off", "compare", "restore", "free"}
EvictPlaces == {"evict", "compare", "restore", "free"}
Evicting == kpc[1] \in EvictPlaces \cup {"terminate"}
Copying == {"copy_in", "copy"}
Mapping == Copying \cup {"sum_off", "unmark"}
FaultPlaces == {"handle_fault", "flush_and_return"} \cup Mapping
CopyingIn(p) == kpc[1] \in Copying /\ tf.vpn = p
TestEnds == Evicting \/ (kpc[1] = "handle_trap" /\ tf.cause = "USER_ECALL")
InFault == kpc[1] \in FaultPlaces \/ (kpc[1] = "handle_trap" /\ tf.cause # "USER_ECALL")

ControlOK ==
    /\ xlen \in {32, 64} /\ tracer \subseteq Types /\ debugCause = FALSE
    /\ prv = IF kpc[1] = "user" THEN "U" ELSE "S"
    /\ mstatus = [mprv |-> FALSE, mpp |-> "U", sum |-> mstatus.sum, mxr |-> FALSE]
    /\ mstatus.sum \in BOOLEAN /\ (mstatus.sum <=> kpc[1] \in WithSum)
    /\ pending # None => /\ pending.vpn \in Pages
                         /\ pending.type \in {"LOAD", "STORE", "FETCH", "AMO"}
    /\ TestEnds => pending = None
    /\ InFault => pending # None /\ tf = [cause |-> FaultCause, vpn |-> pending.vpn]

\* The tables are as vm_boot left them, but for the pages of the test, which are
\* mapped once and for all to frames of their own.
TablesOK ==
    /\ pt = [t \in (IF xlen = 32 THEN 0..1 ELSE 0..3) |-> pt[t]]
    /\ pt[0][0] = Table(1) /\ pt[0][Last] = (IF xlen = 32 THEN Kernel ELSE Table(2))
    /\ xlen = 64 => pt[1][0] = Table(3) /\ pt[2][Last] = Kernel
    /\ pt[UserTable] = [i \in 0..Last |-> Pte(i)]
UserFrames == FreeFrame(1)..FreeFrame(MAX_TEST_PAGES)
FramesOK ==
    /\ \A p \in Pages : Mapped(p) => \E a, d \in BOOLEAN : \E f \in UserFrames : Pte(p) = UserPte(a, d, f)
    /\ \A p, q \in Pages : Mapped(p) /\ Mapped(q) /\ Pte(p).ppn = Pte(q).ppn => p = q

\* Before the end of the test the free list is what is left of the first one.
MappedPages == {p \in Pages : Mapped(p)}
FreeOK ==
    /\ node = [k \in Nodes |-> node[k]] /\ user_mapping = [p \in Pages |-> user_mapping[p]]
    /\ \A p \in Pages : user_mapping[p] # 0 => Mapped(p)
    /\ ~Evicting =>
         /\ freelist_head \in 1..MAX_TEST_PAGES
         /\ freelist_head = Cardinality(MappedPages) + 1
         /\ \A p \in Pages : Mapped(p) => Pte(p).ppn < FreeFrame(freelist_head)
         /\ \A k \in 1..MAX_TEST_PAGES : node[k].addr = FreeFrame(k)
         /\ \A k \in 1..(MAX_TEST_PAGES - 1) : node[k].next = k + 1

\* A mapped page holds what the test stored in it, and the image until it is
\* dirty; one not yet accessed is about to be.
PagesOK ==
    /\ mem = [f \in DRAM..FreeFrame(MAX_TEST_PAGES) |-> mem[f]]
    /\ \A x \in Homes : mem[DRAM + x] = 0
    /\ expected = [p \in Pages |-> expected[p]]
    /\ \A p \in Pages :
         /\ ~Mapped(p) => expected[p] = 0
         /\ Mapped(p) /\ ~CopyingIn(p) /\ ~Evicting => mem[Pte(p).ppn] = expected[p]
         /\ Mapped(p) /\ ~CopyingIn(p) /\ ~Pte(p).d => mem[Pte(p).ppn] = 0
         /\ Mapped(p) /\ ~Pte(p).a => pending # None /\ pending.vpn = p
\* What the fault needs, and the page it maps.
FaultOK ==
    /\ InFault /\ kpc[1] \in {"handle_trap", "handle_fault"} => ~Allowed(tf.vpn, tf.cause)
    /\ kpc[1] \in Mapping => Mapped(tf.vpn) /\ Pte(tf.vpn).a /\ Pte(tf.vpn).d /\ expected[tf.vpn] = 0

\* The end of the test restores a mapped page, if it is dirty.
EvictOK == /\ kpc[1] \in {"compare", "restore"} => Mapped(kpc[2])
           /\ kpc[1] = "restore" => Pte(kpc[2]).d

\* What the tables say of a page, of the test's or, in the handler, of the
\* kernel's; a tag says no more.
Maps(vpn, frame) ==
    \/ vpn \in Pages /\ Mapped(vpn) /\ frame = Pte(vpn).ppn
    \/ prv = "S" /\ \E x \in Homes : vpn = Kva(x) /\ frame = DRAM + x
TagOK(tag, i, frame, type) ==
    tag.vpn # -1 =>
        /\ tag.vpn \in Nat /\ Idx(tag.vpn) = i /\ Maps(tag.vpn, frame)
        /\ prv = "U" => Allowed(tag.vpn, type)
        /\ tag.check <=> type \in mcontrol.types
        /\ type # "FETCH" => type \notin tracer
LineOK(line) ==
    line.tag # -1 => /\ "FETCH" \notin tracer
                     /\ prv = "U" => line.tag \in Pages /\ Allowed(line.tag, "FETCH")
TagArrays == [Slots -> [vpn : Int, check : BOOLEAN]]
MmuType(m) ==
    /\ m = [load |-> m.load, store |-> m.store, insn |-> m.insn, data |-> m.data,
            icache |-> m.icache, matched |-> m.matched]
    /\ m.load \in TagArrays /\ m.store \in TagArrays /\ m.insn \in TagArrays
    /\ m.data \in [Slots -> Nat] /\ m.matched \in BOOLEAN
    /\ m.icache = [i \in Lines |-> m.icache[i]]
MmuOK(m) ==
    /\ MmuType(m)
    /\ \A i \in Slots : /\ TagOK(m.load[i], i, m.data[i], "LOAD")
                        /\ TagOK(m.store[i], i, m.data[i], "STORE")
                        /\ TagOK(m.insn[i], i, m.data[i], "FETCH")
    /\ \A i \in Lines : LineOK(m.icache[i])

\* Nothing has gone wrong, also after the simulator has aborted.
Clean == ~failed /\ ~wrong /\ ~untraced /\ missed \subseteq {"FETCH"}
HartOK == /\ ControlOK /\ TablesOK /\ FramesOK /\ FreeOK /\ PagesOK /\ FaultOK /\ EvictOK
          /\ MmuOK(mmu) /\ mmu.matched = FALSE
VmInv == Clean /\ (kpc = At("aborted") \/ HartOK)

----------------------------------------------------------------------------
(* What walk() finds. *)

\* A page of the test is a number of one digit, and so is one of the kernel's.
LEMMA PageNumbers ==
    /\ \A p \in Pages : p \in 0..(Entries - 1) /\ p # 0 /\ p \in Homes
    /\ \A x \in Homes : x \in 0..(Entries - 1)
    /\ 0 \in Homes /\ MAX_TEST_PAGES \in Nat /\ MAX_TEST_PAGES >= 2
BY VmAssumption, Spans DEF Pages, Homes

\* The tables' frames are told from one another and from memory by their sign.
LEMMA TableEntries ==
    ASSUME NEW t \in 0..3
    PROVE  /\ TableFrame(t) \in Int /\ -10 - TableFrame(t) = t
           /\ IsTable(Table(t)) /\ Table(t).ppn = TableFrame(t)
           /\ t \in DOMAIN pt => addr_to_mem(TableFrame(t))
BY DEF TableFrame, IsTable, Table, NoPte, addr_to_mem

\* walk() reaches the lowest table for a page of the test, ...
LEMMA UserWalk ==
    ASSUME TablesOK, xlen \in {32, 64}, NEW p \in Pages, NEW type, NEW mode \in {"U", "S"}
    PROVE  walk(p, type, mode) = Leaf(Pte(p), 0, p, type, mode)
<1>1. p \in 0..(Entries - 1) /\ p \in 0..Last
  BY PageNumbers DEF Last
<1>2. Digit(p, 0) = p /\ Digit(p, 1) = 0 /\ Digit(p, 2) = 0
  BY <1>1, PageDigits
<1>3. Canonical(p)
  BY <1>1, PageCanonical
<1>4. CASE xlen = 32
  <2>1. Level0(TableFrame(1), p, type, mode) = Leaf(Pte(p), 0, p, type, mode)
    <3>1. addr_to_mem(TableFrame(1)) /\ -10 - TableFrame(1) = 1
      BY <1>4, TableEntries DEF TablesOK
    <3> QED
      BY <1>2, <1>4, <3>1 DEF Level0, Entry, Pte, UserTable
  <2>2. Level1(TableFrame(0), p, type, mode) = Level0(TableFrame(1), p, type, mode)
    <3>1. addr_to_mem(TableFrame(0)) /\ -10 - TableFrame(0) = 0
      BY <1>4, TableEntries DEF TablesOK
    <3>2. Entry(TableFrame(0), 1, p) = Table(1)
      BY <1>2, <3>1 DEF Entry, TablesOK
    <3>3. IsTable(Table(1)) /\ Table(1).ppn = TableFrame(1)
      BY TableEntries
    <3> QED
      BY <3>1, <3>2, <3>3 DEF Level1
  <2> QED
    BY <1>3, <1>4, <2>1, <2>2 DEF walk, decode_vm_info
<1>5. CASE xlen = 64
  <2>1. Level0(TableFrame(3), p, type, mode) = Leaf(Pte(p), 0, p, type, mode)
    <3>1. addr_to_mem(TableFrame(3)) /\ -10 - TableFrame(3) = 3
      BY <1>5, TableEntries DEF TablesOK
    <3> QED
      BY <1>2, <1>5, <3>1 DEF Level0, Entry, Pte, UserTable
  <2>2. Level1(TableFrame(1), p, type, mode) = Level0(TableFrame(3), p, type, mode)
    <3>1. addr_to_mem(TableFrame(1)) /\ -10 - TableFrame(1) = 1
      BY <1>5, TableEntries DEF TablesOK
    <3>2. Entry(TableFrame(1), 1, p) = Table(3)
      BY <1>2, <1>5, <3>1 DEF Entry, TablesOK
    <3>3. IsTable(Table(3)) /\ Table(3).ppn = TableFrame(3)
      BY TableEntries
    <3> QED
      BY <3>1, <3>2, <3>3 DEF Level1
  <2>3. Level2(TableFrame(0), p, type, mode) = Level1(TableFrame(1), p, type, mode)
    <3>1. addr_to_mem(TableFrame(0)) /\ -10 - TableFrame(0) = 0
      BY <1>5, TableEntries DEF TablesOK
    <3>2. Entry(TableFrame(0), 2, p) = Table(1)
      BY <1>2, <3>1 DEF Entry, TablesOK
    <3>3. IsTable(Table(1)) /\ Table(1).ppn = TableFrame(1)
      BY TableEntries
    <3> QED
      BY <3>1, <3>2, <3>3 DEF Level2
  <2> QED
    BY <1>3, <1>5, <2>1, <2>2, <2>3 DEF walk, decode_vm_info
<1> QED
  BY <1>4, <1>5

\* ... and the superpage for one of the kernel's.
LEMMA KernelWalk ==
    ASSUME TablesOK, xlen \in {32, 64}, NEW x \in Homes, NEW type \in {"LOAD", "STORE"}
    PROVE  walk(Kva(x), type, "S") = DRAM + x
<1>1. x \in 0..(Entries - 1)
  BY PageNumbers
<1>2. Leaf(Kernel, 1, Kva(x), type, "S") = DRAM + x
  <2>1. Kva(x) % Entries = x
    BY <1>1, KernelDigits32, KernelDigits64
  <2>2. LeafOk(Kernel, 1, type, "S") /\ ~IsTable(Kernel)
    BY VmAssumption, Spans DEF LeafOk, IsTable, Kernel, NoPte
  <2> QED
    BY <2>1, <2>2, Spans DEF Leaf, Kernel, NoPte
<1>3. ~IsTable(Kernel)
  BY DEF IsTable, Kernel, NoPte
<1>4. CASE xlen = 32
  <2>1. addr_to_mem(TableFrame(0)) /\ -10 - TableFrame(0) = 0
    BY <1>4, TableEntries DEF TablesOK
  <2>2. Entry(TableFrame(0), 1, Kva(x)) = Kernel
    BY <1>1, <1>4, <2>1, KernelDigits32 DEF Entry, TablesOK
  <2> QED
    BY <1>2, <1>3, <1>4, <2>1, <2>2 DEF walk, decode_vm_info, Level1, Canonical
<1>5. CASE xlen = 64
  <2>1. addr_to_mem(TableFrame(0)) /\ -10 - TableFrame(0) = 0
        /\ addr_to_mem(TableFrame(2)) /\ -10 - TableFrame(2) = 2
    BY <1>5, TableEntries DEF TablesOK
  <2>2. Entry(TableFrame(0), 2, Kva(x)) = Table(2) /\ Entry(TableFrame(2), 1, Kva(x)) = Kernel
    BY <1>1, <1>5, <2>1, KernelDigits64 DEF Entry, TablesOK
  <2>3. IsTable(Table(2)) /\ Table(2).ppn = TableFrame(2) /\ Canonical(Kva(x))
    BY <1>1, <1>5, TableEntries, KernelDigits64
  <2> QED
    BY <1>2, <1>3, <1>5, <2>1, <2>2, <2>3 DEF walk, decode_vm_info, Level1, Level2
<1> QED
  BY <1>4, <1>5

\* The registers that say how an access is translated.
Modes == /\ xlen \in {32, 64} /\ prv \in {"U", "S"}
         /\ mstatus = [mprv |-> FALSE, mpp |-> "U", sum |-> mstatus.sum, mxr |-> FALSE]

\* A page of the test is translated if it is mapped, accessed and, for a store,
\* dirty; in the handler only with its access to user pages, and never to fetch.
LEMMA PageTranslation ==
    ASSUME TablesOK, FramesOK, Modes, NEW p \in Pages, NEW type \in Types
    PROVE  LET granted == Allowed(p, type) /\ (prv = "S" => type # "FETCH" /\ mstatus.sum)
           IN  /\ granted => translate(p, type) = Pte(p).ppn /\ Pte(p).ppn \in Nat
               /\ ~granted => translate(p, type) = -1
<1>1. translate(p, type) = Leaf(Pte(p), 0, p, type, prv)
  BY UserWalk DEF translate, Modes
<1>2. p % Span(0) = 0 /\ Span(0) = 1
  BY PageNumbers, PageDigits, Spans
<1>3. CASE ~Mapped(p)
  BY <1>1, <1>3 DEF Mapped, Leaf, LeafOk, NoPte, Allowed, Fault
<1>4. CASE Mapped(p)
  <2>1. PICK a \in BOOLEAN, d \in BOOLEAN, f \in UserFrames : Pte(p) = UserPte(a, d, f)
    BY <1>4 DEF FramesOK
  <2>2. f \in Nat /\ f % 1 = 0
    BY VmAssumption DEF UserFrames, FreeFrame
  <2>3. ~IsTable(Pte(p)) /\ Pte(p).a = a /\ Pte(p).d = d /\ Pte(p).ppn = f
    BY <2>1 DEF IsTable, UserPte
  <2>4. LeafOk(Pte(p), 0, type, prv)
            <=> (a /\ (type = "STORE" => d) /\ (prv = "S" => type # "FETCH" /\ mstatus.sum))
    BY <2>1, <2>2, <1>2 DEF LeafOk, UserPte, Modes, Types
  <2> QED
    BY <1>1, <1>2, <1>4, <2>2, <2>3, <2>4 DEF Leaf, Allowed, Fault
<1> QED
  BY <1>3, <1>4

\* One of the kernel's pages always is, to load or store in the handler.
LEMMA KernelTranslation ==
    ASSUME TablesOK, Modes, prv = "S", NEW x \in Homes, NEW type \in {"LOAD", "STORE"}
    PROVE  translate(Kva(x), type) = DRAM + x /\ DRAM + x \in Nat
BY KernelWalk, VmAssumption DEF translate, Modes, Homes

----------------------------------------------------------------------------
(* The TLB. *)

\* What the tables say of a page is one thing.
LEMMA MapsOnce ==
    ASSUME xlen \in {32, 64}, NEW vpn, NEW f, NEW g, Maps(vpn, f), Maps(vpn, g)
    PROVE  f = g
<1>1. \A p \in Pages : \A x \in Homes : Kva(x) # p
  <2> SUFFICES ASSUME NEW p \in Pages, NEW x \in Homes
               PROVE  Kva(x) # p
    OBVIOUS
  <2>1. p \in 0..(Entries - 1) /\ x \in 0..(Entries - 1)
    BY PageNumbers
  <2>2. Kva(x) \in Nat /\ Kva(x) >= Entries
    BY <2>1, KernelApart
  <2> QED
    BY <2>1, <2>2, Spans
<1>2. \A x, y \in Homes : Kva(x) = Kva(y) => x = y
  BY KernelApart, PageNumbers
<1> QED
  BY <1>1, <1>2 DEF Maps

\* A page's place in the tag arrays.
LEMMA Index ==
    ASSUME NEW vpn \in Nat
    PROVE  Idx(vpn) \in Slots
BY MmuAssumption DEF Idx, Slots

\* No tag, no claim.
LEMMA NoTagOK ==
    ASSUME NEW i, NEW f, NEW type
    PROVE  TagOK(NoTag, i, f, type)
BY DEF TagOK, NoTag

\* The types of the trigger's check.
LEMMA CheckType ==
    ASSUME NEW type
    PROVE  check_triggers(type) \in BOOLEAN /\ (check_triggers(type) <=> type \in mcontrol.types)
BY DEF check_triggers

\* Refilling an entry drops what its frame would make untrue of the other tags.
LEMMA Refill ==
    ASSUME NEW m, MmuOK(m), xlen \in {32, 64}, NEW vpn \in Nat, NEW frame \in Nat, Maps(vpn, frame),
           NEW type \in Types, prv = "U" => Allowed(vpn, type), type = "FETCH" \/ type \notin tracer
    PROVE  MmuOK(refill_tlb(m, vpn, frame, type)) /\ refill_tlb(m, vpn, frame, type).matched = m.matched
<1> DEFINE at == Idx(vpn)
           tag == [vpn |-> vpn, check |-> check_triggers(type)]
           new(tags, t) == IF type = t THEN [tags EXCEPT ![at] = tag] ELSE Keep(tags, vpn)
           data == [m.data EXCEPT ![at] = frame]
           r == refill_tlb(m, vpn, frame, type)
<1>1. at \in Slots
  BY Index
<1>2. r = [load |-> new(m.load, "LOAD"), store |-> new(m.store, "STORE"),
           insn |-> new(m.insn, "FETCH"), data |-> data, icache |-> m.icache, matched |-> m.matched]
  BY DEF refill_tlb
<1>3. tag \in [vpn : Int, check : BOOLEAN] /\ NoTag \in [vpn : Int, check : BOOLEAN]
  BY CheckType DEF NoTag
<1>4. TagOK(tag, at, frame, type)
  BY CheckType DEF TagOK
<1>5. ASSUME NEW tags \in TagArrays, NEW t \in Types, \A i \in Slots : TagOK(tags[i], i, m.data[i], t)
      PROVE  new(tags, t) \in TagArrays /\ \A i \in Slots : TagOK(new(tags, t)[i], i, data[i], t)
  <2>1. new(tags, t) \in TagArrays
    BY <1>1, <1>3 DEF TagArrays, Keep
  <2>2. ASSUME NEW i \in Slots, i # at
        PROVE  TagOK(new(tags, t)[i], i, data[i], t)
    BY <1>5, <2>2 DEF Keep, TagArrays, MmuOK, MmuType
  <2>3. data[at] = frame
    BY <1>1 DEF MmuOK, MmuType
  <2>4. CASE type = t
    BY <1>1, <1>4, <2>2, <2>1, <2>3, <2>4 DEF TagArrays
  <2>5. CASE type # t /\ tags[at].vpn = vpn
    <3>1. TagOK(tags[at], at, m.data[at], t) /\ new(tags, t) = tags
      BY <1>1, <1>5, <2>5 DEF Keep
    <3>2. Maps(vpn, m.data[at])
      BY <2>5, <3>1 DEF TagOK
    <3>3. m.data[at] = frame
      BY <3>2, MapsOnce
    <3> QED
      BY <2>1, <2>2, <2>3, <3>1, <3>3
  <2>6. CASE type # t /\ tags[at].vpn # vpn
    <3>1. new(tags, t)[at] = NoTag
      BY <1>1, <2>6 DEF Keep, TagArrays
    <3> QED
      BY <2>1, <2>2, <3>1, NoTagOK
  <2> QED
    BY <2>4, <2>5, <2>6
<1>6. /\ new(m.load, "LOAD") \in TagArrays
      /\ \A i \in Slots : TagOK(new(m.load, "LOAD")[i], i, data[i], "LOAD")
  BY <1>5 DEF MmuOK, MmuType, Types
<1>7. /\ new(m.store, "STORE") \in TagArrays
      /\ \A i \in Slots : TagOK(new(m.store, "STORE")[i], i, data[i], "STORE")
  BY <1>5 DEF MmuOK, MmuType, Types
<1>8. /\ new(m.insn, "FETCH") \in TagArrays
      /\ \A i \in Slots : TagOK(new(m.insn, "FETCH")[i], i, data[i], "FETCH")
  BY <1>5 DEF MmuOK, MmuType, Types
<1>9. data \in [Slots -> Nat]
  BY <1>1 DEF MmuOK, MmuType
<1> HIDE DEF new, data
<1>10. MmuType(r)
  BY <1>2, <1>6, <1>7, <1>8, <1>9 DEF MmuOK, MmuType
<1> QED
  BY <1>2, <1>6, <1>7, <1>8, <1>10 DEF MmuOK

----------------------------------------------------------------------------
(* Accesses. *)

\* What the walk relies on, and the addresses the hart reaches: the test's pages
\* and, in the handler, the kernel's.
Walkable == TablesOK /\ FramesOK /\ Modes /\ tracer \subseteq Types
Reached(vpn) == vpn \in Pages \/ (prv = "S" /\ \E x \in Homes : vpn = Kva(x))
Grants(vpn, type) == Allowed(vpn, type) /\ (prv = "S" => mstatus.sum)

\* A translation is what the tables say; a fault is a page of the test's that
\* may not be accessed so.
LEMMA Translated ==
    ASSUME Walkable, NEW vpn, Reached(vpn), NEW type \in Types, type = "FETCH" => prv = "U"
    PROVE  /\ vpn \in Nat
           /\ \/ /\ translate(vpn, type) \in Nat /\ Maps(vpn, translate(vpn, type))
                 /\ prv = "U" => Allowed(vpn, type)
              \/ translate(vpn, type) = -1 /\ vpn \in Pages /\ ~Grants(vpn, type)
<1>1. CASE vpn \in Pages
  <2>1. vpn \in Nat
    BY <1>1, PageNumbers
  <2>2. Allowed(vpn, type) => Mapped(vpn)
    BY DEF Allowed
  <2>3. prv # "S" <=> prv = "U"
    BY DEF Walkable, Modes
  <2> QED
    BY <1>1, <2>1, <2>2, <2>3, PageTranslation DEF Walkable, Maps, Grants
<1>2. CASE prv = "S" /\ \E x \in Homes : vpn = Kva(x)
  <2>1. PICK x \in Homes : vpn = Kva(x)
    BY <1>2
  <2>2. vpn \in Nat
    BY <2>1, KernelApart, PageNumbers DEF Walkable, Modes
  <2>3. type \in {"LOAD", "STORE"}
    BY <1>2 DEF Types
  <2>4. translate(vpn, type) = DRAM + x /\ DRAM + x \in Nat
    BY <1>2, <2>1, <2>3, KernelTranslation DEF Walkable
  <2> QED
    BY <1>2, <2>1, <2>2, <2>4 DEF Maps
<1> QED
  BY <1>1, <1>2 DEF Reached

\* What is true of a load or store, whichever way it went: the MMU still agrees
\* with the tables, a fault is justified, and no trigger or tracer is bypassed.
Sound(out, m, vpn, type, data) ==
    /\ MmuOK(out.mmu) /\ out.mmu.matched = m.matched
    /\ \/ /\ out.frame \in Nat /\ Maps(vpn, out.frame)
          /\ prv = "U" => Allowed(vpn, type)
       \/ out.frame = -1 /\ vpn \in Pages /\ ~Grants(vpn, type)
    /\ out.frame >= 0 /\ ~out.fired =>
         /\ {type} \cap tracer \subseteq out.traced
         /\ ~m.matched => ~trigger_match(type, vpn, data)
    /\ m.matched => ~out.fired

\* A hit stands for what the tables say.
LEMMA HitSound ==
    ASSUME NEW m, MmuOK(m), NEW vpn \in Nat, NEW type \in Types, Hit(m, vpn, type)
    PROVE  /\ HitFrame(m, vpn) \in Nat /\ Maps(vpn, HitFrame(m, vpn))
           /\ prv = "U" => Allowed(vpn, type)
           /\ TagOf(m, vpn, type).check <=> type \in mcontrol.types
           /\ type # "FETCH" => type \notin tracer
<1>1. Idx(vpn) \in Slots
  BY Index
<1>2. TagOK(TagOf(m, vpn, type), Idx(vpn), HitFrame(m, vpn), type)
  BY <1>1 DEF MmuOK, TagOf, HitFrame, Types
<1>3. HitFrame(m, vpn) \in Nat
  BY <1>1 DEF MmuOK, MmuType, HitFrame
<1>4. TagOf(m, vpn, type).vpn = vpn /\ vpn # -1
  BY DEF Hit
<1> QED
  BY <1>2, <1>3, <1>4 DEF TagOK

\* A load does no harm.
LEMMA LoadSound ==
    ASSUME Walkable, NEW m, MmuOK(m), NEW vpn, Reached(vpn)
    PROVE  Sound(Load(m, vpn), m, vpn, "LOAD", mem[Load(m, vpn).frame])
<1> DEFINE out == Load(m, vpn)
           frame == translate(vpn, "LOAD")
<1>1. vpn \in Nat /\ \/ /\ frame \in Nat /\ Maps(vpn, frame)
                        /\ prv = "U" => Allowed(vpn, "LOAD")
                     \/ frame = -1 /\ vpn \in Pages /\ ~Grants(vpn, "LOAD")
  BY Translated DEF Types
<1>2. CASE Hit(m, vpn, "LOAD")
  <2>1. /\ out.frame = HitFrame(m, vpn) /\ out.mmu = m
        /\ out.fired <=> TagOf(m, vpn, "LOAD").check /\ Fires(m, "LOAD", vpn, mem[Load(m, vpn).frame])
    BY <1>2, SMT DEF Load, Outcome
  <2>2. /\ HitFrame(m, vpn) \in Nat /\ Maps(vpn, HitFrame(m, vpn))
        /\ prv = "U" => Allowed(vpn, "LOAD")
        /\ TagOf(m, vpn, "LOAD").check <=> "LOAD" \in mcontrol.types
        /\ "LOAD" \notin tracer
    BY <1>1, <1>2, HitSound DEF Types
  <2> HIDE DEF out
  <2>3. /\ m.matched => ~out.fired
        /\ ~out.fired /\ ~m.matched => ~trigger_match("LOAD", vpn, mem[Load(m, vpn).frame])
    BY <2>1, <2>2, Zenon DEF Fires, trigger_match
  <2> QED
    BY <2>1, <2>2, <2>3 DEF Sound, out
<1>3. CASE ~Hit(m, vpn, "LOAD") /\ frame = -1
  <2>1. out.frame = -1 /\ out.mmu = m /\ ~out.fired
    BY <1>3, SMT DEF Load, Outcome
  <2> HIDE DEF out
  <2> QED
    BY <1>1, <1>3, <2>1 DEF Sound, out
<1>4. CASE ~Hit(m, vpn, "LOAD") /\ frame \in Nat
  <2> DEFINE r == IF "LOAD" \in tracer THEN m ELSE refill_tlb(m, vpn, frame, "LOAD")
  <2>1. /\ out.frame = frame /\ out.mmu = r /\ out.traced = {"LOAD"} \cap tracer
        /\ out.fired <=> Fires(m, "LOAD", vpn, mem[out.frame])
    BY <1>4, SMT DEF Load, load_slow_path, Outcome
  <2>2. MmuOK(r) /\ r.matched = m.matched
    BY <1>1, <1>4, Refill DEF Types, Walkable, Modes
  <2> HIDE DEF r, out, frame
  <2>3. /\ m.matched => ~out.fired
        /\ ~out.fired /\ ~m.matched => ~trigger_match("LOAD", vpn, mem[out.frame])
    BY <2>1, Zenon DEF Fires
  <2> QED
    BY <1>1, <1>4, <2>1, <2>2, <2>3 DEF Sound, out
<1> QED
  BY <1>1, <1>2, <1>3, <1>4

\* Nor does a store.
LEMMA StoreSound ==
    ASSUME Walkable, NEW m, MmuOK(m), NEW vpn, Reached(vpn), NEW data
    PROVE  Sound(Store(m, vpn, data), m, vpn, "STORE", data)
<1> DEFINE out == Store(m, vpn, data)
           frame == translate(vpn, "STORE")
<1>1. vpn \in Nat /\ \/ /\ frame \in Nat /\ Maps(vpn, frame)
                        /\ prv = "U" => Allowed(vpn, "STORE")
                     \/ frame = -1 /\ vpn \in Pages /\ ~Grants(vpn, "STORE")
  BY Translated DEF Types
<1>2. CASE Hit(m, vpn, "STORE")
  <2>1. /\ out.frame = HitFrame(m, vpn) /\ out.mmu = m
        /\ out.fired <=> TagOf(m, vpn, "STORE").check /\ Fires(m, "STORE", vpn, data)
    <3>1. out.frame = HitFrame(m, vpn) /\ out.mmu = m
      BY <1>2, SMT DEF Store, Outcome
    <3>2. out.fired <=> TagOf(m, vpn, "STORE").check /\ Fires(m, "STORE", vpn, data)
      BY <1>2, Zenon DEF Store, Outcome
    <3> QED
      BY <3>1, <3>2
  <2>2. /\ HitFrame(m, vpn) \in Nat /\ Maps(vpn, HitFrame(m, vpn))
        /\ prv = "U" => Allowed(vpn, "STORE")
        /\ TagOf(m, vpn, "STORE").check <=> "STORE" \in mcontrol.types
        /\ "STORE" \notin tracer
    BY <1>1, <1>2, HitSound DEF Types
  <2> HIDE DEF out
  <2>3. /\ m.matched => ~out.fired
        /\ ~out.fired /\ ~m.matched => ~trigger_match("STORE", vpn, data)
    BY <2>1, <2>2, Zenon DEF Fires, trigger_match
  <2> QED
    BY <2>1, <2>2, <2>3 DEF Sound, out
<1>3. CASE ~Hit(m, vpn, "STORE") /\ frame = -1
  <2>1. out.frame = -1 /\ out.mmu = m /\ ~out.fired
    BY <1>3, SMT DEF Store, Outcome
  <2> HIDE DEF out
  <2> QED
    BY <1>1, <1>3, <2>1 DEF Sound, out
<1>4. CASE ~Hit(m, vpn, "STORE") /\ frame \in Nat
  <2> DEFINE r == IF "STORE" \in tracer THEN m ELSE refill_tlb(m, vpn, frame, "STORE")
  <2>1. MmuOK(r) /\ r.matched = m.matched
    BY <1>1, <1>4, Refill DEF Types, Walkable, Modes
  <2>2. CASE Fires(m, "STORE", vpn, data)
    <3>1. out.frame = frame /\ out.mmu = m /\ out.fired /\ ~m.matched
      BY <1>4, <2>2, SMT DEF Store, store_slow_path, Outcome, Fires
    <3> HIDE DEF out, frame
    <3> QED
      BY <1>1, <1>4, <3>1 DEF Sound, out
  <2>3. CASE ~Fires(m, "STORE", vpn, data)
    <3>1. /\ out.frame = frame /\ out.mmu = r /\ out.traced = {"STORE"} \cap tracer
          /\ ~out.fired
      BY <1>4, <2>3, SMT DEF Store, store_slow_path, Outcome
    <3>2. ~m.matched => ~trigger_match("STORE", vpn, data)
      BY <2>3 DEF Fires
    <3> HIDE DEF r, out, frame
    <3> QED
      BY <1>1, <1>4, <2>1, <3>1, <3>2 DEF Sound, out
  <2> QED
    BY <2>2, <2>3
<1> QED
  BY <1>1, <1>2, <1>3, <1>4

\* A fetch is from an allowed page, or faults on one that is not; none that is
\* traced is answered by the instruction cache.
LEMMA FetchSound ==
    ASSUME Walkable, prv = "U", NEW m, MmuOK(m), NEW vpn \in Pages
    PROVE  LET out == access_icache(m, vpn)
           IN  /\ MmuOK(out.mmu) /\ out.mmu.matched = m.matched
               /\ \/ out.frame \in Nat /\ Allowed(vpn, "FETCH")
                  \/ out.frame = -1 /\ ~Allowed(vpn, "FETCH")
               /\ out.frame >= 0 /\ ~out.fired => {"FETCH"} \cap tracer \subseteq out.traced
<1> DEFINE i == icache_index(vpn)
           t == translate_insn_addr(m, vpn)
<1>1. vpn \in Nat /\ i \in Lines
  BY PageNumbers, MmuAssumption DEF icache_index, Lines
<1>2. CASE m.icache[i].tag = vpn
  <2>1. access_icache(m, vpn) = Outcome(HitFrame(m, vpn), m, {}, FALSE)
    BY <1>2 DEF access_icache
  <2>2. "FETCH" \notin tracer /\ Allowed(vpn, "FETCH")
    BY <1>1, <1>2 DEF MmuOK, LineOK
  <2>3. HitFrame(m, vpn) \in Nat
    BY <1>1, Index DEF MmuOK, MmuType, HitFrame
  <2> QED
    BY <2>1, <2>2, <2>3 DEF Outcome
<1>3. CASE m.icache[i].tag # vpn
  <2>1. /\ MmuOK(t.mmu) /\ t.mmu.matched = m.matched
        /\ \/ t.frame \in Nat /\ Allowed(vpn, "FETCH")
           \/ t.frame = -1 /\ ~Allowed(vpn, "FETCH")
    <3>1. CASE Hit(m, vpn, "FETCH")
      <4>1. t.frame = HitFrame(m, vpn) /\ t.mmu = m
        BY <3>1, SMT DEF translate_insn_addr, Outcome
      <4> QED
        BY <1>1, <3>1, <4>1, HitSound DEF Types
    <3>2. CASE ~Hit(m, vpn, "FETCH")
      <4> DEFINE frame == translate(vpn, "FETCH")
                 r == refill_tlb(m, vpn, frame, "FETCH")
      <4>2. \/ frame \in Nat /\ Maps(vpn, frame) /\ Allowed(vpn, "FETCH")
            \/ frame = -1 /\ ~Allowed(vpn, "FETCH")
        BY Translated DEF Types, Reached, Grants
      <4>3. frame \in Nat => MmuOK(r) /\ r.matched = m.matched
        BY <1>1, <4>2, Refill DEF Types, Walkable, Modes
      <4>4. CASE frame = -1
        <5>1. t.frame = -1 /\ t.mmu = m /\ ~t.fired
          BY <3>2, <4>4, SMT DEF translate_insn_addr, fetch_slow_path, Outcome
        <5> QED
          BY <4>2, <4>4, <5>1
      <4>5. CASE frame \in Nat
        <5>1. t.frame = frame /\ t.mmu = r
          BY <3>2, <4>5, SMT DEF translate_insn_addr, fetch_slow_path, Outcome
        <5> HIDE DEF t, frame, r
        <5> QED
          BY <4>2, <4>3, <4>5, <5>1
      <4> QED
        BY <4>2, <4>4, <4>5
    <3> QED
      BY <3>1, <3>2
  <2>2. access_icache(m, vpn) = RefillIcache(t, vpn)
    BY <1>3 DEF access_icache
  <2> HIDE DEF t
  <2>3. CASE t.frame < 0 \/ t.fired
    <3>1. access_icache(m, vpn) = t
      BY <2>2, <2>3, Zenon DEF RefillIcache
    <3> QED
      BY <2>1, <2>3, <3>1
  <2>4. CASE ~(t.frame < 0 \/ t.fired)
    <3> DEFINE f == FillEntry(t.mmu, vpn, t.frame)
    <3>1. /\ access_icache(m, vpn).frame = t.frame /\ access_icache(m, vpn).mmu = f
          /\ access_icache(m, vpn).traced = {"FETCH"} \cap tracer
      BY <2>2, <2>4, SMT DEF RefillIcache, Outcome
    <3>2. MmuOK(f) /\ f.matched = t.mmu.matched
      <4> DEFINE line == [tag |-> IF "FETCH" \in tracer THEN -1 ELSE vpn, data |-> mem[t.frame]]
                 c == [t.mmu.icache EXCEPT ![i] = line]
      <4>1. f = [load |-> t.mmu.load, store |-> t.mmu.store, insn |-> t.mmu.insn,
                 data |-> t.mmu.data, icache |-> c, matched |-> t.mmu.matched]
        BY <2>1 DEF MmuOK, MmuType, FillEntry
      <4>2. LineOK(line)
        BY <2>1, <2>4 DEF LineOK
      <4>3. \A j \in Lines : LineOK(c[j])
        BY <2>1, <4>2 DEF MmuOK, MmuType
      <4>4. c = [j \in Lines |-> c[j]]
        BY <2>1 DEF MmuOK, MmuType
      <4> HIDE DEF c, f
      <4> QED
        BY <2>1, <4>1, <4>3, <4>4 DEF MmuOK, MmuType
    <3> HIDE DEF f
    <3> QED
      BY <2>1, <2>4, <3>1, <3>2
  <2> QED
    BY <2>3, <2>4
<1> QED
  BY <1>2, <1>3

\* An instruction of the test faults only for what the tables withhold, and
\* completes only seen by tracers and triggers.
LEMMA AttemptSound ==
    ASSUME Walkable, prv = "U", pending.vpn \in Pages,
           pending.type \in {"LOAD", "STORE", "FETCH", "AMO"}, NEW m, MmuOK(m)
    PROVE  LET out == Attempt(m)
           IN  /\ MmuOK(out.mmu) /\ out.mmu.matched = m.matched
               /\ out.frame \in Int
               /\ out.frame < 0 => ~Allowed(pending.vpn, FaultCause)
               /\ out.frame >= 0 /\ ~out.fired =>
                    /\ Allowed(pending.vpn, FaultCause)
                    /\ Writes \/ Reads => out.frame = Pte(pending.vpn).ppn
                    /\ Touches \cap tracer \subseteq out.traced
                    /\ ~m.matched => MatchedTypes(out) \subseteq {"FETCH"}
               /\ m.matched /\ pending.type # "FETCH" => ~out.fired
<1> DEFINE p == pending.vpn
           out == Attempt(m)
<1>1. Reached(p) /\ (\A t : Grants(p, t) <=> Allowed(p, t))
      /\ (\A f : Maps(p, f) => f = Pte(p).ppn)
  BY DEF Reached, Grants, Maps
<1>2. CASE pending.type = "LOAD"
  <2>1. out = Load(m, p)
    BY <1>2 DEF Attempt
  <2>2. FaultCause = "LOAD" /\ Touches = {"LOAD"} /\ p \in Pages
    BY <1>2 DEF FaultCause, Touches
  <2>3. Sound(out, m, p, "LOAD", mem[out.frame])
    BY <1>1, <2>1, LoadSound
  <2>4. ~trigger_match("LOAD", p, mem[out.frame]) => MatchedTypes(out) = {}
    BY <2>2 DEF MatchedTypes
  <2> HIDE DEF out, p
  <2>5. p = pending.vpn
    BY DEF p
  <2> QED
    BY <1>1, <1>2, <2>2, <2>3, <2>4, <2>5 DEF Sound, out
<1>3. CASE pending.type = "STORE"
  <2>1. out = Store(m, p, pending.val)
    BY <1>3 DEF Attempt
  <2>2. FaultCause = "STORE" /\ Touches = {"STORE"} /\ p \in Pages
    BY <1>3 DEF FaultCause, Touches
  <2>3. Sound(out, m, p, "STORE", pending.val)
    BY <1>1, <2>1, StoreSound
  <2>4. ~trigger_match("STORE", p, pending.val) => MatchedTypes(out) = {}
    BY <2>2 DEF MatchedTypes
  <2> HIDE DEF out, p
  <2>5. p = pending.vpn
    BY DEF p
  <2> QED
    BY <1>1, <1>3, <2>2, <2>3, <2>4, <2>5 DEF Sound, out
<1>4. CASE pending.type = "FETCH"
  <2>1. out = access_icache(m, p)
    BY <1>4 DEF Attempt
  <2>2. FaultCause = "FETCH" /\ Touches = {"FETCH"} /\ ~Writes /\ ~Reads
    BY <1>4 DEF FaultCause, Touches, Writes, Reads
  <2>3. MatchedTypes(out) \subseteq {"FETCH"}
    BY <2>2 DEF MatchedTypes
  <2>4. /\ MmuOK(out.mmu) /\ out.mmu.matched = m.matched
        /\ \/ out.frame \in Nat /\ Allowed(p, "FETCH")
           \/ out.frame = -1 /\ ~Allowed(p, "FETCH")
        /\ out.frame >= 0 /\ ~out.fired => {"FETCH"} \cap tracer \subseteq out.traced
    BY <2>1, FetchSound
  <2> HIDE DEF out
  <2> QED
    BY <1>4, <2>2, <2>3, <2>4 DEF out
<1>5. CASE pending.type = "AMO"
  <2> DEFINE lhs == Load(m, p)
             rhs == Store(lhs.mmu, p, pending.val)
  <2>1. FaultCause = "STORE" /\ Touches = {"LOAD", "STORE"}
    BY <1>5 DEF FaultCause, Touches
  <2>2. Sound(lhs, m, p, "LOAD", mem[lhs.frame])
    BY <1>1, LoadSound
  <2>3. MmuOK(lhs.mmu) /\ lhs.mmu.matched = m.matched
    BY <2>2 DEF Sound
  <2>4. Sound(rhs, lhs.mmu, p, "STORE", pending.val)
    BY <1>1, <2>3, StoreSound
  <2>5. ~Allowed(p, "LOAD") => ~Allowed(p, "STORE")
    BY DEF Allowed
  <2>6. CASE lhs.frame < 0 \/ lhs.fired
    <3>1. out = lhs
      BY <1>5, <2>6, Zenon DEF Attempt
    <3> HIDE DEF out, lhs
    <3> QED
      BY <1>1, <2>1, <2>2, <2>5, <2>6, <3>1 DEF Sound, out
  <2>7. CASE ~(lhs.frame < 0 \/ lhs.fired)
    <3>1. out = [rhs EXCEPT !.traced = @ \cup lhs.traced]
      BY <1>5, <2>7, Zenon DEF Attempt
    <3>2. rhs = [frame |-> rhs.frame, mmu |-> rhs.mmu, traced |-> rhs.traced, fired |-> rhs.fired]
      <4> DEFINE f == translate(p, "STORE")
                 n == IF "STORE" \in tracer THEN lhs.mmu ELSE refill_tlb(lhs.mmu, p, f, "STORE")
      <4>1. ASSUME NEW f1, NEW m1, NEW t1, NEW d1, rhs = Outcome(f1, m1, t1, d1)
            PROVE  rhs = [frame |-> rhs.frame, mmu |-> rhs.mmu, traced |-> rhs.traced, fired |-> rhs.fired]
        <5> HIDE DEF rhs
        <5> QED
          BY <4>1 DEF Outcome
      <4>2. \/ \E d1 : rhs = Outcome(HitFrame(lhs.mmu, p), lhs.mmu, {}, d1)
            \/ rhs = Outcome(f, lhs.mmu, {}, FALSE)
            \/ rhs = Outcome(f, lhs.mmu, {}, TRUE)
            \/ rhs = Outcome(f, n, {"STORE"} \cap tracer, FALSE)
        BY Zenon DEF Store, store_slow_path
      <4> HIDE DEF rhs, lhs, f, n
      <4> QED
        BY <4>1, <4>2, Zenon
    <3>3. /\ out.frame = rhs.frame /\ out.mmu = rhs.mmu /\ out.traced = rhs.traced \cup lhs.traced
          /\ out.fired = rhs.fired
      <4> HIDE DEF out, lhs, rhs
      <4> QED
        BY <3>1, <3>2
    <3>4. lhs.frame = Pte(p).ppn /\ (rhs.frame \in Nat => rhs.frame = lhs.frame)
      BY <1>1, <2>2, <2>4, <2>7 DEF Sound
    <3>5. ASSUME rhs.frame \in Nat, ~rhs.fired, ~m.matched
          PROVE  MatchedTypes(out) = {}
      <4>1. ~trigger_match("LOAD", p, mem[out.frame]) /\ ~trigger_match("STORE", p, pending.val)
        BY <2>2, <2>3, <2>4, <2>7, <3>3, <3>4, <3>5 DEF Sound
      <4> QED
        BY <2>1, <4>1 DEF MatchedTypes
    <3> HIDE DEF out, lhs, rhs
    <3> QED
      BY <1>1, <2>1, <2>2, <2>3, <2>4, <2>5, <2>7, <3>3, <3>4, <3>5 DEF Sound, out
  <2> QED
    BY <2>6, <2>7
<1> QED
  BY <1>2, <1>3, <1>4, <1>5

----------------------------------------------------------------------------
(* What a step leaves as it was. *)

\* A flushed TLB answers nothing, so it agrees with any tables.
LEMMA FlushStep ==
    ASSUME NEW m, MmuOK(m), m.matched = FALSE, mmu' = flush_tlb(m)
    PROVE  MmuOK(mmu)' /\ mmu.matched' = FALSE
<1>1. mmu' = [load |-> NoTags, store |-> NoTags, insn |-> NoTags, data |-> m.data,
              icache |-> NoEntries, matched |-> FALSE]
  BY DEF flush_tlb
<1>2. m.data \in [Slots -> Nat]
  BY DEF MmuOK, MmuType
<1>3. NoTags \in TagArrays /\ \A i \in Slots : NoTags[i] = NoTag
  BY DEF NoTags, NoTag, TagArrays, Slots
<1>4. \A i, f, t : TagOK(NoTag, i, f, t)'
  BY DEF TagOK, NoTag
<1>5. \A i \in Lines : LineOK(NoEntries[i])'
  BY DEF LineOK, NoEntries, Lines
<1>6. NoEntries = [i \in Lines |-> NoEntries[i]]
  BY DEF NoEntries, Lines
<1> HIDE DEF NoTags, NoEntries
<1> QED
  BY <1>1, <1>2, <1>3, <1>4, <1>5, <1>6 DEF MmuOK, MmuType

\* The TLB agrees with tables that say at least as much.
LEMMA MmuStep ==
    ASSUME NEW m, MmuOK(m), mmu' = m, UNCHANGED <<xlen, prv, tracer, mcontrol>>,
           \A p \in Pages : Mapped(p) => Mapped(p)' /\ Pte(p).ppn' = Pte(p).ppn,
           prv = "U" => \A p : \A t : Allowed(p, t) => Allowed(p, t)'
    PROVE  MmuOK(mmu)'
<1>1. \A v, f : Maps(v, f) => Maps(v, f)'
  <2>1. \A x : Kva(x)' = Kva(x)
    BY DEF Kva, Span
  <2> QED
    BY <2>1 DEF Maps
<1>2. \A tag, i, f, t : TagOK(tag, i, f, t) => TagOK(tag, i, f, t)'
  BY <1>1 DEF TagOK
<1>3. \A line : LineOK(line) => LineOK(line)'
  BY DEF LineOK
<1> QED
  BY <1>2, <1>3 DEF MmuOK, MmuType

\* The tables are the same.
LEMMA SameTables ==
    ASSUME UNCHANGED <<xlen, pt>>
    PROVE  /\ TablesOK => TablesOK'
           /\ FramesOK => FramesOK'
           /\ \A p : Pte(p)' = Pte(p) /\ (Mapped(p)' <=> Mapped(p))
           /\ \A p, t : Allowed(p, t)' <=> Allowed(p, t)
<1>1. \A p : Pte(p)' = Pte(p)
  BY DEF Pte, UserTable
<1>2. \A p : Mapped(p)' <=> Mapped(p)
  BY <1>1 DEF Mapped
<1>3. \A p, t : Allowed(p, t)' <=> Allowed(p, t)
  BY <1>1, <1>2 DEF Allowed
<1>4. TablesOK => TablesOK'
  BY <1>1 DEF TablesOK, UserTable
<1>5. FramesOK => FramesOK'
  BY <1>1, <1>2 DEF FramesOK
<1> QED
  BY <1>1, <1>2, <1>3, <1>4, <1>5

\* So are the pages, the mapping and the free list, and the handler is no less
\* far in copying or evicting.
LEMMA SameData ==
    ASSUME TablesOK, FramesOK, FreeOK, PagesOK,
           UNCHANGED <<xlen, pt, mem, expected, node, user_mapping, freelist_head>>,
           Evicting => Evicting', \A p : CopyingIn(p) => CopyingIn(p)',
           \A p \in Pages : pending # None /\ pending.vpn = p => pending' # None /\ pending'.vpn = p
    PROVE  TablesOK' /\ FramesOK' /\ FreeOK' /\ PagesOK'
<1>1. TablesOK' /\ FramesOK' /\ \A p : Pte(p)' = Pte(p) /\ (Mapped(p)' <=> Mapped(p))
  BY SameTables
<1>2. MappedPages' = MappedPages
  BY <1>1 DEF MappedPages
<1>3. FreeOK'
  BY <1>1, <1>2 DEF FreeOK
<1>4. PagesOK'
  BY <1>1 DEF PagesOK
<1> QED
  BY <1>1, <1>3, <1>4

----------------------------------------------------------------------------
(* The test's steps. *)

\* A place in the handler has its statement first.
LEMMA Places == \A s, i : /\ <<s, i>>[1] = s /\ <<s, i>>[2] = i
                          /\ At(s)[1] = s /\ At(s)[2] = 0
BY DEF At

\* A statement is in one part of the handler.
LEMMA Statements ==
    /\ "user" \notin FaultPlaces \cup EvictPlaces \cup WithSum \cup {"handle_trap", "terminate"}
    /\ "handle_trap" \notin FaultPlaces \cup EvictPlaces \cup WithSum \cup {"terminate"}
    /\ FaultPlaces \cap (EvictPlaces \cup {"terminate"}) = {}
    /\ Copying \subseteq FaultPlaces /\ Mapping \subseteq FaultPlaces
BY DEF FaultPlaces, EvictPlaces, WithSum, Mapping, Copying

\* In a state that has not aborted the MMU can walk the tables.
LEMMA Walks == HartOK => Walkable
BY DEF HartOK, ControlOK, Walkable, Modes

\* The trap empties the TLB on the way to the handler.
LEMMA TrapStep ==
    ASSUME HartOK, kpc = At("user"), NEW cause, NEW vpn, NEW m, MmuOK(m), m.matched = FALSE,
           mmu' = flush_tlb(m), prv' = "S", kpc' = At("handle_trap"),
           tf' = [cause |-> cause, vpn |-> vpn],
           UNCHANGED <<xlen, mstatus, debugCause, pt, mem, tracer, pending,
                       user_mapping, node, freelist_head, expected>>,
           cause = "USER_ECALL" => pending = None,
           cause # "USER_ECALL" => /\ pending # None /\ cause = FaultCause /\ vpn = pending.vpn
                                   /\ ~Allowed(vpn, cause)
    PROVE  HartOK'
<1>1. kpc[1] = "user" /\ kpc'[1] = "handle_trap" /\ tf'.cause = cause /\ tf'.vpn = vpn
  BY Places
<1>2. ~Evicting /\ ~Evicting' /\ \A p : ~CopyingIn(p)
  BY <1>1, Statements DEF Evicting, CopyingIn
<1>3. TablesOK' /\ FramesOK' /\ FreeOK' /\ PagesOK'
  BY <1>2, SameData DEF HartOK
<1>4. MmuOK(mmu)' /\ mmu.matched' = FALSE
  BY FlushStep
<1>5. (TestEnds' <=> cause = "USER_ECALL") /\ (InFault' <=> cause # "USER_ECALL")
      /\ kpc[1] \notin WithSum /\ kpc'[1] \notin WithSum
  BY <1>1, <1>2, Statements DEF TestEnds, InFault
<1>6. ControlOK'
  <2>1. FaultCause' = FaultCause
    BY DEF FaultCause
  <2> QED
    BY <1>1, <1>5, <2>1 DEF HartOK, ControlOK
<1>7. FaultOK'
  <2>1. kpc'[1] \notin Mapping
    BY <1>1, Statements
  <2>2. Allowed(vpn, cause)' <=> Allowed(vpn, cause)
    BY SameTables
  <2> QED
    BY <1>1, <1>5, <2>1, <2>2 DEF FaultOK
<1>8. EvictOK'
  BY <1>1 DEF EvictOK
<1> QED
  BY <1>3, <1>4, <1>6, <1>7, <1>8 DEF HartOK

\* A step that stays in user mode and leaves the data alone.
LEMMA UserStep ==
    ASSUME HartOK, kpc = At("user"), MmuOK(mmu)', mmu.matched' = FALSE,
           UNCHANGED <<hartVars, kpc, tf, pt, mem, tracer, user_mapping, node, freelist_head, expected>>,
           pending' # None => /\ pending'.vpn \in Pages
                              /\ pending'.type \in {"LOAD", "STORE", "FETCH", "AMO"},
           pending # None => pending' = pending
    PROVE  HartOK'
<1>1. kpc[1] = "user" /\ kpc'[1] = "user"
  BY Places
<1>2. ~Evicting /\ ~Evicting' /\ \A p : ~CopyingIn(p)
  BY <1>1, Statements DEF Evicting, CopyingIn
<1>3. TablesOK' /\ FramesOK' /\ FreeOK' /\ PagesOK'
  BY <1>2, SameData DEF HartOK, hartVars
<1>4. ~TestEnds' /\ ~InFault'
  BY <1>1, <1>2, Statements DEF TestEnds, InFault
<1>5. ControlOK'
  BY <1>1, <1>4 DEF HartOK, ControlOK, hartVars
<1>6. FaultOK' /\ EvictOK'
  BY <1>1, <1>4, Statements DEF FaultOK, EvictOK
<1> QED
  BY <1>3, <1>5, <1>6 DEF HartOK

\* The test issues an instruction.
LEMMA IssueStep ==
    ASSUME HartOK, Clean, Issue
    PROVE  HartOK' /\ Clean'
<1>1. /\ kpc = At("user") /\ pending = None
      /\ pending'.vpn \in Pages /\ pending'.type \in {"LOAD", "STORE", "FETCH", "AMO"}
      /\ UNCHANGED <<hartVars, pt, mem, mmu, mcontrol, tracer, kernelVars, ghostVars>>
  BY DEF Issue
<1>2. MmuOK(mmu)'
  <2>1. /\ \A p : Pte(p)' = Pte(p) /\ (Mapped(p)' <=> Mapped(p))
        /\ \A p, t : Allowed(p, t)' <=> Allowed(p, t)
    BY <1>1, SameTables DEF hartVars
  <2> QED
    BY <1>1, <2>1, MmuStep DEF HartOK, hartVars
<1>3. HartOK'
  BY <1>1, <1>2, UserStep DEF HartOK, kernelVars, ghostVars
<1>4. Clean'
  BY <1>1 DEF Clean, ghostVars
<1> QED
  BY <1>3, <1>4

\* The debugger sets a trigger: the TLB, whose tags say which pages to check, is
\* flushed.
LEMMA SetTriggerStep ==
    ASSUME HartOK, Clean, SetTrigger
    PROVE  HartOK' /\ Clean'
<1>1. /\ kpc = At("user") /\ pending = None /\ mmu' = flush_tlb(mmu)
      /\ UNCHANGED <<hartVars, pt, mem, tracer, pending, kernelVars, ghostVars>>
  BY DEF SetTrigger
<1>2. MmuOK(mmu)' /\ mmu.matched' = FALSE
  BY <1>1, FlushStep DEF HartOK
<1>3. HartOK'
  BY <1>1, <1>2, UserStep DEF kernelVars, ghostVars
<1>4. Clean'
  BY <1>1 DEF Clean, ghostVars
<1> QED
  BY <1>3, <1>4

\* The test ends.
LEMMA EcallStep ==
    ASSUME HartOK, Clean, Ecall
    PROVE  HartOK' /\ Clean'
<1>1. /\ kpc = At("user") /\ pending = None
      /\ mmu' = flush_tlb(mmu) /\ prv' = "S" /\ kpc' = At("handle_trap")
      /\ tf' = [cause |-> "USER_ECALL", vpn |-> 0]
      /\ UNCHANGED <<xlen, mstatus, debugCause, pt, mem, mcontrol, tracer, pending,
                     user_mapping, node, freelist_head, freelist_tail, ghostVars>>
  BY DEF Ecall, TakeTrap, set_privilege
<1>2. HartOK'
  BY <1>1, TrapStep DEF HartOK, ghostVars
<1>3. Clean'
  BY <1>1 DEF Clean, ghostVars
<1> QED
  BY <1>2, <1>3

\* An access of the test takes effect on its page only.
LEMMA CompleteStep ==
    ASSUME HartOK, Clean, kpc = At("user"), pending # None, NEW out, NEW m, Complete(out, m),
           Allowed(pending.vpn, FaultCause),
           Writes \/ Reads => out.frame = Pte(pending.vpn).ppn,
           Touches \cap tracer \subseteq out.traced,
           MmuOK(mmu)', mmu.matched' = FALSE
    PROVE  HartOK' /\ ~failed' /\ ~wrong' /\ ~untraced'
<1> DEFINE v == pending.vpn
           f == Pte(v).ppn
<1>1. kpc[1] = "user" /\ kpc'[1] = "user" /\ kpc' = kpc
  BY Places DEF Complete, kernelVars
<1>2. ~Evicting /\ ~Evicting' /\ \A p : ~CopyingIn(p)
  BY <1>1, Statements DEF Evicting, CopyingIn
<1>3. /\ v \in Pages /\ Mapped(v) /\ Pte(v).a /\ (Writes => Pte(v).d)
      /\ pending.type \in {"LOAD", "STORE", "FETCH", "AMO"}
  BY DEF HartOK, ControlOK, Allowed, FaultCause, Writes
<1>4. /\ mem' = IF Writes THEN [mem EXCEPT ![f] = pending.val] ELSE mem
      /\ expected' = IF Writes THEN [expected EXCEPT ![v] = pending.val] ELSE expected
      /\ wrong' = (wrong \/ (Reads /\ mem[out.frame] # expected[v]))
      /\ untraced' = (untraced \/ ~(Touches \cap tracer \subseteq out.traced))
      /\ pending' = None
      /\ UNCHANGED <<hartVars, pt, tracer, kernelVars, failed>>
  BY DEF Complete
<1>5. /\ TablesOK' /\ FramesOK'
      /\ \A p : Pte(p)' = Pte(p) /\ (Mapped(p)' <=> Mapped(p))
      /\ \A p, t : Allowed(p, t)' <=> Allowed(p, t)
  BY <1>4, SameTables DEF HartOK, hartVars
<1>6. FreeOK'
  <2>1. MappedPages' = MappedPages
    BY <1>5 DEF MappedPages
  <2> QED
    BY <1>2, <1>4, <1>5, <2>1 DEF FreeOK, HartOK, kernelVars
<1>7. /\ mem = [g \in DRAM..FreeFrame(MAX_TEST_PAGES) |-> mem[g]]
      /\ \A x \in Homes : mem[DRAM + x] = 0
      /\ expected = [p \in Pages |-> expected[p]]
      /\ \A p \in Pages :
           /\ ~Mapped(p) => expected[p] = 0
           /\ Mapped(p) => mem[Pte(p).ppn] = expected[p]
           /\ Mapped(p) /\ ~Pte(p).d => mem[Pte(p).ppn] = 0
           /\ Mapped(p) /\ ~Pte(p).a => p = v
  BY <1>2 DEF HartOK, PagesOK
<1>8. f \in UserFrames /\ \A x \in Homes : f # DRAM + x
  <2>1. f \in UserFrames
    BY <1>3 DEF HartOK, FramesOK, UserPte
  <2> QED
    BY <2>1, VmAssumption DEF UserFrames, FreeFrame, Homes
<1>9. \A p \in Pages : Mapped(p) /\ Pte(p).ppn = f => p = v
  BY <1>3 DEF HartOK, FramesOK
<1>10. PagesOK'
  <2>1. CASE ~Writes
    BY <1>2, <1>3, <1>4, <1>5, <1>7, <2>1 DEF PagesOK
  <2>2. CASE Writes
    <3>1. mem' = [mem EXCEPT ![f] = pending.val] /\ expected' = [expected EXCEPT ![v] = pending.val]
      BY <1>4, <2>2
    <3>2. f \in DRAM..FreeFrame(MAX_TEST_PAGES)
      BY <1>8, VmAssumption DEF UserFrames, FreeFrame
    <3>3. mem' = [g \in DRAM..FreeFrame(MAX_TEST_PAGES) |-> mem'[g]]
          /\ expected' = [p \in Pages |-> expected'[p]]
      BY <1>7, <3>1
    <3>4. mem'[f] = pending.val /\ \A g : g # f => mem'[g] = mem[g]
      BY <1>7, <3>1, <3>2
    <3>5. expected'[v] = pending.val /\ \A p : p # v => expected'[p] = expected[p]
      BY <1>3, <1>7, <3>1
    <3>6. \A x \in Homes : mem'[DRAM + x] = 0
      BY <1>7, <1>8, <3>4
    <3>7. ASSUME NEW p \in Pages
          PROVE  /\ ~Mapped(p) => expected'[p] = 0
                 /\ Mapped(p) => mem'[Pte(p).ppn] = expected'[p]
                 /\ Mapped(p) /\ ~Pte(p).d => mem'[Pte(p).ppn] = 0
                 /\ ~(Mapped(p) /\ ~Pte(p).a)
      BY <1>3, <1>7, <1>9, <2>2, <3>4, <3>5
    <3> HIDE DEF f, v
    <3> QED
      BY <1>5, <3>3, <3>6, <3>7 DEF PagesOK, FreeFrame
  <2> QED
    BY <2>1, <2>2
<1>11. ~TestEnds' /\ ~InFault'
  BY <1>1, <1>2, Statements DEF TestEnds, InFault
<1>12. ControlOK'
  BY <1>1, <1>4, <1>11 DEF HartOK, ControlOK, hartVars
<1>13. FaultOK' /\ EvictOK'
  BY <1>1, <1>11, Statements DEF FaultOK, EvictOK
<1>14. ~failed' /\ ~wrong' /\ ~untraced'
  BY <1>3, <1>4, <1>7 DEF Clean
<1> QED
  BY <1>5, <1>6, <1>10, <1>12, <1>13, <1>14 DEF HartOK

\* The MMU after an instruction of the test still agrees with the tables.
LEMMA UserMmu ==
    ASSUME NEW m, MmuOK(m), mmu' = m, UNCHANGED <<hartVars, pt, tracer, mcontrol>>
    PROVE  MmuOK(mmu)'
<1>1. /\ \A p : Pte(p)' = Pte(p) /\ (Mapped(p)' <=> Mapped(p))
      /\ \A p, t : Allowed(p, t)' <=> Allowed(p, t)
  BY SameTables DEF hartVars
<1> QED
  BY <1>1, MmuStep DEF hartVars

\* The test executes its instruction: it faults, completes, or fires a trigger.
LEMMA ExecuteStep ==
    ASSUME HartOK, Clean, Execute
    PROVE  Clean' /\ (kpc' = At("aborted") \/ HartOK')
<1> DEFINE out == Attempt(mmu)
<1>1. /\ kpc = At("user") /\ pending # None
      /\ UserFault(out) \/ UserAccess(out) \/ TriggerFires(out)
  BY DEF Execute
<1>2. /\ Walkable /\ prv = "U" /\ pending.vpn \in Pages
      /\ pending.type \in {"LOAD", "STORE", "FETCH", "AMO"} /\ MmuOK(mmu) /\ mmu.matched = FALSE
  BY <1>1, Walks, Places DEF HartOK, ControlOK
<1>3. /\ MmuOK(out.mmu) /\ out.mmu.matched = FALSE
      /\ out.frame \in Int
      /\ out.frame < 0 => ~Allowed(pending.vpn, FaultCause)
      /\ out.frame >= 0 /\ ~out.fired =>
           /\ Allowed(pending.vpn, FaultCause)
           /\ Writes \/ Reads => out.frame = Pte(pending.vpn).ppn
           /\ Touches \cap tracer \subseteq out.traced
           /\ MatchedTypes(out) \subseteq {"FETCH"}
  BY <1>2, AttemptSound
<1> HIDE DEF out
<1>4. CASE UserFault(out)
  <2>1. /\ out.frame < 0 /\ mmu' = flush_tlb(mmu) /\ prv' = "S" /\ kpc' = At("handle_trap")
        /\ tf' = [cause |-> FaultCause, vpn |-> pending.vpn]
        /\ UNCHANGED <<xlen, mstatus, debugCause, pt, mem, mcontrol, tracer, pending,
                       user_mapping, node, freelist_head, freelist_tail, ghostVars>>
    BY <1>4 DEF UserFault, TakeTrap, set_privilege
  <2>2. FaultCause # "USER_ECALL"
    BY <1>2 DEF FaultCause
  <2>3. HartOK'
    BY <1>1, <1>2, <1>3, <2>1, <2>2, TrapStep DEF ghostVars
  <2>4. Clean'
    BY <2>1 DEF Clean, ghostVars
  <2> QED
    BY <2>3, <2>4
<1>5. CASE UserAccess(out)
  <2>1. /\ out.frame >= 0 /\ ~out.fired /\ Complete(out, out.mmu)
        /\ missed' = missed \cup MatchedTypes(out) /\ mcontrol' = mcontrol
    BY <1>5 DEF UserAccess
  <2>2. mmu' = out.mmu /\ UNCHANGED <<hartVars, pt, tracer>>
    BY <2>1 DEF Complete
  <2>3. MmuOK(mmu)' /\ mmu.matched' = FALSE
    BY <1>3, <2>1, <2>2, UserMmu
  <2>4. HartOK' /\ ~failed' /\ ~wrong' /\ ~untraced'
    BY <1>1, <1>3, <2>1, <2>3, CompleteStep
  <2>5. missed' \subseteq {"FETCH"}
    BY <1>3, <2>1 DEF Clean
  <2> QED
    BY <2>4, <2>5 DEF Clean
<1>6. CASE TriggerFires(out)
  <2> DEFINE before == [out.mmu EXCEPT !.matched = TRUE]
             again == Attempt(before)
             after == [again.mmu EXCEPT !.matched = FALSE]
  <2>1. missed' = missed
    BY <1>6 DEF TriggerFires
  <2>2. CASE mcontrol.after /\ pending.type # "FETCH"
    <3>1. Restart(again)
      BY <1>6, <2>2 DEF TriggerFires
    <3>2. ASSUME NEW m, MmuOK(m), NEW b \in BOOLEAN
          PROVE  MmuOK([m EXCEPT !.matched = b]) /\ [m EXCEPT !.matched = b].matched = b
      <4> DEFINE n == [m EXCEPT !.matched = b]
      <4>1. n = [load |-> m.load, store |-> m.store, insn |-> m.insn, data |-> m.data,
                 icache |-> m.icache, matched |-> b]
        BY <3>2 DEF MmuOK, MmuType
      <4> HIDE DEF n
      <4>2. MmuOK(n) /\ n.matched = b
        BY <3>2, <4>1 DEF MmuOK, MmuType
      <4> QED
        BY <4>2 DEF n
    <3>3. MmuOK(before) /\ before.matched = TRUE
      BY <1>3, <3>2
    <3> HIDE DEF before
    <3>4. /\ MmuOK(again.mmu)
          /\ again.frame \in Int
          /\ again.frame >= 0 /\ ~again.fired =>
               /\ Allowed(pending.vpn, FaultCause)
               /\ Writes \/ Reads => again.frame = Pte(pending.vpn).ppn
               /\ Touches \cap tracer \subseteq again.traced
          /\ ~again.fired
      BY <1>2, <2>2, <3>3, AttemptSound
    <3>5. MmuOK(after) /\ after.matched = FALSE
      BY <3>2, <3>4
    <3> HIDE DEF again, after
    <3>6. CASE again.frame >= 0
      <4>1. Complete(again, flush_tlb(after))
        BY <3>1, <3>6 DEF Restart, after
      <4>2. MmuOK(mmu)' /\ mmu.matched' = FALSE
        BY <3>5, <4>1, FlushStep DEF Complete
      <4>3. HartOK' /\ ~failed' /\ ~wrong' /\ ~untraced'
        BY <1>1, <3>4, <3>6, <4>1, <4>2, CompleteStep
      <4> QED
        BY <2>1, <4>3 DEF Clean
    <3>7. CASE ~(again.frame >= 0)
      BY <2>1, <3>1, <3>7 DEF Restart, Clean
    <3> QED
      BY <3>6, <3>7
  <2>3. CASE ~(mcontrol.after /\ pending.type # "FETCH")
    <3>1. /\ mmu' = flush_tlb(out.mmu)
          /\ UNCHANGED <<hartVars, pt, mem, tracer, pending, kernelVars, expected,
                         failed, wrong, untraced>>
      BY <1>6, <2>3, Zenon DEF TriggerFires
    <3>2. MmuOK(mmu)' /\ mmu.matched' = FALSE
      BY <1>3, <3>1, FlushStep
    <3>3. HartOK'
      BY <1>1, <1>2, <3>1, <3>2, UserStep DEF kernelVars
    <3> QED
      BY <2>1, <3>1, <3>3 DEF Clean
  <2> QED
    BY <2>2, <2>3
<1> QED
  BY <1>1, <1>4, <1>5, <1>6

----------------------------------------------------------------------------
(* The handler's steps. *)

\* What every statement of the handler keeps of the registers.
SumStays == mstatus' = mstatus /\ (kpc[1] \in WithSum <=> kpc'[1] \in WithSum)
SumTurns == \E on \in BOOLEAN : /\ mstatus' = [mstatus EXCEPT !.sum = on]
                                /\ on <=> kpc'[1] \in WithSum

\* A statement of the handler keeps them so.
LEMMA ControlStep ==
    ASSUME HartOK, kpc[1] # "user", kpc'[1] # "user", SumStays \/ SumTurns,
           UNCHANGED <<xlen, prv, debugCause, tracer, pending, tf>>,
           TestEnds' => TestEnds, InFault' => InFault
    PROVE  ControlOK'
<1>1. FaultCause' = FaultCause
  BY DEF FaultCause
<1>2. /\ mstatus' = [mprv |-> FALSE, mpp |-> "U", sum |-> mstatus'.sum, mxr |-> FALSE]
      /\ mstatus'.sum \in BOOLEAN /\ (mstatus'.sum <=> kpc'[1] \in WithSum)
  <2>1. /\ mstatus = [mprv |-> FALSE, mpp |-> "U", sum |-> mstatus.sum, mxr |-> FALSE]
        /\ mstatus.sum \in BOOLEAN /\ (mstatus.sum <=> kpc[1] \in WithSum)
    BY DEF HartOK, ControlOK
  <2>2. CASE SumStays
    BY <2>1, <2>2 DEF SumStays
  <2>3. CASE SumTurns
    <3>1. PICK on \in BOOLEAN : mstatus' = [mstatus EXCEPT !.sum = on] /\ (on <=> kpc'[1] \in WithSum)
      BY <2>3 DEF SumTurns
    <3>2. PICK c : mstatus = [mprv |-> FALSE, mpp |-> "U", sum |-> c, mxr |-> FALSE]
      BY <2>1, Zenon
    <3>3. mstatus' = [mprv |-> FALSE, mpp |-> "U", sum |-> on, mxr |-> FALSE] /\ mstatus'.sum = on
      BY <3>1, <3>2
    <3> QED
      BY <3>1, <3>3
  <2> QED
    BY <2>2, <2>3, Zenon
<1> QED
  BY <1>1, <1>2 DEF HartOK, ControlOK

\* A store of the handler in its own pages.
LEMMA TouchSound ==
    ASSUME HartOK, prv = "S"
    PROVE  MmuOK(Touch(mmu)) /\ Touch(mmu).matched = FALSE
<1>1. Walkable /\ MmuOK(mmu) /\ mmu.matched = FALSE
  BY Walks DEF HartOK
<1>2. Reached(Kva(0))
  BY PageNumbers DEF Reached
<1>3. Sound(Store(mmu, Kva(0), 0), mmu, Kva(0), "STORE", 0)
  BY <1>1, <1>2, StoreSound
<1> QED
  BY <1>1, <1>3 DEF Touch, Sound

\* A write of a page's entry leaves the rest of the tables.
LEMMA SetPteTables ==
    ASSUME TablesOK, xlen \in {32, 64}, xlen' = xlen, NEW p \in Pages, NEW pte, SetPte(p, pte)
    PROVE  TablesOK' /\ Pte(p)' = pte /\ \A q \in Pages : q # p => Pte(q)' = Pte(q)
<1>1. \A q \in Pages : q \in 0..Last
  BY PageNumbers DEF Last
<1> DEFINE U == IF xlen = 32 THEN 1 ELSE 3
<1>2. pt' = [pt EXCEPT ![U][p] = pte]
  BY DEF SetPte, UserTable
<1>3. pt = [t \in (IF xlen = 32 THEN 0..1 ELSE 0..3) |-> pt[t]] /\ pt[U] = [i \in 0..Last |-> pt[U][i]]
  BY DEF TablesOK, Pte, UserTable
<1>4. pt'[U] = [pt[U] EXCEPT ![p] = pte] /\ \A t : t # U => pt'[t] = pt[t]
  BY <1>2, <1>3
<1>5. pt'[U][p] = pte /\ \A q : q # p => pt'[U][q] = pt[U][q]
  <2> DEFINE old == pt[U]
             new == pt'[U]
  <2>1. p \in 0..Last /\ old = [i \in 0..Last |-> old[i]] /\ new = [old EXCEPT ![p] = pte]
    BY <1>1, <1>3, <1>4
  <2> HIDE DEF old, new
  <2>2. new[p] = pte /\ \A q : q # p => new[q] = old[q]
    BY <2>1
  <2> QED
    BY <2>2 DEF old, new
<1>6. pt'[U] = [i \in 0..Last |-> pt'[U][i]]
  BY <1>3, <1>4
<1>7. pt' = [t \in (IF xlen = 32 THEN 0..1 ELSE 0..3) |-> pt'[t]]
  BY <1>2, <1>3
<1>8. pt[0][0] = Table(1) /\ pt[0][Last] = (IF xlen = 32 THEN Kernel ELSE Table(2))
      /\ (xlen = 64 => pt[1][0] = Table(3) /\ pt[2][Last] = Kernel)
  BY DEF TablesOK
<1>9. UserTable = U /\ UserTable' = U /\ \A q : Pte(q) = pt[U][q] /\ Pte(q)' = pt'[U][q]
  BY DEF UserTable, Pte
<1>10. U # 0 /\ (xlen = 64 => U # 1 /\ U # 2)
  OBVIOUS
<1> HIDE DEF U
<1>11. pt'[0] = pt[0] /\ (xlen = 64 => pt'[1] = pt[1] /\ pt'[2] = pt[2])
  BY <1>4, <1>10
<1>12. TablesOK'
  BY <1>6, <1>7, <1>8, <1>9, <1>11 DEF TablesOK
<1> QED
  BY <1>5, <1>9, <1>12

\* The A and D bits of a mapped page change.
LEMMA PteStep ==
    ASSUME HartOK, ~Evicting, ~Evicting', \A q : ~CopyingIn(q), NEW p \in Pages, Mapped(p),
           NEW a \in BOOLEAN, NEW d \in BOOLEAN, SetPte(p, UserPte(a, d, Pte(p).ppn)),
           UNCHANGED <<xlen, mem, expected, node, user_mapping, freelist_head, pending>>,
           d \/ mem[Pte(p).ppn] = 0, a \/ (pending # None /\ pending.vpn = p)
    PROVE  /\ TablesOK' /\ FramesOK' /\ FreeOK' /\ PagesOK'
           /\ \A q \in Pages : Mapped(q) => Mapped(q)' /\ Pte(q).ppn' = Pte(q).ppn
           /\ Pte(p)' = UserPte(a, d, Pte(p).ppn)
<1> DEFINE f == Pte(p).ppn
<1>1. /\ TablesOK' /\ Pte(p)' = UserPte(a, d, f)
      /\ \A q \in Pages : q # p => Pte(q)' = Pte(q)
  BY SetPteTables DEF HartOK, ControlOK
<1>2. f \in UserFrames
  BY DEF HartOK, FramesOK, UserPte
<1>3. UserPte(a, d, f) # NoPte /\ UserPte(a, d, f).ppn = f /\ UserPte(a, d, f).a = a /\ UserPte(a, d, f).d = d
  BY DEF UserPte, NoPte
<1> HIDE DEF f
<1>4. \A q \in Pages : (Mapped(q)' <=> Mapped(q)) /\ (Mapped(q) => Pte(q)'.ppn = Pte(q).ppn)
  BY <1>1, <1>3 DEF Mapped, f
<1>5. FramesOK'
  <2>1. ASSUME NEW q \in Pages, Mapped(q)
        PROVE  \E a1, d1 \in BOOLEAN : \E g \in UserFrames : Pte(q)' = UserPte(a1, d1, g)
    BY <1>1, <1>2, <2>1 DEF HartOK, FramesOK
  <2>2. UserFrames' = UserFrames
    BY DEF UserFrames, FreeFrame
  <2> QED
    BY <1>4, <2>1, <2>2 DEF HartOK, FramesOK, UserPte
<1>6. FreeOK'
  <2>1. MappedPages' = MappedPages
    BY <1>4 DEF MappedPages
  <2> QED
    BY <1>4, <2>1 DEF HartOK, FreeOK, FreeFrame
<1>7. PagesOK'
  <2>1. /\ mem = [g \in DRAM..FreeFrame(MAX_TEST_PAGES) |-> mem[g]]
        /\ \A x \in Homes : mem[DRAM + x] = 0
        /\ expected = [q \in Pages |-> expected[q]]
    BY DEF HartOK, PagesOK
  <2>2. ASSUME NEW q \in Pages
        PROVE  /\ ~Mapped(q) => expected[q] = 0
               /\ Mapped(q) => mem[Pte(q).ppn] = expected[q]
               /\ Mapped(q) /\ ~Pte(q)'.d => mem[Pte(q).ppn] = 0
               /\ Mapped(q) /\ ~Pte(q)'.a => pending # None /\ pending.vpn = q
    BY <1>1, <1>3 DEF HartOK, PagesOK, f
  <2>3. ASSUME NEW q \in Pages
        PROVE  /\ ~Mapped(q)' => expected'[q] = 0
               /\ Mapped(q)' => mem'[Pte(q)'.ppn] = expected'[q]
               /\ Mapped(q)' /\ ~Pte(q)'.d => mem'[Pte(q)'.ppn] = 0
               /\ Mapped(q)' /\ ~Pte(q)'.a => pending' # None /\ pending'.vpn = q
    BY <1>4, <2>2
  <2> QED
    BY <2>1, <2>3 DEF PagesOK, FreeFrame
<1> QED
  BY <1>1, <1>4, <1>5, <1>6, <1>7 DEF f

\* A statement of the handler that leaves pages, tables and lists alone.
LEMMA HandlerStep ==
    ASSUME HartOK, kpc[1] # "user", kpc'[1] # "user", SumStays \/ SumTurns,
           UNCHANGED <<xlen, prv, debugCause, tracer, pending, tf, pt, mem, expected,
                       node, user_mapping, freelist_head>>,
           TestEnds' => TestEnds, InFault' => InFault,
           Evicting => Evicting', \A p : CopyingIn(p) => CopyingIn(p)',
           MmuOK(mmu)', mmu.matched' = FALSE, FaultOK', EvictOK'
    PROVE  HartOK'
<1>1. ControlOK'
  BY ControlStep
<1>2. TablesOK' /\ FramesOK' /\ FreeOK' /\ PagesOK'
  BY SameData DEF HartOK
<1> QED
  BY <1>1, <1>2 DEF HartOK

\* With the same tables the MMU is right if it was.
LEMMA SameMmu ==
    ASSUME NEW m, MmuOK(m), mmu' = m, UNCHANGED <<xlen, prv, pt, tracer, mcontrol>>
    PROVE  MmuOK(mmu)'
<1>1. /\ \A p : Pte(p)' = Pte(p) /\ (Mapped(p)' <=> Mapped(p))
      /\ \A p, t : Allowed(p, t)' <=> Allowed(p, t)
  BY SameTables
<1> QED
  BY <1>1, MmuStep

\* The handler looks at the cause.
LEMMA TrapHandled ==
    ASSUME HartOK, Clean, handle_trap
    PROVE  HartOK' /\ Clean'
<1>1. /\ kpc = At("handle_trap")
      /\ kpc' = IF tf.cause = "USER_ECALL" THEN <<"evict", 1>> ELSE At("handle_fault")
      /\ UNCHANGED <<xlen, prv, debugCause, mcontrol, tracer, pending, tf, expected, wrong,
                     missed, untraced, mstatus, pt, mem, mmu, failed,
                     user_mapping, node, freelist_head, freelist_tail>>
  BY DEF handle_trap, KernelOnly, ListSame
<1>2. /\ kpc[1] = "handle_trap"
      /\ kpc'[1] = IF tf.cause = "USER_ECALL" THEN "evict" ELSE "handle_fault"
  BY <1>1, Places
<1>3. MmuOK(mmu)' /\ mmu.matched' = FALSE
  BY <1>1, SameMmu DEF HartOK
<1>4. /\ (TestEnds' => TestEnds) /\ (InFault' => InFault)
      /\ ~Evicting /\ \A p : ~CopyingIn(p)
  BY <1>1, <1>2 DEF TestEnds, InFault, Evicting, CopyingIn, FaultPlaces, EvictPlaces,
                    Mapping, Copying
<1>5. SumStays
  BY <1>1, <1>2 DEF SumStays, WithSum
<1>6. FaultOK'
  <2>1. CASE tf.cause = "USER_ECALL"
    BY <1>1, <1>2, <2>1 DEF FaultOK, InFault, FaultPlaces, Mapping, Copying
  <2>2. CASE tf.cause # "USER_ECALL"
    <3>1. ~Allowed(tf.vpn, tf.cause)
      BY <1>2, <2>2 DEF HartOK, FaultOK, InFault
    <3>2. Allowed(tf.vpn, tf.cause)' <=> Allowed(tf.vpn, tf.cause)
      BY <1>1 DEF Allowed, Mapped, Pte, UserTable
    <3> QED
      BY <1>1, <1>2, <2>2, <3>1, <3>2 DEF FaultOK, Mapping, Copying
  <2> QED
    BY <2>1, <2>2
<1>7. EvictOK'
  BY <1>1, <1>2 DEF EvictOK
<1>8. HartOK'
  BY <1>1, <1>2, <1>3, <1>4, <1>5, <1>6, <1>7, HandlerStep
<1>9. Clean'
  BY <1>1 DEF Clean
<1> QED
  BY <1>8, <1>9

\* A change of the access to user pages empties the TLB.
LEMMA SumFlush ==
    ASSUME HartOK, NEW on \in BOOLEAN, mstatus.sum # on, SetSum(on, mmu)
    PROVE  MmuOK(mmu)' /\ mmu.matched' = FALSE /\ mstatus' = [mstatus EXCEPT !.sum = on]
<1>1. mmu' = flush_tlb(mmu) /\ mstatus' = [mstatus EXCEPT !.sum = on]
  BY DEF SetSum
<1>2. MmuOK(mmu) /\ mmu.matched = FALSE
  BY DEF HartOK
<1> QED
  BY <1>1, <1>2, FlushStep

\* The fault being handled is of the page it was.
LEMMA SameFault ==
    ASSUME HartOK, kpc[1] \in Mapping, UNCHANGED <<xlen, pt, tf, expected>>, kpc'[1] \in Mapping
    PROVE  FaultOK' /\ EvictOK'
<1>1. \A p : Pte(p)' = Pte(p) /\ (Mapped(p)' <=> Mapped(p))
  BY SameTables
<1>2. kpc'[1] \notin {"handle_trap", "handle_fault", "compare", "restore"}
  BY DEF Mapping, Copying
<1>3. Mapped(tf.vpn) /\ Pte(tf.vpn).a /\ Pte(tf.vpn).d /\ expected[tf.vpn] = 0
  BY DEF HartOK, FaultOK
<1> QED
  BY <1>1, <1>2, <1>3 DEF FaultOK, EvictOK

\* The handler opens the user's pages for the copy.
LEMMA SumOnStep ==
    ASSUME HartOK, Clean, SumOn(At("copy_in"), At("copy"))
    PROVE  HartOK' /\ Clean'
<1>1. /\ kpc = At("copy_in") /\ kpc' = At("copy") /\ ~mstatus.sum /\ SetSum(TRUE, mmu)
      /\ UNCHANGED <<xlen, prv, debugCause, mcontrol, tracer, pending, tf, expected, wrong,
                     missed, untraced, pt, mem, failed,
                     user_mapping, node, freelist_head, freelist_tail>>
  BY DEF SumOn, KernelOnly, ListSame
<1>2. kpc[1] = "copy_in" /\ kpc'[1] = "copy"
  BY <1>1, Places
<1>3. MmuOK(mmu)' /\ mmu.matched' = FALSE /\ mstatus' = [mstatus EXCEPT !.sum = TRUE]
  BY <1>1, SumFlush
<1>4. /\ (TestEnds' => TestEnds) /\ (InFault' => InFault)
      /\ (Evicting => Evicting') /\ \A p : CopyingIn(p) => CopyingIn(p)'
  BY <1>1, <1>2 DEF TestEnds, InFault, Evicting, CopyingIn, FaultPlaces, EvictPlaces,
                    Mapping, Copying
<1>5. SumTurns
  BY <1>2, <1>3 DEF SumTurns, WithSum
<1>6. FaultOK' /\ EvictOK'
  BY <1>1, <1>2, SameFault DEF Mapping, Copying
<1>7. HartOK'
  BY <1>1, <1>2, <1>3, <1>4, <1>5, <1>6, HandlerStep
<1>8. Clean'
  BY <1>1 DEF Clean
<1> QED
  BY <1>7, <1>8

\* It closes them after the copy.
LEMMA SumOffStep ==
    ASSUME HartOK, Clean, SumOff(At("sum_off"), At("unmark"))
    PROVE  HartOK' /\ Clean'
<1>1. /\ kpc = At("sum_off") /\ kpc' = At("unmark") /\ mstatus.sum /\ SetSum(FALSE, mmu)
      /\ UNCHANGED <<xlen, prv, debugCause, mcontrol, tracer, pending, tf, expected, wrong,
                     missed, untraced, pt, mem, failed,
                     user_mapping, node, freelist_head, freelist_tail>>
  BY DEF SumOff, KernelOnly, ListSame
<1>2. kpc[1] = "sum_off" /\ kpc'[1] = "unmark"
  BY <1>1, Places
<1>3. MmuOK(mmu)' /\ mmu.matched' = FALSE /\ mstatus' = [mstatus EXCEPT !.sum = FALSE]
  BY <1>1, SumFlush
<1>4. /\ (TestEnds' => TestEnds) /\ (InFault' => InFault)
      /\ (Evicting => Evicting') /\ \A p : CopyingIn(p) => CopyingIn(p)'
  BY <1>1, <1>2 DEF TestEnds, InFault, Evicting, CopyingIn, FaultPlaces, EvictPlaces,
                    Mapping, Copying
<1>5. SumTurns
  BY <1>2, <1>3 DEF SumTurns, WithSum
<1>6. FaultOK' /\ EvictOK'
  BY <1>1, <1>2, SameFault DEF Mapping, Copying
<1>7. HartOK'
  BY <1>1, <1>2, <1>3, <1>4, <1>5, <1>6, HandlerStep
<1>8. Clean'
  BY <1>1 DEF Clean
<1> QED
  BY <1>7, <1>8

\* The fault the handler is looking at.
LEMMA FaultFacts ==
    ASSUME HartOK, kpc[1] \in FaultPlaces
    PROVE  /\ prv = "S" /\ InFault /\ ~Evicting /\ tf.vpn \in Pages
           /\ pending # None /\ tf.vpn = pending.vpn /\ tf.cause = FaultCause
           /\ tf.cause \in {"LOAD", "STORE", "FETCH"}
<1>1. InFault /\ ~Evicting /\ kpc[1] # "user"
  BY Statements DEF InFault, Evicting
<1> QED
  BY <1>1 DEF HartOK, ControlOK, FaultCause

\* After the page is marked nothing more is asked of it.
LEMMA ReturnPlace ==
    ASSUME kpc'[1] = "flush_and_return"
    PROVE  /\ FaultOK' /\ EvictOK' /\ ~TestEnds' /\ ~Evicting'
           /\ kpc'[1] # "user" /\ kpc'[1] \notin WithSum /\ \A q : ~CopyingIn(q)'
BY DEF FaultOK, EvictOK, TestEnds, Evicting, CopyingIn, Mapping, Copying, EvictPlaces, WithSum

\* The handler changes the bits of the faulting page, and returns.
LEMMA MarkedStep ==
    ASSUME HartOK, Clean, kpc[1] \in {"handle_fault", "unmark"}, kpc' = At("flush_and_return"),
           NEW a \in BOOLEAN, NEW d \in BOOLEAN, Mapped(tf.vpn),
           SetPte(tf.vpn, UserPte(a, d, Pte(tf.vpn).ppn)), d \/ mem[Pte(tf.vpn).ppn] = 0,
           mmu' = Touch(mmu), failed' = FALSE, KernelOnly, ListSame, UNCHANGED <<mstatus, mem>>
    PROVE  HartOK' /\ Clean'
<1>1. kpc[1] \in FaultPlaces /\ kpc[1] \notin WithSum \cup Copying
  BY DEF FaultPlaces, Mapping, WithSum, Copying
<1>2. /\ prv = "S" /\ InFault /\ ~Evicting /\ tf.vpn \in Pages
      /\ pending # None /\ tf.vpn = pending.vpn
  BY <1>1, FaultFacts
<1>3. kpc'[1] = "flush_and_return"
  BY Places
<1>4. \A q : ~CopyingIn(q)
  BY <1>1 DEF CopyingIn
<1>5. UNCHANGED <<xlen, prv, debugCause, mcontrol, tracer, pending, tf, expected, wrong, missed,
                  untraced, user_mapping, node, freelist_head>>
  BY DEF KernelOnly, ListSame
<1>6. /\ TablesOK' /\ FramesOK' /\ FreeOK' /\ PagesOK'
      /\ \A q \in Pages : Mapped(q) => Mapped(q)' /\ Pte(q).ppn' = Pte(q).ppn
  BY <1>2, <1>3, <1>4, <1>5, PteStep, ReturnPlace
<1>7. MmuOK(mmu)' /\ mmu.matched' = FALSE
  BY <1>2, <1>5, <1>6, TouchSound, MmuStep
<1>8. ControlOK'
  <2>1. SumStays
    BY <1>1, <1>3, ReturnPlace DEF SumStays
  <2>2. kpc[1] # "user"
    OBVIOUS
  <2> QED
    BY <1>2, <1>3, <1>5, <2>1, <2>2, ControlStep, ReturnPlace
<1>9. Clean'
  BY <1>5 DEF Clean
<1> QED
  BY <1>3, <1>6, <1>7, <1>8, <1>9, ReturnPlace DEF HartOK

\* One bit of an entry is set.
SetA(pte) == [pte EXCEPT !.a = TRUE]
SetD(pte) == [pte EXCEPT !.d = TRUE]

\* A page that is mapped lacks the bit that is set: the assertion holds.
LEMMA MarkPageStep ==
    ASSUME HartOK, Clean, MarkPage
    PROVE  HartOK' /\ Clean'
<1>1. /\ kpc = At("handle_fault") /\ kpc' = At("flush_and_return") /\ Mapped(tf.vpn)
      /\ mmu' = Touch(mmu) /\ KernelOnly /\ ListSame /\ UNCHANGED <<mstatus, mem>>
      /\ IF ~Pte(tf.vpn).a
           THEN SetPte(tf.vpn, SetA(Pte(tf.vpn))) /\ UNCHANGED failed
           ELSE /\ Assert(~Pte(tf.vpn).d /\ tf.cause = "STORE")
                /\ SetPte(tf.vpn, SetD(Pte(tf.vpn)))
  BY DEF MarkPage, Mapped, SetA, SetD
<1>2. kpc[1] = "handle_fault" /\ kpc[1] \in FaultPlaces /\ ~failed
  BY <1>1, Places DEF FaultPlaces, Clean
<1>3. tf.vpn \in Pages /\ ~Allowed(tf.vpn, tf.cause) /\ ~Evicting /\ ~CopyingIn(tf.vpn)
  BY <1>2, FaultFacts DEF HartOK, FaultOK, CopyingIn, Copying
<1>4. PICK a \in BOOLEAN, d \in BOOLEAN, f \in UserFrames : Pte(tf.vpn) = UserPte(a, d, f)
  BY <1>1, <1>3 DEF HartOK, FramesOK
<1>5. Pte(tf.vpn).a = a /\ Pte(tf.vpn).d = d /\ Pte(tf.vpn).ppn = f
  BY <1>4 DEF UserPte
<1>6. CASE ~a
  <2>1. SetPte(tf.vpn, SetA(Pte(tf.vpn))) /\ failed' = FALSE
    BY <1>1, <1>2, <1>5, <1>6 DEF Clean
  <2>2. SetA(Pte(tf.vpn)) = UserPte(TRUE, d, f)
    <3>1. ASSUME NEW x, NEW b
          PROVE  [[v |-> x, r |-> x, w |-> x, x |-> x, u |-> x, a |-> a, d |-> d, ppn |-> f]
                     EXCEPT !.a = b]
                 = [v |-> x, r |-> x, w |-> x, x |-> x, u |-> x, a |-> b, d |-> d, ppn |-> f]
      OBVIOUS
    <3>2. SetA(UserPte(a, d, f)) = UserPte(TRUE, d, f)
      BY <3>1, Zenon DEF UserPte, SetA
    <3> QED
      BY <1>4, <3>2
  <2>3. d \/ mem[f] = 0
    BY <1>1, <1>3, <1>5 DEF HartOK, PagesOK
  <2> QED
    BY <1>1, <1>2, <1>5, <2>1, <2>2, <2>3, MarkedStep
<1>7. CASE a
  <2>1. ~d /\ tf.cause = "STORE"
    BY <1>1, <1>3, <1>5, <1>7 DEF Allowed
  <2>2. SetPte(tf.vpn, SetD(Pte(tf.vpn))) /\ failed' = FALSE
    BY <1>1, <1>2, <1>5, <1>7, <2>1 DEF Assert
  <2>3. SetD(Pte(tf.vpn)) = UserPte(a, TRUE, f)
    <3>1. ASSUME NEW x, NEW b
          PROVE  [[v |-> x, r |-> x, w |-> x, x |-> x, u |-> x, a |-> a, d |-> d, ppn |-> f]
                     EXCEPT !.d = b]
                 = [v |-> x, r |-> x, w |-> x, x |-> x, u |-> x, a |-> a, d |-> b, ppn |-> f]
      OBVIOUS
    <3>2. SetD(UserPte(a, d, f)) = UserPte(a, TRUE, f)
      BY <3>1, Zenon DEF UserPte, SetD
    <3> QED
      BY <1>4, <3>2
  <2> QED
    BY <1>1, <1>2, <1>5, <2>2, <2>3, MarkedStep
<1> QED
  BY <1>6, <1>7

\* A new page is given back without its bits: it holds the image still.
LEMMA UnmarkStep ==
    ASSUME HartOK, Clean, UnmarkPage
    PROVE  HartOK' /\ Clean'
<1>1. /\ kpc = At("unmark") /\ kpc' = At("flush_and_return")
      /\ SetPte(tf.vpn, UserPte(FALSE, FALSE, Pte(tf.vpn).ppn))
      /\ mmu' = Touch(mmu) /\ KernelOnly /\ ListSame /\ UNCHANGED <<mstatus, mem, failed>>
  BY DEF UnmarkPage
<1>2. kpc[1] = "unmark" /\ kpc[1] \in FaultPlaces /\ failed' = FALSE
  BY <1>1, Places DEF FaultPlaces, Mapping, Clean
<1>3. tf.vpn \in Pages /\ ~Evicting /\ ~CopyingIn(tf.vpn)
  BY <1>2, FaultFacts DEF CopyingIn, Copying
<1>4. Mapped(tf.vpn) /\ expected[tf.vpn] = 0
  BY <1>2 DEF HartOK, FaultOK, Mapping
<1>5. mem[Pte(tf.vpn).ppn] = 0
  BY <1>3, <1>4 DEF HartOK, PagesOK
<1> QED
  BY <1>1, <1>2, <1>4, <1>5, MarkedStep

\* Back to the test, with an empty TLB.
LEMMA ReturnStep ==
    ASSUME HartOK, Clean, FlushAndReturn
    PROVE  HartOK' /\ Clean'
<1>1. /\ kpc = At("flush_and_return") /\ kpc' = At("user") /\ prv' = "U" /\ mmu' = flush_tlb(mmu)
      /\ UNCHANGED <<xlen, mstatus, debugCause, pt, mem, mcontrol, tracer, pending, tf,
                     user_mapping, node, freelist_head, freelist_tail, ghostVars>>
  BY DEF FlushAndReturn, set_privilege
<1>2. kpc[1] = "flush_and_return" /\ kpc'[1] = "user" /\ kpc[1] \notin WithSum
  BY <1>1, Places DEF WithSum
<1>3. ~Evicting /\ (\A p : ~CopyingIn(p)) /\ ~TestEnds' /\ ~InFault'
  BY <1>2, Statements DEF Evicting, CopyingIn, EvictPlaces, Copying, TestEnds, InFault
<1>4. TablesOK' /\ FramesOK' /\ FreeOK' /\ PagesOK'
  BY <1>1, <1>3, SameData DEF HartOK, ghostVars
<1>5. MmuOK(mmu)' /\ mmu.matched' = FALSE
  BY <1>1, FlushStep DEF HartOK
<1>6. ControlOK'
  BY <1>1, <1>2, <1>3, Statements DEF HartOK, ControlOK
<1>7. FaultOK' /\ EvictOK'
  BY <1>2, <1>3, Statements DEF FaultOK, EvictOK
<1>8. Clean'
  BY <1>1 DEF Clean, ghostVars
<1> QED
  BY <1>4, <1>5, <1>6, <1>7, <1>8 DEF HartOK

----------------------------------------------------------------------------
(* The end of the test. *)

\* What the end of the test knows: the test has stopped, and every page that is
\* mapped was accessed.
LEMMA EvictFacts ==
    ASSUME HartOK, Evicting
    PROVE  /\ prv = "S" /\ kpc[1] # "user" /\ TestEnds /\ ~InFault /\ (\A q : ~CopyingIn(q))
           /\ pending = None /\ \A q \in Pages : Mapped(q) => Pte(q).a
<1>1. kpc[1] \in EvictPlaces \cup {"terminate"} /\ TestEnds
  BY DEF Evicting, TestEnds
<1>2. kpc[1] # "user" /\ ~InFault /\ (\A q : ~CopyingIn(q))
  BY <1>1, Statements DEF InFault, CopyingIn
<1> QED
  BY <1>1, <1>2 DEF HartOK, ControlOK, PagesOK

\* From one page to the next.
LEMMA NextPage ==
    ASSUME NEW p
    PROVE  AfterEvict(p)[1] \in {"evict", "terminate"}
BY Places DEF AfterEvict

\* At the end of the test nothing is asked of a fault.
LEMMA EvictPlace ==
    ASSUME kpc'[1] \in EvictPlaces \cup {"terminate"}
    PROVE  /\ FaultOK' /\ TestEnds' /\ ~InFault' /\ Evicting' /\ kpc'[1] # "user"
           /\ \A q : ~CopyingIn(q)'
<1>1. TestEnds' /\ Evicting' /\ kpc'[1] # "user"
  BY Statements DEF TestEnds, Evicting
<1>2. ~InFault' /\ kpc'[1] \notin Mapping /\ kpc'[1] \notin Copying
  BY Statements DEF InFault
<1> QED
  BY <1>1, <1>2 DEF FaultOK, CopyingIn

\* A page that was never mapped is passed over.
LEMMA EvictNothingStep ==
    ASSUME HartOK, Clean, NEW p \in Pages, EvictNothing(p)
    PROVE  HartOK' /\ Clean'
<1>1. /\ kpc = <<"evict", p>> /\ kpc' = AfterEvict(p)
      /\ UNCHANGED <<xlen, prv, debugCause, mcontrol, tracer, pending, tf, expected, wrong,
                     missed, untraced, mstatus, pt, mem, mmu, failed,
                     user_mapping, node, freelist_head, freelist_tail>>
  BY DEF EvictNothing, KernelOnly, ListSame
<1>2. kpc[1] = "evict" /\ kpc'[1] \in {"evict", "terminate"}
  BY <1>1, Places, NextPage
<1>3. Evicting /\ kpc'[1] \in EvictPlaces \cup {"terminate"}
  BY <1>2 DEF Evicting, EvictPlaces
<1>4. MmuOK(mmu)' /\ mmu.matched' = FALSE
  BY <1>1, SameMmu DEF HartOK
<1>5. SumStays
  BY <1>1, <1>2 DEF SumStays, WithSum
<1>6. EvictOK'
  BY <1>2 DEF EvictOK
<1>7. HartOK'
  BY <1>1, <1>3, <1>4, <1>5, <1>6, EvictFacts, EvictPlace, HandlerStep
<1>8. Clean'
  BY <1>1 DEF Clean
<1> QED
  BY <1>7, <1>8

\* A page that was mapped has been accessed: the assertion holds.
LEMMA EvictMappedStep ==
    ASSUME HartOK, Clean, NEW p \in Pages, EvictMapped(p)
    PROVE  HartOK' /\ Clean'
<1>1. /\ kpc = <<"evict", p>> /\ user_mapping[p] # 0 /\ kpc' = <<"compare", p>>
      /\ Assert(Pte(p).a) /\ SetSum(TRUE, mmu)
      /\ UNCHANGED <<xlen, prv, debugCause, mcontrol, tracer, pending, tf, expected, wrong,
                     missed, untraced, pt, mem, user_mapping, node, freelist_head, freelist_tail>>
  BY DEF EvictMapped, KernelOnly, ListSame
<1>2. kpc[1] = "evict" /\ kpc'[1] = "compare" /\ kpc'[2] = p
  BY <1>1, Places
<1>3. Evicting /\ kpc'[1] \in EvictPlaces \cup {"terminate"}
  BY <1>2 DEF Evicting, EvictPlaces
<1>4. mstatus.sum # TRUE
  BY <1>2 DEF HartOK, ControlOK, WithSum
<1>5. MmuOK(mmu)' /\ mmu.matched' = FALSE /\ mstatus' = [mstatus EXCEPT !.sum = TRUE]
  BY <1>1, <1>4, SumFlush
<1>6. SumTurns
  BY <1>2, <1>5 DEF SumTurns, WithSum
<1>7. Mapped(p) /\ Pte(p).a
  BY <1>1, <1>3, EvictFacts DEF HartOK, FreeOK
<1>8. EvictOK'
  BY <1>1, <1>2, <1>7, SameTables DEF EvictOK
<1>9. HartOK'
  BY <1>1, <1>3, <1>5, <1>6, <1>8, EvictFacts, EvictPlace, HandlerStep
<1>10. Clean'
  BY <1>1, <1>7 DEF Clean, Assert
<1> QED
  BY <1>9, <1>10

\* The handler reads the image of a page through its own address.
LEMMA HomeLoad ==
    ASSUME HartOK, prv = "S", NEW m, MmuOK(m), m.matched = FALSE, NEW x \in Homes
    PROVE  LET out == Load(m, Kva(x))
           IN  /\ MmuOK(out.mmu) /\ out.mmu.matched = FALSE
               /\ out.frame \in Nat /\ mem[out.frame] = 0
<1> DEFINE out == Load(m, Kva(x))
<1>1. Walkable /\ Reached(Kva(x))
  BY Walks DEF Reached
<1>2. Sound(out, m, Kva(x), "LOAD", mem[out.frame])
  BY <1>1, LoadSound
<1>3. xlen \in {32, 64} /\ Kva(x) \notin Pages
  <2>1. xlen \in {32, 64} /\ x \in 0..(Entries - 1)
    BY PageNumbers DEF HartOK, ControlOK
  <2>2. Kva(x) \in Nat /\ Kva(x) >= Entries
    BY <2>1, KernelApart
  <2> QED
    BY <2>1, <2>2, PageNumbers, Spans
<1> HIDE DEF out
<1>4. out.frame \in Nat /\ Maps(Kva(x), out.frame)
  BY <1>2, <1>3 DEF Sound
<1>5. Maps(Kva(x), DRAM + x)
  BY DEF Maps
<1>6. out.frame = DRAM + x
  BY <1>3, <1>4, <1>5, MapsOnce
<1>7. mem[DRAM + x] = 0
  BY DEF HartOK, PagesOK
<1> QED
  BY <1>2, <1>4, <1>6, <1>7 DEF Sound, out

\* With access to user pages the handler reaches a page that has its bits.
LEMMA UserReach ==
    ASSUME HartOK, prv = "S", mstatus.sum, NEW p \in Pages, NEW type \in {"LOAD", "STORE"},
           Allowed(p, type), NEW out, NEW m, m.matched = FALSE, NEW data, Sound(out, m, p, type, data)
    PROVE  /\ MmuOK(out.mmu) /\ out.mmu.matched = FALSE
           /\ out.frame \in Nat /\ out.frame = Pte(p).ppn
<1>1. xlen \in {32, 64}
  BY DEF HartOK, ControlOK
<1>2. MmuOK(out.mmu) /\ out.mmu.matched = FALSE /\ out.frame \in Nat /\ Maps(p, out.frame)
  BY DEF Sound, Grants
<1>3. Maps(p, Pte(p).ppn)
  BY DEF Maps, Allowed
<1> QED
  BY <1>1, <1>2, <1>3, MapsOnce

\* The handler compares a page with its image: one that differs is dirty.
LEMMA CompareStep ==
    ASSUME HartOK, Clean, NEW p \in Pages, Compare(p)
    PROVE  HartOK' /\ Clean'
<1> DEFINE user == Load(mmu, p)
           home == Load(user.mmu, Kva(p))
           same == user.frame >= 0 /\ mem[user.frame] = mem[home.frame]
<1>1. /\ kpc = <<"compare", p>> /\ mmu' = home.mmu
      /\ Assert(user.frame >= 0 /\ (same \/ Pte(p).d))
      /\ kpc' = IF same THEN <<"free", p>> ELSE <<"restore", p>>
      /\ UNCHANGED <<xlen, prv, debugCause, mcontrol, tracer, pending, tf, expected, wrong,
                     missed, untraced, mstatus, pt, mem, user_mapping, node, freelist_head, freelist_tail>>
  BY DEF Compare, KernelOnly, ListSame
<1>2. kpc[1] = "compare" /\ kpc[2] = p /\ kpc'[2] = p /\ kpc'[1] = IF same THEN "free" ELSE "restore"
  BY <1>1, Places
<1>3. Evicting /\ kpc'[1] \in EvictPlaces \cup {"terminate"}
  BY <1>2 DEF Evicting, EvictPlaces
<1>4. mstatus.sum /\ prv = "S" /\ Allowed(p, "LOAD") /\ MmuOK(mmu) /\ mmu.matched = FALSE
  BY <1>2, <1>3, EvictFacts DEF HartOK, ControlOK, WithSum, EvictOK, Allowed
<1>5. Sound(user, mmu, p, "LOAD", mem[user.frame])
  BY <1>4, Walks, LoadSound DEF Reached
<1>6. /\ MmuOK(user.mmu) /\ user.mmu.matched = FALSE
      /\ user.frame \in Nat /\ user.frame = Pte(p).ppn
  BY <1>4, <1>5, UserReach
<1>7. MmuOK(home.mmu) /\ home.mmu.matched = FALSE /\ home.frame \in Nat /\ mem[home.frame] = 0
  BY <1>4, <1>6, HomeLoad, PageNumbers
<1>8. same \/ Pte(p).d
  <2>1. Mapped(p) /\ ~CopyingIn(p)
    BY <1>3, <1>4, EvictFacts DEF Allowed
  <2>2. ~Pte(p).d => mem[Pte(p).ppn] = 0
    BY <2>1 DEF HartOK, PagesOK
  <2> QED
    BY <1>6, <1>7, <2>2
<1> HIDE DEF user, home
<1>9. MmuOK(mmu)' /\ mmu.matched' = FALSE
  BY <1>1, <1>7, SameMmu
<1>10. SumStays
  BY <1>1, <1>2 DEF SumStays, WithSum
<1>11. EvictOK'
  BY <1>1, <1>2, <1>4, <1>8, SameTables DEF EvictOK, Allowed
<1>12. HartOK'
  BY <1>1, <1>3, <1>9, <1>10, <1>11, EvictFacts, EvictPlace, HandlerStep
<1>13. Clean'
  <2>1. user.frame >= 0 /\ (same \/ Pte(p).d)
    BY <1>6, <1>8
  <2> HIDE DEF same
  <2> QED
    BY <1>1, <2>1 DEF Clean, Assert
<1> QED
  BY <1>12, <1>13

\* A page goes back to the free list.
LEMMA FreePageStep ==
    ASSUME HartOK, Clean, NEW p \in Pages, FreePage(p)
    PROVE  HartOK' /\ Clean'
<1>1. /\ kpc = <<"free", p>> /\ kpc' = AfterEvict(p) /\ SetSum(FALSE, mmu)
      /\ user_mapping' = [user_mapping EXCEPT ![p] = 0]
      /\ \/ node' = [node EXCEPT ![-p].addr = 0]
         \/ node' = [node EXCEPT ![-p].addr = 0, ![freelist_tail].next = -p]
      /\ UNCHANGED <<xlen, prv, debugCause, mcontrol, tracer, pending, tf, expected, wrong,
                     missed, untraced, pt, mem, failed>>
  BY DEF FreePage, KernelOnly
<1>2. kpc[1] = "free" /\ kpc'[1] \in {"evict", "terminate"}
  BY <1>1, Places, NextPage
<1>3. Evicting /\ kpc'[1] \in EvictPlaces \cup {"terminate"}
  BY <1>2 DEF Evicting, EvictPlaces
<1>4. mstatus.sum # FALSE
  BY <1>2 DEF HartOK, ControlOK, WithSum
<1>5. MmuOK(mmu)' /\ mmu.matched' = FALSE /\ mstatus' = [mstatus EXCEPT !.sum = FALSE]
  BY <1>1, <1>4, SumFlush
<1>6. SumTurns
  BY <1>2, <1>5 DEF SumTurns, WithSum
<1>7. /\ TablesOK' /\ FramesOK' /\ (\A q : (Mapped(q)' <=> Mapped(q)) /\ Pte(q)' = Pte(q))
  BY <1>1, SameTables DEF HartOK
<1>8. FreeOK'
  <2>1. node' = [k \in Nodes |-> node'[k]] /\ Nodes' = Nodes
    BY <1>1 DEF HartOK, FreeOK, Nodes
  <2>2. /\ user_mapping' = [q \in Pages |-> user_mapping'[q]]
        /\ \A q \in Pages : user_mapping'[q] # 0 => Mapped(q)
    BY <1>1 DEF HartOK, FreeOK
  <2> QED
    BY <1>3, <1>7, <2>1, <2>2, EvictPlace DEF FreeOK
<1>9. PagesOK'
  BY <1>1, <1>3, <1>7, EvictFacts, EvictPlace DEF HartOK, PagesOK
<1>10. ControlOK'
  BY <1>1, <1>3, <1>6, EvictFacts, EvictPlace, ControlStep
<1>11. EvictOK'
  BY <1>2 DEF EvictOK
<1>12. Clean'
  BY <1>1 DEF Clean
<1> QED
  BY <1>3, <1>5, <1>7, <1>8, <1>9, <1>10, <1>11, <1>12, EvictPlace DEF HartOK

----------------------------------------------------------------------------
(* The copies and the mapping. *)

\* Copying a page's image into a page that has its bits: neither access faults,
\* and nothing but that page changes.
LEMMA CopyStep ==
    ASSUME HartOK, Clean, NEW p \in Pages, NEW from, NEW to, CopyHome(p, from, to), prv = "S",
           Allowed(p, "STORE"), \A q : q # p => ~CopyingIn(q),
           \A q : ~CopyingIn(q)', Evicting => Evicting', Evicting' \/ expected[p] = 0
    PROVE  /\ TablesOK' /\ FramesOK' /\ FreeOK' /\ PagesOK' /\ Clean'
           /\ MmuOK(mmu)' /\ mmu.matched' = FALSE
<1> DEFINE src == Load(mmu, Kva(p))
           dst == Store(src.mmu, p, mem[src.frame])
           f == Pte(p).ppn
<1>1. /\ kpc = from /\ kpc' = to /\ mstatus.sum /\ mmu' = dst.mmu
      /\ Assert(src.frame >= 0 /\ dst.frame >= 0)
      /\ mem' = IF dst.frame >= 0 THEN [mem EXCEPT ![dst.frame] = mem[src.frame]] ELSE mem
      /\ UNCHANGED <<xlen, prv, debugCause, mcontrol, tracer, pending, tf, expected, wrong,
                     missed, untraced, mstatus, pt, user_mapping, node, freelist_head, freelist_tail>>
  BY DEF CopyHome, KernelOnly, ListSame
<1>2. MmuOK(src.mmu) /\ src.mmu.matched = FALSE /\ src.frame \in Nat /\ mem[src.frame] = 0
  BY HomeLoad, PageNumbers DEF HartOK
<1>3. Sound(dst, src.mmu, p, "STORE", mem[src.frame])
  BY <1>2, Walks, StoreSound DEF Reached
<1>4. MmuOK(dst.mmu) /\ dst.mmu.matched = FALSE /\ dst.frame \in Nat /\ dst.frame = f
  BY <1>1, <1>2, <1>3, UserReach
<1> HIDE DEF src, dst
<1>5. mem' = [mem EXCEPT ![f] = 0]
  BY <1>1, <1>2, <1>4
<1>6. Clean'
  <2>1. src.frame >= 0 /\ dst.frame >= 0
    BY <1>2, <1>4
  <2>2. ~failed'
    BY <1>1, <2>1 DEF Clean, Assert
  <2> QED
    BY <1>1, <2>2 DEF Clean
<1>7. MmuOK(mmu)' /\ mmu.matched' = FALSE
  BY <1>1, <1>4, SameMmu
<1>8. /\ TablesOK' /\ FramesOK'
      /\ \A q : Pte(q)' = Pte(q) /\ (Mapped(q)' <=> Mapped(q))
  BY <1>1, SameTables DEF HartOK
<1>9. FreeOK'
  <2>1. MappedPages' = MappedPages
    BY <1>8 DEF MappedPages
  <2> QED
    BY <1>1, <1>8, <2>1 DEF FreeOK, HartOK
<1>10. PagesOK'
  <2>1. Mapped(p) /\ Pte(p).d
    BY DEF Allowed
  <2>2. f \in UserFrames /\ f \in DRAM..FreeFrame(MAX_TEST_PAGES) /\ \A x \in Homes : f # DRAM + x
    <3>1. f \in UserFrames
      BY <2>1 DEF HartOK, FramesOK, UserPte
    <3> QED
      BY <3>1, VmAssumption DEF UserFrames, FreeFrame, Homes
  <2>3. \A q \in Pages : Mapped(q) /\ Pte(q).ppn = f => q = p
    BY <2>1 DEF HartOK, FramesOK
  <2>4. /\ mem = [g \in DRAM..FreeFrame(MAX_TEST_PAGES) |-> mem[g]]
        /\ \A x \in Homes : mem[DRAM + x] = 0
        /\ expected = [q \in Pages |-> expected[q]]
    BY DEF HartOK, PagesOK
  <2>5. mem'[f] = 0 /\ \A g : g # f => mem'[g] = mem[g]
    BY <1>5, <2>2, <2>4
  <2>6. mem' = [g \in DRAM..FreeFrame(MAX_TEST_PAGES) |-> mem'[g]]
    BY <1>5, <2>4
  <2>7. \A x \in Homes : mem'[DRAM + x] = 0
    BY <2>2, <2>4, <2>5
  <2>8. ASSUME NEW q \in Pages
        PROVE  /\ ~Mapped(q) => expected[q] = 0
               /\ Mapped(q) /\ ~Evicting' => mem'[Pte(q).ppn] = expected[q]
               /\ Mapped(q) /\ ~Pte(q).d => mem'[Pte(q).ppn] = 0
               /\ Mapped(q) /\ ~Pte(q).a => pending # None /\ pending.vpn = q
    <3>1. CASE q = p
      BY <2>1, <2>5, <3>1 DEF Allowed
    <3>2. CASE q # p
      <4>1. Mapped(q) => mem'[Pte(q).ppn] = mem[Pte(q).ppn]
        BY <2>3, <2>5, <3>2
      <4> HIDE DEF f
      <4> QED
        BY <3>2, <4>1 DEF HartOK, PagesOK
    <3> QED
      BY <3>1, <3>2
  <2>9. ASSUME NEW q \in Pages
        PROVE  /\ ~Mapped(q)' => expected'[q] = 0
               /\ Mapped(q)' /\ ~CopyingIn(q)' /\ ~Evicting' => mem'[Pte(q)'.ppn] = expected'[q]
               /\ Mapped(q)' /\ ~CopyingIn(q)' /\ ~Pte(q)'.d => mem'[Pte(q)'.ppn] = 0
               /\ Mapped(q)' /\ ~Pte(q)'.a => pending' # None /\ pending'.vpn = q
    <3> HIDE DEF f
    <3> QED
      BY <1>1, <1>8, <2>8
  <2> QED
    BY <1>1, <2>4, <2>6, <2>7, <2>9 DEF PagesOK, FreeFrame
<1> QED
  BY <1>6, <1>7, <1>8, <1>9, <1>10

\* The copy of a new page.
LEMMA CopyInStep ==
    ASSUME HartOK, Clean, CopyHome(tf.vpn, At("copy"), At("sum_off"))
    PROVE  HartOK' /\ Clean'
<1>1. /\ kpc = At("copy") /\ kpc' = At("sum_off")
      /\ UNCHANGED <<xlen, prv, debugCause, mcontrol, tracer, pending, tf, expected, wrong,
                     missed, untraced, mstatus, pt, user_mapping, node, freelist_head, freelist_tail>>
  BY DEF CopyHome, KernelOnly, ListSame
<1>2. kpc[1] = "copy" /\ kpc'[1] = "sum_off"
  BY <1>1, Places
<1>3. kpc[1] \in FaultPlaces /\ kpc[1] \in Mapping /\ kpc'[1] \in Mapping
  BY <1>2 DEF FaultPlaces, Mapping, Copying
<1>4. prv = "S" /\ InFault /\ ~Evicting /\ tf.vpn \in Pages
  BY <1>3, FaultFacts
<1>5. Allowed(tf.vpn, "STORE") /\ expected[tf.vpn] = 0
  BY <1>3 DEF HartOK, FaultOK, Allowed
<1>6. (\A q : q # tf.vpn => ~CopyingIn(q)) /\ \A q : ~CopyingIn(q)'
  BY <1>2 DEF CopyingIn, Copying
<1>7. /\ TablesOK' /\ FramesOK' /\ FreeOK' /\ PagesOK' /\ Clean'
      /\ MmuOK(mmu)' /\ mmu.matched' = FALSE
  BY <1>4, <1>5, <1>6, CopyStep
<1>8. FaultOK' /\ EvictOK'
  BY <1>1, <1>3, SameFault
<1>9. SumStays
  BY <1>1, <1>2 DEF SumStays, WithSum
<1>10. ~TestEnds'
  BY <1>2 DEF TestEnds, Evicting, EvictPlaces
<1>11. ControlOK'
  BY <1>1, <1>2, <1>4, <1>9, <1>10, ControlStep
<1> QED
  BY <1>7, <1>8, <1>11 DEF HartOK

\* The image is copied into a page the test has changed.
LEMMA RestoreStep ==
    ASSUME HartOK, Clean, NEW p \in Pages, CopyHome(p, <<"restore", p>>, <<"free", p>>)
    PROVE  HartOK' /\ Clean'
<1>1. /\ kpc = <<"restore", p>> /\ kpc' = <<"free", p>>
      /\ UNCHANGED <<xlen, prv, debugCause, mcontrol, tracer, pending, tf, expected, wrong,
                     missed, untraced, mstatus, pt, user_mapping, node, freelist_head, freelist_tail>>
  BY DEF CopyHome, KernelOnly, ListSame
<1>2. kpc[1] = "restore" /\ kpc[2] = p /\ kpc'[1] = "free"
  BY <1>1, Places
<1>3. Evicting /\ kpc'[1] \in EvictPlaces \cup {"terminate"}
  BY <1>2 DEF Evicting, EvictPlaces
<1>4. Allowed(p, "STORE") /\ prv = "S"
  BY <1>2, <1>3, EvictFacts DEF HartOK, EvictOK, Allowed
<1>5. /\ TablesOK' /\ FramesOK' /\ FreeOK' /\ PagesOK' /\ Clean'
      /\ MmuOK(mmu)' /\ mmu.matched' = FALSE
  BY <1>3, <1>4, EvictFacts, EvictPlace, CopyStep
<1>6. SumStays
  BY <1>1, <1>2 DEF SumStays, WithSum
<1>7. ControlOK'
  BY <1>1, <1>3, <1>6, EvictFacts, EvictPlace, ControlStep
<1>8. EvictOK'
  BY <1>2 DEF EvictOK
<1> QED
  BY <1>3, <1>5, <1>7, <1>8, EvictPlace DEF HartOK

\* There is a free frame for every page that is not mapped.
LEMMA FreeFrames ==
    ASSUME NEW p \in Pages, ~Mapped(p)
    PROVE  /\ IsFiniteSet(MappedPages) /\ p \notin MappedPages
           /\ Cardinality(MappedPages) \in Nat /\ Cardinality(MappedPages) <= MAX_TEST_PAGES - 2
           /\ Cardinality(MappedPages \cup {p}) = Cardinality(MappedPages) + 1
<1>1. IsFiniteSet(Pages) /\ Cardinality(Pages) = MAX_TEST_PAGES - 1
  <2>1. MAX_TEST_PAGES - 1 \in Int /\ 1 \in Int /\ MAX_TEST_PAGES - 1 >= 1
    BY PageNumbers
  <2> QED
    BY <2>1, FS_Interval DEF Pages
<1>2. MappedPages \subseteq Pages /\ p \notin MappedPages
  BY DEF MappedPages
<1>3. IsFiniteSet(MappedPages)
  BY <1>1, <1>2, FS_Subset
<1>4. Cardinality(MappedPages) \in Nat /\ Cardinality(MappedPages \cup {p}) = Cardinality(MappedPages) + 1
  BY <1>2, <1>3, FS_AddElement, FS_CardinalityType
<1>5. Cardinality(MappedPages \cup {p}) <= Cardinality(Pages)
  <2>1. MappedPages \cup {p} \subseteq Pages
    BY <1>2
  <2> QED
    BY <1>1, <2>1, FS_Subset
<1> QED
  BY <1>1, <1>2, <1>3, <1>4, <1>5, PageNumbers

\* A page that is not mapped gets a frame of the free list, which is not empty,
\* and has no node of its own yet: neither assert() of handle_fault fails.
LEMMA MapPageStep ==
    ASSUME HartOK, Clean, MapPage, NEW p, p = tf.vpn, NEW h, h = freelist_head
    PROVE  HartOK' /\ Clean'
<1> DEFINE f == FreeFrame(h)
<1>0. h # Null /\ user_mapping[p] = 0
  <2>1. kpc = At("handle_fault") /\ ~Mapped(p)
    BY DEF MapPage, Mapped
  <2>2. kpc[1] \in FaultPlaces
    BY <2>1, Places DEF FaultPlaces, Mapping
  <2>3. ~Evicting /\ p \in Pages
    BY <2>2, FaultFacts
  <2> QED
    BY <2>1, <2>3, PageNumbers DEF HartOK, FreeOK, Null
<1>1. /\ kpc = At("handle_fault") /\ kpc' = At("copy_in") /\ ~Mapped(p)
      /\ Assert(user_mapping[p] = 0) /\ freelist_head' = node[h].next
      /\ SetPte(p, UserPte(TRUE, TRUE, node[h].addr)) /\ mmu' = flush_tlb(Touch(mmu))
      /\ user_mapping' = [user_mapping EXCEPT ![p] = node[h].addr]
      /\ node' = [node EXCEPT ![-p] = node[h]]
      /\ UNCHANGED <<xlen, prv, debugCause, mcontrol, tracer, pending, tf, expected, wrong,
                     missed, untraced, mstatus, mem>>
  BY <1>0 DEF MapPage, KernelOnly, Mapped
<1>2. kpc[1] = "handle_fault" /\ kpc'[1] = "copy_in"
  BY <1>1, Places
<1>3. kpc[1] \in FaultPlaces /\ kpc'[1] \in Mapping /\ kpc[1] \notin WithSum \cup Copying
  BY <1>2 DEF FaultPlaces, Mapping, Copying, WithSum
<1>4. /\ prv = "S" /\ InFault /\ ~Evicting /\ p \in Pages /\ p > 0
  BY <1>3, FaultFacts DEF Pages
<1>5. InFault' /\ ~TestEnds' /\ ~Evicting' /\ CopyingIn(p)' /\ kpc'[1] # "user" /\ kpc'[1] \notin WithSum
  BY <1>1, <1>2, Statements DEF InFault, TestEnds, Evicting, CopyingIn, FaultPlaces, EvictPlaces,
                                Mapping, Copying, WithSum
<1>6. /\ h \in 1..(MAX_TEST_PAGES - 1) /\ h = Cardinality(MappedPages) + 1
      /\ node[h].addr = f /\ node[h].next = h + 1
  <2>1. h \in 1..MAX_TEST_PAGES /\ h = Cardinality(MappedPages) + 1
    BY <1>4 DEF HartOK, FreeOK
  <2>2. Cardinality(MappedPages) \in Nat /\ Cardinality(MappedPages) <= MAX_TEST_PAGES - 2
    BY <1>1, <1>4, FreeFrames
  <2>3. h \in 1..(MAX_TEST_PAGES - 1)
    BY <2>1, <2>2, PageNumbers
  <2> QED
    BY <1>4, <2>1, <2>3 DEF HartOK, FreeOK
<1>7. f \in UserFrames /\ f \in Nat
  BY <1>6, VmAssumption DEF UserFrames, FreeFrame
<1>8. TablesOK' /\ Pte(p)' = UserPte(TRUE, TRUE, f) /\ \A q \in Pages : q # p => Pte(q)' = Pte(q)
  BY <1>1, <1>4, <1>6, SetPteTables DEF HartOK, ControlOK
<1>9. /\ UserPte(TRUE, TRUE, f) # NoPte /\ UserPte(TRUE, TRUE, f).ppn = f
      /\ UserPte(TRUE, TRUE, f).a = TRUE /\ UserPte(TRUE, TRUE, f).d = TRUE
  BY DEF UserPte, NoPte
<1>10. \A q \in Pages : q # p => (Mapped(q)' <=> Mapped(q))
  BY <1>8 DEF Mapped
<1>11. Mapped(p)' /\ Pte(p)'.ppn = f /\ Pte(p)'.a = TRUE /\ Pte(p)'.d = TRUE
  BY <1>8, <1>9 DEF Mapped
<1>12. \A q \in Pages : Mapped(q) => Pte(q).ppn < f /\ q # p
  BY <1>1, <1>4 DEF HartOK, FreeOK
<1> HIDE DEF f
<1>13. FramesOK'
  <2>1. ASSUME NEW q \in Pages, Mapped(q)'
        PROVE  \E a, d \in BOOLEAN : \E g \in UserFrames : Pte(q)' = UserPte(a, d, g)
    BY <1>7, <1>8, <1>10, <2>1 DEF HartOK, FramesOK
  <2>2. ASSUME NEW q \in Pages, NEW r \in Pages, Mapped(q)', Mapped(r)', Pte(q)'.ppn = Pte(r)'.ppn
        PROVE  q = r
    <3>1. \A z \in Pages : z # p /\ Mapped(z)' => Mapped(z) /\ Pte(z)'.ppn = Pte(z).ppn /\ Pte(z)'.ppn < f
      BY <1>8, <1>10, <1>12
    <3>2. ~(f < f)
      BY <1>7
    <3> QED
      BY <1>11, <2>2, <3>1, <3>2 DEF HartOK, FramesOK
  <2>3. UserFrames' = UserFrames
    BY DEF UserFrames, FreeFrame
  <2> QED
    BY <2>1, <2>2, <2>3 DEF FramesOK, UserPte
<1>14. FreeOK'
  <2>1. freelist_head' = h + 1 /\ h + 1 \in 1..MAX_TEST_PAGES
    BY <1>1, <1>6, PageNumbers
  <2>2. Cardinality(MappedPages') = Cardinality(MappedPages) + 1
    <3>1. MappedPages' = MappedPages \cup {p}
      BY <1>4, <1>10, <1>11 DEF MappedPages
    <3> QED
      BY <1>1, <1>4, <3>1, FreeFrames
  <2>3. /\ node' = [k \in Nodes |-> node'[k]] /\ \A k : k # -p => node'[k] = node[k]
    <3>1. node = [k \in Nodes |-> node[k]]
      BY DEF HartOK, FreeOK
    <3> QED
      BY <1>1, <3>1
  <2>4. \A k \in 1..MAX_TEST_PAGES : k # -p
    BY <1>4, PageNumbers
  <2>5. /\ user_mapping' = [q \in Pages |-> user_mapping'[q]]
        /\ \A q \in Pages : user_mapping'[q] # 0 => Mapped(q)'
    <3>1. user_mapping = [q \in Pages |-> user_mapping[q]] /\ \A q \in Pages : user_mapping[q] # 0 => Mapped(q)
      BY DEF HartOK, FreeOK
    <3>2. user_mapping' = [q \in Pages |-> user_mapping'[q]] /\ \A q : q # p => user_mapping'[q] = user_mapping[q]
      BY <1>1, <3>1
    <3> QED
      BY <1>10, <1>11, <3>1, <3>2
  <2>6. \A q \in Pages : Mapped(q)' => Pte(q)'.ppn < FreeFrame(h + 1)
    <3>1. f < FreeFrame(h + 1) /\ f \in Nat /\ FreeFrame(h + 1) \in Nat
      BY <1>6, VmAssumption DEF f, FreeFrame
    <3>2. ASSUME NEW q \in Pages, q # p, Mapped(q)
          PROVE  Pte(q).ppn < f /\ Pte(q).ppn \in Nat
      <4>1. PICK a \in BOOLEAN, d \in BOOLEAN, g \in UserFrames : Pte(q) = UserPte(a, d, g)
        BY <3>2 DEF HartOK, FramesOK
      <4>2. Pte(q).ppn \in Nat
        BY <4>1, VmAssumption DEF UserPte, UserFrames, FreeFrame
      <4> QED
        BY <1>12, <3>2, <4>2
    <3>3. ASSUME NEW q \in Pages, Mapped(q)', q # p
          PROVE  Pte(q)'.ppn < FreeFrame(h + 1)
      <4>1. Mapped(q) /\ Pte(q)' = Pte(q)
        BY <1>8, <1>10, <3>3
      <4>2. Pte(q).ppn < f /\ Pte(q).ppn \in Nat
        BY <3>2, <3>3, <4>1
      <4> QED
        BY <3>1, <4>1, <4>2
    <3> QED
      BY <1>11, <3>1, <3>3
  <2>7. /\ \A k \in 1..MAX_TEST_PAGES : node[k].addr = FreeFrame(k)
        /\ \A k \in 1..(MAX_TEST_PAGES - 1) : node[k].next = k + 1
    BY <1>4 DEF HartOK, FreeOK
  <2>8. /\ \A k \in 1..MAX_TEST_PAGES : node'[k].addr = FreeFrame(k)
        /\ \A k \in 1..(MAX_TEST_PAGES - 1) : node'[k].next = k + 1
    BY <2>3, <2>4, <2>7, PageNumbers
  <2>9. \A k : FreeFrame(k)' = FreeFrame(k)
    BY DEF FreeFrame
  <2> QED
    BY <1>6, <2>1, <2>2, <2>3, <2>5, <2>6, <2>8, <2>9 DEF FreeOK
<1>15. PagesOK'
  <2>1. /\ mem = [g \in DRAM..FreeFrame(MAX_TEST_PAGES) |-> mem[g]]
        /\ \A x \in Homes : mem[DRAM + x] = 0
        /\ expected = [q \in Pages |-> expected[q]]
    BY DEF HartOK, PagesOK
  <2>2. ASSUME NEW q \in Pages
        PROVE  /\ ~Mapped(q)' => expected'[q] = 0
               /\ Mapped(q)' /\ ~CopyingIn(q)' => mem'[Pte(q)'.ppn] = expected'[q]
               /\ Mapped(q)' /\ ~CopyingIn(q)' /\ ~Pte(q)'.d => mem'[Pte(q)'.ppn] = 0
               /\ Mapped(q)' /\ ~Pte(q)'.a => pending' # None /\ pending'.vpn = q
    <3>1. CASE q = p
      BY <1>5, <1>11, <3>1
    <3>2. CASE q # p
      <4>1. (Mapped(q)' <=> Mapped(q)) /\ Pte(q)' = Pte(q) /\ ~CopyingIn(q)
        BY <1>3, <1>8, <1>10, <3>2 DEF CopyingIn
      <4> QED
        BY <1>1, <1>4, <4>1 DEF HartOK, PagesOK
    <3> QED
      BY <3>1, <3>2
  <2> QED
    BY <1>1, <2>1, <2>2 DEF PagesOK, FreeFrame
<1>16. MmuOK(mmu)' /\ mmu.matched' = FALSE
  BY <1>1, <1>4, TouchSound, FlushStep
<1>17. ControlOK'
  <2>1. SumStays
    BY <1>1, <1>3, <1>5 DEF SumStays
  <2>2. kpc[1] # "user"
    BY <1>2
  <2> QED
    BY <1>1, <1>4, <1>5, <2>1, <2>2, ControlStep
<1>18. FaultOK' /\ EvictOK'
  <2>1. expected[p] = 0
    BY <1>1, <1>4 DEF HartOK, PagesOK
  <2> QED
    BY <1>1, <1>2, <1>11, <2>1 DEF FaultOK, EvictOK
<1>19. Clean'
  <2>1. ~failed'
    BY <1>0, <1>1 DEF Clean, Assert
  <2> QED
    BY <1>1, <2>1 DEF Clean
<1> QED
  BY <1>8, <1>13, <1>14, <1>15, <1>16, <1>17, <1>18, <1>19 DEF HartOK

----------------------------------------------------------------------------
(* The whole. *)

\* The tables vm_boot makes map no page of the test.
LEMMA BootTables ==
    ASSUME vm_boot(xlen), xlen \in {32, 64}
    PROVE  TablesOK /\ \A p \in Pages : ~Mapped(p)
<1>1. Entries \in Nat /\ Entries >= 2 /\ 0 \in 0..Last /\ Last \in 0..Last /\ Last # 0
  BY VmAssumption, Spans DEF Last
<1>2. NoTable = [i \in 0..Last |-> NoPte]
  BY DEF NoTable, Last
<1>3. \A p \in Pages : p \in 0..Last
  BY PageNumbers DEF Last
<1> HIDE DEF NoTable, Last
<1>4. CASE xlen = 32
  <2>1. pt = [t \in 0..1 |-> IF t = 0 THEN [NoTable EXCEPT ![0] = Table(1), ![Last] = Kernel] ELSE NoTable]
    BY <1>4 DEF vm_boot
  <2>2. pt[0] = [NoTable EXCEPT ![0] = Table(1), ![Last] = Kernel] /\ pt[1] = NoTable
    BY <2>1
  <2>3. pt[0][0] = Table(1) /\ pt[0][Last] = Kernel
    BY <1>1, <1>2, <2>2
  <2>4. pt = [t \in 0..1 |-> pt[t]]
    BY <2>1
  <2>5. UserTable = 1 /\ pt[1] = NoTable /\ \A i : Pte(i) = NoTable[i]
    BY <1>4, <2>2 DEF UserTable, Pte
  <2>6. pt[UserTable] = [i \in 0..Last |-> Pte(i)]
    BY <1>2, <2>5
  <2>7. \A p \in Pages : Pte(p) = NoPte
    BY <1>2, <1>3, <2>5
  <2>8. TablesOK
    BY <1>4, <2>3, <2>4, <2>6 DEF TablesOK
  <2> QED
    BY <2>7, <2>8 DEF Mapped
<1>5. CASE xlen = 64
  <2>1. pt = [t \in 0..3 |-> CASE t = 0 -> [NoTable EXCEPT ![0] = Table(1), ![Last] = Table(2)]
                               [] t = 1 -> [NoTable EXCEPT ![0] = Table(3)]
                               [] t = 2 -> [NoTable EXCEPT ![Last] = Kernel]
                               [] t = 3 -> NoTable]
    BY <1>5 DEF vm_boot
  <2>2. /\ pt[0] = [NoTable EXCEPT ![0] = Table(1), ![Last] = Table(2)]
        /\ pt[1] = [NoTable EXCEPT ![0] = Table(3)] /\ pt[2] = [NoTable EXCEPT ![Last] = Kernel]
        /\ pt[3] = NoTable
    BY <2>1
  <2>3. pt[0][0] = Table(1) /\ pt[0][Last] = Table(2) /\ pt[1][0] = Table(3) /\ pt[2][Last] = Kernel
    BY <1>1, <1>2, <2>2
  <2>4. pt = [t \in 0..3 |-> pt[t]]
    BY <2>1
  <2>5. UserTable = 3 /\ pt[3] = NoTable /\ \A i : Pte(i) = NoTable[i]
    BY <1>5, <2>2 DEF UserTable, Pte
  <2>6. pt[UserTable] = [i \in 0..Last |-> Pte(i)]
    BY <1>2, <2>5
  <2>7. \A p \in Pages : Pte(p) = NoPte
    BY <1>2, <1>3, <2>5
  <2>8. TablesOK
    BY <1>5, <2>3, <2>4, <2>6 DEF TablesOK
  <2> QED
    BY <2>7, <2>8 DEF Mapped
<1> QED
  BY <1>4, <1>5

\* The empty TLB agrees with any tables.
LEMMA EmptyOK == MmuOK(EmptyMmu) /\ EmptyMmu.matched = FALSE
<1>1. EmptyMmu.data \in [Slots -> Nat]
  BY DEF EmptyMmu, Slots
<1>2. NoTags \in TagArrays /\ \A i \in Slots : NoTags[i] = NoTag
  BY DEF NoTags, NoTag, TagArrays, Slots
<1>3. \A i \in Lines : LineOK(NoEntries[i])
  BY DEF LineOK, NoEntries, Lines
<1>4. NoEntries = [i \in Lines |-> NoEntries[i]]
  BY DEF NoEntries, Lines
<1> HIDE DEF NoTags, NoEntries
<1> QED
  BY <1>1, <1>2, <1>3, <1>4, NoTagOK DEF MmuOK, MmuType, EmptyMmu

\* The test begins with no page mapped and nothing gone wrong.
LEMMA InitVm ==
    ASSUME Init
    PROVE  HartOK /\ Clean
<1>1. /\ xlen \in {32, 64} /\ tracer \subseteq Types /\ vm_boot(xlen) /\ prv = "U" /\ debugCause = FALSE
      /\ mstatus = [mprv |-> FALSE, mpp |-> "U", sum |-> FALSE, mxr |-> FALSE]
      /\ mem = [f \in DRAM..FreeFrame(MAX_TEST_PAGES) |-> IF f < FreeFrame(0) THEN 0 ELSE 2]
      /\ mmu = EmptyMmu /\ pending = None /\ kpc = At("user")
      /\ expected = [p \in Pages |-> 0] /\ ~failed /\ ~wrong /\ missed = {} /\ ~untraced
  BY VmAssumption DEF Init
<1>2. kpc[1] = "user"
  BY <1>1, Places
<1>3. ~Evicting /\ ~TestEnds /\ ~InFault /\ kpc[1] \notin WithSum \cup Mapping
  BY <1>2, Statements DEF Evicting, TestEnds, InFault
<1>4. TablesOK /\ \A p \in Pages : ~Mapped(p)
  BY <1>1, BootTables
<1>5. ControlOK
  BY <1>1, <1>2, <1>3 DEF ControlOK
<1>6. FramesOK
  BY <1>4 DEF FramesOK
<1>7. FreeOK
  <2>1. MappedPages = {}
    BY <1>4 DEF MappedPages
  <2>2. Cardinality(MappedPages) = 0
    BY <2>1, FS_EmptySet
  <2>3. /\ node = [k \in Nodes |->
                     IF k > 0 THEN [addr |-> FreeFrame(k),
                                    next |-> IF k = MAX_TEST_PAGES THEN Null ELSE k + 1]
                     ELSE [addr |-> 0, next |-> Null]]
        /\ freelist_head = 1 /\ user_mapping = [p \in Pages |-> 0]
    BY <1>1 DEF vm_boot
  <2>4. \A k \in 1..MAX_TEST_PAGES : k \in Nodes /\ k > 0
    BY DEF Nodes
  <2>5. /\ \A k \in 1..MAX_TEST_PAGES : node[k].addr = FreeFrame(k)
        /\ \A k \in 1..(MAX_TEST_PAGES - 1) : node[k].next = k + 1
    BY <2>3, <2>4, PageNumbers
  <2>6. node = [k \in Nodes |-> node[k]]
    BY <2>3
  <2>7. user_mapping = [p \in Pages |-> user_mapping[p]] /\ \A p \in Pages : user_mapping[p] = 0
    BY <2>3
  <2>8. 1 \in 1..MAX_TEST_PAGES /\ 1 = 0 + 1
    BY PageNumbers
  <2> QED
    BY <1>4, <2>2, <2>3, <2>5, <2>6, <2>7, <2>8 DEF FreeOK
<1>8. PagesOK
  <2>1. \A x \in Homes : DRAM + x \in DRAM..FreeFrame(MAX_TEST_PAGES) /\ DRAM + x < FreeFrame(0)
    BY VmAssumption DEF Homes, FreeFrame
  <2> QED
    BY <1>1, <1>4, <2>1 DEF PagesOK
<1>9. FaultOK /\ EvictOK
  BY <1>2, <1>3 DEF FaultOK, EvictOK
<1>10. MmuOK(mmu) /\ mmu.matched = FALSE
  BY <1>1, EmptyOK
<1>11. Clean
  BY <1>1 DEF Clean
<1> QED
  BY <1>4, <1>5, <1>6, <1>7, <1>8, <1>9, <1>10, <1>11 DEF HartOK

\* Every statement of the handler keeps the invariant.
LEMMA FaultStep ==
    ASSUME HartOK, Clean, handle_fault
    PROVE  HartOK' /\ Clean'
<1>1. CASE MarkPage
  BY <1>1, MarkPageStep
<1>2. CASE MapPage
  <2>1. PICK p, h : p = tf.vpn /\ h = freelist_head
    OBVIOUS
  <2> QED
    BY <1>2, <2>1, MapPageStep
<1>3. CASE SumOn(At("copy_in"), At("copy"))
  BY <1>3, SumOnStep
<1>4. CASE CopyHome(tf.vpn, At("copy"), At("sum_off"))
  BY <1>4, CopyInStep
<1>5. CASE SumOff(At("sum_off"), At("unmark"))
  BY <1>5, SumOffStep
<1>6. CASE UnmarkPage
  BY <1>6, UnmarkStep
<1>7. CASE FlushAndReturn
  BY <1>7, ReturnStep
<1> QED
  BY <1>1, <1>2, <1>3, <1>4, <1>5, <1>6, <1>7 DEF handle_fault

\* So does every statement of the end of the test.
LEMMA EvictStep ==
    ASSUME HartOK, Clean, NEW p \in Pages, evict(p)
    PROVE  HartOK' /\ Clean'
BY EvictNothingStep, EvictMappedStep, CompareStep, RestoreStep, FreePageStep DEF evict

\* A step that changes nothing.
LEMMA StutterStep ==
    ASSUME HartOK, UNCHANGED vars
    PROVE  HartOK'
<1>1. UNCHANGED <<hartVars, pt, mem, mmu, mcontrol, tracer, pending, kernelVars, ghostVars>>
  BY DEF vars
<1>2. UNCHANGED <<xlen, prv, mstatus, debugCause, pt, mem, mmu, mcontrol, tracer, pending, kpc, tf,
                  user_mapping, node, freelist_head, expected>>
  BY <1>1 DEF hartVars, kernelVars, ghostVars
<1>3. /\ \A p : Pte(p)' = Pte(p) /\ (Mapped(p)' <=> Mapped(p))
      /\ \A p, t : Allowed(p, t)' <=> Allowed(p, t)
  BY <1>2, SameTables
<1>4. /\ (Evicting' <=> Evicting) /\ (TestEnds' <=> TestEnds) /\ (InFault' <=> InFault)
      /\ (\A p : CopyingIn(p)' <=> CopyingIn(p)) /\ FaultCause' = FaultCause
  BY <1>2 DEF Evicting, TestEnds, InFault, CopyingIn, FaultCause
<1>5. TablesOK' /\ FramesOK' /\ FreeOK' /\ PagesOK'
  BY <1>2, <1>4, SameData DEF HartOK
<1>6. MmuOK(mmu)' /\ mmu.matched' = FALSE
  BY <1>2, SameMmu DEF HartOK
<1>7. ControlOK'
  BY <1>2, <1>4 DEF HartOK, ControlOK
<1>8. FaultOK' /\ EvictOK'
  BY <1>2, <1>3, <1>4 DEF HartOK, FaultOK, EvictOK
<1> QED
  BY <1>5, <1>6, <1>7, <1>8 DEF HartOK

\* Once the simulator has aborted nothing happens.
LEMMA AbortedStep ==
    ASSUME Clean, kpc = At("aborted"), [Next]_vars
    PROVE  Clean' /\ kpc' = At("aborted")
<1>1. \A s, i : s # "aborted" => kpc # <<s, i>> /\ kpc # At(s)
  <2>1. kpc[1] = "aborted"
    BY Places
  <2> QED
    BY <2>1, Places
<1>2. ~Issue /\ ~Ecall /\ ~SetTrigger /\ ~Execute /\ ~handle_trap
  BY <1>1 DEF Issue, Ecall, SetTrigger, Execute, handle_trap
<1>3. ~MarkPage /\ ~MapPage /\ ~UnmarkPage /\ ~FlushAndReturn
  BY <1>1 DEF MarkPage, MapPage, UnmarkPage, FlushAndReturn
<1>4. /\ ~SumOn(At("copy_in"), At("copy")) /\ ~SumOff(At("sum_off"), At("unmark"))
      /\ ~CopyHome(tf.vpn, At("copy"), At("sum_off"))
  BY <1>1 DEF SumOn, CopyHome, SumOff
<1>5. \A p : ~EvictNothing(p) /\ ~EvictMapped(p) /\ ~Compare(p) /\ ~FreePage(p)
  BY <1>1 DEF EvictNothing, EvictMapped, Compare, FreePage
<1>6. \A p : ~CopyHome(p, <<"restore", p>>, <<"free", p>>)
  BY <1>1 DEF CopyHome
<1>7. UNCHANGED vars
  BY <1>2, <1>3, <1>4, <1>5, <1>6 DEF Next, Hart, Terminated, handle_fault, evict
<1> QED
  BY <1>7 DEF vars, ghostVars, kernelVars, Clean

\* The invariant is inductive.
LEMMA VmStep ==
    ASSUME VmInv, [Next]_vars
    PROVE  VmInv'
<1>1. CASE kpc = At("aborted")
  BY <1>1, AbortedStep DEF VmInv
<1>2. CASE kpc # At("aborted")
  <2>1. HartOK /\ Clean
    BY <1>2 DEF VmInv
  <2>2. CASE Issue
    BY <2>1, <2>2, IssueStep DEF VmInv
  <2>3. CASE Ecall
    BY <2>1, <2>3, EcallStep DEF VmInv
  <2>4. CASE SetTrigger
    BY <2>1, <2>4, SetTriggerStep DEF VmInv
  <2>5. CASE Execute
    BY <2>1, <2>5, ExecuteStep DEF VmInv
  <2>6. CASE handle_trap
    BY <2>1, <2>6, TrapHandled DEF VmInv
  <2>7. CASE handle_fault
    BY <2>1, <2>7, FaultStep DEF VmInv
  <2>8. CASE \E p \in Pages : evict(p)
    BY <2>1, <2>8, EvictStep DEF VmInv
  <2>9. CASE UNCHANGED vars
    <3>1. HartOK'
      BY <2>1, <2>9, StutterStep
    <3>2. Clean'
      BY <2>1, <2>9 DEF vars, ghostVars, Clean
    <3> QED
      BY <3>1, <3>2 DEF VmInv
  <2> QED
    BY <2>2, <2>3, <2>4, <2>5, <2>6, <2>7, <2>8, <2>9 DEF Next, Hart, Terminated
<1> QED
  BY <1>1, <1>2

\* The invariant of the demand pager on the simulator's MMU: the tables, the free
\* list, the frames and the TLB fit together in every reachable state.
THEOREM VmInvariant == Spec => []VmInv
<1>1. Init => VmInv
  BY InitVm DEF VmInv
<1>2. VmInv /\ [Next]_vars => VmInv'
  BY VmStep
<1> QED
  BY <1>1, <1>2, PTL DEF Spec

\* In user mode every valid tag is what walk() would answer, the asserts of vm.c
\* hold and every load returns what was stored last (mmu.cc, vm.c).
THEOREM PagingIsExact == Spec => []PagingExact
<1>1. VmInv => PagingExact
  <2> SUFFICES ASSUME VmInv
               PROVE  PagingExact
    OBVIOUS
  <2>1. PagingTransparent
    BY DEF VmInv, Clean, PagingTransparent
  <2>2. ASSUME kpc = At("user"), NEW p \in Pages, NEW t \in Types, Hit(mmu, p, t)
        PROVE  translate(p, t) = HitFrame(mmu, p)
    <3>1. kpc[1] = "user" /\ kpc # At("aborted")
      BY <2>2, Places
    <3>2. HartOK
      BY <3>1 DEF VmInv
    <3>3. Walkable /\ prv = "U" /\ MmuOK(mmu) /\ p \in Nat
      BY <3>1, <3>2, Walks, PageNumbers DEF HartOK, ControlOK
    <3>4. Maps(p, HitFrame(mmu, p)) /\ Allowed(p, t)
      BY <2>2, <3>3, HitSound
    <3>5. translate(p, t) = Pte(p).ppn
      BY <3>3, <3>4, PageTranslation DEF Walkable
    <3>6. Maps(p, Pte(p).ppn)
      BY <3>4 DEF Maps, Allowed
    <3> QED
      BY <3>3, <3>4, <3>5, <3>6, MapsOnce DEF Walkable, Modes
  <2> QED
    BY <2>1, <2>2 DEF PagingExact, TlbMatchesWalk
<1> QED
  BY <1>1, VmInvariant, PTL

\* No fast path of the TLB or of the instruction cache hides an access from a
\* data trigger or from a tracer (mmu.h).
THEOREM AccessesAreWatched == Spec => []AccessesWatched
<1>1. VmInv => AccessesWatched
  BY DEF VmInv, Clean, AccessesWatched, DataTriggersFire, AccessesTraced
<1> QED
  BY <1>1, VmInvariant, PTL
==============================================================================
