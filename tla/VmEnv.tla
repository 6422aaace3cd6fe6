------------------------------- MODULE VmEnv --------------------------------
(***************************************************************************)
(* The virtual-memory test environment (riscv-tests/env/v/vm.c) on the     *)
(* simulator's MMU: user pages are mapped on demand from a free list, with *)
(* the accessed and dirty bits kept by faults; a test runs in user mode,   *)
(* the handler in supervisor mode, and a debugger may set an address       *)
(* trigger between instructions.                                           *)
(*                                                                         *)
(* Frames: DRAM is the kernel's own page, DRAM + p the page p of the test  *)
(* image (through the kernel's superpage), the frames from DRAM +          *)
(* MAX_TEST_PAGES + 1 up those of the free list.  The cause of an          *)
(* exception the tests do not provoke (illegal instruction) is left out.   *)
(***************************************************************************)
EXTENDS SpikeMmu

CONSTANTS
    MAX_TEST_PAGES,
    DRAM,           \* DRAM_BASE as a frame, aligned to a superpage
    Triggers,       \* what the debugger may set
    Machines        \* [xlen, tracer]: the access types traced

ASSUME VmAssumption ==
    /\ MAX_TEST_PAGES \in 2..Entries
    /\ DRAM \in Nat \ {0} /\ DRAM % Entries = 0
    /\ \A t \in Triggers : t.modes = {"U"}     \* the handler's accesses are not stopped
    /\ \A m \in Machines : m.xlen \in {32, 64} /\ m.tracer \subseteq Types

VARIABLES
    pending,        \* the user's instruction in progress
    kpc, tf,        \* the handler: next statement, trap frame
    user_mapping,   \* [page -> the frame of its node, 0 if none]
    node,           \* the free-list nodes: [addr, next]
    freelist_head, freelist_tail,
    expected,       \* what the test stored last in each page
    failed,         \* an assert() failed or the handler itself faulted
    wrong,          \* a load returned something else than expected
    missed,         \* access types for which a matching trigger did not fire
    untraced        \* an access of interest was not traced

kernelVars == <<kpc, tf, user_mapping, node, freelist_head, freelist_tail>>
ghostVars == <<expected, failed, wrong, missed, untraced>>
vars == <<hartVars, pt, mem, mmu, mcontrol, tracer, pending, kernelVars, ghostVars>>

Pages == 1..(MAX_TEST_PAGES - 1)
None == [type |-> "none", vpn |-> 0, val |-> 0]
NoTrigger == [types |-> {}, modes |-> {"U"}, select |-> FALSE, tdata2 |-> 0, after |-> FALSE]

\* The handler's place: a statement and, in the eviction loop, its page.
At(statement) == <<statement, 0>>

(* Free-list nodes 1..MAX_TEST_PAGES; the node in user_mapping[p] is -p. *)
Null == 0
Nodes == (1..MAX_TEST_PAGES) \cup {-p : p \in Pages}
FreeFrame(i) == DRAM + MAX_TEST_PAGES + i

(* user_l3pt is the last-level table: pt[1] in 32-bit mode, pt[3] in 64. *)
UserTable == IF xlen = 32 THEN 1 ELSE 3
Pte(p) == pt[UserTable][p]
\* pa2kva, uva2kva: the kernel's superpage is the uppermost one.
Kva(p) == (IF xlen = 32 THEN Span(2) ELSE 2 * Span(3)) - Entries + p

Table(t) == [NoPte EXCEPT !.v = TRUE, !.ppn = TableFrame(t)]
Kernel == [NoPte EXCEPT !.v = TRUE, !.r = TRUE, !.w = TRUE, !.x = TRUE,
                        !.a = TRUE, !.d = TRUE, !.ppn = DRAM]
NoTable == [i \in 0..(Entries - 1) |-> NoPte]
Last == Entries - 1

(* vm_boot, up to the first instruction of the test. *)
vm_boot(x) ==
    /\ pt = IF x = 32
              THEN [t \in 0..1 |-> IF t = 0 THEN [NoTable EXCEPT ![0] = Table(1), ![Last] = Kernel]
                                   ELSE NoTable]
              ELSE [t \in 0..3 |-> CASE t = 0 -> [NoTable EXCEPT ![0] = Table(1), ![Last] = Table(2)]
                                     [] t = 1 -> [NoTable EXCEPT ![0] = Table(3)]
                                     [] t = 2 -> [NoTable EXCEPT ![Last] = Kernel]
                                     [] t = 3 -> NoTable]
    /\ node = [k \in Nodes |->
                 IF k > 0 THEN [addr |-> FreeFrame(k),
                                next |-> IF k = MAX_TEST_PAGES THEN Null ELSE k + 1]
                 ELSE [addr |-> 0, next |-> Null]]
    /\ freelist_head = 1 /\ freelist_tail = MAX_TEST_PAGES
    /\ user_mapping = [p \in Pages |-> 0]

EmptyMmu == [load |-> NoTags, store |-> NoTags, insn |-> NoTags,
             data |-> [i \in 0..(TLB_ENTRIES - 1) |-> 0], icache |-> NoEntries,
             matched |-> FALSE]

Init ==
    /\ \E m \in Machines :
         xlen = m.xlen /\ tracer = m.tracer     \* register_memtracer, before the first step
    /\ vm_boot(xlen)
    /\ prv = "U" /\ debugCause = FALSE
    /\ mstatus = [mprv |-> FALSE, mpp |-> "U", sum |-> FALSE, mxr |-> FALSE]
    \* image pages 0, free frames 2 (whatever was there)
    /\ mem = [f \in DRAM..FreeFrame(MAX_TEST_PAGES) |-> IF f < FreeFrame(0) THEN 0 ELSE 2]
    /\ mmu = EmptyMmu
    /\ mcontrol = NoTrigger
    /\ pending = None
    /\ kpc = At("user") /\ tf = [cause |-> "none", vpn |-> 0]
    /\ expected = [p \in Pages |-> 0]
    /\ failed = FALSE /\ wrong = FALSE /\ missed = {} /\ untraced = FALSE

----------------------------------------------------------------------------
(* The test. *)

Issue ==
    /\ kpc = At("user") /\ pending = None
    /\ \E p \in Pages : \/ \E t \in {"LOAD", "FETCH"} : pending' = [type |-> t, vpn |-> p, val |-> 0]
                        \/ \E v \in {0, 1} : pending' = [type |-> "STORE", vpn |-> p, val |-> v]
                        \/ pending' = [type |-> "AMO", vpn |-> p, val |-> 1]
    /\ UNCHANGED <<hartVars, pt, mem, mmu, mcontrol, tracer, kernelVars, ghostVars>>

(* The outcome of the instruction: amo_func is a load and a store, whose   *)
(* faults are all reported as those of a store.                            *)
Attempt(m) ==
    CASE pending.type = "LOAD"  -> Load(m, pending.vpn)
      [] pending.type = "STORE" -> Store(m, pending.vpn, pending.val)
      [] pending.type = "FETCH" -> access_icache(m, pending.vpn)
      [] OTHER -> LET lhs == Load(m, pending.vpn)
                      rhs == Store(lhs.mmu, pending.vpn, pending.val)
                  IN  IF lhs.frame < 0 \/ lhs.fired THEN lhs
                      ELSE [rhs EXCEPT !.traced = @ \cup lhs.traced]
FaultCause == IF pending.type = "AMO" THEN "STORE" ELSE pending.type
Writes == pending.type \in {"STORE", "AMO"}
Reads == pending.type \in {"LOAD", "AMO"}
Touches == CASE pending.type = "AMO" -> {"LOAD", "STORE"} [] OTHER -> {pending.type}

(* take_trap, delegated to supervisor mode. *)
TakeTrap(cause, vpn) ==
    /\ set_privilege("S")
    /\ kpc' = At("handle_trap") /\ tf' = [cause |-> cause, vpn |-> vpn]

UserFault(out) ==
    /\ out.frame < 0
    /\ TakeTrap(FaultCause, pending.vpn)
    /\ UNCHANGED <<xlen, mstatus, debugCause, pt, mem, mcontrol, tracer, pending,
                   user_mapping, node, freelist_head, freelist_tail, ghostVars>>

(* The access takes effect. *)
Complete(out, m) ==
    /\ mem' = IF Writes THEN [mem EXCEPT ![out.frame] = pending.val] ELSE mem
    /\ expected' = IF Writes THEN [expected EXCEPT ![pending.vpn] = pending.val] ELSE expected
    /\ wrong' = (wrong \/ (Reads /\ mem[out.frame] # expected[pending.vpn]))
    /\ untraced' = (untraced \/ ~(Touches \cap tracer \subseteq out.traced))
    /\ mmu' = m
    /\ pending' = None
    /\ UNCHANGED <<hartVars, pt, tracer, kernelVars, failed>>

MatchedTypes(out) ==
    {t \in Touches : trigger_match(t, pending.vpn,
                        IF t = "STORE" THEN pending.val ELSE mem[out.frame])}

UserAccess(out) ==
    /\ out.frame >= 0 /\ ~out.fired
    /\ Complete(out, out.mmu)
    /\ missed' = missed \cup MatchedTypes(out)
    /\ UNCHANGED mcontrol

(* The instruction executed again inside the catch clause: a trap it takes *)
(* there leaves step() uncaught, and the simulator aborts.                 *)
Restart(again) ==
    IF again.frame >= 0
      THEN Complete(again, flush_tlb([again.mmu EXCEPT !.matched = FALSE]))
      ELSE /\ kpc' = At("aborted")
           /\ UNCHANGED <<hartVars, pt, mem, mmu, tracer, pending, tf, user_mapping, node,
                          freelist_head, freelist_tail, expected, failed, wrong, untraced>>

(* trigger_matched_t is caught: with timing "after" the instruction is     *)
(* executed again, with matched_trigger set; then debug mode is entered,   *)
(* where the debugger removes the trigger and resumes.                     *)
TriggerFires(out) ==
    /\ out.frame >= 0 /\ out.fired
    /\ mcontrol' = NoTrigger
    /\ IF mcontrol.after /\ pending.type # "FETCH"
         THEN Restart(Attempt([out.mmu EXCEPT !.matched = TRUE]))
         ELSE /\ mmu' = flush_tlb(out.mmu)
              /\ UNCHANGED <<hartVars, pt, mem, tracer, pending, kernelVars, expected,
                             failed, wrong, untraced>>
    /\ UNCHANGED missed

Execute ==
    /\ kpc = At("user") /\ pending # None
    /\ \E out \in {Attempt(mmu)} : UserFault(out) \/ UserAccess(out) \/ TriggerFires(out)

(* The debugger halts the hart, writes tdata1 and tdata2 and resumes it:   *)
(* trigger_updated and both changes of privilege flush the TLB.            *)
SetTrigger ==
    /\ kpc = At("user") /\ pending = None
    /\ \E t \in Triggers : mcontrol' = t
    /\ mmu' = flush_tlb(mmu)
    /\ UNCHANGED <<hartVars, pt, mem, tracer, pending, kernelVars, ghostVars>>

(* RVTEST_PASS: scall. *)
Ecall ==
    /\ kpc = At("user") /\ pending = None
    /\ TakeTrap("USER_ECALL", 0)
    /\ UNCHANGED <<xlen, mstatus, debugCause, pt, mem, mcontrol, tracer, pending,
                   user_mapping, node, freelist_head, freelist_tail, ghostVars>>

----------------------------------------------------------------------------
(* The handler, a statement at a time.                                     *)

KernelOnly == UNCHANGED <<xlen, prv, debugCause, mcontrol, tracer, pending, tf,
                          expected, wrong, missed, untraced>>
ListSame == UNCHANGED <<user_mapping, node, freelist_head, freelist_tail>>
Assert(cond) == failed' = (failed \/ ~cond)
\* A write to a page table or to the kernel's data.
Touch(m) == Store(m, Kva(0), 0).mmu
SetPte(p, pte) == pt' = [pt EXCEPT ![UserTable][p] = pte]

handle_trap ==
    /\ kpc = At("handle_trap")
    /\ kpc' = IF tf.cause = "USER_ECALL" THEN <<"evict", 1>> ELSE At("handle_fault")
    /\ KernelOnly /\ ListSame /\ UNCHANGED <<mstatus, pt, mem, mmu, failed>>

\* (Only the accessed bit is kept.)
MarkAccessed ==
    /\ kpc = At("handle_fault") /\ Pte(tf.vpn) # NoPte
    /\ SetPte(tf.vpn, [Pte(tf.vpn) EXCEPT !.a = TRUE])
    /\ mmu' = Touch(mmu)
    /\ kpc' = At("flush_and_return")
    /\ KernelOnly /\ ListSame /\ UNCHANGED <<mstatus, mem, failed>>
(* The page is mapped: its A or D bit is what was missing. *)
MarkPage ==
    /\ kpc = At("handle_fault") /\ Pte(tf.vpn) # NoPte
    /\ IF ~Pte(tf.vpn).a
         THEN SetPte(tf.vpn, [Pte(tf.vpn) EXCEPT !.a = TRUE]) /\ UNCHANGED failed
         ELSE /\ Assert(~Pte(tf.vpn).d /\ tf.cause = "STORE")
              /\ SetPte(tf.vpn, [Pte(tf.vpn) EXCEPT !.d = TRUE])
    /\ mmu' = Touch(mmu)
    /\ kpc' = At("flush_and_return")
    /\ KernelOnly /\ ListSame /\ UNCHANGED <<mstatus, mem>>

\* new_pte, with A and D or without
UserPte(a, d, frame) == [v |-> TRUE, r |-> TRUE, w |-> TRUE, x |-> TRUE, u |-> TRUE,
                         a |-> a, d |-> d, ppn |-> frame]
(* It is not: take a frame, mapped with A and D for the copy. *)
MapPage ==
    /\ kpc = At("handle_fault") /\ Pte(tf.vpn) = NoPte
    /\ IF freelist_head = Null
         THEN /\ failed' = TRUE /\ kpc' = At("terminate")    \* assert(node)
              /\ ListSame /\ UNCHANGED <<pt, mmu>>
         ELSE /\ freelist_head' = node[freelist_head].next
              /\ freelist_tail' = IF freelist_head' = freelist_tail THEN Null ELSE freelist_tail
              /\ SetPte(tf.vpn, UserPte(TRUE, TRUE, node[freelist_head].addr))
              /\ mmu' = flush_tlb(Touch(mmu))               \* flush_page: sfence.vma
              /\ Assert(user_mapping[tf.vpn] = 0)
              /\ user_mapping' = [user_mapping EXCEPT ![tf.vpn] = node[freelist_head].addr]
              /\ node' = [node EXCEPT ![-tf.vpn] = node[freelist_head]]
              /\ kpc' = At("copy_in")
    /\ KernelOnly /\ UNCHANGED <<mstatus, mem>>

(* set_csr(sstatus, SSTATUS_SUM) and write_csr(sstatus): set_csr(MSTATUS)  *)
(* flushes the TLB when SUM changes.                                       *)
SetSum(on, m) ==
    /\ mstatus' = [mstatus EXCEPT !.sum = on]
    /\ mmu' = IF mstatus.sum # on THEN flush_tlb(m) ELSE m

SumOn(from, to) ==
    /\ kpc = from /\ ~mstatus.sum
    /\ SetSum(TRUE, mmu)
    /\ kpc' = to
    /\ KernelOnly /\ ListSame /\ UNCHANGED <<pt, mem, failed>>
SumOff(from, to) ==
    /\ kpc = from /\ mstatus.sum
    /\ SetSum(FALSE, mmu)
    /\ kpc' = to
    /\ KernelOnly /\ ListSame /\ UNCHANGED <<pt, mem, failed>>

(* memcpy(addr, uva2kva(addr), PGSIZE), through the MMU. *)
CopyHome(p, from, to) ==
    /\ kpc = from /\ mstatus.sum
    /\ \E src \in {Load(mmu, Kva(p))} : \E dst \in {Store(src.mmu, p, mem[src.frame])} :
         /\ Assert(src.frame >= 0 /\ dst.frame >= 0)
         /\ mem' = IF dst.frame >= 0 THEN [mem EXCEPT ![dst.frame] = mem[src.frame]] ELSE mem
         /\ mmu' = dst.mmu
    /\ kpc' = to
    /\ KernelOnly /\ ListSame /\ UNCHANGED <<mstatus, pt>>

(* user_l3pt[addr/PGSIZE] = new_pte, without A and D. *)
UnmarkPage ==
    /\ kpc = At("unmark")
    /\ SetPte(tf.vpn, UserPte(FALSE, FALSE, Pte(tf.vpn).ppn))
    /\ mmu' = Touch(mmu)
    /\ kpc' = At("flush_and_return")
    /\ KernelOnly /\ ListSame /\ UNCHANGED <<mstatus, mem, failed>>

(* flush_page and, after a copy, fence.i; then pop_tf: sret. *)
FlushAndReturn ==
    /\ kpc = At("flush_and_return")
    /\ kpc' = At("user")
    /\ set_privilege("U")
    /\ UNCHANGED <<xlen, mstatus, debugCause, pt, mem, mcontrol, tracer, pending, tf,
                   user_mapping, node, freelist_head, freelist_tail, ghostVars>>

(* evict(i*PGSIZE): a page that was mapped must have been accessed, and    *)
(* be dirty if it differs from the image, which is then copied into it.    *)
AfterEvict(p) == IF p = MAX_TEST_PAGES - 1 THEN At("terminate") ELSE <<"evict", p + 1>>
Compare(p) ==
    /\ kpc = <<"compare", p>>
    /\ \E user \in {Load(mmu, p)} : \E home \in {Load(user.mmu, Kva(p))} :
         LET same == user.frame >= 0 /\ mem[user.frame] = mem[home.frame]
         IN  /\ mmu' = home.mmu
             /\ Assert(user.frame >= 0 /\ (same \/ Pte(p).d))
             /\ kpc' = IF same THEN <<"free", p>> ELSE <<"restore", p>>
    /\ KernelOnly /\ ListSame /\ UNCHANGED <<mstatus, pt, mem>>
EvictNothing(p) ==
    /\ kpc = <<"evict", p>> /\ user_mapping[p] = 0
    /\ kpc' = AfterEvict(p)
    /\ KernelOnly /\ ListSame /\ UNCHANGED <<mstatus, pt, mem, mmu, failed>>
EvictMapped(p) ==
    /\ kpc = <<"evict", p>> /\ user_mapping[p] # 0
    /\ Assert(Pte(p).a)
    /\ SetSum(TRUE, mmu)
    /\ kpc' = <<"compare", p>>
    /\ KernelOnly /\ ListSame /\ UNCHANGED <<pt, mem>>
FreePage(p) ==
    /\ kpc = <<"free", p>>
    /\ SetSum(FALSE, mmu)
    /\ user_mapping' = [user_mapping EXCEPT ![p] = 0]
    /\ freelist_tail' = -p
    /\ IF freelist_tail = Null
         THEN freelist_head' = -p /\ node' = [node EXCEPT ![-p].addr = 0]
         ELSE /\ node' = [node EXCEPT ![-p].addr = 0, ![freelist_tail].next = -p]
              /\ UNCHANGED freelist_head
    /\ kpc' = AfterEvict(p)
    /\ KernelOnly /\ UNCHANGED <<pt, mem, failed>>

Terminated == kpc \in {At("terminate"), At("aborted")} /\ UNCHANGED vars

evict(p) == EvictNothing(p) \/ EvictMapped(p) \/ Compare(p)
            \/ CopyHome(p, <<"restore", p>>, <<"free", p>>) \/ FreePage(p)
handle_fault ==
    \/ MarkPage \/ MapPage \/ SumOn(At("copy_in"), At("copy"))
    \/ CopyHome(tf.vpn, At("copy"), At("sum_off")) \/ SumOff(At("sum_off"), At("unmark"))
    \/ UnmarkPage \/ FlushAndReturn

Hart == Execute \/ handle_trap \/ handle_fault
        \/ \E p \in Pages : evict(p)

Next == Issue \/ Ecall \/ SetTrigger \/ Hart \/ Terminated

\* The simulator keeps stepping the hart.
Spec == Init /\ [][Next]_vars /\ WF_vars(Hart)

----------------------------------------------------------------------------
(* In user mode whatever the TLB or the instruction cache would answer is  *)
(* what the tables say now: every valid tag of each kind stands for a      *)
(* translation that walk() would grant, to the frame in the shared data.   *)
TlbMatchesWalk ==
    kpc = At("user") => \A p \in Pages : \A t \in Types :
        Hit(mmu, p, t) => translate(p, t) = HitFrame(mmu, p)

(* The asserts of vm.c never fail, the handler never faults, and a load    *)
(* returns what the test stored last in the page, or the page's image.     *)
PagingTransparent == ~failed /\ ~wrong

(* What is translated is what the tables say, and what the test sees is as *)
(* if all its pages were there from the start (mmu.cc, vm.c).              *)
PagingExact == TlbMatchesWalk /\ PagingTransparent

(* A load or store that a trigger matches never completes without it.      *)
DataTriggersFire == missed \cap {"LOAD", "STORE"} = {}

(* Every access of a kind a tracer is interested in reaches the tracer:    *)
(* no TLB or cache entry lets it by.                                       *)
AccessesTraced == ~untraced

(* No fast path of the TLB or of the instruction cache hides an access     *)
(* from a data trigger or from a tracer (mmu.h).                           *)
AccessesWatched == DataTriggersFire /\ AccessesTraced

(* Faults for the mapping, the accessed and the dirty bit, and a trigger,  *)
(* come to an end: every instruction of the test completes, or the         *)
(* simulator has aborted.                                                  *)
AccessCompletes == pending # None ~> (pending = None \/ kpc = At("aborted"))
====
