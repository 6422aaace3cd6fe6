----------------------------- MODULE TinyMalloc -----------------------------
(***************************************************************************)
(* The allocator of the debug test programs (debug/programs/tiny-malloc.c, *)
(* heap growing upwards).  A block is its header, one size_t with its      *)
(* size, and what follows; a free block links to the next in its second    *)
(* word.  The free list is kept in order of addresses; here it is the      *)
(* sequence of its blocks.                                                 *)
(***************************************************************************)
EXTENDS Integers, Sequences, FiniteSets, FiniteSetsExt

CONSTANTS
    SizeT,          \* sizeof (size_t)
    Sizes,          \* what the program asks for
    Aligns,         \* alignments it asks for
    Limits,         \* where the stack may be: MALLOC_LIMIT - MALLOC_MINIMUM_GAP
    MaxRestarts     \* bound: restarts of the program

\* memalign returns NULL unless the alignment is a power of two, as sizeof (size_t)
\* is: one of them divides the other.
ASSUME MallocAssumption ==
    /\ SizeT \in Nat \ {0} /\ Sizes \subseteq Nat /\ Limits \subseteq Int
    /\ Aligns \subseteq Nat \ {0}
    /\ \A a \in Aligns : a % SizeT = 0 \/ SizeT % a = 0

VARIABLES
    malloc_end, freelist,       \* __malloc_end and __malloc_freelist
    used,           \* history: blocks given out, [at, size, asked, align]
    lost,           \* history: bytes given up by a restart
    restarts

mallocVars == <<malloc_end, freelist, used, lost, restarts>>

Entry == 2 * SizeT          \* sizeof (struct freelist_entry)
M_ALIGN(x, a) == (a - (x % a)) % a
REAL_SIZE(sz) == IF sz < Entry - SizeT THEN Entry ELSE sz + SizeT + M_ALIGN(sz, SizeT)
Blk(at, size) == [at |-> at, size |-> size]
EndOf(b) == b.at + b.size
Replaced(s, i, bs) == SubSeq(s, 1, i - 1) \o bs \o SubSeq(s, i + 1, Len(s))
CAN_ALLOC_P(required, limit) == limit - malloc_end >= required

\* What a call leaves behind: the free list, the end and the block, if any.
Outcome(fl, end, b) == [fl |-> fl, end |-> end, blk |-> b]
NULL == Blk(-1, 0)
Fails == Outcome(freelist, malloc_end, NULL)
LastAtEnd(fl, end) == fl # <<>> /\ EndOf(fl[Len(fl)]) = end
First(fl, Fits(_)) == CHOOSE i \in DOMAIN fl : Fits(fl[i]) /\ \A j \in 1 .. i - 1 : ~Fits(fl[j])

----------------------------------------------------------------------------
\* Mutant: a rest too small for a free block becomes one.
SplitAlways(fl, i, real) ==
    IF fl[i].size = real THEN [fl |-> Replaced(fl, i, <<>>), blk |-> fl[i]]
    ELSE [fl |-> Replaced(fl, i, <<Blk(fl[i].at + real, fl[i].size - real)>>), blk |-> Blk(fl[i].at, real)]
\* The first block that is large enough, whole or its beginning.
Split(fl, i, real) ==
    IF fl[i].size < real + Entry THEN [fl |-> Replaced(fl, i, <<>>), blk |-> fl[i]]
    ELSE [fl |-> Replaced(fl, i, <<Blk(fl[i].at + real, fl[i].size - real)>>), blk |-> Blk(fl[i].at, real)]
malloc(sz, limit) ==
    LET real == REAL_SIZE(sz)
        fits(b) == b.size >= real
        k == Len(freelist) IN
    IF \E i \in DOMAIN freelist : fits(freelist[i])
    THEN LET s == Split(freelist, First(freelist, fits), real) IN Outcome(s.fl, malloc_end, s.blk)
    ELSE IF LastAtEnd(freelist, malloc_end)     \* enlarge the last one
    THEN IF ~CAN_ALLOC_P(real - freelist[k].size, limit) THEN Fails
         ELSE Outcome(SubSeq(freelist, 1, k - 1), freelist[k].at + real, Blk(freelist[k].at, real))
    ELSE IF ~CAN_ALLOC_P(real, limit) THEN Fails
    ELSE Outcome(freelist, malloc_end + real, Blk(malloc_end, real))

\* free: joined to the block before it, and that to the one after; or to the
\* one after; or put in its place.
Merged(fl, b) ==
    LET before == {i \in DOMAIN fl : EndOf(fl[i]) = b.at}
        after == {i \in DOMAIN fl : fl[i].at = EndOf(b)}
        place == Cardinality({i \in DOMAIN fl : fl[i].at < b.at}) IN
    IF before # {}
    THEN LET i == CHOOSE i \in before : TRUE IN
         IF i < Len(fl) /\ fl[i + 1].at = EndOf(b)
         THEN SubSeq(fl, 1, i - 1) \o <<Blk(fl[i].at, fl[i].size + b.size + fl[i + 1].size)>>
                  \o SubSeq(fl, i + 2, Len(fl))
         ELSE Replaced(fl, i, <<Blk(fl[i].at, fl[i].size + b.size)>>)
    ELSE IF after # {} THEN LET i == CHOOSE i \in after : TRUE IN Replaced(fl, i, <<Blk(b.at, b.size + fl[i].size)>>)
    ELSE SubSeq(fl, 1, place) \o <<Blk(b.at, b.size)>> \o SubSeq(fl, place + 1, Len(fl))

----------------------------------------------------------------------------
(* memalign. *)

BeforeSize(at, a) ==
    IF M_ALIGN(at + SizeT, a) = 0 THEN 0 ELSE Entry + M_ALIGN(at + Entry + SizeT, a)
\* A block of the list that is large enough, behind what must precede it.
TakeAligned(fl, end, i, real, a) ==
    LET before == BeforeSize(fl[i].at, a)
        old == fl[i].size
        at == fl[i].at + before
        front == IF before = 0 THEN <<>> ELSE <<Blk(fl[i].at, before)>>
        rest == old - before - real IN
    IF rest <= Entry
    THEN Outcome(Replaced(fl, i, front), end, Blk(at, old - before))
    ELSE Outcome(Replaced(fl, i, front \o <<Blk(at + real, rest)>>), end, Blk(at, real))
\* At the last block, which ends the heap: enlarged if it is too small.
AtLast(fl, end, real, a, limit) ==
    LET k == Len(fl)
        need == BeforeSize(fl[k].at, a) + real IN
    IF fl[k].size >= need THEN TakeAligned(fl, end, k, real, a)
    ELSE IF limit - end < need - fl[k].size THEN Outcome(fl, end, NULL)
    ELSE TakeAligned(Replaced(fl, k, <<Blk(fl[k].at, need)>>), fl[k].at + need, k, real, a)
memalign(a, sz, limit) ==
    LET real == REAL_SIZE(sz)
        fits(b) == b.size >= real + BeforeSize(b.at, a)
        more == real + M_ALIGN(malloc_end + SizeT, a) IN
    IF \E i \in DOMAIN freelist : fits(freelist[i])
    THEN TakeAligned(freelist, malloc_end, First(freelist, fits), real, a)
    ELSE IF LastAtEnd(freelist, malloc_end) THEN AtLast(freelist, malloc_end, real, a, limit)
    ELSE IF ~CAN_ALLOC_P(more, limit) THEN Fails
    ELSE AtLast(Append(freelist, Blk(malloc_end, more)), malloc_end + more, real, a, limit)

----------------------------------------------------------------------------
\* What mallinfo counts along the list, and malloc_usable_size.
SizeOf(b) == b.size
FreeBlocks == {freelist[i] : i \in DOMAIN freelist}
mallinfo ==
    LET free == MapThenSumSet(SizeOf, FreeBlocks) IN
    [arena |-> malloc_end, fordblks |-> free, uordblks |-> malloc_end - free, ordblks |-> Len(freelist),
     keepcost |-> IF LastAtEnd(freelist, malloc_end) THEN freelist[Len(freelist)].size ELSE 0]
malloc_usable_size(b) == b.size - SizeT

Given(b, sz, a) == [at |-> b.at, size |-> b.size, asked |-> sz, align |-> a]
Becomes(o, blocks) ==
    /\ freelist' = o.fl /\ malloc_end' = o.end /\ used' = blocks
    /\ UNCHANGED <<lost, restarts>>
\* malloc and calloc, which clears what malloc returned.
Malloc(sz, limit) ==
    \E o \in {malloc(sz, limit)} : Becomes(o, IF o.blk = NULL THEN used ELSE used \cup {Given(o.blk, sz, SizeT)})
\* memalign, valloc and pvalloc.
Memalign(a, sz, limit) ==
    \E o \in {memalign(a, sz, limit)} : Becomes(o, IF o.blk = NULL THEN used ELSE used \cup {Given(o.blk, sz, a)})
Free(b) == Becomes(Outcome(Merged(freelist, b), malloc_end, NULL), used \ {b})
\* realloc: allocates, copies and frees; or gives back the end.
ReallocGrows(b, sz, limit) ==
    /\ b.size < REAL_SIZE(sz)
    /\ \E o \in {malloc(sz, limit)} :
          IF o.blk = NULL THEN Becomes(o, used)
          ELSE Becomes([o EXCEPT !.fl = Merged(o.fl, b)], (used \ {b}) \cup {Given(o.blk, sz, SizeT)})
ReallocShrinks(b, sz) ==
    /\ b.size >= REAL_SIZE(sz)
    /\ \E real \in {REAL_SIZE(sz)} :
          IF b.size - real < Entry
          THEN Becomes(Fails, (used \ {b}) \cup {[b EXCEPT !.asked = sz]})
          ELSE Becomes(Outcome(Merged(freelist, Blk(b.at + real, b.size - real)), malloc_end, NULL),
                       (used \ {b}) \cup {[b EXCEPT !.size = real, !.asked = sz]})
\* The debugger starts main() again: it empties the list, and the heap goes on
\* from where it was.
Restart ==
    /\ restarts < MaxRestarts /\ restarts' = restarts + 1
    /\ freelist' = <<>> /\ used' = {}
    /\ lost' = lost \cup 0 .. malloc_end - 1
    /\ UNCHANGED malloc_end

MallocInit == malloc_end = 0 /\ freelist = <<>> /\ used = {} /\ lost = {} /\ restarts = 0
MallocStep ==
    \/ \E limit \in Limits :
          /\ limit >= malloc_end
          /\ \E sz \in Sizes :
                \/ Malloc(sz, limit)
                \/ \E a \in Aligns : Memalign(a, sz, limit)
                \/ \E b \in used : ReallocGrows(b, sz, limit)
    \/ \E b \in used : Free(b) \/ \E sz \in Sizes : ReallocShrinks(b, sz)
    \/ Restart

----------------------------------------------------------------------------
BytesOf(b) == b.at .. EndOf(b) - 1
\* Whatever is asked for, given back, resized and restarted, in any order:
\* blocks never overlap, no byte of the heap is lost, what is given out is
\* as large and as aligned as asked for, every block can become a free one,
\* the list stays in order, with neighbours joined, and the statistics of
\* mallinfo are those of the blocks given out.
HeapSound ==
    /\ \A b, c \in used \cup FreeBlocks : b # c => BytesOf(b) \cap BytesOf(c) = {}
    /\ (UNION {BytesOf(b) : b \in used \cup FreeBlocks}) \cup lost = 0 .. malloc_end - 1
    /\ \A b \in used : malloc_usable_size(b) >= b.asked /\ (b.at + SizeT) % b.align = 0
    /\ \A b \in used \cup FreeBlocks : b.size >= Entry /\ b.at % SizeT = 0
    /\ \A i \in 1 .. Len(freelist) - 1 : EndOf(freelist[i]) < freelist[i + 1].at
    /\ mallinfo.uordblks = MapThenSumSet(SizeOf, used) + Cardinality(lost)
    /\ mallinfo.keepcost + mallinfo.uordblks <= mallinfo.arena
====
