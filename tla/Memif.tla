------------------------------- MODULE Memif --------------------------------
(***************************************************************************)
(* memif.cc: byte-wise access to target memory through a host interface    *)
(* that only moves aligned chunks; and elfloader.cc, its first user, which *)
(* writes the segments of a program.                                       *)
(*                                                                         *)
(* An access is a sequence of pieces, one chunk each: chunk first .. first *)
(* + size - 1 of memory, of which n bytes from offset o are bytes p .. p + *)
(* n - 1 of the caller's buffer.  kind is what happens to the chunk.       *)
(***************************************************************************)
EXTENDS Integers, Sequences, FiniteSets

CONSTANTS
    align, max_chunk,   \* chunk_align() and chunk_max_size()
    Bytes,              \* bytes of target memory
    Segments            \* programs: sequences of [paddr, filesz, memsz]

\* Chunks are whole words, and programs lie in memory; ELF requires memsz to
\* be no less than filesz.
ASSUME MemifAssumption ==
    /\ align \in Nat \ {0} /\ max_chunk \in Nat \ {0} /\ max_chunk % align = 0
    /\ Bytes \in Nat
    /\ Segments \subseteq Seq([paddr : Nat, filesz : Nat, memsz : Nat])
    /\ \A s \in Segments : \A i \in DOMAIN s :
          s[i].filesz <= s[i].memsz /\ s[i].paddr + s[i].memsz <= Bytes

VARIABLES
    bytes,          \* target memory
    access,         \* the access: [op, addr, len, data], or a program's next segment
    pieces,         \* of it, still to come
    buf,            \* the caller's buffer of a read
    before,         \* memory when the access, or the program's loading, began
    segs, seg       \* the program to load, if any, and the segment under way

memifVars == <<bytes, access, pieces, buf, before, segs, seg>>

Piece(kind, first, size, o, p, n) ==
    [kind |-> kind, first |-> first, size |-> size, o |-> o, p |-> p, n |-> n]
Least(a, b) == IF a < b THEN a ELSE b

\* The unaligned beginning, the ragged end, then the chunks between.
HeadLen(addr, len) == IF addr % align = 0 THEN 0 ELSE Least(len, align - (addr % align))
Head1(kind, addr, len) ==
    IF HeadLen(addr, len) = 0 THEN <<>>
    ELSE <<Piece(kind, addr - (addr % align), align, addr % align, 0, HeadLen(addr, len))>>
\* Mutant: the chunk of the ragged end is found from the unaligned address.
TailMisplaced(kind, addr, len, done) ==
    IF len % align = 0 THEN <<>>
    ELSE <<Piece(kind, (addr - done) + (len - (len % align)), align, 0, done + len - (len % align), len % align)>>
TailPiece(kind, addr, len, done) ==
    IF len % align = 0 THEN <<>>
    ELSE <<Piece(kind, addr + (len - (len % align)), align, 0, done + len - (len % align), len % align)>>
Body(kind, addr, len, done) ==
    [k \in 1 .. ((len + max_chunk - 1) \div max_chunk) |->
        Piece(kind, addr + ((k - 1) * max_chunk), Least(max_chunk, len - ((k - 1) * max_chunk)), 0,
              done + ((k - 1) * max_chunk), Least(max_chunk, len - ((k - 1) * max_chunk)))]
AfterHead(edge, kind, addr, len, h) ==
    TailPiece(edge, addr + h, len - h, h)
    \o Body(kind, addr + h, (len - h) - ((len - h) % align), h)
read(addr, len) == Head1("read", addr, len) \o AfterHead("read", "read", addr, len, HeadLen(addr, len))
\* An edge of a write reads the chunk, changes it and writes it back; a body
\* of zeros is cleared.
AllZero(data, h, len) == \A i \in h + 1 .. h + (len - (len % align)) : data[i] = 0
write(addr, len, data) ==
    LET h == HeadLen(addr, len)
        body == len - h - ((len - h) % align) IN
    Head1("modify", addr, len)
    \o AfterHead("modify", IF body # 0 /\ AllZero(data, h, len - h) THEN "clear" ELSE "write", addr, len, h)

----------------------------------------------------------------------------
Fill == [i \in 1 .. Bytes |-> 50 + i]
Zeros == [i \in 1 .. Bytes |-> 0]
HalfZeros == [i \in 1 .. Bytes |-> IF i < align THEN 50 + i ELSE 0]
NoAccess == [op |-> "none", addr |-> 0, len |-> 0, data |-> Zeros]

Accesses ==
    {[op |-> o, addr |-> a, len |-> l, data |-> d] :
        o \in {"read", "write"}, a \in 0 .. Bytes - 1, l \in 0 .. Bytes, d \in {Fill, Zeros, HalfZeros}}
PiecesOf(x) ==
    IF x.op = "read" THEN read(x.addr, x.len) ELSE write(x.addr, x.len, x.data)
Start(x) == access' = x /\ pieces' = PiecesOf(x)

Access(x) ==
    /\ access.op = "none" /\ segs = <<>> /\ x.addr + x.len <= Bytes
    /\ Start(x)
    /\ before' = bytes /\ buf' = Zeros
    /\ UNCHANGED <<bytes, segs, seg>>
\* The typed accessors, read_uint8 to write_int64: misaligned, they throw.
Accessor(x) ==
    /\ access.op = "none" /\ segs = <<>> /\ x.len \in {1, 2, 4, 8} /\ x.addr % x.len # 0
    /\ access' = [x EXCEPT !.op = "thrown"] /\ before' = bytes
    /\ UNCHANGED <<bytes, pieces, buf, segs, seg>>

\* One chunk.  The edges of a write are a read_chunk and a write_chunk.
Mine(c) == c.first + c.o .. c.first + c.o + c.n - 1      \* the bytes of the caller
At(c, b) == c.p + (b - (c.first + c.o)) + 1              \* their places in its buffer
read_chunk(c, mem, dst) ==
    [i \in DOMAIN dst |-> IF \E b \in Mine(c) : At(c, b) = i
                          THEN mem[CHOOSE b \in Mine(c) : At(c, b) = i] ELSE dst[i]]
write_chunk(c, mem, src) ==
    [b \in DOMAIN mem |-> IF b \notin c.first .. c.first + c.size - 1 THEN mem[b]
                          ELSE IF b \in Mine(c) THEN src[At(c, b)] ELSE mem[b]]
clear_chunk(c, mem) ==
    [b \in DOMAIN mem |-> IF b \in c.first .. c.first + c.size - 1 THEN 0 ELSE mem[b]]
Chunk ==
    /\ pieces # <<>>
    /\ \E c \in {pieces[1]} :
          /\ buf' = IF c.kind = "read" THEN read_chunk(c, bytes, buf) ELSE buf
          /\ bytes' = CASE c.kind = "read" -> bytes
                        [] c.kind = "clear" -> clear_chunk(c, bytes)
                        [] OTHER -> write_chunk(c, bytes, access.data)
    /\ pieces' = Tail(pieces)
    /\ UNCHANGED <<access, before, segs, seg>>
\* load_elf: for each segment its bytes in the file (if it has any, which an
\* access of length 0 stands for), then zeros to its size.
LoadFile ==
    /\ seg <= Len(segs) /\ pieces = <<>> /\ access.op = "none"
    /\ Start([op |-> "write", addr |-> segs[seg].paddr, len |-> segs[seg].filesz, data |-> Fill])
    /\ UNCHANGED <<bytes, buf, before, segs, seg>>
LoadZeros ==
    /\ seg <= Len(segs) /\ pieces = <<>> /\ access.op = "write"
    /\ access' = [op |-> "zeros", addr |-> segs[seg].paddr + segs[seg].filesz,
                  len |-> segs[seg].memsz - segs[seg].filesz, data |-> Zeros]
    /\ pieces' = write(segs[seg].paddr + segs[seg].filesz, segs[seg].memsz - segs[seg].filesz, Zeros)
    /\ UNCHANGED <<bytes, buf, before, segs, seg>>
NextSegment ==
    /\ seg <= Len(segs) /\ pieces = <<>> /\ access.op = "zeros"
    /\ seg' = seg + 1 /\ access' = NoAccess
    /\ UNCHANGED <<bytes, pieces, buf, before, segs>>

MemifInit ==
    /\ bytes = [b \in 0 .. Bytes - 1 |-> 20 + b]
    /\ access = NoAccess /\ pieces = <<>> /\ buf = Zeros /\ before = bytes
    /\ segs \in {<<>>} \cup Segments /\ seg = 1
MemifStep == (\E x \in Accesses : Access(x) \/ Accessor(x)) \/ Chunk \/ LoadFile \/ LoadZeros \/ NextSegment
MemifSpec == MemifInit /\ [][MemifStep]_memifVars

\* Every chunk is aligned and of a legal size, and an access touches exactly
\* its bytes: a read returns memory's, a write leaves its neighbours alone,
\* although both move whole chunks.  A loaded program is its segments, the
\* last one where they overlap.
Image(b) ==
    LET here == {i \in DOMAIN segs : b \in segs[i].paddr .. segs[i].paddr + segs[i].memsz - 1} IN
    IF here = {} THEN before[b]
    ELSE LET i == CHOOSE i \in here : \A j \in here : j <= i IN
         IF b < segs[i].paddr + segs[i].filesz THEN Fill[(b - segs[i].paddr) + 1] ELSE 0
MemifExact ==
    /\ \A i \in DOMAIN pieces :
          /\ pieces[i].first % align = 0 /\ pieces[i].size % align = 0
          /\ pieces[i].size \in 1 .. max_chunk
    /\ access.op = "thrown" => bytes = before
    /\ (pieces = <<>> /\ access.op = "read") =>
          /\ bytes = before
          /\ \A i \in 1 .. access.len : buf[i] = before[access.addr + i - 1]
    /\ (pieces = <<>> /\ access.op = "write" /\ segs = <<>>) =>
          \A b \in DOMAIN bytes :
             bytes[b] = IF b \in access.addr .. access.addr + access.len - 1
                        THEN access.data[(b - access.addr) + 1] ELSE before[b]
    /\ (segs # <<>> /\ seg > Len(segs)) => \A b \in DOMAIN bytes : bytes[b] = Image(b)
====
