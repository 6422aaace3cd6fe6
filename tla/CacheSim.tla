------------------------------ MODULE CacheSim ------------------------------
(***************************************************************************)
(* The cache models of the simulator (cachesim.cc): an instruction and a   *)
(* data cache that trace the accesses of the harts, and the second level   *)
(* they share as miss handler.  Set-associative, or fully associative (one *)
(* set, more than four ways in the code, FaWays here).  The victim is any  *)
(* way, whatever the code's shift register says.                           *)
(*                                                                         *)
(* A cache is [linesz, sets, ways, tags, stats]; tags[i][w] is a way of    *)
(* set i, <<>> when invalid, else the line and its dirty bit.              *)
(***************************************************************************)
EXTENDS Integers, FiniteSets

CONSTANTS
    Addrs,          \* the addresses accessed
    Configs,        \* the pairs of first- and second-level [sets, ways, linesz]
    FaWays,         \* one set of at least this many ways is fully associative
    MaxAccesses     \* bound: accesses traced

(* A line of the second level holds whole lines of the first.  (The code   *)
(* takes any powers of two; the write-back of a longer line is then one    *)
(* access of the second level, and the rest of the line is forgotten.)     *)
ASSUME CacheAssumption ==
    /\ Addrs \subseteq Nat
    /\ \A c \in Configs, i \in {1, 2} :
          c[i].sets \in Nat \ {0} /\ c[i].ways \in Nat \ {0} /\ c[i].linesz \in Nat \ {0}
    /\ \A c \in Configs : \E k \in 1 .. c[2].linesz : c[2].linesz = k * c[1].linesz

VARIABLES
    ic, dc, l2,
    accesses,
    stored, written     \* addresses stored to; written to memory since

cacheVars == <<ic, dc, l2, accesses, stored, written>>

NoLine == <<>>
Tag(line, dirty) == <<line, dirty>>

(* construct and init. *)
construct(c) ==
    [sets |-> c.sets, ways |-> c.ways, linesz |-> c.linesz, fa |-> c.sets = 1 /\ c.ways >= FaWays,
     tags |-> [i \in 0 .. c.sets - 1 |-> [w \in 0 .. c.ways - 1 |-> NoLine]],
     accesses |-> 0, misses |-> 0, writes |-> 0, writebacks |-> 0]

CacheInit ==
    /\ \E c \in Configs : /\ ic = construct(c[1]) /\ dc = construct(c[1])
                          /\ l2 = construct(c[2])
    /\ accesses = 0 /\ stored = {} /\ written = {}

Line(c, addr) == addr \div c.linesz
Index(c, addr) == Line(c, addr) % c.sets
check_tag(c, addr) ==
    {w \in 0 .. c.ways - 1 : LET t == c.tags[Index(c, addr)][w]
                             IN  t # NoLine /\ t[1] = Line(c, addr)}
SetDirty(c, addr) ==
    [c EXCEPT !.tags[Index(c, addr)] =
        [w \in DOMAIN @ |-> IF w \in check_tag(c, addr) THEN Tag(Line(c, addr), TRUE) ELSE @[w]]]

(* victimize: any way of the set; a fully associative cache fills up first. *)
Victims(c, addr) ==
    LET free == {w \in 0 .. c.ways - 1 : c.tags[Index(c, addr)][w] = NoLine}
    IN  IF c.fa /\ free # {} THEN free ELSE 0 .. c.ways - 1
victimize(c, addr, way) ==
    [c EXCEPT !.tags[Index(c, addr)][way] = Tag(Line(c, addr), FALSE)]

Count(c, store, miss) ==
    [c EXCEPT !.accesses = @ + 1, !.writes = @ + (IF store THEN 1 ELSE 0),
              !.misses = @ + (IF miss THEN 1 ELSE 0)]

WritesBack(old) == old # NoLine /\ old[2]
\* Mutant: a store that misses leaves its line clean.
RefillClean(c, addr, w, old, store) ==
    victimize([Count(c, store, TRUE) EXCEPT !.writebacks = @ + (IF WritesBack(old) THEN 1 ELSE 0)], addr, w)
Refill(c, addr, w, old, store) ==
    LET new == victimize([Count(c, store, TRUE) EXCEPT
                            !.writebacks = @ + (IF WritesBack(old) THEN 1 ELSE 0)], addr, w)
    IN  IF store THEN SetDirty(new, addr) ELSE new
Hit(c, addr, store) ==
    IF store THEN SetDirty(Count(c, TRUE, FALSE), addr) ELSE Count(c, FALSE, FALSE)

(* access of the last level: the results of a hit or of each victim, with  *)
(* the lines written to memory.                                            *)
LastAccess(c, addr, store) ==
    IF check_tag(c, addr) # {} THEN {[cache |-> Hit(c, addr, store), out |-> {}]}
    ELSE {LET old == c.tags[Index(c, addr)][w]
          IN  [cache |-> Refill(c, addr, w, old, store),
               out   |-> IF WritesBack(old) THEN {old[1]} ELSE {}] : w \in Victims(c, addr)}

(* The same with a miss handler: a dirty victim is written to it, then the *)
(* line is read from it.                                                   *)
DirtyAddr(c, old) == old[1] * c.linesz
MissHandler(c, m, addr, old) ==
    IF WritesBack(old)
      THEN UNION {{[cache |-> r.cache, out |-> wb.out \cup r.out] :
                     r \in LastAccess(wb.cache, Line(c, addr) * c.linesz, FALSE)} :
                  wb \in LastAccess(m, DirtyAddr(c, old), TRUE)}
    ELSE LastAccess(m, Line(c, addr) * c.linesz, FALSE)
access(c, m, addr, store) ==
    IF check_tag(c, addr) # {} THEN {[cache |-> Hit(c, addr, store), next |-> m, out |-> {}]}
    ELSE UNION {{[cache |-> Refill(c, addr, w, c.tags[Index(c, addr)][w], store),
                  next |-> r.cache, out |-> r.out] :
                   r \in MissHandler(c, m, addr, c.tags[Index(c, addr)][w])} :
                w \in Victims(c, addr)}

AddrsOf(lines) == {a \in Addrs : Line(l2, a) \in lines}

(* icache_sim_t and dcache_sim_t trace. *)
TraceFetch ==
    \E addr \in Addrs : \E r \in access(ic, l2, addr, FALSE) :
      /\ ic' = r.cache /\ l2' = r.next /\ written' = written \cup AddrsOf(r.out)
      /\ UNCHANGED <<dc, stored>>
TraceLoad ==
    \E addr \in Addrs : \E r \in access(dc, l2, addr, FALSE) :
      /\ dc' = r.cache /\ l2' = r.next /\ written' = written \cup AddrsOf(r.out)
      /\ UNCHANGED <<ic, stored>>
TraceStore ==
    \E addr \in Addrs : \E r \in access(dc, l2, addr, TRUE) :
      /\ dc' = r.cache /\ l2' = r.next
      /\ written' = (written \cup AddrsOf(r.out)) \ {addr}
      /\ stored' = stored \cup {addr}
      /\ UNCHANGED ic

CacheNext ==
    /\ accesses < MaxAccesses /\ accesses' = accesses + 1
    /\ TraceFetch \/ TraceLoad \/ TraceStore
CacheSpec == CacheInit /\ [][CacheNext]_cacheVars

----------------------------------------------------------------------------
Dirty(c, addr) == \E w \in check_tag(c, addr) : c.tags[Index(c, addr)][w][2]

(* No write disappears between the levels: what was stored is dirty in the *)
(* data cache or in the second level or has been written to memory since;  *)
(* a line is in a cache once; and the second level sees exactly the misses *)
(* and write-backs of the first.                                           *)
WritesConserved ==
    /\ \A a \in stored : Dirty(dc, a) \/ Dirty(l2, a) \/ a \in written
    /\ \A c \in {ic, dc, l2}, a \in Addrs : Cardinality(check_tag(c, a)) <= 1
    /\ l2.accesses = ic.misses + dc.misses + dc.writebacks
    /\ l2.writes = dc.writebacks /\ ic.writebacks = 0
====
