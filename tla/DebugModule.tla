---------------------------- MODULE DebugModule -----------------------------
(***************************************************************************)
(* The simulator's debug module (debug_module.cc) and the harts that park  *)
(* in its debug ROM (debug_rom.S).                                         *)
(*                                                                         *)
(* The module's registers are one record, and the functions that a DMI     *)
(* access or a store of the ROM call are operators on it.  An array with   *)
(* one boolean per hart is the set of the harts where it is TRUE.  A       *)
(* register, a CSR and a word of memory hold a sequence of 32-bit words,   *)
(* one if the harts are 32 bits wide and two if they are 64; addresses     *)
(* count words of that width.  An instruction in the abstract or program   *)
(* buffer is a record.                                                     *)
(***************************************************************************)
EXTENDS Integers, Sequences, FiniteSets

CONSTANTS
    NumHarts,
    MemSize         \* words of memory; an access past them faults

VARIABLES
    dm,             \* the debug module
    hart,           \* hart[h].pc: "run", or a place in the ROM
    mem,
    width           \* xlen / 32 of the harts

dmVars == <<dm, hart, mem, width>>

Harts == 0 .. NumHarts - 1
Addrs == 1 .. MemSize
datasize == 2
progsize == 16
Wide(x) == [w \in 1 .. width |-> IF w = 1 THEN x ELSE 0]
Value(x) == [w \in 1 .. width |-> (100 * (w - 1)) + x]    \* its words all differ

nop == [op |-> "nop"]
ebreak == [op |-> "ebreak"]
DmInit ==
    [dmactive |-> FALSE, haltreq |-> FALSE, resumereq |-> FALSE, ndmreset |-> FALSE, hartsel |-> 0,
     busy |-> FALSE, cmderr |-> "none", datacount |-> 0, autodata |-> {}, autoprog |-> {},
     command |-> [type |-> 0], halted |-> {}, resumeack |-> {}, go |-> {}, resume |-> {},
     abstract |-> <<nop, nop>>, progbuf |-> [i \in 1 .. progsize |-> nop],
     data |-> <<0, 0>>, halt_request |-> {}]
\* reset() leaves the harts' flags, the buffers and the data alone.
reset(d) ==
    [d EXCEPT !.halt_request = {}, !.dmactive = FALSE, !.haltreq = FALSE, !.resumereq = FALSE,
              !.ndmreset = FALSE, !.hartsel = 0, !.busy = FALSE, !.cmderr = "none",
              !.datacount = datasize, !.autodata = {}, !.autoprog = {}]

----------------------------------------------------------------------------
(* What the harts store. *)

\* Mutant: busy is cleared although the hart has not yet taken the command.
StoreHaltedIgnoresGo(d, id) ==
    [d EXCEPT !.halted = @ \cup {id}, !.busy = @ /\ d.hartsel # id]
StoreHalted(d, id) ==
    [d EXCEPT !.halted = @ \cup {id},
              !.busy = @ /\ ~(d.hartsel = id /\ id \notin d.go)]
\* The flag that is cleared is the selected hart's, whoever stores.
StoreGoing(d, id) == [d EXCEPT !.go = @ \ {d.hartsel}]
StoreResuming(d, id) ==
    [d EXCEPT !.halted = @ \ {id}, !.resumeack = @ \cup {id}, !.resume = @ \ {id}]
StoreException(d, id) == [d EXCEPT !.cmderr = IF @ = "none" THEN "exception" ELSE @]

----------------------------------------------------------------------------
(* The debug module interface. *)

AbstractInsn(c) ==
    IF c.transfer THEN [op |-> IF c.write THEN "lx" ELSE "sx", reg |-> c.reg, size |-> c.size]
    ELSE nop
perform_abstract_command(d) ==
    LET c == d.command IN
    CASE d.cmderr # "none" -> d
      [] d.cmderr = "none" /\ d.busy -> [d EXCEPT !.cmderr = "busy"]
      [] d.cmderr = "none" /\ ~d.busy /\ c.type # 0 -> [d EXCEPT !.cmderr = "notsup"]
      [] d.cmderr = "none" /\ ~d.busy /\ c.type = 0 /\ d.hartsel \notin d.halted ->
            [d EXCEPT !.cmderr = "haltresume"]
      [] OTHER ->
            IF c.transfer /\ c.size \notin {1, 2} THEN [d EXCEPT !.cmderr = "notsup"]
            ELSE [d EXCEPT !.abstract = <<AbstractInsn(c), IF c.postexec THEN nop ELSE ebreak>>,
                           !.go = @ \cup {d.hartsel},
                           !.busy = TRUE]

AutoExec(d, on) == IF ~d.busy /\ on THEN perform_abstract_command(d) ELSE d
BusyError(d) == [d EXCEPT !.cmderr = IF d.busy /\ @ = "none" THEN "busy" ELSE @]

\* The value is 0 where the code returns -1 because a command runs.
dmi_read(d, reg, i) ==
    CASE reg = "data" ->
            IF i > d.datacount THEN [d |-> d, val |-> 0, ok |-> FALSE]
            ELSE [d |-> AutoExec(BusyError(d), i \in d.autodata),
                  val |-> IF d.busy THEN 0 ELSE d.data[i], ok |-> TRUE]
      [] reg = "progbuf" ->
            [d |-> AutoExec(d, i \in d.autoprog),
             val |-> IF d.busy THEN nop ELSE d.progbuf[i], ok |-> TRUE]
      [] reg = "dmcontrol" ->
            LET r == [d EXCEPT !.haltreq = IF d.hartsel \in Harts THEN d.hartsel \in d.halt_request
                                           ELSE @] IN
            [d |-> r, ok |-> TRUE,
             val |-> [dmactive |-> r.dmactive, haltreq |-> r.haltreq, resumereq |-> r.resumereq,
                      ndmreset |-> r.ndmreset, hartsel |-> r.hartsel]]
      [] reg = "dmstatus" ->
            [d |-> d, ok |-> TRUE,
             val |-> [nonexistent |-> d.hartsel \notin Harts,
                      halted |-> d.hartsel \in Harts \cap d.halted,
                      resumeack |-> d.hartsel \in Harts \cap d.resumeack]]
      [] reg = "abstractcs" ->
            [d |-> d, ok |-> TRUE,
             val |-> [busy |-> d.busy, cmderr |-> d.cmderr, datacount |-> d.datacount]]
      [] reg = "abstractauto" -> [d |-> d, ok |-> TRUE, val |-> d.autodata]
      [] reg = "command" -> [d |-> d, ok |-> TRUE, val |-> 0]
      [] reg = "hartinfo" -> [d |-> d, ok |-> TRUE, val |-> [nscratch |-> 1, dataaccess |-> TRUE]]
      [] OTHER -> [d |-> d, ok |-> FALSE, val |-> 0]

WriteDmcontrol(d, v) ==
    LET e == IF v.dmactive
             THEN [d EXCEPT !.dmactive = TRUE, !.haltreq = v.haltreq, !.resumereq = v.resumereq,
                            !.ndmreset = v.ndmreset, !.hartsel = v.hartsel]
             ELSE reset(d)
        h == e.hartsel IN
    IF h \notin Harts THEN e
    ELSE [e EXCEPT !.halt_request = IF e.haltreq THEN @ \cup {h} ELSE @ \ {h},
                   !.resume = IF e.resumereq THEN @ \cup {h} ELSE @,
                   !.resumeack = IF e.resumereq THEN @ \ {h} ELSE @]
dmi_write(d, reg, i, v) ==
    CASE reg = "data" ->
            IF i > d.datacount THEN [d |-> d, ok |-> FALSE]
            ELSE [d |-> AutoExec(BusyError(IF d.busy THEN d ELSE [d EXCEPT !.data[i] = v]),
                                 i \in d.autodata), ok |-> TRUE]
      [] reg = "progbuf" ->
            [d |-> AutoExec(IF d.busy THEN d ELSE [d EXCEPT !.progbuf[i] = v], i \in d.autoprog),
             ok |-> TRUE]
      [] reg = "dmcontrol" -> [d |-> WriteDmcontrol(d, v), ok |-> TRUE]
      [] reg = "command" -> [d |-> perform_abstract_command([d EXCEPT !.command = v]), ok |-> TRUE]
      [] reg = "abstractcs" -> [d |-> [d EXCEPT !.cmderr = "none"], ok |-> TRUE]
      [] reg = "abstractauto" -> [d |-> [d EXCEPT !.autodata = v], ok |-> TRUE]
      [] OTHER -> [d |-> d, ok |-> FALSE]

----------------------------------------------------------------------------
(* A hart in the debug ROM: one step for each access to the module.        *)
(* user is what the program had in s0 and s1 when it was halted.           *)

Set(h, f) == hart' = [hart EXCEPT ![h] = [k \in DOMAIN @ |-> IF k \in DOMAIN f THEN f[k] ELSE @[k]]]

\* A running program has changed its registers since it was last resumed.
EnterDebug(h) ==
    /\ hart[h].pc = "run" /\ h \in dm.halt_request
    /\ LET x == IF hart[h].user.s0 = Value(11) THEN 12 ELSE 11
           u == [s0 |-> Value(x), s1 |-> Value(x + 10)] IN
       Set(h, [pc |-> "entry", s0 |-> u.s0, s1 |-> u.s1, user |-> u, dpc |-> Wide(100)])
    /\ UNCHANGED <<dm, mem, width>>
SignalHalted(h) ==
    /\ hart[h].pc \in {"entry", "entry_loop"}
    /\ dm' = StoreHalted(dm, h)
    /\ Set(h, [pc |-> "goflag", s0 |-> Wide(h),
               dscratch |-> IF hart[h].pc = "entry" THEN hart[h].s0 ELSE hart[h].dscratch])
    /\ UNCHANGED <<mem, width>>
TestGo(h) ==
    /\ hart[h].pc = "goflag"
    /\ Set(h, [pc |-> IF h \in dm.go THEN "going" ELSE "resumeflag"])
    /\ UNCHANGED <<dm, mem, width>>
TestResume(h) ==
    /\ hart[h].pc = "resumeflag"
    /\ Set(h, [pc |-> IF h \in dm.resume THEN "resuming" ELSE "entry_loop"])
    /\ UNCHANGED <<dm, mem, width>>
Going(h) ==
    /\ hart[h].pc = "going"
    /\ dm' = StoreGoing(dm, h)
    /\ Set(h, [pc |-> "exec", i |-> 1, s0 |-> hart[h].dscratch])
    /\ UNCHANGED <<mem, width>>
Exception(h) ==
    /\ hart[h].pc = "exception"
    /\ dm' = StoreException(dm, h)
    /\ Set(h, [pc |-> "entry"])
    /\ UNCHANGED <<mem, width>>
Resuming(h) ==
    /\ hart[h].pc = "resuming"
    /\ dm' = StoreResuming(dm, h)
    /\ Set(h, [pc |-> "dret", s0 |-> Wide(h)])
    /\ UNCHANGED <<mem, width>>
Dret(h) ==
    /\ hart[h].pc = "dret"
    /\ Set(h, [pc |-> "run", s0 |-> hart[h].dscratch])
    /\ UNCHANGED <<dm, mem, width>>

Reg(h, r) == IF r = "x0" THEN Wide(0) ELSE hart[h][r]
RegUpdate(r, v) == [k \in {r} \ {"x0"} |-> v]
Csr(type, old, v) ==
    CASE type = "write" -> v
      [] type = "set" -> [w \in DOMAIN v |-> IF v[w] = 1 THEN 1 ELSE old[w]]
      [] type = "clear" -> [w \in DOMAIN v |-> IF v[w] = 1 THEN 0 ELSE old[w]]
Valid(v) == v[1] \in Addrs /\ \A w \in 2 .. Len(v) : v[w] = 0

Code == dm.abstract \o dm.progbuf
Faults(h, c) ==
    \/ c.op \in {"lx", "sx"} /\ c.size > width      \* ld and sd on 32-bit harts
    \/ c.op = "load" /\ ~Valid(Reg(h, c.base))
    \/ c.op = "store" /\ ~Valid(Reg(h, c.base))
\* The registers and CSRs of hart h that instruction c writes.
Written(h, c) ==
    CASE c.op = "lx" -> RegUpdate(c.reg, [w \in 1 .. width |-> IF w <= c.size THEN dm.data[w] ELSE 0])
      [] c.op = "load" -> RegUpdate(c.reg, mem[Reg(h, c.base)[1]])
      [] c.op = "addi" -> RegUpdate(c.reg, [Reg(h, c.reg) EXCEPT ![1] = @ + 1])
      [] c.op = "csr" -> [k \in {c.reg, c.csr} |->
                             IF k = c.reg THEN hart[h][c.csr] ELSE Csr(c.type, hart[h][c.csr], hart[h][c.reg])]
      [] OTHER -> [k \in {} |-> 0]
Exec(h, c) ==
    /\ hart[h].pc = "exec"
    /\ IF Faults(h, c) THEN Set(h, [pc |-> "exception"]) /\ UNCHANGED <<dm, mem>>
       ELSE /\ Set(h, [k \in {"pc", "i"} \cup DOMAIN Written(h, c) |->
                         CASE k = "pc" -> IF c.op = "ebreak" THEN "entry" ELSE "exec"
                           [] k = "i" -> IF c.op = "bne" /\ hart[h].s0 # hart[h].s1 THEN c.target
                                         ELSE hart[h].i + 1
                           [] OTHER -> Written(h, c)[k]])
            /\ dm' = IF c.op # "sx" THEN dm
                     ELSE [dm EXCEPT !.data = [w \in 1 .. datasize |->
                             IF w <= c.size THEN Reg(h, c.reg)[w] ELSE @[w]]]
            /\ mem' = IF c.op # "store" THEN mem ELSE [mem EXCEPT ![Reg(h, c.base)[1]] = Reg(h, c.reg)]
    /\ UNCHANGED width

HartStep(h) ==
    \/ EnterDebug(h) \/ SignalHalted(h) \/ TestGo(h) \/ TestResume(h) \/ Going(h)
    \/ (hart[h].pc = "exec" /\ Exec(h, Code[hart[h].i]))
    \/ Exception(h) \/ Resuming(h) \/ Dret(h)

\* One access through the DMI: op 1 reads, 2 writes, another does nothing.
Access(q) ==
    CASE q.op = 1 -> dmi_read(dm, q.reg, q.i)
      [] q.op = 2 -> dmi_write(dm, q.reg, q.i, q.val)
      [] OTHER -> [d |-> dm, ok |-> TRUE, val |-> 0]
\* r is its outcome; a write of ndmreset also resets the processor.
Dmi(q, r) ==
    /\ dm' = r.d
    /\ hart' = IF q.op = 2 /\ q.reg = "dmcontrol" /\ r.d.ndmreset /\ r.d.hartsel \in Harts
               THEN [hart EXCEPT ![r.d.hartsel].pc = "run"] ELSE hart
    /\ UNCHANGED <<mem, width>>

DmModuleInit ==
    \* As the last debugger left it: dmcontrol written with dmactive clear.
    /\ dm = reset(DmInit)
    /\ width \in {1, 2}
    /\ mem = [a \in Addrs |-> Value(30 + a)]
    /\ hart = [h \in Harts |->
                 [pc |-> "run", i |-> 1, s0 |-> Wide(0), s1 |-> Wide(0), csr |-> Wide(1),
                  dscratch |-> Wide(0), dpc |-> Wide(0), user |-> [s0 |-> Wide(0), s1 |-> Wide(0)]]]

----------------------------------------------------------------------------
InCommand(h) == hart[h].pc \in {"exec", "exception"}

\* Two agents share the buffers and the data registers: the debugger's DMI
\* writes, allowed while busy is clear, and the hart that runs them.  busy
\* must be set for as long as a hart is on its way into, or inside, the code
\* of a command, at most one hart is there, and it is the selected one.
CommandExclusive ==
    /\ \A h \in Harts : InCommand(h) \/ h \in dm.go => dm.busy /\ h = dm.hartsel
    /\ \A h \in Harts : hart[h].pc = "going" => h \in dm.go

\* A hart leaves debug mode with the s0 and s1 its program had when it was
\* halted, although the ROM keeps its state in s0 and every command of the
\* debugger runs through s0 and s1.
RegistersRestored ==
    \A h \in Harts : hart[h].pc = "run" =>
        hart[h].s0 = hart[h].user.s0 /\ hart[h].s1 = hart[h].user.s1
====
