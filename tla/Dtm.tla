-------------------------------- MODULE Dtm ---------------------------------
(***************************************************************************)
(* The host's side of the debug transport (fesvr's dtm.cc): the front-end  *)
(* server reads and writes target memory and CSRs by halting a hart and    *)
(* running abstract commands on it.                                        *)
(*                                                                         *)
(* The host is a coroutine that stops in do_command until the target       *)
(* answers, so an operation is the sequence of its DMI requests: todo is   *)
(* what is left of the current one, its head the request in req_buf.       *)
(* Where the code decides, todo holds a decision (die, xlen, enum), taken  *)
(* when it comes to the front.                                             *)
(***************************************************************************)
EXTENDS DebugModule, SequencesExt

CONSTANTS
    Ops,            \* the operations htif may ask for
    MaxOps          \* bound: operations of a run

\* memif asks for at least one word at a time.
ASSUME OpsAssumption ==
    \A o \in Ops :
        /\ o.op \in {"read", "write", "clear", "csr", "reset"}
        /\ o.op \in {"read", "write", "clear"} => o.addr \in Nat /\ o.n \in Nat \ {0}
        /\ o.op \in {"write", "csr", "reset"} => o.val \in Nat
        /\ o.op = "csr" => o.type \in {"write", "set", "clear"}

VARIABLES
    todo,
    loc,            \* the host's variables
    op, started,    \* the operation under way, or the last, and memory and CSRs when it began
    nops,
    req_wait, resp_wait,
    resp            \* the target's response, a sequence of at most one

hostVars == <<todo, loc, op, started, nops>>
wireVars == <<req_wait, resp_wait, resp>>

----------------------------------------------------------------------------
(* Requests.  A value to write is a literal, a word of a host variable, or *)
(* the dmcontrol read before with another hart selected.                   *)

Request(k, o, reg, i, val, into) ==
    [k |-> k, op |-> o, reg |-> reg, i |-> i, val |-> val, into |-> into]
Lit(v) == <<"lit", v>>
Word(name, i) == <<"word", name, i>>
None == <<>>
write(reg, i, v) == Request("once", 2, reg, i, v, None)
read(reg, i, into) == Request("once", 1, reg, i, None, into)
Poll(reg, field) == Request("poll", 1, reg, 0, None, field)
Nop == Request("once", 0, "none", 0, None, None)
Decide(k, n) == Request(k, 0, "none", n, None, None)

Dmcontrol(hartsel, halt, resume) ==
    Lit([dmactive |-> TRUE, haltreq |-> halt, resumereq |-> resume, ndmreset |-> FALSE, hartsel |-> hartsel])
ReadStatus == read("dmstatus", 0, None)
ClearError == write("abstractcs", 0, Lit(0))

select_hart(hartsel) ==
    <<read("dmcontrol", 0, <<"dmcontrol">>), write("dmcontrol", 0, <<"select", hartsel>>)>>
halt(hartsel) ==
    <<write("dmcontrol", 0, Dmcontrol(hartsel, TRUE, FALSE)), Poll("dmstatus", "halted"),
      write("dmcontrol", 0, Dmcontrol(hartsel, FALSE, FALSE)), ReadStatus>>
resume(hartsel) ==
    <<write("dmcontrol", 0, Dmcontrol(hartsel, FALSE, TRUE)), Poll("dmstatus", "resumeack"),
      write("dmcontrol", 0, Dmcontrol(hartsel, FALSE, FALSE)), ReadStatus>>

Command(reg, size, isWrite, postexec) ==
    [type |-> 0, reg |-> reg, size |-> size, write |-> isWrite, transfer |-> TRUE, postexec |-> postexec]
PollNotBusy == Poll("abstractcs", "busy")
run_abstract_command(command, program, data, into) ==
    [i \in DOMAIN program |-> write("progbuf", i, Lit(program[i]))]
    \o (IF command.write THEN [i \in DOMAIN data |-> write("data", i, data[i])] ELSE <<>>)
    \o <<write("command", 0, Lit(command)), PollNotBusy>>
    \o (IF command.write THEN <<>> ELSE [i \in DOMAIN into |-> read("data", i, into[i])])
RunAcOrDie(command, program, data, into) ==
    run_abstract_command(command, program, data, into) \o <<Decide("die", 0)>>

----------------------------------------------------------------------------
(* The operations.  n words of xlen bits; l.xlen is in words of 32 bits. *)

Local(l, name) == [w \in 1 .. l.xlen |-> <<name, w>>]
Words(l, name, from) == [w \in 1 .. l.xlen |-> Word(name, from + w)]
Literal(v) == [w \in DOMAIN v |-> Lit(v[w])]
LitWide(l, x) == [w \in 1 .. l.xlen |-> Lit(IF w = 1 THEN x ELSE 0)]

save_reg(l, r) == RunAcOrDie(Command(r, l.xlen, FALSE, FALSE), <<>>, <<>>, Local(l, r))
restore_reg(l, r) == RunAcOrDie(Command(r, l.xlen, TRUE, FALSE), <<>>, Words(l, r, 0), <<>>)
Saving(l, body) ==
    halt(l.current_hart) \o save_reg(l, "s0") \o save_reg(l, "s1")
    \o body
    \o restore_reg(l, "s0") \o restore_reg(l, "s1") \o resume(l.current_hart)

LOAD == [op |-> "load", reg |-> "s1", base |-> "s0"]
STORE(src) == [op |-> "store", reg |-> src, base |-> "s0"]
ADDI == [op |-> "addi", reg |-> "s0"]
BNE(there) == [op |-> "bne", target |-> 2 + there]
CSRRW(csr, type) == [op |-> "csr", reg |-> "s0", csr |-> csr, type |-> type]

read_chunk(l, taddr, n) ==
    Saving(l,
        RunAcOrDie(Command("s0", l.xlen, TRUE, TRUE), <<LOAD, ADDI, ebreak>>, LitWide(l, taddr), <<>>)
        \o FlattenSeq([i \in 1 .. n |->
              RunAcOrDie(Command("s1", l.xlen, FALSE, i < n), <<>>, <<>>,
                         [w \in 1 .. l.xlen |-> <<"buf", ((i - 1) * l.xlen) + w>>])]))
\* Mutant: the word that triggers the command is written first.
StoreAutoexecSwapped(l, v) ==
    <<write("data", 1, Lit(v[1]))>>
    \o (IF l.xlen = 2 THEN <<write("data", 2, Lit(v[2]))>> ELSE <<>>)
    \o <<PollNotBusy, Decide("die", 0)>>
StoreAutoexec(l, v) ==
    (IF l.xlen = 2 THEN <<write("data", 2, Lit(v[2]))>> ELSE <<>>)
    \o <<write("data", 1, Lit(v[1])), PollNotBusy, Decide("die", 0)>>
write_chunk(l, taddr, src) ==
    Saving(l,
        RunAcOrDie(Command("s0", l.xlen, TRUE, FALSE), <<STORE("s1"), ADDI, ebreak>>, LitWide(l, taddr), <<>>)
        \o RunAcOrDie(Command("s1", l.xlen, TRUE, TRUE), <<>>, Literal(src[1]), <<>>)
        \o (IF Len(src) > 1 THEN <<write("abstractauto", 0, Lit({1}))>> ELSE <<>>)
        \o FlattenSeq([i \in 1 .. Len(src) - 1 |-> StoreAutoexec(l, src[i + 1])])
        \o (IF Len(src) > 1 THEN <<write("abstractauto", 0, Lit({}))>> ELSE <<>>))
clear_chunk(l, taddr, n) ==
    Saving(l,
        RunAcOrDie(Command("s0", l.xlen, TRUE, FALSE), <<>>, LitWide(l, taddr), <<>>)
        \o RunAcOrDie(Command("s1", l.xlen, TRUE, TRUE), <<STORE("x0"), ADDI, BNE(1), ebreak>>,
                      LitWide(l, taddr + n), <<>>))
\* The program swaps s0 with dscratch itself and reads the module's data.
modify_csr(l, which, data, type) ==
    halt(l.current_hart)
    \o RunAcOrDie(Command("x0", l.xlen, TRUE, TRUE),
          <<CSRRW("dscratch", "write"), [op |-> "lx", reg |-> "s0", size |-> l.xlen],
            CSRRW(which, type), [op |-> "sx", reg |-> "s0", size |-> l.xlen],
            CSRRW("dscratch", "write"), ebreak>>, Literal(data), <<>>)
    \o [w \in 1 .. l.xlen |-> read("data", w, <<"res", w>>)]
    \o resume(l.current_hart)
\* The upper half is or-ed into the result unshifted; a word here is one bit.
ModifyResult(l) ==
    [w \in 1 .. l.xlen |->
        IF w > 1 THEN 0 ELSE IF \E x \in 1 .. l.xlen : l.res[x] = 1 THEN 1 ELSE 0]
fence_i(l) ==
    halt(l.current_hart)
    \o RunAcOrDie(Command("x0", l.xlen, TRUE, TRUE), <<nop, ebreak>>, <<>>, <<>>)
    \o resume(l.current_hart)
\* dtm_t::reset
ResetHarts(l, entry) ==
    FlattenSeq([k \in 1 .. l.num_harts |->
        LET lk == [l EXCEPT !.current_hart = k - 1] IN
        select_hart(k - 1) \o fence_i(lk) \o modify_csr(lk, "dpc", entry, "write")])
    \o select_hart(0) \o <<ReadStatus>>

ProbeXlen(size) ==
    run_abstract_command(Command("s0", size, FALSE, FALSE), <<>>, <<>>, <<>>) \o <<Decide("xlen", size)>>
get_xlen == ProbeXlen(4) \o ProbeXlen(2) \o ProbeXlen(1)
EnumerateFrom(n) == select_hart(n) \o <<read("dmstatus", 0, <<"nonexistent">>), Decide("enum", n)>>
producer_thread ==
    <<read("abstractcs", 0, None), read("hartinfo", 0, None),
      write("dmcontrol", 0, Dmcontrol(0, FALSE, FALSE))>>
    \o EnumerateFrom(0)

Operation(l, o) ==
    CASE o.op = "read" -> read_chunk(l, o.addr, o.n)
      [] o.op = "write" -> write_chunk(l, o.addr, [i \in 1 .. o.n |-> Value(o.val + i)])
      [] o.op = "clear" -> clear_chunk(l, o.addr, o.n)
      [] o.op = "csr" -> modify_csr(l, "csr", Wide(o.val), o.type)
      [] o.op = "reset" -> ResetHarts(l, Value(o.val))

----------------------------------------------------------------------------
(* The host runs from a response to its next request. *)

Take(l, t) == [loc |-> l, todo |-> t]
Decided(l, t) ==
    IF t = <<>> THEN Take(l, t)
    ELSE CASE t[1].k = "die" ->
                Take(l, (IF l.cmderr = "none" THEN <<>> ELSE <<ClearError>>) \o Tail(t))
           [] t[1].k = "xlen" ->
                IF l.cmderr = "none" THEN Take([l EXCEPT !.xlen = t[1].i], resume(0))
                ELSE Take(l, <<ClearError>> \o Tail(t))
           [] t[1].k = "enum" ->
                IF l.nonexistent THEN Take([l EXCEPT !.num_harts = t[1].i], halt(0) \o get_xlen)
                ELSE Take(l, EnumerateFrom(t[1].i + 1))
           [] OTHER -> Take(l, t)

Resolve(v) ==
    CASE v[1] = "lit" -> v[2]
      [] v[1] = "word" -> loc[v[2]][v[3]]
      [] v[1] = "select" -> [loc.dmcontrol EXCEPT !.hartsel = v[2]]
Received(q, v) ==
    CASE q.op # 1 \/ q.into = None -> loc
      [] q.into = <<"dmcontrol">> -> [loc EXCEPT !.dmcontrol = v]
      [] q.into = <<"nonexistent">> -> [loc EXCEPT !.nonexistent = v.nonexistent]
      [] OTHER -> [loc EXCEPT ![q.into[1]][q.into[2]] = v]
Polled(q, v) ==
    CASE q.reg = "abstractcs" -> [done |-> ~v.busy, loc |-> [loc EXCEPT !.cmderr = v.cmderr]]
      [] q.into = "halted" -> [done |-> v.halted, loc |-> loc]
      [] q.into = "resumeack" -> [done |-> v.resumeack, loc |-> loc]

(* The wire (tick): the request is valid, then taken, then answered. *)
TickValid ==
    /\ todo # <<>> /\ ~resp_wait /\ ~req_wait
    /\ req_wait' = TRUE
    /\ UNCHANGED <<hostVars, resp_wait, resp, dmVars>>
TickReady ==
    /\ todo # <<>> /\ ~resp_wait /\ req_wait
    /\ req_wait' = FALSE /\ resp_wait' = TRUE
    /\ UNCHANGED <<hostVars, resp, dmVars>>
TargetAnswers ==
    /\ resp_wait /\ resp = <<>>
    /\ \E q \in {[Head(todo) EXCEPT !.val = IF Head(todo).op = 2 THEN Resolve(@) ELSE 0]} :
       \E r \in {Access(q)} :
          Dmi(q, r) /\ resp' = <<[ok |-> r.ok, val |-> IF q.op = 1 THEN r.val ELSE 0]>>
    /\ UNCHANGED <<hostVars, req_wait, resp_wait>>
Continue(q, v) ==
    \E c \in {IF q.k = "poll"
              THEN IF Polled(q, v).done THEN Decided(Polled(q, v).loc, Tail(todo))
                   ELSE Take(loc, todo)
              ELSE Decided(Received(q, v), Tail(todo))} :
       loc' = c.loc /\ todo' = c.todo
TickResponse ==
    /\ resp # <<>>
    /\ resp_wait' = FALSE /\ resp' = <<>>
    /\ Continue(Head(todo), Head(resp).val)
    /\ UNCHANGED <<op, started, nops, req_wait, dmVars>>

Snapshot == [mem |-> mem, csr |-> [h \in Harts |-> hart[h].csr]]
HostCall(o) ==
    /\ todo = <<>> /\ nops < MaxOps
    /\ op' = o /\ started' = Snapshot /\ nops' = nops + 1
    /\ todo' = Operation(loc, o)
    /\ loc' = IF o.op = "reset" THEN [loc EXCEPT !.current_hart = 0] ELSE loc
    /\ UNCHANGED <<wireVars, dmVars>>
HostIdle ==
    /\ todo = <<>> /\ nops = MaxOps
    /\ todo' = <<Nop>>
    /\ UNCHANGED <<loc, op, started, nops, wireVars, dmVars>>

DtmInit ==
    /\ todo = producer_thread
    /\ loc = [s0 |-> <<0, 0>>, s1 |-> <<0, 0>>, buf |-> [i \in 1 .. 2 * (MemSize + 2) |-> 0], res |-> <<0, 0>>,
              dmcontrol |-> 0, nonexistent |-> FALSE, cmderr |-> "none", xlen |-> 0,
              num_harts |-> 0, current_hart |-> 0]
    /\ op = [op |-> "none"] /\ started = Snapshot /\ nops = 0
    /\ req_wait = FALSE /\ resp_wait = FALSE /\ resp = <<>>

DtmStep ==
    \/ TickValid \/ TickReady \/ TargetAnswers \/ TickResponse
    \/ (\E o \in Ops : HostCall(o)) \/ HostIdle

----------------------------------------------------------------------------
Span(o) == o.addr .. o.addr + o.n - 1
InMemory(o) == Span(o) \subseteq Addrs

\* When an operation of the front-end server has ended, it has done what memif
\* and htif ask of it: a read chunk holds memory's words, a written or cleared
\* chunk and nothing else has changed, a CSR has its new value and the host
\* its old one (if the upper half was zero), and after reset every hart resumes at the entry point.  Every
\* word of it went through s0, s1, dscratch and the module's data registers.
TransfersExact ==
    (todo = <<>> /\ op.op # "none") =>
        CASE op.op = "read" ->
               InMemory(op) => \A a \in Span(op), w \in 1 .. width :
                   loc.buf[((a - op.addr) * width) + w] = mem[a][w]
          [] op.op = "write" ->
               InMemory(op) => mem = [a \in Addrs |->
                   IF a \in Span(op) THEN Value(op.val + 1 + (a - op.addr)) ELSE started.mem[a]]
          [] op.op = "clear" ->
               InMemory(op) => mem = [a \in Addrs |-> IF a \in Span(op) THEN Wide(0) ELSE started.mem[a]]
          [] op.op = "csr" ->
               \A h \in Harts :
                  IF h # loc.current_hart THEN hart[h].csr = started.csr[h]
                  ELSE /\ hart[h].csr = Csr(op.type, started.csr[h], Wide(op.val))
                       /\ ModifyResult(loc) = started.csr[h]
          [] op.op = "reset" -> \A h \in Harts : hart[h].dpc = Value(op.val) /\ hart[h].csr = started.csr[h]
====
