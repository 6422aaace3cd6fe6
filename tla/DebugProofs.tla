---------------------------- MODULE DebugProofs -----------------------------
(***************************************************************************)
(* The debug module's buffers and data registers have one user at a time,  *)
(* whatever the number of harts, the memory and the operations, under the  *)
(* front-end server's transport and under the JTAG port.                   *)
(*                                                                         *)
(* The module itself does not keep a debugger from selecting another hart  *)
(* while a command runs; the transport keeps itself from it.  So the proof *)
(* is about what the transport has still to ask for: a script in which     *)
(* whatever may start a command is followed by the poll that sees it end   *)
(* before anything selects a hart, and in which the automatic execution is *)
(* switched on only while no data is read, and switched off behind it.     *)
(* Every operation is such a script, for chunks of every length, and the   *)
(* module's state never lets the rest of one go wrong.                     *)
(*                                                                         *)
(* The second half proves the JTAG port exact, from where the characters   *)
(* that are on their way to the TAP will lead.                             *)
(***************************************************************************)
EXTENDS MCDebug, FiniteSetTheorems, SequenceTheorems, WellFoundedInduction, TLAPS

----------------------------------------------------------------------------
(* Sequences of sequences: induction up to a number, over a set. *)

\* A set of numbers has a least one.
LEMMA LeastNat ==
  ASSUME NEW n \in Nat, NEW T, T \subseteq 0 .. n, T # {}
  PROVE  \E x \in T : \A y \in T : x <= y
  <1> DEFINE Below == {0 .. x : x \in T}
             R == StrictSubsetOrdering(0 .. n)
             S == FiniteSubsetsOf(0 .. n)
  <1>1. Below \subseteq S /\ Below # {}
    <2>1. ASSUME NEW x \in T
          PROVE  0 .. x \in S
      <3>1. x \in Int /\ 0 .. x \subseteq 0 .. n
        OBVIOUS
      <3>2. IsFiniteSet(0 .. x)
        BY <3>1, FS_Interval
      <3> QED BY <3>1, <3>2 DEF FiniteSubsetsOf
    <2>2. Below # {}
      OBVIOUS
    <2> QED BY <2>1, <2>2
  <1>2. IsWellFoundedOn(R, S)
    BY FS_StrictSubsetOrderingWellFounded
  <1>3. \E b \in Below : \A c \in Below : ~ (<<c, b>> \in R)
    <2> HIDE DEF Below, R, S
    <2> QED BY <1>1, <1>2, WFMin
  <1>4. PICK x \in T : \A c \in Below : ~ (<<c, 0 .. x>> \in R)
    BY <1>3
  <1>5. \A y \in T : x <= y
    <2>1. SUFFICES ASSUME NEW y \in T, ~(x <= y)
                   PROVE  <<0 .. y, 0 .. x>> \in R
      BY <1>4
    <2>2. x \in 0 .. n /\ y \in 0 .. n /\ y < x
      BY <2>1
    <2>3. 0 .. y \subseteq 0 .. x /\ 0 .. y # 0 .. x /\ 0 .. x \in SUBSET (0 .. n) /\ 0 .. y \in SUBSET (0 .. n)
      BY <2>2
    <2> QED BY <2>3 DEF StrictSubsetOrdering
  <1> QED BY <1>5

\* Induction up to a number, over a set.
LEMMA NatClimb ==
  ASSUME NEW n \in Nat, NEW T, 0 \in T, \A k \in 0 .. n : k \in T /\ k + 1 \in 0 .. n => k + 1 \in T
  PROVE  n \in T
  <1>1. SUFFICES ASSUME n \notin T
                 PROVE  FALSE
    OBVIOUS
  <1> DEFINE M == {k \in 0 .. n : k \notin T}
  <1>2. PICK x \in M : \A y \in M : x <= y
    <2>1. M \subseteq 0 .. n /\ M # {}
      BY <1>1
    <2> HIDE DEF M
    <2> QED BY <2>1, LeastNat
  <1>3. x \in 1 .. n
    BY <1>2
  <1>4. x - 1 \in 0 .. n /\ x - 1 \in T /\ (x - 1) + 1 = x
    BY <1>2, <1>3
  <1> QED BY <1>2, <1>3, <1>4

\* Flattening stays in any set of sequences that is closed under
\* concatenation.
LEMMA FlattenClosed ==
  ASSUME NEW P, <<>> \in P, \A s, t \in P : s \o t \in P,
         NEW n \in Nat, NEW seqs, DOMAIN seqs = 1 .. n, seqs \in Seq(P)
  PROVE  FlattenSeq(seqs) \in P
  <1> DEFINE Body(g, i) == IF i = 1 THEN seqs[i] ELSE g[i - 1] \o seqs[i]
             Unrolls(g, k) == g = [i \in 1 .. k |-> Body(g, i)]
             Good == {k \in 0 .. n : \E g : Unrolls(g, k) /\ \A i \in 1 .. k : g[i] \in P}
  <1>0. /\ Len(seqs) = n /\ \A i \in 1 .. n : seqs[i] \in P
    BY LenProperties, ElementOfSeq
  <1>1. 0 \in Good
    <2> DEFINE g == [i \in 1 .. 0 |-> <<>>]
    <2>1. Unrolls(g, 0) /\ \A i \in 1 .. 0 : g[i] \in P
      OBVIOUS
    <2> HIDE DEF g, Unrolls
    <2> QED BY <2>1
  <1>2. ASSUME NEW k \in 0 .. n, k \in Good, k + 1 \in 0 .. n
        PROVE  k + 1 \in Good
    <2>1. PICK g : Unrolls(g, k) /\ \A i \in 1 .. k : g[i] \in P
      BY <1>2
    <2> DEFINE h == [i \in 1 .. k + 1 |-> IF i = k + 1 THEN Body(g, i) ELSE g[i]]
    <2>2. \A i \in 1 .. k + 1 : h[i] \in P /\ h[i] = Body(h, i)
      <3> SUFFICES ASSUME NEW i \in 1 .. k + 1
                   PROVE  h[i] \in P /\ h[i] = Body(h, i)
        OBVIOUS
      <3>1. CASE i = k + 1
        <4>1. k + 1 \in 1 .. n /\ h[i] = Body(g, i)
          BY <3>1, <1>2
        <4>2. i # 1 => i - 1 \in 1 .. k /\ h[i - 1] = g[i - 1] /\ g[i - 1] \in P
          BY <3>1, <2>1, <1>2
        <4>3. seqs[i] \in P
          BY <3>1, <4>1, <1>0
        <4>4. h[i] = Body(h, i)
          BY <4>1, <4>2
        <4> HIDE DEF h
        <4> QED BY <4>1, <4>2, <4>3
      <3>2. CASE i # k + 1
        <4>1. i \in 1 .. k /\ h[i] = g[i]
          BY <3>2
        <4>2. g[i] = Body(g, i)
          BY <2>1, <4>1
        <4>3. i # 1 => h[i - 1] = g[i - 1]
          BY <4>1
        <4> QED BY <4>1, <4>2, <4>3, <2>1
      <3> QED BY <3>1, <3>2
    <2>3. Unrolls(h, k + 1)
      <3>1. h = [i \in 1 .. k + 1 |-> h[i]]
        OBVIOUS
      <3> HIDE DEF h
      <3> QED BY <2>2, <3>1
    <2>4. k + 1 \in 0 .. n /\ \A i \in 1 .. k + 1 : h[i] \in P
      BY <2>2, <1>2
    <2> HIDE DEF h, Unrolls
    <2> QED BY <2>3, <2>4
  <1>3. n \in Good
    <2> HIDE DEF Good
    <2> QED BY <1>1, <1>2, NatClimb
  <1>4. PICK g : Unrolls(g, n) /\ \A i \in 1 .. n : g[i] \in P
    BY <1>3
  <1>5. CASE n = 0
    <2>1. seqs = <<>>
      BY <1>5, <1>0, EmptySeq
    <2> QED BY <2>1, <1>5, <1>0 DEF FlattenSeq
  <1>6. CASE n # 0
    <2> DEFINE f == CHOOSE f : f = [i \in 1 .. n |-> IF i = 1 THEN seqs[i] ELSE f[i - 1] \o seqs[i]]
    <2>1. f = [i \in 1 .. n |-> IF i = 1 THEN seqs[i] ELSE f[i - 1] \o seqs[i]]
      BY <1>4
    <2>2. FlattenSeq(seqs) = f[n]
      BY <1>0, <1>6 DEF FlattenSeq
    <2> DEFINE U == {k \in 0 .. n : k = 0 \/ f[k] \in P}
    <2>3. 0 \in U
      OBVIOUS
    <2>4. ASSUME NEW k \in 0 .. n, k \in U, k + 1 \in 0 .. n
          PROVE  k + 1 \in U
      <3>1. f[k + 1] = IF k + 1 = 1 THEN seqs[k + 1] ELSE f[k] \o seqs[k + 1]
        <4>1. k + 1 \in 1 .. n /\ (k + 1) - 1 = k
          BY <2>4
        <4> HIDE DEF f
        <4> QED BY <2>1, <4>1
      <3>2. seqs[k + 1] \in P /\ (k # 0 => f[k] \in P)
        BY <2>4, <1>0
      <3> HIDE DEF f
      <3> QED BY <2>4, <3>1, <3>2
    <2>5. n \in U
      <3> HIDE DEF U
      <3> QED BY <2>3, <2>4, NatClimb
    <2> HIDE DEF f
    <2> QED BY <2>2, <2>5, <1>6
  <1> QED BY <1>5, <1>6

----------------------------------------------------------------------------
(* What an access may do to the module. *)

Fields == {"dmactive", "haltreq", "resumereq", "ndmreset", "hartsel", "busy", "cmderr", "datacount",
           "autodata", "autoprog", "command", "halted", "resumeack", "go", "resume", "abstract",
           "progbuf", "data", "halt_request"}
Registers(d) == DOMAIN d = Fields /\ d.busy \in BOOLEAN

\* What an access may do to the command under way: nothing, or start one.
Same(e, d) == e.go = d.go /\ e.busy = d.busy
Starting(e, d) == ~d.busy /\ e.busy /\ e.go = d.go \cup {d.hartsel}
Kept(e, d) == Registers(e) /\ e.hartsel = d.hartsel /\ e.autodata = d.autodata

\* A command that is performed changes nothing the hart runs by, or starts.
LEMMA PerformEffect ==
  ASSUME NEW d, Registers(d)
  PROVE  /\ Kept(perform_abstract_command(d), d)
         /\ Same(perform_abstract_command(d), d) \/ Starting(perform_abstract_command(d), d)
  <1> DEFINE c == d.command
             e == perform_abstract_command(d)
  <1>1. CASE d.cmderr # "none"
    <2>1. e = d
      BY <1>1 DEF perform_abstract_command
    <2> QED BY <2>1 DEF Kept, Same
  <1>2. CASE d.cmderr = "none" /\ d.busy
    <2>1. e = [d EXCEPT !.cmderr = "busy"]
      BY <1>2 DEF perform_abstract_command
    <2> QED BY <2>1 DEF Kept, Same, Registers, Fields
  <1>3. CASE d.cmderr = "none" /\ ~d.busy /\ c.type # 0
    <2>1. e = [d EXCEPT !.cmderr = "notsup"]
      BY <1>3 DEF perform_abstract_command
    <2> QED BY <2>1 DEF Kept, Same, Registers, Fields
  <1>4. CASE d.cmderr = "none" /\ ~d.busy /\ c.type = 0 /\ d.hartsel \notin d.halted
    <2>1. e = [d EXCEPT !.cmderr = "haltresume"]
      BY <1>4 DEF perform_abstract_command
    <2> QED BY <2>1 DEF Kept, Same, Registers, Fields
  <1>5. CASE d.cmderr = "none" /\ ~d.busy /\ c.type = 0 /\ d.hartsel \in d.halted
    <2>1. e = IF c.transfer /\ c.size \notin {1, 2} THEN [d EXCEPT !.cmderr = "notsup"]
              ELSE [d EXCEPT !.abstract = <<AbstractInsn(c), IF c.postexec THEN nop ELSE ebreak>>,
                             !.go = @ \cup {d.hartsel}, !.busy = TRUE]
      BY <1>5 DEF perform_abstract_command
    <2> QED BY <2>1, <1>5 DEF Kept, Same, Starting, Registers, Fields
  <1> QED BY <1>1, <1>2, <1>3, <1>4, <1>5 DEF Registers

\* What abstractauto runs is a command like the others.
LEMMA AutoEffect ==
  ASSUME NEW d, Registers(d), NEW on
  PROVE  /\ Kept(AutoExec(d, on), d)
         /\ Same(AutoExec(d, on), d) \/ (Starting(AutoExec(d, on), d) /\ on)
  BY PerformEffect DEF AutoExec, Kept, Same

\* The error of an access while a command runs touches nothing else.
LEMMA BusyErrorEffect ==
  ASSUME NEW d, Registers(d)
  PROVE  Kept(BusyError(d), d) /\ Same(BusyError(d), d)
  BY DEF BusyError, Kept, Same, Registers, Fields

\* A read starts a command only through the program buffer, or through the
\* data registers while abstractauto is set.
LEMMA ReadEffect ==
  ASSUME NEW d, Registers(d), NEW reg, NEW i, NEW e, e = dmi_read(d, reg, i).d
  PROVE  /\ Kept(e, d)
         /\ \/ Same(e, d)
            \/ Starting(e, d) /\ (reg = "progbuf" \/ (reg = "data" /\ d.autodata # {}))
  <1>0. Kept(d, d) /\ Same(d, d)
    BY DEF Kept, Same
  <1>1. CASE reg = "data"
    <2> DEFINE b == BusyError(d)
    <2>1. e = d \/ e = AutoExec(b, i \in d.autodata)
      BY <1>1 DEF dmi_read
    <2>2. CASE e = AutoExec(b, i \in d.autodata)
      <3>1. Kept(b, d) /\ Same(b, d) /\ Registers(b)
        BY BusyErrorEffect DEF Kept
      <3>2. Kept(e, b) /\ (Same(e, b) \/ (Starting(e, b) /\ i \in d.autodata))
        <4> HIDE DEF b
        <4>1. e = IF ~b.busy /\ i \in d.autodata THEN perform_abstract_command(b) ELSE b
          BY <2>2 DEF AutoExec
        <4> QED BY <4>1, <3>1, PerformEffect DEF Kept, Same
      <3> HIDE DEF b
      <3> QED BY <3>1, <3>2, <1>1 DEF Kept, Same, Starting
    <2> QED BY <1>0, <2>1, <2>2
  <1>2. CASE reg = "progbuf"
    <2>1. e = AutoExec(d, i \in d.autoprog)
      BY <1>2 DEF dmi_read
    <2> QED BY <2>1, <1>2, AutoEffect
  <1>3. CASE reg = "dmcontrol"
    <2>1. e = [d EXCEPT !.haltreq = IF d.hartsel \in Harts THEN d.hartsel \in d.halt_request ELSE @]
      BY <1>3 DEF dmi_read
    <2> QED BY <2>1 DEF Kept, Same, Registers, Fields
  <1>4. CASE reg \notin {"data", "progbuf", "dmcontrol"}
    <2>1. e = d
      BY <1>4 DEF dmi_read
    <2> QED BY <1>0, <2>1
  <1> QED BY <1>1, <1>2, <1>3, <1>4

\* A write starts a command from three registers; abstractauto takes the value,
\* and dmcontrol, which may reset the module, starts none.
LEMMA WriteEffect ==
  ASSUME NEW d, Registers(d), NEW reg, NEW i, NEW v, NEW e, e = dmi_write(d, reg, i, v).d
  PROVE  /\ reg \notin {"dmcontrol", "abstractauto"} =>
              Kept(e, d) /\ (Same(e, d) \/ (Starting(e, d) /\ reg \in {"data", "progbuf", "command"}))
         /\ reg = "abstractauto" => Registers(e) /\ e.hartsel = d.hartsel /\ Same(e, d) /\ e.autodata = v
         /\ reg = "dmcontrol" => /\ Registers(e) /\ e.go = d.go /\ (e.busy => d.busy)
                                 /\ e.autodata \in {{}, d.autodata}
  <1>0. Kept(d, d) /\ Same(d, d)
    BY DEF Kept, Same
  <1>1. CASE reg = "data"
    <2> DEFINE a == IF d.busy THEN d ELSE [d EXCEPT !.data[i] = v]
               b == BusyError(a)
    <2>1. e = d \/ e = AutoExec(b, i \in d.autodata)
      BY <1>1 DEF dmi_write
    <2>2. CASE e = AutoExec(b, i \in d.autodata)
      <3>1. Kept(a, d) /\ Same(a, d) /\ Registers(a)
        BY DEF Kept, Same, Registers, Fields
      <3>2. Kept(b, a) /\ Same(b, a) /\ Registers(b)
        <4> HIDE DEF a
        <4> QED BY <3>1, BusyErrorEffect DEF Kept
      <3>3. Kept(e, b) /\ (Same(e, b) \/ Starting(e, b))
        <4> HIDE DEF a, b
        <4> QED BY <3>2, <2>2, AutoEffect
      <3> HIDE DEF a, b
      <3> QED BY <3>1, <3>2, <3>3, <1>1 DEF Kept, Same, Starting
    <2> QED BY <1>0, <1>1, <2>1, <2>2
  <1>2. CASE reg = "progbuf"
    <2> DEFINE a == IF d.busy THEN d ELSE [d EXCEPT !.progbuf[i] = v]
    <2>1. e = AutoExec(a, i \in d.autoprog)
      BY <1>2 DEF dmi_write
    <2>2. Kept(a, d) /\ Same(a, d) /\ Registers(a)
      BY DEF Kept, Same, Registers, Fields
    <2>3. Kept(e, a) /\ (Same(e, a) \/ Starting(e, a))
      <3> HIDE DEF a
      <3> QED BY <2>1, <2>2, AutoEffect
    <2> HIDE DEF a
    <2> QED BY <2>2, <2>3, <1>2 DEF Kept, Same, Starting
  <1>3. CASE reg = "dmcontrol"
    <2>1. e = WriteDmcontrol(d, v)
      BY <1>3 DEF dmi_write
    <2> DEFINE a == IF v.dmactive
                    THEN [d EXCEPT !.dmactive = TRUE, !.haltreq = v.haltreq, !.resumereq = v.resumereq,
                                   !.ndmreset = v.ndmreset, !.hartsel = v.hartsel]
                    ELSE reset(d)
    <2>2. /\ Registers(a) /\ a.go = d.go /\ (a.busy => d.busy) /\ a.autodata \in {{}, d.autodata}
      BY DEF reset, Registers, Fields
    <2>3. e = a \/ e = [a EXCEPT !.halt_request = IF a.haltreq THEN @ \cup {a.hartsel} ELSE @ \ {a.hartsel},
                                !.resume = IF a.resumereq THEN @ \cup {a.hartsel} ELSE @,
                                !.resumeack = IF a.resumereq THEN @ \ {a.hartsel} ELSE @]
      BY <2>1 DEF WriteDmcontrol
    <2> HIDE DEF a
    <2> QED BY <1>3, <2>2, <2>3 DEF Registers, Fields
  <1>4. CASE reg = "command"
    <2> DEFINE a == [d EXCEPT !.command = v]
    <2>1. e = perform_abstract_command(a)
      BY <1>4 DEF dmi_write
    <2>2. Kept(a, d) /\ Same(a, d) /\ Registers(a)
      BY DEF Kept, Same, Registers, Fields
    <2>3. Kept(e, a) /\ (Same(e, a) \/ Starting(e, a))
      <3> HIDE DEF a
      <3> QED BY <2>1, <2>2, PerformEffect
    <2> HIDE DEF a
    <2> QED BY <2>2, <2>3, <1>4 DEF Kept, Same, Starting
  <1>5. CASE reg = "abstractcs"
    <2>1. e = [d EXCEPT !.cmderr = "none"]
      BY <1>5 DEF dmi_write
    <2> QED BY <1>5, <2>1 DEF Kept, Same, Registers, Fields
  <1>6. CASE reg = "abstractauto"
    <2>1. e = [d EXCEPT !.autodata = v]
      BY <1>6 DEF dmi_write
    <2> QED BY <1>6, <2>1 DEF Kept, Same, Registers, Fields
  <1>7. CASE reg \notin {"data", "progbuf", "dmcontrol", "command", "abstractcs", "abstractauto"}
    <2>1. e = d
      BY <1>7 DEF dmi_write
    <2> QED BY <1>0, <1>7, <2>1
  <1> QED BY <1>1, <1>2, <1>3, <1>4, <1>5, <1>6, <1>7

Lowers(e, d) == (e.busy => d.busy) /\ (e.autodata # {} => e.autodata = d.autodata)
\* The same of dmcontrol, as the host sees it.
LEMMA DmcontrolEffect ==
  ASSUME NEW d, Registers(d), NEW i, NEW v, NEW e, e = dmi_write(d, "dmcontrol", i, v).d
  PROVE  Lowers(e, d)
  <1>1. e.busy => d.busy
    BY WriteEffect
  <1>2. e.autodata \in {{}, d.autodata}
    BY WriteEffect
  <1> QED BY <1>1, <1>2 DEF Lowers

----------------------------------------------------------------------------
(* The harts. *)

CommandInv ==
    /\ Registers(dm)
    /\ DOMAIN hart = Harts /\ \A h \in Harts : "pc" \in DOMAIN hart[h]
    /\ CommandExclusive

\* A hart that moves leaves the other harts where they are.
LEMMA SetPc ==
  ASSUME DOMAIN hart = Harts, \A h \in Harts : "pc" \in DOMAIN hart[h],
         NEW h \in Harts, NEW f, "pc" \in DOMAIN f, Set(h, f)
  PROVE  /\ DOMAIN hart' = Harts /\ \A g \in Harts : "pc" \in DOMAIN hart'[g]
         /\ hart'[h].pc = f.pc
         /\ \A g \in Harts \ {h} : hart'[g].pc = hart[g].pc
  <1>1. hart' = [hart EXCEPT ![h] = [k \in DOMAIN hart[h] |-> IF k \in DOMAIN f THEN f[k] ELSE hart[h][k]]]
    BY DEF Set
  <1> QED BY <1>1

\* A step of hart h that takes it from one place in the ROM to another.
Moves(h, pcs) ==
    /\ DOMAIN hart' = Harts /\ \A g \in Harts : "pc" \in DOMAIN hart'[g]
    /\ hart'[h].pc \in pcs
    /\ \A g \in Harts \ {h} : hart'[g].pc = hart[g].pc

\* Every step of a hart in the ROM keeps the command to one hart, the selected
\* one: only a hart with its go flag set enters it, and busy falls behind it.
LEMMA HartKeeps ==
  ASSUME CommandInv, NEW h \in Harts, HartStep(h)
  PROVE  CommandInv'
  <1>0. /\ Registers(dm) /\ DOMAIN hart = Harts /\ \A g \in Harts : "pc" \in DOMAIN hart[g]
        /\ \A g \in Harts : InCommand(g) \/ g \in dm.go => dm.busy /\ g = dm.hartsel
        /\ \A g \in Harts : hart[g].pc = "going" => g \in dm.go
    BY DEF CommandInv, CommandExclusive
  <1>q. ASSUME Registers(dm'), DOMAIN hart' = Harts, \A g \in Harts : "pc" \in DOMAIN hart'[g],
               \A g \in Harts : hart'[g].pc \in {"exec", "exception"} \/ g \in dm'.go => dm'.busy /\ g = dm'.hartsel,
               \A g \in Harts : hart'[g].pc = "going" => g \in dm'.go
        PROVE  CommandInv'
    BY <1>q DEF CommandInv, CommandExclusive, InCommand
  <1>1. CASE EnterDebug(h)
    <2>1. Moves(h, {"entry"}) /\ dm' = dm
      BY <1>0, <1>1, SetPc DEF EnterDebug, Moves
    <2> QED BY <1>0, <1>q, <2>1 DEF Moves, InCommand
  <1>2. CASE SignalHalted(h)
    <2>1. Moves(h, {"goflag"}) /\ dm' = StoreHalted(dm, h) /\ hart[h].pc \in {"entry", "entry_loop"}
      BY <1>0, <1>2, SetPc DEF SignalHalted, Moves
    <2>2. /\ Registers(dm') /\ dm'.go = dm.go /\ dm'.hartsel = dm.hartsel
          /\ dm'.busy = (dm.busy /\ ~(dm.hartsel = h /\ h \notin dm.go))
      BY <1>0, <2>1 DEF StoreHalted, Registers, Fields
    <2> QED BY <1>0, <1>q, <2>1, <2>2 DEF Moves, InCommand
  <1>3. CASE TestGo(h)
    <2>1. dm' = dm /\ Moves(h, {IF h \in dm.go THEN "going" ELSE "resumeflag"})
      BY <1>0, <1>3, SetPc DEF TestGo, Moves
    <2> QED BY <1>0, <1>q, <2>1 DEF Moves, InCommand
  <1>4. CASE TestResume(h)
    <2>1. dm' = dm /\ Moves(h, {"resuming", "entry_loop"})
      BY <1>0, <1>4, SetPc DEF TestResume, Moves
    <2> QED BY <1>0, <1>q, <2>1 DEF Moves, InCommand
  <1>5. CASE Going(h)
    <2>1. Moves(h, {"exec"}) /\ dm' = StoreGoing(dm, h) /\ hart[h].pc = "going"
      BY <1>0, <1>5, SetPc DEF Going, Moves
    <2>2. /\ Registers(dm') /\ dm'.go = dm.go \ {dm.hartsel} /\ dm'.hartsel = dm.hartsel
          /\ dm'.busy = dm.busy
      BY <1>0, <2>1 DEF StoreGoing, Registers, Fields
    <2> QED BY <1>0, <1>q, <2>1, <2>2 DEF Moves, InCommand
  <1>6. CASE hart[h].pc = "exec" /\ Exec(h, Code[hart[h].i])
    <2> DEFINE c == Code[hart[h].i]
    <2>1. Moves(h, {"exec", "exception", "entry"})
      <3>1. CASE Faults(h, c)
        BY <1>0, <1>6, <3>1, SetPc DEF Exec, Moves
      <3>2. CASE ~Faults(h, c)
        <4> DEFINE f == [k \in {"pc", "i"} \cup DOMAIN Written(h, c) |->
                         CASE k = "pc" -> IF c.op = "ebreak" THEN "entry" ELSE "exec"
                           [] k = "i" -> IF c.op = "bne" /\ hart[h].s0 # hart[h].s1 THEN c.target
                                         ELSE hart[h].i + 1
                           [] OTHER -> Written(h, c)[k]]
        <4>1. Set(h, f)
          BY <1>6, <3>2 DEF Exec
        <4>2. "pc" \in DOMAIN f /\ f.pc \in {"entry", "exec"}
          OBVIOUS
        <4> HIDE DEF f
        <4> QED BY <1>0, <4>1, <4>2, SetPc DEF Moves
      <3> QED BY <3>1, <3>2
    <2>2. /\ Registers(dm') /\ dm'.go = dm.go /\ dm'.hartsel = dm.hartsel /\ dm'.busy = dm.busy
      BY <1>0, <1>6 DEF Exec, Registers, Fields
    <2> HIDE DEF c
    <2> QED BY <1>0, <1>6, <1>q, <2>1, <2>2 DEF Moves, InCommand
  <1>7. CASE Exception(h)
    <2>1. Moves(h, {"entry"}) /\ dm' = StoreException(dm, h)
      BY <1>0, <1>7, SetPc DEF Exception, Moves
    <2>2. /\ Registers(dm') /\ dm'.go = dm.go /\ dm'.hartsel = dm.hartsel /\ dm'.busy = dm.busy
      BY <1>0, <2>1 DEF StoreException, Registers, Fields
    <2> QED BY <1>0, <1>q, <2>1, <2>2 DEF Moves, InCommand
  <1>8. CASE Resuming(h)
    <2>1. Moves(h, {"dret"}) /\ dm' = StoreResuming(dm, h)
      BY <1>0, <1>8, SetPc DEF Resuming, Moves
    <2>2. /\ Registers(dm') /\ dm'.go = dm.go /\ dm'.hartsel = dm.hartsel /\ dm'.busy = dm.busy
      BY <1>0, <2>1 DEF StoreResuming, Registers, Fields
    <2> QED BY <1>0, <1>q, <2>1, <2>2 DEF Moves, InCommand
  <1>9. CASE Dret(h)
    <2>1. dm' = dm /\ Moves(h, {"run"})
      BY <1>0, <1>9, SetPc DEF Dret, Moves
    <2> QED BY <1>0, <1>q, <2>1 DEF Moves, InCommand
  <1> QED BY <1>1, <1>2, <1>3, <1>4, <1>5, <1>6, <1>7, <1>8, <1>9 DEF HartStep

\* The debugger leaves the selection of the hart, and the reset, alone while
\* a command runs.
Polite(q) == dm.busy => ~(q.op = 2 /\ q.reg = "dmcontrol")

\* An access of a polite debugger keeps it as well.
LEMMA DmiKeeps ==
  ASSUME CommandInv, NEW q, Polite(q), Dmi(q, Access(q))
  PROVE  CommandInv'
  <1>0. /\ Registers(dm) /\ DOMAIN hart = Harts /\ \A g \in Harts : "pc" \in DOMAIN hart[g]
        /\ \A g \in Harts : InCommand(g) \/ g \in dm.go => dm.busy /\ g = dm.hartsel
        /\ \A g \in Harts : hart[g].pc = "going" => g \in dm.go
        /\ dm' = Access(q).d
    BY DEF CommandInv, CommandExclusive, Dmi
  <1>q. ASSUME Registers(dm'), DOMAIN hart' = Harts, \A g \in Harts : "pc" \in DOMAIN hart'[g],
               \A g \in Harts : hart'[g].pc \in {"exec", "exception"} \/ g \in dm'.go => dm'.busy /\ g = dm'.hartsel,
               \A g \in Harts : hart'[g].pc = "going" => g \in dm'.go
        PROVE  CommandInv'
    BY <1>q DEF CommandInv, CommandExclusive, InCommand
  <1>1. CASE q.op = 2 /\ q.reg = "dmcontrol"
    <2>1. ~dm.busy /\ dm' = dmi_write(dm, "dmcontrol", q.i, q.val).d
      BY <1>0, <1>1 DEF Polite, Access
    <2>2. Registers(dm') /\ dm'.go = dm.go
      BY <1>0, <2>1, WriteEffect
    <2>3. /\ DOMAIN hart' = Harts /\ \A g \in Harts : "pc" \in DOMAIN hart'[g]
          /\ \A g \in Harts : hart'[g].pc \in {"run", hart[g].pc}
      <3>1. hart' = hart \/ \E g \in Harts : hart' = [hart EXCEPT ![g].pc = "run"]
        BY <1>0 DEF Dmi
      <3> QED BY <1>0, <3>1
    <2> QED BY <1>0, <1>q, <2>1, <2>2, <2>3 DEF InCommand
  <1>2. CASE ~(q.op = 2 /\ q.reg = "dmcontrol")
    <2>1. hart' = hart
      BY <1>2 DEF Dmi
    <2>2. /\ Registers(dm') /\ dm'.hartsel = dm.hartsel
          /\ Same(dm', dm) \/ Starting(dm', dm)
      <3>1. CASE q.op = 1
        BY <1>0, <3>1, ReadEffect DEF Access, Kept
      <3>2. CASE q.op = 2
        <4>1. dm' = dmi_write(dm, q.reg, q.i, q.val).d /\ q.reg # "dmcontrol"
          BY <1>0, <1>2, <3>2 DEF Access
        <4> QED BY <1>0, <4>1, WriteEffect DEF Kept
      <3>3. CASE q.op \notin {1, 2}
        BY <1>0, <3>3 DEF Access, Same
      <3> QED BY <3>1, <3>2, <3>3
    <2> QED BY <1>0, <1>q, <2>1, <2>2 DEF Same, Starting, InCommand
  <1> QED BY <1>1, <1>2

----------------------------------------------------------------------------
(* The scripts of the transport. *)

Gprs == {"s0", "s1", "x0"}
Csrs == {"dscratch", "dpc", "csr"}
CsrOps == {"write", "set", "clear"}
DmRegs == {"data", "progbuf", "command", "dmcontrol", "dmstatus", "abstractcs", "abstractauto",
           "hartinfo", "none"}

Insns ==
    {nop, ebreak, LOAD, ADDI, BNE(1)} \cup {STORE(r) : r \in Gprs}
    \cup {CSRRW(c, t) : c \in Csrs, t \in CsrOps} \cup [op : {"lx", "sx"}, reg : Gprs, size : Nat]
AbstractCommands ==
    [type : {0}, reg : Gprs, size : Nat, write : BOOLEAN, transfer : BOOLEAN, postexec : BOOLEAN]
DmcontrolValues ==
    [dmactive : {TRUE}, haltreq : BOOLEAN, resumereq : BOOLEAN, ndmreset : {FALSE}, hartsel : Int]
\* A word of a value, also one beyond its width.
WordOf(k, x, i) == [w \in 1 .. k |-> (100 * (w - 1)) + x][i]
ValueWords == {WordOf(t[1], t[2], t[3]) : t \in Nat \X Int \X Nat}
Literals == Int \cup ValueWords \cup {{}, {1}} \cup DmcontrolValues \cup AbstractCommands \cup Insns
WrittenValues ==
    {Lit(v) : v \in Literals} \cup {Word(x, i) : x \in Gprs, i \in Nat} \cup {<<"select", h>> : h \in Int}
Places == {"s0", "s1", "buf", "res"} \X Nat
Reads ==
    [k : {"once"}, op : {1}, reg : DmRegs, i : Nat, val : {None},
     into : {None, <<"dmcontrol">>, <<"nonexistent">>} \cup Places]
Writes == [k : {"once"}, op : {2}, reg : DmRegs, i : Nat, val : WrittenValues, into : {None}]
Polls ==
    [k : {"poll"}, op : {1}, reg : {"dmstatus"}, i : {0}, val : {None}, into : {"halted", "resumeack"}]
    \cup {PollNotBusy}
Others == [k : {"once", "die", "xlen", "enum"}, op : {0}, reg : DmRegs, i : Nat, val : {None}, into : {None}]
Reqs == Reads \cup Writes \cup Polls \cup Others

\* What a request can do to the command under way.  A read of the data starts
\* one only while abstractauto is set.
Starts(q) == (q.op = 2 /\ q.reg \in {"data", "progbuf", "command"}) \/ (q.op = 1 /\ q.reg = "progbuf")
Selects(q) == (q.op = 2 /\ q.reg = "dmcontrol") \/ q.k \in {"xlen", "enum"}
DataRead(q) == q.op = 1 /\ q.reg = "data"
Arms(q) == q.op = 2 /\ q.reg = "abstractauto" /\ q.val # Lit({})
Disarms(q) == q.op = 2 /\ q.reg = "abstractauto" /\ q.val = Lit({})

Awaits(t) == \E k \in DOMAIN t : t[k] = PollNotBusy /\ \A m \in 1 .. k - 1 : ~Selects(t[m])
Settled(t) ==
    \A i \in DOMAIN t : Starts(t[i]) =>
        \E k \in DOMAIN t : i < k /\ t[k] = PollNotBusy /\ \A m \in i + 1 .. k - 1 : ~Selects(t[m])
NoReads(t) == \A i \in DOMAIN t : ~DataRead(t[i]) /\ t[i].k \notin {"xlen", "enum"}
ArmedQuiet(t) ==
    \A i, m \in DOMAIN t : Arms(t[i]) /\ i < m => ~DataRead(t[m]) /\ t[m].k \notin {"xlen", "enum"}
HasDisarm(t) == \E k \in DOMAIN t : Disarms(t[k])
Disarmed(t) == \A i \in DOMAIN t : Arms(t[i]) => \E k \in DOMAIN t : i < k /\ Disarms(t[k])

Calm == {t \in Seq(Reqs) : \A i \in DOMAIN t : ~Selects(t[i]) /\ ~Arms(t[i])}
Parts == {t \in Seq(Reqs) : Settled(t) /\ \A i \in DOMAIN t : ~Arms(t[i])}
Waiting == {t \in Parts : Awaits(t)}
Quiet == {t \in Parts : NoReads(t)}
Armed == {t \in Seq(Reqs) : Settled(t) /\ ArmedQuiet(t)}
Scripts == {t \in Armed : Disarmed(t)}

\* The two parts of a concatenation, place by place.
LEMMA Concat ==
  ASSUME NEW s \in Seq(Reqs), NEW t \in Seq(Reqs)
  PROVE  /\ s \o t \in Seq(Reqs) /\ Len(s) \in Nat /\ Len(t) \in Nat
         /\ DOMAIN s = 1 .. Len(s) /\ DOMAIN t = 1 .. Len(t) /\ DOMAIN (s \o t) = 1 .. Len(s) + Len(t)
         /\ \A i \in 1 .. Len(s) : (s \o t)[i] = s[i]
         /\ \A i \in 1 .. Len(t) : (s \o t)[Len(s) + i] = t[i]
         /\ \A i \in 1 .. Len(s) + Len(t) : i \in 1 .. Len(s) \/ \E j \in 1 .. Len(t) : i = Len(s) + j
  <1> DEFINE n == Len(s)
             m == Len(t)
             u == s \o t
  <1>1. /\ u \in Seq(Reqs) /\ Len(u) = n + m
        /\ \A i \in 1 .. n + m : u[i] = IF i <= n THEN s[i] ELSE t[i - n]
    BY ConcatProperties
  <1>2. n \in Nat /\ m \in Nat /\ DOMAIN s = 1 .. n /\ DOMAIN t = 1 .. m /\ DOMAIN u = 1 .. n + m
    BY <1>1, LenProperties
  <1> HIDE DEF n, m, u
  <1>3. \A i \in 1 .. n : u[i] = s[i]
    BY <1>1, <1>2
  <1>4. ASSUME NEW i \in 1 .. m
        PROVE  u[n + i] = t[i]
    <2>1. n + i \in 1 .. n + m /\ ~(n + i <= n) /\ (n + i) - n = i
      BY <1>2
    <2> QED BY <2>1, <1>1
  <1>5. ASSUME NEW i \in 1 .. n + m, i \notin 1 .. n
        PROVE  \E j \in 1 .. m : i = n + j
    <2>1. i - n \in 1 .. m /\ i = n + (i - n)
      BY <1>2, <1>5
    <2> QED BY <2>1
  <1> QED BY <1>1, <1>2, <1>3, <1>4, <1>5 DEF n, m, u

\* Started requests are followed by a poll in the part they are in, or the
\* second part begins with one.
LEMMA ConcatSettled ==
  ASSUME NEW s \in Seq(Reqs), NEW t \in Seq(Reqs), Settled(t),
         Settled(s) \/ (Awaits(t) /\ \A i \in DOMAIN s : ~Selects(s[i]))
  PROVE  Settled(s \o t)
  <1> DEFINE n == Len(s)
             u == s \o t
  <1> USE Concat
  <1> SUFFICES ASSUME NEW i \in DOMAIN u, Starts(u[i])
               PROVE  \E k \in DOMAIN u : i < k /\ u[k] = PollNotBusy /\ \A m \in i + 1 .. k - 1 : ~Selects(u[m])
    BY DEF Settled
  <1>1. CASE i \in 1 .. n /\ Settled(s)
    <2>1. PICK k \in DOMAIN s : i < k /\ s[k] = PollNotBusy /\ \A m \in i + 1 .. k - 1 : ~Selects(s[m])
      BY <1>1 DEF Settled
    <2>2. k \in DOMAIN u /\ u[k] = s[k]
      BY <2>1
    <2>3. ASSUME NEW m \in i + 1 .. k - 1
          PROVE  ~Selects(u[m])
      <3>1. m \in 1 .. n /\ u[m] = s[m]
        BY <1>1, <2>1
      <3> QED BY <2>1, <3>1
    <2> QED BY <2>1, <2>2, <2>3
  <1>2. CASE i \in 1 .. n /\ Awaits(t) /\ \A j \in DOMAIN s : ~Selects(s[j])
    <2>1. PICK k \in DOMAIN t : t[k] = PollNotBusy /\ \A m \in 1 .. k - 1 : ~Selects(t[m])
      BY <1>2 DEF Awaits
    <2>2. n + k \in DOMAIN u /\ u[n + k] = t[k] /\ i < n + k
      BY <2>1, <1>2
    <2>3. ASSUME NEW m \in i + 1 .. (n + k) - 1
          PROVE  ~Selects(u[m])
      <3>1. CASE m \in 1 .. n
        BY <1>2, <3>1
      <3>2. CASE m \notin 1 .. n
        <4>1. m \in 1 .. n + Len(t)
          BY <1>2, <2>1
        <4>2. PICK j \in 1 .. Len(t) : m = n + j
          BY <3>2, <4>1
        <4>3. j \in 1 .. k - 1
          BY <4>2
        <4> QED BY <4>2, <4>3, <2>1
      <3> QED BY <3>1, <3>2
    <2> QED BY <2>1, <2>2, <2>3
  <1>3. CASE i \notin 1 .. n
    <2>1. PICK j \in 1 .. Len(t) : i = n + j
      <3>1. i \in 1 .. n + Len(t)
        OBVIOUS
      <3> QED BY <1>3, <3>1
    <2>2. PICK k \in DOMAIN t : j < k /\ t[k] = PollNotBusy /\ \A m \in j + 1 .. k - 1 : ~Selects(t[m])
      BY <2>1 DEF Settled
    <2>3. n + k \in DOMAIN u /\ u[n + k] = t[k] /\ i < n + k
      BY <2>1, <2>2
    <2>4. ASSUME NEW m \in i + 1 .. (n + k) - 1
          PROVE  ~Selects(u[m])
      <3>1. PICK x \in 1 .. Len(t) : m = n + x
        <4>1. m \in 1 .. n + Len(t) /\ m \notin 1 .. n
          BY <2>1, <2>2
        <4> QED BY <4>1
      <3>2. x \in j + 1 .. k - 1
        BY <2>1, <3>1
      <3> QED BY <2>2, <3>1, <3>2
    <2> QED BY <2>2, <2>3, <2>4
  <1> QED BY <1>1, <1>2, <1>3

\* A poll ahead, in the first part or behind a first part that selects nothing.
LEMMA ConcatAwaits ==
  ASSUME NEW s \in Seq(Reqs), NEW t \in Seq(Reqs),
         Awaits(s) \/ (Awaits(t) /\ \A i \in DOMAIN s : ~Selects(s[i]))
  PROVE  Awaits(s \o t)
  <1> DEFINE n == Len(s)
             u == s \o t
  <1> USE Concat
  <1>1. CASE Awaits(s)
    <2>1. PICK k \in DOMAIN s : s[k] = PollNotBusy /\ \A m \in 1 .. k - 1 : ~Selects(s[m])
      BY <1>1 DEF Awaits
    <2>2. k \in DOMAIN u /\ u[k] = s[k] /\ \A m \in 1 .. k - 1 : u[m] = s[m]
      BY <2>1
    <2> QED BY <2>1, <2>2 DEF Awaits
  <1>2. CASE Awaits(t) /\ \A i \in DOMAIN s : ~Selects(s[i])
    <2>1. PICK k \in DOMAIN t : t[k] = PollNotBusy /\ \A m \in 1 .. k - 1 : ~Selects(t[m])
      BY <1>2 DEF Awaits
    <2>2. n + k \in DOMAIN u /\ u[n + k] = t[k]
      BY <2>1
    <2>3. ASSUME NEW m \in 1 .. (n + k) - 1
          PROVE  ~Selects(u[m])
      <3>1. CASE m \in 1 .. n
        BY <1>2, <3>1
      <3>2. CASE m \notin 1 .. n
        <4>1. m \in 1 .. n + Len(t)
          BY <2>1
        <4>2. PICK j \in 1 .. Len(t) : m = n + j
          BY <3>2, <4>1
        <4>3. j \in 1 .. k - 1
          BY <4>2
        <4> QED BY <4>2, <4>3, <2>1
      <3> QED BY <3>1, <3>2
    <2> QED BY <2>1, <2>2, <2>3 DEF Awaits
  <1> QED BY <1>1, <1>2

\* Parts can be put together.
LEMMA PartsConcat ==
  ASSUME NEW s \in Parts, NEW t \in Parts
  PROVE  s \o t \in Parts
  <1>1. s \in Seq(Reqs) /\ t \in Seq(Reqs) /\ Settled(s \o t)
    BY ConcatSettled DEF Parts
  <1>2. \A i \in DOMAIN (s \o t) : ~Arms((s \o t)[i])
    BY <1>1, Concat DEF Parts
  <1> QED BY <1>1, <1>2, Concat DEF Parts

\* A part behind what selects nothing still waits.
LEMMA WaitingConcat ==
  ASSUME NEW s \in Waiting \cup Calm, NEW t \in Parts, s \in Waiting \/ t \in Waiting
  PROVE  s \o t \in Waiting
  <1>0. s \in Seq(Reqs) /\ t \in Seq(Reqs)
    BY DEF Waiting, Parts, Calm
  <1>1. Settled(s \o t)
    BY <1>0, ConcatSettled DEF Waiting, Parts, Calm
  <1>2. \A i \in DOMAIN (s \o t) : ~Arms((s \o t)[i])
    BY <1>0, Concat DEF Parts, Waiting, Calm
  <1>3. Awaits(s \o t)
    BY <1>0, ConcatAwaits DEF Waiting, Calm
  <1> QED BY <1>0, <1>1, <1>2, <1>3, Concat DEF Parts, Waiting

\* Calm requests can be put together.
LEMMA CalmConcat ==
  ASSUME NEW s \in Calm, NEW t \in Calm
  PROVE  s \o t \in Calm
  <1>1. s \in Seq(Reqs) /\ t \in Seq(Reqs)
    BY DEF Calm
  <1>2. \A i \in DOMAIN (s \o t) : ~Arms((s \o t)[i]) /\ ~Selects((s \o t)[i])
    BY <1>1, Concat DEF Calm
  <1> QED BY <1>1, <1>2, Concat DEF Calm

\* Quiet parts can be put together.
LEMMA QuietConcat ==
  ASSUME NEW s \in Quiet, NEW t \in Quiet
  PROVE  s \o t \in Quiet
  <1>1. s \in Parts /\ t \in Parts /\ s \in Seq(Reqs) /\ t \in Seq(Reqs)
    BY DEF Quiet, Parts
  <1>2. NoReads(s \o t)
    BY <1>1, Concat DEF Quiet, NoReads
  <1> QED BY <1>1, <1>2, PartsConcat DEF Quiet

\* What is switched on in the first part meets no read in the second.
LEMMA ArmedConcat ==
  ASSUME NEW s \in Armed, NEW t \in Armed, s \in Parts \/ t \in Quiet
  PROVE  s \o t \in Armed
  <1>1. s \in Seq(Reqs) /\ t \in Seq(Reqs) /\ Settled(s \o t)
    BY ConcatSettled DEF Armed
  <1> DEFINE u == s \o t
             n == Len(s)
  <1>2. ASSUME NEW i \in DOMAIN u, NEW m \in DOMAIN u, Arms(u[i]), i < m
        PROVE  ~DataRead(u[m]) /\ u[m].k \notin {"xlen", "enum"}
    <2>1. CASE s \in Parts
      <3>1. i \notin 1 .. n
        BY <1>1, <1>2, <2>1, Concat DEF Parts
      <3>2. PICK j \in 1 .. Len(t) : i = n + j
        BY <1>1, <3>1, Concat
      <3>3. m \notin 1 .. n
        BY <1>1, <1>2, <3>2, Concat
      <3>4. PICK x \in 1 .. Len(t) : m = n + x
        BY <1>1, <3>3, Concat
      <3>5. j < x /\ u[i] = t[j] /\ u[m] = t[x] /\ j \in DOMAIN t /\ x \in DOMAIN t
        BY <1>1, <1>2, <3>2, <3>4, Concat
      <3> QED BY <1>2, <3>5 DEF Armed, ArmedQuiet
    <2>2. CASE t \in Quiet
      <3>1. CASE m \in 1 .. n
        <4>1. i \in 1 .. n /\ u[i] = s[i] /\ u[m] = s[m] /\ i \in DOMAIN s /\ m \in DOMAIN s
          BY <1>1, <1>2, <3>1, Concat
        <4> QED BY <1>2, <4>1 DEF Armed, ArmedQuiet
      <3>2. CASE m \notin 1 .. n
        <4>1. PICK x \in 1 .. Len(t) : m = n + x
          BY <1>1, <3>2, Concat
        <4>2. u[m] = t[x] /\ x \in DOMAIN t
          BY <1>1, <4>1, Concat
        <4> QED BY <2>2, <4>2 DEF Quiet, NoReads
      <3> QED BY <3>1, <3>2
    <2> QED BY <2>1, <2>2
  <1> HIDE DEF u
  <1>3. ArmedQuiet(u)
    BY <1>2 DEF ArmedQuiet
  <1> QED BY <1>1, <1>3, Concat DEF Armed, u

\* Scripts can be put together, if what the first leaves switched on is
\* switched off, unread, in the second.
LEMMA ScriptsConcat ==
  ASSUME NEW s \in Armed, NEW t \in Scripts,
         s \in Parts \/ (s \in Scripts /\ t \in Quiet) \/ (t \in Quiet /\ HasDisarm(t))
  PROVE  s \o t \in Scripts
  <1>1. s \in Seq(Reqs) /\ t \in Seq(Reqs) /\ t \in Armed
    BY DEF Armed, Scripts
  <1>2. s \o t \in Armed
    BY <1>1, ArmedConcat
  <1> DEFINE u == s \o t
             n == Len(s)
  <1>3. ASSUME NEW i \in DOMAIN u, Arms(u[i])
        PROVE  \E k \in DOMAIN u : i < k /\ Disarms(u[k])
    <2>1. CASE i \in 1 .. n
      <3>1. i \in DOMAIN s /\ Arms(s[i])
        BY <1>1, <1>3, <2>1, Concat
      <3>2. s \notin Parts
        BY <3>1 DEF Parts
      <3>3. CASE s \in Scripts
        <4>1. PICK k \in DOMAIN s : i < k /\ Disarms(s[k])
          BY <3>1, <3>3 DEF Scripts, Disarmed
        <4>2. k \in DOMAIN u /\ u[k] = s[k]
          BY <1>1, <4>1, Concat
        <4> QED BY <4>1, <4>2
      <3>4. CASE HasDisarm(t)
        <4>1. PICK k \in DOMAIN t : Disarms(t[k])
          BY <3>4 DEF HasDisarm
        <4>2. n + k \in DOMAIN u /\ u[n + k] = t[k] /\ i < n + k
          BY <1>1, <2>1, <4>1, Concat
        <4> QED BY <4>1, <4>2
      <3> QED BY <3>2, <3>3, <3>4
    <2>2. CASE i \notin 1 .. n
      <3>1. PICK j \in 1 .. Len(t) : i = n + j
        BY <1>1, <2>2, Concat
      <3>2. j \in DOMAIN t /\ u[i] = t[j]
        BY <1>1, <3>1, Concat
      <3>3. PICK k \in DOMAIN t : j < k /\ Disarms(t[k])
        BY <1>3, <3>2 DEF Scripts, Disarmed
      <3>4. n + k \in DOMAIN u /\ u[n + k] = t[k] /\ i < n + k
        BY <1>1, <3>1, <3>3, Concat
      <3> QED BY <3>3, <3>4
    <2> QED BY <2>1, <2>2
  <1> HIDE DEF u
  <1>4. Disarmed(u)
    BY <1>3 DEF Disarmed
  <1> QED BY <1>2, <1>4 DEF Scripts, u

\* What never switches autoexec on is a script.
LEMMA PartsAreScripts == Parts \subseteq Scripts
  BY DEF Parts, Scripts, Armed, ArmedQuiet, Disarmed

----------------------------------------------------------------------------
(* The pieces that operations are made of. *)

\* A literal sequence of a few requests.
LEMMA Two ==
  ASSUME NEW a \in Reqs, NEW b \in Reqs
  PROVE  /\ <<a>> \in Seq(Reqs) /\ DOMAIN <<a>> = 1 .. 1 /\ <<a>>[1] = a
         /\ <<a, b>> \in Seq(Reqs) /\ DOMAIN <<a, b>> = 1 .. 2 /\ <<a, b>>[1] = a /\ <<a, b>>[2] = b
  OBVIOUS

\* The requests of the transport are requests.
LEMMA Requested ==
  /\ \A reg \in DmRegs, i \in Nat, v \in WrittenValues : write(reg, i, v) \in Reqs
  /\ \A reg \in DmRegs, i \in Nat, x \in {None, <<"dmcontrol">>, <<"nonexistent">>} \cup Places :
        read(reg, i, x) \in Reqs
  /\ \A x \in {"halted", "resumeack"} : Poll("dmstatus", x) \in Reqs
  /\ \A k \in {"die", "xlen", "enum"}, n \in Nat : Decide(k, n) \in Reqs
  /\ Nop \in Reqs /\ PollNotBusy \in Reqs
  /\ \A v \in Literals : Lit(v) \in WrittenValues
  /\ ClearError \in Reqs /\ ReadStatus \in Reqs
  <1>1. \A reg \in DmRegs, i \in Nat, v \in WrittenValues : write(reg, i, v) \in Writes
    BY DEF write, Request, Writes
  <1>2. \A reg \in DmRegs, i \in Nat, x \in {None, <<"dmcontrol">>, <<"nonexistent">>} \cup Places :
          read(reg, i, x) \in Reads
    BY DEF read, Request, Reads
  <1>3. \A x \in {"halted", "resumeack"} : Poll("dmstatus", x) \in Polls
    BY DEF Poll, Request, Polls
  <1>4. \A k \in {"die", "xlen", "enum"}, n \in Nat : Decide(k, n) \in Others
    BY DEF Decide, Request, Others, DmRegs
  <1>5. Nop \in Others
    BY DEF Nop, Request, Others, DmRegs
  <1>6. \A v \in Literals : Lit(v) \in WrittenValues
    BY DEF WrittenValues
  <1>7. Lit(0) \in WrittenValues
    BY <1>6 DEF Literals
  <1>8. ClearError \in Writes /\ ReadStatus \in Reads
    BY <1>1, <1>2, <1>7 DEF ClearError, ReadStatus, DmRegs
  <1>9. PollNotBusy \in Polls
    BY DEF Polls
  <1> QED BY <1>1, <1>2, <1>3, <1>4, <1>5, <1>6, <1>8, <1>9 DEF Reqs

\* Requests that start nothing are a part of their own.
LEMMA InertParts ==
  ASSUME NEW t \in Seq(Reqs), \A i \in DOMAIN t : ~Starts(t[i]) /\ ~Arms(t[i])
  PROVE  t \in Parts
  BY DEF Parts, Settled

----------------------------------------------------------------------------
(* Commands, and what an operation does before and after its body. *)

\* A function on 1 .. n is a sequence.
LEMMA FunSeq ==
  ASSUME NEW S, NEW n \in Nat, NEW f, f = [i \in 1 .. n |-> f[i]], \A i \in 1 .. n : f[i] \in S
  PROVE  f \in Seq(S) /\ Len(f) = n /\ DOMAIN f = 1 .. n
  OBVIOUS

\* Nothing is a part.
LEMMA NoRequests == <<>> \in Parts /\ NoReads(<<>>) /\ <<>> \in Quiet
  <1>1. <<>> \in Seq(Reqs) /\ DOMAIN <<>> = {}
    BY EmptySeq
  <1> QED BY <1>1, InertParts DEF NoReads, Quiet

\* A command is followed by the poll that sees it end, and nothing before that
\* poll selects another hart.
LEMMA RunIsWaiting ==
  ASSUME NEW command \in AbstractCommands, NEW program \in Seq(Insns),
         NEW data \in Seq(WrittenValues), NEW into \in Seq(Places)
  PROVE  /\ run_abstract_command(command, program, data, into) \in Waiting
         /\ command.write => run_abstract_command(command, program, data, into) \in Quiet
         /\ RunAcOrDie(command, program, data, into) \in Waiting
         /\ command.write => RunAcOrDie(command, program, data, into) \in Quiet
  <1> DEFINE P == [i \in DOMAIN program |-> write("progbuf", i, Lit(program[i]))]
             D == IF command.write THEN [i \in DOMAIN data |-> write("data", i, data[i])] ELSE <<>>
             X == <<write("command", 0, Lit(command)), PollNotBusy>>
             R == IF command.write THEN <<>> ELSE [i \in DOMAIN into |-> read("data", i, into[i])]
             Z == <<Decide("die", 0)>>
  <1>0. /\ Lit(command) \in WrittenValues
        /\ DOMAIN program = 1 .. Len(program) /\ DOMAIN data = 1 .. Len(data) /\ DOMAIN into = 1 .. Len(into)
        /\ Len(program) \in Nat /\ Len(data) \in Nat /\ Len(into) \in Nat
        /\ \A i \in 1 .. Len(program) : Lit(program[i]) \in WrittenValues
        /\ \A i \in 1 .. Len(data) : data[i] \in WrittenValues
        /\ \A i \in 1 .. Len(into) : into[i] \in Places
    BY Requested, LenProperties, ElementOfSeq DEF Literals
  <1>1. P \in Seq(Reqs) /\ \A i \in DOMAIN P : ~Selects(P[i]) /\ ~Arms(P[i]) /\ ~DataRead(P[i]) /\ P[i].k = "once"
    <2>1. \A i \in 1 .. Len(program) : P[i] \in Reqs /\ P[i] = write("progbuf", i, Lit(program[i]))
      BY <1>0, Requested DEF DmRegs
    <2>2. P = [i \in 1 .. Len(program) |-> P[i]]
      BY <1>0
    <2>3. P \in Seq(Reqs) /\ DOMAIN P = 1 .. Len(program)
      <3> HIDE DEF P
      <3> QED BY <1>0, <2>1, <2>2, FunSeq
    <2> HIDE DEF P
    <2> QED BY <2>1, <2>3 DEF Selects, Arms, DataRead, write, Request
  <1>2. D \in Seq(Reqs) /\ \A i \in DOMAIN D : ~Selects(D[i]) /\ ~Arms(D[i]) /\ ~DataRead(D[i]) /\ D[i].k = "once"
    <2>1. CASE command.write
      <3>1. \A i \in 1 .. Len(data) : D[i] \in Reqs /\ D[i] = write("data", i, data[i])
        BY <1>0, <2>1, Requested DEF DmRegs
      <3>2. D = [i \in 1 .. Len(data) |-> D[i]]
        BY <1>0, <2>1
      <3>3. D \in Seq(Reqs) /\ DOMAIN D = 1 .. Len(data)
        <4> HIDE DEF D
        <4> QED BY <1>0, <3>1, <3>2, FunSeq
      <3> HIDE DEF D
      <3> QED BY <3>1, <3>3 DEF Selects, Arms, DataRead, write, Request
    <2>2. CASE ~command.write
      BY <2>2
    <2> QED BY <2>1, <2>2
  <1>3. X \in Waiting /\ NoReads(X)
    <2>1. /\ X \in Seq(Reqs) /\ DOMAIN X = 1 .. 2 /\ X[1] = write("command", 0, Lit(command)) /\ X[2] = PollNotBusy
      BY <1>0, Requested, Two DEF DmRegs
    <2>2. /\ ~Selects(X[1]) /\ ~Arms(X[1]) /\ ~DataRead(X[1]) /\ X[1].k = "once"
          /\ ~Arms(X[2]) /\ ~Starts(X[2]) /\ ~DataRead(X[2]) /\ X[2].k = "poll"
      BY <2>1 DEF Selects, Arms, Starts, DataRead, write, Request, PollNotBusy, Poll
    <2> HIDE DEF X
    <2>3. Awaits(X) /\ Settled(X)
      <3>1. \A m \in 1 .. 2 - 1 : m = 1
        OBVIOUS
      <3>2. \A m \in 1 + 1 .. 2 - 1 : FALSE
        OBVIOUS
      <3>3. 1 \in DOMAIN X /\ 2 \in DOMAIN X /\ 1 < 2 /\ \A i \in DOMAIN X : i = 1 \/ i = 2
        BY <2>1
      <3> QED BY <2>1, <2>2, <3>1, <3>2, <3>3 DEF Awaits, Settled
    <2> QED BY <2>1, <2>2, <2>3 DEF Waiting, Parts, NoReads
  <1>4. R \in Parts /\ (command.write => NoReads(R))
    <2>1. CASE ~command.write
      <3>1. \A i \in 1 .. Len(into) : R[i] \in Reqs /\ R[i] = read("data", i, into[i])
        BY <1>0, <2>1, Requested DEF DmRegs
      <3>2. R = [i \in 1 .. Len(into) |-> R[i]]
        BY <1>0, <2>1
      <3>3. R \in Seq(Reqs) /\ DOMAIN R = 1 .. Len(into)
        <4> HIDE DEF R
        <4> QED BY <1>0, <3>1, <3>2, FunSeq
      <3> HIDE DEF R
      <3>4. \A i \in DOMAIN R : ~Starts(R[i]) /\ ~Arms(R[i])
        BY <3>1, <3>3 DEF Starts, Arms, read, Request
      <3> QED BY <2>1, <3>3, <3>4, InertParts
    <2>2. CASE command.write
      <3>1. R = <<>>
        BY <2>2
      <3> HIDE DEF R
      <3> QED BY <3>1, NoRequests
    <2> QED BY <2>1, <2>2
  <1>5. Z \in Parts /\ NoReads(Z)
    <2>1. /\ Z \in Seq(Reqs) /\ DOMAIN Z = 1 .. 1 /\ Z[1] = Decide("die", 0)
      BY Requested, Two
    <2> HIDE DEF Z
    <2> QED BY <2>1, InertParts DEF NoReads, Starts, Arms, DataRead, Decide, Request
  <1>6. run_abstract_command(command, program, data, into) = ((P \o D) \o X) \o R
    BY DEF run_abstract_command
  <1>7. RunAcOrDie(command, program, data, into) = (((P \o D) \o X) \o R) \o Z
    BY <1>6 DEF RunAcOrDie
  <1> HIDE DEF P, D, X, R, Z
  <1>8. P \o D \in Calm
    BY <1>1, <1>2, CalmConcat DEF Calm
  <1>9. (P \o D) \o X \in Waiting
    BY <1>3, <1>8, WaitingConcat DEF Waiting
  <1>10. ((P \o D) \o X) \o R \in Waiting
    BY <1>4, <1>9, WaitingConcat
  <1>11. (((P \o D) \o X) \o R) \o Z \in Waiting
    BY <1>5, <1>10, WaitingConcat
  <1>12. ASSUME command.write
         PROVE  NoReads(((P \o D) \o X) \o R)
    <2>1. NoReads(P) /\ NoReads(D) /\ NoReads(X) /\ NoReads(R)
      BY <1>1, <1>2, <1>3, <1>4, <1>12 DEF NoReads
    <2>2. \A s, t \in Seq(Reqs) : NoReads(s) /\ NoReads(t) => NoReads(s \o t)
      BY Concat DEF NoReads
    <2>3. P \o D \in Seq(Reqs) /\ (P \o D) \o X \in Seq(Reqs) /\ X \in Seq(Reqs) /\ R \in Seq(Reqs)
      BY <1>3, <1>4, <1>8, <1>9 DEF Calm, Waiting, Parts
    <2> QED BY <1>1, <1>2, <2>1, <2>2, <2>3
  <1>13. ASSUME command.write
         PROVE  ((P \o D) \o X) \o R \in Quiet /\ (((P \o D) \o X) \o R) \o Z \in Quiet
    <2>1. ((P \o D) \o X) \o R \in Quiet /\ Z \in Quiet
      BY <1>5, <1>10, <1>12, <1>13 DEF Quiet, Waiting
    <2> QED BY <2>1, QuietConcat
  <1> QED BY <1>6, <1>7, <1>10, <1>11, <1>13

Host(l) == l.xlen \in Nat /\ l.current_hart \in Int /\ l.num_harts \in Nat

\* What halt, resume and select write to dmcontrol.
LEMMA DmcontrolTyped ==
  ASSUME NEW h \in Int, NEW a \in BOOLEAN, NEW b \in BOOLEAN
  PROVE  write("dmcontrol", 0, Dmcontrol(h, a, b)) \in Reqs
  <1> DEFINE r == [dmactive |-> TRUE, haltreq |-> a, resumereq |-> b, ndmreset |-> FALSE, hartsel |-> h]
  <1>1. r \in Literals
    BY DEF Literals, DmcontrolValues
  <1>2. Dmcontrol(h, a, b) = Lit(r)
    BY DEF Dmcontrol
  <1> HIDE DEF r
  <1> QED BY <1>1, <1>2, Requested DEF DmRegs

\* halt, resume and select_hart start no command.
LEMMA HaltResumeAreQuiet ==
  ASSUME NEW h \in Int
  PROVE  /\ halt(h) \in Quiet /\ resume(h) \in Quiet /\ select_hart(h) \in Quiet
  <1>2. \A a, b \in BOOLEAN : write("dmcontrol", 0, Dmcontrol(h, a, b)) \in Reqs
    BY DmcontrolTyped
  <1>3. ASSUME NEW a \in BOOLEAN, NEW b \in BOOLEAN, NEW x \in {"halted", "resumeack"}
        PROVE  <<write("dmcontrol", 0, Dmcontrol(h, a, b)), Poll("dmstatus", x),
                 write("dmcontrol", 0, Dmcontrol(h, FALSE, FALSE)), ReadStatus>> \in Quiet
    <2> DEFINE s == <<write("dmcontrol", 0, Dmcontrol(h, a, b)), Poll("dmstatus", x),
                      write("dmcontrol", 0, Dmcontrol(h, FALSE, FALSE)), ReadStatus>>
    <2>0. FALSE \in BOOLEAN /\ ReadStatus \in Reqs /\ Poll("dmstatus", x) \in Reqs
      BY Requested
    <2>1. s \in Seq(Reqs) /\ DOMAIN s = 1 .. 4 /\ s[1] = write("dmcontrol", 0, Dmcontrol(h, a, b))
          /\ s[2] = Poll("dmstatus", x) /\ s[3] = write("dmcontrol", 0, Dmcontrol(h, FALSE, FALSE)) /\ s[4] = ReadStatus
      <3>1. \A p, q, r, t \in Reqs : <<p, q, r, t>> \in Seq(Reqs) /\ DOMAIN <<p, q, r, t>> = 1 .. 4
        OBVIOUS
      <3> QED BY <1>2, <2>0, <3>1
    <2> HIDE DEF s
    <2>2. \A i \in DOMAIN s : i = 1 \/ i = 2 \/ i = 3 \/ i = 4
      BY <2>1
    <2>3. \A i \in DOMAIN s : ~Starts(s[i]) /\ ~Arms(s[i]) /\ ~DataRead(s[i]) /\ s[i].k \in {"once", "poll"}
      BY <2>1, <2>2 DEF Starts, Arms, DataRead, write, ReadStatus, read, Poll, Request
    <2> QED BY <2>1, <2>3, InertParts DEF Quiet, NoReads, s
  <1>4. select_hart(h) \in Quiet
    <2> DEFINE p == read("dmcontrol", 0, <<"dmcontrol">>)
               q == write("dmcontrol", 0, <<"select", h>>)
               s == <<p, q>>
    <2>1. p \in Reqs /\ q \in Reqs
      BY Requested DEF DmRegs, WrittenValues
    <2>2. s \in Seq(Reqs) /\ DOMAIN s = 1 .. 2 /\ s[1] = p /\ s[2] = q
      BY <2>1, Two
    <2>3. s = select_hart(h)
      BY DEF select_hart
    <2> HIDE DEF s
    <2>4. \A i \in DOMAIN s : ~Starts(s[i]) /\ ~Arms(s[i]) /\ ~DataRead(s[i]) /\ s[i].k = "once"
      BY <2>2 DEF Starts, Arms, DataRead, write, read, Request
    <2> QED BY <2>2, <2>3, <2>4, InertParts DEF Quiet, NoReads
  <1> QED BY <1>3, <1>4 DEF halt, resume

\* Both are parts.
LEMMA WaitingIsParts == Waiting \subseteq Parts /\ Quiet \subseteq Parts
  BY DEF Waiting, Quiet

\* AC_ACCESS_REGISTER.
LEMMA CommandTyped ==
  ASSUME NEW r \in Gprs, NEW n \in Nat, NEW a \in BOOLEAN, NEW b \in BOOLEAN
  PROVE  Command(r, n, a, b) \in AbstractCommands /\ Command(r, n, a, b).write = a
  BY DEF Command, AbstractCommands

\* The words of host variables, literals and places.
LEMMA LocalsTyped ==
  ASSUME NEW l, Host(l)
  PROVE  /\ \A x \in {"s0", "s1"} : Local(l, x) \in Seq(Places)
         /\ \A x \in Gprs, n \in Nat : Words(l, x, n) \in Seq(WrittenValues)
         /\ \A x \in Int : LitWide(l, x) \in Seq(WrittenValues)
         /\ <<>> \in Seq(Places) /\ <<>> \in Seq(WrittenValues) /\ <<>> \in Seq(Insns)
  <1>1. ASSUME NEW x \in {"s0", "s1"}
        PROVE  Local(l, x) \in Seq(Places)
    BY <1>1 DEF Local, Host, Places
  <1>2. ASSUME NEW x \in Gprs, NEW n \in Nat
        PROVE  Words(l, x, n) \in Seq(WrittenValues)
    <2>1. \A w \in 1 .. l.xlen : Word(x, n + w) \in WrittenValues
      BY DEF Host, WrittenValues
    <2> QED BY <2>1 DEF Words, Host
  <1>3. ASSUME NEW x \in Int
        PROVE  LitWide(l, x) \in Seq(WrittenValues)
    <2>1. \A w \in 1 .. l.xlen : Lit(IF w = 1 THEN x ELSE 0) \in WrittenValues
      BY Requested DEF Literals
    <2> QED BY <2>1 DEF LitWide, Host
  <1> QED BY <1>1, <1>2, <1>3

\* save_reg and restore_reg wait for their command.
LEMMA SaveRestore ==
  ASSUME NEW l, Host(l), NEW r \in {"s0", "s1"}
  PROVE  save_reg(l, r) \in Waiting /\ restore_reg(l, r) \in Waiting /\ restore_reg(l, r) \in Quiet
  <1>1. Command(r, l.xlen, FALSE, FALSE) \in AbstractCommands /\ Command(r, l.xlen, TRUE, FALSE) \in AbstractCommands
        /\ Command(r, l.xlen, TRUE, FALSE).write
    BY CommandTyped DEF Host, Gprs
  <1>2. Local(l, r) \in Seq(Places) /\ Words(l, r, 0) \in Seq(WrittenValues) /\ <<>> \in Seq(Places)
        /\ <<>> \in Seq(WrittenValues) /\ <<>> \in Seq(Insns)
    BY LocalsTyped DEF Gprs
  <1> QED BY <1>1, <1>2, RunIsWaiting DEF save_reg, restore_reg

\* What runs between the halt and the resume of a chunk.
LEMMA SavingScripts ==
  ASSUME NEW l, Host(l), NEW body \in Scripts
  PROVE  Saving(l, body) \in Scripts
  <1> DEFINE A == (halt(l.current_hart) \o save_reg(l, "s0")) \o save_reg(l, "s1")
  <1>1. A \in Parts
    <2>1. halt(l.current_hart) \in Parts /\ save_reg(l, "s0") \in Parts /\ save_reg(l, "s1") \in Parts
      BY HaltResumeAreQuiet, SaveRestore, WaitingIsParts DEF Host
    <2> QED BY <2>1, PartsConcat
  <1>2. A \o body \in Scripts
    <2>1. A \in Armed
      BY <1>1, PartsAreScripts DEF Scripts
    <2> HIDE DEF A
    <2> QED BY <1>1, <2>1, ScriptsConcat
  <1>3. \A s \in Scripts, t \in Quiet : s \o t \in Scripts
    BY ScriptsConcat, PartsAreScripts, WaitingIsParts DEF Scripts
  <1>4. /\ restore_reg(l, "s0") \in Quiet /\ restore_reg(l, "s1") \in Quiet /\ resume(l.current_hart) \in Quiet
    BY HaltResumeAreQuiet, SaveRestore DEF Host
  <1>5. Saving(l, body) = (((A \o body) \o restore_reg(l, "s0")) \o restore_reg(l, "s1")) \o resume(l.current_hart)
    BY DEF Saving
  <1> HIDE DEF A
  <1> QED BY <1>2, <1>3, <1>4, <1>5

----------------------------------------------------------------------------
(* Chunks. *)

\* read_chunk, of any length: one command for each word, each with its poll.
LEMMA ReadScripts ==
  ASSUME NEW l, Host(l), NEW taddr \in Int, NEW n \in Nat
  PROVE  read_chunk(l, taddr, n) \in Scripts
  <1> DEFINE A == RunAcOrDie(Command("s0", l.xlen, TRUE, TRUE), <<LOAD, ADDI, ebreak>>, LitWide(l, taddr), <<>>)
             g == [i \in 1 .. n |->
                     RunAcOrDie(Command("s1", l.xlen, FALSE, i < n), <<>>, <<>>,
                                [w \in 1 .. l.xlen |-> <<"buf", ((i - 1) * l.xlen) + w>>])]
  <1>1. A \in Parts
    <2>1. <<LOAD, ADDI, ebreak>> \in Seq(Insns)
      BY DEF Insns
    <2>2. Command("s0", l.xlen, TRUE, TRUE) \in AbstractCommands
      BY CommandTyped DEF Host, Gprs
    <2> QED BY <2>1, <2>2, LocalsTyped, RunIsWaiting, WaitingIsParts
  <1>2. ASSUME NEW i \in 1 .. n
        PROVE  g[i] \in Parts
    <2> DEFINE b == i < n
               into == [w \in 1 .. l.xlen |-> <<"buf", ((i - 1) * l.xlen) + w>>]
    <2>1. Command("s1", l.xlen, FALSE, b) \in AbstractCommands
      <3>1. b \in BOOLEAN
        OBVIOUS
      <3> QED BY <3>1, CommandTyped DEF Host, Gprs
    <2>2. into \in Seq(Places)
      <3>1. \A w \in 1 .. l.xlen : ((i - 1) * l.xlen) + w \in Nat
        <4>1. i - 1 \in Nat /\ l.xlen \in Nat
          BY DEF Host
        <4>2. \A x, y \in Nat : x * y \in Nat
          OBVIOUS
        <4>3. (i - 1) * l.xlen \in Nat
          BY <4>1, <4>2
        <4> DEFINE z == (i - 1) * l.xlen
        <4> HIDE DEF z
        <4>4. \A w \in 1 .. l.xlen : z + w \in Nat
          BY <4>1, <4>3 DEF z
        <4> QED BY <4>4 DEF z
      <3>2. \A w \in 1 .. l.xlen : into[w] \in Places
        BY <3>1 DEF Places
      <3>3. into = [w \in 1 .. l.xlen |-> into[w]] /\ l.xlen \in Nat
        BY DEF Host
      <3> HIDE DEF into
      <3> QED BY <3>2, <3>3, FunSeq
    <2>3. g[i] = RunAcOrDie(Command("s1", l.xlen, FALSE, b), <<>>, <<>>, into)
      OBVIOUS
    <2> HIDE DEF b, into, g
    <2> QED BY <2>1, <2>2, <2>3, LocalsTyped, RunIsWaiting, WaitingIsParts
  <1>3. FlattenSeq(g) \in Parts
    <2>1. g = [i \in 1 .. n |-> g[i]]
      OBVIOUS
    <2> HIDE DEF g
    <2>2. g \in Seq(Parts) /\ DOMAIN g = 1 .. n
      BY <1>2, <2>1, FunSeq
    <2> QED BY <2>2, FlattenClosed, NoRequests, PartsConcat
  <1>4. read_chunk(l, taddr, n) = Saving(l, A \o FlattenSeq(g))
    BY DEF read_chunk
  <1> HIDE DEF A, g
  <1> QED BY <1>1, <1>3, <1>4, PartsConcat, PartsAreScripts, SavingScripts

\* clear_chunk, of any length: one command, that loops in the hart.
LEMMA ClearScripts ==
  ASSUME NEW l, Host(l), NEW taddr \in Int, NEW n \in Nat
  PROVE  clear_chunk(l, taddr, n) \in Scripts
  <1> DEFINE A == RunAcOrDie(Command("s0", l.xlen, TRUE, FALSE), <<>>, LitWide(l, taddr), <<>>)
             B == RunAcOrDie(Command("s1", l.xlen, TRUE, TRUE), <<STORE("x0"), ADDI, BNE(1), ebreak>>,
                             LitWide(l, taddr + n), <<>>)
  <1>1. A \in Parts
    <2>1. Command("s0", l.xlen, TRUE, FALSE) \in AbstractCommands
      BY CommandTyped DEF Host, Gprs
    <2> QED BY <2>1, LocalsTyped, RunIsWaiting, WaitingIsParts
  <1>2. B \in Parts
    <2>1. <<STORE("x0"), ADDI, BNE(1), ebreak>> \in Seq(Insns)
      <3>1. STORE("x0") \in Insns /\ ADDI \in Insns /\ BNE(1) \in Insns /\ ebreak \in Insns
        BY DEF Insns, Gprs
      <3> QED BY <3>1
    <2>2. Command("s1", l.xlen, TRUE, TRUE) \in AbstractCommands
      BY CommandTyped DEF Host, Gprs
    <2>3. taddr + n \in Int
      OBVIOUS
    <2> QED BY <2>1, <2>2, <2>3, LocalsTyped, RunIsWaiting, WaitingIsParts
  <1>3. clear_chunk(l, taddr, n) = Saving(l, A \o B)
    BY DEF clear_chunk
  <1> HIDE DEF A, B
  <1> QED BY <1>1, <1>2, <1>3, PartsConcat, PartsAreScripts, SavingScripts

\* A word with its poll: what autoexec runs is waited for.
LEMMA StoreIsQuiet ==
  ASSUME NEW l, Host(l), NEW v, \A i \in Nat : Lit(v[i]) \in WrittenValues
  PROVE  StoreAutoexec(l, v) \in Quiet
  <1> DEFINE H == IF l.xlen = 2 THEN <<write("data", 2, Lit(v[2]))>> ELSE <<>>
             w == write("data", 1, Lit(v[1]))
             T == <<w, PollNotBusy, Decide("die", 0)>>
  <1>1. T \in Seq(Reqs) /\ DOMAIN T = 1 .. 3 /\ T[1] = w /\ T[2] = PollNotBusy /\ T[3] = Decide("die", 0)
    <2>1. w \in Reqs /\ PollNotBusy \in Reqs /\ Decide("die", 0) \in Reqs
      BY Requested DEF DmRegs
    <2> HIDE DEF w
    <2> QED BY <2>1
  <1>2. /\ ~Selects(w) /\ ~Arms(w) /\ ~DataRead(w) /\ w.k = "once"
        /\ ~Arms(PollNotBusy) /\ ~DataRead(PollNotBusy) /\ PollNotBusy.k = "poll" /\ ~Starts(PollNotBusy)
        /\ ~Arms(Decide("die", 0)) /\ ~DataRead(Decide("die", 0)) /\ Decide("die", 0).k = "die" /\ ~Starts(Decide("die", 0))
    BY DEF Selects, Arms, Starts, DataRead, write, Decide, PollNotBusy, Poll, Request
  <1>3. H \in Calm /\ NoReads(H)
    <2>1. CASE l.xlen = 2
      <3> DEFINE h == write("data", 2, Lit(v[2]))
      <3>1. h \in Reqs /\ ~Selects(h) /\ ~Arms(h) /\ ~DataRead(h) /\ h.k = "once"
        BY Requested DEF DmRegs, Selects, Arms, DataRead, write, Request
      <3>2. H = <<h>>
        BY <2>1
      <3> HIDE DEF h
      <3>3. <<h>> \in Seq(Reqs) /\ DOMAIN <<h>> = 1 .. 1 /\ <<h>>[1] = h
        BY <3>1, Two
      <3> QED BY <3>1, <3>2, <3>3 DEF Calm, NoReads
    <2>2. CASE l.xlen # 2
      <3>1. H = <<>> /\ <<>> \in Seq(Reqs) /\ DOMAIN <<>> = {}
        BY <2>2, EmptySeq
      <3> QED BY <3>1 DEF Calm, NoReads
    <2> QED BY <2>1, <2>2
  <1>4. StoreAutoexec(l, v) = H \o T
    BY DEF StoreAutoexec
  <1> HIDE DEF H, T, w
  <1>5. Awaits(T) /\ Settled(T)
    <2>1. \A m \in 1 .. 2 - 1 : m = 1
      OBVIOUS
    <2>2. \A m \in 1 + 1 .. 2 - 1 : FALSE
      OBVIOUS
    <2>3. 1 \in DOMAIN T /\ 2 \in DOMAIN T /\ 1 < 2 /\ \A i \in DOMAIN T : i = 1 \/ i = 2 \/ i = 3
      BY <1>1
    <2> QED BY <1>1, <1>2, <2>1, <2>2, <2>3 DEF Awaits, Settled
  <1>6. T \in Waiting /\ NoReads(T)
    BY <1>1, <1>2, <1>5 DEF Waiting, Parts, NoReads
  <1>7. H \o T \in Waiting
    BY <1>3, <1>6, WaitingConcat DEF Waiting
  <1>8. NoReads(H \o T)
    <2>1. \A s, t \in Seq(Reqs) : NoReads(s) /\ NoReads(t) => NoReads(s \o t)
      BY Concat DEF NoReads
    <2>2. H \in Seq(Reqs)
      BY <1>3 DEF Calm
    <2> QED BY <1>1, <1>3, <1>6, <2>1, <2>2
  <1> QED BY <1>4, <1>7, <1>8 DEF Quiet, Waiting

Arm == <<write("abstractauto", 0, Lit({1}))>>
Disarm == <<write("abstractauto", 0, Lit({}))>>
\* abstractauto is set, and cleared.
LEMMA ArmDisarm ==
  /\ Arm \in Armed
  /\ Disarm \in Scripts /\ Disarm \in Quiet /\ HasDisarm(Disarm)
  <1> DEFINE a == write("abstractauto", 0, Lit({1}))
             d == write("abstractauto", 0, Lit({}))
  <1>1. a \in Reqs /\ d \in Reqs
    BY Requested DEF Literals, DmRegs
  <1>2. ~Starts(a) /\ ~Starts(d) /\ ~DataRead(d) /\ d.k = "once" /\ d.op = 2 /\ d.reg = "abstractauto" /\ d.val = Lit({})
    BY DEF Starts, DataRead, write, Request
  <1>3. Disarms(d) /\ ~Arms(d)
    BY <1>2 DEF Disarms, Arms
  <1> HIDE DEF a, d
  <1>4. /\ <<a>> \in Seq(Reqs) /\ DOMAIN <<a>> = 1 .. 1 /\ <<a>>[1] = a
        /\ <<d>> \in Seq(Reqs) /\ DOMAIN <<d>> = 1 .. 1 /\ <<d>>[1] = d
    BY <1>1, Two
  <1>5. <<a>> \in Armed
    BY <1>2, <1>4 DEF Armed, Settled, ArmedQuiet
  <1>6. <<d>> \in Parts
    BY <1>2, <1>3, <1>4, InertParts
  <1>7. <<d>> \in Quiet /\ HasDisarm(<<d>>)
    BY <1>2, <1>3, <1>4, <1>6 DEF Quiet, NoReads, HasDisarm
  <1> QED BY <1>5, <1>6, <1>7, PartsAreScripts DEF Arm, Disarm, a, d

\* write_chunk, of any length: autoexec is on while the words behind the first
\* are written, no data is read meanwhile, and it is off before s0 is restored.
LEMMA WriteScripts ==
  ASSUME NEW l, Host(l), NEW taddr \in Int, NEW n \in Nat \ {0}, NEW x \in Int, width \in Nat
  PROVE  write_chunk(l, taddr, [i \in 1 .. n |-> Value(x + i)]) \in Scripts
  <1> DEFINE src == [i \in 1 .. n |-> Value(x + i)]
             A == RunAcOrDie(Command("s0", l.xlen, TRUE, FALSE), <<STORE("s1"), ADDI, ebreak>>, LitWide(l, taddr), <<>>)
             B == RunAcOrDie(Command("s1", l.xlen, TRUE, TRUE), <<>>, Literal(src[1]), <<>>)
             g == [i \in 1 .. Len(src) - 1 |-> StoreAutoexec(l, src[i + 1])]
  <1>0. Len(src) = n /\ \A i \in 1 .. n : src[i] = Value(x + i)
    OBVIOUS
  <1>1. A \in Parts
    <2>1. <<STORE("s1"), ADDI, ebreak>> \in Seq(Insns)
      <3>1. STORE("s1") \in Insns /\ ADDI \in Insns /\ ebreak \in Insns
        BY DEF Insns, Gprs
      <3> QED BY <3>1
    <2>2. Command("s0", l.xlen, TRUE, FALSE) \in AbstractCommands
      BY CommandTyped DEF Host, Gprs
    <2> QED BY <2>1, <2>2, LocalsTyped, RunIsWaiting, WaitingIsParts
  <1>2. \A i \in 1 .. n, j \in Nat : Lit(src[i][j]) \in WrittenValues
    <2>1. ASSUME NEW i \in 1 .. n, NEW j \in Nat
          PROVE  src[i][j] \in ValueWords
      <3> DEFINE y == x + i
      <3>1. src[i] = [w \in 1 .. width |-> (100 * (w - 1)) + y] /\ y \in Int
        BY DEF Value
      <3>2. src[i][j] = WordOf(width, y, j)
        BY <3>1 DEF WordOf
      <3> HIDE DEF src, y
      <3>3. WordOf(width, y, j) \in ValueWords
        <4> DEFINE t == <<width, y, j>>
        <4>1. t \in Nat \X Int \X Nat /\ t[1] = width /\ t[2] = y /\ t[3] = j
          BY <3>1
        <4> HIDE DEF t
        <4>2. WordOf(t[1], t[2], t[3]) \in ValueWords
          BY <4>1, Zenon DEF ValueWords
        <4> QED BY <4>1, <4>2
      <3> QED BY <3>2, <3>3
    <2> QED BY <2>1, Requested DEF Literals
  <1>3. B \in Parts
    <2>1. Command("s1", l.xlen, TRUE, TRUE) \in AbstractCommands
      BY CommandTyped DEF Host, Gprs
    <2>2. Literal(src[1]) \in Seq(WrittenValues)
      <3>1. DOMAIN src[1] = 1 .. width
        BY <1>0 DEF Value
      <3>2. Literal(src[1]) = [w \in 1 .. width |-> Lit(src[1][w])]
        BY <3>1 DEF Literal
      <3>3. \A w \in 1 .. width : Lit(src[1][w]) \in WrittenValues
        BY <1>2
      <3> HIDE DEF src
      <3> QED BY <3>2, <3>3
    <2> HIDE DEF src
    <2> QED BY <2>1, <2>2, LocalsTyped, RunIsWaiting, WaitingIsParts
  <1>4. FlattenSeq(g) \in Quiet
    <2> DEFINE k == n - 1
    <2>1. k \in Nat /\ g = [i \in 1 .. k |-> StoreAutoexec(l, src[i + 1])]
      BY <1>0
    <2>2. ASSUME NEW i \in 1 .. k
          PROVE  g[i] \in Quiet
      <3>1. i + 1 \in 1 .. n /\ g[i] = StoreAutoexec(l, src[i + 1])
        BY <2>1
      <3> HIDE DEF g, src
      <3> QED BY <3>1, <1>2, StoreIsQuiet
    <2>3. g = [i \in 1 .. k |-> g[i]]
      BY <2>1
    <2>5. k \in Nat /\ \A i \in 1 .. k : g[i] \in Quiet
      BY <2>1, <2>2
    <2> HIDE DEF g, k
    <2>4. g \in Seq(Quiet) /\ DOMAIN g = 1 .. k
      BY <2>3, <2>5, FunSeq
    <2> QED BY <2>1, <2>4, FlattenClosed, NoRequests, QuietConcat
  <1> DEFINE C == IF Len(src) > 1 THEN Arm ELSE <<>>
             D == IF Len(src) > 1 THEN Disarm ELSE <<>>
             body == (((A \o B) \o C) \o FlattenSeq(g)) \o D
  <1>5. write_chunk(l, taddr, src) = Saving(l, body)
    BY DEF write_chunk, Arm, Disarm
  <1>6. body \in Scripts
    <2>1. A \o B \in Parts /\ A \o B \in Armed
      <3> HIDE DEF A, B
      <3> QED BY <1>1, <1>3, PartsConcat, PartsAreScripts DEF Scripts
    <2>2. CASE Len(src) > 1
      <3>1. C = Arm /\ D = Disarm
        BY <2>2
      <3> HIDE DEF A, B, C, D, g
      <3>2. (A \o B) \o C \in Armed
        BY <2>1, <3>1, ArmDisarm, ArmedConcat
      <3>3. ((A \o B) \o C) \o FlattenSeq(g) \in Armed
        BY <1>4, <3>2, ArmedConcat, PartsAreScripts, WaitingIsParts DEF Scripts
      <3> QED BY <3>1, <3>3, ArmDisarm, ScriptsConcat
    <2>3. CASE ~(Len(src) > 1)
      <3>1. C = <<>> /\ D = <<>>
        BY <2>3
      <3> HIDE DEF A, B, C, D, g
      <3> QED BY <1>4, <2>1, <3>1, NoRequests, PartsConcat, PartsAreScripts, WaitingIsParts
    <2> QED BY <2>2, <2>3
  <1> HIDE DEF body
  <1> QED BY <1>5, <1>6, SavingScripts

----------------------------------------------------------------------------
(* CSRs, fence and reset, and what the host decides. *)

\* modify_csr reads its result when the command has ended.
LEMMA ModifyParts ==
  ASSUME NEW l, Host(l), NEW which \in Csrs, NEW data \in Seq(Int), NEW type \in CsrOps
  PROVE  modify_csr(l, which, data, type) \in Parts
  <1> DEFINE program == <<CSRRW("dscratch", "write"), [op |-> "lx", reg |-> "s0", size |-> l.xlen],
                          CSRRW(which, type), [op |-> "sx", reg |-> "s0", size |-> l.xlen],
                          CSRRW("dscratch", "write"), ebreak>>
             A == RunAcOrDie(Command("x0", l.xlen, TRUE, TRUE), program, Literal(data), <<>>)
             R == [w \in 1 .. l.xlen |-> read("data", w, <<"res", w>>)]
  <1>1. program \in Seq(Insns)
    <2>1. /\ CSRRW("dscratch", "write") \in Insns /\ CSRRW(which, type) \in Insns /\ ebreak \in Insns
          /\ [op |-> "lx", reg |-> "s0", size |-> l.xlen] \in Insns
          /\ [op |-> "sx", reg |-> "s0", size |-> l.xlen] \in Insns
      <3>1. /\ [op |-> "lx", reg |-> "s0", size |-> l.xlen] \in [op : {"lx", "sx"}, reg : Gprs, size : Nat]
            /\ [op |-> "sx", reg |-> "s0", size |-> l.xlen] \in [op : {"lx", "sx"}, reg : Gprs, size : Nat]
        BY DEF Host, Gprs
      <3>2. \A c \in Csrs, t \in CsrOps : CSRRW(c, t) \in Insns
        BY DEF Insns
      <3>3. "dscratch" \in Csrs /\ "write" \in CsrOps
        BY DEF Csrs, CsrOps
      <3>4. ebreak \in Insns
        BY DEF Insns
      <3>5. [op : {"lx", "sx"}, reg : Gprs, size : Nat] \subseteq Insns
        BY DEF Insns
      <3> QED BY <3>1, <3>2, <3>3, <3>4, <3>5
    <2>2. \A a, b, c, d, e, f \in Insns : <<a, b, c, d, e, f>> \in Seq(Insns)
      OBVIOUS
    <2> QED BY <2>1, <2>2
  <1>2. Literal(data) \in Seq(WrittenValues)
    <2>1. DOMAIN data = 1 .. Len(data) /\ Len(data) \in Nat /\ \A i \in 1 .. Len(data) : data[i] \in Int
      BY LenProperties, ElementOfSeq
    <2>2. Literal(data) = [w \in 1 .. Len(data) |-> Lit(data[w])]
      BY <2>1 DEF Literal
    <2>3. \A w \in 1 .. Len(data) : Lit(data[w]) \in WrittenValues
      BY <2>1, Requested DEF Literals
    <2> QED BY <2>1, <2>2, <2>3
  <1>3. A \in Parts
    <2>1. Command("x0", l.xlen, TRUE, TRUE) \in AbstractCommands
      BY CommandTyped DEF Host, Gprs
    <2> HIDE DEF program
    <2> QED BY <1>1, <1>2, <2>1, LocalsTyped, RunIsWaiting, WaitingIsParts
  <1>4. R \in Parts
    <2>1. ASSUME NEW w \in 1 .. l.xlen
          PROVE  R[w] \in Reqs /\ R[w] = read("data", w, <<"res", w>>)
      <3>1. w \in Nat
        BY DEF Host
      <3>2. <<"res", w>> \in Places /\ "data" \in DmRegs
        BY <3>1 DEF Places, DmRegs
      <3>3. read("data", w, <<"res", w>>) \in Reqs
        BY <3>1, <3>2, Requested
      <3> QED BY <3>3
    <2>2. R = [w \in 1 .. l.xlen |-> R[w]] /\ l.xlen \in Nat
      BY DEF Host
    <2> HIDE DEF R
    <2>3. R \in Seq(Reqs) /\ DOMAIN R = 1 .. l.xlen
      BY <2>1, <2>2, FunSeq
    <2>4. \A x : \A i \in Nat : ~Starts(read("data", i, x)) /\ ~Arms(read("data", i, x))
      BY DEF Starts, Arms, read, Request
    <2>5. \A i \in DOMAIN R : ~Starts(R[i]) /\ ~Arms(R[i])
      <3>1. l.xlen \in Nat
        BY DEF Host
      <3>2. \A w \in 1 .. l.xlen : w \in Nat
        BY <3>1
      <3> QED BY <2>1, <2>3, <2>4, <3>2
    <2> QED BY <2>3, <2>5, InertParts
  <1>5. modify_csr(l, which, data, type) = ((halt(l.current_hart) \o A) \o R) \o resume(l.current_hart)
    BY DEF modify_csr
  <1>6. halt(l.current_hart) \in Parts /\ resume(l.current_hart) \in Parts
    BY HaltResumeAreQuiet, WaitingIsParts DEF Host
  <1> HIDE DEF program, A, R
  <1> QED BY <1>3, <1>4, <1>5, <1>6, PartsConcat

\* fence_i.
LEMMA FenceParts ==
  ASSUME NEW l, Host(l)
  PROVE  fence_i(l) \in Parts
  <1> DEFINE A == RunAcOrDie(Command("x0", l.xlen, TRUE, TRUE), <<nop, ebreak>>, <<>>, <<>>)
  <1>1. A \in Parts
    <2>1. <<nop, ebreak>> \in Seq(Insns)
      <3>1. nop \in Insns /\ ebreak \in Insns
        BY DEF Insns
      <3> QED BY <3>1
    <2>2. Command("x0", l.xlen, TRUE, TRUE) \in AbstractCommands
      BY CommandTyped DEF Host, Gprs
    <2> QED BY <2>1, <2>2, LocalsTyped, RunIsWaiting, WaitingIsParts
  <1>2. halt(l.current_hart) \in Parts /\ resume(l.current_hart) \in Parts
    BY HaltResumeAreQuiet, WaitingIsParts DEF Host
  <1>3. fence_i(l) = (halt(l.current_hart) \o A) \o resume(l.current_hart)
    BY DEF fence_i
  <1> HIDE DEF A
  <1> QED BY <1>1, <1>2, <1>3, PartsConcat

\* A request that starts nothing.
LEMMA Single ==
  ASSUME NEW q \in Reqs, ~Starts(q), ~Arms(q)
  PROVE  <<q>> \in Parts
  <1>1. <<q>> \in Seq(Reqs) /\ DOMAIN <<q>> = 1 .. 1 /\ <<q>>[1] = q
    BY Two
  <1>2. \A i \in 1 .. 1 : i = 1
    OBVIOUS
  <1> QED BY <1>1, <1>2, InertParts

\* reset, of any number of harts: each is selected when the last one's command
\* has ended.
LEMMA ResetParts ==
  ASSUME NEW l, Host(l), DOMAIN l = DOMAIN loc, NEW entry \in Seq(Int), {"current_hart", "xlen", "num_harts"} \subseteq DOMAIN l
  PROVE  ResetHarts(l, entry) \in Parts
  <1> DEFINE g == [k \in 1 .. l.num_harts |->
                     LET lk == [l EXCEPT !.current_hart = k - 1] IN
                     select_hart(k - 1) \o fence_i(lk) \o modify_csr(lk, "dpc", entry, "write")]
  <1>1. ASSUME NEW k \in 1 .. l.num_harts
        PROVE  g[k] \in Parts
    <2> DEFINE lk == [l EXCEPT !.current_hart = k - 1]
    <2>1. k - 1 \in Int /\ Host(lk)
      BY DEF Host
    <2>2. g[k] = (select_hart(k - 1) \o fence_i(lk)) \o modify_csr(lk, "dpc", entry, "write")
      OBVIOUS
    <2> HIDE DEF lk, g
    <2>3. select_hart(k - 1) \in Parts
      BY <2>1, HaltResumeAreQuiet, WaitingIsParts
    <2>4. fence_i(lk) \in Parts /\ modify_csr(lk, "dpc", entry, "write") \in Parts
      BY <2>1, FenceParts, ModifyParts DEF Csrs, CsrOps
    <2> QED BY <2>2, <2>3, <2>4, PartsConcat
  <1>2. FlattenSeq(g) \in Parts
    <2>1. g = [k \in 1 .. l.num_harts |-> g[k]] /\ l.num_harts \in Nat
      BY DEF Host
    <2> HIDE DEF g
    <2>2. g \in Seq(Parts) /\ DOMAIN g = 1 .. l.num_harts
      BY <1>1, <2>1, FunSeq
    <2> QED BY <2>1, <2>2, FlattenClosed, NoRequests, PartsConcat
  <1>3. select_hart(0) \in Parts /\ <<ReadStatus>> \in Parts
    <2>1. ReadStatus \in Reqs /\ ~Starts(ReadStatus) /\ ~Arms(ReadStatus)
      BY Requested DEF Starts, Arms, ReadStatus, read, Request
    <2> QED BY <2>1, Single, HaltResumeAreQuiet, WaitingIsParts
  <1>4. ResetHarts(l, entry) = (FlattenSeq(g) \o select_hart(0)) \o <<ReadStatus>>
    BY DEF ResetHarts
  <1> HIDE DEF g
  <1> QED BY <1>2, <1>3, <1>4, PartsConcat

\* Every operation of the front-end server is a script.
LEMMA OperationScripts ==
  ASSUME Host(loc), {"current_hart", "xlen", "num_harts"} \subseteq DOMAIN loc, NEW o \in Ops, width \in Nat
  PROVE  Operation(loc, o) \in Scripts
  <1>0. /\ o.op \in {"read", "write", "clear", "csr", "reset"}
        /\ o.op \in {"read", "write", "clear"} => o.addr \in Int /\ o.n \in Nat \ {0} /\ o.n \in Nat
        /\ o.op \in {"write", "csr", "reset"} => o.val \in Int
        /\ o.op = "csr" => o.type \in CsrOps
    BY OpsAssumption DEF CsrOps
  <1>1. CASE o.op = "read"
    BY <1>0, <1>1, ReadScripts DEF Operation
  <1>2. CASE o.op = "write"
    BY <1>0, <1>2, WriteScripts DEF Operation
  <1>3. CASE o.op = "clear"
    BY <1>0, <1>3, ClearScripts DEF Operation
  <1>4. CASE o.op = "csr"
    <2>1. Operation(loc, o) = modify_csr(loc, "csr", Wide(o.val), o.type)
      BY <1>4 DEF Operation
    <2>2. Wide(o.val) \in Seq(Int)
      BY <1>0, <1>4 DEF Wide
    <2>3. "csr" \in Csrs
      BY DEF Csrs
    <2> QED BY <1>0, <1>4, <2>1, <2>2, <2>3, ModifyParts, PartsAreScripts
  <1>5. CASE o.op = "reset"
    <2>1. Operation(loc, o) = ResetHarts(loc, Value(o.val))
      BY <1>5 DEF Operation
    <2>2. Value(o.val) \in Seq(Int)
      BY <1>0, <1>5 DEF Value
    <2> QED BY <2>1, <2>2, ResetParts, PartsAreScripts
  <1> QED BY <1>0, <1>1, <1>2, <1>3, <1>4, <1>5

\* What a decision may put in the place of the requests left.
LEMMA Decisions ==
  /\ halt(0) \o get_xlen \in Parts /\ resume(0) \in Parts /\ producer_thread \in Parts
  /\ \A n \in Nat : EnumerateFrom(n) \in Parts
  <1>1. ASSUME NEW n \in Nat
        PROVE  ProbeXlen(n) \in Parts
    <2>1. Command("s0", n, FALSE, FALSE) \in AbstractCommands
      BY CommandTyped DEF Gprs
    <2>2. <<>> \in Seq(Places) /\ <<>> \in Seq(WrittenValues) /\ <<>> \in Seq(Insns)
      OBVIOUS
    <2>3. <<Decide("xlen", n)>> \in Parts
      <3>1. Decide("xlen", n) \in Reqs /\ ~Starts(Decide("xlen", n)) /\ ~Arms(Decide("xlen", n))
        BY Requested DEF Starts, Arms, Decide, Request
      <3> QED BY <3>1, Single
    <2> QED BY <2>1, <2>2, <2>3, RunIsWaiting, WaitingIsParts, PartsConcat DEF ProbeXlen
  <1>2. get_xlen \in Parts
    BY <1>1, PartsConcat DEF get_xlen
  <1>3. halt(0) \in Parts /\ resume(0) \in Parts
    BY HaltResumeAreQuiet, WaitingIsParts
  <1>4. ASSUME NEW n \in Nat
        PROVE  EnumerateFrom(n) \in Parts
    <2> DEFINE a == read("dmstatus", 0, <<"nonexistent">>)
               b == Decide("enum", n)
    <2>1. a \in Reqs /\ b \in Reqs
      BY Requested DEF DmRegs
    <2>2. ~Starts(a) /\ ~Arms(a) /\ ~Starts(b) /\ ~Arms(b)
      BY DEF Starts, Arms, Decide, read, Request
    <2>3. EnumerateFrom(n) = select_hart(n) \o <<a, b>>
      BY DEF EnumerateFrom
    <2> HIDE DEF a, b
    <2>4. <<a, b>> \in Seq(Reqs) /\ DOMAIN <<a, b>> = 1 .. 2 /\ <<a, b>>[1] = a /\ <<a, b>>[2] = b
      BY <2>1, Two
    <2>5. \A i \in 1 .. 2 : i = 1 \/ i = 2
      OBVIOUS
    <2>6. <<a, b>> \in Parts
      BY <2>2, <2>4, <2>5, InertParts
    <2>7. select_hart(n) \in Parts
      BY HaltResumeAreQuiet, WaitingIsParts
    <2> QED BY <2>3, <2>6, <2>7, PartsConcat
  <1>5. producer_thread \in Parts
    <2> DEFINE a == read("abstractcs", 0, None)
               b == read("hartinfo", 0, None)
               c == write("dmcontrol", 0, Dmcontrol(0, FALSE, FALSE))
               s == <<a, b, c>>
    <2>1. a \in Reqs /\ b \in Reqs
      BY Requested DEF DmRegs
    <2>2. c \in Reqs
      <3>1. 0 \in Int /\ FALSE \in BOOLEAN
        OBVIOUS
      <3> QED BY <3>1, DmcontrolTyped
    <2>3. ~Starts(a) /\ ~Arms(a) /\ ~Starts(b) /\ ~Arms(b) /\ ~Starts(c) /\ ~Arms(c)
      BY DEF Starts, Arms, write, read, Request
    <2>4. producer_thread = s \o EnumerateFrom(0)
      BY DEF producer_thread
    <2> HIDE DEF a, b, c
    <2>5. s \in Seq(Reqs) /\ DOMAIN s = 1 .. 3 /\ s[1] = a /\ s[2] = b /\ s[3] = c
      BY <2>1, <2>2
    <2>6. \A i \in 1 .. 3 : i = 1 \/ i = 2 \/ i = 3
      OBVIOUS
    <2> HIDE DEF s
    <2>7. s \in Parts
      BY <2>3, <2>5, <2>6, InertParts
    <2> QED BY <1>4, <2>4, <2>7, PartsConcat
  <1> QED BY <1>2, <1>3, <1>4, <1>5, PartsConcat

----------------------------------------------------------------------------
(* One request further. *)

\* What is left to do after the first request.
LEMMA ScriptTail ==
  ASSUME NEW t \in Scripts, t # <<>>
  PROVE  /\ t \in Seq(Reqs) /\ Head(t) = t[1] /\ t[1] \in Reqs /\ Tail(t) \in Scripts
         /\ Starts(t[1]) => Awaits(Tail(t))
         /\ Arms(t[1]) => NoReads(Tail(t)) /\ HasDisarm(Tail(t))
         /\ Awaits(t) /\ t[1] # PollNotBusy => ~Selects(t[1]) /\ Awaits(Tail(t))
         /\ NoReads(t) => NoReads(Tail(t)) /\ ~DataRead(t[1]) /\ t[1].k \notin {"xlen", "enum"}
         /\ HasDisarm(t) /\ ~Disarms(t[1]) => HasDisarm(Tail(t))
  <1> DEFINE u == Tail(t)
             n == Len(t)
  <1>1. t \in Seq(Reqs) /\ Settled(t) /\ ArmedQuiet(t) /\ Disarmed(t)
    BY DEF Scripts, Armed
  <1>2. /\ Head(t) = t[1] /\ t[1] \in Reqs /\ u \in Seq(Reqs) /\ Len(u) = n - 1 /\ n \in Nat \ {0}
        /\ DOMAIN t = 1 .. n /\ DOMAIN u = 1 .. n - 1
        /\ \A i \in 1 .. n - 1 : u[i] = t[i + 1]
    BY <1>1, HeadTailProperties, LenProperties, EmptySeq
  <1> HIDE DEF u, n
  <1>3. \A k \in DOMAIN t : k = 1 \/ (k - 1 \in DOMAIN u /\ u[k - 1] = t[k])
    <2> SUFFICES ASSUME NEW k \in DOMAIN t, k # 1
                 PROVE  k - 1 \in DOMAIN u /\ u[k - 1] = t[k]
      OBVIOUS
    <2>1. k \in 1 .. n /\ k - 1 \in 1 .. n - 1 /\ (k - 1) + 1 = k
      BY <1>2
    <2> QED BY <1>2, <2>1
  <1>4. \A i \in DOMAIN u : i \in Nat /\ i + 1 \in DOMAIN t /\ u[i] = t[i + 1]
    BY <1>2
  <1>5. 1 \in DOMAIN t
    BY <1>2
  \* A poll behind place i of t, with nothing selected between, is one of u.
  <1>6. ASSUME NEW i \in Nat, NEW k \in DOMAIN t, i < k, k # 1, t[k] = PollNotBusy, \A m \in i + 1 .. k - 1 : ~Selects(t[m])
        PROVE  /\ k - 1 \in DOMAIN u /\ i - 1 < k - 1 /\ u[k - 1] = PollNotBusy
               /\ \A m \in (i - 1) + 1 .. (k - 1) - 1 : m # 0 => ~Selects(u[m])
    <2>1. k - 1 \in DOMAIN u /\ u[k - 1] = t[k] /\ k \in Nat
      BY <1>2, <1>3, <1>6
    <2>2. ASSUME NEW m \in (i - 1) + 1 .. (k - 1) - 1, m # 0
          PROVE  ~Selects(u[m])
      <3>1. m + 1 \in i + 1 .. k - 1 /\ m \in 1 .. n - 1
        BY <1>2, <2>1, <2>2
      <3> QED BY <1>2, <1>6, <3>1
    <2> QED BY <1>6, <2>1, <2>2
  <1>7. Settled(u)
    <2> SUFFICES ASSUME NEW i \in DOMAIN u, Starts(u[i])
                 PROVE  \E k \in DOMAIN u : i < k /\ u[k] = PollNotBusy /\ \A m \in i + 1 .. k - 1 : ~Selects(u[m])
      BY DEF Settled
    <2>1. PICK k \in DOMAIN t : i + 1 < k /\ t[k] = PollNotBusy /\ \A m \in (i + 1) + 1 .. k - 1 : ~Selects(t[m])
      BY <1>1, <1>4 DEF Settled
    <2>2. i \in Nat /\ i + 1 \in Nat /\ k \in Nat /\ k # 1
      BY <1>2, <1>4, <2>1
    <2>3. k - 1 \in DOMAIN u /\ (i + 1) - 1 < k - 1 /\ u[k - 1] = PollNotBusy
          /\ \A m \in ((i + 1) - 1) + 1 .. (k - 1) - 1 : m # 0 => ~Selects(u[m])
      BY <1>6, <2>1, <2>2
    <2>4. i < k - 1 /\ \A m \in i + 1 .. (k - 1) - 1 : ~Selects(u[m])
      BY <2>2, <2>3
    <2> QED BY <2>3, <2>4
  <1>8. ArmedQuiet(u)
    <2> SUFFICES ASSUME NEW i \in DOMAIN u, NEW m \in DOMAIN u, Arms(u[i]), i < m
                 PROVE  ~DataRead(u[m]) /\ u[m].k \notin {"xlen", "enum"}
      BY DEF ArmedQuiet
    <2>1. i + 1 \in DOMAIN t /\ m + 1 \in DOMAIN t /\ u[i] = t[i + 1] /\ u[m] = t[m + 1] /\ i + 1 < m + 1
      BY <1>4
    <2> QED BY <1>1, <2>1 DEF ArmedQuiet
  <1>9. Disarmed(u)
    <2> SUFFICES ASSUME NEW i \in DOMAIN u, Arms(u[i])
                 PROVE  \E k \in DOMAIN u : i < k /\ Disarms(u[k])
      BY DEF Disarmed
    <2>1. PICK k \in DOMAIN t : i + 1 < k /\ Disarms(t[k])
      BY <1>1, <1>4 DEF Disarmed
    <2>2. k - 1 \in DOMAIN u /\ u[k - 1] = t[k] /\ i < k - 1
      BY <1>2, <1>3, <1>4, <2>1
    <2> QED BY <2>1, <2>2
  <1>10. Tail(t) \in Scripts
    BY <1>2, <1>7, <1>8, <1>9 DEF Scripts, Armed, u
  <1>11. ASSUME Starts(t[1])
         PROVE  Awaits(u)
    <2>1. PICK k \in DOMAIN t : 1 < k /\ t[k] = PollNotBusy /\ \A m \in 1 + 1 .. k - 1 : ~Selects(t[m])
      BY <1>1, <1>5, <1>11 DEF Settled
    <2>2. k \in Nat /\ k # 1 /\ 1 \in Nat
      BY <1>2, <2>1
    <2>3. k - 1 \in DOMAIN u /\ u[k - 1] = PollNotBusy
          /\ \A m \in (1 - 1) + 1 .. (k - 1) - 1 : m # 0 => ~Selects(u[m])
      BY <1>6, <2>1, <2>2
    <2>4. \A m \in 1 .. (k - 1) - 1 : ~Selects(u[m])
      BY <2>2, <2>3
    <2> QED BY <2>3, <2>4 DEF Awaits
  <1>12. ASSUME Arms(t[1])
         PROVE  NoReads(u) /\ HasDisarm(u)
    <2>1. NoReads(u)
      <3>1. \A i \in DOMAIN u : 1 < i + 1
        BY <1>2
      <3> QED BY <1>1, <1>4, <1>5, <1>12, <3>1 DEF ArmedQuiet, NoReads
    <2>2. PICK k \in DOMAIN t : 1 < k /\ Disarms(t[k])
      BY <1>1, <1>5, <1>12 DEF Disarmed
    <2>3. k # 1
      BY <1>2, <2>2
    <2> QED BY <1>3, <2>1, <2>2, <2>3 DEF HasDisarm
  <1>13. ASSUME Awaits(t), t[1] # PollNotBusy
         PROVE  ~Selects(t[1]) /\ Awaits(u)
    <2>1. PICK k \in DOMAIN t : t[k] = PollNotBusy /\ \A m \in 1 .. k - 1 : ~Selects(t[m])
      BY <1>13 DEF Awaits
    <2>2. k \in Nat /\ k # 1 /\ 1 \in 1 .. k - 1
      BY <1>2, <1>13, <2>1
    <2>3. k - 1 \in DOMAIN u /\ u[k - 1] = PollNotBusy
      BY <1>3, <2>1, <2>2
    <2>4. ASSUME NEW m \in 1 .. (k - 1) - 1
          PROVE  ~Selects(u[m])
      <3>1. m \in 1 .. n - 1 /\ m + 1 \in 1 .. k - 1
        BY <1>2, <2>2
      <3> QED BY <1>2, <2>1, <3>1
    <2> QED BY <2>1, <2>2, <2>3, <2>4 DEF Awaits
  <1>14. ASSUME NoReads(t)
         PROVE  NoReads(u) /\ ~DataRead(t[1]) /\ t[1].k \notin {"xlen", "enum"}
    BY <1>4, <1>5, <1>14 DEF NoReads
  <1>15. ASSUME HasDisarm(t), ~Disarms(t[1])
         PROVE  HasDisarm(u)
    BY <1>3, <1>15 DEF HasDisarm
  <1> QED BY <1>1, <1>2, <1>10, <1>11, <1>12, <1>13, <1>14, <1>15 DEF u

----------------------------------------------------------------------------
(* The host and the module. *)

HostFields == {"current_hart", "xlen", "num_harts"}
\* What the host has still to ask for, once the answer at hand is counted.
Remaining == IF resp # <<>> /\ Head(todo).k # "poll" THEN Tail(todo) ELSE todo
\* The module's state lets the debugger go on with the requests t.
Orderly(d, t) ==
    /\ d.busy => Awaits(t)
    /\ d.autodata # {} => NoReads(t) /\ HasDisarm(t)
\* The host, on the transport: the rest of its requests is a script, an answer
\* belongs to a request, what it knows of the target is a number, and a poll
\* that has seen busy clear has seen it for good.
HostInv ==
    /\ todo \in Scripts
    /\ resp_wait \/ resp # <<>> => todo # <<>>
    /\ Host(loc) /\ HostFields \subseteq DOMAIN loc
    /\ Orderly(dm, Remaining)
    /\ resp # <<>> /\ Head(todo) = PollNotBusy /\ ~Head(resp).val.busy => ~dm.busy
\* A debugger on the JTAG port has no such invariant and needs none: all it can
\* write is the data.
DebugInv ==
    /\ CommandInv
    /\ width \in Nat
    /\ port \in {"dtm", "jtag"}
    /\ port = "dtm" => HostInv

\* A hart ends a command but starts none, and leaves the debugger's settings.
LEMMA HartLowers ==
  ASSUME Registers(dm), NEW h \in Harts, HartStep(h)
  PROVE  (dm'.busy => dm.busy) /\ dm'.autodata = dm.autodata /\ width' = width
  <1> USE DEF Registers, Fields
  <1>1. CASE EnterDebug(h) \/ TestGo(h) \/ TestResume(h) \/ Dret(h)
    BY <1>1 DEF EnterDebug, TestGo, TestResume, Dret
  <1>2. CASE SignalHalted(h)
    BY <1>2 DEF SignalHalted, StoreHalted
  <1>3. CASE Going(h)
    BY <1>3 DEF Going, StoreGoing
  <1>4. CASE hart[h].pc = "exec" /\ Exec(h, Code[hart[h].i])
    BY <1>4 DEF Exec
  <1>5. CASE Exception(h)
    BY <1>5 DEF Exception, StoreException
  <1>6. CASE Resuming(h)
    BY <1>6 DEF Resuming, StoreResuming
  <1> QED BY <1>1, <1>2, <1>3, <1>4, <1>5, <1>6 DEF HartStep

\* What an access leaves of the order, if the request was the next one.
LEMMA AccessOrderly ==
  ASSUME Registers(dm), NEW t \in Scripts, t # <<>>, Orderly(dm, t),
         NEW q, q.op = t[1].op, q.reg = t[1].reg,
         q.reg = "abstractauto" /\ q.op = 2 /\ t[1].val = Lit({}) => q.val = {},
         NEW e, e = Access(q).d
  PROVE  /\ Polite(q)
         /\ t[1].k # "poll" => Orderly(e, Tail(t))
         /\ t[1].k = "poll" => Orderly(e, t)
         /\ t[1] = PollNotBusy => Access(q).val.busy = dm.busy
  <1> DEFINE u == Tail(t)
             p == t[1]
  <1>1. /\ t \in Seq(Reqs) /\ p \in Reqs
        /\ Starts(p) => Awaits(u)
        /\ Arms(p) => NoReads(u) /\ HasDisarm(u)
        /\ Awaits(t) /\ p # PollNotBusy => ~Selects(p) /\ Awaits(u)
        /\ NoReads(t) => NoReads(u) /\ ~DataRead(p)
        /\ HasDisarm(t) /\ ~Disarms(p) => HasDisarm(u)
    BY ScriptTail
  <1>2. /\ p.k = "poll" => p.op = 1 /\ p.reg \in {"dmstatus", "abstractcs"}
        /\ PollNotBusy.k = "poll" /\ PollNotBusy.op = 1 /\ PollNotBusy.reg = "abstractcs"
    BY <1>1 DEF Reqs, Reads, Writes, Polls, Others, PollNotBusy, Poll, Request
  <1> HIDE DEF p, u
  <1>3. (dm.busy => Awaits(t)) /\ (dm.autodata # {} => NoReads(t) /\ HasDisarm(t)) /\ Registers(dm)
        /\ q.op = p.op /\ q.reg = p.reg
        /\ (q.reg = "abstractauto" /\ q.op = 2 /\ p.val = Lit({}) => q.val = {})
    BY DEF Orderly, p
  <1>4. Polite(q)
    BY <1>1, <1>2, <1>3 DEF Polite, Selects
  <1>5. ASSUME p.k = "poll"
        PROVE  Orderly(e, t) /\ (p = PollNotBusy => Access(q).val.busy = dm.busy)
    <2>1. e = dm
      BY <1>2, <1>3, <1>5 DEF Access, dmi_read
    <2>2. q.op = 1 /\ q.reg = "abstractcs" => Access(q).val.busy = dm.busy
      BY DEF Access, dmi_read
    <2> QED BY <1>2, <1>3, <2>1, <2>2 DEF Orderly
  <1>6. ASSUME p.k # "poll"
        PROVE  Orderly(e, u)
    <2>0. p # PollNotBusy
      BY <1>2, <1>6
    <2>1. CASE q.op = 1
      <3>1. e = dmi_read(dm, q.reg, q.i).d
        BY <2>1 DEF Access
      <3>2. Kept(e, dm) /\ (Same(e, dm) \/ (Starting(e, dm) /\ (q.reg = "progbuf" \/ (q.reg = "data" /\ dm.autodata # {}))))
        <4>1. Registers(dm)
          BY <1>3
        <4> DEFINE reg == q.reg
                   i == q.i
        <4>2. e = dmi_read(dm, reg, i).d
          BY <3>1
        <4> HIDE DEF reg, i
        <4>3. Kept(e, dm) /\ (Same(e, dm) \/ (Starting(e, dm) /\ (reg = "progbuf" \/ (reg = "data" /\ dm.autodata # {}))))
          BY <4>1, <4>2, ReadEffect
        <4> QED BY <4>3 DEF reg
      <3>3. Starting(e, dm) => Starts(p)
        BY <1>1, <1>3, <2>1, <3>2 DEF Starts, DataRead, Starting, Same, Registers
      <3>4. ~Disarms(p)
        BY <1>3, <2>1 DEF Disarms
      <3> QED BY <1>1, <1>3, <2>0, <3>2, <3>3, <3>4 DEF Orderly, Kept, Same
    <2>2. CASE q.op = 2 /\ q.reg \notin {"dmcontrol", "abstractauto"}
      <3>1. e = dmi_write(dm, q.reg, q.i, q.val).d
        BY <2>2 DEF Access
      <3>2. Kept(e, dm) /\ (Same(e, dm) \/ (Starting(e, dm) /\ q.reg \in {"data", "progbuf", "command"}))
        BY <1>3, <2>2, <3>1, WriteEffect
      <3>3. (Starting(e, dm) /\ q.reg \in {"data", "progbuf", "command"} => Starts(p)) /\ ~Disarms(p)
        BY <1>3, <2>2 DEF Starts, Disarms
      <3> QED BY <1>1, <1>3, <2>0, <3>2, <3>3 DEF Orderly, Kept, Same
    <2>3. CASE q.op = 2 /\ q.reg = "dmcontrol"
      <3>1. e = dmi_write(dm, q.reg, q.i, q.val).d
        BY <2>3 DEF Access
      <3>2. Lowers(e, dm)
        <4>1. Registers(dm) /\ e = dmi_write(dm, "dmcontrol", q.i, q.val).d
          BY <1>3, <2>3, <3>1
        <4> QED BY <4>1, DmcontrolEffect
      <3>3. ~Disarms(p)
        BY <1>3, <2>3 DEF Disarms
      <3> QED BY <1>1, <1>3, <2>0, <3>2, <3>3 DEF Orderly, Lowers
    <2>4. CASE q.op = 2 /\ q.reg = "abstractauto"
      <3>1. e = dmi_write(dm, q.reg, q.i, q.val).d
        BY <2>4 DEF Access
      <3>2. e.busy = dm.busy /\ e.autodata = q.val
        BY <1>3, <2>4, <3>1, WriteEffect DEF Same
      <3>3. Arms(p) \/ q.val = {}
        BY <1>3, <2>4 DEF Arms
      <3> QED BY <1>1, <1>3, <2>0, <3>2, <3>3 DEF Orderly
    <2>5. CASE q.op \notin {1, 2}
      <3>1. e = dm /\ ~Disarms(p)
        BY <1>3, <2>5 DEF Access, Disarms
      <3> QED BY <1>1, <1>3, <2>0, <3>1 DEF Orderly
    <2> QED BY <2>1, <2>2, <2>3, <2>4, <2>5
  <1> QED BY <1>2, <1>4, <1>5, <1>6 DEF u, p

\* While nothing runs and autoexec is off, any requests may follow.
LEMMA PartOrderly ==
  ASSUME NEW d, ~d.busy, d.autodata = {}, NEW t
  PROVE  Orderly(d, t)
  BY DEF Orderly

\* What the host decides keeps the order.
LEMMA DecidedKeeps ==
  ASSUME NEW l, Host(l), HostFields \subseteq DOMAIN l, NEW t \in Scripts, NEW d, Orderly(d, t),
         NEW c, c = Decided(l, t)
  PROVE  c.todo \in Scripts /\ Host(c.loc) /\ HostFields \subseteq DOMAIN c.loc /\ Orderly(d, c.todo)
  <1> USE PartsAreScripts
  <1>1. CASE t = <<>>
    BY <1>1 DEF Decided, Take
  <1>2. CASE t # <<>>
    <2> DEFINE p == t[1]
               u == Tail(t)
    <2>1. /\ t \in Seq(Reqs) /\ p \in Reqs /\ u \in Scripts
          /\ Awaits(t) /\ p # PollNotBusy => ~Selects(p) /\ Awaits(u)
          /\ NoReads(t) => NoReads(u) /\ p.k \notin {"xlen", "enum"}
          /\ HasDisarm(t) /\ ~Disarms(p) => HasDisarm(u)
      BY <1>2, ScriptTail
    <2>2. /\ p.i \in Nat /\ p.k \in {"once", "poll", "die", "xlen", "enum"} /\ PollNotBusy.k = "poll"
          /\ p.k \notin {"once", "poll"} => p.op = 0
      BY <2>1 DEF Reqs, Reads, Writes, Polls, Others, PollNotBusy, Poll, Request
    <2> HIDE DEF p, u
    <2>3. CASE p.k = "die"
      <3>1. c.loc = l /\ (c.todo = <<>> \o u \/ c.todo = <<ClearError>> \o u)
        BY <1>2, <2>3 DEF Decided, Take, p, u
      <3>2. Orderly(d, u)
        <4>1. p # PollNotBusy /\ ~Disarms(p)
          BY <2>2, <2>3 DEF Disarms
        <4> QED BY <2>1, <4>1 DEF Orderly
      <3>3. u \in Seq(Reqs) /\ <<>> \o u = u
        BY <2>1, ConcatEmptySeq DEF Scripts, Armed
      <3>4. <<ClearError>> \o u \in Scripts /\ Orderly(d, <<ClearError>> \o u)
        <4>1. ClearError \in Reqs /\ ~Starts(ClearError) /\ ~Arms(ClearError) /\ ~Selects(ClearError)
              /\ ~DataRead(ClearError) /\ ClearError.k = "once"
          BY Requested DEF ClearError, write, Request, Starts, Arms, Selects, DataRead
        <4>2. <<ClearError>> \in Parts /\ <<ClearError>> \in Seq(Reqs)
              /\ \A i \in DOMAIN <<ClearError>> : <<ClearError>>[i] = ClearError
          BY <4>1, Single, Two
        <4> DEFINE s == <<ClearError>>
        <4> HIDE DEF s
        <4>3. s \in Parts /\ s \in Seq(Reqs) /\ s \in Armed /\ \A i \in DOMAIN s : s[i] = ClearError
          BY <4>2 DEF s, Scripts
        <4>4. s \o u \in Scripts
          BY <2>1, <4>3, ScriptsConcat
        <4>5. Awaits(u) => Awaits(s \o u)
          BY <3>3, <4>1, <4>3, ConcatAwaits
        <4>6. NoReads(u) => NoReads(s \o u)
          BY <3>3, <4>1, <4>3, Concat DEF NoReads
        <4>7. HasDisarm(u) => HasDisarm(s \o u)
          <5>1. ASSUME HasDisarm(u)
                PROVE  HasDisarm(s \o u)
            <6>1. PICK k \in DOMAIN u : Disarms(u[k])
              BY <5>1 DEF HasDisarm
            <6>2. Len(s) + k \in DOMAIN (s \o u) /\ (s \o u)[Len(s) + k] = u[k]
              BY <3>3, <4>3, <6>1, Concat
            <6> QED BY <6>1, <6>2 DEF HasDisarm
          <5> QED BY <5>1
        <4> QED BY <3>2, <4>4, <4>5, <4>6, <4>7 DEF Orderly, s
      <3> QED BY <2>1, <3>1, <3>2, <3>3, <3>4
    <2>4. CASE p.k \in {"xlen", "enum"}
      <3>1. ~d.busy /\ d.autodata = {}
        <4>1. Selects(p) /\ p # PollNotBusy
          BY <2>2, <2>4 DEF Selects
        <4> QED BY <2>1, <2>4, <4>1 DEF Orderly
      <3>2. Orderly(d, c.todo)
        BY <3>1, PartOrderly
      <3>3. CASE p.k = "xlen" /\ l.cmderr = "none"
        <4>1. c.loc = [l EXCEPT !.xlen = p.i] /\ c.todo = resume(0)
          BY <1>2, <3>3 DEF Decided, Take, p
        <4>2. Host(c.loc) /\ DOMAIN c.loc = DOMAIN l
          BY <2>2, <4>1 DEF Host, HostFields
        <4> QED BY <3>2, <4>1, <4>2, Decisions
      <3>4. CASE p.k = "xlen" /\ l.cmderr # "none"
        <4>1. c.loc = l /\ c.todo = <<ClearError>> \o u
          BY <1>2, <3>4 DEF Decided, Take, p, u
        <4>2. ClearError \in Reqs /\ ~Starts(ClearError) /\ ~Arms(ClearError)
          BY Requested DEF ClearError, write, Request, Starts, Arms
        <4>3. <<ClearError>> \in Parts
          BY <4>2, Single
        <4>4. <<ClearError>> \in Armed
          BY <4>3 DEF Scripts
        <4>5. <<ClearError>> \o u \in Scripts
          BY <2>1, <4>3, <4>4, ScriptsConcat
        <4> QED BY <3>2, <4>1, <4>5
      <3>5. CASE p.k = "enum" /\ l.nonexistent
        <4>1. c.loc = [l EXCEPT !.num_harts = p.i] /\ c.todo = halt(0) \o get_xlen
          BY <1>2, <3>5 DEF Decided, Take, p
        <4>2. Host(c.loc) /\ DOMAIN c.loc = DOMAIN l
          BY <2>2, <4>1 DEF Host, HostFields
        <4> QED BY <3>2, <4>1, <4>2, Decisions
      <3>6. CASE p.k = "enum" /\ ~l.nonexistent
        <4>1. c.loc = l /\ c.todo = EnumerateFrom(p.i + 1)
          BY <1>2, <3>6 DEF Decided, Take, p
        <4>2. c.todo \in Parts
          BY <2>2, <4>1, Decisions
        <4> QED BY <3>2, <4>1, <4>2
      <3> QED BY <2>4, <3>3, <3>4, <3>5, <3>6
    <2>5. CASE p.k \in {"once", "poll"}
      <3>1. c = Take(l, t)
        BY <1>2, <2>5 DEF Decided, p
      <3> QED BY <3>1 DEF Take
    <2> QED BY <2>2, <2>3, <2>4, <2>5
  <1> QED BY <1>1, <1>2

\* The target performs a request: the transport never selects a hart, or resets
\* the module, while a command runs (do_command, run_abstract_command).
LEMMA AnswerKeeps ==
  ASSUME CommandInv, HostInv, TargetAnswers
  PROVE  CommandInv' /\ HostInv' /\ width' = width
  <1> DEFINE q == [Head(todo) EXCEPT !.val = IF Head(todo).op = 2 THEN Resolve(@) ELSE 0]
             p == todo[1]
  <1>a. /\ todo \in Scripts /\ todo # <<>> /\ resp = <<>> /\ resp_wait /\ resp_wait' = resp_wait
        /\ todo' = todo /\ loc' = loc /\ Registers(dm)
    BY DEF HostInv, TargetAnswers, hostVars, CommandInv
  <1>b. /\ Dmi(q, Access(q))
        /\ resp' = <<[ok |-> Access(q).ok, val |-> IF q.op = 1 THEN Access(q).val ELSE 0]>>
    <2>1. \E a \in {q} : \E r \in {Access(a)} :
            Dmi(a, r) /\ resp' = <<[ok |-> r.ok, val |-> IF a.op = 1 THEN r.val ELSE 0]>>
      BY DEF TargetAnswers
    <2> HIDE DEF q
    <2> QED BY <2>1
  <1>1. /\ todo \in Scripts /\ todo # <<>> /\ resp = <<>> /\ resp_wait /\ resp_wait' = resp_wait
        /\ Dmi(q, Access(q)) /\ todo' = todo /\ loc' = loc
        /\ resp' = <<[ok |-> Access(q).ok, val |-> IF q.op = 1 THEN Access(q).val ELSE 0]>>
        /\ Registers(dm)
    BY <1>a, <1>b
  <1>0. Orderly(dm, todo)
    <2>1. Remaining = todo
      BY <1>1 DEF Remaining
    <2> QED BY <2>1 DEF HostInv
  <1>2. Head(todo) = p /\ p \in Reqs /\ Tail(todo) \in Scripts
    BY <1>1, ScriptTail
  <1>3. /\ q.op = p.op /\ q.reg = p.reg
        /\ q.reg = "abstractauto" /\ q.op = 2 /\ p.val = Lit({}) => q.val = {}
    <2>1. DOMAIN p = {"k", "op", "reg", "i", "val", "into"}
      BY <1>2 DEF Reqs, Reads, Writes, Polls, Others, PollNotBusy, Poll, Request
    <2>2. q = [p EXCEPT !.val = IF p.op = 2 THEN Resolve(p.val) ELSE 0]
      BY <1>2
    <2>3. Resolve(Lit({})) = {}
      BY DEF Resolve, Lit
    <2> HIDE DEF q, p
    <2> QED BY <2>1, <2>2, <2>3
  <1> HIDE DEF q, p
  <1>4. dm' = Access(q).d /\ width' = width
    BY <1>1 DEF Dmi
  <1>5. /\ Polite(q)
        /\ p.k # "poll" => Orderly(dm', Tail(todo))
        /\ p.k = "poll" => Orderly(dm', todo)
        /\ p = PollNotBusy => Access(q).val.busy = dm.busy
    BY <1>1, <1>0, <1>3, <1>4, AccessOrderly DEF p
  <1>6. CommandInv'
    BY <1>1, <1>5, DmiKeeps
  <1>7. Remaining' = IF p.k # "poll" THEN Tail(todo) ELSE todo
    BY <1>1, <1>2 DEF Remaining
  <1>8. p = PollNotBusy => dm' = dm /\ q.op = 1
    BY <1>3, <1>4 DEF Access, dmi_read, PollNotBusy, Poll, Request
  <1>9. Head(resp').val.busy = Access(q).val.busy \/ p # PollNotBusy
    <2>1. Head(resp') = [ok |-> Access(q).ok, val |-> IF q.op = 1 THEN Access(q).val ELSE 0]
      BY <1>1
    <2> QED BY <1>8, <2>1
  <1>10. Orderly(dm', Remaining')
    BY <1>5, <1>7
  <1>11. Host(loc') /\ HostFields \subseteq DOMAIN loc'
    BY <1>1 DEF HostInv
  <1>12. Head(todo') = PollNotBusy /\ ~Head(resp').val.busy => ~dm'.busy
    BY <1>1, <1>2, <1>5, <1>8, <1>9
  <1>13. HostInv'
    BY <1>1, <1>10, <1>11, <1>12 DEF HostInv
  <1> QED BY <1>4, <1>6, <1>13

\* The host goes on: a poll that has seen busy fall has seen it for good, since
\* only the host's own next request can raise it.
LEMMA ResponseKeeps ==
  ASSUME CommandInv, HostInv, TickResponse
  PROVE  HostInv'
  <1> DEFINE p == todo[1]
             v == Head(resp).val
             u == Tail(todo)
  <1>1. /\ todo \in Scripts /\ todo # <<>> /\ resp # <<>> /\ resp' = <<>> /\ resp_wait' = FALSE /\ dm' = dm
        /\ Host(loc) /\ HostFields \subseteq DOMAIN loc
        /\ Orderly(dm, Remaining)
    BY DEF HostInv, TickResponse, dmVars
  <1>2. /\ Head(todo) = p /\ p \in Reqs /\ u \in Scripts
        /\ Awaits(todo) /\ p # PollNotBusy => Awaits(u)
        /\ NoReads(todo) => NoReads(u)
        /\ HasDisarm(todo) /\ ~Disarms(p) => HasDisarm(u)
    BY <1>1, ScriptTail
  <1>3. Continue(p, v)
    BY <1>2 DEF TickResponse
  <1>4. p = PollNotBusy /\ ~v.busy => ~dm.busy
    BY <1>1, <1>2 DEF HostInv
  <1>5. Remaining = IF p.k # "poll" THEN u ELSE todo
    BY <1>1, <1>2 DEF Remaining
  <1> HIDE DEF p, v, u
  \* It is enough that what the host continues with is in order.
  <1>6. Remaining' = todo'
    BY <1>1 DEF Remaining
  <1>q. ASSUME NEW c, loc' = c.loc, todo' = c.todo, c.todo \in Scripts, Host(c.loc),
               HostFields \subseteq DOMAIN c.loc, Orderly(dm, c.todo)
        PROVE  HostInv'
    <2>1. Host(loc') /\ HostFields \subseteq DOMAIN loc'
      BY <1>q
    <2> QED BY <1>1, <1>6, <1>q, <2>1 DEF HostInv
  <1>7. CASE p.k = "poll"
    <2>1. CASE Polled(p, v).done
      <3> DEFINE l == Polled(p, v).loc
                 c == Decided(l, u)
      <3>1. loc' = c.loc /\ todo' = c.todo
        BY <1>3, <1>7, <2>1 DEF Continue, u
      <3>2. Host(l) /\ HostFields \subseteq DOMAIN l
        <4>1. p.reg = "abstractcs" \/ (p.reg = "dmstatus" /\ p.into \in {"halted", "resumeack"})
          BY <1>2, <1>7 DEF Reqs, Reads, Writes, Polls, Others, PollNotBusy, Poll, Request
        <4>2. l = [loc EXCEPT !.cmderr = v.cmderr] \/ l = loc
          BY <4>1 DEF Polled
        <4>3. DOMAIN l = DOMAIN loc /\ l.xlen = loc.xlen /\ l.current_hart = loc.current_hart /\ l.num_harts = loc.num_harts
          <5> HIDE DEF l
          <5> QED BY <1>1, <4>2 DEF HostFields
        <4> QED BY <1>1, <4>3 DEF Host
      <3>3. Orderly(dm, u)
        <4>1. Orderly(dm, todo)
          BY <1>1, <1>5, <1>7
        <4>2. p = PollNotBusy => ~dm.busy
          <5>1. p = PollNotBusy => p.reg = "abstractcs" /\ p.into = "busy"
            BY DEF PollNotBusy, Poll, Request
          <5>2. p.reg = "abstractcs" /\ p.into = "busy" => (Polled(p, v).done <=> ~v.busy)
            <6>1. p.reg = "abstractcs" /\ p.into = "busy" => Polled(p, v) = [done |-> ~v.busy, loc |-> [loc EXCEPT !.cmderr = v.cmderr]]
              BY DEF Polled
            <6>2. [done |-> ~v.busy, loc |-> [loc EXCEPT !.cmderr = v.cmderr]].done = (~v.busy)
              BY Zenon
            <6> QED BY <6>1, <6>2, Zenon
          <5> QED BY <1>4, <2>1, <5>1, <5>2
        <4>3. ~Disarms(p)
          BY <1>2, <1>7 DEF Reqs, Reads, Writes, Polls, Others, PollNotBusy, Poll, Request, Disarms
        <4> QED BY <1>2, <4>1, <4>2, <4>3 DEF Orderly
      <3> HIDE DEF l
      <3>4. c.todo \in Scripts /\ Host(c.loc) /\ HostFields \subseteq DOMAIN c.loc /\ Orderly(dm, c.todo)
        <4> HIDE DEF c
        <4>1. c = Decided(l, u)
          BY DEF c
        <4> QED BY <1>2, <3>2, <3>3, <4>1, DecidedKeeps
      <3> HIDE DEF c
      <3> QED BY <1>q, <3>1, <3>4
    <2>2. CASE ~Polled(p, v).done
      <3>1. loc' = loc /\ todo' = todo
        BY <1>3, <1>7, <2>2 DEF Continue, Take
      <3>2. Orderly(dm, todo)
        BY <1>1, <1>5, <1>7
      <3> DEFINE c == [loc |-> loc, todo |-> todo]
      <3>3. c.loc = loc /\ c.todo = todo
        OBVIOUS
      <3> HIDE DEF c
      <3> QED BY <1>1, <1>q, <3>1, <3>2, <3>3
    <2> QED BY <2>1, <2>2
  <1>8. CASE p.k # "poll"
    <2> DEFINE l == Received(p, v)
               c == Decided(l, u)
    <2>1. loc' = c.loc /\ todo' = c.todo
      BY <1>3, <1>8 DEF Continue, u
    <2>2. Host(l) /\ HostFields \subseteq DOMAIN l
      <3>1. p.op = 1 => p.into \in {None, <<"dmcontrol">>, <<"nonexistent">>} \cup Places
        BY <1>2, <1>8 DEF Reqs, Reads, Writes, Polls, Others, PollNotBusy, Poll, Request
      <3>2. \A x \in Places : x[1] \in {"s0", "s1", "buf", "res"} /\ x # <<"dmcontrol">> /\ x # <<"nonexistent">> /\ x # None
        BY DEF Places, None
      <3>3. \/ l = loc \/ l = [loc EXCEPT !.dmcontrol = v] \/ l = [loc EXCEPT !.nonexistent = v.nonexistent]
            \/ \E x \in {"s0", "s1", "buf", "res"} : l = [loc EXCEPT ![x] = [loc[x] EXCEPT ![p.into[2]] = v]]
        <4>1. CASE p.op # 1 \/ p.into = None
          BY <4>1 DEF Received
        <4>2. CASE p.op = 1 /\ p.into = <<"dmcontrol">>
          BY <4>2 DEF Received, None
        <4>3. CASE p.op = 1 /\ p.into = <<"nonexistent">>
          BY <4>3 DEF Received, None
        <4>4. CASE p.op = 1 /\ p.into \in Places
          BY <3>2, <4>4 DEF Received
        <4> QED BY <3>1, <4>1, <4>2, <4>3, <4>4
      <3>4. DOMAIN l = DOMAIN loc /\ l.xlen = loc.xlen /\ l.current_hart = loc.current_hart /\ l.num_harts = loc.num_harts
        <4> HIDE DEF l
        <4> QED BY <1>1, <3>3 DEF HostFields
      <3> HIDE DEF l
      <3> QED BY <1>1, <3>4 DEF Host
    <2>3. Orderly(dm, u)
      BY <1>1, <1>5, <1>8
    <2> HIDE DEF l
    <2>4. c.todo \in Scripts /\ Host(c.loc) /\ HostFields \subseteq DOMAIN c.loc /\ Orderly(dm, c.todo)
      <3> HIDE DEF c
      <3>1. c = Decided(l, u)
        BY DEF c
      <3> QED BY <1>2, <2>2, <2>3, <3>1, DecidedKeeps
    <2> HIDE DEF c
    <2> QED BY <1>q, <2>1, <2>4
  <1> QED BY <1>7, <1>8

----------------------------------------------------------------------------
(* The steps of the whole. *)

\* The port and the width never change.
LEMMA InvFrame ==
  ASSUME DebugInv, port' = port, width' = width, CommandInv',
         port = "dtm" => HostInv'
  PROVE  DebugInv'
  BY DEF DebugInv

\* A step that leaves the module alone.
LEMMA DmFrame ==
  ASSUME CommandInv, UNCHANGED dmVars
  PROVE  CommandInv' /\ width' = width
  BY DEF CommandInv, CommandExclusive, InCommand, dmVars

\* The transport's step.
LEMMA DebuggerKeeps ==
  ASSUME DebugInv, Debugger
  PROVE  DebugInv'
  <1>1. CommandInv /\ width \in Nat /\ HostInv /\ port = "dtm" /\ port' = port /\ DtmStep
    BY DEF DebugInv, Debugger
  <1>2. CASE TickValid
    <2>1. HostInv' /\ UNCHANGED dmVars
      BY <1>1, <1>2 DEF TickValid, HostInv, hostVars, dmVars, Remaining
    <2> QED BY <1>1, <2>1, DmFrame, InvFrame
  <1>3. CASE TickReady
    <2>1. HostInv' /\ UNCHANGED dmVars
      BY <1>1, <1>3 DEF TickReady, HostInv, hostVars, dmVars, Remaining
    <2> QED BY <1>1, <2>1, DmFrame, InvFrame
  <1>4. CASE TargetAnswers
    BY <1>1, <1>4, AnswerKeeps, InvFrame
  <1>5. CASE TickResponse
    <2>1. UNCHANGED dmVars
      BY <1>5 DEF TickResponse
    <2> QED BY <1>1, <1>5, <2>1, ResponseKeeps, DmFrame, InvFrame
  <1>6. ASSUME todo = <<>>
        PROVE  ~dm.busy /\ dm.autodata = {} /\ ~resp_wait /\ resp = <<>>
    <2>1. Remaining = <<>> /\ ~resp_wait /\ resp = <<>>
      BY <1>1, <1>6 DEF HostInv, Remaining
    <2>2. DOMAIN Remaining = {}
      BY <2>1
    <2> QED BY <1>1, <2>1, <2>2 DEF HostInv, Orderly, Awaits, HasDisarm
  <1>7. ASSUME NEW o \in Ops, HostCall(o)
        PROVE  DebugInv'
    <2>1. todo = <<>> /\ UNCHANGED <<resp_wait, resp, dmVars>> /\ dm' = dm
      BY <1>7 DEF HostCall, wireVars, dmVars
    <2>2. todo' \in Scripts
      BY <1>1, <1>7, OperationScripts DEF HostCall, HostInv, HostFields
    <2>3. Host(loc') /\ HostFields \subseteq DOMAIN loc'
      <3>1. loc' = loc \/ loc' = [loc EXCEPT !.current_hart = 0]
        BY <1>7 DEF HostCall
      <3> QED BY <1>1, <3>1 DEF HostInv, Host, HostFields
    <2>4. Orderly(dm', Remaining')
      BY <1>6, <2>1, PartOrderly
    <2>5. HostInv'
      BY <1>6, <2>1, <2>2, <2>3, <2>4 DEF HostInv
    <2> QED BY <1>1, <2>1, <2>5, DmFrame, InvFrame
  <1>8. CASE HostIdle
    <2>1. todo = <<>> /\ todo' = <<Nop>> /\ loc' = loc /\ UNCHANGED <<resp_wait, resp, dmVars>> /\ dm' = dm
      BY <1>8 DEF HostIdle, wireVars, dmVars
    <2>2. todo' \in Scripts
      <3>1. Nop \in Reqs /\ ~Starts(Nop) /\ ~Arms(Nop)
        BY Requested DEF Nop, Request, Starts, Arms
      <3> QED BY <2>1, <3>1, Single, PartsAreScripts
    <2>3. Orderly(dm', Remaining')
      BY <1>6, <2>1, PartOrderly
    <2>4. Host(loc') /\ HostFields \subseteq DOMAIN loc'
      BY <1>1, <2>1 DEF HostInv
    <2>5. HostInv'
      BY <1>6, <2>1, <2>2, <2>3, <2>4 DEF HostInv
    <2> QED BY <1>1, <2>1, <2>5, DmFrame, InvFrame
  <1> QED BY <1>1, <1>2, <1>3, <1>4, <1>5, <1>7, <1>8 DEF DtmStep

\* A step of a hart.
LEMMA HartsKeep ==
  ASSUME DebugInv, NEW h \in Harts, Hart(h)
  PROVE  DebugInv'
  <1>1. CommandInv /\ HartStep(h) /\ port' = port /\ UNCHANGED <<todo, loc, resp_wait, resp>> /\ Registers(dm)
    BY DEF DebugInv, Hart, hostVars, wireVars, CommandInv
  <1>2. CommandInv' /\ (dm'.busy => dm.busy) /\ dm'.autodata = dm.autodata /\ width' = width
    BY <1>1, HartKeeps, HartLowers
  <1>3. ASSUME port = "dtm"
        PROVE  HostInv'
    <2>1. HostInv
      BY <1>3 DEF DebugInv
    <2>2. Remaining' = Remaining
      BY <1>1 DEF Remaining
    <2>3. Orderly(dm', Remaining')
      BY <1>2, <2>1, <2>2 DEF Orderly, HostInv
    <2>4. resp' # <<>> /\ Head(todo') = PollNotBusy /\ ~Head(resp').val.busy => ~dm'.busy
      BY <1>1, <1>2, <2>1 DEF HostInv
    <2>5. Host(loc') /\ HostFields \subseteq DOMAIN loc'
      BY <1>1, <2>1 DEF HostInv
    <2>6. todo' \in Scripts /\ (resp_wait' \/ resp' # <<>> => todo' # <<>>)
      BY <1>1, <2>1 DEF HostInv
    <2> QED BY <2>3, <2>4, <2>5, <2>6 DEF HostInv
  <1> QED BY <1>1, <1>2, <1>3, InvFrame

\* The JTAG port reaches the data register and a reserved one.
LEMMA PortKeeps ==
  ASSUME DebugInv, Server \/ Client
  PROVE  DebugInv'
  <1>1. CommandInv /\ port' = port /\ port = "jtag"
    BY DEF DebugInv, Server, Client
  <1>2. \/ UNCHANGED dmVars
        \/ \E q : Polite(q) /\ Dmi(q, Access(q))
    <2>1. CASE Client
      BY <2>1 DEF Client, ClientStep, Connect, ClientScan, Disconnect
    <2>2. CASE Server /\ ~Turn
      BY <2>2 DEF Server, ServerStep, accept, ExecuteCommands, ReadSocket, ReadNothing
    <2>3. CASE Turn
      <3> DEFINE c == Head(rb.recv)
      <3>1. \/ UNCHANGED dmVars
            \/ set_pins(Pins[c])
        <4>1. CASE c \in DOMAIN Pins
          BY <2>3, <4>1 DEF Turn, Character
        <4>2. CASE c \notin DOMAIN Pins
          BY <2>3, <4>2 DEF Turn, Character
        <4> QED BY <4>1, <4>2
      <3>2. ASSUME set_pins(Pins[c]), Updates(tap, Pins[c])
            PROVE  \E q : Polite(q) /\ Dmi(q, Access(q))
        <4> DEFINE q == DmiRequest(tap.dr)
        <4>1. Dmi(q, Access(q))
          <5>1. \E a \in {q} : \E r \in {Access(a)} : Dmi(a, r)
            BY <3>2 DEF set_pins
          <5> HIDE DEF q
          <5> QED BY <5>1
        <4>2. Polite(q)
          BY DEF Polite, DmiRequest
        <4> QED BY <4>1, <4>2
      <3>3. ASSUME set_pins(Pins[c]), ~Updates(tap, Pins[c])
            PROVE  UNCHANGED dmVars
        BY <3>3 DEF set_pins
      <3> QED BY <3>1, <3>2, <3>3
    <2> QED BY <2>1, <2>2, <2>3 DEF Server
  <1>3. ASSUME NEW q, Polite(q), Dmi(q, Access(q))
        PROVE  CommandInv' /\ width' = width
    BY <1>1, <1>3, DmiKeeps DEF Dmi
  <1>4. CommandInv' /\ width' = width
    BY <1>1, <1>2, <1>3, DmFrame
  <1> QED BY <1>1, <1>4, InvFrame

\* The reset module runs nothing, and the host begins with a script.
LEMMA InitHolds ==
  ASSUME Init
  PROVE  DebugInv
  <1>1. dm = reset(DmInit) /\ port \in {"dtm", "jtag"} /\ width \in {1, 2}
        /\ hart = [h \in Harts |->
                 [pc |-> "run", i |-> 1, s0 |-> Wide(0), s1 |-> Wide(0), csr |-> Wide(1),
                  dscratch |-> Wide(0), dpc |-> Wide(0), user |-> [s0 |-> Wide(0), s1 |-> Wide(0)]]]
    BY DEF Init, DmModuleInit
  <1>2. Registers(dm) /\ ~dm.busy /\ dm.autodata = {} /\ dm.go = {}
    BY <1>1 DEF reset, DmInit, Registers, Fields
  <1>3. DOMAIN hart = Harts /\ \A h \in Harts : "pc" \in DOMAIN hart[h] /\ hart[h].pc = "run"
    BY <1>1
  <1>4. CommandInv
    BY <1>2, <1>3 DEF CommandInv, CommandExclusive, InCommand
  <1>5. todo = producer_thread /\ resp = <<>> /\ ~resp_wait
    BY DEF Init, DtmInit
  <1>6. Host(loc) /\ HostFields \subseteq DOMAIN loc
    BY DEF Init, DtmInit, Host, HostFields
  <1>7. todo \in Scripts
    BY <1>5, Decisions, PartsAreScripts
  <1>8. Orderly(dm, Remaining)
    BY <1>2, PartOrderly
  <1> QED BY <1>1, <1>4, <1>5, <1>6, <1>7, <1>8 DEF DebugInv, HostInv

\* The debug module, the harts, and what the transport has still to ask for stay
\* in step, through every operation, poll, fault and decision of dtm.cc, and of
\* the accesses that the JTAG port makes.
THEOREM DebugInvariant == Spec => []DebugInv
  <1>1. Init => DebugInv
    BY InitHolds
  <1>2. DebugInv /\ [Next]_vars => DebugInv'
    <2> SUFFICES ASSUME DebugInv, [Next]_vars
                 PROVE  DebugInv'
      OBVIOUS
    <2>1. CASE UNCHANGED vars
      <3>1. UNCHANGED <<port, todo, loc, resp_wait, resp>> /\ UNCHANGED dmVars
        BY <2>1 DEF vars, hostVars, wireVars
      <3>2. CommandInv' /\ width' = width
        BY <3>1, DmFrame DEF DebugInv
      <3>3. ASSUME port = "dtm"
            PROVE  HostInv'
        BY <3>1, <3>3 DEF DebugInv, HostInv, Remaining, dmVars
      <3> QED BY <3>1, <3>2, <3>3, InvFrame
    <2>2. CASE Debugger
      BY <2>2, DebuggerKeeps
    <2>3. ASSUME NEW h \in Harts, Hart(h)
          PROVE  DebugInv'
      BY <2>3, HartsKeep
    <2>4. CASE Server \/ Client
      BY <2>4, PortKeeps
    <2> QED BY <2>1, <2>2, <2>3, <2>4 DEF Next
  <1> QED BY <1>1, <1>2, PTL DEF Spec

\* A command's hart is the selected one and the only one, busy is set as long as
\* it is on its way into the buffers or inside, so the debugger's writes and the
\* hart's execution never meet (debug_module.cc, dtm.cc, debug_rom.S).
THEOREM CommandsExclusive == Spec => []CommandExclusive
  <1>1. DebugInv => CommandExclusive
    BY DEF DebugInv, CommandInv
  <1> QED BY <1>1, DebugInvariant, PTL
----------------------------------------------------------------------------
(* The JTAG port: the characters on their way, and where they lead. *)

St(t, x, p, o) == [tap |-> t, data |-> x, performed |-> p, out |-> o]
Tp(k, m, b, o, s, ir, dr, n, dmi) ==
    [tck |-> k, tms |-> m, tdi |-> b, tdo |-> o, state |-> s, ir |-> ir, dr |-> dr, dr_length |-> n, dmi |-> dmi]

\* The DMI register after an update, with x in the data register.
Scanned(t, x) ==
    [t EXCEPT !.dmi = Dbus(Address(t.dr), IF Op(t.dr) = 1 /\ Address(t.dr) = 0 THEN x ELSE Data(t.dr),
                           IF Address(t.dr) = 0 THEN 0 ELSE 2)]

\* The port after character c: its TAP, the data register, the scans performed
\* and the bits given back.
Run(s, c) ==
    IF c \in DOMAIN Pins
    THEN IF Updates(s.tap, Pins[c])
         THEN St(Latched(Scanned(PosEdge(s.tap), s.data), Pins[c]),
                 IF Op(s.tap.dr) = 2 /\ Address(s.tap.dr) = 0 THEN Data(s.tap.dr) ELSE s.data,
                 Append(s.performed, s.tap.dr), s.out)
         ELSE St(Latched(Clocked(s.tap, Pins[c]), Pins[c]), s.data, s.performed, s.out)
    ELSE IF c = "r" THEN St([s.tap EXCEPT !.state = "TEST_LOGIC_RESET"], s.data, s.performed, s.out)
    ELSE IF c = "R" THEN St(s.tap, s.data, s.performed, Append(s.out, s.tap.tdo))
    ELSE s
Legal(s, c) ==
    c \in DOMAIN Pins /\ Updates(s.tap, Pins[c]) => s.tap.dr \in Requests /\ PosEdge(s.tap).dr = s.tap.dr

\* tr[k] is the port after the first k characters of x.
Trail(tr, x) ==
    /\ \A k \in 1 .. Len(x) : Legal(tr[k - 1], x[k]) /\ tr[k] = Run(tr[k - 1], x[k])
    /\ \A k \in 0 .. Len(x) : tr[k].out \in Seq({0, 1})
    /\ \A i, j \in 0 .. Len(x) : i <= j => Len(tr[i].out) <= Len(tr[j].out)

\* x leads from a to b, and the scans performed are one of P on the way.
Leads(a, x, b, P) ==
    \E tr : /\ Trail(tr, x) /\ tr[0] = a /\ tr[Len(x)] = b
            /\ \A k \in 0 .. Len(x) : tr[k].performed \in P

\* One trail behind another.
LEMMA TrailConcat ==
  ASSUME NEW C, NEW x \in Seq(C), NEW y \in Seq(C), NEW tr, NEW us, Trail(tr, x), Trail(us, y),
         tr[Len(x)] = us[0]
  PROVE  LET vs == [k \in 0 .. Len(x) + Len(y) |-> IF k <= Len(x) THEN tr[k] ELSE us[k - Len(x)]]
         IN  Trail(vs, x \o y)
  <1> DEFINE n == Len(x)
             m == Len(y)
             z == x \o y
             vs == [k \in 0 .. n + m |-> IF k <= n THEN tr[k] ELSE us[k - n]]
  <1>1. n \in Nat /\ m \in Nat /\ Len(z) = n + m
    OBVIOUS
  <1>2. (\A k \in 0 .. n : vs[k] = tr[k]) /\ (\A k \in n .. n + m : vs[k] = us[k - n])
    BY <1>1
  <1>3. (\A k \in 1 .. n : z[k] = x[k]) /\ (\A k \in n + 1 .. n + m : z[k] = y[k - n])
    BY <1>1
  <1>4. ASSUME NEW k \in 1 .. Len(z)
        PROVE  Legal(vs[k - 1], z[k]) /\ vs[k] = Run(vs[k - 1], z[k])
    <2>1. CASE k <= n
      <3>1. k \in 1 .. n /\ k - 1 \in 0 .. n /\ k \in 0 .. n
        BY <2>1, <1>1
      <3>2. vs[k] = tr[k] /\ vs[k - 1] = tr[k - 1] /\ z[k] = x[k]
        BY <3>1, <1>2, <1>3
      <3>3. Legal(tr[k - 1], x[k]) /\ tr[k] = Run(tr[k - 1], x[k])
        BY <3>1 DEF Trail
      <3> QED BY <3>2, <3>3
    <2>2. CASE n < k
      <3>1. k - n \in 1 .. m /\ k \in n .. n + m /\ k - 1 \in n .. n + m /\ (k - 1) - n = (k - n) - 1 /\ k \in n + 1 .. n + m
        BY <2>2, <1>1
      <3>2. vs[k] = us[k - n] /\ vs[k - 1] = us[(k - n) - 1] /\ z[k] = y[k - n]
        BY <3>1, <1>2, <1>3
      <3>3. Legal(us[(k - n) - 1], y[k - n]) /\ us[k - n] = Run(us[(k - n) - 1], y[k - n])
        BY <3>1 DEF Trail
      <3> QED BY <3>2, <3>3
    <2> QED BY <2>1, <2>2, <1>1
  <1>5. ASSUME NEW k \in 0 .. Len(z)
        PROVE  vs[k].out \in Seq({0, 1})
    <2>1. CASE k <= n
      BY <2>1, <1>1, <1>2 DEF Trail
    <2>2. CASE n < k
      <3>1. k - n \in 0 .. m /\ vs[k] = us[k - n]
        BY <2>2, <1>1, <1>2
      <3> QED BY <3>1 DEF Trail
    <2> QED BY <2>1, <2>2, <1>1
  <1>6. ASSUME NEW i \in 0 .. Len(z), NEW j \in 0 .. Len(z), i <= j
        PROVE  Len(vs[i].out) <= Len(vs[j].out)
    <2>1. CASE j <= n
      BY <2>1, <1>1, <1>2, <1>6 DEF Trail
    <2>2. CASE n < i
      <3>1. i - n \in 0 .. m /\ j - n \in 0 .. m /\ i - n <= j - n /\ vs[i] = us[i - n] /\ vs[j] = us[j - n]
        BY <2>2, <1>1, <1>2, <1>6
      <3> QED BY <3>1 DEF Trail
    <2>3. CASE i <= n /\ n < j
      <3>1. j - n \in 0 .. m /\ 0 \in 0 .. m /\ n \in 0 .. n /\ vs[i] = tr[i] /\ vs[j] = us[j - n] /\ i \in 0 .. n
        BY <2>3, <1>1, <1>2
      <3>2. Len(tr[i].out) <= Len(tr[n].out) /\ Len(us[0].out) <= Len(us[j - n].out)
        BY <3>1, <2>3 DEF Trail
      <3>3. tr[i].out \in Seq({0, 1}) /\ tr[n].out \in Seq({0, 1}) /\ us[j - n].out \in Seq({0, 1})
        BY <3>1 DEF Trail
      <3>4. Len(tr[i].out) \in Nat /\ Len(tr[n].out) \in Nat /\ Len(us[j - n].out) \in Nat
        BY <3>3
      <3>5. Len(tr[n].out) = Len(us[0].out)
        OBVIOUS
      <3>6. Len(tr[i].out) <= Len(us[j - n].out)
        <4> DEFINE A == Len(tr[i].out)
                   B == Len(tr[n].out)
                   D == Len(us[j - n].out)
        <4>1. A <= B /\ B <= D
          BY <3>2, <3>5
        <4>2. A \in Nat /\ B \in Nat /\ D \in Nat
          BY <3>4
        <4> HIDE DEF A, B, D
        <4>3. A <= D
          BY <4>1, <4>2
        <4> QED BY <4>3 DEF A, D
      <3> HIDE DEF n, vs
      <3> QED BY <3>1, <3>6
    <2> QED BY <2>1, <2>2, <2>3, <1>1
  <1> HIDE DEF vs
  <1>7. Trail(vs, z)
    BY <1>4, <1>5, <1>6 DEF Trail
  <1> QED BY <1>7 DEF vs

\* What one string leads to, another may lead on from.
LEMMA LeadsConcat ==
  ASSUME NEW C, NEW x \in Seq(C), NEW y \in Seq(C), NEW a, NEW b, NEW c, NEW P,
         Leads(a, x, b, P), Leads(b, y, c, P)
  PROVE  Leads(a, x \o y, c, P)
  <1>1. PICK tr : Trail(tr, x) /\ tr[0] = a /\ tr[Len(x)] = b /\ \A k \in 0 .. Len(x) : tr[k].performed \in P
    BY DEF Leads
  <1>2. PICK us : Trail(us, y) /\ us[0] = b /\ us[Len(y)] = c /\ \A k \in 0 .. Len(y) : us[k].performed \in P
    BY DEF Leads
  <1> DEFINE n == Len(x)
             m == Len(y)
             vs == [k \in 0 .. n + m |-> IF k <= n THEN tr[k] ELSE us[k - n]]
  <1>3. Trail(vs, x \o y)
    BY <1>1, <1>2, TrailConcat
  <1>4. n \in Nat /\ m \in Nat /\ Len(x \o y) = n + m
    OBVIOUS
  <1>5. vs[0] = a /\ vs[n + m] = c
    <2>1. 0 \in 0 .. n + m /\ n + m \in 0 .. n + m /\ 0 <= n /\ (n + m) - n = m
      BY <1>4
    <2>2. CASE m = 0
      BY <1>1, <1>2, <2>1, <2>2, <1>4
    <2>3. CASE m # 0
      BY <1>1, <1>2, <2>1, <2>3, <1>4
    <2> QED BY <2>2, <2>3
  <1>6. ASSUME NEW k \in 0 .. n + m
        PROVE  vs[k].performed \in P
    <2>1. CASE k <= n
      BY <2>1, <1>1, <1>4
    <2>2. CASE n < k
      <3>1. k - n \in 0 .. m /\ vs[k] = us[k - n]
        BY <2>2, <1>4
      <3> HIDE DEF vs
      <3> QED BY <3>1, <1>2
    <2> QED BY <2>1, <2>2, <1>4
  <1> HIDE DEF vs
  <1> QED BY <1>3, <1>4, <1>5, <1>6 DEF Leads

\* A wider choice of scans performed on the way.
LEMMA LeadsMore ==
  ASSUME NEW a, NEW x, NEW b, NEW P, NEW Q, P \subseteq Q, Leads(a, x, b, P)
  PROVE  Leads(a, x, b, Q)
  BY DEF Leads

\* One character.
LEMMA LeadsOne ==
  ASSUME NEW a, NEW c, NEW P, Legal(a, c), a.out \in Seq({0, 1}), Run(a, c).out \in Seq({0, 1}),
         Len(a.out) <= Len(Run(a, c).out), a.performed \in P, Run(a, c).performed \in P
  PROVE  Leads(a, <<c>>, Run(a, c), P)
  <1> DEFINE b == Run(a, c)
             tr == [k \in 0 .. 1 |-> IF k = 0 THEN a ELSE b]
  <1>1. Len(<<c>>) = 1 /\ <<c>>[1] = c /\ 0 .. 1 = {0, 1} /\ 1 .. 1 = {1} /\ tr[0] = a /\ tr[1] = b
    OBVIOUS
  <1>2. Len(a.out) \in Nat /\ Len(b.out) \in Nat
    OBVIOUS
  <1> HIDE DEF tr, b
  <1>3. b = Run(a, c)
    BY DEF b
  <1>4. ASSUME NEW k \in 1 .. Len(<<c>>)
        PROVE  Legal(tr[k - 1], <<c>>[k]) /\ tr[k] = Run(tr[k - 1], <<c>>[k])
    <2>1. k = 1 /\ k - 1 = 0
      BY <1>1
    <2> QED BY <2>1, <1>1, <1>3
  <1>5. Trail(tr, <<c>>)
    <2>1. \A k \in 0 .. 1 : tr[k].out \in Seq({0, 1})
      BY <1>1, <1>3
    <2>2. ASSUME NEW i \in 0 .. 1, NEW j \in 0 .. 1, i <= j
          PROVE  Len(tr[i].out) <= Len(tr[j].out)
      BY <1>1, <1>2, <1>3, <2>2
    <2> QED BY <1>1, <1>4, <2>1, <2>2 DEF Trail
  <1>6. \A k \in 0 .. 1 : tr[k].performed \in P
    BY <1>1, <1>3
  <1> QED BY <1>1, <1>3, <1>5, <1>6 DEF Leads

\* The character for three pins is one, and it sets those pins.
LEMMA PinChars ==
  ASSUME NEW k \in {0, 1}, NEW m \in {0, 1}, NEW b \in {0, 1}
  PROVE  /\ PinChar(k, m, b) \in {"0", "1", "2", "3", "4", "5", "6", "7"}
         /\ PinChar(k, m, b) \in DOMAIN Pins /\ Pins[PinChar(k, m, b)] = <<k, m, b>>
  <1>1. \E c \in DOMAIN Pins : Pins[c] = <<k, m, b>>
    <2>1. Pins["0"] = <<0, 0, 0>> /\ Pins["1"] = <<0, 0, 1>> /\ Pins["2"] = <<0, 1, 0>> /\ Pins["3"] = <<0, 1, 1>>
      BY DEF Pins
    <2>2. Pins["4"] = <<1, 0, 0>> /\ Pins["5"] = <<1, 0, 1>> /\ Pins["6"] = <<1, 1, 0>> /\ Pins["7"] = <<1, 1, 1>>
      BY DEF Pins
    <2>3. DOMAIN Pins = {"0", "1", "2", "3", "4", "5", "6", "7"}
      BY DEF Pins
    <2> QED BY <2>1, <2>2, <2>3
  <1>2. DOMAIN Pins = {"0", "1", "2", "3", "4", "5", "6", "7"}
    BY DEF Pins
  <1> QED BY <1>1, <1>2 DEF PinChar

\* Pins that perform no scan move the TAP only.
LEMMA RunMoves ==
  ASSUME NEW a, NEW c \in DOMAIN Pins, ~Updates(a.tap, Pins[c])
  PROVE  Run(a, c) = St(Latched(Clocked(a.tap, Pins[c]), Pins[c]), a.data, a.performed, a.out) /\ Legal(a, c)
  BY DEF Run, Legal

\* The pins are latched, and nothing else.
LEMMA LatchedTp ==
  ASSUME NEW k, NEW m, NEW b, NEW o, NEW s, NEW ir, NEW dr, NEW n, NEW dmi, NEW k2, NEW m2, NEW b2
  PROVE  Latched(Tp(k, m, b, o, s, ir, dr, n, dmi), <<k2, m2, b2>>) = Tp(k2, m2, b2, o, s, ir, dr, n, dmi)
  <1> DEFINE F == {"tck", "tms", "tdi", "tdo", "state", "ir", "dr", "dr_length", "dmi"}
             t == Tp(k, m, b, o, s, ir, dr, n, dmi)
             r == [t EXCEPT !.tck = k2, !.tms = m2, !.tdi = b2]
             q == Tp(k2, m2, b2, o, s, ir, dr, n, dmi)
  <1>1. q = [f \in F |-> q[f]] /\ r = [f \in F |-> r[f]]
    BY DEF Tp
  <1>2. /\ r.tck = q.tck /\ r.tms = q.tms /\ r.tdi = q.tdi /\ r.tdo = q.tdo /\ r.state = q.state
        /\ r.ir = q.ir /\ r.dr = q.dr /\ r.dr_length = q.dr_length /\ r.dmi = q.dmi
    BY DEF Tp
  <1>3. r = q
    <2> HIDE DEF r, q
    <2> QED BY <1>1, <1>2
  <1> QED BY <1>3 DEF Latched

\* Two characters, one behind the other.
LEMMA Pair ==
  ASSUME NEW c, NEW d
  PROVE  <<c>> \o <<d>> = <<c, d>>
  <1> DEFINE s == <<c>> \o <<d>>
             t == <<c, d>>
             X == {c, d}
  <1>1. <<c>> \in Seq(X) /\ <<d>> \in Seq(X) /\ t \in Seq(X) /\ s \in Seq(X)
    OBVIOUS
  <1>2. Len(<<c>>) = 1 /\ Len(<<d>>) = 1 /\ Len(t) = 2 /\ t[1] = c /\ t[2] = d
    OBVIOUS
  <1>3. Len(s) = 2 /\ s[1] = c /\ s[2] = d
    BY <1>1, <1>2, ConcatProperties
  <1> HIDE DEF s, t, X
  <1>4. \A i \in 1 .. Len(s) : s[i] = t[i]
    BY <1>2, <1>3
  <1>5. s = t
    BY <1>1, <1>2, <1>3, <1>4, SeqEqual
  <1> QED BY <1>5 DEF s, t

\* Three of them.
LEMMA Triple ==
  ASSUME NEW c, NEW d, NEW e
  PROVE  (<<c>> \o <<d>>) \o <<e>> = <<c, d, e>>
  <1> DEFINE s == <<c, d>> \o <<e>>
             t == <<c, d, e>>
             X == {c, d, e}
  <1>1. <<c, d>> \in Seq(X) /\ <<e>> \in Seq(X) /\ t \in Seq(X) /\ s \in Seq(X)
    OBVIOUS
  <1>2. Len(<<c, d>>) = 2 /\ <<c, d>>[1] = c /\ <<c, d>>[2] = d /\ Len(<<e>>) = 1
        /\ Len(t) = 3 /\ t[1] = c /\ t[2] = d /\ t[3] = e
    OBVIOUS
  <1>3. Len(s) = 3 /\ s[1] = c /\ s[2] = d /\ s[3] = e
    BY <1>1, <1>2, ConcatProperties
  <1> HIDE DEF s, t, X
  <1>4. \A i \in 1 .. Len(s) : s[i] = t[i]
    BY <1>2, <1>3
  <1>5. s = t
    BY <1>1, <1>2, <1>3, <1>4, SeqEqual
  <1>6. s = (<<c>> \o <<d>>) \o <<e>>
    BY Pair DEF s
  <1> QED BY <1>5, <1>6 DEF t

Chars == {"0", "1", "2", "3", "4", "5", "6", "7", "R", "r", "B", "b", "Q"}

\* A falling tck only latches the pins.
LEMMA Falling ==
  ASSUME NEW m \in {0, 1}, NEW b \in {0, 1}, NEW t, NEW x, NEW p, NEW out \in Seq({0, 1})
  PROVE  Leads(St(t, x, p, out), <<PinChar(0, m, b)>>, St(Latched(t, <<0, m, b>>), x, p, out), {p})
  <1> DEFINE a == St(t, x, p, out)
             z == St(Latched(t, <<0, m, b>>), x, p, out)
             c == PinChar(0, m, b)
  <1>1. c \in DOMAIN Pins /\ Pins[c] = <<0, m, b>> /\ <<0, m, b>>[1] = 0
    BY PinChars
  <1>2. a.tap = t /\ a.data = x /\ a.performed = p /\ a.out = out
    BY DEF St
  <1>3. ~Updates(a.tap, Pins[c])
    <2> HIDE DEF c, a
    <2> QED BY <1>1 DEF Updates
  <1>4. Clocked(a.tap, Pins[c]) = t
    <2> HIDE DEF c, a
    <2> QED BY <1>1, <1>2 DEF Clocked
  <1>5. Run(a, c) = z /\ Legal(a, c)
    <2> HIDE DEF c, a
    <2> QED BY <1>1, <1>2, <1>3, <1>4, RunMoves
  <1>6. z.out = out /\ z.performed = p
    BY DEF St
  <1> HIDE DEF a, c, z
  <1>7. Leads(a, <<c>>, Run(a, c), {p})
    <2>1. a.out \in Seq({0, 1}) /\ Run(a, c).out = a.out /\ Len(a.out) \in Nat
      BY <1>2, <1>5, <1>6
    <2> QED BY <2>1, <1>2, <1>5, <1>6, LeadsOne
  <1> QED BY <1>5, <1>7 DEF a, c, z

\* A rising one moves the TAP.
LEMMA Rising ==
  ASSUME NEW m \in {0, 1}, NEW b \in {0, 1}, NEW t, NEW x, NEW p, NEW out \in Seq({0, 1}),
         t.tck = 0, ~(TapNext[t.state][t.tms + 1] = "UPDATE_DR" /\ t.ir = IR_DBUS)
  PROVE  Leads(St(t, x, p, out), <<PinChar(1, m, b)>>, St(Latched(PosEdge(t), <<1, m, b>>), x, p, out), {p})
  <1> DEFINE a == St(t, x, p, out)
             z == St(Latched(PosEdge(t), <<1, m, b>>), x, p, out)
             c == PinChar(1, m, b)
  <1>1. c \in DOMAIN Pins /\ Pins[c] = <<1, m, b>> /\ <<1, m, b>>[1] = 1
    BY PinChars
  <1>2. a.tap = t /\ a.data = x /\ a.performed = p /\ a.out = out
    BY DEF St
  <1>3. ~Updates(a.tap, Pins[c])
    <2> HIDE DEF c, a
    <2> QED BY <1>1, <1>2 DEF Updates
  <1>4. Clocked(a.tap, Pins[c]) = PosEdge(t)
    <2> HIDE DEF c, a
    <2> QED BY <1>1, <1>2 DEF Clocked
  <1>5. Run(a, c) = z /\ Legal(a, c)
    <2> HIDE DEF c, a
    <2> QED BY <1>1, <1>2, <1>3, <1>4, RunMoves
  <1>6. z.out = out /\ z.performed = p
    BY DEF St
  <1> HIDE DEF a, c, z
  <1>7. Leads(a, <<c>>, Run(a, c), {p})
    <2>1. a.out \in Seq({0, 1}) /\ Run(a, c).out = a.out /\ Len(a.out) \in Nat
      BY <1>2, <1>5, <1>6
    <2> QED BY <2>1, <1>2, <1>5, <1>6, LeadsOne
  <1> QED BY <1>5, <1>7 DEF a, c, z

\* R gives tdo back.
LEMMA Asking ==
  ASSUME NEW t, NEW x, NEW p, NEW out \in Seq({0, 1}), t.tdo \in {0, 1}
  PROVE  Leads(St(t, x, p, out), <<"R">>, St(t, x, p, Append(out, t.tdo)), {p})
  <1> DEFINE a == St(t, x, p, out)
             z == St(t, x, p, Append(out, t.tdo))
  <1>1. a.tap = t /\ a.data = x /\ a.performed = p /\ a.out = out
    BY DEF St
  <1>2. /\ z.out = Append(out, t.tdo) /\ z.performed = p
        /\ Append(out, t.tdo) \in Seq({0, 1}) /\ Len(out) <= Len(Append(out, t.tdo))
    BY DEF St
  <1>3. "R" \notin DOMAIN Pins
    BY DEF Pins
  <1> HIDE DEF a
  <1>4. Run(a, "R") = z /\ Legal(a, "R")
    BY <1>1, <1>3 DEF Run, Legal
  <1> HIDE DEF z
  <1>5. Leads(a, <<"R">>, Run(a, "R"), {p})
    BY <1>1, <1>2, <1>4, LeadsOne
  <1> QED BY <1>4, <1>5 DEF a, z

\* A clock moves the TAP by m and b.
LEMMA Pulse ==
  ASSUME NEW m \in {0, 1}, NEW b \in {0, 1}, NEW t, NEW l, NEW t2, NEW x, NEW p, NEW out \in Seq({0, 1}),
         l = Latched(t, <<0, m, b>>), t2 = Latched(PosEdge(l), <<1, m, b>>),
         l.tck = 0, ~(TapNext[l.state][l.tms + 1] = "UPDATE_DR" /\ l.ir = IR_DBUS)
  PROVE  Leads(St(t, x, p, out), <<PinChar(0, m, b), PinChar(1, m, b)>>, St(t2, x, p, out), {p})
  <1> DEFINE c == PinChar(0, m, b)
             d == PinChar(1, m, b)
  <1>1. c \in Chars /\ d \in Chars
    BY PinChars DEF Chars
  <1>2. Leads(St(t, x, p, out), <<c>>, St(l, x, p, out), {p})
    BY Falling
  <1>3. Leads(St(l, x, p, out), <<d>>, St(t2, x, p, out), {p})
    BY Rising
  <1> HIDE DEF c, d
  <1>4. Leads(St(t, x, p, out), <<c>> \o <<d>>, St(t2, x, p, out), {p})
    <2>1. <<c>> \in Seq(Chars) /\ <<d>> \in Seq(Chars)
      BY <1>1
    <2> QED BY <2>1, <1>2, <1>3, LeadsConcat
  <1>5. <<c>> \o <<d>> = <<c, d>>
    BY Pair
  <1> QED BY <1>4, <1>5 DEF c, d

\* A bit is read before the TAP moves.
LEMMA PulseAsking ==
  ASSUME NEW m \in {0, 1}, NEW b \in {0, 1}, NEW t, NEW l, NEW t2, NEW x, NEW p, NEW out \in Seq({0, 1}),
         l = Latched(t, <<0, m, b>>), t2 = Latched(PosEdge(l), <<1, m, b>>), l.tdo \in {0, 1},
         l.tck = 0, ~(TapNext[l.state][l.tms + 1] = "UPDATE_DR" /\ l.ir = IR_DBUS)
  PROVE  Leads(St(t, x, p, out), ShiftBit(m, b), St(t2, x, p, Append(out, l.tdo)), {p})
  <1> DEFINE c == PinChar(0, m, b)
             d == PinChar(1, m, b)
             more == Append(out, l.tdo)
  <1>1. c \in Chars /\ d \in Chars /\ "R" \in Chars
    BY PinChars DEF Chars
  <1>2. Leads(St(t, x, p, out), <<c>>, St(l, x, p, out), {p})
    BY Falling
  <1>3. Leads(St(l, x, p, out), <<"R">>, St(l, x, p, more), {p})
    BY Asking
  <1>4. Leads(St(l, x, p, more), <<d>>, St(t2, x, p, more), {p})
    <2>1. more \in Seq({0, 1})
      OBVIOUS
    <2> HIDE DEF more
    <2> QED BY <2>1, Rising
  <1>5. ShiftBit(m, b) = <<c, "R", d>>
    BY DEF ShiftBit
  <1> HIDE DEF c, d, more
  <1>6. <<c>> \in Seq(Chars) /\ <<d>> \in Seq(Chars) /\ <<"R">> \in Seq(Chars) /\ <<c>> \o <<"R">> \in Seq(Chars)
    BY <1>1
  <1>7. Leads(St(t, x, p, out), <<c>> \o <<"R">>, St(l, x, p, more), {p})
    BY <1>6, <1>2, <1>3, LeadsConcat
  <1>8. Leads(St(t, x, p, out), (<<c>> \o <<"R">>) \o <<d>>, St(t2, x, p, more), {p})
    BY <1>6, <1>7, <1>4, LeadsConcat
  <1>9. (<<c>> \o <<"R">>) \o <<d>> = <<c, "R", d>>
    BY Triple
  <1> QED BY <1>5, <1>8, <1>9 DEF more

\* Where the TAP goes from each state.
LEMMA Nexts ==
  /\ TapNext["TEST_LOGIC_RESET"] = <<"RUN_TEST_IDLE", "TEST_LOGIC_RESET">>
  /\ TapNext["RUN_TEST_IDLE"] = <<"RUN_TEST_IDLE", "SELECT_DR_SCAN">>
  /\ TapNext["SELECT_DR_SCAN"] = <<"CAPTURE_DR", "SELECT_IR_SCAN">>
  /\ TapNext["CAPTURE_DR"] = <<"SHIFT_DR", "EXIT1_DR">>
  /\ TapNext["SHIFT_DR"] = <<"SHIFT_DR", "EXIT1_DR">>
  /\ TapNext["EXIT1_DR"] = <<"PAUSE_DR", "UPDATE_DR">>
  /\ TapNext["PAUSE_DR"] = <<"PAUSE_DR", "EXIT2_DR">>
  /\ TapNext["EXIT2_DR"] = <<"SHIFT_DR", "UPDATE_DR">>
  /\ TapNext["UPDATE_DR"] = <<"RUN_TEST_IDLE", "SELECT_DR_SCAN">>
  /\ TapNext["SELECT_IR_SCAN"] = <<"CAPTURE_IR", "TEST_LOGIC_RESET">>
  /\ TapNext["CAPTURE_IR"] = <<"SHIFT_IR", "EXIT1_IR">>
  /\ TapNext["SHIFT_IR"] = <<"SHIFT_IR", "EXIT1_IR">>
  /\ TapNext["EXIT1_IR"] = <<"PAUSE_IR", "UPDATE_IR">>
  /\ TapNext["UPDATE_IR"] = <<"RUN_TEST_IDLE", "SELECT_DR_SCAN">>
  BY DEF TapNext

\* What a rising edge does to the TAP.
LEMMA Edge ==
  ASSUME NEW m, NEW b, NEW o, NEW s, NEW ir, NEW dr, NEW n, NEW dmi, NEW nx, nx = TapNext[s][m + 1]
  PROVE  LET t == Tp(0, m, b, o, s, ir, dr, n, dmi) IN
         /\ s \notin {"SHIFT_DR", "SHIFT_IR"} =>
              /\ nx \notin {"TEST_LOGIC_RESET", "CAPTURE_DR", "SHIFT_DR", "SHIFT_IR"} =>
                    PosEdge(t) = Tp(0, m, b, o, nx, ir, dr, n, dmi)
              /\ nx = "TEST_LOGIC_RESET" => PosEdge(t) = Tp(0, m, b, o, nx, 1, dr, n, dmi)
              /\ nx = "CAPTURE_DR" /\ ir = 3 => PosEdge(t) = Tp(0, m, b, o, nx, ir, dmi, 5, dmi)
              /\ nx = "SHIFT_DR" => PosEdge(t) = Tp(0, m, b, dr % 2, nx, ir, dr, n, dmi)
              /\ nx = "SHIFT_IR" => PosEdge(t) = Tp(0, m, b, ir % 2, nx, ir, dr, n, dmi)
         /\ s = "SHIFT_DR" =>
              LET d == Shift(dr, n, b) IN
              /\ nx = "SHIFT_DR" => PosEdge(t) = Tp(0, m, b, d % 2, nx, ir, d, n, dmi)
              /\ nx = "EXIT1_DR" => PosEdge(t) = Tp(0, m, b, o, nx, ir, d, n, dmi)
         /\ s = "SHIFT_IR" =>
              LET i == Shift(ir, 2, b) IN
              /\ nx = "SHIFT_IR" => PosEdge(t) = Tp(0, m, b, i % 2, nx, i, dr, n, dmi)
              /\ nx = "EXIT1_IR" => PosEdge(t) = Tp(0, m, b, o, nx, i, dr, n, dmi)
  <1> DEFINE t == Tp(0, m, b, o, s, ir, dr, n, dmi)
             u == [Shifted(t) EXCEPT !.state = nx]
  <1>1. t.state = s /\ t.tms = m /\ t.tdi = b /\ t.dr = dr /\ t.ir = ir /\ t.dr_length = n
    BY DEF Tp
  <1>2. PosEdge(t) = Arrived(u)
    BY <1>1 DEF PosEdge
  <1>3. ASSUME s \notin {"SHIFT_DR", "SHIFT_IR"}
        PROVE  u = Tp(0, m, b, o, nx, ir, dr, n, dmi)
    <2>1. Shifted(t) = t
      <3> HIDE DEF t
      <3> QED BY <1>1, <1>3 DEF Shifted
    <2>2. [t EXCEPT !.state = nx] = Tp(0, m, b, o, nx, ir, dr, n, dmi)
      BY DEF Tp
    <2> HIDE DEF t
    <2> QED BY <2>1, <2>2
  <1>4. ASSUME s = "SHIFT_DR"
        PROVE  u = Tp(0, m, b, o, nx, ir, Shift(dr, n, b), n, dmi)
    <2> DEFINE d == Shift(dr, n, b)
    <2>1. Shifted(t) = [t EXCEPT !.dr = d]
      <3> HIDE DEF t
      <3> QED BY <1>1, <1>4 DEF Shifted
    <2>2. [t EXCEPT !.dr = d] = Tp(0, m, b, o, s, ir, d, n, dmi)
      <3> HIDE DEF d
      <3> QED BY DEF Tp
    <2>3. [Tp(0, m, b, o, s, ir, d, n, dmi) EXCEPT !.state = nx] = Tp(0, m, b, o, nx, ir, d, n, dmi)
      <3> HIDE DEF d
      <3> QED BY DEF Tp
    <2> HIDE DEF t, d
    <2> QED BY <2>1, <2>2, <2>3 DEF d
  <1>5. ASSUME s = "SHIFT_IR"
        PROVE  u = Tp(0, m, b, o, nx, Shift(ir, 2, b), dr, n, dmi)
    <2> DEFINE d == Shift(ir, 2, b)
    <2>1. Shifted(t) = [t EXCEPT !.ir = d]
      <3> HIDE DEF t
      <3> QED BY <1>1, <1>5 DEF Shifted, ir_length
    <2>2. [t EXCEPT !.ir = d] = Tp(0, m, b, o, s, d, dr, n, dmi)
      <3> HIDE DEF d
      <3> QED BY DEF Tp
    <2>3. [Tp(0, m, b, o, s, d, dr, n, dmi) EXCEPT !.state = nx] = Tp(0, m, b, o, nx, d, dr, n, dmi)
      <3> HIDE DEF d
      <3> QED BY DEF Tp
    <2> HIDE DEF t, d
    <2> QED BY <2>1, <2>2, <2>3 DEF d
  <1>6. ASSUME NEW i, NEW d
        PROVE  LET y == Tp(0, m, b, o, nx, i, d, n, dmi) IN
               /\ nx \notin {"TEST_LOGIC_RESET", "CAPTURE_DR", "SHIFT_DR", "SHIFT_IR"} => Arrived(y) = y
               /\ nx = "TEST_LOGIC_RESET" => Arrived(y) = Tp(0, m, b, o, nx, 1, d, n, dmi)
               /\ nx = "CAPTURE_DR" /\ i = 3 => Arrived(y) = Tp(0, m, b, o, nx, i, dmi, 5, dmi)
               /\ nx = "SHIFT_DR" => Arrived(y) = Tp(0, m, b, d % 2, nx, i, d, n, dmi)
               /\ nx = "SHIFT_IR" => Arrived(y) = Tp(0, m, b, i % 2, nx, i, d, n, dmi)
    <2> DEFINE y == Tp(0, m, b, o, nx, i, d, n, dmi)
    <2>1. y.state = nx /\ y.dr = d /\ y.ir = i /\ y.dmi = dmi
      BY DEF Tp
    <2>2. /\ [y EXCEPT !.ir = 1] = Tp(0, m, b, o, nx, 1, d, n, dmi)
          /\ [y EXCEPT !.tdo = d % 2] = Tp(0, m, b, d % 2, nx, i, d, n, dmi)
          /\ [y EXCEPT !.tdo = i % 2] = Tp(0, m, b, i % 2, nx, i, d, n, dmi)
      BY DEF Tp
    <2>3. [y EXCEPT !.dr = dmi, !.dr_length = 5] = Tp(0, m, b, o, nx, i, dmi, 5, dmi)
      <3>1. [[y EXCEPT !.dr = dmi] EXCEPT !.dr_length = 5] = Tp(0, m, b, o, nx, i, dmi, 5, dmi)
        <4>1. [y EXCEPT !.dr = dmi] = Tp(0, m, b, o, nx, i, dmi, n, dmi)
          BY DEF Tp
        <4>2. [Tp(0, m, b, o, nx, i, dmi, n, dmi) EXCEPT !.dr_length = 5] = Tp(0, m, b, o, nx, i, dmi, 5, dmi)
          BY DEF Tp
        <4> HIDE DEF y
        <4> QED BY <4>1, <4>2
      <3>2. [y EXCEPT !.dr = dmi, !.dr_length = 5] = [[y EXCEPT !.dr = dmi] EXCEPT !.dr_length = 5]
        <4> HIDE DEF y
        <4> QED OBVIOUS
      <3> QED BY <3>1, <3>2
    <2> HIDE DEF y
    <2>4. nx = "CAPTURE_DR" /\ i = 3 => Arrived(y) = [y EXCEPT !.dr = dmi, !.dr_length = 5]
      BY <2>1 DEF Arrived, capture_dr, IR_IDCODE, IR_DTMCONTROL, IR_DBUS, DmiLength
    <2>5. /\ nx \notin {"TEST_LOGIC_RESET", "CAPTURE_DR", "SHIFT_DR", "SHIFT_IR"} => Arrived(y) = y
          /\ nx = "TEST_LOGIC_RESET" => Arrived(y) = [y EXCEPT !.ir = 1]
          /\ nx = "SHIFT_DR" => Arrived(y) = [y EXCEPT !.tdo = d % 2]
          /\ nx = "SHIFT_IR" => Arrived(y) = [y EXCEPT !.tdo = i % 2]
      BY <2>1 DEF Arrived, IR_IDCODE
    <2> QED BY <2>2, <2>3, <2>4, <2>5 DEF y
  <1> HIDE DEF t, u
  <1>7. s \notin {"SHIFT_DR", "SHIFT_IR"} =>
              /\ nx \notin {"TEST_LOGIC_RESET", "CAPTURE_DR", "SHIFT_DR", "SHIFT_IR"} =>
                    PosEdge(t) = Tp(0, m, b, o, nx, ir, dr, n, dmi)
              /\ nx = "TEST_LOGIC_RESET" => PosEdge(t) = Tp(0, m, b, o, nx, 1, dr, n, dmi)
              /\ nx = "CAPTURE_DR" /\ ir = 3 => PosEdge(t) = Tp(0, m, b, o, nx, ir, dmi, 5, dmi)
              /\ nx = "SHIFT_DR" => PosEdge(t) = Tp(0, m, b, dr % 2, nx, ir, dr, n, dmi)
              /\ nx = "SHIFT_IR" => PosEdge(t) = Tp(0, m, b, ir % 2, nx, ir, dr, n, dmi)
    BY <1>2, <1>3, <1>6
  <1>8. s = "SHIFT_DR" =>
              LET d == Shift(dr, n, b) IN
              /\ nx = "SHIFT_DR" => PosEdge(t) = Tp(0, m, b, d % 2, nx, ir, d, n, dmi)
              /\ nx = "EXIT1_DR" => PosEdge(t) = Tp(0, m, b, o, nx, ir, d, n, dmi)
    <2> DEFINE d == Shift(dr, n, b)
    <2> HIDE DEF d
    <2> QED BY <1>2, <1>4, <1>6 DEF d
  <1>9. s = "SHIFT_IR" =>
              LET i == Shift(ir, 2, b) IN
              /\ nx = "SHIFT_IR" => PosEdge(t) = Tp(0, m, b, i % 2, nx, i, dr, n, dmi)
              /\ nx = "EXIT1_IR" => PosEdge(t) = Tp(0, m, b, o, nx, i, dr, n, dmi)
    BY <1>2, <1>5, <1>6
  <1> QED BY <1>7, <1>8, <1>9 DEF t

\* One whole clock with the pins m and b.
Tick(t, m, b) == Latched(PosEdge(Latched(t, <<0, m, b>>)), <<1, m, b>>)

\* It is no update of the DMI register.
Plain(t, m) == ~(TapNext[t.state][m + 1] = "UPDATE_DR" /\ t.ir = 3)

\* What a whole clock does to the TAP, by the state it enters.
LEMMA TickTp ==
  ASSUME NEW k, NEW m1, NEW b1, NEW m, NEW b, NEW o, NEW s, NEW ir, NEW dr, NEW n, NEW dmi, NEW nx, nx = TapNext[s][m + 1]
  PROVE  LET t == Tp(k, m1, b1, o, s, ir, dr, n, dmi) IN
         /\ s \notin {"SHIFT_DR", "SHIFT_IR"} =>
              /\ nx \notin {"TEST_LOGIC_RESET", "CAPTURE_DR", "SHIFT_DR", "SHIFT_IR"} =>
                    Tick(t, m, b) = Tp(1, m, b, o, nx, ir, dr, n, dmi)
              /\ nx = "TEST_LOGIC_RESET" => Tick(t, m, b) = Tp(1, m, b, o, nx, 1, dr, n, dmi)
              /\ nx = "CAPTURE_DR" /\ ir = 3 => Tick(t, m, b) = Tp(1, m, b, o, nx, ir, dmi, 5, dmi)
              /\ nx = "SHIFT_DR" => Tick(t, m, b) = Tp(1, m, b, dr % 2, nx, ir, dr, n, dmi)
              /\ nx = "SHIFT_IR" => Tick(t, m, b) = Tp(1, m, b, ir % 2, nx, ir, dr, n, dmi)
         /\ s = "SHIFT_DR" /\ nx = "SHIFT_DR" =>
              Tick(t, m, b) = Tp(1, m, b, Shift(dr, n, b) % 2, nx, ir, Shift(dr, n, b), n, dmi)
         /\ s = "SHIFT_DR" /\ nx = "EXIT1_DR" => Tick(t, m, b) = Tp(1, m, b, o, nx, ir, Shift(dr, n, b), n, dmi)
         /\ s = "SHIFT_IR" /\ nx = "SHIFT_IR" =>
              Tick(t, m, b) = Tp(1, m, b, Shift(ir, 2, b) % 2, nx, Shift(ir, 2, b), dr, n, dmi)
         /\ s = "SHIFT_IR" /\ nx = "EXIT1_IR" => Tick(t, m, b) = Tp(1, m, b, o, nx, Shift(ir, 2, b), dr, n, dmi)
  <1> DEFINE t == Tp(k, m1, b1, o, s, ir, dr, n, dmi)
             l == Tp(0, m, b, o, s, ir, dr, n, dmi)
  <1>1. Tick(t, m, b) = Latched(PosEdge(l), <<1, m, b>>)
    BY LatchedTp DEF Tick
  <1>2. /\ s \notin {"SHIFT_DR", "SHIFT_IR"} =>
              /\ nx \notin {"TEST_LOGIC_RESET", "CAPTURE_DR", "SHIFT_DR", "SHIFT_IR"} =>
                    PosEdge(l) = Tp(0, m, b, o, nx, ir, dr, n, dmi)
              /\ nx = "TEST_LOGIC_RESET" => PosEdge(l) = Tp(0, m, b, o, nx, 1, dr, n, dmi)
              /\ nx = "CAPTURE_DR" /\ ir = 3 => PosEdge(l) = Tp(0, m, b, o, nx, ir, dmi, 5, dmi)
              /\ nx = "SHIFT_DR" => PosEdge(l) = Tp(0, m, b, dr % 2, nx, ir, dr, n, dmi)
              /\ nx = "SHIFT_IR" => PosEdge(l) = Tp(0, m, b, ir % 2, nx, ir, dr, n, dmi)
    BY Edge
  <1>3. s = "SHIFT_DR" =>
              LET d == Shift(dr, n, b) IN
              /\ nx = "SHIFT_DR" => PosEdge(l) = Tp(0, m, b, d % 2, nx, ir, d, n, dmi)
              /\ nx = "EXIT1_DR" => PosEdge(l) = Tp(0, m, b, o, nx, ir, d, n, dmi)
    BY Edge
  <1>4. s = "SHIFT_IR" =>
              LET i == Shift(ir, 2, b) IN
              /\ nx = "SHIFT_IR" => PosEdge(l) = Tp(0, m, b, i % 2, nx, i, dr, n, dmi)
              /\ nx = "EXIT1_IR" => PosEdge(l) = Tp(0, m, b, o, nx, i, dr, n, dmi)
    BY Edge
  <1> HIDE DEF t, l
  <1>5. s \notin {"SHIFT_DR", "SHIFT_IR"} =>
              /\ nx \notin {"TEST_LOGIC_RESET", "CAPTURE_DR", "SHIFT_DR", "SHIFT_IR"} =>
                    Tick(t, m, b) = Tp(1, m, b, o, nx, ir, dr, n, dmi)
              /\ nx = "TEST_LOGIC_RESET" => Tick(t, m, b) = Tp(1, m, b, o, nx, 1, dr, n, dmi)
              /\ nx = "CAPTURE_DR" /\ ir = 3 => Tick(t, m, b) = Tp(1, m, b, o, nx, ir, dmi, 5, dmi)
              /\ nx = "SHIFT_DR" => Tick(t, m, b) = Tp(1, m, b, dr % 2, nx, ir, dr, n, dmi)
              /\ nx = "SHIFT_IR" => Tick(t, m, b) = Tp(1, m, b, ir % 2, nx, ir, dr, n, dmi)
    BY <1>1, <1>2, LatchedTp
  <1>6. /\ s = "SHIFT_DR" /\ nx = "SHIFT_DR" =>
              Tick(t, m, b) = Tp(1, m, b, Shift(dr, n, b) % 2, nx, ir, Shift(dr, n, b), n, dmi)
        /\ s = "SHIFT_DR" /\ nx = "EXIT1_DR" => Tick(t, m, b) = Tp(1, m, b, o, nx, ir, Shift(dr, n, b), n, dmi)
    BY <1>1, <1>3, LatchedTp
  <1>7. /\ s = "SHIFT_IR" /\ nx = "SHIFT_IR" =>
              Tick(t, m, b) = Tp(1, m, b, Shift(ir, 2, b) % 2, nx, Shift(ir, 2, b), dr, n, dmi)
        /\ s = "SHIFT_IR" /\ nx = "EXIT1_IR" => Tick(t, m, b) = Tp(1, m, b, o, nx, Shift(ir, 2, b), dr, n, dmi)
    BY <1>1, <1>4, LatchedTp
  <1> QED BY <1>5, <1>6, <1>7 DEF t

TapFields == {"tck", "tms", "tdi", "tdo", "state", "ir", "dr", "dr_length", "dmi"}

\* Only the pins change with tck low.
LEMMA Lowered ==
  ASSUME NEW m, NEW b, NEW t, TapFields = DOMAIN t
  PROVE  LET l == Latched(t, <<0, m, b>>) IN
         l.tck = 0 /\ l.tms = m /\ l.state = t.state /\ l.ir = t.ir /\ l.tdo = t.tdo
  BY DEF Latched, TapFields

\* A clock without data leads where the TAP's clock leads.
LEMMA Clocks ==
  ASSUME NEW m \in {0, 1}, NEW t, NEW x, NEW p, NEW out \in Seq({0, 1}), TapFields = DOMAIN t, Plain(t, m)
  PROVE  Leads(St(t, x, p, out), Clk(m), St(Tick(t, m, 0), x, p, out), {p})
  <1> DEFINE l == Latched(t, <<0, m, 0>>)
  <1>1. l.tck = 0 /\ l.tms = m /\ l.state = t.state /\ l.ir = t.ir
    BY Lowered
  <1>2. ~(TapNext[l.state][l.tms + 1] = "UPDATE_DR" /\ l.ir = IR_DBUS)
    <2> HIDE DEF l
    <2> QED BY <1>1 DEF Plain, IR_DBUS
  <1>3. Tick(t, m, 0) = Latched(PosEdge(l), <<1, m, 0>>)
    BY DEF Tick
  <1>4. l = Latched(t, <<0, m, 0>>)
    OBVIOUS
  <1> HIDE DEF l
  <1>5. Leads(St(t, x, p, out), <<PinChar(0, m, 0), PinChar(1, m, 0)>>, St(Tick(t, m, 0), x, p, out), {p})
    BY <1>1, <1>2, <1>3, <1>4, Pulse
  <1> QED BY <1>5 DEF Clk

\* A bit that is shifted gives the bit that tdo had back.
LEMMA Shifts ==
  ASSUME NEW m \in {0, 1}, NEW b \in {0, 1}, NEW t, NEW x, NEW p, NEW out \in Seq({0, 1}), TapFields = DOMAIN t,
         Plain(t, m), t.tdo \in {0, 1}
  PROVE  Leads(St(t, x, p, out), ShiftBit(m, b), St(Tick(t, m, b), x, p, Append(out, t.tdo)), {p})
  <1> DEFINE l == Latched(t, <<0, m, b>>)
  <1>1. l.tck = 0 /\ l.tms = m /\ l.state = t.state /\ l.ir = t.ir /\ l.tdo = t.tdo
    BY Lowered
  <1>2. ~(TapNext[l.state][l.tms + 1] = "UPDATE_DR" /\ l.ir = IR_DBUS)
    <2> HIDE DEF l
    <2> QED BY <1>1 DEF Plain, IR_DBUS
  <1>3. Tick(t, m, b) = Latched(PosEdge(l), <<1, m, b>>)
    BY DEF Tick
  <1>4. l = Latched(t, <<0, m, b>>)
    OBVIOUS
  <1> HIDE DEF l
  <1>5. Leads(St(t, x, p, out), ShiftBit(m, b), St(Tick(t, m, b), x, p, Append(out, l.tdo)), {p})
    BY <1>1, <1>2, <1>3, <1>4, PulseAsking
  <1> QED BY <1>1, <1>5

\* The fields of a TAP.
LEMMA TpFields ==
  ASSUME NEW k, NEW m, NEW b, NEW o, NEW s, NEW ir, NEW dr, NEW n, NEW dmi
  PROVE  LET t == Tp(k, m, b, o, s, ir, dr, n, dmi) IN TapFields = DOMAIN t /\ t.state = s /\ t.ir = ir /\ t.tdo = o
  BY DEF Tp, TapFields

\* The strings of characters are strings of characters.
LEMMA CharsTyped ==
  /\ \A m \in {0, 1} : Clk(m) \in Seq(Chars)
  /\ \A m, b \in {0, 1} : ShiftBit(m, b) \in Seq(Chars)
  <1>1. "R" \in Chars
    BY DEF Chars
  <1>2. \A k, m, b \in {0, 1} : PinChar(k, m, b) \in Chars
    BY PinChars DEF Chars
  <1>3. ASSUME NEW m \in {0, 1}
        PROVE  Clk(m) \in Seq(Chars)
    BY <1>2 DEF Clk
  <1>4. ASSUME NEW m \in {0, 1}, NEW b \in {0, 1}
        PROVE  ShiftBit(m, b) \in Seq(Chars)
    BY <1>1, <1>2 DEF ShiftBit
  <1> QED BY <1>3, <1>4

\* Flattening, unrolled.
IsFlattening(f, seqs, n) == f = [i \in 1 .. n |-> IF i = 1 THEN seqs[i] ELSE f[i - 1] \o seqs[i]]
Unrolls(f, seqs, n) ==
    FlattenSeq(seqs) = f[n] /\ f[1] = seqs[1] /\ \A i \in 2 .. n : f[i] = f[i - 1] \o seqs[i]

\* A sequence of sequences is flattened one at a time.
LEMMA FlattenSteps ==
  ASSUME NEW n \in Nat \ {0}, NEW seqs, Len(seqs) = n,
         NEW g, IsFlattening(g, seqs, n)
  PROVE  \E f : Unrolls(f, seqs, n)
  <1> DEFINE f == CHOOSE f : f = [i \in 1 .. n |-> IF i = 1 THEN seqs[i] ELSE f[i - 1] \o seqs[i]]
  <1>1. f = [i \in 1 .. n |-> IF i = 1 THEN seqs[i] ELSE f[i - 1] \o seqs[i]]
    BY DEF IsFlattening
  <1>2. FlattenSeq(seqs) = f[n]
    BY DEF FlattenSeq
  <1> HIDE DEF f
  <1>3. f[1] = seqs[1] /\ \A i \in 2 .. n : f[i] = f[i - 1] \o seqs[i]
    <2>1. \A i \in 1 .. n : f[i] = IF i = 1 THEN seqs[i] ELSE f[i - 1] \o seqs[i]
      BY <1>1
    <2>2. 1 \in 1 .. n /\ \A i \in 2 .. n : i \in 1 .. n /\ i # 1
      OBVIOUS
    <2> QED BY <2>1, <2>2
  <1> QED BY <1>2, <1>3 DEF Unrolls

\* Two of them.
LEMMA FlattenTwo ==
  ASSUME NEW seqs, Len(seqs) = 2
  PROVE  FlattenSeq(seqs) = seqs[1] \o seqs[2]
  <1> DEFINE g == [i \in 1 .. 2 |-> IF i = 1 THEN seqs[1] ELSE seqs[1] \o seqs[2]]
  <1>1. g[1] = seqs[1] /\ g[2] = seqs[1] \o seqs[2]
    OBVIOUS
  <1>2. \A i \in 1 .. 2 : g[i] = IF i = 1 THEN seqs[i] ELSE g[i - 1] \o seqs[i]
    <2>1. \A i \in 1 .. 2 : i = 1 \/ (i = 2 /\ i - 1 = 1)
      OBVIOUS
    <2> HIDE DEF g
    <2> QED BY <1>1, <2>1
  <1>3. g = [i \in 1 .. 2 |-> g[i]]
    OBVIOUS
  <1> HIDE DEF g
  <1>4. IsFlattening(g, seqs, 2)
    BY <1>2, <1>3 DEF IsFlattening
  <1>5. \E f : Unrolls(f, seqs, 2)
    <2>1. 2 \in Nat \ {0} /\ Len(seqs) = 2
      OBVIOUS
    <2> DEFINE n == 2
    <2>2. n \in Nat \ {0} /\ Len(seqs) = n /\ IsFlattening(g, seqs, n)
      BY <2>1, <1>4
    <2> HIDE DEF n
    <2>3. \E f : Unrolls(f, seqs, n)
      BY <2>2, FlattenSteps
    <2> QED BY <2>3 DEF n
  <1>55. PICK f : Unrolls(f, seqs, 2)
    BY <1>5
  <1>6. f[2] = f[2 - 1] \o seqs[2] /\ 2 - 1 = 1 /\ f[1] = seqs[1] /\ FlattenSeq(seqs) = f[2]
    BY <1>55 DEF Unrolls
  <1> QED BY <1>6

\* Five of them.
LEMMA FlattenFive ==
  ASSUME NEW seqs, Len(seqs) = 5
  PROVE  FlattenSeq(seqs) = (((seqs[1] \o seqs[2]) \o seqs[3]) \o seqs[4]) \o seqs[5]
  <1> DEFINE g2 == seqs[1] \o seqs[2]
             g3 == g2 \o seqs[3]
             g4 == g3 \o seqs[4]
             g5 == g4 \o seqs[5]
             g == [i \in 1 .. 5 |-> IF i = 1 THEN seqs[1] ELSE IF i = 2 THEN g2 ELSE IF i = 3 THEN g3
                                    ELSE IF i = 4 THEN g4 ELSE g5]
  <1>0. g2 = seqs[1] \o seqs[2] /\ g3 = g2 \o seqs[3] /\ g4 = g3 \o seqs[4] /\ g5 = g4 \o seqs[5]
    OBVIOUS
  <1> HIDE DEF g2, g3, g4, g5
  <1>1. g[1] = seqs[1] /\ g[2] = g2 /\ g[3] = g3 /\ g[4] = g4 /\ g[5] = g5
    OBVIOUS
  <1>2. \A i \in 1 .. 5 : g[i] = IF i = 1 THEN seqs[i] ELSE g[i - 1] \o seqs[i]
    <2> HIDE DEF g
    <2> SUFFICES ASSUME NEW i \in 1 .. 5
                 PROVE  g[i] = IF i = 1 THEN seqs[i] ELSE g[i - 1] \o seqs[i]
      OBVIOUS
    <2>1. CASE i = 1
      BY <2>1, <1>1
    <2>2. CASE i = 2
      <3>1. g[2 - 1] = g[1]
        OBVIOUS
      <3> QED BY <2>2, <3>1, <1>1, <1>0
    <2>3. CASE i = 3
      <3>1. g[3 - 1] = g[2]
        OBVIOUS
      <3> QED BY <2>3, <3>1, <1>1, <1>0
    <2>4. CASE i = 4
      <3>1. g[4 - 1] = g[3]
        OBVIOUS
      <3> QED BY <2>4, <3>1, <1>1, <1>0
    <2>5. CASE i = 5
      <3>1. g[5 - 1] = g[4]
        OBVIOUS
      <3> QED BY <2>5, <3>1, <1>1, <1>0
    <2> QED BY <2>1, <2>2, <2>3, <2>4, <2>5
  <1>3. g = [i \in 1 .. 5 |-> g[i]]
    OBVIOUS
  <1> HIDE DEF g
  <1>4. IsFlattening(g, seqs, 5)
    BY <1>2, <1>3 DEF IsFlattening
  <1>5. \E f : Unrolls(f, seqs, 5)
    <2>1. 5 \in Nat \ {0} /\ Len(seqs) = 5
      OBVIOUS
    <2> DEFINE n == 5
    <2>2. n \in Nat \ {0} /\ Len(seqs) = n /\ IsFlattening(g, seqs, n)
      BY <2>1, <1>4
    <2> HIDE DEF n
    <2>3. \E f : Unrolls(f, seqs, n)
      BY <2>2, FlattenSteps
    <2> QED BY <2>3 DEF n
  <1>55. PICK f : Unrolls(f, seqs, 5)
    BY <1>5
  <1>6. f[2] = f[2 - 1] \o seqs[2] /\ 2 - 1 = 1
    BY <1>55 DEF Unrolls
  <1>7. f[3] = f[3 - 1] \o seqs[3] /\ 3 - 1 = 2
    BY <1>55 DEF Unrolls
  <1>8. f[4] = f[4 - 1] \o seqs[4] /\ 4 - 1 = 3
    BY <1>55 DEF Unrolls
  <1>9. f[5] = f[5 - 1] \o seqs[5] /\ 5 - 1 = 4
    BY <1>55 DEF Unrolls
  <1> QED BY <1>0, <1>55, <1>6, <1>7, <1>8, <1>9 DEF Unrolls

\* The bits of the instruction register's scan.
LEMMA BitsTwo == Bits(3, 2, 0) = ShiftBit(0, 1) \o ShiftBit(1, 1)
  <1> DEFINE seqs == [i \in 1 .. 2 |-> IF i = 0 THEN ShiftBit(1, Bit(3, i)) \o Clk(0) \o Clk(1) \o Clk(0)
                                       ELSE ShiftBit(IF i = 2 THEN 1 ELSE 0, Bit(3, i))]
  <1>1. Bit(3, 1) = 1 /\ Bit(3, 2) = 1
    <2>1. Pow2[1] = 1 /\ Pow2[2] = 2
      BY DEF Pow2
    <2> QED BY <2>1 DEF Bit
  <1>2. Len(seqs) = 2
    OBVIOUS
  <1>3. seqs[1] = ShiftBit(0, 1) /\ seqs[2] = ShiftBit(1, 1)
    BY <1>1
  <1> HIDE DEF seqs
  <1>4. FlattenSeq(seqs) = ShiftBit(0, 1) \o ShiftBit(1, 1)
    BY <1>2, <1>3, FlattenTwo
  <1> QED BY <1>4 DEF Bits, seqs

\* The bits of a DMI scan, with and without the pause.
LEMMA BitsFive ==
  ASSUME NEW v \in Nat
  PROVE  LET b(i) == Bit(v, i) IN
         /\ Bits(v, 5, 0) = (((ShiftBit(0, b(1)) \o ShiftBit(0, b(2))) \o ShiftBit(0, b(3))) \o ShiftBit(0, b(4))) \o ShiftBit(1, b(5))
         /\ Bits(v, 5, 3) = (((ShiftBit(0, b(1)) \o ShiftBit(0, b(2))) \o (((ShiftBit(1, b(3)) \o Clk(0)) \o Clk(1)) \o Clk(0)))
                             \o ShiftBit(0, b(4))) \o ShiftBit(1, b(5))
  <1> DEFINE b(i) == Bit(v, i)
             f(pause) == [i \in 1 .. 5 |-> IF i = pause THEN ShiftBit(1, Bit(v, i)) \o Clk(0) \o Clk(1) \o Clk(0)
                                           ELSE ShiftBit(IF i = 5 THEN 1 ELSE 0, Bit(v, i))]
             s0 == f(0)
             s3 == f(3)
  <1>1. Len(s0) = 5 /\ Len(s3) = 5
    OBVIOUS
  <1>2. s0[1] = ShiftBit(0, b(1)) /\ s0[2] = ShiftBit(0, b(2)) /\ s0[3] = ShiftBit(0, b(3))
        /\ s0[4] = ShiftBit(0, b(4)) /\ s0[5] = ShiftBit(1, b(5))
    OBVIOUS
  <1>3. s3[1] = ShiftBit(0, b(1)) /\ s3[2] = ShiftBit(0, b(2))
        /\ s3[3] = ((ShiftBit(1, b(3)) \o Clk(0)) \o Clk(1)) \o Clk(0)
        /\ s3[4] = ShiftBit(0, b(4)) /\ s3[5] = ShiftBit(1, b(5))
    OBVIOUS
  <1>4. Bits(v, 5, 0) = FlattenSeq(s0) /\ Bits(v, 5, 3) = FlattenSeq(s3)
    BY DEF Bits
  <1> HIDE DEF s0, s3, b
  <1>5. FlattenSeq(s0) = (((s0[1] \o s0[2]) \o s0[3]) \o s0[4]) \o s0[5]
    BY <1>1, FlattenFive
  <1>6. FlattenSeq(s3) = (((s3[1] \o s3[2]) \o s3[3]) \o s3[4]) \o s3[5]
    BY <1>1, FlattenFive
  <1> QED BY <1>2, <1>3, <1>4, <1>5, <1>6 DEF b

\* A string of characters and where it leads, with the scans performed the
\* same all the way.
Goes(a, x, b, p) == x \in Seq(Chars) /\ Leads(a, x, b, {p})

\* One string behind another.
LEMMA GoesOn ==
  ASSUME NEW a, NEW b, NEW c, NEW x, NEW y, NEW p, Goes(a, x, b, p), Goes(b, y, c, p)
  PROVE  Goes(a, x \o y, c, p)
  <1>1. x \in Seq(Chars) /\ y \in Seq(Chars) /\ x \o y \in Seq(Chars)
    BY DEF Goes
  <1>2. Leads(a, x \o y, c, {p})
    BY <1>1, LeadsConcat DEF Goes
  <1> QED BY <1>1, <1>2 DEF Goes

\* One clock.
LEMMA ClkGoes ==
  ASSUME NEW m \in {0, 1}, NEW t, NEW u, NEW x, NEW p, NEW out \in Seq({0, 1}), TapFields = DOMAIN t, Plain(t, m),
         Tick(t, m, 0) = u
  PROVE  Goes(St(t, x, p, out), Clk(m), St(u, x, p, out), p)
  BY Clocks, CharsTyped DEF Goes

\* One bit.
LEMMA BitGoes ==
  ASSUME NEW m \in {0, 1}, NEW b \in {0, 1}, NEW o \in {0, 1}, NEW t, NEW u, NEW x, NEW p, NEW out \in Seq({0, 1}),
         TapFields = DOMAIN t, Plain(t, m), Tick(t, m, b) = u, t.tdo = o
  PROVE  Goes(St(t, x, p, out), ShiftBit(m, b), St(u, x, p, Append(out, o)), p)
  BY Shifts, CharsTyped DEF Goes

\* The instruction register's scan selects the DMI register.
LEMMA SelectsDmi ==
  ASSUME NEW k, NEW m, NEW b, NEW o, NEW ir \in 0 .. 3, NEW dr, NEW n, NEW d, NEW x, NEW p, NEW out \in Seq({0, 1})
  PROVE  LET i1 == Shift(ir, 2, 1)
             i2 == Shift(i1, 2, 1)
             o1 == Append(out, ir % 2)
             o2 == Append(o1, i1 % 2)
             t0 == Tp(k, m, b, o, "RUN_TEST_IDLE", ir, dr, n, d)
             t7 == Tp(1, 0, 0, i1 % 2, "RUN_TEST_IDLE", i2, dr, n, d)
         IN  Goes(St(t0, x, p, out), IrScan(3), St(t7, x, p, o2), p) /\ i2 = 3
  <1> DEFINE i1 == Shift(ir, 2, 1)
             i2 == Shift(i1, 2, 1)
             o1 == Append(out, ir % 2)
             o2 == Append(o1, i1 % 2)
             t0 == Tp(k, m, b, o, "RUN_TEST_IDLE", ir, dr, n, d)
             t1 == Tp(1, 1, 0, o, "SELECT_DR_SCAN", ir, dr, n, d)
             t2 == Tp(1, 1, 0, o, "SELECT_IR_SCAN", ir, dr, n, d)
             t3 == Tp(1, 0, 0, o, "CAPTURE_IR", ir, dr, n, d)
             t4 == Tp(1, 0, 0, ir % 2, "SHIFT_IR", ir, dr, n, d)
             t5 == Tp(1, 1, 1, i1 % 2, "EXIT1_IR", i2, dr, n, d)
             t6 == Tp(1, 1, 0, i1 % 2, "UPDATE_IR", i2, dr, n, d)
             t7 == Tp(1, 0, 0, i1 % 2, "RUN_TEST_IDLE", i2, dr, n, d)
  <1>1. /\ ir % 2 \in {0, 1} /\ i1 % 2 \in {0, 1} /\ 0 \in {0, 1} /\ 1 \in {0, 1} /\ i2 = 3
        /\ out \in Seq({0, 1}) /\ o2 \in Seq({0, 1})
    <2>1. i1 = (ir \div 2) + 2 /\ i2 = (i1 \div 2) + 2
      BY DEF Shift, Pow2
    <2>2. i1 \in {2, 3}
      BY <2>1
    <2>3. i2 = 3 /\ i1 % 2 \in {0, 1} /\ ir % 2 \in {0, 1}
      BY <2>1, <2>2
    <2> HIDE DEF i1, i2
    <2> QED BY <2>3
  <1>2. Tick(t0, 1, 0) = t1
    <2>1. "SELECT_DR_SCAN" = TapNext["RUN_TEST_IDLE"][1 + 1]
      BY Nexts
    <2> QED BY <2>1, TickTp
  <1>3. Tick(t1, 1, 0) = t2
    <2>1. "SELECT_IR_SCAN" = TapNext["SELECT_DR_SCAN"][1 + 1]
      BY Nexts
    <2> QED BY <2>1, TickTp
  <1>4. Tick(t2, 0, 0) = t3
    <2>1. "CAPTURE_IR" = TapNext["SELECT_IR_SCAN"][0 + 1]
      BY Nexts
    <2> QED BY <2>1, TickTp
  <1>5. Tick(t3, 0, 0) = t4
    <2>1. "SHIFT_IR" = TapNext["CAPTURE_IR"][0 + 1]
      BY Nexts
    <2> QED BY <2>1, TickTp
  <1>6. Tick(t5, 1, 0) = t6
    <2>1. "UPDATE_IR" = TapNext["EXIT1_IR"][1 + 1]
      BY Nexts
    <2> QED BY <2>1, TickTp
  <1>7. Tick(t6, 0, 0) = t7
    <2>1. "RUN_TEST_IDLE" = TapNext["UPDATE_IR"][0 + 1]
      BY Nexts
    <2> QED BY <2>1, TickTp
  <1>8. /\ TapFields = DOMAIN t0 /\ Plain(t0, 1)
        /\ TapFields = DOMAIN t1 /\ Plain(t1, 1)
        /\ TapFields = DOMAIN t2 /\ Plain(t2, 0)
        /\ TapFields = DOMAIN t3 /\ Plain(t3, 0)
        /\ TapFields = DOMAIN t5 /\ Plain(t5, 1)
        /\ TapFields = DOMAIN t6 /\ Plain(t6, 0)
    BY TpFields, Nexts DEF Plain
  <1> HIDE DEF t0, t1, t2, t3, t4, t5, t6, t7
  <1>9. Goes(St(t0, x, p, out), Clk(1), St(t1, x, p, out), p)
    BY <1>1, <1>2, <1>8, ClkGoes
  <1>10. Goes(St(t1, x, p, out), Clk(1), St(t2, x, p, out), p)
    BY <1>1, <1>3, <1>8, ClkGoes
  <1>11. Goes(St(t2, x, p, out), Clk(0), St(t3, x, p, out), p)
    BY <1>1, <1>4, <1>8, ClkGoes
  <1>12. Goes(St(t3, x, p, out), Clk(0), St(t4, x, p, out), p)
    BY <1>1, <1>5, <1>8, ClkGoes
  <1>13. Goes(St(t4, x, p, out), Bits(3, 2, 0), St(t5, x, p, o2), p)
    <2> DEFINE t9 == Tp(1, 0, 1, i1 % 2, "SHIFT_IR", i1, dr, n, d)
    <2>1. Tick(t4, 0, 1) = t9 /\ TapFields = DOMAIN t4 /\ Plain(t4, 0) /\ t4.tdo = ir % 2
      BY TickTp, TpFields, Nexts DEF t4, Plain
    <2>2. Tick(t9, 1, 1) = t5 /\ TapFields = DOMAIN t9 /\ Plain(t9, 1) /\ t9.tdo = i1 % 2
      BY TickTp, TpFields, Nexts DEF t5, Plain
    <2>3. o1 \in Seq({0, 1}) /\ o1 = Append(out, ir % 2) /\ o2 = Append(o1, i1 % 2)
      BY <1>1
    <2> HIDE DEF t9, o1, o2, i1, i2
    <2>4. Goes(St(t4, x, p, out), ShiftBit(0, 1), St(t9, x, p, o1), p)
      BY <1>1, <2>1, <2>3, BitGoes
    <2>5. Goes(St(t9, x, p, o1), ShiftBit(1, 1), St(t5, x, p, o2), p)
      BY <1>1, <2>2, <2>3, BitGoes
    <2> QED BY <2>4, <2>5, GoesOn, BitsTwo
  <1>14. Goes(St(t5, x, p, o2), Clk(1), St(t6, x, p, o2), p)
    BY <1>1, <1>6, <1>8, ClkGoes
  <1>15. Goes(St(t6, x, p, o2), Clk(0), St(t7, x, p, o2), p)
    BY <1>1, <1>7, <1>8, ClkGoes
  <1> HIDE DEF o1, o2
  <1>16. Goes(St(t0, x, p, out), Clk(1) \o Clk(1), St(t2, x, p, out), p)
    BY <1>9, <1>10, GoesOn
  <1>17. Goes(St(t0, x, p, out), (Clk(1) \o Clk(1)) \o Clk(0), St(t3, x, p, out), p)
    BY <1>16, <1>11, GoesOn
  <1>18. Goes(St(t0, x, p, out), ((Clk(1) \o Clk(1)) \o Clk(0)) \o Clk(0), St(t4, x, p, out), p)
    BY <1>17, <1>12, GoesOn
  <1>19. Goes(St(t0, x, p, out), (((Clk(1) \o Clk(1)) \o Clk(0)) \o Clk(0)) \o Bits(3, 2, 0), St(t5, x, p, o2), p)
    BY <1>18, <1>13, GoesOn
  <1>20. Goes(St(t0, x, p, out), ((((Clk(1) \o Clk(1)) \o Clk(0)) \o Clk(0)) \o Bits(3, 2, 0)) \o Clk(1), St(t6, x, p, o2), p)
    BY <1>19, <1>14, GoesOn
  <1>21. Goes(St(t0, x, p, out), (((((Clk(1) \o Clk(1)) \o Clk(0)) \o Clk(0)) \o Bits(3, 2, 0)) \o Clk(1)) \o Clk(0), St(t7, x, p, o2), p)
    BY <1>20, <1>15, GoesOn
  <1> QED BY <1>21, <1>1 DEF IrScan, ir_length, t0, t7, o1, o2

\* A register that is shifted is a number.
LEMMA ShiftNat ==
  ASSUME NEW q \in Nat, NEW c \in {0, 1}
  PROVE  Shift(q, 5, c) \in Nat
  <1>1. Shift(q, 5, c) = (q \div 2) + (c * 16)
    BY DEF Shift, Pow2
  <1> QED BY <1>1

\* Five shifts of d: the new bits make the number that stays, the old ones made d.
Moved(c1, c2, c3, c4, c5, d) ==
    LET r1 == Shift(d, 5, c1)
        r2 == Shift(r1, 5, c2)
        r3 == Shift(r2, 5, c3)
        r4 == Shift(r3, 5, c4)
        r5 == Shift(r4, 5, c5)
    IN  /\ d \in Nat /\ r1 \in Nat /\ r2 \in Nat /\ r3 \in Nat /\ r4 \in Nat /\ r5 \in Nat
        /\ r5 = c1 + (2 * c2) + (4 * c3) + (8 * c4) + (16 * c5)
        /\ d = (d % 2) + (2 * (r1 % 2)) + (4 * (r2 % 2)) + (8 * (r3 % 2)) + (16 * (r4 % 2))

\* The numbers that the DMI register goes through.
LEMMA ShiftedIn ==
  ASSUME NEW c1 \in {0, 1}, NEW c2 \in {0, 1}, NEW c3 \in {0, 1}, NEW c4 \in {0, 1}, NEW c5 \in {0, 1},
         NEW d \in 0 .. 31
  PROVE  Moved(c1, c2, c3, c4, c5, d)
  <1>1. PICK d1, d2, d3, d4, d5 \in {0, 1} : d = d1 + (2 * d2) + (4 * d3) + (8 * d4) + (16 * d5)
    <2>1. \E q \in 0 .. 15, e \in {0, 1} : d = e + (2 * q)
      <3>1. d \div 2 \in 0 .. 15 /\ d % 2 \in {0, 1} /\ d = (d % 2) + (2 * (d \div 2))
        OBVIOUS
      <3> QED BY <3>1
    <2>2. \A q \in 0 .. 15 : \E f \in 0 .. 7, e \in {0, 1} : q = e + (2 * f)
      <3>1. \A q \in 0 .. 15 : q \div 2 \in 0 .. 7 /\ q % 2 \in {0, 1} /\ q = (q % 2) + (2 * (q \div 2))
        OBVIOUS
      <3> QED BY <3>1
    <2>3. \A q \in 0 .. 7 : \E f \in 0 .. 3, e \in {0, 1} : q = e + (2 * f)
      <3>1. \A q \in 0 .. 7 : q \div 2 \in 0 .. 3 /\ q % 2 \in {0, 1} /\ q = (q % 2) + (2 * (q \div 2))
        OBVIOUS
      <3> QED BY <3>1
    <2>4. \A q \in 0 .. 3 : \E f \in {0, 1}, e \in {0, 1} : q = e + (2 * f)
      <3>1. \A q \in 0 .. 3 : q \div 2 \in {0, 1} /\ q % 2 \in {0, 1} /\ q = (q % 2) + (2 * (q \div 2))
        OBVIOUS
      <3> QED BY <3>1
    <2>5. PICK q1 \in 0 .. 15, d1 \in {0, 1} : d = d1 + (2 * q1)
      BY <2>1
    <2>6. PICK q2 \in 0 .. 7, d2 \in {0, 1} : q1 = d2 + (2 * q2)
      BY <2>2
    <2>7. PICK q3 \in 0 .. 3, d3 \in {0, 1} : q2 = d3 + (2 * q3)
      BY <2>3
    <2>8. PICK d5 \in {0, 1}, d4 \in {0, 1} : q3 = d4 + (2 * d5)
      BY <2>4
    <2>9. d = d1 + (2 * d2) + (4 * d3) + (8 * d4) + (16 * d5)
      BY <2>5, <2>6, <2>7, <2>8
    <2> QED BY <2>9
  <1> DEFINE r1 == Shift(d, 5, c1)
             r2 == Shift(r1, 5, c2)
             r3 == Shift(r2, 5, c3)
             r4 == Shift(r3, 5, c4)
             r5 == Shift(r4, 5, c5)
  <1>2. /\ r1 = (d \div 2) + (c1 * 16) /\ r2 = (r1 \div 2) + (c2 * 16) /\ r3 = (r2 \div 2) + (c3 * 16)
        /\ r4 = (r3 \div 2) + (c4 * 16) /\ r5 = (r4 \div 2) + (c5 * 16)
    BY DEF Shift, Pow2
  <1> HIDE DEF r1, r2, r3, r4, r5
  <1>3. d % 2 = d1 /\ d \div 2 = d2 + (2 * d3) + (4 * d4) + (8 * d5)
    BY <1>1
  <1>4. r1 = d2 + (2 * d3) + (4 * d4) + (8 * d5) + (16 * c1)
    BY <1>2, <1>3
  <1>5. r1 % 2 = d2 /\ r1 \div 2 = d3 + (2 * d4) + (4 * d5) + (8 * c1)
    BY <1>4
  <1>6. r2 = d3 + (2 * d4) + (4 * d5) + (8 * c1) + (16 * c2)
    BY <1>2, <1>5
  <1>7. r2 % 2 = d3 /\ r2 \div 2 = d4 + (2 * d5) + (4 * c1) + (8 * c2)
    BY <1>6
  <1>8. r3 = d4 + (2 * d5) + (4 * c1) + (8 * c2) + (16 * c3)
    BY <1>2, <1>7
  <1>9. r3 % 2 = d4 /\ r3 \div 2 = d5 + (2 * c1) + (4 * c2) + (8 * c3)
    BY <1>8
  <1>10. r4 = d5 + (2 * c1) + (4 * c2) + (8 * c3) + (16 * c4)
    BY <1>2, <1>9
  <1>11. r4 % 2 = d5 /\ r4 \div 2 = c1 + (2 * c2) + (4 * c3) + (8 * c4)
    BY <1>10
  <1>12. r5 = c1 + (2 * c2) + (4 * c3) + (8 * c4) + (16 * c5)
    BY <1>2, <1>11
  <1>13. d \in Nat /\ r1 \in Nat /\ r2 \in Nat /\ r3 \in Nat /\ r4 \in Nat /\ r5 \in Nat
    BY <1>4, <1>6, <1>8, <1>10, <1>12
  <1>14. d = (d % 2) + (2 * (r1 % 2)) + (4 * (r2 % 2)) + (8 * (r3 % 2)) + (16 * (r4 % 2))
    BY <1>1, <1>3, <1>5, <1>7, <1>9, <1>11
  <1> QED BY <1>12, <1>13, <1>14 DEF r1, r2, r3, r4, r5, Moved

Binary == {0, 1}
DmiValues == 0 .. 31
Outs == Seq({0, 1})

\* Five bits go into the DMI register and five come out of it.
Five(c1, c2, c3, c4, c5, d, x, p, out) ==
    LET r1 == Shift(d, 5, c1)
        r2 == Shift(r1, 5, c2)
        r3 == Shift(r2, 5, c3)
        r4 == Shift(r3, 5, c4)
        r5 == Shift(r4, 5, c5)
        o1 == Append(out, d % 2)
        o2 == Append(o1, r1 % 2)
        o3 == Append(o2, r2 % 2)
        o4 == Append(o3, r3 % 2)
        o5 == Append(o4, r4 % 2)
        t0 == Tp(1, 0, 0, d % 2, "SHIFT_DR", 3, d, 5, d)
        t5 == Tp(1, 1, c5, r4 % 2, "EXIT1_DR", 3, r5, 5, d)
    IN  Goes(St(t0, x, p, out), (((ShiftBit(0, c1) \o ShiftBit(0, c2)) \o ShiftBit(0, c3)) \o ShiftBit(0, c4)) \o ShiftBit(1, c5),
             St(t5, x, p, o5), p)

\* Five bits are shifted in, and five out.
LEMMA ShiftsFive ==
  ASSUME NEW c1 \in Binary, NEW c2 \in Binary, NEW c3 \in Binary, NEW c4 \in Binary, NEW c5 \in Binary,
         NEW d \in DmiValues, NEW x, NEW p, NEW out \in Outs
  PROVE  Five(c1, c2, c3, c4, c5, d, x, p, out)
  <1>0. /\ c1 \in {0, 1} /\ c2 \in {0, 1} /\ c3 \in {0, 1} /\ c4 \in {0, 1} /\ c5 \in {0, 1}
        /\ d \in 0 .. 31 /\ out \in Seq({0, 1})
    BY DEF Binary, DmiValues, Outs
  <1> USE <1>0
  <1> DEFINE r1 == Shift(d, 5, c1)
             r2 == Shift(r1, 5, c2)
             r3 == Shift(r2, 5, c3)
             r4 == Shift(r3, 5, c4)
             r5 == Shift(r4, 5, c5)
             o1 == Append(out, d % 2)
             o2 == Append(o1, r1 % 2)
             o3 == Append(o2, r2 % 2)
             o4 == Append(o3, r3 % 2)
             o5 == Append(o4, r4 % 2)
             t0 == Tp(1, 0, 0, d % 2, "SHIFT_DR", 3, d, 5, d)
             t1 == Tp(1, 0, c1, r1 % 2, "SHIFT_DR", 3, r1, 5, d)
             t2 == Tp(1, 0, c2, r2 % 2, "SHIFT_DR", 3, r2, 5, d)
             t3 == Tp(1, 0, c3, r3 % 2, "SHIFT_DR", 3, r3, 5, d)
             t4 == Tp(1, 0, c4, r4 % 2, "SHIFT_DR", 3, r4, 5, d)
             t5 == Tp(1, 1, c5, r4 % 2, "EXIT1_DR", 3, r5, 5, d)
  <1>1. /\ d % 2 \in {0, 1} /\ r1 % 2 \in {0, 1} /\ r2 % 2 \in {0, 1} /\ r3 % 2 \in {0, 1} /\ r4 % 2 \in {0, 1}
        /\ 0 \in {0, 1} /\ 1 \in {0, 1} /\ out \in Seq({0, 1})
        /\ o1 \in Seq({0, 1}) /\ o2 \in Seq({0, 1}) /\ o3 \in Seq({0, 1}) /\ o4 \in Seq({0, 1}) /\ o5 \in Seq({0, 1})
    <2>0. d \in Nat
      OBVIOUS
    <2>1. d \in Nat /\ r1 \in Nat /\ r2 \in Nat /\ r3 \in Nat /\ r4 \in Nat /\ r5 \in Nat
      BY <2>0, ShiftNat
    <2> HIDE DEF r1, r2, r3, r4, r5
    <2>2. d % 2 \in {0, 1} /\ r1 % 2 \in {0, 1} /\ r2 % 2 \in {0, 1} /\ r3 % 2 \in {0, 1} /\ r4 % 2 \in {0, 1}
      BY <2>1
    <2> QED BY <2>2
  <1>2. Tick(t0, 0, c1) = t1
    <2>1. "SHIFT_DR" = TapNext["SHIFT_DR"][0 + 1]
      BY Nexts
    <2> QED BY <2>1, TickTp
  <1>3. Tick(t1, 0, c2) = t2
    <2>1. "SHIFT_DR" = TapNext["SHIFT_DR"][0 + 1]
      BY Nexts
    <2> QED BY <2>1, TickTp
  <1>4. Tick(t2, 0, c3) = t3
    <2>1. "SHIFT_DR" = TapNext["SHIFT_DR"][0 + 1]
      BY Nexts
    <2> QED BY <2>1, TickTp
  <1>5. Tick(t3, 0, c4) = t4
    <2>1. "SHIFT_DR" = TapNext["SHIFT_DR"][0 + 1]
      BY Nexts
    <2> QED BY <2>1, TickTp
  <1>6. Tick(t4, 1, c5) = t5
    <2>1. "EXIT1_DR" = TapNext["SHIFT_DR"][1 + 1]
      BY Nexts
    <2> QED BY <2>1, TickTp
  <1>7. /\ TapFields = DOMAIN t0 /\ Plain(t0, 0) /\ t0.tdo = d % 2
        /\ TapFields = DOMAIN t1 /\ Plain(t1, 0) /\ t1.tdo = r1 % 2
        /\ TapFields = DOMAIN t2 /\ Plain(t2, 0) /\ t2.tdo = r2 % 2
        /\ TapFields = DOMAIN t3 /\ Plain(t3, 0) /\ t3.tdo = r3 % 2
        /\ TapFields = DOMAIN t4 /\ Plain(t4, 1) /\ t4.tdo = r4 % 2
    BY TpFields, Nexts DEF Plain
  <1> HIDE DEF t0, t1, t2, t3, t4, t5
  <1>8. Goes(St(t0, x, p, out), ShiftBit(0, c1), St(t1, x, p, o1), p)
    BY <1>1, <1>2, <1>7, BitGoes
  <1>9. Goes(St(t1, x, p, o1), ShiftBit(0, c2), St(t2, x, p, o2), p)
    BY <1>1, <1>3, <1>7, BitGoes
  <1>10. Goes(St(t2, x, p, o2), ShiftBit(0, c3), St(t3, x, p, o3), p)
    BY <1>1, <1>4, <1>7, BitGoes
  <1>11. Goes(St(t3, x, p, o3), ShiftBit(0, c4), St(t4, x, p, o4), p)
    BY <1>1, <1>5, <1>7, BitGoes
  <1>12. Goes(St(t4, x, p, o4), ShiftBit(1, c5), St(t5, x, p, o5), p)
    BY <1>1, <1>6, <1>7, BitGoes
  <1> HIDE DEF o1, o2, o3, o4, o5
  <1>13. Goes(St(t0, x, p, out), ShiftBit(0, c1) \o ShiftBit(0, c2), St(t2, x, p, o2), p)
    BY <1>8, <1>9, GoesOn
  <1>14. Goes(St(t0, x, p, out), (ShiftBit(0, c1) \o ShiftBit(0, c2)) \o ShiftBit(0, c3), St(t3, x, p, o3), p)
    BY <1>13, <1>10, GoesOn
  <1>15. Goes(St(t0, x, p, out), ((ShiftBit(0, c1) \o ShiftBit(0, c2)) \o ShiftBit(0, c3)) \o ShiftBit(0, c4), St(t4, x, p, o4), p)
    BY <1>14, <1>11, GoesOn
  <1>16. Goes(St(t0, x, p, out), (((ShiftBit(0, c1) \o ShiftBit(0, c2)) \o ShiftBit(0, c3)) \o ShiftBit(0, c4)) \o ShiftBit(1, c5), St(t5, x, p, o5), p)
    BY <1>15, <1>12, GoesOn
  <1> QED BY <1>16 DEF t0, t5, o1, o2, o3, o4, o5, Five

\* The third bit of a scan that pauses after it.
LEMMA ShiftsThird ==
  ASSUME NEW c1 \in {0, 1}, NEW c2 \in {0, 1}, NEW c3 \in {0, 1}, NEW c4 \in {0, 1}, NEW c5 \in {0, 1},
         NEW d \in 0 .. 31, NEW x, NEW p, NEW out \in Seq({0, 1})
  PROVE  LET r1 == Shift(d, 5, c1)
             r2 == Shift(r1, 5, c2)
             r3 == Shift(r2, 5, c3)
             o1 == Append(out, d % 2)
             o2 == Append(o1, r1 % 2)
             o3 == Append(o2, r2 % 2)
             t0 == Tp(1, 0, c2, r2 % 2, "SHIFT_DR", 3, r2, 5, d)
             t4 == Tp(1, 0, 0, r3 % 2, "SHIFT_DR", 3, r3, 5, d)
         IN  Goes(St(t0, x, p, o2), ((ShiftBit(1, c3) \o Clk(0)) \o Clk(1)) \o Clk(0), St(t4, x, p, o3), p)
  <1> DEFINE r1 == Shift(d, 5, c1)
             r2 == Shift(r1, 5, c2)
             r3 == Shift(r2, 5, c3)
             o1 == Append(out, d % 2)
             o2 == Append(o1, r1 % 2)
             o3 == Append(o2, r2 % 2)
             t0 == Tp(1, 0, c2, r2 % 2, "SHIFT_DR", 3, r2, 5, d)
             t1 == Tp(1, 1, c3, r2 % 2, "EXIT1_DR", 3, r3, 5, d)
             t2 == Tp(1, 0, 0, r2 % 2, "PAUSE_DR", 3, r3, 5, d)
             t3 == Tp(1, 1, 0, r2 % 2, "EXIT2_DR", 3, r3, 5, d)
             t4 == Tp(1, 0, 0, r3 % 2, "SHIFT_DR", 3, r3, 5, d)
  <1>1. /\ d % 2 \in {0, 1} /\ r1 % 2 \in {0, 1} /\ r2 % 2 \in {0, 1}
        /\ 0 \in {0, 1} /\ 1 \in {0, 1} /\ o1 \in Seq({0, 1}) /\ o2 \in Seq({0, 1}) /\ o3 \in Seq({0, 1})
    <2>0. d \in Nat
      OBVIOUS
    <2>1. d \in Nat /\ r1 \in Nat /\ r2 \in Nat
      BY <2>0, ShiftNat
    <2> HIDE DEF r1, r2, r3
    <2>2. d % 2 \in {0, 1} /\ r1 % 2 \in {0, 1} /\ r2 % 2 \in {0, 1}
      BY <2>1
    <2> QED BY <2>2
  <1>2. Tick(t0, 1, c3) = t1
    <2>1. "EXIT1_DR" = TapNext["SHIFT_DR"][1 + 1]
      BY Nexts
    <2> QED BY <2>1, TickTp
  <1>3. Tick(t1, 0, 0) = t2
    <2>1. "PAUSE_DR" = TapNext["EXIT1_DR"][0 + 1]
      BY Nexts
    <2> QED BY <2>1, TickTp
  <1>4. Tick(t2, 1, 0) = t3
    <2>1. "EXIT2_DR" = TapNext["PAUSE_DR"][1 + 1]
      BY Nexts
    <2> QED BY <2>1, TickTp
  <1>5. Tick(t3, 0, 0) = t4
    <2>1. "SHIFT_DR" = TapNext["EXIT2_DR"][0 + 1]
      BY Nexts
    <2> QED BY <2>1, TickTp
  <1>6. /\ TapFields = DOMAIN t0 /\ Plain(t0, 1) /\ t0.tdo = r2 % 2
        /\ TapFields = DOMAIN t1 /\ Plain(t1, 0)
        /\ TapFields = DOMAIN t2 /\ Plain(t2, 1)
        /\ TapFields = DOMAIN t3 /\ Plain(t3, 0)
    BY TpFields, Nexts DEF Plain
  <1> HIDE DEF t0, t1, t2, t3, t4
  <1>7. Goes(St(t0, x, p, o2), ShiftBit(1, c3), St(t1, x, p, o3), p)
    BY <1>1, <1>2, <1>6, BitGoes
  <1>8. Goes(St(t1, x, p, o3), Clk(0), St(t2, x, p, o3), p)
    BY <1>1, <1>3, <1>6, ClkGoes
  <1>9. Goes(St(t2, x, p, o3), Clk(1), St(t3, x, p, o3), p)
    BY <1>1, <1>4, <1>6, ClkGoes
  <1>10. Goes(St(t3, x, p, o3), Clk(0), St(t4, x, p, o3), p)
    BY <1>1, <1>5, <1>6, ClkGoes
  <1> HIDE DEF o1, o2, o3
  <1>11. Goes(St(t0, x, p, o2), ShiftBit(1, c3) \o Clk(0), St(t2, x, p, o3), p)
    BY <1>7, <1>8, GoesOn
  <1>12. Goes(St(t0, x, p, o2), (ShiftBit(1, c3) \o Clk(0)) \o Clk(1), St(t3, x, p, o3), p)
    BY <1>11, <1>9, GoesOn
  <1>13. Goes(St(t0, x, p, o2), ((ShiftBit(1, c3) \o Clk(0)) \o Clk(1)) \o Clk(0), St(t4, x, p, o3), p)
    BY <1>12, <1>10, GoesOn
  <1> QED BY <1>13 DEF t0, t4, o1, o2, o3

\* The same with the third bit followed by a pause.
FivePaused(c1, c2, c3, c4, c5, d, x, p, out) ==
    LET r1 == Shift(d, 5, c1)
        r2 == Shift(r1, 5, c2)
        r3 == Shift(r2, 5, c3)
        r4 == Shift(r3, 5, c4)
        r5 == Shift(r4, 5, c5)
        o1 == Append(out, d % 2)
        o2 == Append(o1, r1 % 2)
        o3 == Append(o2, r2 % 2)
        o4 == Append(o3, r3 % 2)
        o5 == Append(o4, r4 % 2)
        t0 == Tp(1, 0, 0, d % 2, "SHIFT_DR", 3, d, 5, d)
        t5 == Tp(1, 1, c5, r4 % 2, "EXIT1_DR", 3, r5, 5, d)
    IN  Goes(St(t0, x, p, out), (((ShiftBit(0, c1) \o ShiftBit(0, c2)) \o (((ShiftBit(1, c3) \o Clk(0)) \o Clk(1)) \o Clk(0))) \o ShiftBit(0, c4)) \o ShiftBit(1, c5),
             St(t5, x, p, o5), p)

\* The same with the pause.
LEMMA ShiftsFivePaused ==
  ASSUME NEW c1 \in Binary, NEW c2 \in Binary, NEW c3 \in Binary, NEW c4 \in Binary, NEW c5 \in Binary,
         NEW d \in DmiValues, NEW x, NEW p, NEW out \in Outs
  PROVE  FivePaused(c1, c2, c3, c4, c5, d, x, p, out)
  <1>0. /\ c1 \in {0, 1} /\ c2 \in {0, 1} /\ c3 \in {0, 1} /\ c4 \in {0, 1} /\ c5 \in {0, 1}
        /\ d \in 0 .. 31 /\ out \in Seq({0, 1})
    BY DEF Binary, DmiValues, Outs
  <1> USE <1>0
  <1> DEFINE r1 == Shift(d, 5, c1)
             r2 == Shift(r1, 5, c2)
             r3 == Shift(r2, 5, c3)
             r4 == Shift(r3, 5, c4)
             r5 == Shift(r4, 5, c5)
             o1 == Append(out, d % 2)
             o2 == Append(o1, r1 % 2)
             o3 == Append(o2, r2 % 2)
             o4 == Append(o3, r3 % 2)
             o5 == Append(o4, r4 % 2)
             t0 == Tp(1, 0, 0, d % 2, "SHIFT_DR", 3, d, 5, d)
             t1 == Tp(1, 0, c1, r1 % 2, "SHIFT_DR", 3, r1, 5, d)
             t2 == Tp(1, 0, c2, r2 % 2, "SHIFT_DR", 3, r2, 5, d)
             t3 == Tp(1, 0, 0, r3 % 2, "SHIFT_DR", 3, r3, 5, d)
             t4 == Tp(1, 0, c4, r4 % 2, "SHIFT_DR", 3, r4, 5, d)
             t5 == Tp(1, 1, c5, r4 % 2, "EXIT1_DR", 3, r5, 5, d)
  <1>1. /\ d % 2 \in {0, 1} /\ r1 % 2 \in {0, 1} /\ r2 % 2 \in {0, 1} /\ r3 % 2 \in {0, 1} /\ r4 % 2 \in {0, 1}
        /\ 0 \in {0, 1} /\ 1 \in {0, 1} /\ out \in Seq({0, 1})
        /\ o1 \in Seq({0, 1}) /\ o2 \in Seq({0, 1}) /\ o3 \in Seq({0, 1}) /\ o4 \in Seq({0, 1}) /\ o5 \in Seq({0, 1})
    <2>0. d \in Nat
      OBVIOUS
    <2>1. d \in Nat /\ r1 \in Nat /\ r2 \in Nat /\ r3 \in Nat /\ r4 \in Nat /\ r5 \in Nat
      BY <2>0, ShiftNat
    <2> HIDE DEF r1, r2, r3, r4, r5
    <2>2. d % 2 \in {0, 1} /\ r1 % 2 \in {0, 1} /\ r2 % 2 \in {0, 1} /\ r3 % 2 \in {0, 1} /\ r4 % 2 \in {0, 1}
      BY <2>1
    <2> QED BY <2>2
  <1>2. Tick(t0, 0, c1) = t1
    <2>1. "SHIFT_DR" = TapNext["SHIFT_DR"][0 + 1]
      BY Nexts
    <2> QED BY <2>1, TickTp
  <1>3. Tick(t1, 0, c2) = t2
    <2>1. "SHIFT_DR" = TapNext["SHIFT_DR"][0 + 1]
      BY Nexts
    <2> QED BY <2>1, TickTp
  <1>4. Tick(t3, 0, c4) = t4
    <2>1. "SHIFT_DR" = TapNext["SHIFT_DR"][0 + 1]
      BY Nexts
    <2> QED BY <2>1, TickTp
  <1>5. Tick(t4, 1, c5) = t5
    <2>1. "EXIT1_DR" = TapNext["SHIFT_DR"][1 + 1]
      BY Nexts
    <2> QED BY <2>1, TickTp
  <1>6. /\ TapFields = DOMAIN t0 /\ Plain(t0, 0) /\ t0.tdo = d % 2
        /\ TapFields = DOMAIN t1 /\ Plain(t1, 0) /\ t1.tdo = r1 % 2
        /\ TapFields = DOMAIN t3 /\ Plain(t3, 0) /\ t3.tdo = r3 % 2
        /\ TapFields = DOMAIN t4 /\ Plain(t4, 1) /\ t4.tdo = r4 % 2
    BY TpFields, Nexts DEF Plain
  <1> HIDE DEF t0, t1, t2, t3, t4, t5
  <1>7. Goes(St(t0, x, p, out), ShiftBit(0, c1), St(t1, x, p, o1), p)
    BY <1>1, <1>2, <1>6, BitGoes
  <1>8. Goes(St(t1, x, p, o1), ShiftBit(0, c2), St(t2, x, p, o2), p)
    BY <1>1, <1>3, <1>6, BitGoes
  <1>9. Goes(St(t2, x, p, o2), (((ShiftBit(1, c3) \o Clk(0)) \o Clk(1)) \o Clk(0)), St(t3, x, p, o3), p)
    BY ShiftsThird DEF t2, t3
  <1>10. Goes(St(t3, x, p, o3), ShiftBit(0, c4), St(t4, x, p, o4), p)
    BY <1>1, <1>4, <1>6, BitGoes
  <1>11. Goes(St(t4, x, p, o4), ShiftBit(1, c5), St(t5, x, p, o5), p)
    BY <1>1, <1>5, <1>6, BitGoes
  <1> HIDE DEF o1, o2, o3, o4, o5
  <1>12. Goes(St(t0, x, p, out), ShiftBit(0, c1) \o ShiftBit(0, c2), St(t2, x, p, o2), p)
    BY <1>7, <1>8, GoesOn
  <1>13. Goes(St(t0, x, p, out), (ShiftBit(0, c1) \o ShiftBit(0, c2)) \o (((ShiftBit(1, c3) \o Clk(0)) \o Clk(1)) \o Clk(0)), St(t3, x, p, o3), p)
    BY <1>12, <1>9, GoesOn
  <1>14. Goes(St(t0, x, p, out), ((ShiftBit(0, c1) \o ShiftBit(0, c2)) \o (((ShiftBit(1, c3) \o Clk(0)) \o Clk(1)) \o Clk(0))) \o ShiftBit(0, c4), St(t4, x, p, o4), p)
    BY <1>13, <1>10, GoesOn
  <1>15. Goes(St(t0, x, p, out), (((ShiftBit(0, c1) \o ShiftBit(0, c2)) \o (((ShiftBit(1, c3) \o Clk(0)) \o Clk(1)) \o Clk(0))) \o ShiftBit(0, c4)) \o ShiftBit(1, c5), St(t5, x, p, o5), p)
    BY <1>14, <1>11, GoesOn
  <1> QED BY <1>15 DEF t0, t5, o1, o2, o3, o4, o5, FivePaused

\* What a scan leaves in the DMI register and in the data register.
NewDmi(v, x) ==
    Dbus(Address(v), IF Op(v) = 1 /\ Address(v) = 0 THEN x ELSE Data(v), IF Address(v) = 0 THEN 0 ELSE 2)
NewData(v, x) == IF Op(v) = 2 /\ Address(v) = 0 THEN Data(v) ELSE x

\* The client's requests are those of data0 and of a register the module has not,
\* their bits make them up, and they leave small numbers behind.
LEMMA RequestValues ==
  ASSUME NEW v \in Requests
  PROVE  /\ v \in {6, 10, 12, 13, 17} /\ Op(v) \in {0, 1, 2} /\ Data(v) \in 0 .. 3 /\ Address(v) \in {0, 1}
         /\ Op(v) = 0 => Address(v) = 0
         /\ \A i \in 1 .. 5 : Bit(v, i) \in {0, 1}
         /\ v = Bit(v, 1) + (2 * Bit(v, 2)) + (4 * Bit(v, 3)) + (8 * Bit(v, 4)) + (16 * Bit(v, 5))
         /\ \A x \in 0 .. 3 : NewDmi(v, x) \in 0 .. 31 /\ NewData(v, x) \in 0 .. 3
  <1>1. v \in {6, 10, 12, 13, 17}
    BY DEF Requests, Dbus
  <1>2. Op(v) \in {0, 1, 2} /\ Data(v) \in 0 .. 3 /\ Address(v) \in {0, 1} /\ (Op(v) = 0 => Address(v) = 0)
    BY <1>1 DEF Op, Data, Address
  <1>3. /\ Bit(v, 1) = v % 2 /\ Bit(v, 2) = (v \div 2) % 2 /\ Bit(v, 3) = (v \div 4) % 2
        /\ Bit(v, 4) = (v \div 8) % 2 /\ Bit(v, 5) = (v \div 16) % 2
    <2>1. v \div 1 = v
      BY <1>1
    <2>2. Pow2[1] = 1 /\ Pow2[2] = 2 /\ Pow2[3] = 4 /\ Pow2[4] = 8 /\ Pow2[5] = 16
      BY DEF Pow2
    <2> QED BY <2>1, <2>2 DEF Bit
  <1>4. /\ Bit(v, 1) \in {0, 1} /\ Bit(v, 2) \in {0, 1} /\ Bit(v, 3) \in {0, 1} /\ Bit(v, 4) \in {0, 1} /\ Bit(v, 5) \in {0, 1}
        /\ v = Bit(v, 1) + (2 * Bit(v, 2)) + (4 * Bit(v, 3)) + (8 * Bit(v, 4)) + (16 * Bit(v, 5))
    <2> DEFINE b1 == v % 2
               b2 == (v \div 2) % 2
               b3 == (v \div 4) % 2
               b4 == (v \div 8) % 2
               b5 == (v \div 16) % 2
    <2>1. /\ b1 \in {0, 1} /\ b2 \in {0, 1} /\ b3 \in {0, 1} /\ b4 \in {0, 1} /\ b5 \in {0, 1}
          /\ v = b1 + (2 * b2) + (4 * b3) + (8 * b4) + (16 * b5)
      <3>1. CASE v = 6
        BY <3>1
      <3>2. CASE v = 10
        BY <3>2
      <3>3. CASE v = 12
        BY <3>3
      <3>4. CASE v = 13
        BY <3>4
      <3>5. CASE v = 17
        BY <3>5
      <3> HIDE DEF b1, b2, b3, b4, b5
      <3> QED BY <1>1, <3>1, <3>2, <3>3, <3>4, <3>5
    <2> HIDE DEF b1, b2, b3, b4, b5
    <2> QED BY <1>3, <2>1 DEF b1, b2, b3, b4, b5
  <1>5. \A i \in 1 .. 5 : Bit(v, i) \in {0, 1}
    <2>1. \A i \in 1 .. 5 : i = 1 \/ i = 2 \/ i = 3 \/ i = 4 \/ i = 5
      OBVIOUS
    <2> QED BY <2>1, <1>4
  <1>6. \A x \in 0 .. 3 : NewDmi(v, x) \in 0 .. 31 /\ NewData(v, x) \in 0 .. 3
    BY <1>2 DEF NewDmi, NewData, Dbus
  <1> QED BY <1>1, <1>2, <1>4, <1>5, <1>6

\* Pins that perform a scan.
LEMMA RunUpdates ==
  ASSUME NEW a, NEW c \in DOMAIN Pins, Updates(a.tap, Pins[c])
  PROVE  Run(a, c) = St(Latched(Scanned(PosEdge(a.tap), a.data), Pins[c]), NewData(a.tap.dr, a.data),
                        Append(a.performed, a.tap.dr), a.out)
  BY DEF Run, NewData

\* The clock that performs a scan.
LEMMA Updating ==
  ASSUME NEW k, NEW m, NEW b, NEW o, NEW v \in Requests, NEW d, NEW x, NEW p, NEW out \in Seq({0, 1})
  PROVE  Leads(St(Tp(k, m, b, o, "EXIT1_DR", 3, v, 5, d), x, p, out), Clk(1),
               St(Tp(1, 1, 0, o, "UPDATE_DR", 3, v, 5, NewDmi(v, x)), NewData(v, x), Append(p, v), out),
               {p, Append(p, v)})
  <1> DEFINE t == Tp(k, m, b, o, "EXIT1_DR", 3, v, 5, d)
             l == Tp(0, 1, 0, o, "EXIT1_DR", 3, v, 5, d)
             e == Tp(0, 1, 0, o, "UPDATE_DR", 3, v, 5, d)
             s == Tp(0, 1, 0, o, "UPDATE_DR", 3, v, 5, NewDmi(v, x))
             u == Tp(1, 1, 0, o, "UPDATE_DR", 3, v, 5, NewDmi(v, x))
             a == St(l, x, p, out)
             z == St(u, NewData(v, x), Append(p, v), out)
             c == PinChar(0, 1, 0)
             f == PinChar(1, 1, 0)
             Q == {p, Append(p, v)}
  <1>1. f \in DOMAIN Pins /\ Pins[f] = <<1, 1, 0>> /\ <<1, 1, 0>>[1] = 1 /\ c \in Chars /\ f \in Chars
    BY PinChars DEF Chars
  <1>2. Leads(St(t, x, p, out), <<c>>, a, {p})
    <2>1. Latched(t, <<0, 1, 0>>) = l
      BY LatchedTp
    <2> HIDE DEF t, l
    <2>2. Leads(St(t, x, p, out), <<PinChar(0, 1, 0)>>, St(Latched(t, <<0, 1, 0>>), x, p, out), {p})
      BY Falling
    <2> QED BY <2>1, <2>2
  <1>3. PosEdge(l) = e
    BY Edge, Nexts
  <1>4. Scanned(e, x) = s
    <2> DEFINE q == NewDmi(v, x)
    <2>1. e.dr = v
      BY DEF Tp
    <2>2. [e EXCEPT !.dmi = q] = s
      <3> DEFINE w == q
      <3>1. [e EXCEPT !.dmi = w] = Tp(0, 1, 0, o, "UPDATE_DR", 3, v, 5, w)
        <4> HIDE DEF w
        <4> QED BY DEF Tp
      <3> QED BY <3>1
    <2>3. Scanned(e, x) = [e EXCEPT !.dmi = q]
      <3> HIDE DEF e
      <3> QED BY <2>1 DEF Scanned, NewDmi
    <2> HIDE DEF e, s, q
    <2> QED BY <2>2, <2>3
  <1>5. Latched(s, <<1, 1, 0>>) = u
    BY LatchedTp
  <1>6. l.tck = 0 /\ l.tms = 1 /\ l.state = "EXIT1_DR" /\ l.ir = 3 /\ l.dr = v
    BY DEF Tp
  <1>7. Updates(l, Pins[f])
    <2> HIDE DEF l, f
    <2> QED BY <1>1, <1>6, Nexts DEF Updates, IR_DBUS
  <1>8. a.tap = l /\ a.data = x /\ a.performed = p /\ a.out = out /\ z.out = out /\ z.performed = Append(p, v)
    BY DEF St
  <1> HIDE DEF t, l, e, s, u, f, c
  <1>9. Run(a, f) = z /\ Legal(a, f)
    <2> DEFINE y == a
    <2>1. y.tap = l /\ y.data = x /\ y.performed = p /\ y.out = out /\ y = a
      BY <1>8
    <2> HIDE DEF y
    <2>2. Run(y, f) = St(Latched(Scanned(PosEdge(l), x), Pins[f]), NewData(v, x), Append(p, v), out)
      BY <2>1, <1>1, <1>6, <1>7, RunUpdates
    <2>3. Latched(Scanned(PosEdge(l), x), Pins[f]) = u
      BY <1>1, <1>3, <1>4, <1>5
    <2>4. Legal(y, f)
      <3>1. PosEdge(l).dr = v
        BY <1>3 DEF e, Tp
      <3> QED BY <2>1, <3>1, <1>6 DEF Legal
    <2> HIDE DEF a
    <2> QED BY <2>1, <2>2, <2>3, <2>4
  <1> HIDE DEF a, z, Q
  <1>10. Leads(a, <<f>>, z, Q)
    <2>1. a.out \in Seq({0, 1}) /\ z.out \in Seq({0, 1}) /\ Len(a.out) <= Len(z.out) /\ a.performed \in Q /\ z.performed \in Q
      BY <1>8 DEF Q
    <2>2. Leads(a, <<f>>, Run(a, f), Q)
      BY <2>1, <1>9, LeadsOne
    <2> QED BY <2>2, <1>9
  <1>11. Leads(St(t, x, p, out), <<c>>, a, Q)
    <2>1. {p} \subseteq Q
      BY DEF Q
    <2> QED BY <2>1, <1>2, LeadsMore
  <1>12. Leads(St(t, x, p, out), <<c>> \o <<f>>, z, Q)
    <2>1. <<c>> \in Seq(Chars) /\ <<f>> \in Seq(Chars)
      BY <1>1
    <2> QED BY <2>1, <1>10, <1>11, LeadsConcat
  <1>13. <<c>> \o <<f>> = <<c, f>>
    BY Pair
  <1>14. Clk(1) = <<c, f>>
    BY DEF Clk, c, f
  <1> QED BY <1>12, <1>13, <1>14 DEF t, u, z, Q

\* A DMI scan gives the register's bits back and performs its request.
LEMMA DmiScan ==
  ASSUME NEW k, NEW m, NEW b, NEW o, NEW dr, NEW n, NEW d \in 0 .. 31, NEW x \in 0 .. 3, NEW p,
         NEW v \in Requests, NEW pause \in {0, 3}
  PROVE  \E o2 \in {0, 1}, bits \in Seq({0, 1}) :
           /\ Len(bits) = 5 /\ Read(bits) = d /\ DrScan(v, pause) \in Seq(Chars)
           /\ Leads(St(Tp(k, m, b, o, "RUN_TEST_IDLE", 3, dr, n, d), x, p, <<>>), DrScan(v, pause),
                    St(Tp(1, 0, 0, o2, "RUN_TEST_IDLE", 3, v, 5, NewDmi(v, x)), NewData(v, x), Append(p, v), bits),
                    {p, Append(p, v)})
  <1> DEFINE c1 == Bit(v, 1)
             c2 == Bit(v, 2)
             c3 == Bit(v, 3)
             c4 == Bit(v, 4)
             c5 == Bit(v, 5)
             r1 == Shift(d, 5, c1)
             r2 == Shift(r1, 5, c2)
             r3 == Shift(r2, 5, c3)
             r4 == Shift(r3, 5, c4)
             r5 == Shift(r4, 5, c5)
             o1 == Append(<<>>, d % 2)
             o2 == Append(o1, r1 % 2)
             o3 == Append(o2, r2 % 2)
             o4 == Append(o3, r3 % 2)
             o5 == Append(o4, r4 % 2)
             t0 == Tp(k, m, b, o, "RUN_TEST_IDLE", 3, dr, n, d)
             t1 == Tp(1, 1, 0, o, "SELECT_DR_SCAN", 3, dr, n, d)
             t2 == Tp(1, 0, 0, o, "CAPTURE_DR", 3, d, 5, d)
             t3 == Tp(1, 0, 0, d % 2, "SHIFT_DR", 3, d, 5, d)
             t4 == Tp(1, 1, c5, r4 % 2, "EXIT1_DR", 3, v, 5, d)
             e == NewDmi(v, x)
             t5 == Tp(1, 1, 0, r4 % 2, "UPDATE_DR", 3, v, 5, e)
             t6 == Tp(1, 0, 0, r4 % 2, "RUN_TEST_IDLE", 3, v, 5, e)
             y == NewData(v, x)
             q == Append(p, v)
             B == Bits(v, 5, pause)
  <1>1. /\ c1 \in {0, 1} /\ c2 \in {0, 1} /\ c3 \in {0, 1} /\ c4 \in {0, 1} /\ c5 \in {0, 1} /\ v \in Nat
        /\ v = c1 + (2 * c2) + (4 * c3) + (8 * c4) + (16 * c5)
    <2>1. 1 \in 1 .. 5 /\ 2 \in 1 .. 5 /\ 3 \in 1 .. 5 /\ 4 \in 1 .. 5 /\ 5 \in 1 .. 5
      OBVIOUS
    <2>2. v \in {6, 10, 12, 13, 17}
      BY RequestValues
    <2> QED BY <2>1, <2>2, RequestValues
  <1> HIDE DEF c1, c2, c3, c4, c5
  <1>2. /\ r5 = v /\ r1 \in Nat /\ r2 \in Nat /\ r3 \in Nat /\ r4 \in Nat
        /\ d = (d % 2) + (2 * (r1 % 2)) + (4 * (r2 % 2)) + (8 * (r3 % 2)) + (16 * (r4 % 2))
    <2>1. /\ d \in Nat /\ r1 \in Nat /\ r2 \in Nat /\ r3 \in Nat /\ r4 \in Nat /\ r5 \in Nat
          /\ r5 = c1 + (2 * c2) + (4 * c3) + (8 * c4) + (16 * c5)
          /\ d = (d % 2) + (2 * (r1 % 2)) + (4 * (r2 % 2)) + (8 * (r3 % 2)) + (16 * (r4 % 2))
      <3>1. Moved(c1, c2, c3, c4, c5, d)
        <4> DEFINE two == {0, 1}
                   word == 0 .. 31
        <4>1. c1 \in two /\ c2 \in two /\ c3 \in two /\ c4 \in two /\ c5 \in two /\ d \in word
          BY <1>1
        <4>2. \A a1, a2, a3, a4, a5 \in two, i \in word : Moved(a1, a2, a3, a4, a5, i)
          BY ShiftedIn
        <4> HIDE DEF two, word
        <4> QED BY <4>1, <4>2, Zenon
      <3> QED BY <3>1 DEF Moved
    <2> HIDE DEF r1, r2, r3, r4, r5
    <2> QED BY <1>1, <2>1
  <1>3. <<>> \in Seq({0, 1}) /\ 0 \in {0, 1} /\ 1 \in {0, 1}
    OBVIOUS
  <1>4. Goes(St(t3, x, p, <<>>), B, St(t4, x, p, o5), p)
    <2>1. t4 = Tp(1, 1, c5, r4 % 2, "EXIT1_DR", 3, r5, 5, d)
      BY <1>2
    <2>2. ASSUME pause = 0
          PROVE  Goes(St(t3, x, p, <<>>), B, St(t4, x, p, o5), p)
      <3>1. Goes(St(t3, x, p, <<>>),
                 (((ShiftBit(0, c1) \o ShiftBit(0, c2)) \o ShiftBit(0, c3)) \o ShiftBit(0, c4)) \o ShiftBit(1, c5),
                 St(Tp(1, 1, c5, r4 % 2, "EXIT1_DR", 3, r5, 5, d), x, p, o5), p)
        <4>1. Five(c1, c2, c3, c4, c5, d, x, p, <<>>)
          <5> DEFINE none == <<>>
          <5>1. c1 \in Binary /\ c2 \in Binary /\ c3 \in Binary /\ c4 \in Binary /\ c5 \in Binary /\ d \in DmiValues /\ none \in Outs
            BY <1>1, <1>3 DEF Binary, DmiValues, Outs
          <5> HIDE DEF none
          <5>2. Five(c1, c2, c3, c4, c5, d, x, p, none)
            BY <5>1, ShiftsFive, Zenon
          <5> QED BY <5>2 DEF none
        <4> QED BY <4>1 DEF Five
      <3>2. B = (((ShiftBit(0, c1) \o ShiftBit(0, c2)) \o ShiftBit(0, c3)) \o ShiftBit(0, c4)) \o ShiftBit(1, c5)
        BY <1>1, <2>2, BitsFive DEF c1, c2, c3, c4, c5
      <3> HIDE DEF t3, t4, r1, r2, r3, r4, r5, o5, B
      <3> QED BY <2>1, <3>1, <3>2
    <2>3. ASSUME pause = 3
          PROVE  Goes(St(t3, x, p, <<>>), B, St(t4, x, p, o5), p)
      <3> DEFINE third == ((ShiftBit(1, c3) \o Clk(0)) \o Clk(1)) \o Clk(0)
      <3>1. Goes(St(t3, x, p, <<>>),
                 (((ShiftBit(0, c1) \o ShiftBit(0, c2)) \o third) \o ShiftBit(0, c4)) \o ShiftBit(1, c5),
                 St(Tp(1, 1, c5, r4 % 2, "EXIT1_DR", 3, r5, 5, d), x, p, o5), p)
        <4>1. FivePaused(c1, c2, c3, c4, c5, d, x, p, <<>>)
          <5> DEFINE none == <<>>
          <5>1. c1 \in Binary /\ c2 \in Binary /\ c3 \in Binary /\ c4 \in Binary /\ c5 \in Binary /\ d \in DmiValues /\ none \in Outs
            BY <1>1, <1>3 DEF Binary, DmiValues, Outs
          <5> HIDE DEF none
          <5>2. FivePaused(c1, c2, c3, c4, c5, d, x, p, none)
            BY <5>1, ShiftsFivePaused, Zenon
          <5> QED BY <5>2 DEF none
        <4> QED BY <4>1 DEF FivePaused
      <3>2. B = (((ShiftBit(0, c1) \o ShiftBit(0, c2)) \o third) \o ShiftBit(0, c4)) \o ShiftBit(1, c5)
        BY <1>1, <2>3, BitsFive DEF c1, c2, c3, c4, c5
      <3> HIDE DEF t3, t4, r1, r2, r3, r4, r5, o5, B, third
      <3> QED BY <2>1, <3>1, <3>2
    <2> QED BY <2>2, <2>3
  <1>5. /\ o5 \in Seq({0, 1}) /\ Len(o5) = 5 /\ Read(o5) = d /\ r4 % 2 \in {0, 1}
    <2> DEFINE b0 == d % 2
               b1 == r1 % 2
               b2 == r2 % 2
               b3 == r3 % 2
               b4 == r4 % 2
    <2>1. b0 \in {0, 1} /\ b1 \in {0, 1} /\ b2 \in {0, 1} /\ b3 \in {0, 1} /\ b4 \in {0, 1}
      <3> HIDE DEF r1, r2, r3, r4
      <3> QED BY <1>2
    <2>2. d = b0 + (2 * b1) + (4 * b2) + (8 * b3) + (16 * b4)
      BY <1>2
    <2>3. o1 = Append(<<>>, b0) /\ o2 = Append(o1, b1) /\ o3 = Append(o2, b2) /\ o4 = Append(o3, b3) /\ o5 = Append(o4, b4)
      OBVIOUS
    <2>4. b4 = r4 % 2
      OBVIOUS
    <2> HIDE DEF r1, r2, r3, r4, r5, o1, o2, o3, o4, o5, b0, b1, b2, b3, b4
    <2>5. o1 \in Seq({0, 1}) /\ Len(o1) = 1 /\ o1[1] = b0
      BY <2>1, <2>3
    <2>6. o2 \in Seq({0, 1}) /\ Len(o2) = 2 /\ o2[1] = b0 /\ o2[2] = b1
      BY <2>1, <2>3, <2>5
    <2>7. o3 \in Seq({0, 1}) /\ Len(o3) = 3 /\ o3[1] = b0 /\ o3[2] = b1 /\ o3[3] = b2
      BY <2>1, <2>3, <2>6
    <2>8. o4 \in Seq({0, 1}) /\ Len(o4) = 4 /\ o4[1] = b0 /\ o4[2] = b1 /\ o4[3] = b2 /\ o4[4] = b3
      BY <2>1, <2>3, <2>7
    <2>9. o5 \in Seq({0, 1}) /\ Len(o5) = 5 /\ o5[1] = b0 /\ o5[2] = b1 /\ o5[3] = b2 /\ o5[4] = b3 /\ o5[5] = b4
      BY <2>1, <2>3, <2>8
    <2>10. Read(o5) = d
      BY <2>2, <2>9 DEF Read
    <2> QED BY <2>1, <2>4, <2>9, <2>10
  <1> HIDE DEF r1, r2, r3, r4, r5, o1, o2, o3, o4, o5, B, e, y, q
  <1>6. Tick(t0, 1, 0) = t1
    <2>1. "SELECT_DR_SCAN" = TapNext["RUN_TEST_IDLE"][1 + 1]
      BY Nexts
    <2> QED BY <2>1, TickTp
  <1>7. Tick(t1, 0, 0) = t2
    <2>1. "CAPTURE_DR" = TapNext["SELECT_DR_SCAN"][0 + 1]
      BY Nexts
    <2> QED BY <2>1, TickTp
  <1>8. Tick(t2, 0, 0) = t3
    <2>1. "SHIFT_DR" = TapNext["CAPTURE_DR"][0 + 1]
      BY Nexts
    <2> QED BY <2>1, TickTp
  <1>9. Tick(t5, 0, 0) = t6
    <2>1. "RUN_TEST_IDLE" = TapNext["UPDATE_DR"][0 + 1]
      BY Nexts
    <2> QED BY <2>1, TickTp
  <1>10. /\ TapFields = DOMAIN t0 /\ Plain(t0, 1)
         /\ TapFields = DOMAIN t1 /\ Plain(t1, 0)
         /\ TapFields = DOMAIN t2 /\ Plain(t2, 0)
         /\ TapFields = DOMAIN t5 /\ Plain(t5, 0)
    BY TpFields, Nexts DEF Plain
  <1>11. Leads(St(t4, x, p, o5), Clk(1), St(t5, y, q, o5), {p, q})
    BY <1>5, Updating DEF e, y, q
  <1> HIDE DEF t0, t1, t2, t3, t4, t5, t6
  <1>12. Goes(St(t0, x, p, <<>>), Clk(1), St(t1, x, p, <<>>), p)
    BY <1>3, <1>6, <1>10, ClkGoes
  <1>13. Goes(St(t1, x, p, <<>>), Clk(0), St(t2, x, p, <<>>), p)
    BY <1>3, <1>7, <1>10, ClkGoes
  <1>14. Goes(St(t2, x, p, <<>>), Clk(0), St(t3, x, p, <<>>), p)
    BY <1>3, <1>8, <1>10, ClkGoes
  <1>15. Goes(St(t5, y, q, o5), Clk(0), St(t6, y, q, o5), q)
    BY <1>3, <1>5, <1>9, <1>10, ClkGoes
  <1>16. Goes(St(t0, x, p, <<>>), Clk(1) \o Clk(0), St(t2, x, p, <<>>), p)
    BY <1>12, <1>13, GoesOn
  <1>17. Goes(St(t0, x, p, <<>>), (Clk(1) \o Clk(0)) \o Clk(0), St(t3, x, p, <<>>), p)
    BY <1>14, <1>16, GoesOn
  <1> DEFINE z == ((Clk(1) \o Clk(0)) \o Clk(0)) \o B
             P == {p, q}
  <1>18. z \in Seq(Chars) /\ Leads(St(t0, x, p, <<>>), z, St(t4, x, p, o5), {p})
    <2>1. Goes(St(t0, x, p, <<>>), z, St(t4, x, p, o5), p)
      BY <1>4, <1>17, GoesOn
    <2> QED BY <2>1 DEF Goes
  <1>19. Clk(1) \in Seq(Chars) /\ Clk(0) \in Seq(Chars)
    BY CharsTyped
  <1>20. DrScan(v, pause) = (z \o Clk(1)) \o Clk(0)
    BY DEF DrScan, B, DmiLength
  <1>21. {p} \subseteq P /\ {q} \subseteq P
    OBVIOUS
  <1>22. Leads(St(t5, y, q, o5), Clk(0), St(t6, y, q, o5), P)
    BY <1>15, <1>21, LeadsMore DEF Goes
  <1> HIDE DEF z, P
  <1>23. Leads(St(t0, x, p, <<>>), z, St(t4, x, p, o5), P)
    BY <1>18, <1>21, LeadsMore
  <1>24. Leads(St(t4, x, p, o5), Clk(1), St(t5, y, q, o5), P)
    BY <1>11 DEF P
  <1>25. z \o Clk(1) \in Seq(Chars) /\ Leads(St(t0, x, p, <<>>), z \o Clk(1), St(t5, y, q, o5), P)
    BY <1>18, <1>19, <1>23, <1>24, LeadsConcat
  <1>26. (z \o Clk(1)) \o Clk(0) \in Seq(Chars) /\ Leads(St(t0, x, p, <<>>), (z \o Clk(1)) \o Clk(0), St(t6, y, q, o5), P)
    <2> DEFINE w == z \o Clk(1)
               u == Clk(0)
    <2>1. w \in Seq(Chars) /\ u \in Seq(Chars) /\ Leads(St(t0, x, p, <<>>), w, St(t5, y, q, o5), P)
          /\ Leads(St(t5, y, q, o5), u, St(t6, y, q, o5), P)
      BY <1>19, <1>22, <1>25
    <2> HIDE DEF w, u
    <2>2. w \o u \in Seq(Chars) /\ Leads(St(t0, x, p, <<>>), w \o u, St(t6, y, q, o5), P)
      BY <2>1, LeadsConcat
    <2> QED BY <2>2 DEF w, u
  <1> QED BY <1>5, <1>20, <1>26 DEF t0, t6, e, y, q, P

\* No-ops of the server, and its reset of the TAP.
LEMMA OtherCharacter ==
  ASSUME NEW c \in {"B", "b", "Q"}, NEW t, NEW x, NEW p, NEW out \in Seq({0, 1})
  PROVE  Goes(St(t, x, p, out), <<c>>, St(t, x, p, out), p)
  <1> DEFINE a == St(t, x, p, out)
  <1>1. a.out = out /\ a.performed = p /\ c \notin DOMAIN Pins /\ c \notin {"r", "R"} /\ c \in Chars
    BY DEF St, Pins, Chars
  <1> HIDE DEF a
  <1>2. Run(a, c) = a /\ Legal(a, c)
    BY <1>1 DEF Run, Legal
  <1>3. Leads(a, <<c>>, Run(a, c), {p})
    <2>1. a.out \in Seq({0, 1}) /\ Run(a, c).out \in Seq({0, 1}) /\ Len(a.out) <= Len(Run(a, c).out)
      BY <1>1, <1>2
    <2> QED BY <2>1, <1>1, <1>2, LeadsOne
  <1>4. <<c>> \in Seq(Chars)
    BY <1>1
  <1> QED BY <1>2, <1>3, <1>4 DEF Goes, a

\* The server's r resets the TAP's state, and not its instruction register.
LEMMA ResetCharacter ==
  ASSUME NEW k, NEW m, NEW b, NEW o, NEW s, NEW ir, NEW dr, NEW n, NEW d, NEW x, NEW p, NEW out \in Seq({0, 1})
  PROVE  Goes(St(Tp(k, m, b, o, s, ir, dr, n, d), x, p, out), <<"r">>,
              St(Tp(k, m, b, o, "TEST_LOGIC_RESET", ir, dr, n, d), x, p, out), p)
  <1> DEFINE t == Tp(k, m, b, o, s, ir, dr, n, d)
             u == Tp(k, m, b, o, "TEST_LOGIC_RESET", ir, dr, n, d)
             a == St(t, x, p, out)
             z == St(u, x, p, out)
  <1>1. a.tap = t /\ a.data = x /\ a.out = out /\ a.performed = p /\ z.out = out /\ z.performed = p
        /\ "r" \notin DOMAIN Pins /\ "r" \in Chars
    BY DEF St, Pins, Chars
  <1>2. [t EXCEPT !.state = "TEST_LOGIC_RESET"] = u
    BY DEF Tp
  <1> HIDE DEF a, t, u
  <1>3. Run(a, "r") = z /\ Legal(a, "r")
    BY <1>1, <1>2 DEF Run, Legal
  <1> HIDE DEF z
  <1>4. Leads(a, <<"r">>, Run(a, "r"), {p})
    <2>1. a.out \in Seq({0, 1}) /\ Run(a, "r").out \in Seq({0, 1}) /\ Len(a.out) <= Len(Run(a, "r").out)
      BY <1>1, <1>3
    <2> QED BY <2>1, <1>1, <1>3, LeadsOne
  <1>5. <<"r">> \in Seq(Chars)
    BY <1>1
  <1> QED BY <1>3, <1>4, <1>5 DEF Goes, a, z, t, u

\* A clock that resets the TAP.
LEMMA TickReset ==
  ASSUME NEW k, NEW m1, NEW b1, NEW m, NEW b, NEW o, NEW s, NEW ir, NEW dr, NEW n, NEW dmi,
         s \notin {"SHIFT_DR", "SHIFT_IR"}, TapNext[s][m + 1] = "TEST_LOGIC_RESET"
  PROVE  Tick(Tp(k, m1, b1, o, s, ir, dr, n, dmi), m, b) = Tp(1, m, b, o, "TEST_LOGIC_RESET", 1, dr, n, dmi)
  <1> DEFINE t == Tp(k, m1, b1, o, s, ir, dr, n, dmi)
             l == Tp(0, m, b, o, s, ir, dr, n, dmi)
             nx == TapNext[s][m + 1]
             e == PosEdge(l)
             g == Tp(0, m, b, o, nx, 1, dr, n, dmi)
  <1>1. Tick(t, m, b) = Latched(e, <<1, m, b>>)
    BY LatchedTp DEF Tick
  <1>2. e = g
    <2>1. nx = TapNext[s][m + 1] /\ nx = "TEST_LOGIC_RESET"
      OBVIOUS
    <2> HIDE DEF nx
    <2> QED BY <2>1, Edge
  <1>3. g = Tp(0, m, b, o, "TEST_LOGIC_RESET", 1, dr, n, dmi)
    OBVIOUS
  <1> HIDE DEF e, g, t
  <1>4. Tick(t, m, b) = Tp(1, m, b, o, "TEST_LOGIC_RESET", 1, dr, n, dmi)
    BY <1>1, <1>2, <1>3, LatchedTp
  <1> QED BY <1>4 DEF t

\* One idle or resetting clock of a TAP that no scan is under way in.
LEMMA IdleClock ==
  ASSUME NEW k, NEW m, NEW b, NEW o, NEW s, NEW ir, NEW dr, NEW n, NEW d, NEW x, NEW p, NEW out \in Seq({0, 1}),
         NEW q \in {0, 1}, NEW nx, nx = TapNext[s][q + 1],
         nx \in {"TEST_LOGIC_RESET", "RUN_TEST_IDLE", "SELECT_DR_SCAN", "SELECT_IR_SCAN"},
         s \notin {"SHIFT_DR", "SHIFT_IR"}
  PROVE  Goes(St(Tp(k, m, b, o, s, ir, dr, n, d), x, p, out), Clk(q),
              St(Tp(1, q, 0, o, nx, IF nx = "TEST_LOGIC_RESET" THEN 1 ELSE ir, dr, n, d), x, p, out), p)
  <1> DEFINE t == Tp(k, m, b, o, s, ir, dr, n, d)
             j == IF nx = "TEST_LOGIC_RESET" THEN 1 ELSE ir
             u == Tp(1, q, 0, o, nx, j, dr, n, d)
  <1>1. Tick(t, q, 0) = u
    <2>1. CASE nx = "TEST_LOGIC_RESET"
      <3>1. TapNext[s][q + 1] = "TEST_LOGIC_RESET"
        BY <2>1
      <3>2. Tick(t, q, 0) = Tp(1, q, 0, o, "TEST_LOGIC_RESET", 1, dr, n, d)
        BY <3>1, TickReset
      <3>3. j = 1
        BY <2>1
      <3> HIDE DEF t
      <3> QED BY <2>1, <3>2, <3>3
    <2>2. CASE nx # "TEST_LOGIC_RESET"
      BY <2>2, TickTp
    <2> QED BY <2>1, <2>2
  <1>2. TapFields = DOMAIN t /\ t.state = s
    BY TpFields
  <1>3. Plain(t, q)
    <2> HIDE DEF t
    <2> QED BY <1>2 DEF Plain
  <1> HIDE DEF t, u
  <1>4. Goes(St(t, x, p, out), Clk(q), St(u, x, p, out), p)
    BY <1>1, <1>2, <1>3, ClkGoes
  <1> QED BY <1>4 DEF t, u

\* Where a new client's first characters lead: the DMI register is selected, two
\* bits are on their way back, and nothing else has changed.
Opened(y, a, dr, n, d, x, p) ==
    \E o, out : /\ out \in Seq({0, 1}) /\ Len(out) = 2
                /\ Goes(a, y, St(Tp(1, 0, 0, o, "RUN_TEST_IDLE", 3, dr, n, d), x, p, out), p)

\* From the idle state, the instruction register's scan is all that is needed.
LEMMA SelectsFrom ==
  ASSUME NEW k, NEW m, NEW b, NEW o, NEW ir \in 0 .. 3, NEW dr, NEW n, NEW d, NEW x, NEW p
  PROVE  Opened(IrScan(3), St(Tp(k, m, b, o, "RUN_TEST_IDLE", ir, dr, n, d), x, p, <<>>), dr, n, d, x, p)
  <1> DEFINE none == <<>>
             i1 == Shift(ir, 2, 1)
             i2 == Shift(i1, 2, 1)
             o1 == Append(none, ir % 2)
             o2 == Append(o1, i1 % 2)
             e == i1 % 2
             w == ir % 2
  <1>1. none \in Seq({0, 1})
    OBVIOUS
  <1>2. /\ Goes(St(Tp(k, m, b, o, "RUN_TEST_IDLE", ir, dr, n, d), x, p, none), IrScan(3),
                St(Tp(1, 0, 0, e, "RUN_TEST_IDLE", i2, dr, n, d), x, p, o2), p)
        /\ i2 = 3
    <2> HIDE DEF none
    <2> QED BY <1>1, SelectsDmi
  <1>3. e \in {0, 1} /\ w \in {0, 1}
    <2>1. i1 = (ir \div 2) + 2
      BY DEF Shift, Pow2
    <2>2. i1 \in {2, 3}
      BY <2>1
    <2> HIDE DEF i1
    <2> QED BY <2>2
  <1>4. o2 = Append(Append(none, w), e)
    OBVIOUS
  <1> HIDE DEF i1, i2, o1, o2, e, w
  <1>5. o2 \in Seq({0, 1}) /\ Len(o2) = 2
    BY <1>3, <1>4
  <1> HIDE DEF none
  <1>6. Goes(St(Tp(k, m, b, o, "RUN_TEST_IDLE", ir, dr, n, d), x, p, none), IrScan(3),
                St(Tp(1, 0, 0, e, "RUN_TEST_IDLE", 3, dr, n, d), x, p, o2), p)
    BY <1>2
  <1> QED BY <1>5, <1>6 DEF Opened, none

\* What leads to such a state may be preceded by more characters.
LEMMA GoesOpened ==
  ASSUME NEW a, NEW c, NEW y, NEW z, NEW dr, NEW n, NEW d, NEW x, NEW p, Goes(a, y, c, p), Opened(z, c, dr, n, d, x, p)
  PROVE  Opened(y \o z, a, dr, n, d, x, p)
  BY GoesOn DEF Opened

\* Both ways of a new client lead there.
LEMMA Opens ==
  ASSUME NEW y \in Open, NEW k, NEW m, NEW b, NEW o, NEW s \in {"TEST_LOGIC_RESET", "RUN_TEST_IDLE"}, NEW ir \in {1, 3},
         NEW dr, NEW n, NEW d, NEW x, NEW p
  PROVE  Opened(y, St(Tp(k, m, b, o, s, ir, dr, n, d), x, p, <<>>), dr, n, d, x, p)
  <1> DEFINE none == <<>>
             R == "TEST_LOGIC_RESET"
             I == "RUN_TEST_IDLE"
             a == St(Tp(k, m, b, o, s, ir, dr, n, d), x, p, none)
             A(h, q, st, i) == St(Tp(h, q, 0, o, st, i, dr, n, d), x, p, none)
  <1>1. none \in Seq({0, 1}) /\ 0 \in {0, 1} /\ 1 \in {0, 1} /\ IR_DBUS = 3
    BY DEF IR_DBUS
  <1> HIDE DEF none
  <1>2. ASSUME y = Clk(1) \o Clk(1) \o Clk(1) \o Clk(1) \o Clk(1) \o Clk(0) \o IrScan(3)
        PROVE  Opened(y, a, dr, n, d, x, p)
    <2> DEFINE five == Clk(1) \o Clk(1) \o Clk(1) \o Clk(1) \o Clk(1)
               six == five \o Clk(0)
    <2>1. Goes(a, five, A(1, 1, R, 1), p)
      <3>1. Goes(A(1, 1, R, 1), Clk(1), A(1, 1, R, 1), p)
        BY <1>1, IdleClock, Nexts
      <3>2. CASE s = R
        <4>1. Goes(a, Clk(1), A(1, 1, R, 1), p)
          BY <1>1, <3>2, IdleClock, Nexts
        <4> HIDE DEF a, A
        <4>2. Goes(a, Clk(1) \o Clk(1), A(1, 1, R, 1), p)
          BY <4>1, <3>1, GoesOn
        <4>3. Goes(a, (Clk(1) \o Clk(1)) \o Clk(1), A(1, 1, R, 1), p)
          BY <4>2, <3>1, GoesOn
        <4>4. Goes(a, ((Clk(1) \o Clk(1)) \o Clk(1)) \o Clk(1), A(1, 1, R, 1), p)
          BY <4>3, <3>1, GoesOn
        <4> QED BY <4>4, <3>1, GoesOn
      <3>3. CASE s = I
        <4> DEFINE D == A(1, 1, "SELECT_DR_SCAN", ir)
                   E == A(1, 1, "SELECT_IR_SCAN", ir)
                   F == A(1, 1, R, 1)
        <4>1. Goes(a, Clk(1), D, p)
          BY <1>1, <3>3, IdleClock, Nexts
        <4>2. Goes(D, Clk(1), E, p)
          BY <1>1, IdleClock, Nexts
        <4>3. Goes(E, Clk(1), F, p)
          BY <1>1, IdleClock, Nexts
        <4>0. Goes(F, Clk(1), F, p)
          BY <3>1
        <4> HIDE DEF a, A, D, E, F
        <4>4. Goes(a, Clk(1) \o Clk(1), E, p)
          BY <4>1, <4>2, GoesOn
        <4>5. Goes(a, (Clk(1) \o Clk(1)) \o Clk(1), F, p)
          BY <4>4, <4>3, GoesOn
        <4>6. Goes(a, ((Clk(1) \o Clk(1)) \o Clk(1)) \o Clk(1), F, p)
          BY <4>5, <4>0, GoesOn
        <4>7. Goes(a, (((Clk(1) \o Clk(1)) \o Clk(1)) \o Clk(1)) \o Clk(1), F, p)
          BY <4>6, <4>0, GoesOn
        <4> QED BY <4>7 DEF F
      <3> QED BY <3>2, <3>3
    <2>2. Goes(A(1, 1, R, 1), Clk(0), A(1, 0, I, 1), p)
      BY <1>1, IdleClock, Nexts
    <2>3. Opened(IrScan(3), A(1, 0, I, 1), dr, n, d, x, p)
      BY SelectsFrom DEF none
    <2> HIDE DEF a, A, five
    <2>4. Goes(a, six, A(1, 0, I, 1), p)
      BY <2>1, <2>2, GoesOn
    <2> HIDE DEF six
    <2>5. Opened(six \o IrScan(3), a, dr, n, d, x, p)
      BY <2>3, <2>4, GoesOpened
    <2> QED BY <1>2, <2>5 DEF six, five
  <1>3. ASSUME y = <<"B", "r", "b">> \o Clk(0) \o Clk(0) \o Clk(0) \o IrScan(3)
        PROVE  Opened(y, a, dr, n, d, x, p)
    <2> DEFINE B1 == <<"B">>
               B2 == <<"r">>
               B3 == <<"b">>
               C == Clk(0)
               g == St(Tp(k, m, b, o, R, ir, dr, n, d), x, p, none)
               e == A(1, 0, I, ir)
               brb == (B1 \o B2) \o B3
               three == ((brb \o C) \o C) \o C
    <2>0. ir \in 0 .. 3
      OBVIOUS
    <2>1. Goes(a, B1, a, p) /\ Goes(g, B3, g, p)
      BY <1>1, OtherCharacter
    <2>2. Goes(a, B2, g, p)
      BY <1>1, ResetCharacter
    <2>3. Goes(g, C, e, p)
      BY <1>1, IdleClock, Nexts
    <2>4. Goes(e, C, e, p)
      BY <1>1, IdleClock, Nexts
    <2>5. Opened(IrScan(3), e, dr, n, d, x, p)
      BY <2>0, SelectsFrom DEF none
    <2>6. brb = <<"B", "r", "b">>
      BY Triple
    <2> HIDE DEF a, g, A, B1, B2, B3, C, e
    <2>7. Goes(a, B1 \o B2, g, p)
      BY <2>1, <2>2, GoesOn
    <2>8. Goes(a, brb, g, p)
      BY <2>1, <2>7, GoesOn
    <2> HIDE DEF brb
    <2>9. Goes(a, brb \o C, e, p)
      BY <2>3, <2>8, GoesOn
    <2>10. Goes(a, (brb \o C) \o C, e, p)
      BY <2>4, <2>9, GoesOn
    <2>11. Goes(a, three, e, p)
      BY <2>4, <2>10, GoesOn
    <2> HIDE DEF three
    <2>12. Opened(three \o IrScan(3), a, dr, n, d, x, p)
      BY <2>5, <2>11, GoesOpened
    <2> QED BY <1>3, <2>6, <2>12 DEF three, C
  <1>4. Opened(y, a, dr, n, d, x, p)
    BY <1>1, <1>2, <1>3 DEF Open
  <1> QED BY <1>4 DEF none

\* A set of numbers below a bound has a greatest one, and it is its maximum.
LEMMA MaxOf ==
  ASSUME NEW n \in Nat, NEW T, T \subseteq 0 .. n, T # {}
  PROVE  Max(T) \in T /\ \A y \in T : y <= Max(T)
  <1> DEFINE U == {n - t : t \in T}
  <1>1. U \subseteq 0 .. n /\ U # {}
    <2>1. \A t \in T : t \in 0 .. n
      OBVIOUS
    <2>2. \A t \in T : n - t \in 0 .. n
      BY <2>1
    <2>3. PICK t : t \in T
      OBVIOUS
    <2>4. n - t \in U
      BY <2>3
    <2> QED BY <2>2, <2>4
  <1>2. PICK u \in U : \A w \in U : u <= w
    <2> HIDE DEF U
    <2> QED BY <1>1, LeastNat
  <1>3. PICK t \in T : u = n - t
    BY <1>2
  <1>4. \A y \in T : t >= y
    <2>1. ASSUME NEW y \in T
          PROVE  t >= y
      <3>1. n - y \in U
        OBVIOUS
      <3>2. n - t <= n - y
        BY <1>2, <1>3, <3>1
      <3>3. t \in 0 .. n /\ y \in 0 .. n
        OBVIOUS
      <3> HIDE DEF U
      <3> QED BY <3>2, <3>3
    <2> QED BY <2>1
  <1>5. \E z \in T : \A y \in T : z >= y
    BY <1>4
  <1>6. Max(T) \in T /\ \A y \in T : Max(T) >= y
    BY <1>5 DEF Max
  <1>7. ASSUME NEW y \in T
        PROVE  y <= Max(T)
    <2>1. Max(T) >= y /\ Max(T) \in 0 .. n /\ y \in 0 .. n
      BY <1>6
    <2> QED BY <2>1
  <1> QED BY <1>6, <1>7

\* One more scan: what the data register and the DMI register hold after it,
\* and that nothing has changed about the scans before it.
LEMMA OneMoreScan ==
  ASSUME NEW scans \in Seq(Requests), NEW v \in Requests
  PROVE  LET more == Append(scans, v)
             n == Len(scans)
         IN  /\ more \in Seq(Requests) /\ Len(more) = n + 1 /\ n \in Nat
             /\ DataAfter(more, n + 1) = NewData(v, DataAfter(scans, n))
             /\ \A i \in 1 .. n : Outcome(more, i) = Outcome(scans, i)
             /\ Outcome(more, n + 1) = NewDmi(v, DataAfter(scans, n))
  <1> DEFINE more == Append(scans, v)
             n == Len(scans)
             Writing(s) == Op(s) = 2 /\ Address(s) = 0
             W(s, i) == {k \in 1 .. i : Writing(s[k])}
  <1>1. /\ more \in Seq(Requests) /\ Len(more) = n + 1 /\ n \in Nat /\ more[n + 1] = v
        /\ \A k \in 1 .. n : more[k] = scans[k]
    OBVIOUS
  <1>2. \A s, i : DataAfter(s, i) = IF W(s, i) = {} THEN 0 ELSE Data(s[Max(W(s, i))])
    BY DEF DataAfter
  <1> HIDE DEF more, n, Writing
  <1>3. ASSUME NEW i \in 0 .. n, NEW j \in i .. i + 1, j = i + 1 => j = n + 1 /\ ~Writing(v)
        PROVE  DataAfter(more, j) = DataAfter(scans, i)
    <2>1. W(more, j) = W(scans, i)
      <3>1. ASSUME NEW k \in 1 .. j
            PROVE  k \in W(more, j) <=> k \in W(scans, i)
        <4>1. CASE k \in 1 .. i
          <5>1. k \in 1 .. n
            BY <1>1, <4>1
          <5> QED BY <5>1, <4>1, <1>1
        <4>2. CASE k \notin 1 .. i
          <5>1. j = i + 1 /\ k = n + 1
            BY <1>1, <1>3, <4>2
          <5>2. ~Writing(more[k])
            BY <1>1, <1>3, <5>1
          <5> QED BY <4>2, <5>2
        <4> QED BY <4>1, <4>2
      <3>2. \A k : k \in W(more, j) => k \in 1 .. j
        OBVIOUS
      <3>3. \A k : k \in W(scans, i) => k \in 1 .. j
        BY <1>1
      <3> HIDE DEF W
      <3> QED BY <3>1, <3>2, <3>3
    <2> DEFINE T == W(scans, i)
    <2>2. ASSUME T # {}
          PROVE  more[Max(T)] = scans[Max(T)]
      <3>1. T \subseteq 0 .. n /\ T \subseteq 1 .. n
        BY <1>1
      <3>2. Max(T) \in T
        <4> HIDE DEF T
        <4> QED BY <1>1, <2>2, <3>1, MaxOf
      <3> HIDE DEF T
      <3> QED BY <1>1, <3>1, <3>2
    <2> HIDE DEF W
    <2> QED BY <1>2, <2>1, <2>2
  <1>4. DataAfter(more, n + 1) = NewData(v, DataAfter(scans, n))
    <2>1. CASE Writing(v)
      <3> DEFINE T == W(more, n + 1)
      <3>1. n + 1 \in T /\ T \subseteq 0 .. n + 1 /\ n + 1 \in Nat /\ T # {}
        BY <1>1, <2>1
      <3>2. Max(T) = n + 1
        <4> HIDE DEF T
        <4>1. Max(T) \in T /\ n + 1 <= Max(T)
          BY <3>1, MaxOf
        <4>2. Max(T) \in 0 .. n + 1
          BY <3>1, <4>1
        <4> HIDE DEF T, W
        <4> QED BY <1>1, <4>1, <4>2
      <3>3. DataAfter(more, n + 1) = Data(v)
        <4>1. DataAfter(more, n + 1) = IF T = {} THEN 0 ELSE Data(more[Max(T)])
          BY <1>2
        <4> HIDE DEF T
        <4> QED BY <1>1, <3>1, <3>2, <4>1
      <3> HIDE DEF T, W
      <3> QED BY <2>1, <3>3 DEF NewData, Writing
    <2>2. CASE ~Writing(v)
      <3>1. DataAfter(more, n + 1) = DataAfter(scans, n)
        <4>1. n \in 0 .. n /\ n + 1 \in n .. n + 1
          BY <1>1
        <4> HIDE DEF W
        <4> QED BY <1>3, <2>2, <4>1
      <3> QED BY <2>2, <3>1 DEF NewData, Writing
    <2> QED BY <2>1, <2>2
  <1>5. ASSUME NEW i \in 1 .. n
        PROVE  Outcome(more, i) = Outcome(scans, i)
    <2>1. DataAfter(more, i) = DataAfter(scans, i)
      <3>1. i \in 0 .. n /\ i \in i .. i + 1 /\ i # i + 1
        BY <1>1
      <3> HIDE DEF W
      <3> QED BY <1>3, <3>1
    <2>2. more[i] = scans[i]
      BY <1>1
    <2> HIDE DEF W
    <2> QED BY <2>1, <2>2 DEF Outcome
  <1>6. Outcome(more, n + 1) = NewDmi(v, DataAfter(scans, n))
    <2>1. more[n + 1] = v /\ Address(v) \in {0, 1}
      BY <1>1, RequestValues
    <2>2. Op(v) = 1 => DataAfter(more, n + 1) = DataAfter(scans, n)
      BY <1>4 DEF NewData
    <2> HIDE DEF W
    <2> QED BY <2>1, <2>2 DEF Outcome, NewDmi
  <1> QED BY <1>1, <1>4, <1>5, <1>6 DEF more, n

----------------------------------------------------------------------------
(* What is left of a trail, and what does not matter to it. *)

\* The port with nothing given back.
Blank(s) == St(s.tap, s.data, s.performed, <<>>)

\* Only R gives something back, and nothing else depends on what came back.
LEMMA RunOut ==
  ASSUME NEW s, NEW c
  PROVE  /\ c # "R" => Run(s, c).out = s.out /\ Run(Blank(s), c) = Blank(Run(s, c))
         /\ c = "R" => Run(s, c).out = Append(s.out, s.tap.tdo)
         /\ Legal(Blank(s), c) <=> Legal(s, c)
  <1> DEFINE a == Blank(s)
             z == Run(s, c)
  <1>1. a.tap = s.tap /\ a.data = s.data /\ a.performed = s.performed /\ a.out = <<>>
    BY DEF Blank, St
  <1>2. \A t, x, p, o : Blank(St(t, x, p, o)) = St(t, x, p, <<>>) /\ St(t, x, p, o).out = o
    BY DEF Blank, St
  <1> HIDE DEF a
  <1>3. CASE c \in DOMAIN Pins /\ Updates(s.tap, Pins[c])
    <2> DEFINE t == Latched(Scanned(PosEdge(s.tap), s.data), Pins[c])
               x == IF Op(s.tap.dr) = 2 /\ Address(s.tap.dr) = 0 THEN Data(s.tap.dr) ELSE s.data
               p == Append(s.performed, s.tap.dr)
    <2>1. c # "R"
      BY <1>3 DEF Pins
    <2>2. z = St(t, x, p, s.out)
      BY <1>3 DEF Run
    <2>3. Run(a, c) = St(t, x, p, a.out)
      BY <1>1, <1>3 DEF Run
    <2>4. Legal(a, c) <=> Legal(s, c)
      BY <1>1 DEF Legal
    <2> HIDE DEF t, x, p, z
    <2> QED BY <1>1, <1>2, <2>1, <2>2, <2>3, <2>4 DEF a, z
  <1>4. CASE c \in DOMAIN Pins /\ ~Updates(s.tap, Pins[c])
    <2> DEFINE t == Latched(Clocked(s.tap, Pins[c]), Pins[c])
    <2>1. c # "R"
      BY <1>4 DEF Pins
    <2>2. z = St(t, s.data, s.performed, s.out)
      BY <1>4 DEF Run
    <2>3. Run(a, c) = St(t, s.data, s.performed, a.out)
      BY <1>1, <1>4 DEF Run
    <2>4. Legal(a, c) <=> Legal(s, c)
      BY <1>1 DEF Legal
    <2> HIDE DEF t, z
    <2> QED BY <1>1, <1>2, <2>1, <2>2, <2>3, <2>4 DEF a, z
  <1>5. CASE c \notin DOMAIN Pins
    <2>1. Legal(a, c) /\ Legal(s, c)
      BY <1>5 DEF Legal
    <2>2. CASE c = "r"
      <3> DEFINE t == [s.tap EXCEPT !.state = "TEST_LOGIC_RESET"]
      <3>1. z = St(t, s.data, s.performed, s.out)
        BY <1>5, <2>2 DEF Run
      <3>2. Run(a, c) = St(t, s.data, s.performed, a.out)
        BY <1>1, <1>5, <2>2 DEF Run
      <3> HIDE DEF t, z
      <3> QED BY <1>1, <1>2, <2>1, <2>2, <3>1, <3>2 DEF a, z
    <2>3. CASE c = "R"
      <3>1. z = St(s.tap, s.data, s.performed, Append(s.out, s.tap.tdo))
        BY <1>5, <2>3 DEF Run
      <3> HIDE DEF z
      <3>2. z.out = Append(s.out, s.tap.tdo)
        BY <3>1 DEF St
      <3> QED BY <2>1, <2>3, <3>2 DEF a, z
    <2>4. CASE c \notin {"r", "R"}
      <3>1. z = s /\ Run(a, c) = a
        BY <1>5, <2>4 DEF Run
      <3> HIDE DEF z
      <3> QED BY <2>1, <2>4, <3>1 DEF a, z
    <2> QED BY <2>2, <2>3, <2>4
  <1> QED BY <1>3, <1>4, <1>5

\* A trail without its first step.
LEMMA TrailTail ==
  ASSUME NEW C, NEW x \in Seq(C), x # <<>>, NEW tr, Trail(tr, x)
  PROVE  LET us == [k \in 0 .. Len(x) - 1 |-> tr[k + 1]]
         IN  /\ Trail(us, Tail(x)) /\ Len(Tail(x)) = Len(x) - 1 /\ Tail(x) \in Seq(C)
             /\ Legal(tr[0], Head(x)) /\ tr[1] = Run(tr[0], Head(x))
             /\ tr[0].out \in Seq({0, 1}) /\ tr[1].out \in Seq({0, 1})
  <1> DEFINE n == Len(x)
             y == Tail(x)
             us == [k \in 0 .. n - 1 |-> tr[k + 1]]
  <1>1. n \in Nat \ {0} /\ Len(y) = n - 1 /\ (\A k \in 1 .. n - 1 : y[k] = x[k + 1]) /\ Head(x) = x[1] /\ y \in Seq(C)
    OBVIOUS
  <1>2. \A k \in 0 .. n - 1 : us[k] = tr[k + 1]
    OBVIOUS
  <1>3. /\ \A k \in 1 .. n : Legal(tr[k - 1], x[k]) /\ tr[k] = Run(tr[k - 1], x[k])
        /\ \A k \in 0 .. n : tr[k].out \in Seq({0, 1})
        /\ \A i, j \in 0 .. n : i <= j => Len(tr[i].out) <= Len(tr[j].out)
    BY DEF Trail
  <1> HIDE DEF n, y, us
  <1>4. ASSUME NEW k \in 1 .. n - 1
        PROVE  Legal(us[k - 1], y[k]) /\ us[k] = Run(us[k - 1], y[k])
    <2>1. k - 1 \in 0 .. n - 1 /\ k \in 0 .. n - 1 /\ k + 1 \in 1 .. n /\ (k - 1) + 1 = k /\ (k + 1) - 1 = k
      BY <1>1
    <2>2. us[k - 1] = tr[k] /\ us[k] = tr[k + 1] /\ y[k] = x[k + 1]
      BY <1>1, <1>2, <2>1
    <2>3. Legal(tr[(k + 1) - 1], x[k + 1]) /\ tr[k + 1] = Run(tr[(k + 1) - 1], x[k + 1])
      BY <1>3, <2>1
    <2> QED BY <2>1, <2>2, <2>3
  <1>5. ASSUME NEW k \in 0 .. n - 1
        PROVE  us[k].out \in Seq({0, 1})
    <2>1. k + 1 \in 0 .. n
      BY <1>1
    <2> QED BY <1>2, <1>3, <2>1
  <1>6. ASSUME NEW i \in 0 .. n - 1, NEW j \in 0 .. n - 1, i <= j
        PROVE  Len(us[i].out) <= Len(us[j].out)
    <2>1. i + 1 \in 0 .. n /\ j + 1 \in 0 .. n /\ i + 1 <= j + 1 /\ us[i] = tr[i + 1] /\ us[j] = tr[j + 1]
      BY <1>1, <1>2, <1>6
    <2>2. Len(tr[i + 1].out) <= Len(tr[j + 1].out)
      BY <1>3, <2>1
    <2> QED BY <2>1, <2>2
  <1>7. Trail(us, y)
    BY <1>1, <1>4, <1>5, <1>6 DEF Trail
  <1>8. Legal(tr[0], x[1]) /\ tr[1] = Run(tr[0], x[1]) /\ tr[0].out \in Seq({0, 1}) /\ tr[1].out \in Seq({0, 1})
    <2>1. 1 \in 1 .. n /\ 1 - 1 = 0 /\ 0 \in 0 .. n /\ 1 \in 0 .. n
      BY <1>1
    <2> QED BY <1>3, <2>1
  <1> QED BY <1>1, <1>7, <1>8 DEF n, y, us

\* A trail on which nothing is given back.
LEMMA TrailBlank ==
  ASSUME NEW C, NEW x \in Seq(C), NEW tr, Trail(tr, x), Len(tr[0].out) = Len(tr[Len(x)].out)
  PROVE  LET us == [k \in 0 .. Len(x) |-> Blank(tr[k])]
         IN  /\ \A k \in 0 .. Len(x) : tr[k].out = tr[0].out
             /\ Trail(us, x)
  <1> DEFINE n == Len(x)
             us == [k \in 0 .. n |-> Blank(tr[k])]
             L(k) == Len(tr[k].out)
             T == {k \in 0 .. n : tr[k].out = tr[0].out}
  <1>1. n \in Nat
    OBVIOUS
  <1>2. /\ \A k \in 1 .. n : Legal(tr[k - 1], x[k]) /\ tr[k] = Run(tr[k - 1], x[k])
        /\ \A k \in 0 .. n : tr[k].out \in Seq({0, 1})
        /\ \A i, j \in 0 .. n : i <= j => L(i) <= L(j)
        /\ L(0) = L(n)
    BY DEF Trail
  <1>3. ASSUME NEW k \in 0 .. n
        PROVE  L(k) \in Nat /\ L(k) = L(0)
    <2>1. \A i \in 0 .. n : L(i) \in Nat
      BY <1>2
    <2>2. 0 \in 0 .. n /\ n \in 0 .. n /\ 0 <= k /\ k <= n
      BY <1>1
    <2>3. L(0) <= L(k) /\ L(k) <= L(n) /\ L(0) = L(n) /\ L(0) \in Nat /\ L(k) \in Nat
      BY <1>2, <2>1, <2>2
    <2> HIDE DEF L
    <2> QED BY <2>3
  <1>4. ASSUME NEW k \in 1 .. n
        PROVE  x[k] # "R" /\ tr[k].out = tr[k - 1].out
    <2> DEFINE a == tr[k - 1]
               c == x[k]
    <2>1. k - 1 \in 0 .. n /\ k \in 0 .. n /\ tr[k] = Run(a, c) /\ a.out \in Seq({0, 1})
      BY <1>1, <1>2
    <2>2. Len(tr[k].out) = Len(a.out)
      BY <1>3, <2>1
    <2>3. ASSUME c = "R"
          PROVE  FALSE
      <3>1. tr[k].out = Append(a.out, a.tap.tdo)
        BY <2>1, <2>3, RunOut
      <3>2. Len(Append(a.out, a.tap.tdo)) = Len(a.out) + 1 /\ Len(a.out) \in Nat
        BY <2>1
      <3> HIDE DEF a
      <3> QED BY <2>2, <3>1, <3>2
    <2> HIDE DEF a, c
    <2>4. tr[k].out = a.out
      BY <2>1, <2>3, RunOut
    <2> QED BY <2>3, <2>4 DEF a, c
  <1>5. ASSUME NEW j \in 0 .. n
        PROVE  tr[j].out = tr[0].out
    <2>1. 0 \in T
      BY <1>1
    <2>2. ASSUME NEW k \in 0 .. j, k \in T, k + 1 \in 0 .. j
          PROVE  k + 1 \in T
      <3>1. k + 1 \in 1 .. n /\ (k + 1) - 1 = k /\ k + 1 \in 0 .. n
        BY <1>1, <2>2
      <3>2. tr[k + 1].out = tr[(k + 1) - 1].out
        BY <1>4, <3>1
      <3> QED BY <2>2, <3>1, <3>2
    <2>3. j \in Nat
      BY <1>1
    <2>4. j \in T
      <3> HIDE DEF T
      <3> QED BY <2>1, <2>2, <2>3, NatClimb
    <2> QED BY <2>4
  <1>6. \A k \in 0 .. n : us[k] = Blank(tr[k])
    OBVIOUS
  <1>7. \A k \in 0 .. n : us[k].out = <<>>
    BY DEF Blank, St
  <1> HIDE DEF us
  <1>8. ASSUME NEW k \in 1 .. n
        PROVE  Legal(us[k - 1], x[k]) /\ us[k] = Run(us[k - 1], x[k])
    <2>1. k - 1 \in 0 .. n /\ k \in 0 .. n
      BY <1>1
    <2>2. us[k - 1] = Blank(tr[k - 1]) /\ us[k] = Blank(tr[k])
      BY <1>6, <2>1
    <2>3. Legal(tr[k - 1], x[k]) /\ tr[k] = Run(tr[k - 1], x[k]) /\ x[k] # "R"
      BY <1>2, <1>4
    <2> QED BY <2>2, <2>3, RunOut
  <1>9. <<>> \in Seq({0, 1}) /\ Len(<<>>) <= Len(<<>>)
    OBVIOUS
  <1> HIDE DEF n
  <1>10. Trail(us, x)
    <2>1. \A k \in 0 .. n : us[k].out \in Seq({0, 1})
      BY <1>7, <1>9
    <2>2. \A i, j \in 0 .. n : i <= j => Len(us[i].out) <= Len(us[j].out)
      BY <1>7, <1>9
    <2> QED BY <1>8, <2>1, <2>2 DEF Trail, n
  <1> QED BY <1>5, <1>10 DEF us, n

\* vs has the states of tr, then those of us.
Joined(vs, tr, us, x, y) ==
    /\ Trail(vs, x \o y) /\ vs[0] = tr[0] /\ vs[Len(x \o y)] = us[Len(y)]
    /\ \A k \in 0 .. Len(x \o y) : \/ \E i \in 0 .. Len(x) : vs[k] = tr[i]
                                   \/ \E j \in 0 .. Len(y) : vs[k] = us[j]

\* A trail behind another has the states of both.
LEMMA TrailJoin ==
  ASSUME NEW C, NEW x \in Seq(C), NEW y \in Seq(C), NEW tr, NEW us, Trail(tr, x), Trail(us, y),
         tr[Len(x)] = us[0]
  PROVE  \E vs : Joined(vs, tr, us, x, y)
  <1> DEFINE n == Len(x)
             m == Len(y)
             vs == [k \in 0 .. n + m |-> IF k <= n THEN tr[k] ELSE us[k - n]]
  <1>1. Trail(vs, x \o y)
    BY TrailConcat
  <1>2. n \in Nat /\ m \in Nat /\ Len(x \o y) = n + m
    OBVIOUS
  <1>3. vs[0] = tr[0] /\ vs[n + m] = us[m]
    <2>1. 0 \in 0 .. n + m /\ n + m \in 0 .. n + m /\ 0 <= n /\ (n + m) - n = m
      BY <1>2
    <2>2. CASE m = 0
      BY <2>1, <2>2, <1>2
    <2>3. CASE m # 0
      BY <2>1, <2>3, <1>2
    <2> QED BY <2>2, <2>3
  <1>4. ASSUME NEW k \in 0 .. n + m
        PROVE  (\E i \in 0 .. n : vs[k] = tr[i]) \/ (\E j \in 0 .. m : vs[k] = us[j])
    <2>1. CASE k <= n
      BY <2>1, <1>2
    <2>2. CASE n < k
      <3>1. k - n \in 0 .. m /\ vs[k] = us[k - n]
        BY <2>2, <1>2
      <3> HIDE DEF vs
      <3> QED BY <3>1
    <2> QED BY <2>1, <2>2, <1>2
  <1> HIDE DEF vs
  <1> QED BY <1>1, <1>2, <1>3, <1>4 DEF Joined

\* The DMI register after the last scan, and what came back during it.
EndDmi(scans) == IF scans = <<>> THEN 0 ELSE Outcome(scans, Len(scans))
LastAnswer(scans) == IF Len(scans) = 1 THEN 0 ELSE Outcome(scans, Len(scans) - 1)

\* z is the port when every scan has been performed and the client has its bits.
Settles(z, scans, awaits) ==
    /\ \E k, m, b, o, s, ir, dr, n :
          /\ z.tap = Tp(k, m, b, o, s, ir, dr, n, EndDmi(scans))
          /\ s \in {"TEST_LOGIC_RESET", "RUN_TEST_IDLE"} /\ ir \in {1, 3}
          /\ awaits # 0 => s = "RUN_TEST_IDLE" /\ ir = 3
    /\ z = St(z.tap, z.data, z.performed, z.out)
    /\ z.data = DataAfter(scans, Len(scans)) /\ z.performed = scans
    /\ Len(z.out) = awaits
    /\ awaits = 5 => scans # <<>> /\ Read(z.out) = LastAnswer(scans)

\* s has performed all but the last two of the scans, or all but the last once
\* the client has its bits.
Recent(s, scans, awaits) ==
    \E n \in 0 .. Len(scans) :
        /\ s.performed = SubSeq(scans, 1, n) /\ n + 2 >= Len(scans)
        /\ Len(s.out) = awaits => n + 1 >= Len(scans)

\* From a, the characters x lead there.
OnTheWay(a, x, scans, awaits) ==
    \E tr : /\ Trail(tr, x) /\ tr[0] = a
            /\ Settles(tr[Len(x)], scans, awaits)
            /\ \A k \in 0 .. Len(x) : Recent(tr[k], scans, awaits)

\* The server takes the next character.
LEMMA NextCharacter ==
  ASSUME NEW a, NEW x \in Seq(Chars), x # <<>>, NEW scans, NEW awaits, OnTheWay(a, x, scans, awaits)
  PROVE  /\ Legal(a, Head(x)) /\ OnTheWay(Run(a, Head(x)), Tail(x), scans, awaits)
         /\ a.out \in Seq({0, 1}) /\ Run(a, Head(x)).out \in Seq({0, 1})
  <1>1. PICK tr : /\ Trail(tr, x) /\ tr[0] = a /\ Settles(tr[Len(x)], scans, awaits)
                  /\ \A k \in 0 .. Len(x) : Recent(tr[k], scans, awaits)
    BY DEF OnTheWay
  <1> DEFINE n == Len(x)
             us == [k \in 0 .. n - 1 |-> tr[k + 1]]
  <1>2. /\ Trail(us, Tail(x)) /\ Len(Tail(x)) = n - 1 /\ n \in Nat \ {0}
        /\ Legal(tr[0], Head(x)) /\ tr[1] = Run(tr[0], Head(x))
        /\ tr[0].out \in Seq({0, 1}) /\ tr[1].out \in Seq({0, 1})
    <2>1. n \in Nat \ {0}
      OBVIOUS
    <2> QED BY <1>1, <2>1, TrailTail
  <1>3. \A k \in 0 .. n - 1 : us[k] = tr[k + 1]
    OBVIOUS
  <1> HIDE DEF us
  <1>4. us[0] = tr[1] /\ us[n - 1] = tr[n]
    BY <1>2, <1>3
  <1>5. \A k \in 0 .. n - 1 : Recent(us[k], scans, awaits)
    <2>1. \A k \in 0 .. n - 1 : k + 1 \in 0 .. n
      BY <1>2
    <2> QED BY <1>1, <1>3, <2>1
  <1>6. OnTheWay(us[0], Tail(x), scans, awaits)
    BY <1>1, <1>2, <1>4, <1>5 DEF OnTheWay
  <1> QED BY <1>1, <1>2, <1>4, <1>6

\* Nothing is left to take.
LEMMA NoCharacter ==
  ASSUME NEW a, NEW scans, NEW awaits, OnTheWay(a, <<>>, scans, awaits)
  PROVE  Settles(a, scans, awaits)
  BY DEF OnTheWay

\* The client's Q is nothing to the TAP.
LEMMA Goodbye ==
  ASSUME NEW a, NEW x \in Seq(Chars), NEW scans, NEW awaits, OnTheWay(a, x, scans, awaits)
  PROVE  OnTheWay(a, x \o <<"Q">>, scans, awaits)
  <1>1. PICK tr : /\ Trail(tr, x) /\ tr[0] = a /\ Settles(tr[Len(x)], scans, awaits)
                  /\ \A k \in 0 .. Len(x) : Recent(tr[k], scans, awaits)
    BY DEF OnTheWay
  <1> DEFINE n == Len(x)
             z == tr[n]
             y == <<"Q">>
  <1>2. n \in Nat /\ n \in 0 .. n
    OBVIOUS
  <1>3. z = St(z.tap, z.data, z.performed, z.out) /\ z.out \in Seq({0, 1})
    BY <1>1, <1>2 DEF Settles, Trail
  <1>4. Goes(z, y, z, z.performed)
    <2> DEFINE t == z.tap
               w == z.data
               p == z.performed
               o == z.out
    <2>1. Goes(St(t, w, p, o), y, St(t, w, p, o), p)
      <3>1. o \in Seq({0, 1})
        BY <1>3
      <3> HIDE DEF t, w, p, o
      <3> QED BY <3>1, OtherCharacter
    <2> HIDE DEF z
    <2> QED BY <1>3, <2>1
  <1>5. PICK us : Trail(us, y) /\ us[0] = z /\ us[Len(y)] = z
    BY <1>4 DEF Goes, Leads
  <1>6. y \in Seq(Chars) /\ Len(y) = 1
    BY DEF Chars
  <1>7. us[1] = z /\ \A j \in 0 .. 1 : us[j] = z
    <2>1. \A j \in 0 .. 1 : j = 0 \/ j = 1
      OBVIOUS
    <2> HIDE DEF z, y
    <2> QED BY <1>5, <1>6, <2>1
  <1> HIDE DEF y
  <1>8. PICK vs : Joined(vs, tr, us, x, y)
    <2>1. x \in Seq(Chars) /\ y \in Seq(Chars) /\ Trail(tr, x) /\ Trail(us, y) /\ tr[Len(x)] = us[0]
      BY <1>1, <1>5, <1>6
    <2> QED BY <2>1, TrailJoin
  <1>9. \A k \in 0 .. Len(x \o y) : Recent(vs[k], scans, awaits)
    BY <1>1, <1>2, <1>6, <1>7, <1>8 DEF Joined
  <1>10. Settles(vs[Len(x \o y)], scans, awaits)
    BY <1>1, <1>6, <1>7, <1>8 DEF Joined
  <1> QED BY <1>1, <1>8, <1>9, <1>10 DEF OnTheWay, Joined, y

\* A new client begins where the last one left.
LEMMA NewClient ==
  ASSUME NEW a, NEW scans \in Seq(Requests), NEW awaits, Settles(a, scans, awaits), NEW y \in Open
  PROVE  y \in Seq(Chars) /\ OnTheWay(Blank(a), y, scans, 2)
  <1> DEFINE d == EndDmi(scans)
             x == a.data
             p == a.performed
  <1>1. PICK k, m, b, o, s, ir, dr, n :
          /\ a.tap = Tp(k, m, b, o, s, ir, dr, n, d)
          /\ s \in {"TEST_LOGIC_RESET", "RUN_TEST_IDLE"} /\ ir \in {1, 3}
    <2>1. \E k1, m1, b1, o1, s1, ir1, dr1, n1 :
             /\ a.tap = Tp(k1, m1, b1, o1, s1, ir1, dr1, n1, d)
             /\ s1 \in {"TEST_LOGIC_RESET", "RUN_TEST_IDLE"} /\ ir1 \in {1, 3}
             /\ awaits # 0 => s1 = "RUN_TEST_IDLE" /\ ir1 = 3
      BY DEF Settles
    <2> HIDE DEF d
    <2> QED BY <2>1, Zenon
  <1>2. x = DataAfter(scans, Len(scans)) /\ p = scans
    BY DEF Settles
  <1> HIDE DEF d, x, p
  <1>3. Opened(y, St(Tp(k, m, b, o, s, ir, dr, n, d), x, p, <<>>), dr, n, d, x, p)
    BY <1>1, Opens
  <1>4. Blank(a) = St(Tp(k, m, b, o, s, ir, dr, n, d), x, p, <<>>)
    BY <1>1 DEF Blank, x, p
  <1>5. PICK e, out : /\ out \in Seq({0, 1}) /\ Len(out) = 2
                      /\ Goes(Blank(a), y, St(Tp(1, 0, 0, e, "RUN_TEST_IDLE", 3, dr, n, d), x, p, out), p)
    BY <1>3, <1>4 DEF Opened
  <1> DEFINE t == Tp(1, 0, 0, e, "RUN_TEST_IDLE", 3, dr, n, d)
             z == St(t, x, p, out)
  <1>6. y \in Seq(Chars) /\ Leads(Blank(a), y, z, {p})
    BY <1>5 DEF Goes
  <1>7. z.tap = t /\ z.data = x /\ z.performed = p /\ z.out = out /\ z = St(z.tap, z.data, z.performed, z.out)
    BY DEF St
  <1>8. \E k2, m2, b2, o2, s2, ir2, dr2, n2 :
          /\ t = Tp(k2, m2, b2, o2, s2, ir2, dr2, n2, EndDmi(scans))
          /\ s2 \in {"TEST_LOGIC_RESET", "RUN_TEST_IDLE"} /\ ir2 \in {1, 3}
          /\ 2 # 0 => s2 = "RUN_TEST_IDLE" /\ ir2 = 3
    <2>1. t = Tp(1, 0, 0, e, "RUN_TEST_IDLE", 3, dr, n, EndDmi(scans))
      BY DEF d
    <2> HIDE DEF t
    <2>2. "RUN_TEST_IDLE" \in {"TEST_LOGIC_RESET", "RUN_TEST_IDLE"} /\ 3 \in {1, 3}
      OBVIOUS
    <2> QED BY <2>1, <2>2, Zenon
  <1> HIDE DEF z, t
  <1>9. Settles(z, scans, 2)
    BY <1>2, <1>5, <1>7, <1>8 DEF Settles
  <1>10. PICK tr : Trail(tr, y) /\ tr[0] = Blank(a) /\ tr[Len(y)] = z /\ \A i \in 0 .. Len(y) : tr[i].performed \in {p}
    BY <1>6 DEF Leads
  <1>11. ASSUME NEW i \in 0 .. Len(y)
         PROVE  Recent(tr[i], scans, 2)
    <2>1. Len(scans) \in 0 .. Len(scans) /\ SubSeq(scans, 1, Len(scans)) = scans /\ Len(scans) \in Nat
      OBVIOUS
    <2>2. tr[i].performed = SubSeq(scans, 1, Len(scans))
      BY <1>2, <1>10, <2>1
    <2>3. Len(scans) + 2 >= Len(scans) /\ Len(scans) + 1 >= Len(scans)
      BY <2>1
    <2> QED BY <2>1, <2>2, <2>3 DEF Recent
  <1> QED BY <1>6, <1>9, <1>10, <1>11 DEF OnTheWay

\* The next scan goes behind what is left of the one before.
LEMMA NewScan ==
  ASSUME NEW a, NEW x \in Seq(Chars), NEW scans \in Seq(Requests), NEW awaits \in {2, 5}, OnTheWay(a, x, scans, awaits),
         Len(a.out) = awaits, DataAfter(scans, Len(scans)) \in 0 .. 3, EndDmi(scans) \in 0 .. 31,
         NEW v \in Requests, NEW pause \in {0, 3}
  PROVE  LET more == Append(scans, v) IN
         /\ DrScan(v, pause) \in Seq(Chars) /\ OnTheWay(Blank(a), x \o DrScan(v, pause), more, 5)
         /\ DataAfter(more, Len(more)) \in 0 .. 3 /\ EndDmi(more) \in 0 .. 31
         /\ awaits = 5 => scans # <<>> /\ Read(a.out) = LastAnswer(scans)
  <1> DEFINE more == Append(scans, v)
             L == Len(scans)
             d == EndDmi(scans)
             w == DataAfter(scans, L)
             y == DrScan(v, pause)
             n == Len(x)
  <1>1. PICK tr : /\ Trail(tr, x) /\ tr[0] = a /\ Settles(tr[n], scans, awaits)
                  /\ \A k \in 0 .. n : Recent(tr[k], scans, awaits)
    BY DEF OnTheWay
  <1> DEFINE z == tr[n]
             us == [k \in 0 .. n |-> Blank(tr[k])]
  <1>2. n \in Nat /\ 0 \in 0 .. n /\ n \in 0 .. n /\ L \in Nat
    OBVIOUS
  <1>3. (\A k \in 0 .. n : tr[k].out = a.out) /\ Trail(us, x)
    <2>1. Len(tr[0].out) = Len(tr[Len(x)].out)
      BY <1>1 DEF Settles
    <2>2. (\A k \in 0 .. Len(x) : tr[k].out = tr[0].out) /\ Trail(us, x)
      BY <1>1, <2>1, TrailBlank
    <2> QED BY <1>1, <2>2
  <1>4. \A k \in 0 .. n : us[k] = Blank(tr[k])
    OBVIOUS
  <1> HIDE DEF us
  <1>5. PICK k, m, b, o, dr, len : z.tap = Tp(k, m, b, o, "RUN_TEST_IDLE", 3, dr, len, d)
    <2>1. awaits # 0
      OBVIOUS
    <2>2. \E k1, m1, b1, o1, s1, ir1, dr1, n1 :
             /\ z.tap = Tp(k1, m1, b1, o1, s1, ir1, dr1, n1, d)
             /\ s1 \in {"TEST_LOGIC_RESET", "RUN_TEST_IDLE"} /\ ir1 \in {1, 3}
             /\ awaits # 0 => s1 = "RUN_TEST_IDLE" /\ ir1 = 3
      BY <1>1 DEF Settles
    <2> HIDE DEF z, d
    <2> QED BY <2>1, <2>2, Zenon
  <1>6. z.data = w /\ z.performed = scans /\ (awaits = 5 => scans # <<>> /\ Read(z.out) = LastAnswer(scans))
    BY <1>1 DEF Settles
  <1>7. us[0] = Blank(a) /\ us[n] = St(Tp(k, m, b, o, "RUN_TEST_IDLE", 3, dr, len, d), w, scans, <<>>)
    <2>1. us[n] = Blank(z) /\ us[0] = Blank(a)
      BY <1>1, <1>2, <1>4
    <2> HIDE DEF z, d, w, n
    <2> QED BY <1>5, <1>6, <2>1 DEF Blank
  <1>8. d \in 0 .. 31 /\ w \in 0 .. 3
    OBVIOUS
  <1> HIDE DEF d, w
  <1> DEFINE e == NewDmi(v, w)
             q == NewData(v, w)
             After(h, bits) == St(Tp(1, 0, 0, h, "RUN_TEST_IDLE", 3, v, 5, e), q, more, bits)
  <1>9. PICK h \in {0, 1}, bits \in Seq({0, 1}) :
           /\ Len(bits) = 5 /\ Read(bits) = d /\ y \in Seq(Chars)
           /\ Leads(St(Tp(k, m, b, o, "RUN_TEST_IDLE", 3, dr, len, d), w, scans, <<>>), y, After(h, bits), {scans, more})
    BY <1>8, DmiScan
  <1>10. /\ more \in Seq(Requests) /\ Len(more) = L + 1 /\ DataAfter(more, L + 1) = q
         /\ (\A i \in 1 .. L : Outcome(more, i) = Outcome(scans, i)) /\ Outcome(more, L + 1) = e
    BY OneMoreScan DEF w
  <1>11. e \in 0 .. 31 /\ q \in 0 .. 3
    BY <1>8, RequestValues
  <1>12. EndDmi(more) = e /\ DataAfter(more, Len(more)) = q
    <2>1. more # <<>>
      BY <1>2, <1>10
    <2> QED BY <1>10, <2>1 DEF EndDmi
  <1>13. LastAnswer(more) = d
    <2>1. CASE L = 0
      <3>1. scans = <<>>
        BY <2>1
      <3> QED BY <1>10, <2>1, <3>1 DEF LastAnswer, EndDmi, d
    <2>2. CASE L # 0
      <3>1. scans # <<>> /\ L \in 1 .. L /\ Len(more) # 1 /\ Len(more) - 1 = L
        BY <1>2, <1>10, <2>2
      <3>2. Outcome(more, L) = Outcome(scans, L)
        BY <1>10, <3>1
      <3> QED BY <3>1, <3>2 DEF LastAnswer, EndDmi, d
    <2> QED BY <2>1, <2>2
  <1>14. more # <<>>
    BY <1>2, <1>10
  <1> DEFINE t == Tp(1, 0, 0, h, "RUN_TEST_IDLE", 3, v, 5, e)
             f == After(h, bits)
  <1>15. f.tap = t /\ f.data = q /\ f.performed = more /\ f.out = bits /\ f = St(f.tap, f.data, f.performed, f.out)
    BY DEF St
  <1> HIDE DEF e, q, more, y
  <1>16. \E k2, m2, b2, o2, s2, ir2, dr2, n2 :
          /\ t = Tp(k2, m2, b2, o2, s2, ir2, dr2, n2, EndDmi(more))
          /\ s2 \in {"TEST_LOGIC_RESET", "RUN_TEST_IDLE"} /\ ir2 \in {1, 3}
          /\ 5 # 0 => s2 = "RUN_TEST_IDLE" /\ ir2 = 3
    <2>1. t = Tp(1, 0, 0, h, "RUN_TEST_IDLE", 3, v, 5, EndDmi(more))
      BY <1>12
    <2> HIDE DEF t
    <2>2. "RUN_TEST_IDLE" \in {"TEST_LOGIC_RESET", "RUN_TEST_IDLE"} /\ 3 \in {1, 3}
      OBVIOUS
    <2> QED BY <2>1, <2>2, Zenon
  <1>17. Leads(us[n], y, f, {scans, more})
    BY <1>7, <1>9
  <1> HIDE DEF f, t, After
  <1>18. Settles(f, more, 5)
    BY <1>9, <1>12, <1>13, <1>14, <1>15, <1>16 DEF Settles
  <1>19. PICK ws : Trail(ws, y) /\ ws[0] = us[n] /\ ws[Len(y)] = f /\ \A i \in 0 .. Len(y) : ws[i].performed \in {scans, more}
    BY <1>17 DEF Leads
  <1>20. PICK vs : Joined(vs, us, ws, x, y)
    <2>1. x \in Seq(Chars) /\ y \in Seq(Chars) /\ Trail(us, x) /\ Trail(ws, y) /\ us[Len(x)] = ws[0]
      BY <1>3, <1>9, <1>19
    <2> QED BY <2>1, TrailJoin
  <1>21. SubSeq(more, 1, L) = scans /\ SubSeq(more, 1, L + 1) = more /\ L \in 0 .. L + 1 /\ L + 1 \in 0 .. L + 1
    <2>1. SubSeq(more, 1, L) = scans
      BY <1>2 DEF more
    <2>2. SubSeq(more, 1, L + 1) = more
      BY <1>2, <1>10
    <2> QED BY <1>2, <2>1, <2>2
  <1>22. ASSUME NEW i \in 0 .. n
         PROVE  Recent(us[i], more, 5)
    <2>1. PICK r \in 0 .. L : tr[i].performed = SubSeq(scans, 1, r) /\ (Len(tr[i].out) = awaits => r + 1 >= L)
      BY <1>1 DEF Recent
    <2>2. Len(tr[i].out) = awaits
      BY <1>3
    <2>3. us[i].performed = SubSeq(scans, 1, r) /\ us[i].out = <<>>
      <3>1. us[i] = Blank(tr[i])
        BY <1>4
      <3>2. Blank(tr[i]).performed = tr[i].performed /\ Blank(tr[i]).out = <<>>
        BY DEF Blank, St
      <3> QED BY <2>1, <3>1, <3>2
    <2>4. SubSeq(more, 1, r) = SubSeq(scans, 1, r)
      BY <1>2 DEF more
    <2>5. r \in 0 .. L + 1 /\ r + 2 >= L + 1 /\ Len(<<>>) # 5
      BY <1>2, <2>1, <2>2
    <2> QED BY <1>10, <2>3, <2>4, <2>5 DEF Recent
  <1>23. ASSUME NEW i \in 0 .. Len(y)
         PROVE  Recent(ws[i], more, 5)
    <2>1. CASE ws[i].performed = scans
      <3>1. L + 2 >= L + 1 /\ L + 1 >= L + 1
        BY <1>2
      <3> QED BY <1>10, <1>21, <2>1, <3>1 DEF Recent
    <2>2. CASE ws[i].performed = more
      <3>1. (L + 1) + 2 >= L + 1 /\ (L + 1) + 1 >= L + 1
        BY <1>2
      <3> QED BY <1>10, <1>21, <2>2, <3>1 DEF Recent
    <2> QED BY <1>19, <2>1, <2>2
  <1>24. \A i \in 0 .. Len(x \o y) : Recent(vs[i], more, 5)
    BY <1>20, <1>22, <1>23 DEF Joined
  <1>25. OnTheWay(Blank(a), x \o y, more, 5)
    BY <1>7, <1>18, <1>19, <1>20, <1>24 DEF OnTheWay, Joined
  <1>26. awaits = 5 => scans # <<>> /\ Read(a.out) = LastAnswer(scans)
    BY <1>2, <1>3, <1>6
  <1> QED BY <1>9, <1>11, <1>12, <1>25, <1>26 DEF more, y

----------------------------------------------------------------------------
(* The debug module under the JTAG port. *)

\* The module and the harts are as the last debugger left them, but for data0.
Quiescent(d) ==
    /\ DOMAIN d = Fields /\ ~d.busy /\ d.datacount = 2 /\ d.autodata = {} /\ d.halt_request = {}
    /\ 1 \in DOMAIN d.data

\* A request of the client reads or writes the data register, or none.
LEMMA Performed ==
  ASSUME NEW v \in Requests, Quiescent(dm), NEW q, q = DmiRequest(v), NEW r, r = Access(q)
  PROVE  /\ Quiescent(r.d) /\ r.d.data[1] = NewData(v, dm.data[1]) /\ q.reg # "dmcontrol"
         /\ Dbus(Address(v), IF Op(v) = 1 /\ r.ok THEN r.val ELSE Data(v), IF r.ok THEN 0 ELSE 2) = NewDmi(v, dm.data[1])
  <1> DEFINE x == dm.data[1]
             w == Data(v)
  <1>1. Op(v) \in {0, 1, 2} /\ Address(v) \in {0, 1} /\ (Op(v) = 0 => Address(v) = 0)
    BY RequestValues
  <1>2. q.op = Op(v) /\ q.i = 1 /\ q.val = w /\ q.reg = IF Address(v) = 0 THEN "data" ELSE "reserved"
    BY DEF DmiRequest
  <1> HIDE DEF w
  <1>3. CASE Op(v) = 0
    <2>1. r = [d |-> dm, ok |-> TRUE, val |-> 0]
      BY <1>2, <1>3 DEF Access
    <2>2. r.d = dm /\ r.ok = TRUE
      BY <2>1
    <2> QED BY <1>1, <1>2, <1>3, <2>2 DEF NewData, NewDmi
  <1>4. CASE Op(v) = 1 /\ Address(v) = 1
    <2>1. r = dmi_read(dm, "reserved", 1)
      BY <1>2, <1>4 DEF Access
    <2>2. r = [d |-> dm, ok |-> FALSE, val |-> 0]
      BY <2>1 DEF dmi_read
    <2>3. r.d = dm /\ r.ok = FALSE
      BY <2>2
    <2> QED BY <1>1, <1>2, <1>4, <2>3 DEF NewData, NewDmi
  <1>5. CASE Op(v) = 1 /\ Address(v) = 0
    <2> DEFINE e == BusyError(dm)
    <2>1. r = dmi_read(dm, "data", 1)
      BY <1>2, <1>5 DEF Access
    <2>2. r = [d |-> AutoExec(e, 1 \in dm.autodata), val |-> IF dm.busy THEN 0 ELSE dm.data[1], ok |-> TRUE]
      BY <2>1 DEF dmi_read, Quiescent
    <2>3. AutoExec(e, 1 \in dm.autodata) = e
      BY DEF AutoExec, Quiescent
    <2>4. Quiescent(e) /\ e.data = dm.data
      BY DEF BusyError, Quiescent, Fields
    <2> HIDE DEF e
    <2>5. r.d = e /\ r.ok = TRUE /\ r.val = x
      BY <2>2, <2>3 DEF Quiescent
    <2> QED BY <1>1, <1>2, <1>5, <2>4, <2>5 DEF NewData, NewDmi
  <1>6. CASE Op(v) = 2 /\ Address(v) = 1
    <2>1. r = dmi_write(dm, "reserved", 1, w)
      BY <1>2, <1>6 DEF Access
    <2>2. r = [d |-> dm, ok |-> FALSE]
      BY <2>1 DEF dmi_write
    <2>3. r.d = dm /\ r.ok = FALSE
      BY <2>2
    <2> QED BY <1>1, <1>2, <1>6, <2>3 DEF NewData, NewDmi
  <1>7. CASE Op(v) = 2 /\ Address(v) = 0
    <2> DEFINE f == [dm EXCEPT !.data[1] = w]
               e == BusyError(f)
    <2>1. r = dmi_write(dm, "data", 1, w)
      BY <1>2, <1>7 DEF Access
    <2>2. r = [d |-> AutoExec(BusyError(IF dm.busy THEN dm ELSE f), 1 \in dm.autodata), ok |-> TRUE]
      BY <2>1 DEF dmi_write, Quiescent
    <2>3. Quiescent(f) /\ f.data[1] = w
      BY DEF Quiescent, Fields
    <2> HIDE DEF f
    <2>4. Quiescent(e) /\ e.data = f.data
      BY <2>3 DEF BusyError, Quiescent, Fields
    <2> HIDE DEF e
    <2>5. r.d = e /\ r.ok = TRUE
      BY <2>2 DEF e, AutoExec, Quiescent
    <2> QED BY <1>1, <1>2, <1>7, <2>3, <2>4, <2>5 DEF NewData, NewDmi, w
  <1> QED BY <1>1, <1>3, <1>4, <1>5, <1>6, <1>7

\* The harts run their programs.
LEMMA HartsRun ==
  ASSUME Quiescent(dm), NEW h, hart[h].pc = "run", HartStep(h)
  PROVE  FALSE
  <1>1. h \notin dm.halt_request
    BY DEF Quiescent
  <1> QED BY <1>1 DEF HartStep, EnterDebug, SignalHalted, TestGo, TestResume, Going, Exception, Resuming, Dret

----------------------------------------------------------------------------
(* The port as a whole. *)

\* The first of two strings of characters is not yet used up.
LEMMA Onward ==
  ASSUME NEW C, NEW x \in Seq(C), NEW y \in Seq(C), x # <<>>
  PROVE  /\ x \o y \in Seq(C) /\ x \o y # <<>> /\ Head(x \o y) = Head(x) /\ Tail(x \o y) = Tail(x) \o y
         /\ Head(x) \in C /\ Tail(x) \in Seq(C)
  <1> DEFINE z == x \o y
             w == Tail(x) \o y
  <1>1. z \in Seq(C) /\ Len(z) = Len(x) + Len(y) /\ Len(x) \in Nat /\ Len(y) \in Nat
        /\ \A i \in 1 .. Len(x) + Len(y) : z[i] = IF i <= Len(x) THEN x[i] ELSE y[i - Len(x)]
    BY ConcatProperties, LenProperties
  <1>2. Head(x) \in C /\ Tail(x) \in Seq(C) /\ Len(Tail(x)) = Len(x) - 1 /\ Head(x) = x[1]
        /\ \A i \in 1 .. Len(Tail(x)) : Tail(x)[i] = x[i + 1]
    BY HeadTailProperties
  <1>3. Len(x) >= 1
    BY <1>1, EmptySeq
  <1>4. w \in Seq(C) /\ Len(w) = Len(Tail(x)) + Len(y)
        /\ \A i \in 1 .. Len(Tail(x)) + Len(y) : w[i] = IF i <= Len(Tail(x)) THEN Tail(x)[i] ELSE y[i - Len(Tail(x))]
    BY <1>2, ConcatProperties
  <1> HIDE DEF z, w
  <1>5. z # <<>>
    BY <1>1, <1>3
  <1>6. Tail(z) \in Seq(C) /\ Len(Tail(z)) = Len(z) - 1 /\ Head(z) = z[1]
        /\ \A i \in 1 .. Len(Tail(z)) : Tail(z)[i] = z[i + 1]
    BY <1>1, <1>5, HeadTailProperties
  <1>7. Head(z) = Head(x)
    BY <1>1, <1>2, <1>3, <1>6
  <1>8. ASSUME NEW i \in 1 .. Len(Tail(z))
        PROVE  Tail(z)[i] = w[i]
    <2>1. Tail(z)[i] = z[i + 1] /\ i + 1 \in 1 .. Len(x) + Len(y) /\ i \in 1 .. Len(Tail(x)) + Len(y)
      BY <1>1, <1>2, <1>6
    <2>2. CASE i <= Len(Tail(x))
      BY <2>1, <2>2, <1>1, <1>2, <1>4
    <2>3. CASE i > Len(Tail(x))
      BY <2>1, <2>3, <1>1, <1>2, <1>4
    <2> QED BY <2>2, <2>3, <1>1, <1>2
  <1>9. Tail(z) = w
    <2>1. Len(Tail(z)) = Len(w)
      BY <1>1, <1>2, <1>4, <1>6
    <2> QED BY <2>1, <1>4, <1>6, <1>8, SeqEqual
  <1> QED BY <1>1, <1>2, <1>5, <1>7, <1>9 DEF z, w

RbFields == {"client_fd", "recv", "send", "busy", "total", "quit", "in_rti"}
ClientFields == {"connected", "awaits", "scans", "performed", "results"}

\* The port, and the characters that are on their way to it.
Now == St(tap, dm.data[1], client.performed, down \o rb.send)
Left == rb.recv \o up

PortModule == Quiescent(dm) /\ \A h \in Harts : hart[h].pc = "run"

\* A server without a client has nothing of one, and keeps no bits for later
\* once it has run out of characters.
ServerHolds ==
    /\ DOMAIN rb = RbFields /\ rb.recv \in Seq(Chars) /\ rb.send \in Outs
    /\ rb.client_fd \/ (rb.recv = <<>> /\ ~rb.busy)
    /\ rb.recv = <<>> => rb.send = <<>>
    /\ up \in Seq(Chars) /\ down \in Outs
ClientHolds ==
    /\ DOMAIN client = ClientFields /\ client.awaits \in {0, 2, 5} /\ (client.connected => client.awaits # 0)
    /\ client.scans \in Seq(Requests)
    /\ DataAfter(client.scans, Len(client.scans)) \in 0 .. 3 /\ EndDmi(client.scans) \in 0 .. 31

\* What the client has read of the outcomes: all but that of its last scan.
ResultsHold ==
    /\ client.results \in Seq(Int)
    /\ Len(client.results) = IF client.connected /\ client.awaits = 5 THEN Len(client.scans) - 1 ELSE Len(client.scans)
    /\ \A n \in 1 .. Len(client.results) :
          client.results[n] = IF n = 1 THEN 0 ELSE Outcome(client.scans, n - 1)

\* The characters that are left finish the scans.
Finishes == OnTheWay(Now, Left, client.scans, client.awaits)
PortInv == PortModule /\ ServerHolds /\ ClientHolds /\ ResultsHold /\ Finishes

\* The client but for the scans that the port has performed.
SameClient ==
    /\ DOMAIN client' = ClientFields /\ client'.connected = client.connected /\ client'.awaits = client.awaits
    /\ client'.scans = client.scans /\ client'.results = client.results

\* What the pins do.
LEMMA PinsGo ==
  ASSUME PortModule, NEW p, set_pins(p), NEW a, a = Now, NEW c, c \in DOMAIN Pins, Pins[c] = p, Legal(a, c),
         DOMAIN client = ClientFields
  PROVE  /\ tap' = Run(a, c).tap /\ dm'.data[1] = Run(a, c).data /\ client'.performed = Run(a, c).performed
         /\ Run(a, c).out = a.out
         /\ SameClient
         /\ Quiescent(dm') /\ hart' = hart
  <1>1. a.tap = tap /\ a.data = dm.data[1] /\ a.performed = client.performed
    BY DEF Now, St
  <1>2. CASE Updates(tap, p)
    <2> DEFINE v == tap.dr
               q == DmiRequest(v)
               r == Access(q)
               t == PosEdge(tap)
    <2>1. v \in Requests /\ t.dr = v
      BY <1>1, <1>2 DEF Legal
    <2>2. Dmi(q, r) /\ tap' = Latched(Updated(t, r), p) /\ client' = [client EXCEPT !.performed = Append(@, v)]
      BY <1>2 DEF set_pins
    <2>3. /\ Quiescent(r.d) /\ r.d.data[1] = NewData(v, dm.data[1]) /\ q.reg # "dmcontrol"
          /\ Dbus(Address(v), IF Op(v) = 1 /\ r.ok THEN r.val ELSE Data(v), IF r.ok THEN 0 ELSE 2) = NewDmi(v, dm.data[1])
      <3> HIDE DEF v, q, r
      <3>1. q = DmiRequest(v) /\ r = Access(q)
        BY DEF q, r
      <3> QED BY <2>1, <3>1, Performed DEF PortModule
    <2>4. Run(a, c) = St(Latched(Scanned(t, a.data), p), NewData(v, a.data), Append(a.performed, v), a.out)
      BY <1>1, <1>2, RunUpdates
    <2> HIDE DEF t, q, r, v
    <2>5. dm' = r.d /\ hart' = hart
      BY <2>2, <2>3 DEF Dmi
    <2>6. Updated(t, r) = Scanned(t, a.data)
      BY <2>1, <2>3, <1>1 DEF Updated, Scanned, NewDmi
    <2>7. /\ Run(a, c).tap = Latched(Scanned(t, a.data), p) /\ Run(a, c).data = NewData(v, a.data)
          /\ Run(a, c).performed = Append(a.performed, v) /\ Run(a, c).out = a.out
      BY <2>4 DEF St
    <2>8. client'.performed = Append(client.performed, v)
      BY <2>2 DEF ClientFields
    <2>9. SameClient
      BY <2>2 DEF SameClient, ClientFields
    <2> QED BY <2>2, <2>3, <2>5, <2>6, <2>7, <2>8, <2>9, <1>1
  <1>3. CASE ~Updates(tap, p)
    <2>1. tap' = Latched(Clocked(tap, p), p) /\ UNCHANGED <<client, dmVars>>
      BY <1>3 DEF set_pins
    <2>2. Run(a, c) = St(Latched(Clocked(tap, p), p), a.data, a.performed, a.out)
      BY <1>1, <1>3, RunMoves
    <2>3. /\ Run(a, c).tap = Latched(Clocked(tap, p), p) /\ Run(a, c).data = a.data
          /\ Run(a, c).performed = a.performed /\ Run(a, c).out = a.out
      BY <2>2 DEF St
    <2>4. SameClient
      BY <2>1 DEF SameClient
    <2> QED BY <2>1, <2>3, <2>4, <1>1 DEF dmVars, PortModule
  <1> QED BY <1>2, <1>3

\* Only the server's bookkeeping, the characters and the bits have changed hands.
LEMMA TurnHolds ==
  ASSUME PortInv, Turn
  PROVE  PortInv'
  <1> DEFINE c == Head(rb.recv)
             rest == Tail(rb.recv)
             a == Now
             b == Run(a, c)
             entered == ~rb.in_rti /\ tap'.state = "RUN_TEST_IDLE"
             send == rb.send \o Answer(c)
             flush == entered \/ rest = <<>>
  <1>1. rb.busy /\ rb.recv # <<>> /\ Character(c, rest)
    BY DEF Turn
  <1>2. /\ Left \in Seq(Chars) /\ Left # <<>> /\ Head(Left) = c /\ Tail(Left) = rest \o up
        /\ c \in Chars /\ rest \in Seq(Chars)
    BY <1>1, Onward DEF PortInv, ServerHolds, Left
  <1>3. Legal(a, c) /\ OnTheWay(b, rest \o up, client.scans, client.awaits) /\ a.out \in Outs /\ b.out \in Outs
    BY <1>2, NextCharacter DEF PortInv, Finishes, Outs
  <1>4. a.tap = tap /\ a.data = dm.data[1] /\ a.performed = client.performed /\ a.out = down \o rb.send
    BY DEF Now, St
  <1>5. /\ CASE c \in DOMAIN Pins -> set_pins(Pins[c])
             [] c = "r" -> tap' = [tap EXCEPT !.state = "TEST_LOGIC_RESET"] /\ UNCHANGED <<client, dmVars>>
             [] OTHER -> UNCHANGED <<tap, client, dmVars>>
        /\ EndOfTurn(c, rest, entered) /\ up' = up
    BY <1>1 DEF Character
  <1> HIDE DEF a, b, c, rest
  <1>6. DOMAIN Pins = {"0", "1", "2", "3", "4", "5", "6", "7"}
    BY DEF Pins
  <1>7. PortModule /\ DOMAIN client = ClientFields
    BY DEF PortInv, ClientHolds
  <1>8. /\ tap' = b.tap /\ dm'.data[1] = b.data /\ client'.performed = b.performed
        /\ b.out = IF c = "R" THEN Append(a.out, tap.tdo) ELSE a.out
        /\ b = St(b.tap, b.data, b.performed, b.out)
        /\ SameClient /\ Quiescent(dm') /\ hart' = hart
    <2>1. CASE c \in DOMAIN Pins
      <3>1. set_pins(Pins[c])
        BY <1>5, <1>6, <2>1
      <3>2. /\ tap' = b.tap /\ dm'.data[1] = b.data /\ client'.performed = b.performed /\ b.out = a.out
            /\ SameClient /\ Quiescent(dm') /\ hart' = hart
        BY <3>1, <1>3, <1>7, <2>1, PinsGo DEF a, b
      <3>3. b = St(b.tap, b.data, b.performed, b.out)
        BY <2>1 DEF b, Run, St
      <3>4. c # "R"
        BY <2>1, <1>6
      <3> QED BY <3>2, <3>3, <3>4
    <2>2. CASE c = "r"
      <3>1. tap' = [tap EXCEPT !.state = "TEST_LOGIC_RESET"] /\ UNCHANGED <<client, dmVars>>
        BY <1>5, <2>2, <1>6
      <3>2. b = St([tap EXCEPT !.state = "TEST_LOGIC_RESET"], a.data, a.performed, a.out)
        BY <2>2, <1>4, <1>6 DEF b, Run
      <3>3. SameClient /\ Quiescent(dm') /\ hart' = hart /\ dm' = dm /\ client' = client
        BY <3>1, <1>7 DEF SameClient, PortModule, dmVars
      <3>4. /\ b.tap = [tap EXCEPT !.state = "TEST_LOGIC_RESET"] /\ b.data = a.data /\ b.performed = a.performed
            /\ b.out = a.out
        BY <3>2 DEF St
      <3> QED BY <3>1, <3>2, <3>3, <3>4, <2>2, <1>4
    <2>3. CASE c = "R"
      <3>1. UNCHANGED <<tap, client, dmVars>>
        BY <1>5, <2>3, <1>6
      <3>2. b = St(tap, a.data, a.performed, Append(a.out, tap.tdo))
        BY <2>3, <1>4, <1>6 DEF b, Run
      <3>3. SameClient /\ Quiescent(dm') /\ hart' = hart /\ dm' = dm /\ client' = client
        BY <3>1, <1>7 DEF SameClient, PortModule, dmVars
      <3>4. b.tap = tap /\ b.data = a.data /\ b.performed = a.performed /\ b.out = Append(a.out, tap.tdo)
        BY <3>2 DEF St
      <3> QED BY <3>1, <3>2, <3>3, <3>4, <2>3, <1>4
    <2>4. CASE c \notin DOMAIN Pins /\ c # "r" /\ c # "R"
      <3>1. UNCHANGED <<tap, client, dmVars>>
        BY <1>5, <2>4
      <3>2. b = a
        BY <2>4 DEF b, Run
      <3>3. SameClient /\ Quiescent(dm') /\ hart' = hart /\ dm' = dm /\ client' = client
        BY <3>1, <1>7 DEF SameClient, PortModule, dmVars
      <3>4. a = St(a.tap, a.data, a.performed, a.out)
        BY DEF a, Now, St
      <3> QED BY <3>1, <3>2, <3>3, <3>4, <2>4, <1>4
    <2> QED BY <2>1, <2>2, <2>3, <2>4
  \* What goes back.
  <1>9. rb.send \in Outs /\ down \in Outs /\ send \in Outs /\ down \o send = b.out
    <2>1. rb.send \in Outs /\ down \in Outs
      BY DEF PortInv, ServerHolds
    <2>2. CASE c = "R"
      <3>1. Answer(c) = <<tap.tdo>> /\ b.out = Append(a.out, tap.tdo)
        BY <2>2, <1>8 DEF Answer
      <3>2. tap.tdo \in {0, 1}
        <4>1. Len(b.out) = Len(a.out) + 1 /\ b.out[Len(a.out) + 1] = tap.tdo /\ Len(a.out) \in Nat
          BY <3>1, <1>3 DEF Outs
        <4> QED BY <4>1, <1>3, ElementOfSeq DEF Outs
      <3>3. <<tap.tdo>> \in Outs
        BY <3>2 DEF Outs
      <3>4. send \in Outs /\ down \o send = (down \o rb.send) \o <<tap.tdo>>
        <4> DEFINE u == rb.send
                   w == <<tap.tdo>>
        <4>1. send = u \o w
          BY <3>1
        <4>2. u \in Seq({0, 1}) /\ down \in Seq({0, 1}) /\ w \in Seq({0, 1})
          BY <2>1, <3>3 DEF Outs
        <4> HIDE DEF u, w
        <4>3. u \o w \in Seq({0, 1}) /\ down \o (u \o w) = (down \o u) \o w
          BY <4>2, ConcatProperties, ConcatAssociative
        <4> QED BY <4>1, <4>3 DEF Outs, u, w
      <3>5. Append(a.out, tap.tdo) = a.out \o <<tap.tdo>>
        BY <1>3, <3>2, <3>3 DEF Outs
      <3> QED BY <2>1, <3>1, <3>4, <3>5, <1>4
    <2>3. CASE c # "R"
      <3>1. Answer(c) = <<>> /\ b.out = a.out
        BY <2>3, <1>8 DEF Answer
      <3>2. send = rb.send
        BY <2>1, <3>1, ConcatEmptySeq DEF Outs
      <3> QED BY <2>1, <3>1, <3>2, <1>4
    <2> QED BY <2>1, <2>2, <2>3
  <1> HIDE DEF send, flush, entered
  <1>10. /\ DOMAIN rb' = RbFields /\ rb'.recv = rest /\ rb'.client_fd = rb.client_fd
         /\ down' = IF flush THEN down \o send ELSE down
         /\ rb'.send = IF flush THEN <<>> ELSE send
    BY <1>5 DEF EndOfTurn, PortInv, ServerHolds, RbFields, send, flush
  <1>11. down' \in Outs /\ rb'.send \in Outs /\ down' \o rb'.send = b.out /\ (rest = <<>> => rb'.send = <<>>)
    <2>1. CASE flush
      <3>1. down' = b.out /\ rb'.send = <<>>
        BY <2>1, <1>9, <1>10
      <3>2. <<>> \in Outs
        BY DEF Outs
      <3> QED BY <3>1, <3>2, <1>3, ConcatEmptySeq DEF Outs
    <2>2. CASE ~flush
      <3>1. down' = down /\ rb'.send = send /\ rest # <<>>
        BY <2>2, <1>10 DEF flush
      <3> QED BY <3>1, <1>9
    <2> QED BY <2>1, <2>2
  <1>12. rb.client_fd
    BY <1>1 DEF PortInv, ServerHolds
  <1>13. PortModule'
    BY <1>7, <1>8 DEF PortModule
  <1>14. ServerHolds'
    BY <1>2, <1>5, <1>10, <1>11, <1>12 DEF PortInv, ServerHolds
  <1>15. ClientHolds' /\ ResultsHold'
    BY <1>8 DEF PortInv, ClientHolds, ResultsHold, SameClient
  <1>16. Now' = b
    BY <1>8, <1>11 DEF Now
  <1>17. Finishes'
    BY <1>3, <1>5, <1>8, <1>10, <1>16 DEF Finishes, Left, SameClient
  <1> QED BY <1>13, <1>14, <1>15, <1>17 DEF PortInv

\* A string of characters cut in two.
LEMMA Cut ==
  ASSUME NEW C, NEW x \in Seq(C), x # <<>>, NEW n \in Nat \ {0}, NEW k \in 1 .. Min({n, Len(x)})
  PROVE  LET y == SubSeq(x, 1, k)
             z == SubSeq(x, k + 1, Len(x))
         IN  y \in Seq(C) /\ z \in Seq(C) /\ y # <<>> /\ y \o z = x
  <1> DEFINE m == Len(x)
             y == SubSeq(x, 1, k)
             z == SubSeq(x, k + 1, m)
  <1>1. m \in Nat /\ m >= 1 /\ \A i \in 1 .. m : x[i] \in C
    BY EmptySeq, LenProperties
  <1>2. k \in 1 .. m
    <2> DEFINE q == IF n <= m THEN n ELSE m
    <2>1. q \in {n, m} /\ \A w \in {n, m} : q <= w
      BY <1>1
    <2>2. \E w \in {n, m} : \A v \in {n, m} : w <= v
      BY <2>1
    <2>3. Min({n, m}) \in {n, m} /\ \A w \in {n, m} : Min({n, m}) <= w
      BY <2>2 DEF Min
    <2>4. Min({n, m}) \in Nat /\ Min({n, m}) <= m
      BY <1>1, <2>3
    <2> QED BY <1>1, <2>4
  <1>3. y \in Seq(C) /\ Len(y) = k
    BY <1>1, <1>2, SubSeqProperties
  <1>4. z \in Seq(C)
    BY <1>1, <1>2, SubSeqProperties
  <1>5. y \o z = SubSeq(x, 1, m)
    BY <1>1, <1>2, ConcatAdjacentSubSeq
  <1>6. SubSeq(x, 1, m) = x
    BY SubSeqFull
  <1> HIDE DEF y, z, m
  <1>7. y # <<>>
    BY <1>2, <1>3
  <1> QED BY <1>3, <1>4, <1>5, <1>6, <1>7 DEF y, z, m

\* The rest of the server's loop moves characters only from the socket to the
\* buffer.
LEMMA ServerKeeps ==
  ASSUME PortInv, ServerStep, ~Turn
  PROVE  PortInv'
  <1>1. PortModule /\ ServerHolds /\ ClientHolds /\ ResultsHold /\ Finishes
    BY DEF PortInv
  <1>2. UNCHANGED <<tap, down, client, dmVars>>
    BY DEF ServerStep, accept, ExecuteCommands, ReadSocket, ReadNothing
  <1>3. /\ DOMAIN rb' = RbFields /\ rb'.send = rb.send /\ rb'.recv \in Seq(Chars) /\ up' \in Seq(Chars) /\ Left' = Left
        /\ rb'.client_fd \/ (rb'.recv = <<>> /\ ~rb'.busy)
        /\ rb'.recv = <<>> => rb.recv = <<>>
    <2>1. CASE accept
      BY <2>1, <1>1 DEF accept, ServerHolds, RbFields, Left
    <2>2. CASE ExecuteCommands
      BY <2>2, <1>1 DEF ExecuteCommands, ServerHolds, RbFields, Left
    <2>3. CASE ReadSocket
      <3>1. PICK k \in 1 .. Min({buf_size, Len(up)}) :
               rb' = [rb EXCEPT !.recv = SubSeq(up, 1, k)] /\ up' = SubSeq(up, k + 1, Len(up))
        BY <2>3 DEF ReadSocket
      <3>2. rb.busy /\ rb.recv = <<>> /\ up # <<>> /\ up \in Seq(Chars) /\ rb.client_fd
        BY <2>3, <1>1 DEF ReadSocket, ServerHolds
      <3>3. DOMAIN rb' = RbFields /\ rb'.send = rb.send /\ rb'.recv = SubSeq(up, 1, k) /\ rb'.client_fd = rb.client_fd
        BY <3>1, <1>1 DEF ServerHolds, RbFields
      <3>4. rb'.recv \in Seq(Chars) /\ up' \in Seq(Chars) /\ rb'.recv # <<>> /\ rb'.recv \o up' = up
        <4>1. LET y == SubSeq(up, 1, k)
                  z == SubSeq(up, k + 1, Len(up))
              IN  y \in Seq(Chars) /\ z \in Seq(Chars) /\ y # <<>> /\ y \o z = up
          BY <3>2, Cut, BufAssumption, Zenon
        <4> QED BY <4>1, <3>1, <3>3
      <3>5. Left = up
        BY <3>2, ConcatEmptySeq DEF Left
      <3> QED BY <3>2, <3>3, <3>4, <3>5 DEF Left
    <2>4. CASE ReadNothing
      BY <2>4, <1>1 DEF ReadNothing, ServerHolds, RbFields, Left
    <2> QED BY <2>1, <2>2, <2>3, <2>4 DEF ServerStep
  <1>4. PortModule' /\ ClientHolds' /\ ResultsHold'
    BY <1>1, <1>2 DEF PortModule, ClientHolds, ResultsHold, dmVars
  <1>5. ServerHolds'
    BY <1>1, <1>2, <1>3 DEF ServerHolds
  <1>6. Now' = Now
    BY <1>2, <1>3 DEF Now, dmVars
  <1>7. Finishes'
    BY <1>1, <1>2, <1>3, <1>6 DEF Finishes
  <1> QED BY <1>4, <1>5, <1>7 DEF PortInv

\* When the client has all its bits, none is still with the server.
LEMMA AllBits ==
  ASSUME PortInv, Answered
  PROVE  rb.send = <<>> /\ Now.out = down /\ Len(Now.out) = client.awaits /\ client.awaits \in {2, 5}
  <1>1. client.connected /\ Len(down) = client.awaits /\ down \in Outs /\ rb.send \in Outs
        /\ client.awaits \in {2, 5} /\ Left \in Seq(Chars) /\ Finishes
    BY ConcatProperties DEF PortInv, ServerHolds, ClientHolds, Answered, Left
  <1>2. Now.out = down \o rb.send
    BY DEF Now, St
  <1>3. Len(Now.out) = Len(down) + Len(rb.send) /\ Len(down) \in Nat /\ Len(rb.send) \in Nat
    BY <1>1, <1>2, ConcatProperties, LenProperties DEF Outs
  <1>4. PICK tr : /\ Trail(tr, Left) /\ tr[0] = Now /\ Settles(tr[Len(Left)], client.scans, client.awaits)
    BY <1>1 DEF Finishes, OnTheWay
  <1>5. Len(tr[0].out) <= Len(tr[Len(Left)].out)
    <2>1. Len(Left) \in Nat
      BY <1>1, LenProperties
    <2>2. 0 \in 0 .. Len(Left) /\ Len(Left) \in 0 .. Len(Left) /\ 0 <= Len(Left)
      BY <2>1
    <2> QED BY <2>2, <1>4 DEF Trail
  <1>6. Len(tr[Len(Left)].out) = client.awaits
    BY <1>4 DEF Settles
  <1>7. Len(rb.send) = 0
    BY <1>1, <1>3, <1>4, <1>5, <1>6
  <1>8. rb.send = <<>>
    BY <1>1, <1>7 DEF Outs
  <1> QED BY <1>1, <1>2, <1>8, ConcatEmptySeq DEF Outs

\* With nothing underway in the server, dropping what the client has read
\* leaves the port as it was.
LEMMA Blanked ==
  ASSUME rb.send = <<>>, UNCHANGED <<tap, rb, dmVars>>, down' = <<>>, client'.performed = client.performed
  PROVE  Now' = Blank(Now)
  <1>1. down' \o rb'.send = <<>>
    <2>1. <<>> \o <<>> = <<>>
      OBVIOUS
    <2> QED BY <2>1
  <1>2. Now.tap = tap /\ Now.data = dm.data[1] /\ Now.performed = client.performed
    BY DEF Now, St
  <1> QED BY <1>1, <1>2 DEF Now, Blank, dmVars

\* A new client finds every scan performed, and selects the DMI register again.
LEMMA ConnectKeeps ==
  ASSUME PortInv, Connect
  PROVE  PortInv'
  <1>1. PortModule /\ ServerHolds /\ ClientHolds /\ ResultsHold /\ Finishes
    BY DEF PortInv
  <1>2. /\ ~client.connected /\ ~rb.client_fd /\ up = <<>> /\ up' \in Open /\ down' = <<>>
        /\ client' = [client EXCEPT !.connected = TRUE, !.awaits = 2] /\ UNCHANGED <<tap, rb, dmVars>>
    BY DEF Connect, ir_length
  <1>3. rb.recv = <<>> /\ rb.send = <<>> /\ Left = <<>>
    <2>1. rb.recv = <<>> /\ rb.send = <<>>
      BY <1>1, <1>2 DEF ServerHolds
    <2>2. <<>> \o <<>> = <<>>
      OBVIOUS
    <2> QED BY <2>1, <2>2, <1>2 DEF Left
  <1>4. /\ DOMAIN client' = ClientFields /\ client'.connected = TRUE /\ client'.awaits = 2
        /\ client'.scans = client.scans /\ client'.performed = client.performed /\ client'.results = client.results
    BY <1>1, <1>2 DEF ClientHolds, ClientFields
  <1>5. Settles(Now, client.scans, client.awaits)
    BY <1>1, <1>3, NoCharacter DEF Finishes
  <1>6. up' \in Seq(Chars) /\ OnTheWay(Blank(Now), up', client.scans, 2)
    <2>1. client.scans \in Seq(Requests)
      BY <1>1 DEF ClientHolds
    <2> QED BY <2>1, <1>2, <1>5, NewClient
  <1>7. Now' = Blank(Now)
    BY <1>2, <1>3, <1>4, Blanked
  <1>8. Left' = up'
    <2>1. rb'.recv = <<>>
      BY <1>2, <1>3
    <2> QED BY <2>1, <1>6, ConcatEmptySeq DEF Left
  <1>9. Finishes'
    BY <1>4, <1>6, <1>7, <1>8 DEF Finishes
  <1>10. PortModule'
    BY <1>1, <1>2 DEF PortModule, dmVars
  <1>11. ServerHolds'
    BY <1>1, <1>2, <1>6 DEF ServerHolds, Outs
  <1>12. ClientHolds' /\ ResultsHold'
    BY <1>1, <1>2, <1>4 DEF ClientHolds, ResultsHold
  <1> QED BY <1>9, <1>10, <1>11, <1>12 DEF PortInv

\* The results with the last scan's among them, once the client has read it.
ReadAll(results) ==
    /\ results \in Seq(Int) /\ Len(results) = Len(client.scans)
    /\ \A n \in 1 .. Len(results) : results[n] = IF n = 1 THEN 0 ELSE Outcome(client.scans, n - 1)

\* The bits that the client has are the outcome of the scan before the last.
LEMMA ReadsAll ==
  ASSUME PortInv, Answered,
         NEW results, results = IF client.awaits = DmiLength THEN Append(client.results, Read(down)) ELSE client.results
  PROVE  ReadAll(results)
  <1> DEFINE scans == client.scans
             old == client.results
             n == Len(scans)
  <1>1. PortModule /\ ServerHolds /\ ClientHolds /\ ResultsHold /\ Finishes /\ client.connected
    BY DEF PortInv, Answered
  <1>2. old \in Seq(Int) /\ Len(old) = (IF client.awaits = 5 THEN n - 1 ELSE n)
        /\ \A i \in 1 .. Len(old) : old[i] = IF i = 1 THEN 0 ELSE Outcome(scans, i - 1)
    BY <1>1 DEF ResultsHold
  <1>3. CASE client.awaits # 5
    BY <1>2, <1>3 DEF ReadAll, DmiLength
  <1>4. CASE client.awaits = 5
    <2>1. Left \in Seq(Chars) /\ scans \in Seq(Requests) /\ Now.out = down /\ Len(Now.out) = 5
          /\ DataAfter(scans, Len(scans)) \in 0 .. 3 /\ EndDmi(scans) \in 0 .. 31
      BY <1>1, <1>4, AllBits, ConcatProperties DEF ServerHolds, ClientHolds, Left
    <2>2. scans # <<>> /\ Read(down) = LastAnswer(scans)
      <3>1. Dbus(0, 2, 2) \in Requests /\ 0 \in {0, 3} /\ 5 \in {2, 5}
        BY DEF Requests
      <3>2. OnTheWay(Now, Left, scans, 5)
        BY <1>1, <1>4 DEF Finishes
      <3> HIDE DEF scans
      <3>3. 5 = 5 => scans # <<>> /\ Read(Now.out) = LastAnswer(scans)
        BY <2>1, <3>1, <3>2, NewScan
      <3> QED BY <2>1, <3>3
    <2> DEFINE r == Read(down)
    <2>3. n \in Nat \ {0}
      BY <2>1, <2>2, EmptySeq
    <2>4. r \in Int
      <3>1. Len(down) = 5 /\ down \in Seq({0, 1})
        BY <2>1, <1>1 DEF ServerHolds, Outs
      <3>2. down[1] \in {0, 1} /\ down[2] \in {0, 1} /\ down[3] \in {0, 1} /\ down[4] \in {0, 1} /\ down[5] \in {0, 1}
        <4>1. \A i \in 1 .. 5 : down[i] \in {0, 1}
          BY <3>1, ElementOfSeq
        <4> QED BY <4>1
      <3>3. \A b1, b2, b3, b4, b5 \in {0, 1} : b1 + (2 * b2) + (4 * b3) + (8 * b4) + (16 * b5) \in Int
        OBVIOUS
      <3>4. r = down[1] + (2 * down[2]) + (4 * down[3]) + (8 * down[4]) + (16 * down[5])
        BY DEF Read
      <3> HIDE DEF r
      <3> QED BY <3>2, <3>3, <3>4
    <2>5. r = IF n = 1 THEN 0 ELSE Outcome(scans, n - 1)
      BY <2>2 DEF LastAnswer
    <2>6. results = Append(old, r)
      BY <1>4 DEF DmiLength
    <2> HIDE DEF r, old, scans, n
    <2>7. results \in Seq(Int) /\ Len(results) = n
          /\ \A i \in 1 .. n : results[i] = IF i <= n - 1 THEN old[i] ELSE r
      <3>1. Len(old) = n - 1 /\ old \in Seq(Int)
        BY <1>2, <1>4
      <3>2. /\ results \in Seq(Int) /\ Len(results) = Len(old) + 1 /\ results[Len(old) + 1] = r
            /\ \A i \in 1 .. Len(old) : results[i] = old[i]
        <4> DEFINE w == Append(old, r)
        <4>1. w \in Seq(Int) /\ Len(w) = Len(old) + 1 /\ w[Len(old) + 1] = r /\ \A i \in 1 .. Len(old) : w[i] = old[i]
          BY <3>1, <2>4, AppendProperties
        <4>2. results = w
          BY <2>6
        <4> HIDE DEF w
        <4> QED BY <4>1, <4>2
      <3> QED BY <3>1, <3>2, <2>3
    <2>8. ASSUME NEW i \in 1 .. n
          PROVE  results[i] = IF i = 1 THEN 0 ELSE Outcome(scans, i - 1)
      <3>1. CASE i <= n - 1
        BY <3>1, <2>3, <2>7, <1>2, <1>4
      <3>2. CASE i = n
        <4>1. results[i] = r
          BY <3>2, <2>3, <2>7
        <4> QED BY <4>1, <3>2, <2>5
      <3>3. i <= n - 1 \/ i = n
        BY <2>3
      <3> QED BY <3>1, <3>2, <3>3, Zenon
    <2> QED BY <2>7, <2>8 DEF ReadAll, scans, n
  <1> QED BY <1>3, <1>4

\* The client shifts its next scan in, and has read what came out of the last.
LEMMA ScanKeeps ==
  ASSUME PortInv, ClientScan
  PROVE  PortInv'
  <1> DEFINE scans == client.scans
  <1>1. PortModule /\ ServerHolds /\ ClientHolds /\ ResultsHold /\ Finishes /\ Answered /\ up = <<>> /\ client.connected
    BY DEF PortInv, ClientScan, Answered
  <1>2. PICK v \in Requests, pause \in {0, 3} :
          /\ up' = DrScan(v, pause)
          /\ client' = [client EXCEPT !.scans = Append(@, v), !.awaits = DmiLength,
                           !.results = IF client.awaits = DmiLength THEN Append(@, Read(down)) ELSE @]
    BY DEF ClientScan
  <1>3. down' = <<>> /\ UNCHANGED <<tap, rb, dmVars>>
    BY DEF ClientScan
  <1> DEFINE more == Append(scans, v)
             results == IF client.awaits = DmiLength THEN Append(client.results, Read(down)) ELSE client.results
  <1>4. /\ DOMAIN client' = ClientFields /\ client'.connected = client.connected /\ client'.awaits = 5
        /\ client'.scans = more /\ client'.performed = client.performed /\ client'.results = results
    BY <1>1, <1>2 DEF ClientHolds, ClientFields, DmiLength
  <1>5. rb.send = <<>> /\ Len(Now.out) = client.awaits /\ client.awaits \in {2, 5}
    BY <1>1, AllBits
  <1>6. scans \in Seq(Requests) /\ rb.recv \in Seq(Chars) /\ Left = rb.recv
        /\ DataAfter(scans, Len(scans)) \in 0 .. 3 /\ EndDmi(scans) \in 0 .. 31
    BY <1>1, ConcatEmptySeq DEF ServerHolds, ClientHolds, Left
  <1>7. ReadAll(results)
    BY <1>1, ReadsAll
  <1> HIDE DEF results
  <1>8. /\ DrScan(v, pause) \in Seq(Chars) /\ OnTheWay(Blank(Now), rb.recv \o DrScan(v, pause), more, 5)
        /\ DataAfter(more, Len(more)) \in 0 .. 3 /\ EndDmi(more) \in 0 .. 31
    <2>1. OnTheWay(Now, rb.recv, scans, client.awaits)
      BY <1>1, <1>6 DEF Finishes
    <2> HIDE DEF scans
    <2> QED BY <2>1, <1>5, <1>6, NewScan, Zenon
  <1>9. /\ more \in Seq(Requests) /\ Len(more) = Len(scans) + 1 /\ Len(scans) \in Nat
        /\ \A i \in 1 .. Len(scans) : Outcome(more, i) = Outcome(scans, i)
    BY <1>6, OneMoreScan
  <1>10. Now' = Blank(Now)
    BY <1>3, <1>4, <1>5, Blanked
  <1>11. Left' = rb.recv \o DrScan(v, pause)
    BY <1>2, <1>3 DEF Left
  <1> HIDE DEF more
  <1>12. Finishes'
    BY <1>4, <1>8, <1>10, <1>11 DEF Finishes
  <1>13. PortModule'
    BY <1>1, <1>3 DEF PortModule, dmVars
  <1>14. ServerHolds'
    BY <1>1, <1>2, <1>3, <1>8 DEF ServerHolds, Outs
  <1>15. ClientHolds'
    BY <1>1, <1>4, <1>8, <1>9 DEF ClientHolds
  <1>16. ResultsHold'
    <2>1. /\ results \in Seq(Int) /\ Len(results) = Len(scans)
          /\ \A n \in 1 .. Len(results) : results[n] = IF n = 1 THEN 0 ELSE Outcome(scans, n - 1)
      BY <1>7 DEF ReadAll
    <2> HIDE DEF scans
    <2>2. ASSUME NEW n \in 1 .. Len(results)
          PROVE  results[n] = IF n = 1 THEN 0 ELSE Outcome(more, n - 1)
      <3>1. CASE n = 1
        BY <3>1, <2>1
      <3>2. CASE n # 1
        <4>1. n - 1 \in 1 .. Len(scans)
          BY <3>2, <2>1, <1>9
        <4>2. Outcome(more, n - 1) = Outcome(scans, n - 1)
          BY <4>1, <1>9
        <4> QED BY <3>2, <4>2, <2>1
      <3> QED BY <3>1, <3>2
    <2>3. Len(results) = Len(more) - 1
      BY <2>1, <1>9
    <2> QED BY <2>1, <2>2, <2>3, <1>1, <1>4 DEF ResultsHold
  <1> QED BY <1>12, <1>13, <1>14, <1>15, <1>16 DEF PortInv

\* The client goes, with a Q or without, after it has read its last bits.
LEMMA DisconnectKeeps ==
  ASSUME PortInv, Disconnect
  PROVE  PortInv'
  <1> DEFINE results == IF client.awaits = DmiLength THEN Append(client.results, Read(down)) ELSE client.results
  <1>1. PortModule /\ ServerHolds /\ ClientHolds /\ ResultsHold /\ Finishes /\ Answered /\ up = <<>>
    BY DEF PortInv, Disconnect
  <1>2. /\ up' \in {<<>>, <<"Q">>} /\ UNCHANGED <<tap, rb, down, dmVars>>
        /\ client' = [client EXCEPT !.connected = FALSE,
                         !.results = IF client.awaits = DmiLength THEN Append(@, Read(down)) ELSE @]
    BY DEF Disconnect
  <1>3. /\ DOMAIN client' = ClientFields /\ client'.connected = FALSE /\ client'.awaits = client.awaits
        /\ client'.scans = client.scans /\ client'.performed = client.performed /\ client'.results = results
    BY <1>1, <1>2 DEF ClientHolds, ClientFields
  <1>4. ReadAll(results)
    BY <1>1, ReadsAll
  <1> HIDE DEF results
  <1>5. rb.recv \in Seq(Chars) /\ Left = rb.recv
    BY <1>1, ConcatEmptySeq DEF ServerHolds, Left
  <1>6. Now' = Now
    BY <1>2, <1>3 DEF Now, dmVars
  <1>7. up' \in Seq(Chars) /\ OnTheWay(Now, Left', client.scans, client.awaits)
    <2>1. OnTheWay(Now, rb.recv, client.scans, client.awaits)
      BY <1>1, <1>5 DEF Finishes
    <2>2. CASE up' = <<>>
      <3>1. Left' = rb.recv
        BY <2>2, <1>2, <1>5, ConcatEmptySeq DEF Left
      <3> QED BY <2>1, <2>2, <3>1
    <2>3. CASE up' = <<"Q">>
      <3>1. Left' = rb.recv \o <<"Q">>
        BY <2>3, <1>2 DEF Left
      <3>2. <<"Q">> \in Seq(Chars)
        BY DEF Chars
      <3>3. OnTheWay(Now, rb.recv \o <<"Q">>, client.scans, client.awaits)
        BY <2>1, <1>5, Goodbye
      <3> QED BY <2>3, <3>1, <3>2, <3>3
    <2> QED BY <2>2, <2>3, <1>2
  <1>8. Finishes'
    BY <1>3, <1>6, <1>7 DEF Finishes
  <1>9. PortModule'
    BY <1>1, <1>2 DEF PortModule, dmVars
  <1>10. ServerHolds'
    BY <1>1, <1>2, <1>7 DEF ServerHolds
  <1>11. ClientHolds'
    BY <1>1, <1>3 DEF ClientHolds
  <1>12. ResultsHold'
    BY <1>3, <1>4 DEF ResultsHold, ReadAll
  <1> QED BY <1>8, <1>9, <1>10, <1>11, <1>12 DEF PortInv

\* Under the transport, no client ever comes to the port.
PortStays ==
    /\ port = "jtag" => PortInv
    /\ port = "dtm" => client.scans = <<>> /\ client.performed = <<>> /\ client.results = <<>>
    /\ port \in {"dtm", "jtag"}

\* The port begins where a first client may connect.
LEMMA PortBegins ==
  ASSUME Init
  PROVE  PortStays
  <1>1. /\ dm = reset(DmInit) /\ port \in {"dtm", "jtag"} /\ rb.recv = <<>> /\ rb.send = <<>> /\ DOMAIN rb = RbFields
        /\ ~rb.busy /\ up = <<>> /\ down = <<>> /\ DOMAIN client = ClientFields /\ client.connected = FALSE
        /\ client.awaits = 0 /\ client.scans = <<>> /\ client.performed = <<>> /\ client.results = <<>>
    BY DEF Init, DmModuleInit, JtagInit, RbFields, ClientFields
  <1>2. \A h \in Harts : hart[h].pc = "run"
    BY DEF Init, DmModuleInit
  <1>3. Quiescent(dm) /\ dm.data[1] = 0
    <2>1. DOMAIN DmInit = Fields /\ DmInit.data = <<0, 0>>
      BY DEF DmInit, Fields
    <2>2. /\ DOMAIN dm = Fields /\ dm.busy = FALSE /\ dm.datacount = 2 /\ dm.autodata = {} /\ dm.halt_request = {}
          /\ dm.data = <<0, 0>>
      BY <1>1, <2>1 DEF reset, Fields, datasize
    <2> QED BY <2>2 DEF Quiescent
  <1>4. PICK i \in {1, 3} : tap = Tp(0, 0, 0, 0, "TEST_LOGIC_RESET", i, 0, 4, 0)
    BY DEF Init, JtagInit, Tp, IR_IDCODE, IR_DBUS
  <1>5. DataAfter(<<>>, 0) = 0 /\ EndDmi(<<>>) = 0 /\ Len(<<>>) = 0
    BY DEF DataAfter, EndDmi
  <1>6. <<>> \o <<>> = <<>> /\ \A C : <<>> \in Seq(C)
    OBVIOUS
  <1>7. Left = <<>> /\ Now = St(tap, 0, <<>>, <<>>)
    BY <1>1, <1>3, <1>6 DEF Left, Now
  <1>8. OnTheWay(Now, <<>>, <<>>, 0)
    <2> DEFINE a == Now
               tr == [k \in 0 .. 0 |-> a]
    <2>1. a.tap = tap /\ a.data = 0 /\ a.performed = <<>> /\ a.out = <<>> /\ a = St(a.tap, a.data, a.performed, a.out)
      BY <1>7 DEF St
    <2>2. a.out \in Seq({0, 1}) /\ Len(a.out) = 0
      BY <2>1, <1>5, <1>6
    <2>3. Settles(a, <<>>, 0)
      <3>1. \E k, m, b, o, s, ir, dr, n :
               /\ a.tap = Tp(k, m, b, o, s, ir, dr, n, EndDmi(<<>>))
               /\ s \in {"TEST_LOGIC_RESET", "RUN_TEST_IDLE"} /\ ir \in {1, 3}
               /\ 0 # 0 => s = "RUN_TEST_IDLE" /\ ir = 3
        <4>1. a.tap = Tp(0, 0, 0, 0, "TEST_LOGIC_RESET", i, 0, 4, EndDmi(<<>>))
          BY <2>1, <1>4, <1>5
        <4> HIDE DEF a
        <4> QED BY <4>1
      <3> HIDE DEF a
      <3> QED BY <3>1, <2>1, <2>2, <1>5 DEF Settles
    <2>4. Recent(a, <<>>, 0)
      <3>1. SubSeq(<<>>, 1, 0) = <<>>
        OBVIOUS
      <3> HIDE DEF a
      <3>2. 0 \in 0 .. Len(<<>>) /\ 0 + 2 >= Len(<<>>) /\ 0 + 1 >= Len(<<>>)
        BY <1>5
      <3> QED BY <2>1, <3>1, <3>2 DEF Recent
    <2> HIDE DEF a
    <2>5. DOMAIN tr = {0} /\ tr[0] = a /\ \A k \in 0 .. 0 : k = 0
      OBVIOUS
    <2> HIDE DEF tr
    <2>6. Trail(tr, <<>>)
      BY <2>2, <2>5, <1>5 DEF Trail
    <2> QED BY <2>3, <2>4, <2>5, <2>6, <1>5 DEF OnTheWay, a
  <1>9. Finishes
    BY <1>1, <1>7, <1>8 DEF Finishes
  <1>10. PortModule
    BY <1>2, <1>3 DEF PortModule
  <1>11. ServerHolds
    BY <1>1, <1>6 DEF ServerHolds, Outs
  <1>12. ClientHolds
    BY <1>1, <1>5, <1>6 DEF ClientHolds
  <1>13. ResultsHold
    BY <1>1, <1>5, <1>6 DEF ResultsHold
  <1> QED BY <1>1, <1>9, <1>10, <1>11, <1>12, <1>13 DEF PortStays, PortInv

\* Every step of the port, of its client and of the harts keeps it so.
LEMMA PortStep ==
  ASSUME PortStays, [Next]_vars
  PROVE  PortStays'
  <1>1. CASE Server \/ Client
    <2>1. port = "jtag" /\ port' = port /\ PortInv
      BY <1>1 DEF Server, Client, PortStays
    <2>2. ServerStep \/ ClientStep
      BY <1>1 DEF Server, Client
    <2>3. PortInv'
      <3>1. CASE ServerStep /\ Turn
        BY <2>1, <3>1, TurnHolds
      <3>2. CASE ServerStep /\ ~Turn
        BY <2>1, <3>2, ServerKeeps
      <3>3. CASE ClientStep
        BY <2>1, <3>3, ConnectKeeps, ScanKeeps, DisconnectKeeps DEF ClientStep
      <3> QED BY <2>2, <3>1, <3>2, <3>3
    <2> QED BY <2>1, <2>3 DEF PortStays
  <1>2. CASE Debugger
    <2>1. port = "dtm" /\ port' = port /\ client' = client
      BY <1>2 DEF Debugger, jtagVars
    <2> QED BY <2>1 DEF PortStays
  <1>3. ASSUME NEW h \in Harts, Hart(h)
        PROVE  PortStays'
    <2>1. port' = port /\ client' = client /\ HartStep(h)
      BY <1>3 DEF Hart, jtagVars
    <2>2. port # "jtag"
      <3>1. SUFFICES ASSUME port = "jtag"
                     PROVE  FALSE
        OBVIOUS
      <3>2. Quiescent(dm) /\ hart[h].pc = "run"
        BY <3>1 DEF PortStays, PortInv, PortModule
      <3> QED BY <3>2, <2>1, HartsRun
    <2> QED BY <2>1, <2>2 DEF PortStays
  <1>4. CASE UNCHANGED vars
    <2>1. port' = port /\ client' = client /\ rb' = rb /\ up' = up /\ down' = down /\ tap' = tap /\ dm' = dm /\ hart' = hart
      BY <1>4 DEF vars, jtagVars, dmVars
    <2>2. PortModule' = PortModule /\ ServerHolds' = ServerHolds /\ ClientHolds' = ClientHolds
          /\ ResultsHold' = ResultsHold /\ Finishes' = Finishes
      BY <2>1 DEF PortModule, ServerHolds, ClientHolds, ResultsHold, Finishes, Now, Left
    <2> QED BY <2>1, <2>2 DEF PortStays, PortInv
  <1> QED BY <1>1, <1>2, <1>3, <1>4 DEF Next

\* What has been performed and read is then what JtagDelivers says.
LEMMA PortDelivers ==
  ASSUME PortStays
  PROVE  JtagDelivers
  <1>1. CASE port = "dtm"
    <2>1. client.scans = <<>> /\ client.performed = <<>> /\ client.results = <<>>
      BY <1>1 DEF PortStays
    <2>2. IsPrefix(client.performed, client.scans)
      BY <2>1 DEF IsPrefix
    <2> QED BY <2>1, <2>2 DEF JtagDelivers
  <1>2. CASE port = "jtag"
    <2> DEFINE scans == client.scans
    <2>1. PortInv
      BY <1>2 DEF PortStays
    <2>2. scans \in Seq(Requests) /\ Left \in Seq(Chars) /\ Finishes /\ ResultsHold
      BY <2>1, ConcatProperties DEF PortInv, ServerHolds, ClientHolds, Left
    <2>3. PICK tr : tr[0] = Now /\ \A k \in 0 .. Len(Left) : Recent(tr[k], scans, client.awaits)
      BY <2>2 DEF Finishes, OnTheWay
    <2>4. Recent(Now, scans, client.awaits)
      <3>1. 0 \in 0 .. Len(Left)
        BY <2>2, LenProperties
      <3> QED BY <2>3, <3>1
    <2>5. PICK n \in 0 .. Len(scans) : client.performed = SubSeq(scans, 1, n) /\ n + 2 >= Len(scans)
      BY <2>4 DEF Recent, Now, St
    <2>6. Len(scans) \in Nat /\ \A i \in 1 .. n : scans[i] \in Requests
      BY <2>2, LenProperties
    <2>7. Len(client.performed) = n /\ client.performed \in Seq(Requests)
      <3> HIDE DEF scans
      <3> QED BY <2>5, <2>6, SubSeqProperties
    <2>8. IsPrefix(client.performed, scans)
      BY <2>5, <2>6, <2>7 DEF IsPrefix
    <2> QED BY <2>2, <2>5, <2>6, <2>7, <2>8 DEF JtagDelivers, ResultsHold
  <1> QED BY <1>1, <1>2 DEF PortStays

\* A debugger's scans through the JTAG port are each performed once and in
\* order, and each scan brings back the outcome of the one before, for batches of
\* every size, any number of scans, clients, pauses and resets, and wherever the
\* socket and the server cut the characters up (remote_bitbang.cc, jtag_dtm.cc).
THEOREM JtagIsExact == Spec => []JtagDelivers
  <1>1. Init => PortStays
    BY PortBegins
  <1>2. PortStays /\ [Next]_vars => PortStays'
    BY PortStep
  <1>3. PortStays => JtagDelivers
    BY PortDelivers
  <1> QED BY <1>1, <1>2, <1>3, PTL DEF Spec
====
