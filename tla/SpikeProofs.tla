----------------------------- MODULE SpikeProofs -----------------------------
(***************************************************************************)
(* What holds of the simulator for every program and every order of        *)
(* events.  One hart (SpikeHart), for every batch size and every length of *)
(* a run: minstret settles, traps return, a step executes one instruction, *)
(* and software below machine mode changes nothing of machine mode.  The   *)
(* harts together (SpikeSim), for any number of them and any turns:        *)
(* reservations that last are good, and timer interrupts are level.  And   *)
(* the cache models (CacheSim), for any geometry: no write is lost.        *)
(***************************************************************************)
EXTENDS SpikeHart, SpikeSim, CacheSim, FiniteSetTheorems, TLAPS

Privileges == {"U", "S", "M"}
Modes == {"U", "S", "H", "M"}
HartFields == {"pc", "prv", "mstatus", "mepc", "sepc", "mcause", "scause", "mip", "mie",
               "mideleg", "medeleg", "minstret", "fflags", "mcounteren", "scounteren", "dpc",
               "dcause", "dprv", "dstep", "dhalt", "ebreakm", "single_step", "serialized",
               "halt_request"}
StatusFields == {"sie", "spie", "spp", "mie", "mpie", "mpp", "fs", "sd", "sum", "tsr"}

\* A state_t of the simulator, with the types the control depends on.
Status(st) ==
    /\ st = [f \in StatusFields |-> st[f]]
    /\ st.mpp \in Modes /\ st.spp \in Modes
State(s) ==
    /\ s = [f \in HartFields |-> s[f]]
    /\ Status(s.mstatus)
    /\ s.prv \in Privileges /\ s.dprv \in Privileges
    /\ s.single_step \in {"none", "stepping", "stepped"}
    /\ s.minstret \in Int
    /\ s.dcause # "none" => s.prv = "M"

\* Code outside the debug ROM, which returns outside it.
Native(s) == s.pc \in Nat \ {10, 11} /\ s.mepc \in Nat \ {10, 11} /\ s.sepc \in Nat \ {10, 11}

\* What a return from each kind of trap restores.
MTrap(s) == <<s.mstatus.mpp, s.mstatus.mpie, s.mepc>>
STrap(s) == <<s.mstatus.spp, s.mstatus.spie, s.sepc>>

----------------------------------------------------------------------------
(* What the operations on a state_t change. *)

\* enter_debug_mode saves privilege and pc and goes to the ROM in M mode.
LEMMA EnterDebug ==
    ASSUME NEW s, State(s), NEW c, c # "none"
    PROVE  /\ State(enter_debug_mode(s, c))
           /\ enter_debug_mode(s, c).dcause = c
           /\ enter_debug_mode(s, c).dprv = s.prv
           /\ enter_debug_mode(s, c).dpc = s.pc
           /\ enter_debug_mode(s, c).prv = "M"
           /\ \A f \in HartFields \ {"dcause", "dprv", "dpc", "prv", "pc"} :
                 enter_debug_mode(s, c)[f] = s[f]
BY DEF State, HartFields, Privileges, enter_debug_mode, set_privilege

\* A trap to M mode saves privilege, interrupt enable and pc of what it
\* interrupts and leaves what S mode saved.
LEMMA TrapsToM ==
    ASSUME NEW s, State(s), s.dcause = "none", NEW cause, NEW epc
    PROVE  /\ State(TrapToM(s, cause, epc))
           /\ TrapToM(s, cause, epc).pc = MTVEC
           /\ TrapToM(s, cause, epc).prv = "M"
           /\ MTrap(TrapToM(s, cause, epc)) = <<s.prv, s.mstatus.mie, epc>>
           /\ STrap(TrapToM(s, cause, epc)) = STrap(s)
           /\ TrapToM(s, cause, epc).mepc = epc
           /\ \A f \in HartFields \ {"pc", "prv", "mstatus", "mepc", "mcause"} :
                 TrapToM(s, cause, epc)[f] = s[f]
BY DEF State, Status, Modes, StatusFields, HartFields, Privileges, TrapToM, set_privilege, MTrap, STrap

\* A trap to S mode, likewise, from S or U mode.
LEMMA TrapsToS ==
    ASSUME NEW s, State(s), s.dcause = "none", s.prv \in {"U", "S"}, NEW cause, NEW epc
    PROVE  /\ State(TrapToS(s, cause, epc))
           /\ TrapToS(s, cause, epc).pc = STVEC
           /\ TrapToS(s, cause, epc).prv = "S"
           /\ STrap(TrapToS(s, cause, epc)) = <<s.prv, s.mstatus.sie, epc>>
           /\ MTrap(TrapToS(s, cause, epc)) = MTrap(s)
           /\ TrapToS(s, cause, epc).sepc = epc
           /\ MachineState(TrapToS(s, cause, epc)) = MachineState(s)
           /\ \A f \in HartFields \ {"pc", "prv", "mstatus", "sepc", "scause"} :
                 TrapToS(s, cause, epc)[f] = s[f]
BY DEF State, Status, Modes, StatusFields, HartFields, Privileges, TrapToS, set_privilege,
       MTrap, STrap, MachineState

\* In debug mode a trap only moves the pc.
LEMMA TrapsInDebug ==
    ASSUME NEW s, State(s), s.dcause # "none", NEW cause, NEW epc
    PROVE  /\ State(take_trap(s, cause, epc))
           /\ \A f \in HartFields \ {"pc"} : take_trap(s, cause, epc)[f] = s[f]
BY DEF State, HartFields, take_trap

\* Outside it, a trap enters debug mode, S mode or M mode.
LEMMA TrapsElsewhere ==
    ASSUME NEW s, State(s), s.dcause = "none", NEW cause, NEW epc
    PROVE  \/ take_trap(s, cause, epc) = enter_debug_mode(s, "swbp")
           \/ s.prv \in {"U", "S"} /\ take_trap(s, cause, epc) = TrapToS(s, cause, epc)
           \/ take_trap(s, cause, epc) = TrapToM(s, cause, epc)
BY DEF State, Privileges, take_trap, Delegated, Rank

\* After a trap: what a step needs to know of it.
TrapEffect(s, t, epc) ==
    /\ State(t)
    /\ t.minstret = s.minstret /\ t.single_step = s.single_step
    /\ \/ /\ s.dcause # "none"                                  \* in debug mode
          /\ t.dcause = s.dcause /\ t.dprv = s.dprv /\ t.dpc = s.dpc
          /\ MTrap(t) = MTrap(s) /\ STrap(t) = STrap(s)
       \/ /\ s.dcause = "none" /\ t.dcause # "none"             \* to debug mode
          /\ t.dprv = s.prv /\ t.dpc = s.pc
          /\ MTrap(t) = MTrap(s) /\ STrap(t) = STrap(s)
       \/ /\ s.dcause = "none" /\ t.dcause = "none" /\ t.pc = STVEC
          /\ STrap(t) = <<s.prv, s.mstatus.sie, epc>>
          /\ MTrap(t) = MTrap(s) /\ MachineState(t) = MachineState(s)
          /\ t.sepc = epc /\ t.mepc = s.mepc
       \/ /\ s.dcause = "none" /\ t.dcause = "none" /\ t.pc = MTVEC /\ t.prv = "M"
          /\ MTrap(t) = <<s.prv, s.mstatus.mie, epc>>
          /\ STrap(t) = STrap(s)
          /\ t.mepc = epc /\ t.sepc = s.sepc

\* A trap has one of four effects.
LEMMA TakesTrap ==
    ASSUME NEW s, State(s), NEW cause, NEW epc
    PROVE  TrapEffect(s, take_trap(s, cause, epc), epc)
<1>1. CASE s.dcause # "none"
  BY <1>1, TrapsInDebug DEF TrapEffect, MTrap, STrap, HartFields
<1>2. CASE s.dcause = "none" /\ take_trap(s, cause, epc) = enter_debug_mode(s, "swbp")
  BY <1>2, EnterDebug DEF TrapEffect, MTrap, STrap, HartFields
<1>3. CASE /\ s.dcause = "none" /\ s.prv \in {"U", "S"}
           /\ take_trap(s, cause, epc) = TrapToS(s, cause, epc)
  BY <1>3, TrapsToS DEF TrapEffect, MTrap, STrap, HartFields
<1>4. CASE s.dcause = "none" /\ take_trap(s, cause, epc) = TrapToM(s, cause, epc)
  BY <1>4, TrapsToM DEF TrapEffect, MTrap, STrap, HartFields
<1> QED BY <1>1, <1>2, <1>3, <1>4, TrapsElsewhere

\* The end of a step enters debug mode when the step is over.
StepEffect(t, f) ==
    /\ State(f)
    /\ f.minstret = t.minstret
    /\ MTrap(f) = MTrap(t) /\ STrap(f) = STrap(t)
    /\ \/ t.single_step # "stepped" /\ f = t
       \/ /\ f # t /\ f.dcause # "none" /\ f.single_step = "none"
          /\ f.dprv = t.prv /\ f.dpc = t.pc

\* A step that is over enters debug mode and is forgotten.
LEMMA StepDebug ==
    ASSUME NEW t, State(t), t.single_step = "stepped"
    PROVE  StepEffect(t, [enter_debug_mode(t, "step") EXCEPT !.single_step = "none"])
<1> DEFINE d == enter_debug_mode(t, "step")
           f == [d EXCEPT !.single_step = "none"]
<1>1. /\ State(d) /\ d.dcause # "none" /\ d.dprv = t.prv /\ d.dpc = t.pc /\ d.prv = "M"
      /\ d.minstret = t.minstret /\ MTrap(d) = MTrap(t) /\ STrap(d) = STrap(t)
  BY EnterDebug DEF HartFields, MTrap, STrap
<1> HIDE DEF d
<1>2. /\ State(f) /\ f.single_step = "none" /\ MTrap(f) = MTrap(d) /\ STrap(f) = STrap(d)
      /\ f.dcause = d.dcause /\ f.dprv = d.dprv /\ f.dpc = d.dpc /\ f.minstret = d.minstret
  BY <1>1 DEF State, HartFields, MTrap, STrap
<1>3. f # t
  BY <1>2
<1> QED BY <1>1, <1>2, <1>3 DEF StepEffect, d

\* What is done behind a trap ends a step or does nothing.
LEMMA EndsStep ==
    ASSUME NEW t, State(t)
    PROVE  StepEffect(t, EndStep(t))
BY StepDebug DEF EndStep, StepEffect

----------------------------------------------------------------------------
(* What the instructions change. *)

\* A field write of mstatus keeps the other fields.
LEMMA Merges ==
    ASSUME NEW st, Status(st), NEW val, NEW fields,
           \A f \in {"mpp", "spp"} \cap DOMAIN val : val[f] \in Modes
    PROVE  /\ Status(Merge(st, val, fields))
           /\ \A f \in StatusFields \ fields : Merge(st, val, fields)[f] = st[f]
BY DEF Status, Merge, StatusFields

\* The value SSTATUS writes: what it read, with the fields of the S mode new.
LEMMA StatusWritten ==
    ASSUME NEW s, State(s), NEW val,
           \A f \in {"mpp", "spp"} \cap DOMAIN val : val[f] \in Modes
    PROVE  /\ State(SetStatus(s, val))
           /\ \A f \in HartFields \ {"mstatus"} : SetStatus(s, val)[f] = s[f]
           /\ \A f \in StatusFields \ ({"sd"} \cup DOMAIN val) : SetStatus(s, val).mstatus[f] = s.mstatus[f]
           /\ \A f \in (StatusFields \ {"sd"}) \cap DOMAIN val : SetStatus(s, val).mstatus[f] = val[f]
<1> DEFINE st == Merge(s.mstatus, val, DOMAIN s.mstatus \ {"sd"})
<1>1. DOMAIN s.mstatus = StatusFields
  BY DEF State, Status
<1>2. Status(st)
  <2>1. Status(s.mstatus)
    BY DEF State
  <2> QED BY <2>1, Merges
<1>5. /\ \A f \in StatusFields \ ({"sd"} \cup DOMAIN val) : st[f] = s.mstatus[f]
      /\ \A f \in (StatusFields \ {"sd"}) \cap DOMAIN val : st[f] = val[f]
  BY <1>1 DEF Merge
<1>3. SetStatus(s, val) = [s EXCEPT !.mstatus = [st EXCEPT !.sd = st.fs = 3]]
  BY DEF SetStatus
<1> HIDE DEF st
<1>4. /\ Status([st EXCEPT !.sd = st.fs = 3])
      /\ \A f \in StatusFields \ {"sd"} : [st EXCEPT !.sd = st.fs = 3][f] = st[f]
  BY <1>2 DEF Status, StatusFields
<1> QED BY <1>2, <1>3, <1>4, <1>5 DEF State, HartFields

\* What a CSR write may touch.
CsrEffect(s, t) ==
    /\ State(t)
    /\ \A f \in {"pc", "prv", "dcause", "dprv", "dpc", "single_step", "minstret"} : t[f] = s[f]
    /\ Native(s) => Native(t)

\* A write of a register that is a field of its own.
Only(s, t, f) ==
    /\ t = [g \in HartFields |-> t[g]]
    /\ \A g \in HartFields \ {f} : t[g] = s[g]
    /\ f \in {"mepc", "sepc"} => t[f] \in Nat \ {10, 11}

\* Such a write leaves privilege, pc and counts alone.
LEMMA WritesField ==
    ASSUME NEW s, State(s), NEW t,
           NEW f \in {"mip", "mie", "mideleg", "medeleg", "mepc", "sepc", "mcounteren",
                      "scounteren", "fflags", "serialized"},
           Only(s, t, f)
    PROVE  CsrEffect(s, t)
BY DEF Only, CsrEffect, State, HartFields, Native

\* The machine's state is out of reach of the supervisor's registers.
LEMMA SetsCsr ==
    ASSUME NEW s, State(s), NEW w \in CsrWrites
    PROVE  /\ CsrEffect(s, set_csr(s, w.which, w.val))
           /\ CsrLegal(s, w.which, TRUE) /\ s.prv # "M"
                 => MachineState(set_csr(s, w.which, w.val)) = MachineState(s)
<1> DEFINE t == set_csr(s, w.which, w.val)
<1>1. CASE w.which = "FFLAGS"
  <2> DEFINE d == DirtyFp(s)
  <2>1. t = [d EXCEPT !.fflags = w.val]
    BY <1>1 DEF set_csr
  <2>2. /\ State(d) /\ \A f \in HartFields \ {"mstatus"} : d[f] = s[f]
        /\ \A f \in StatusFields \ {"fs", "sd"} : d.mstatus[f] = s.mstatus[f]
    BY DEF DirtyFp, State, Status, HartFields, StatusFields
  <2> HIDE DEF d
  <2>3. Only(d, t, "fflags")
    BY <2>1, <2>2 DEF Only, State, HartFields
  <2>6. CsrEffect(d, t)
    BY <2>2, <2>3, WritesField
  <2>4. CsrEffect(s, t)
    BY <2>2, <2>6 DEF CsrEffect, HartFields, Native
  <2>5. MachineState(t) = MachineState(s)
    BY <2>2, <2>3 DEF Only, MachineState, HartFields, StatusFields
  <2> QED BY <2>4, <2>5
<1>2. CASE w.which = "MSTATUS"
  <2>1. t = SetStatus(s, w.val)
    BY <1>2 DEF set_csr
  <2>2. ~(CsrLegal(s, w.which, TRUE) /\ s.prv # "M")
    BY <1>2 DEF CsrLegal, CsrPriv, Rank, State, Privileges
  <2>3. \A f \in {"mpp", "spp"} \cap DOMAIN w.val : w.val[f] \in Modes
    BY <1>2, CsrWritesAssumption DEF Modes
  <2>4. CsrEffect(s, t)
    BY <2>1, <2>3, StatusWritten DEF CsrEffect, HartFields, Native
  <2> QED BY <2>2, <2>4
<1>3. CASE w.which = "SSTATUS"
  <2> DEFINE m == Merge(s.mstatus, w.val, SstatusFields)
  <2>1. t = SetStatus(s, m)
    BY <1>3 DEF set_csr
  <2>2. /\ Status(m) /\ \A f \in StatusFields \ SstatusFields : m[f] = s.mstatus[f]
    BY <1>3, Merges, CsrWritesAssumption DEF State, Modes
  <2> HIDE DEF m
  <2>3. /\ CsrEffect(s, t) /\ \A f \in HartFields \ {"mstatus"} : t[f] = s[f]
        /\ \A f \in StatusFields \ {"sd"} : t.mstatus[f] = m[f]
    BY <2>1, <2>2, StatusWritten DEF CsrEffect, HartFields, Native, Status
  <2> QED BY <2>2, <2>3 DEF MachineState, HartFields, StatusFields, SstatusFields
<1>4. CASE w.which \in {"MIP", "MIE", "MIDELEG", "MEDELEG", "MEPC", "MCOUNTEREN"}
  <2>1. \E f \in {"mip", "mie", "mideleg", "medeleg", "mepc", "mcounteren"} : Only(s, t, f)
    <3>1. CASE w.which = "MIP"
      <4>1. \E v : t = [s EXCEPT !.mip = v]
        BY <3>1 DEF set_csr, SetMip
      <4> QED BY <4>1 DEF Only, State, HartFields
    <3>2. CASE w.which = "MIE"
      <4>1. \E v : t = [s EXCEPT !.mie = v]
        BY <3>2 DEF set_csr, SetMie
      <4> QED BY <4>1 DEF Only, State, HartFields
    <3>3. CASE w.which = "MIDELEG"
      <4>1. \E v : t = [s EXCEPT !.mideleg = v]
        BY <3>3 DEF set_csr
      <4> QED BY <4>1 DEF Only, State, HartFields
    <3>4. CASE w.which = "MEDELEG"
      BY <3>4 DEF set_csr, Only, State, HartFields
    <3>5. CASE w.which = "MEPC"
      BY <3>5, CsrWritesAssumption DEF set_csr, Only, State, HartFields
    <3>6. CASE w.which = "MCOUNTEREN"
      BY <3>6 DEF set_csr, Only, State, HartFields
    <3> QED BY <1>4, <3>1, <3>2, <3>3, <3>4, <3>5, <3>6
  <2>2. CsrEffect(s, t)
    BY <2>1, WritesField
  <2>3. ~(CsrLegal(s, w.which, TRUE) /\ s.prv # "M")
    BY <1>4 DEF CsrLegal, CsrPriv, Rank, State, Privileges
  <2> QED BY <2>2, <2>3
<1>5. CASE w.which = "SIP"
  <2> DEFINE mask == {"SSIP"} \cap s.mideleg
             mip == ((s.mip \ {"SSIP", "STIP"})
                       \cup (((s.mip \ mask) \cup (w.val \cap mask)) \cap {"SSIP", "STIP"}))
  <2>1. t = [s EXCEPT !.mip = mip]
    BY <1>5 DEF set_csr, SetMip, State, HartFields
  <2>2. mip \ s.mideleg = s.mip \ s.mideleg
    OBVIOUS
  <2> HIDE DEF mip
  <2> QED BY <2>1, <2>2 DEF CsrEffect, State, HartFields, Native, MachineState
<1>6. CASE w.which = "SIE"
  <2> DEFINE val == (s.mie \ s.mideleg) \cup (w.val \cap s.mideleg)
             mie == ((s.mie \ AllInts) \cup (val \cap AllInts))
  <2>1. t = [s EXCEPT !.mie = mie]
    BY <1>6 DEF set_csr, SetSie, SetMie, State, HartFields
  <2>2. mie \ s.mideleg = s.mie \ s.mideleg
    OBVIOUS
  <2> HIDE DEF mie
  <2> QED BY <2>1, <2>2 DEF CsrEffect, State, HartFields, Native, MachineState
<1>7. CASE w.which = "SEPC"
  <2>1. t = [s EXCEPT !.sepc = w.val] /\ w.val \in Nat \ {10, 11}
    BY <1>7, CsrWritesAssumption DEF set_csr
  <2>2. Only(s, t, "sepc")
    BY <2>1 DEF Only, State, HartFields
  <2>3. CsrEffect(s, t)
    BY <2>2, WritesField
  <2>4. MachineState(t) = MachineState(s)
    BY <2>2 DEF Only, MachineState, HartFields
  <2> QED BY <2>3, <2>4
<1>8. CASE w.which = "SCOUNTEREN"
  <2>1. t = [s EXCEPT !.scounteren = w.val]
    BY <1>8 DEF set_csr
  <2>2. Only(s, t, "scounteren")
    BY <2>1 DEF Only, State, HartFields
  <2>3. CsrEffect(s, t)
    BY <2>2, WritesField
  <2>4. MachineState(t) = MachineState(s)
    BY <2>2 DEF Only, MachineState, HartFields
  <2> QED BY <2>3, <2>4
<1> QED BY <1>1, <1>2, <1>3, <1>4, <1>5, <1>6, <1>7, <1>8, CsrWritesAssumption

\* What an instruction outside debug mode may do to the state.
InsnEffect(s, r) ==
    /\ State(r.s)
    /\ r.s.minstret = s.minstret /\ r.s.dcause = "none" /\ r.s.single_step = s.single_step
    /\ Native(s) => Native(r.s)
    /\ s.prv # "M" /\ r.s.prv # "M" => MachineState(r.s) = MachineState(s)
    /\ \/ r.npc = "next" /\ r.s.pc = s.pc /\ r.s.prv = s.prv
       \/ /\ r.npc \in {"trap", "before"}
          /\ \A f \in HartFields \ {"serialized"} : r.s[f] = s[f]
       \/ /\ r.npc = "after"
          /\ r.s.mepc = s.mepc /\ r.s.sepc = s.sepc
          /\ MTrap(r.s) = MTrap(s) \/ (s.prv = "M" /\ r.s.pc = s.mepc)
          /\ STrap(r.s) = STrap(s) \/ r.s.pc = s.sepc

\* A CSR instruction: serialised first, then a trap or the write.
LEMMA RunsCsr ==
    ASSUME NEW s, State(s), s.dcause = "none", NEW w \in CsrWrites
    PROVE  InsnEffect(s, csrrw(s, w.which, TRUE, w.val))
<1> DEFINE t == [s EXCEPT !.serialized = FALSE]
           r == csrrw(s, w.which, TRUE, w.val)
<1>1. CASE ~s.serialized
  BY <1>1 DEF csrrw, InsnEffect
<1>2. CASE s.serialized
  <2>1. State(t) /\ \A f \in HartFields \ {"serialized"} : t[f] = s[f]
    BY DEF State, HartFields
  <2> HIDE DEF t
  <2>4. MachineState(t) = MachineState(s) /\ (Native(s) => Native(t))
    BY <2>1 DEF MachineState, Native, HartFields
  <2>2. CASE ~CsrLegal(t, w.which, TRUE)
    <3>1. r.s = t /\ r.npc = "trap"
      BY <1>2, <2>2 DEF csrrw, Trap, t
    <3> HIDE DEF r
    <3>2. InsnEffect(s, r)
      BY <2>1, <2>4, <3>1 DEF InsnEffect, HartFields
    <3> QED BY <3>2 DEF r
  <2>3. CASE CsrLegal(t, w.which, TRUE)
    <3> DEFINE u == set_csr(t, w.which, w.val)
    <3>1. r.s = u /\ r.npc = "next"
      BY <1>2, <2>3 DEF csrrw, Done, t
    <3>2. CsrEffect(t, u) /\ (t.prv # "M" => MachineState(u) = MachineState(t))
      BY <2>1, <2>3, SetsCsr
    <3> HIDE DEF u, r
    <3>3. InsnEffect(s, r)
      BY <2>1, <2>4, <3>1, <3>2 DEF CsrEffect, InsnEffect, HartFields
    <3> QED BY <3>3 DEF r
  <2> QED BY <2>2, <2>3
<1> QED BY <1>1, <1>2

\* Reading the counter of instructions, which is legal or not.
LEMMA ReadsInstret ==
    ASSUME NEW s, State(s), s.dcause = "none"
    PROVE  InsnEffect(s, csrrw(s, "INSTRET", FALSE, 0))
<1> DEFINE t == [s EXCEPT !.serialized = FALSE]
           r == csrrw(s, "INSTRET", FALSE, 0)
<1>1. CASE ~s.serialized
  BY <1>1 DEF csrrw, InsnEffect
<1>2. CASE s.serialized
  <2>1. State(t) /\ \A f \in HartFields \ {"serialized"} : t[f] = s[f]
    BY DEF State, HartFields
  <2>2. r.s = t /\ r.npc \in {"trap", "next"}
    BY <1>2 DEF csrrw, Trap, Done
  <2> HIDE DEF t, r
  <2> QED BY <2>1, <2>2 DEF InsnEffect, HartFields, Native, MachineState, r
<1> QED BY <1>1, <1>2

\* mret restores what the latest trap to M mode saved.
LEMMA RunsMret ==
    ASSUME NEW s, State(s), s.dcause = "none"
    PROVE  InsnEffect(s, mret(s))
<1> DEFINE r == mret(s)
<1>1. CASE s.prv # "M"
  BY <1>1 DEF mret, Trap, InsnEffect
<1>2. CASE s.prv = "M"
  <2>1. /\ r.npc = "after" /\ State(r.s) /\ r.s.pc = s.mepc
        /\ \A f \in HartFields \ {"pc", "prv", "mstatus"} : r.s[f] = s[f]
        /\ \A f \in StatusFields \ {"mie", "mpie", "mpp"} : r.s.mstatus[f] = s.mstatus[f]
    BY <1>2 DEF mret, After, set_privilege, State, Status, HartFields, StatusFields, Modes, Privileges
  <2> HIDE DEF r
  <2> QED BY <1>2, <2>1 DEF InsnEffect, Native, HartFields, StatusFields, MTrap, STrap, r
<1> QED BY <1>1, <1>2

\* sret restores what the latest trap to S mode saved.
LEMMA RunsSret ==
    ASSUME NEW s, State(s), s.dcause = "none"
    PROVE  InsnEffect(s, sret(s))
<1> DEFINE r == sret(s)
<1>1. CASE Rank[s.prv] < (IF s.mstatus.tsr THEN 3 ELSE 1)
  BY <1>1 DEF sret, Trap, InsnEffect
<1>2. CASE ~(Rank[s.prv] < (IF s.mstatus.tsr THEN 3 ELSE 1))
  <2>1. /\ r.npc = "after" /\ State(r.s) /\ r.s.pc = s.sepc
        /\ \A f \in HartFields \ {"pc", "prv", "mstatus"} : r.s[f] = s[f]
        /\ \A f \in StatusFields \ {"sie", "spie", "spp"} : r.s.mstatus[f] = s.mstatus[f]
    BY <1>2 DEF sret, After, set_privilege, State, Status, HartFields, StatusFields, Modes, Privileges
  <2> HIDE DEF r
  <2> QED BY <2>1 DEF InsnEffect, Native, HartFields, StatusFields, MTrap, STrap, MachineState, r
<1> QED BY <1>1, <1>2

\* wfi is a jump to the next instruction.
LEMMA RunsWfi ==
    ASSUME NEW s, State(s), s.dcause = "none"
    PROVE  InsnEffect(s, wfi(s))
<1> DEFINE r == wfi(s)
<1>1. CASE s.prv = "U"
  BY <1>1 DEF wfi, Trap, InsnEffect
<1>2. CASE s.prv # "U"
  <2>1. /\ r.npc = "after" /\ State(r.s) /\ r.s.pc = NextPc(s.pc)
        /\ \A f \in HartFields \ {"pc"} : r.s[f] = s[f]
    BY <1>2 DEF wfi, After, State, HartFields
  <2>2. Native(s) => NextPc(s.pc) \in Nat \ {10, 11}
    BY DEF Native, NextPc, TVEC
  <2> HIDE DEF r
  <2> QED BY <2>1, <2>2 DEF InsnEffect, Native, HartFields, MTrap, STrap, MachineState, r
<1> QED BY <1>1, <1>2

\* Outside debug mode every instruction has this effect.
LEMMA Instructs ==
    ASSUME NEW s, State(s), s.dcause = "none", NEW r \in Results(s)
    PROVE  InsnEffect(s, r)
<1>1. CASE r = Done(s)
  BY <1>1 DEF Done, InsnEffect
<1>2. CASE r \in {ecall(s), Trap(s, "breakpoint")}
  BY <1>2 DEF ecall, Trap, InsnEffect
<1>3. CASE r \in {csrrw(s, w.which, TRUE, w.val) : w \in CsrWrites}
  BY <1>3, RunsCsr
<1> QED BY <1>1, <1>2, <1>3, ReadsInstret, RunsMret, RunsSret, RunsWfi DEF Results

\* In debug mode the ROM waits, writes dcsr or resumes.
RomEffect(s, r) ==
    /\ State(r.s) /\ r.s.minstret = s.minstret
    /\ MTrap(r.s) = MTrap(s) /\ STrap(r.s) = STrap(s)
    /\ \/ /\ r.npc = "next"
          /\ r.s.prv = s.prv /\ r.s.pc = s.pc /\ r.s.single_step = s.single_step
          /\ r.s.dcause = s.dcause /\ r.s.dprv = s.dprv /\ r.s.dpc = s.dpc
       \/ /\ r.npc = "after" /\ r.s.dcause = "none"
          /\ s.dstep => r.s.single_step = "stepping"

\* Every instruction of the debug ROM does one of these.
LEMMA RunsRom ==
    ASSUME NEW s, State(s), s.dcause # "none", NEW r \in RomResults(s)
    PROVE  RomEffect(s, r)
<1>1. CASE r = Done(s)
  BY <1>1 DEF Done, RomEffect
<1>2. CASE r = dret(s)
  <2>1. s.prv = "M"
    BY DEF State
  <2>2. /\ r.npc = "after" /\ State(r.s)
        /\ r.s.dcause = "none" /\ (s.dstep => r.s.single_step = "stepping")
        /\ \A f \in HartFields \ {"pc", "prv", "dcause", "single_step"} : r.s[f] = s[f]
    BY <1>2, <2>1 DEF dret, After, set_privilege, State, HartFields, Privileges
  <2> QED BY <2>2 DEF RomEffect, MTrap, STrap, HartFields
<1>3. CASE r \in {Done([s EXCEPT !.dstep = d[1], !.dhalt = FALSE, !.ebreakm = d[2]])
                    : d \in BOOLEAN \X BOOLEAN}
  <2>1. PICK d \in BOOLEAN \X BOOLEAN :
           r = Done([s EXCEPT !.dstep = d[1], !.dhalt = FALSE, !.ebreakm = d[2]])
    BY <1>3
  <2> DEFINE t == [s EXCEPT !.dstep = d[1], !.dhalt = FALSE, !.ebreakm = d[2]]
  <2>2. State(t) /\ \A f \in HartFields \ {"dstep", "dhalt", "ebreakm"} : t[f] = s[f]
    BY DEF State, HartFields
  <2>3. r.s = t /\ r.npc = "next"
    BY <2>1 DEF Done
  <2> HIDE DEF t
  <2> QED BY <2>2, <2>3 DEF RomEffect, MTrap, STrap, HartFields
<1> QED BY <1>1, <1>2, <1>3 DEF RomResults

----------------------------------------------------------------------------
(* The invariant.  Between two calls of step() and at the top of its loop  *)
(* no instruction is uncounted; until debug mode is first entered minstret *)
(* and the batch so far make what retired, and the pc is outside the ROM,  *)
(* whose return drops the batch; while a step is under way the hart is not *)
(* in debug mode and remembers the step; what the ghosts saved is what the *)
(* registers say.                                                          *)

Counted(s, k, b, n) ==
    /\ s.dcause # "none" => b
    /\ ~b => n = s.minstret + k /\ Native(s)
Stepping(s, n) ==
    /\ n \in {-1, 0}
    /\ n = 0 => s.dcause = "none" /\ s.single_step # "none"
Saved(s, m, v, d) ==
    /\ m # <<>> => m = MTrap(s)
    /\ v # <<>> => v = STrap(s)
    /\ s.dcause # "none" /\ d # <<>> => d = <<s.dprv, s.dpc>>

HartInv ==
    /\ State(h) /\ debugged \in BOOLEAN
    /\ instret \in Int /\ retired \in Int
    /\ loop \in {"idle", "outer", "slow", "fast"}
    /\ loop \in {"idle", "outer"} => instret = 0
    /\ loop = "slow" => SlowPath(h)
    /\ loop = "fast" => ~SlowPath(h)
    /\ Counted(h, instret, debugged, retired)
    /\ Stepping(h, stepped)
    /\ Saved(h, savedM, savedS, savedD)

\* A trap and the end of a step keep what the ghosts say of the state.
LEMMA Interrupts ==
    ASSUME NEW s, NEW t, NEW f, State(s), TrapEffect(s, t, s.pc), StepEffect(t, f),
           Interrupted(s, t, f, s.pc), debugged \in BOOLEAN,
           Counted(s, 0, debugged, retired) \/ Counted(s, instret, debugged, retired),
           Stepping(s, stepped), Saved(s, savedM, savedS, savedD)
    PROVE  /\ State(f) /\ f.minstret = s.minstret
           /\ debugged' \in BOOLEAN /\ (f.dcause # "none" => debugged')
           /\ ~debugged' => ~debugged /\ Native(f)
           /\ Stepping(f, stepped') /\ Saved(f, savedM', savedS', savedD')
<1>1. State(t) /\ State(f) /\ f.minstret = s.minstret
  BY DEF TrapEffect, StepEffect
<1>2. /\ debugged' \in BOOLEAN /\ (f.dcause # "none" => debugged')
      /\ ~debugged' => ~debugged /\ f.dcause = "none"
  BY DEF Interrupted
<1>3. f.dcause = "none" => f = t /\ t.dcause = "none"
  BY DEF StepEffect
<1>4. ASSUME ~debugged' PROVE Native(f)
  <2>1. f = t /\ t.dcause = "none" /\ s.dcause = "none" /\ Native(s)
    BY <1>2, <1>3, <1>4 DEF Counted, TrapEffect
  <2> QED BY <2>1 DEF TrapEffect, Native, MTVEC, STVEC
<1>5. Stepping(f, stepped')
  BY <1>3 DEF Stepping, Interrupted, TrapEffect
<1>6. Saved(f, savedM', savedS', savedD')
  <2>1. savedM' # <<>> => savedM' = MTrap(f)
    BY DEF Saved, Interrupted, TrapEffect, StepEffect, MTVEC, STVEC
  <2>2. savedS' # <<>> => savedS' = STrap(f)
    BY DEF Saved, Interrupted, TrapEffect, StepEffect, MTVEC, STVEC
  <2>3. f.dcause # "none" /\ savedD' # <<>> => savedD' = <<f.dprv, f.dpc>>
    BY DEF Saved, Interrupted, EntersTwice, TrapEffect, StepEffect
  <2> QED BY <2>1, <2>2, <2>3 DEF Saved
<1> QED BY <1>1, <1>2, <1>4, <1>5, <1>6

\* The end of an iteration adds to minstret and nothing else.
LEMMA EndsIteration ==
    ASSUME NEW s, State(s), NEW k \in Int, NEW rest, EndIteration(s, k, rest)
    PROVE  /\ State(h') /\ h'.minstret = s.minstret + k
           /\ \A f \in HartFields \ {"minstret"} : h'[f] = s[f]
           /\ instret' = 0 /\ loop' \in {"idle", "outer"}
BY DEF EndIteration, State, HartFields

\* The registers but minstret decide everything but the count.
LEMMA SameButCount ==
    ASSUME NEW s, NEW t, \A f \in HartFields \ {"minstret"} : t[f] = s[f]
    PROVE  /\ \A n : Stepping(s, n) => Stepping(t, n)
           /\ \A m, v, d : Saved(s, m, v, d) => Saved(t, m, v, d)
           /\ Native(s) => Native(t)
           /\ MTrap(t) = MTrap(s) /\ STrap(t) = STrap(s) /\ MachineState(t) = MachineState(s)
           /\ t.dcause = s.dcause /\ t.prv = s.prv /\ t.pc = s.pc
BY DEF HartFields, Stepping, Saved, MTrap, STrap, Native, MachineState

----------------------------------------------------------------------------
(* One step of the hart. *)

\* A call of step() may enter debug mode first.
LEMMA BeginKeeps ==
    ASSUME HartInv, Begin
    PROVE  HartInv'
<1>1. /\ State(h) /\ instret = 0 /\ retired \in Int /\ debugged \in BOOLEAN
      /\ Counted(h, instret, debugged, retired) /\ Stepping(h, stepped)
      /\ Saved(h, savedM, savedS, savedD)
  BY DEF HartInv, Begin
<1>2. /\ loop' = "outer" /\ instret' = 0 /\ retired' = retired
      /\ savedM' = savedM /\ savedS' = savedS
      /\ debugged' = (debugged \/ h'.dcause # "none")
      /\ savedD' = IF h'.dcause # h.dcause THEN <<h.prv, h.pc>> ELSE savedD
      /\ stepped' = IF h'.dcause # "none" THEN -1 ELSE stepped
  BY <1>1 DEF Begin
<1>3. CASE h' = h
  BY <1>1, <1>2, <1>3 DEF HartInv, Counted, Stepping, Saved
<1>4. CASE h.dcause = "none" /\ \E c \in {"debugint", "halt"} : h' = enter_debug_mode(h, c)
  <2>1. /\ State(h') /\ h'.dcause # "none" /\ h'.dprv = h.prv /\ h'.dpc = h.pc
        /\ \A f \in HartFields \ {"dcause", "dprv", "dpc", "prv", "pc"} : h'[f] = h[f]
    BY <1>1, <1>4, EnterDebug
  <2>2. MTrap(h') = MTrap(h) /\ STrap(h') = STrap(h)
    BY <2>1 DEF MTrap, STrap, HartFields
  <2>3. debugged' = TRUE /\ stepped' = -1 /\ savedD' = <<h.prv, h.pc>>
    BY <1>2, <1>4, <2>1
  <2>4. Counted(h', 0, debugged', retired') /\ Stepping(h', stepped')
    BY <2>1, <2>3 DEF Counted, Stepping
  <2>5. Saved(h', savedM', savedS', savedD')
    BY <1>1, <1>2, <2>1, <2>2, <2>3 DEF Saved
  <2> QED BY <1>1, <1>2, <2>1, <2>3, <2>4, <2>5 DEF HartInv
<1> QED BY <1>3, <1>4 DEF Begin

\* An interrupt ends the call.
LEMMA TakeInterruptKeeps ==
    ASSUME HartInv, TakeInterrupt
    PROVE  HartInv'
<1> DEFINE t == take_trap(h, Lowest(Enabled(h)), h.pc)
<1>1. /\ h' = EndStep(t) /\ Interrupted(h, t, EndStep(t), h.pc)
      /\ instret' = 0 /\ loop' = "idle" /\ retired' = retired
  BY DEF TakeInterrupt
<1>2. TrapEffect(h, t, h.pc)
  BY TakesTrap DEF HartInv
<1> HIDE DEF t
<1>3. StepEffect(t, h')
  BY <1>1, <1>2, EndsStep DEF TrapEffect
<1>4. /\ State(h') /\ h'.minstret = h.minstret
      /\ debugged' \in BOOLEAN /\ (h'.dcause # "none" => debugged')
      /\ ~debugged' => ~debugged /\ Native(h')
      /\ Stepping(h', stepped') /\ Saved(h', savedM', savedS', savedD')
  BY <1>1, <1>2, <1>3, Interrupts DEF HartInv
<1>5. instret = 0
  BY DEF HartInv, TakeInterrupt
<1>6. Counted(h', 0, debugged', retired')
  BY <1>1, <1>4, <1>5 DEF HartInv, Counted
<1> QED BY <1>1, <1>4, <1>6 DEF HartInv

\* A batch begins on the path its state asks for.
LEMMA StartBatchKeeps ==
    ASSUME HartInv, StartBatch
    PROVE  HartInv'
BY DEF HartInv, StartBatch, ghostVars, SlowPath

\* The state an instruction begins with: a step that was set up is begun.
Fetched(s) ==
    /\ State(s) /\ \A f \in HartFields \ {"single_step"} : s[f] = h[f]
    /\ debugged \in BOOLEAN /\ instret \in Int /\ retired \in Int
    /\ loop \in {"slow", "fast"}
    /\ loop = "slow" /\ s.single_step # "stepped" => s.dcause # "none"
    /\ loop = "fast" => s.single_step = "none" /\ s.dcause = "none"
    /\ Counted(s, instret, debugged, retired) /\ Stepping(s, stepped)
    /\ Saved(s, savedM, savedS, savedD)
    /\ SlowPath(s) <=> SlowPath(h)

\* Under the invariant every instruction begins with such a state.
LEMMA Fetches ==
    ASSUME HartInv, loop \in {"slow", "fast"}, NEW s,
           s = IF loop = "slow" /\ h.single_step = "stepping"
                 THEN [h EXCEPT !.single_step = "stepped"] ELSE h
    PROVE  Fetched(s)
<1>1. /\ State(s) /\ \A f \in HartFields \ {"single_step"} : s[f] = h[f]
      /\ s.single_step = IF loop = "slow" /\ h.single_step = "stepping" THEN "stepped" ELSE h.single_step
  BY DEF HartInv, State, HartFields
<1>2. MTrap(s) = MTrap(h) /\ STrap(s) = STrap(h) /\ (Native(h) => Native(s))
  BY <1>1 DEF MTrap, STrap, Native, HartFields
<1>3. Saved(s, savedM, savedS, savedD)
  BY <1>1, <1>2 DEF HartInv, Saved, HartFields
<1>4. Counted(s, instret, debugged, retired) /\ Stepping(s, stepped)
  BY <1>1, <1>2 DEF HartInv, Counted, Stepping, HartFields
<1>5. SlowPath(s) <=> SlowPath(h)
  BY <1>1 DEF SlowPath, HartFields
<1>6. /\ loop = "slow" /\ s.single_step # "stepped" => s.dcause # "none"
      /\ loop = "fast" => s.single_step = "none" /\ s.dcause = "none"
  BY <1>1 DEF HartInv, SlowPath, State, HartFields
<1> QED BY <1>1, <1>3, <1>4, <1>5, <1>6 DEF HartInv, Fetched

\* An instruction that traps ends the batch without being counted.
LEMMA InstructionTrapKeeps ==
    ASSUME NEW s, Fetched(s), NEW r, r.npc = "trap",
           IF s.dcause = "none" THEN InsnEffect(s, r) ELSE RomEffect(s, r),
           InstructionTrap(s, r)
    PROVE  HartInv'
<1> DEFINE t == take_trap(r.s, r.cause, s.pc)
<1>1. /\ s.dcause = "none" /\ State(r.s) /\ r.s.minstret = s.minstret
      /\ \A f \in HartFields \ {"serialized"} : r.s[f] = s[f]
  BY DEF InsnEffect, RomEffect
<1>2. /\ r.s.pc = s.pc /\ r.s.dcause = "none"
      /\ Counted(r.s, instret, debugged, retired)
      /\ Stepping(r.s, stepped) /\ Saved(r.s, savedM, savedS, savedD)
  BY <1>1 DEF Fetched, HartFields, Counted, Native, Stepping, Saved, MTrap, STrap
<1>3. /\ EndIteration(EndStep(t), instret, instret)
      /\ Interrupted(r.s, t, EndStep(t), r.s.pc) /\ retired' = retired
  BY <1>2 DEF InstructionTrap
<1>4. TrapEffect(r.s, t, r.s.pc)
  BY <1>1, <1>2, TakesTrap
<1> HIDE DEF t
<1> DEFINE f == EndStep(t)
<1>5. StepEffect(t, f)
  BY <1>4, EndsStep DEF TrapEffect
<1> HIDE DEF f
<1>6. /\ State(f) /\ f.minstret = s.minstret
      /\ debugged' \in BOOLEAN /\ (f.dcause # "none" => debugged')
      /\ ~debugged' => ~debugged /\ Native(f)
      /\ Stepping(f, stepped') /\ Saved(f, savedM', savedS', savedD')
  BY <1>1, <1>2, <1>3, <1>4, <1>5, Interrupts DEF Fetched, f
<1>7. /\ State(h') /\ h'.minstret = s.minstret + instret
      /\ \A g \in HartFields \ {"minstret"} : h'[g] = f[g]
      /\ instret' = 0 /\ loop' \in {"idle", "outer"}
  BY <1>3, <1>6, EndsIteration DEF Fetched, f
<1>8. Stepping(h', stepped') /\ Saved(h', savedM', savedS', savedD')
  BY <1>6, <1>7, SameButCount
<1>9. Counted(h', 0, debugged', retired')
  BY <1>3, <1>6, <1>7, SameButCount DEF Fetched, Counted
<1> QED BY <1>3, <1>6, <1>7, <1>8, <1>9 DEF Fetched, HartInv

\* A CSR instruction met the first time ends the batch in front of it.
LEMMA SerializeBeforeKeeps ==
    ASSUME NEW s, Fetched(s), NEW r, r.npc = "before",
           IF s.dcause = "none" THEN InsnEffect(s, r) ELSE RomEffect(s, r),
           SerializeBefore(s, r)
    PROVE  HartInv'
<1> DEFINE f == [r.s EXCEPT !.serialized = TRUE]
<1>1. /\ s.dcause = "none" /\ State(r.s) /\ r.s.minstret = s.minstret
      /\ \A g \in HartFields \ {"serialized"} : r.s[g] = s[g]
  BY DEF InsnEffect, RomEffect
<1>2. State(f) /\ \A g \in HartFields \ {"serialized"} : f[g] = s[g]
  BY <1>1 DEF State, HartFields
<1>3. EndIteration(f, instret, nleft) /\ UNCHANGED ghostVars
  BY DEF SerializeBefore
<1> HIDE DEF f
<1>4. /\ Counted(f, instret, debugged, retired)
      /\ Stepping(f, stepped) /\ Saved(f, savedM, savedS, savedD)
  BY <1>2 DEF Fetched, HartFields, Counted, Native, Stepping, Saved, MTrap, STrap
<1>5. /\ State(h') /\ h'.minstret = f.minstret + instret
      /\ \A g \in HartFields \ {"minstret"} : h'[g] = f[g]
      /\ instret' = 0 /\ loop' \in {"idle", "outer"}
  BY <1>2, <1>3, EndsIteration DEF Fetched
<1>6. Stepping(h', stepped) /\ Saved(h', savedM, savedS, savedD)
  BY <1>4, <1>5, SameButCount
<1>7. Counted(h', 0, debugged, retired)
  BY <1>4, <1>5, SameButCount DEF Fetched, Counted
<1> QED BY <1>3, <1>5, <1>6, <1>7 DEF Fetched, HartInv, ghostVars

\* mret, sret, wfi and dret end the batch behind them.
LEMMA SerializeAfterKeeps ==
    ASSUME NEW s, Fetched(s), NEW r, r.npc = "after",
           IF s.dcause = "none" THEN InsnEffect(s, r) ELSE RomEffect(s, r),
           SerializeAfter(s, r)
    PROVE  HartInv'
<1>1. State(r.s) /\ r.s.minstret = s.minstret /\ r.s.dcause = "none"
  BY DEF InsnEffect, RomEffect
<1>2. /\ EndIteration(r.s, instret + 1, instret + 1)
      /\ retired' = IF s.dcause = "none" THEN retired + 1 ELSE retired
      /\ stepped' = IF s.dcause # "none" /\ s.dstep THEN 0 ELSE -1
      /\ savedM' = IF s.mepc = r.s.pc /\ s.prv = "M" THEN <<>> ELSE savedM
      /\ savedS' = IF s.sepc = r.s.pc THEN <<>> ELSE savedS
      /\ debugged' = debugged
  BY DEF SerializeAfter, Retire
<1>3. /\ State(h') /\ h'.minstret = s.minstret + (instret + 1)
      /\ \A g \in HartFields \ {"minstret"} : h'[g] = r.s[g]
      /\ instret' = 0 /\ loop' \in {"idle", "outer"}
  BY <1>1, <1>2, EndsIteration DEF Fetched
<1>4. Stepping(r.s, stepped')
  BY <1>1, <1>2 DEF Stepping, RomEffect
<1>5. Saved(r.s, savedM', savedS', savedD')
  BY <1>1, <1>2 DEF Fetched, Saved, InsnEffect, RomEffect
<1>6. Counted(h', 0, debugged', retired')
  <2>1. h'.dcause = "none"
    BY <1>1, <1>3, SameButCount
  <2>2. ASSUME ~debugged PROVE retired' = h'.minstret /\ Native(h')
    <3>1. s.dcause = "none" /\ retired = s.minstret + instret /\ Native(s)
      BY <2>2 DEF Fetched, Counted
    <3>2. Native(r.s)
      BY <3>1 DEF InsnEffect
    <3> QED BY <1>2, <1>3, <3>1, <3>2, SameButCount DEF Fetched, State
  <2> QED BY <1>2, <1>3, <2>1, <2>2 DEF Counted, State
<1>7. Stepping(h', stepped') /\ Saved(h', savedM', savedS', savedD')
  BY <1>3, <1>4, <1>5, SameButCount
<1>8. retired' \in Int /\ debugged' \in BOOLEAN
  BY <1>2 DEF Fetched
<1> QED BY <1>3, <1>6, <1>7, <1>8 DEF HartInv

\* A retired instruction ends the step, returns to the caller of step() from
\* the debug ROM, or goes on with the batch.
LEMMA RetiredKeeps ==
    ASSUME NEW s, Fetched(s), NEW r, r.npc = "next",
           IF s.dcause = "none" THEN InsnEffect(s, r) ELSE RomEffect(s, r),
           Retired(s, r)
    PROVE  HartInv'
<1> DEFINE t == [r.s EXCEPT !.pc = NextPc(s.pc)]
           f == [enter_debug_mode(t, "step") EXCEPT !.single_step = "none"]
<1>1. /\ State(r.s) /\ r.s.minstret = s.minstret /\ r.s.dcause = s.dcause
      /\ r.s.single_step = s.single_step
  BY DEF InsnEffect, RomEffect
<1>2. State(t) /\ t.pc = NextPc(s.pc) /\ \A g \in HartFields \ {"pc"} : t[g] = r.s[g]
  BY <1>1 DEF State, HartFields
<1>3. /\ retired' = IF s.dcause = "none" THEN retired + 1 ELSE retired
      /\ Software(s, r.s)
  BY DEF Retired, Retire
<1>4. \/ /\ s.single_step = "stepped"
         /\ EndIteration(f, instret + 1, nleft)
         /\ stepped' = -1 /\ debugged' = TRUE
         /\ savedD' = IF t.dcause # "none" THEN <<>> ELSE <<t.prv, t.pc>>
      \/ /\ loop = "slow" /\ s.single_step # "stepped"
         /\ h' = t /\ loop' = "idle" /\ instret' = 0
         /\ stepped' = stepped /\ debugged' = debugged /\ savedD' = savedD
      \/ /\ loop = "fast" \/ (s.single_step # "stepped" /\ ~InDebugRegion(t.pc))
         /\ stepped' = StepCount /\ debugged' = debugged /\ savedD' = savedD
         /\ \/ EndIteration(t, instret + 1, nleft)
            \/ h' = t /\ instret' = instret + 1 /\ loop' = loop
  <2>1. \/ /\ loop = "slow" /\ s.single_step = "stepped"
           /\ EndIteration(f, instret + 1, nleft)
           /\ stepped' = -1 /\ debugged' = TRUE
           /\ savedD' = IF t.dcause # "none" THEN <<>> ELSE <<t.prv, t.pc>>
        \/ /\ loop = "slow" /\ s.single_step # "stepped" /\ InDebugRegion(t.pc)
           /\ h' = t /\ loop' = "idle" /\ nleft' = 0 /\ instret' = 0
           /\ UNCHANGED <<stepped, debugged, savedD>>
        \/ /\ loop = "fast" \/ (s.single_step # "stepped" /\ ~InDebugRegion(t.pc))
           /\ stepped' = StepCount
           /\ UNCHANGED <<debugged, savedD>>
           /\ IF instret + 1 = nleft THEN EndIteration(t, nleft, nleft)
              ELSE h' = t /\ instret' = instret + 1 /\ UNCHANGED <<nleft, loop>>
    BY Zenon DEF Retired
  <2>2. \/ instret + 1 = nleft /\ (EndIteration(t, nleft, nleft) => EndIteration(t, instret + 1, nleft))
        \/ instret + 1 # nleft
    BY Zenon
  <2> HIDE DEF t, f
  <2>3. UNCHANGED <<nleft, loop>> => loop' = loop
    OBVIOUS
  <2>4. UNCHANGED <<debugged, savedD>> => debugged' = debugged /\ savedD' = savedD
    OBVIOUS
  <2>5. UNCHANGED <<stepped, debugged, savedD>>
           => stepped' = stepped /\ debugged' = debugged /\ savedD' = savedD
    OBVIOUS
  <2>6. CASE /\ loop = "slow" /\ s.single_step = "stepped"
             /\ EndIteration(f, instret + 1, nleft)
             /\ stepped' = -1 /\ debugged' = TRUE
             /\ savedD' = IF t.dcause # "none" THEN <<>> ELSE <<t.prv, t.pc>>
    BY <2>6, Zenon
  <2>7. CASE /\ loop = "slow" /\ s.single_step # "stepped" /\ InDebugRegion(t.pc)
             /\ h' = t /\ loop' = "idle" /\ nleft' = 0 /\ instret' = 0
             /\ UNCHANGED <<stepped, debugged, savedD>>
    BY <2>5, <2>7, Zenon
  <2>8. CASE /\ loop = "fast" \/ (s.single_step # "stepped" /\ ~InDebugRegion(t.pc))
             /\ stepped' = StepCount
             /\ UNCHANGED <<debugged, savedD>>
             /\ IF instret + 1 = nleft THEN EndIteration(t, nleft, nleft)
                ELSE h' = t /\ instret' = instret + 1 /\ UNCHANGED <<nleft, loop>>
    <3>1. debugged' = debugged /\ savedD' = savedD
      BY <2>4, <2>8
    <3>2. EndIteration(t, instret + 1, nleft) \/ (h' = t /\ instret' = instret + 1 /\ loop' = loop)
      BY <2>2, <2>3, <2>8, Zenon
    <3>3. loop = "fast" \/ (s.single_step # "stepped" /\ ~InDebugRegion(t.pc))
      BY <2>8
    <3>4. stepped' = StepCount
      BY <2>8
    <3> QED BY <3>1, <3>2, <3>3, <3>4, Zenon
  <2> QED BY <2>1, <2>6, <2>7, <2>8, Zenon
<1> HIDE DEF t
<1>5. MTrap(t) = MTrap(r.s) /\ STrap(t) = STrap(r.s)
  BY <1>2 DEF MTrap, STrap, HartFields
<1>6. /\ savedM' # <<>> => savedM' = MTrap(t)
      /\ savedS' # <<>> => savedS' = STrap(t)
  <2> DEFINE bare(st) == [st EXCEPT !.fs = 0, !.sd = FALSE]
  <2>1. Status(s.mstatus) /\ Status(r.s.mstatus)
    BY <1>1 DEF Fetched, State
  <2>2. bare(r.s.mstatus) = bare(s.mstatus) =>
           /\ r.s.mstatus.mpp = s.mstatus.mpp /\ r.s.mstatus.mpie = s.mstatus.mpie
           /\ r.s.mstatus.spp = s.mstatus.spp /\ r.s.mstatus.spie = s.mstatus.spie
    <3>1. \A st : Status(st) => \A g \in {"mpp", "mpie", "spp", "spie"} : bare(st)[g] = st[g]
      BY DEF Status, StatusFields
    <3> HIDE DEF bare
    <3> QED BY <2>1, <3>1
  <2>3. /\ savedM' # <<>> => /\ bare(r.s.mstatus) = bare(s.mstatus) /\ r.s.mepc = s.mepc
                             /\ savedM' = savedM
        /\ savedS' # <<>> => /\ bare(r.s.mstatus) = bare(s.mstatus) /\ r.s.sepc = s.sepc
                             /\ savedS' = savedS
    BY <1>3 DEF Software
  <2> HIDE DEF bare
  <2> QED BY <1>5, <2>2, <2>3 DEF Fetched, Saved, MTrap, STrap
<1>7. ASSUME ~debugged PROVE s.dcause = "none" /\ retired = s.minstret + instret /\ Native(t)
  <2>1. s.dcause = "none" /\ retired = s.minstret + instret /\ Native(s)
    BY <1>7 DEF Fetched, Counted
  <2>2. Native(r.s)
    BY <2>1 DEF InsnEffect
  <2>3. NextPc(s.pc) \in Nat \ {10, 11}
    BY <2>1 DEF Native, NextPc, TVEC
  <2> QED BY <2>1, <2>2, <2>3, <1>2 DEF Native, HartFields
<1>8. retired' \in Int
  BY <1>3 DEF Fetched
<1>a. CASE /\ s.single_step = "stepped"
           /\ EndIteration(f, instret + 1, nleft)
           /\ stepped' = -1 /\ debugged' = TRUE
           /\ savedD' = IF t.dcause # "none" THEN <<>> ELSE <<t.prv, t.pc>>
  <2>1. StepEffect(t, f)
    BY <1>1, <1>2, <1>a, StepDebug DEF HartFields
  <2> HIDE DEF f
  <2>2. Saved(f, savedM', savedS', savedD')
    BY <1>1, <1>2, <1>6, <1>a, <2>1 DEF StepEffect, Saved, HartFields
  <2>3. /\ State(h') /\ \A g \in HartFields \ {"minstret"} : h'[g] = f[g]
        /\ instret' = 0 /\ loop' \in {"idle", "outer"}
    BY <1>a, <2>1, EndsIteration DEF StepEffect, Fetched
  <2>4. Saved(h', savedM', savedS', savedD')
    BY <2>2, <2>3, SameButCount
  <2>5. Counted(h', 0, debugged', retired') /\ Stepping(h', stepped')
    BY <1>a DEF Counted, Stepping
  <2>6. debugged' \in BOOLEAN
    BY <1>a
  <2> QED BY <1>8, <2>3, <2>4, <2>5, <2>6 DEF HartInv
<1>b. ASSUME s.single_step # "stepped" \/ loop = "fast", savedD' = savedD
      PROVE  Saved(t, savedM', savedS', savedD') /\ Stepping(t, -1) /\ stepped = -1
  <2>1. stepped = -1
    BY <1>b DEF Fetched, Stepping, State
  <2>2. t.dcause # "none" => t.dprv = s.dprv /\ t.dpc = s.dpc /\ t.dcause = s.dcause
    BY <1>1, <1>2 DEF RomEffect, HartFields
  <2> QED BY <1>6, <1>b, <2>1, <2>2 DEF Saved, Stepping, Fetched
<1>c. CASE /\ loop = "slow" /\ s.single_step # "stepped"
           /\ h' = t /\ loop' = "idle" /\ instret' = 0
           /\ stepped' = stepped /\ debugged' = debugged /\ savedD' = savedD
  <2>1. Saved(h', savedM', savedS', savedD') /\ Stepping(h', stepped')
    BY <1>b, <1>c
  <2>2. debugged /\ h'.dcause # "none"
    BY <1>1, <1>2, <1>c DEF Fetched, Counted, HartFields
  <2>3. Counted(h', 0, debugged', retired')
    BY <1>c, <2>2 DEF Counted
  <2> QED BY <1>2, <1>8, <1>c, <2>1, <2>3 DEF Fetched, HartInv
<1>d. CASE /\ loop = "fast" \/ (s.single_step # "stepped" /\ ~InDebugRegion(t.pc))
           /\ stepped' = StepCount /\ debugged' = debugged /\ savedD' = savedD
           /\ \/ EndIteration(t, instret + 1, nleft)
              \/ h' = t /\ instret' = instret + 1 /\ loop' = loop
  <2>1. Saved(t, savedM', savedS', savedD') /\ Stepping(t, stepped') /\ stepped' = -1
    BY <1>b, <1>d DEF StepCount
  <2>2. t.minstret = s.minstret /\ t.dcause = s.dcause /\ SlowPath(t) = SlowPath(s)
    BY <1>1, <1>2 DEF HartFields, SlowPath
  <2>3. s.dcause # "none" => debugged
    BY DEF Fetched, Counted
  <2>4. CASE EndIteration(t, instret + 1, nleft)
    <3>1. /\ State(h') /\ h'.minstret = t.minstret + (instret + 1)
          /\ \A g \in HartFields \ {"minstret"} : h'[g] = t[g]
          /\ instret' = 0 /\ loop' \in {"idle", "outer"}
      BY <1>2, <2>4, EndsIteration DEF Fetched
    <3>2. Saved(h', savedM', savedS', savedD') /\ Stepping(h', stepped')
      BY <2>1, <3>1, SameButCount
    <3>3. ASSUME ~debugged PROVE retired' = h'.minstret /\ Native(h')
      BY <1>3, <1>7, <2>2, <3>1, <3>3, SameButCount DEF Fetched, State
    <3>4. h'.dcause = s.dcause
      BY <2>2, <3>1, SameButCount
    <3>5. Counted(h', 0, debugged', retired')
      BY <1>d, <2>3, <3>1, <3>3, <3>4 DEF Counted, State
    <3> QED BY <1>8, <1>d, <3>1, <3>2, <3>5 DEF Fetched, HartInv
  <2>5. CASE h' = t /\ instret' = instret + 1 /\ loop' = loop
    <3>1. Counted(h', instret', debugged', retired')
      BY <1>3, <1>7, <1>d, <2>2, <2>3, <2>5 DEF Counted, Fetched, State
    <3>2. /\ loop' = "slow" => SlowPath(h')
          /\ loop' = "fast" => ~SlowPath(h')
      BY <2>2, <2>5 DEF Fetched, SlowPath, State
    <3>3. instret' \in Int /\ loop' \in {"slow", "fast"}
      BY <2>5 DEF Fetched
    <3> QED BY <1>2, <1>8, <1>d, <2>1, <2>5, <3>1, <3>2, <3>3 DEF Fetched, HartInv
  <2> QED BY <1>d, <2>4, <2>5
<1> QED BY <1>4, <1>a, <1>c, <1>d

\* Between two calls the CLINT and the debug module set lines.
LEMMA EventKeeps ==
    ASSUME HartInv, Event
    PROVE  HartInv'
<1>1. /\ State(h') /\ h'.minstret = h.minstret
      /\ \A f \in HartFields \ {"mip", "halt_request"} : h'[f] = h[f]
  BY DEF HartInv, Event, State, HartFields
<1>2. MTrap(h') = MTrap(h) /\ STrap(h') = STrap(h) /\ (Native(h) => Native(h'))
  BY <1>1 DEF MTrap, STrap, Native, HartFields
<1>3. UNCHANGED <<loop, instret, ghostVars>> /\ loop = "idle"
  BY DEF Event
<1>4. Counted(h', instret', debugged', retired')
  BY <1>1, <1>2, <1>3 DEF HartInv, Counted, ghostVars, HartFields
<1>5. Stepping(h', stepped') /\ Saved(h', savedM', savedS', savedD')
  BY <1>1, <1>2, <1>3 DEF HartInv, Stepping, Saved, ghostVars, HartFields
<1> QED BY <1>1, <1>3, <1>4, <1>5 DEF HartInv, ghostVars

\* An instruction, whatever it does.
LEMMA ExecuteKeeps ==
    ASSUME HartInv, execute_insn
    PROVE  HartInv'
<1> DEFINE s == IF loop = "slow" /\ h.single_step = "stepping"
                  THEN [h EXCEPT !.single_step = "stepped"] ELSE h
<1>1. PICK r \in IF s.dcause = "none" THEN Results(s) ELSE RomResults(s) :
         InstructionTrap(s, r) \/ SerializeBefore(s, r) \/ SerializeAfter(s, r) \/ Retired(s, r)
  BY DEF execute_insn
<1>2. Fetched(s)
  BY Fetches DEF execute_insn
<1> HIDE DEF s
<1>3. IF s.dcause = "none" THEN InsnEffect(s, r) ELSE RomEffect(s, r)
  BY <1>1, <1>2, Instructs, RunsRom DEF Fetched
<1>4. CASE InstructionTrap(s, r)
  BY <1>2, <1>3, <1>4, InstructionTrapKeeps DEF InstructionTrap
<1>5. CASE SerializeBefore(s, r)
  BY <1>2, <1>3, <1>5, SerializeBeforeKeeps DEF SerializeBefore
<1>6. CASE SerializeAfter(s, r)
  BY <1>2, <1>3, <1>6, SerializeAfterKeeps DEF SerializeAfter
<1>7. CASE Retired(s, r)
  BY <1>2, <1>3, <1>7, RetiredKeeps DEF Retired
<1> QED BY <1>1, <1>4, <1>5, <1>6, <1>7

\* The hart starts with the invariant.
LEMMA HartStarts == HartInit => HartInv
<1> SUFFICES ASSUME HartInit PROVE HartInv
  OBVIOUS
<1>1. /\ State(h) /\ h.minstret = 0 /\ h.dcause = "none" /\ Native(h)
  BY DEF HartInit, reset, StatusReset, State, Status, HartFields, StatusFields, Privileges, Modes, Native
<1>2. /\ loop = "idle" /\ instret = 0 /\ retired = 0 /\ debugged = FALSE /\ stepped = -1
      /\ savedM = <<>> /\ savedS = <<>> /\ savedD = <<>>
  BY DEF HartInit
<1>3. /\ Counted(h, instret, debugged, retired) /\ Stepping(h, stepped)
      /\ Saved(h, savedM, savedS, savedD)
  BY <1>1, <1>2 DEF Counted, Stepping, Saved
<1>4. debugged \in BOOLEAN
  BY <1>2
<1>5. instret \in Int /\ retired \in Int /\ loop = "idle" /\ instret = 0
  BY <1>2
<1> QED BY <1>1, <1>3, <1>4, <1>5 DEF HartInv

\* Every step of the hart keeps the invariant.
LEMMA HartKeeps == HartInv /\ [HartNext]_hartVars => HartInv'
<1> SUFFICES ASSUME HartInv, [HartNext]_hartVars PROVE HartInv'
  OBVIOUS
<1>1. CASE UNCHANGED hartVars
  BY <1>1 DEF HartInv, hartVars, Counted, Stepping, Saved, SlowPath
<1> QED BY <1>1, BeginKeeps, TakeInterruptKeeps, StartBatchKeeps, ExecuteKeeps, EventKeeps
        DEF HartNext, AtBound

\* The hart's invariant holds of every behaviour.
THEOREM HartInvariant == HartSpec => []HartInv
BY HartStarts, HartKeeps, PTL DEF HartSpec

----------------------------------------------------------------------------
(* What it gives. *)

\* For every program, batch size and order of interrupts, halts and steps:
\* minstret counts the instructions retired, the latest trap and debug entry
\* can be returned from, and a step executes one instruction unless it is a
\* wfi, mret or sret, behind which one more is executed (execute.cc).
THEOREM HartIsSound == HartSpec => []HartSound
<1>1. HartInv => InstretSettles
  BY DEF HartInv, InstretSettles, Counted, State
<1>2. HartInv => TrapsReturn
  BY DEF HartInv, TrapsReturn, Saved, MTrap, STrap
<1>3. HartInv => StepExecutesOne
  BY DEF HartInv, StepExecutesOne, Stepping
<1>4. HartInv => HartSound
  BY <1>1, <1>2, <1>3 DEF HartSound
<1> QED BY <1>4, HartInvariant, PTL

\* Below machine mode nothing of machine mode changes, whatever the program
\* writes through the supervisor's registers (processor.cc, set_csr).
THEOREM HartConfinesSupervisor == HartSpec => SupervisorConfined
<1> DEFINE Step == h.prv # "M" /\ h'.prv # "M" /\ loop \in {"slow", "fast"}
                     => MachineState(h') = MachineState(h)
<1>1. HartInv /\ [HartNext]_hartVars => [Step]_hartVars
  <2> SUFFICES ASSUME HartInv, HartNext, h.prv # "M", h'.prv # "M", loop \in {"slow", "fast"}
               PROVE  MachineState(h') = MachineState(h)
    OBVIOUS
  <2>1. execute_insn \/ UNCHANGED hartVars
    BY DEF HartNext, Begin, TakeInterrupt, StartBatch, Event, AtBound
  <2>2. CASE UNCHANGED hartVars
    BY <2>2 DEF hartVars
  <2>3. CASE execute_insn
    <3> DEFINE s == IF loop = "slow" /\ h.single_step = "stepping"
                      THEN [h EXCEPT !.single_step = "stepped"] ELSE h
    <3>1. PICK r \in IF s.dcause = "none" THEN Results(s) ELSE RomResults(s) :
             InstructionTrap(s, r) \/ SerializeBefore(s, r) \/ SerializeAfter(s, r) \/ Retired(s, r)
      BY <2>3 DEF execute_insn
    <3>2. Fetched(s)
      BY Fetches
    <3> HIDE DEF s
    <3>3. s.dcause = "none" /\ s.prv = h.prv /\ MachineState(s) = MachineState(h)
      BY <3>2 DEF Fetched, State, HartFields, MachineState
    <3>4. InsnEffect(s, r)
      BY <3>1, <3>2, <3>3, Instructs DEF Fetched
    <3>5. CASE InstructionTrap(s, r)
      <4> DEFINE t == take_trap(r.s, r.cause, s.pc)
      <4>1. /\ EndIteration(EndStep(t), instret, instret) /\ r.npc = "trap"
        BY <3>5 DEF InstructionTrap
      <4>2. TrapEffect(r.s, t, s.pc) /\ r.s.dcause = "none" /\ MachineState(r.s) = MachineState(s)
        BY <3>4, <4>1, TakesTrap DEF InsnEffect, MachineState, HartFields
      <4> HIDE DEF t
      <4> DEFINE f == EndStep(t)
      <4>3. StepEffect(t, f)
        BY <4>2, EndsStep DEF TrapEffect
      <4> HIDE DEF f
      <4>4. h'.prv = f.prv /\ MachineState(h') = MachineState(f) /\ State(f)
        BY <3>2, <4>1, <4>3, EndsIteration, SameButCount DEF StepEffect, f, Fetched
      <4>5. f = t /\ t.dcause = "none"
        BY <4>2, <4>3, <4>4 DEF StepEffect, State
      <4> QED BY <3>3, <4>2, <4>4, <4>5 DEF TrapEffect
    <3>6. CASE SerializeBefore(s, r)
      <4> DEFINE f == [r.s EXCEPT !.serialized = TRUE]
      <4>1. EndIteration(f, instret, nleft) /\ r.npc = "before"
        BY <3>6 DEF SerializeBefore
      <4>2. State(f) /\ MachineState(f) = MachineState(s)
        BY <3>4, <4>1 DEF InsnEffect, State, MachineState, HartFields
      <4> HIDE DEF f
      <4> QED BY <3>2, <3>3, <4>1, <4>2, EndsIteration, SameButCount DEF Fetched
    <3>7. CASE SerializeAfter(s, r)
      <4>1. EndIteration(r.s, instret + 1, instret + 1) /\ State(r.s)
        BY <3>4, <3>7 DEF SerializeAfter, InsnEffect
      <4>2. h'.prv = r.s.prv /\ MachineState(h') = MachineState(r.s)
        BY <3>2, <4>1, EndsIteration, SameButCount DEF Fetched
      <4> QED BY <3>3, <3>4, <4>2 DEF InsnEffect
    <3>8. CASE Retired(s, r)
      <4> DEFINE t == [r.s EXCEPT !.pc = NextPc(s.pc)]
                 f == [enter_debug_mode(t, "step") EXCEPT !.single_step = "none"]
      <4>1. State(t) /\ MachineState(t) = MachineState(r.s) /\ t.prv = s.prv
            /\ r.s.prv = s.prv /\ t.single_step = s.single_step
        BY <3>4, <3>8 DEF Retired, InsnEffect, State, MachineState, HartFields
      <4>2. \/ s.single_step = "stepped" /\ EndIteration(f, instret + 1, nleft)
            \/ h' = t
            \/ instret + 1 = nleft /\ EndIteration(t, nleft, nleft)
        BY <3>8 DEF Retired
      <4> HIDE DEF t
      <4>3. CASE s.single_step = "stepped" /\ EndIteration(f, instret + 1, nleft)
        <5>1. StepEffect(t, f)
          BY <4>1, <4>3, StepDebug
        <5> HIDE DEF f
        <5>2. f.dcause # "none" /\ State(f) /\ instret + 1 \in Int
          BY <3>2, <4>1, <4>3, <5>1 DEF StepEffect, Fetched
        <5>3. EndIteration(f, instret + 1, nleft)
          BY <4>3 DEF f
        <5>4. State(h') /\ h'.dcause # "none"
          BY <5>2, <5>3, EndsIteration, SameButCount
        <5> QED BY <5>4 DEF State
      <4>4. CASE h' = t
        BY <3>3, <3>4, <4>1, <4>4 DEF InsnEffect
      <4>5. CASE instret + 1 = nleft /\ EndIteration(t, nleft, nleft)
        <5>1. nleft \in Int
          BY <3>2, <4>5 DEF Fetched
        <5>2. MachineState(h') = MachineState(t)
          BY <4>1, <4>5, <5>1, EndsIteration, SameButCount
        <5> QED BY <3>3, <3>4, <4>1, <5>2 DEF InsnEffect
      <4> QED BY <4>2, <4>3, <4>4, <4>5
    <3> QED BY <3>1, <3>5, <3>6, <3>7, <3>8
  <2> QED BY <2>1, <2>2, <2>3
<1> QED BY <1>1, HartInvariant, PTL DEF HartSpec, SupervisorConfined

----------------------------------------------------------------------------
(* The harts together.                                                     *)

\* Only the hart whose turn it is holds a reservation, and none while the
\* host runs; nobody has written the location it names.
OwnReservation ==
    \A p \in Harts : load_reservation[p] # None =>
        p = current_proc /\ where # "host" /\ p \notin disturbed
SimInv ==
    /\ current_proc \in Harts
    /\ from \in {"main", "command"}
    /\ load_reservation = [p \in Harts |-> load_reservation[p]]
    /\ OwnReservation
    /\ TimerLevel

\* What a step leaves of the part about reservations when it writes location
\* a for the running hart: the hart's own reservation alone stays.
LEMMA WriteDisturbsOthers ==
    ASSUME SimInv, NEW a, a # None, Writes(current_proc, a), where' = where,
           UNCHANGED <<load_reservation, current_proc>>
    PROVE  OwnReservation'
  BY DEF SimInv, OwnReservation, Writes

\* Whatever is stored to the CLINT, or added to its time, the interrupts are
\* the comparisons again.
LEMMA IncrementCompares ==
    ASSUME NEW now, NEW cmp, increment(now, cmp)
    PROVE  TimerLevel'
  BY DEF increment, TimerLevel

LEMMA StoresCompare == clint_store => TimerLevel'
<1>1. StoreMsip => TimerLevel'
  BY IncrementCompares DEF StoreMsip
<1>2. StoreMtimecmp => TimerLevel'
  BY IncrementCompares DEF StoreMtimecmp
<1>3. StoreMtime => TimerLevel'
  BY IncrementCompares DEF StoreMtime
<1> QED BY <1>1, <1>2, <1>3 DEF clint_store

LEMMA TimerKept == TimerLevel /\ UNCHANGED clintVars => TimerLevel'
  BY DEF TimerLevel, clintVars

\* An instruction of the running hart.
LEMMA InstructionSound == SimInv /\ Instruction => SimInv'
<1> SUFFICES ASSUME SimInv, Instruction PROVE SimInv'
  OBVIOUS
<1> DEFINE p == current_proc
<1>1. /\ where' = where /\ where = "hart" /\ from' = from /\ current_proc' = current_proc
  BY DEF Instruction, schedVars
<1>2. p \in Harts /\ load_reservation = [q \in Harts |-> load_reservation[q]]
  BY DEF SimInv
<1>3. ASSUME lr(p) PROVE SimInv'
  <2>1. PICK a \in Locations : load_reservation' = [load_reservation EXCEPT ![p] = a]
    BY <1>3 DEF lr
  <2>2. disturbed' = disturbed \ {p} /\ UNCHANGED clintVars
    BY <1>3 DEF lr
  <2>3. TimerLevel'
    BY <2>2, TimerKept DEF SimInv
  <2>4. OwnReservation'
    BY <1>1, <1>2, <2>1, <2>2 DEF SimInv, OwnReservation
  <2> QED BY <1>1, <1>2, <2>1, <2>3, <2>4 DEF SimInv, Harts
<1>4. ASSUME sc(p) PROVE SimInv'
  <2>1. OwnReservation'
    BY <1>1, <1>4, WriteDisturbsOthers DEF sc
  <2> QED BY <1>1, <1>4, <2>1, TimerKept DEF SimInv, sc, Harts
<1>5. ASSUME store(p) PROVE SimInv'
  <2>1. PICK a \in Locations : Writes(p, a)
    BY <1>5 DEF store
  <2>2. OwnReservation'
    BY <1>1, <1>5, <2>1, WriteDisturbsOthers, SimAssumption DEF store
  <2> QED BY <1>1, <1>5, <2>2, TimerKept DEF SimInv, store, Harts
<1>6. ASSUME clint_store PROVE SimInv'
  BY <1>1, <1>6, StoresCompare DEF SimInv, clint_store, OwnReservation, Harts
<1>7. ASSUME other PROVE SimInv'
  BY <1>1, <1>7, TimerKept DEF SimInv, other, OwnReservation, Harts
<1>8. ASSUME yield_load_reservation(p), UNCHANGED clintVars PROVE SimInv'
  <2>1. TimerLevel'
    BY <1>8, TimerKept DEF SimInv
  <2> QED BY <1>1, <1>2, <1>8, <2>1 DEF SimInv, OwnReservation, yield_load_reservation, Harts
<1> QED BY <1>3, <1>4, <1>5, <1>6, <1>7, <1>8 DEF Instruction

\* The end of a turn: the reservation is given up before the next hart, or
\* the host, runs.
LEMMA EndSliceSound == SimInv /\ EndSlice => SimInv'
<1> SUFFICES ASSUME SimInv, EndSlice PROVE SimInv'
  OBVIOUS
<1> DEFINE steps == Smaller(left, INTERLEAVE - current_step)
<1>1. where = "hart" /\ from' = from
  BY DEF EndSlice
<1>2. CASE current_step + steps = INTERLEAVE
  <2>1. /\ where' = "host" /\ yield_load_reservation(current_proc)
        /\ current_proc' = (current_proc + 1) % NumProcs
    BY <1>2 DEF EndSlice, Switch
  <2>2. TimerLevel'
    <3>1. \/ increment(Smaller(mtime + Tick, MaxTime), mtimecmp)
          \/ UNCHANGED clintVars
      BY <1>2 DEF EndSlice
    <3> QED BY <3>1, IncrementCompares, TimerKept DEF SimInv
  <2>3. current_proc' \in Harts
    BY <2>1, SimAssumption DEF SimInv, Harts
  <2>4. \A p \in Harts : load_reservation'[p] = None
    BY <2>1 DEF SimInv, OwnReservation, yield_load_reservation
  <2>5. load_reservation' = [p \in Harts |-> load_reservation'[p]]
    BY <2>1 DEF SimInv, yield_load_reservation
  <2> QED BY <1>1, <2>2, <2>3, <2>4, <2>5 DEF SimInv, OwnReservation, Harts
<1>3. CASE current_step + steps # INTERLEAVE
  <2>1. where' = "slice" /\ UNCHANGED <<current_proc, load_reservation, disturbed, clintVars>>
    BY <1>3 DEF EndSlice
  <2> QED BY <1>1, <2>1, TimerKept DEF SimInv, OwnReservation, Harts
<1> QED BY <1>2, <1>3

\* Every other step leaves the reservations, and the host's writes find none.
LEMMA QuietSound ==
    ASSUME SimInv, where' # "host" \/ where = "host", from' \in {"main", "command"},
           UNCHANGED <<current_proc, load_reservation, disturbed, clintVars>>
    PROVE  SimInv'
  BY TimerKept DEF SimInv, OwnReservation, Harts

LEMMA HostWritesNothingReserved == SimInv /\ HostWrites => SimInv'
<1> SUFFICES ASSUME SimInv, HostWrites PROVE SimInv'
  OBVIOUS
<1>1. \A p \in Harts : load_reservation[p] = None
  BY DEF SimInv, OwnReservation, HostWrites
<1> QED BY <1>1, TimerKept DEF SimInv, OwnReservation, HostWrites, schedVars, Harts

\* However step() is called and wherever the turns end, whoever runs in
\* between: the reservations and the timer's interrupts (sim_t::step,
\* clint_t::increment).
THEOREM SimInvariant == SimSpec => []SimInv
<1>1. SimInit => SimInv
  <2> SUFFICES ASSUME SimInit PROVE SimInv
    OBVIOUS
  <2>1. \A p \in Harts : load_reservation[p] = None
    BY DEF SimInit
  <2> QED BY <2>1, SimAssumption DEF SimInit, SimInv, OwnReservation, TimerLevel, Harts
<1>2. SimInv /\ [SimNext]_simVars => SimInv'
  <2> SUFFICES ASSUME SimInv, [SimNext]_simVars PROVE SimInv'
    OBVIOUS
  <2>1. ASSUME Instruction PROVE SimInv'
    BY <2>1, InstructionSound
  <2>2. ASSUME StartSlice PROVE SimInv'
    BY <2>2, QuietSound DEF StartSlice, schedVars, SimInv
  <2>3. ASSUME EndSlice PROVE SimInv'
    BY <2>3, EndSliceSound
  <2>4. ASSUME Return PROVE SimInv'
    BY <2>4, QuietSound DEF Return, schedVars, SimInv
  <2>5. ASSUME HostWrites PROVE SimInv'
    BY <2>5, HostWritesNothingReserved
  <2>6. ASSUME HostDone PROVE SimInv'
    BY <2>6, QuietSound DEF HostDone, schedVars, SimInv
  <2>7. ASSUME idle PROVE SimInv'
    BY <2>7, QuietSound DEF idle, schedVars, SimInv
  <2>8. ASSUME main PROVE SimInv'
    BY <2>8, QuietSound DEF main, Call, SimInv
  <2>9. ASSUME interactive_run PROVE SimInv'
    BY <2>9, QuietSound DEF interactive_run, schedVars, SimInv
  <2>10. ASSUME CommandStep PROVE SimInv'
    BY <2>10, QuietSound DEF CommandStep, Call, SimInv
  <2>11. ASSUME handle_signal PROVE SimInv'
    BY <2>11, QuietSound DEF handle_signal, schedVars, SimInv
  <2>12. ASSUME UNCHANGED simVars PROVE SimInv'
    BY <2>12, QuietSound DEF simVars, clintVars, SimInv
  <2> QED BY <2>1, <2>2, <2>3, <2>4, <2>5, <2>6, <2>7, <2>8, <2>9, <2>10, <2>11, <2>12
          DEF SimNext
<1> QED BY <1>1, <1>2, PTL DEF SimSpec

\* An SC that succeeds is atomic and the timer interrupt is the comparison,
\* for any number of harts and any length of their turns (ReservationsFresh,
\* TimerLevel; sim.cc, clint.cc).
THEOREM SimulatorIsSound == SimSpec => []SimSound
<1>1. SimInv => SimSound
  BY DEF SimInv, OwnReservation, SimSound, ReservationsFresh
<1> QED BY <1>1, SimInvariant, PTL

----------------------------------------------------------------------------
(* The cache models.                                                       *)

CacheFields == {"sets", "ways", "linesz", "fa", "tags", "accesses", "misses", "writes", "writebacks"}
Sets(c) == 0 .. c.sets - 1
Ways(c) == 0 .. c.ways - 1
Entries == {NoLine} \cup (Nat \X BOOLEAN)

\* A cache, with no line in it twice.
CacheType(c) ==
    /\ c = [f \in CacheFields |-> c[f]]
    /\ c.sets \in Nat \ {0} /\ c.ways \in Nat \ {0} /\ c.linesz \in Nat \ {0}
    /\ c.tags \in [Sets(c) -> [Ways(c) -> Entries]]
    /\ c.accesses \in Nat /\ c.misses \in Nat /\ c.writes \in Nat /\ c.writebacks \in Nat
NoTwice(c) ==
    \A i \in Sets(c), v, w \in Ways(c) :
        c.tags[i][v] # NoLine /\ c.tags[i][w] # NoLine /\ c.tags[i][v][1] = c.tags[i][w][1] => v = w
IsCache(c) == CacheType(c) /\ NoTwice(c)

SameShape(c, d) == d.sets = c.sets /\ d.ways = c.ways /\ d.linesz = c.linesz
SameCounts(c, d) ==
    d.accesses = c.accesses /\ d.misses = c.misses /\ d.writes = c.writes /\ d.writebacks = c.writebacks

\* Set i holds line n dirty; the dirty lines that d has lost of c are those in out.
Held(c, i, n) == \E w \in Ways(c) : c.tags[i][w] = Tag(n, TRUE)
LosesOnly(c, d, out) == \A i \in Sets(c), n \in Nat : Held(c, i, n) => Held(d, i, n) \/ n \in out

GainsNone(c, d) == \A i \in Sets(c), n \in Nat : Held(d, i, n) => Held(c, i, n)
Evicted(old) == IF WritesBack(old) THEN {old[1]} ELSE {}

LEMMA Entry ==
    /\ \A n : Tag(n, TRUE) # NoLine /\ Tag(n, TRUE)[1] = n /\ Tag(n, TRUE)[2]
    /\ \A n : Tag(n, FALSE) # NoLine /\ Tag(n, FALSE)[1] = n /\ ~Tag(n, FALSE)[2]
    /\ \A n \in Nat : Tag(n, TRUE) \in Entries /\ Tag(n, FALSE) \in Entries
    /\ \A t \in Entries : t # NoLine => t[1] \in Nat /\ t[2] \in BOOLEAN /\ t = Tag(t[1], t[2])
<1>1. \A n : Tag(n, TRUE) # NoLine /\ Tag(n, TRUE)[1] = n /\ Tag(n, TRUE)[2]
  BY DEF Tag, NoLine
<1>2. \A n : Tag(n, FALSE) # NoLine /\ Tag(n, FALSE)[1] = n /\ ~Tag(n, FALSE)[2]
  BY DEF Tag, NoLine
<1>3. \A n \in Nat : Tag(n, TRUE) \in Entries /\ Tag(n, FALSE) \in Entries
  BY DEF Tag, Entries
<1>4. \A t \in Entries : t # NoLine => t[1] \in Nat /\ t[2] \in BOOLEAN /\ t = Tag(t[1], t[2])
  BY DEF Tag, Entries
<1> QED BY <1>1, <1>2, <1>3, <1>4

\* The quotient and the remainder of a division are what the equation says.
LEMMA Quotient ==
    ASSUME NEW n \in Nat \ {0}, NEW q \in Int, NEW r \in 0..(n - 1), NEW x \in Int, x = q * n + r
    PROVE  x \div n = q /\ x % n = r
OBVIOUS

LEMMA Division ==
    ASSUME NEW n \in Nat \ {0}, NEW x \in Nat
    PROVE  x \div n \in Nat /\ x % n \in 0 .. n - 1 /\ x = (x \div n) * n + (x % n)
OBVIOUS

LEMMA Placed ==
    ASSUME NEW c, CacheType(c), NEW a \in Nat
    PROVE  Line(c, a) \in Nat /\ Index(c, a) \in Sets(c)
BY Division DEF CacheType, Line, Index, Sets

\* The address where a line of c begins is in the same line of m.
LEMMA LineBegins ==
    ASSUME NEW c, CacheType(c), NEW m, CacheType(m), NEW k \in Nat \ {0}, m.linesz = k * c.linesz,
           NEW a \in Nat
    PROVE  /\ Line(c, a) * c.linesz \in Nat
           /\ Line(m, Line(c, a) * c.linesz) = Line(m, a)
<1> DEFINE l == c.linesz
           q == a \div l
           p == q \div k
<1>1. l \in Nat \ {0} /\ Line(c, a) = q
  BY DEF CacheType, Line
<1> HIDE DEF l
<1>2. q \in Nat /\ a = q * l + (a % l) /\ a % l \in 0 .. l - 1
  BY <1>1, Division
<1> HIDE DEF q
<1>3. p \in Nat /\ q = p * k + (q % k) /\ q % k \in 0 .. k - 1
  BY <1>2, Division
<1> HIDE DEF p
<1> DEFINE s == q % k
           t == a % l
<1>4. s \in 0 .. k - 1 /\ t \in 0 .. l - 1 /\ q = p * k + s /\ a = q * l + t
  BY <1>2, <1>3
<1> HIDE DEF s, t
<1>5. s * l \in Nat /\ s * l <= (k - 1) * l /\ k * l \in Nat \ {0}
  BY <1>1, <1>4
<1>6. q * l = p * (k * l) + s * l /\ a = p * (k * l) + (s * l + t)
  BY <1>1, <1>2, <1>3, <1>4
<1>7. (k - 1) * l + l = k * l
  BY <1>1
<1> DEFINE kl == k * l
           sl == s * l
           ql == q * l
<1>8. kl \in Nat \ {0} /\ sl \in 0 .. kl - 1 /\ sl + t \in 0 .. kl - 1
  <2> DEFINE j == (k - 1) * l
  <2>1. j \in Int /\ sl \in Nat /\ sl <= j /\ j + l = kl /\ kl \in Nat \ {0}
    BY <1>1, <1>5, <1>7
  <2> HIDE DEF j, sl, kl
  <2> QED BY <1>1, <1>4, <2>1
<1>9. ql = p * kl + sl /\ a = p * kl + (sl + t)
  BY <1>6
<1>10. ql \in Nat
  BY <1>1, <1>2
<1> HIDE DEF kl, sl, ql
<1>11. ql \div kl = p
  <2>1. kl \in Nat \ {0} /\ p \in Int /\ sl \in 0 .. (kl - 1) /\ ql \in Int /\ ql = p * kl + sl
    BY <1>3, <1>8, <1>9, <1>10
  <2> QED BY <2>1, Quotient
<1>12. a \div kl = p
  <2> DEFINE r == sl + t
  <2>1. kl \in Nat \ {0} /\ p \in Int /\ r \in 0 .. (kl - 1) /\ a \in Int /\ a = p * kl + r
    BY <1>3, <1>8, <1>9
  <2> HIDE DEF r
  <2> QED BY <2>1, Quotient
<1>13. m.linesz = kl /\ Line(c, a) * c.linesz = ql
  BY <1>1 DEF kl, ql, l
<1> QED BY <1>10, <1>11, <1>12, <1>13 DEF Line

\* The ways that hold an address; one at most.
LEMMA TagOf ==
    ASSUME NEW c, IsCache(c), NEW a \in Nat
    PROVE  /\ check_tag(c, a) \subseteq Ways(c)
           /\ \A v, w \in check_tag(c, a) : v = w
           /\ \A w \in Ways(c) : w \in check_tag(c, a) <=>
                c.tags[Index(c, a)][w] # NoLine /\ c.tags[Index(c, a)][w][1] = Line(c, a)
           /\ Dirty(c, a) <=> Held(c, Index(c, a), Line(c, a))
<1>1. Index(c, a) \in Sets(c)
  BY Placed DEF IsCache
<1>2. check_tag(c, a) = {w \in Ways(c) : c.tags[Index(c, a)][w] # NoLine
                                           /\ c.tags[Index(c, a)][w][1] = Line(c, a)}
  BY DEF check_tag, Ways
<1>3. \A v, w \in check_tag(c, a) : v = w
  BY <1>1, <1>2 DEF IsCache, NoTwice
<1>4. \A w \in Ways(c) : c.tags[Index(c, a)][w] \in Entries
  BY <1>1 DEF IsCache, CacheType
<1>5. Dirty(c, a) <=> Held(c, Index(c, a), Line(c, a))
  <2>1. ASSUME Dirty(c, a) PROVE Held(c, Index(c, a), Line(c, a))
    <3>1. PICK w \in check_tag(c, a) : c.tags[Index(c, a)][w][2]
      BY <2>1 DEF Dirty
    <3>2. c.tags[Index(c, a)][w][2] = TRUE
      BY <1>2, <1>4, <3>1, Entry
    <3>3. c.tags[Index(c, a)][w] = Tag(Line(c, a), TRUE)
      BY <1>2, <1>4, <3>1, <3>2, Entry
    <3> QED BY <1>2, <3>1, <3>3 DEF Held
  <2>2. ASSUME Held(c, Index(c, a), Line(c, a)) PROVE Dirty(c, a)
    <3>1. PICK w \in Ways(c) : c.tags[Index(c, a)][w] = Tag(Line(c, a), TRUE)
      BY <2>2 DEF Held
    <3>2. w \in check_tag(c, a) /\ c.tags[Index(c, a)][w][2]
      BY <1>2, <3>1, Entry
    <3> QED BY <3>2 DEF Dirty
  <2> QED BY <2>1, <2>2
<1> QED BY <1>2, <1>3, <1>5

SameLines(c, d) == IsCache(d) /\ SameShape(c, d) /\ d.tags = c.tags

LEMMA SameLinesSame ==
    ASSUME NEW c, IsCache(c), NEW d, SameLines(c, d), NEW a
    PROVE  /\ Line(d, a) = Line(c, a) /\ Index(d, a) = Index(c, a)
           /\ check_tag(d, a) = check_tag(c, a) /\ Ways(d) = Ways(c) /\ Sets(d) = Sets(c)
           /\ \A i, n : Held(d, i, n) <=> Held(c, i, n)
<1>1. Line(d, a) = Line(c, a) /\ Index(d, a) = Index(c, a) /\ Ways(d) = Ways(c) /\ Sets(d) = Sets(c)
  BY DEF SameLines, SameShape, Line, Index, Ways, Sets
<1>2. check_tag(d, a) = check_tag(c, a)
  BY <1>1 DEF SameLines, SameShape, check_tag
<1> QED BY <1>1, <1>2 DEF SameLines, Held

\* The counters of an access change nothing else.
LEMMA CountEffect ==
    ASSUME NEW c, IsCache(c), NEW st \in BOOLEAN, NEW miss \in BOOLEAN,
           NEW d, d = Count(c, st, miss)
    PROVE  /\ SameLines(c, d)
           /\ d.accesses = c.accesses + 1 /\ d.writebacks = c.writebacks
           /\ d.misses = (IF miss THEN c.misses + 1 ELSE c.misses)
           /\ d.writes = (IF st THEN c.writes + 1 ELSE c.writes)
<1>1. /\ d = [f \in CacheFields |-> d[f]]
      /\ d.sets = c.sets /\ d.ways = c.ways /\ d.linesz = c.linesz /\ d.tags = c.tags
      /\ d.accesses = c.accesses + 1 /\ d.writebacks = c.writebacks
      /\ d.misses = c.misses + (IF miss THEN 1 ELSE 0)
      /\ d.writes = c.writes + (IF st THEN 1 ELSE 0)
  BY DEF IsCache, CacheType, CacheFields, Count
<1>2. c.accesses \in Nat /\ c.misses \in Nat /\ c.writes \in Nat /\ c.writebacks \in Nat
  BY DEF IsCache, CacheType
<1>3. CacheType(d)
  <2>1. d.accesses \in Nat /\ d.misses \in Nat /\ d.writes \in Nat /\ d.writebacks \in Nat
    BY <1>1, <1>2
  <2>2. Sets(d) = Sets(c) /\ Ways(d) = Ways(c)
    BY <1>1 DEF Sets, Ways
  <2> QED BY <1>1, <2>1, <2>2 DEF IsCache, CacheType
<1>4. NoTwice(d)
  BY <1>1 DEF IsCache, NoTwice, Sets, Ways
<1> QED BY <1>1, <1>2, <1>3, <1>4 DEF SameLines, SameShape, IsCache

Writeback(c, wb) == [c EXCEPT !.writebacks = @ + (IF wb THEN 1 ELSE 0)]
LEMMA WritebackEffect ==
    ASSUME NEW c, IsCache(c), NEW wb \in BOOLEAN, NEW d, d = Writeback(c, wb)
    PROVE  /\ SameLines(c, d)
           /\ d.accesses = c.accesses /\ d.misses = c.misses /\ d.writes = c.writes
           /\ d.writebacks = (IF wb THEN c.writebacks + 1 ELSE c.writebacks)
<1>1. /\ d = [f \in CacheFields |-> d[f]]
      /\ d.sets = c.sets /\ d.ways = c.ways /\ d.linesz = c.linesz /\ d.tags = c.tags
      /\ d.accesses = c.accesses /\ d.misses = c.misses /\ d.writes = c.writes
      /\ d.writebacks = c.writebacks + (IF wb THEN 1 ELSE 0)
  BY DEF IsCache, CacheType, CacheFields, Writeback
<1>2. c.accesses \in Nat /\ c.misses \in Nat /\ c.writes \in Nat /\ c.writebacks \in Nat
  BY DEF IsCache, CacheType
<1>3. CacheType(d)
  <2>1. d.accesses \in Nat /\ d.misses \in Nat /\ d.writes \in Nat /\ d.writebacks \in Nat
    BY <1>1, <1>2
  <2>2. Sets(d) = Sets(c) /\ Ways(d) = Ways(c)
    BY <1>1 DEF Sets, Ways
  <2> QED BY <1>1, <2>1, <2>2 DEF IsCache, CacheType
<1>4. NoTwice(d)
  BY <1>1 DEF IsCache, NoTwice, Sets, Ways
<1> QED BY <1>1, <1>2, <1>3, <1>4 DEF SameLines, SameShape, IsCache

\* A line that is not there takes a way, and what was there is gone.
LEMMA FillEffect ==
    ASSUME NEW c, IsCache(c), NEW a \in Nat, check_tag(c, a) = {}, NEW w \in Ways(c),
           NEW d, d = victimize(c, a, w)
    PROVE  /\ IsCache(d) /\ SameShape(c, d) /\ SameCounts(c, d)
           /\ check_tag(d, a) # {}
           /\ GainsNone(c, d) /\ LosesOnly(c, d, Evicted(c.tags[Index(c, a)][w]))
<1> DEFINE x == Index(c, a)
           new == Tag(Line(c, a), FALSE)
<1>1. x \in Sets(c) /\ Line(c, a) \in Nat
  BY Placed DEF IsCache
<1>2. /\ d = [f \in CacheFields |-> d[f]] /\ SameShape(c, d) /\ SameCounts(c, d)
      /\ d.tags = [c.tags EXCEPT ![x][w] = new]
  BY DEF IsCache, CacheType, CacheFields, victimize, SameShape, SameCounts
<1>3. new \in Entries /\ new # NoLine /\ new[1] = Line(c, a) /\ \A n : new # Tag(n, TRUE)
  BY <1>1, Entry
<1>4. c.tags \in [Sets(c) -> [Ways(c) -> Entries]]
  BY DEF IsCache, CacheType
<1>5. \A v \in Ways(c) : ~(c.tags[x][v] # NoLine /\ c.tags[x][v][1] = Line(c, a))
  BY TagOf
<1> HIDE DEF x, new
<1>6. d.tags \in [Sets(c) -> [Ways(c) -> Entries]]
  <2>1. [c.tags[x] EXCEPT ![w] = new] \in [Ways(c) -> Entries]
    BY <1>1, <1>3, <1>4
  <2>2. d.tags = [c.tags EXCEPT ![x] = [c.tags[x] EXCEPT ![w] = new]]
    BY <1>2
  <2> QED BY <1>1, <1>4, <2>1, <2>2
<1>7. \A i \in Sets(c), v \in Ways(c) :
        d.tags[i][v] = IF i = x /\ v = w THEN new ELSE c.tags[i][v]
  BY <1>1, <1>2, <1>4
<1>8. CacheType(d)
  BY <1>2, <1>6 DEF IsCache, CacheType, SameShape, SameCounts, Sets, Ways
<1>9. Sets(d) = Sets(c) /\ Ways(d) = Ways(c)
  BY <1>2 DEF SameShape, Sets, Ways
<1>10. NoTwice(d)
  <2> SUFFICES ASSUME NEW i \in Sets(c), NEW u \in Ways(c), NEW v \in Ways(c),
                      d.tags[i][u] # NoLine, d.tags[i][v] # NoLine, d.tags[i][u][1] = d.tags[i][v][1]
               PROVE  u = v
    BY <1>9 DEF NoTwice
  <2>1. CASE i = x /\ u = w /\ v # w
    BY <1>3, <1>5, <1>7, <2>1
  <2>2. CASE i = x /\ v = w /\ u # w
    BY <1>3, <1>5, <1>7, <2>2
  <2>3. CASE ~(i = x /\ u = w) /\ ~(i = x /\ v = w)
    BY <1>7, <2>3 DEF IsCache, NoTwice
  <2> QED BY <2>1, <2>2, <2>3
<1>11. IsCache(d)
  BY <1>8, <1>10 DEF IsCache
<1>12. Index(d, a) = x /\ Line(d, a) = Line(c, a)
  BY <1>2 DEF SameShape, Index, Line, x
<1>13. w \in check_tag(d, a)
  BY <1>1, <1>3, <1>7, <1>9, <1>11, <1>12, TagOf
<1>14. \A i \in Sets(c), n \in Nat : Held(d, i, n) => Held(c, i, n)
  BY <1>3, <1>7, <1>9 DEF Held
<1>15. \A i \in Sets(c), n \in Nat : Held(c, i, n) => Held(d, i, n) \/ c.tags[x][w] = Tag(n, TRUE)
  BY <1>7, <1>9 DEF Held
<1>16. \A n \in Nat : c.tags[x][w] = Tag(n, TRUE) => n \in Evicted(c.tags[x][w])
  BY Entry DEF WritesBack, Evicted
<1> QED BY <1>2, <1>11, <1>13, <1>14, <1>15, <1>16 DEF x, GainsNone, LosesOnly

\* The line of a store becomes dirty.
LEMMA DirtyEffect ==
    ASSUME NEW c, IsCache(c), NEW a \in Nat, check_tag(c, a) # {}, NEW d, d = SetDirty(c, a)
    PROVE  /\ IsCache(d) /\ SameShape(c, d) /\ SameCounts(c, d)
           /\ Held(d, Index(c, a), Line(c, a))
           /\ \A i \in Sets(c), n \in Nat : Held(c, i, n) => Held(d, i, n)
<1> DEFINE x == Index(c, a)
           new == Tag(Line(c, a), TRUE)
           hit == check_tag(c, a)
<1>1. x \in Sets(c) /\ Line(c, a) \in Nat /\ hit \subseteq Ways(c)
  BY Placed, TagOf DEF IsCache
<1>2. c.tags \in [Sets(c) -> [Ways(c) -> Entries]]
  BY DEF IsCache, CacheType
<1>3. /\ d = [f \in CacheFields |-> d[f]] /\ SameShape(c, d) /\ SameCounts(c, d)
      /\ d.tags = [c.tags EXCEPT ![x] = [w \in DOMAIN c.tags[x] |-> IF w \in hit THEN new ELSE c.tags[x][w]]]
  BY DEF IsCache, CacheType, CacheFields, SetDirty, SameShape, SameCounts
<1>4. new \in Entries /\ new # NoLine /\ new[1] = Line(c, a)
  BY <1>1, Entry
<1>5. \A v \in Ways(c) : v \in hit <=> c.tags[x][v] # NoLine /\ c.tags[x][v][1] = Line(c, a)
  BY TagOf
<1> HIDE DEF x, new, hit
<1>6. /\ d.tags \in [Sets(c) -> [Ways(c) -> Entries]]
      /\ \A i \in Sets(c), v \in Ways(c) :
           d.tags[i][v] = IF i = x /\ v \in hit THEN new ELSE c.tags[i][v]
  <2> DEFINE row == [w \in Ways(c) |-> IF w \in hit THEN new ELSE c.tags[x][w]]
  <2>1. c.tags[x] \in [Ways(c) -> Entries]
    BY <1>1, <1>2
  <2>2. row \in [Ways(c) -> Entries]
    BY <1>4, <2>1
  <2>3. d.tags = [c.tags EXCEPT ![x] = row]
    BY <1>3, <2>1
  <2>4. \A v \in Ways(c) : row[v] = IF v \in hit THEN new ELSE c.tags[x][v]
    OBVIOUS
  <2> HIDE DEF row
  <2> QED BY <1>1, <1>2, <2>2, <2>3, <2>4
<1>7. CacheType(d)
  BY <1>3, <1>6 DEF IsCache, CacheType, SameShape, SameCounts, Sets, Ways
<1>8. Sets(d) = Sets(c) /\ Ways(d) = Ways(c)
  BY <1>3 DEF SameShape, Sets, Ways
<1>9. \A i \in Sets(c), v \in Ways(c) :
        /\ d.tags[i][v] # NoLine <=> c.tags[i][v] # NoLine
        /\ c.tags[i][v] # NoLine => d.tags[i][v][1] = c.tags[i][v][1]
  BY <1>4, <1>5, <1>6
<1>10. NoTwice(d)
  BY <1>8, <1>9 DEF IsCache, NoTwice
<1>11. Held(d, x, Line(c, a))
  <2>1. PICK w \in hit : TRUE
    BY DEF hit
  <2> QED BY <1>1, <1>6, <1>8, <2>1 DEF Held, new
<1>12. ASSUME NEW i \in Sets(c), NEW n \in Nat, Held(c, i, n) PROVE Held(d, i, n)
  <2>1. PICK w \in Ways(c) : c.tags[i][w] = Tag(n, TRUE)
    BY <1>12 DEF Held
  <2>2. CASE i = x /\ w \in hit
    <3>1. Line(c, a) = n
      <4>1. c.tags[x][w][1] = Line(c, a)
        BY <1>5, <2>1, <2>2
      <4> QED BY <2>1, <2>2, <4>1, Entry
    <3> QED BY <1>6, <1>8, <2>1, <2>2, <3>1 DEF Held, new
  <2>3. CASE ~(i = x /\ w \in hit)
    BY <1>6, <1>8, <2>1, <2>3 DEF Held
  <2> QED BY <2>2, <2>3
<1> QED BY <1>3, <1>7, <1>10, <1>11, <1>12 DEF IsCache, x

LEMMA HitEffect ==
    ASSUME NEW c, IsCache(c), NEW a \in Nat, NEW st \in BOOLEAN, check_tag(c, a) # {},
           NEW d, d = Hit(c, a, st)
    PROVE  /\ IsCache(d) /\ SameShape(c, d)
           /\ d.accesses = c.accesses + 1 /\ d.misses = c.misses /\ d.writebacks = c.writebacks
           /\ d.writes = (IF st THEN c.writes + 1 ELSE c.writes)
           /\ st => Held(d, Index(c, a), Line(c, a))
           /\ ~st => GainsNone(c, d)
           /\ LosesOnly(c, d, {})
<1>1. CASE st
  <2>1. PICK b : b = Count(c, TRUE, FALSE)
    OBVIOUS
  <2>2. /\ SameLines(c, b) /\ b.accesses = c.accesses + 1 /\ b.writebacks = c.writebacks
        /\ b.misses = c.misses /\ b.writes = c.writes + 1
    BY <2>1, CountEffect
  <2>3. IsCache(b) /\ d = SetDirty(b, a) /\ check_tag(b, a) # {} /\ Sets(b) = Sets(c)
        /\ Index(b, a) = Index(c, a) /\ Line(b, a) = Line(c, a)
        /\ \A i, n : Held(b, i, n) <=> Held(c, i, n)
    BY <1>1, <2>1, <2>2, SameLinesSame DEF Hit, SameLines
  <2>4. /\ IsCache(d) /\ SameShape(b, d) /\ SameCounts(b, d)
        /\ Held(d, Index(b, a), Line(b, a))
        /\ \A i \in Sets(b), n \in Nat : Held(b, i, n) => Held(d, i, n)
    BY <2>3, DirtyEffect
  <2> QED BY <1>1, <2>2, <2>3, <2>4 DEF SameLines, SameShape, SameCounts, LosesOnly
<1>2. CASE ~st
  <2>1. d = Count(c, FALSE, FALSE)
    BY <1>2 DEF Hit
  <2>2. /\ SameLines(c, d) /\ d.accesses = c.accesses + 1 /\ d.writebacks = c.writebacks
        /\ d.misses = c.misses /\ d.writes = c.writes
    BY <2>1, CountEffect
  <2>3. \A i, n : Held(d, i, n) <=> Held(c, i, n)
    BY <2>2, SameLinesSame
  <2> QED BY <1>2, <2>2, <2>3 DEF SameLines, LosesOnly, GainsNone
<1> QED BY <1>1, <1>2

LEMMA RefillEffect ==
    ASSUME NEW c, IsCache(c), NEW a \in Nat, NEW st \in BOOLEAN, check_tag(c, a) = {},
           NEW w \in Ways(c), NEW old, old = c.tags[Index(c, a)][w],
           NEW d, d = Refill(c, a, w, old, st)
    PROVE  /\ IsCache(d) /\ SameShape(c, d)
           /\ d.accesses = c.accesses + 1 /\ d.misses = c.misses + 1
           /\ d.writes = (IF st THEN c.writes + 1 ELSE c.writes)
           /\ d.writebacks = (IF WritesBack(old) THEN c.writebacks + 1 ELSE c.writebacks)
           /\ st => Held(d, Index(c, a), Line(c, a))
           /\ ~st => GainsNone(c, d)
           /\ WritesBack(old) => old[1] \in Nat /\ Held(c, Index(c, a), old[1])
           /\ LosesOnly(c, d, Evicted(old))
<1>1. PICK b : b = Count(c, st, TRUE)
  OBVIOUS
<1>2. /\ SameLines(c, b) /\ b.accesses = c.accesses + 1 /\ b.writebacks = c.writebacks
      /\ b.misses = c.misses + 1 /\ b.writes = (IF st THEN c.writes + 1 ELSE c.writes)
  <2>1. PICK miss \in BOOLEAN : miss = TRUE
    OBVIOUS
  <2>2. b = Count(c, st, miss)
    BY <1>1, <2>1
  <2>3. /\ SameLines(c, b) /\ b.accesses = c.accesses + 1 /\ b.writebacks = c.writebacks
        /\ b.misses = (IF miss THEN c.misses + 1 ELSE c.misses)
        /\ b.writes = (IF st THEN c.writes + 1 ELSE c.writes)
    BY <2>2, CountEffect
  <2> QED BY <2>1, <2>3
<1>3. IsCache(b)
  BY <1>2 DEF SameLines
<1>4. PICK e : e = [b EXCEPT !.writebacks = @ + (IF WritesBack(old) THEN 1 ELSE 0)]
  OBVIOUS
<1>5. WritesBack(old) \in BOOLEAN
  <2>1. old \in Entries
    BY Placed DEF IsCache, CacheType
  <2> QED BY <2>1, Entry DEF WritesBack
<1>6. /\ SameLines(b, e) /\ e.accesses = b.accesses /\ e.misses = b.misses /\ e.writes = b.writes
      /\ e.writebacks = (IF WritesBack(old) THEN b.writebacks + 1 ELSE b.writebacks)
  <2>1. PICK wb \in BOOLEAN : wb = WritesBack(old)
    BY <1>5
  <2>2. e = Writeback(b, wb)
    BY <1>4, <2>1 DEF Writeback
  <2>3. /\ SameLines(b, e) /\ e.accesses = b.accesses /\ e.misses = b.misses /\ e.writes = b.writes
        /\ e.writebacks = (IF wb THEN b.writebacks + 1 ELSE b.writebacks)
    BY <1>3, <2>2, WritebackEffect
  <2> QED BY <2>1, <2>3
<1>7. SameLines(c, e)
  BY <1>2, <1>6 DEF SameLines, SameShape
<1>8. /\ IsCache(e) /\ check_tag(e, a) = {} /\ Index(e, a) = Index(c, a) /\ Line(e, a) = Line(c, a)
      /\ Sets(e) = Sets(c) /\ Ways(e) = Ways(c) /\ e.tags = c.tags
      /\ \A i, n : Held(e, i, n) <=> Held(c, i, n)
  BY <1>7, SameLinesSame DEF SameLines
<1>9. PICK v : v = victimize(e, a, w)
  OBVIOUS
<1>10. /\ IsCache(v) /\ SameShape(e, v) /\ SameCounts(e, v)
       /\ check_tag(v, a) # {}
       /\ GainsNone(c, v) /\ LosesOnly(c, v, Evicted(old))
  <2>1. w \in Ways(e) /\ e.tags[Index(e, a)][w] = old
    BY <1>8
  <2>2. IsCache(e) /\ check_tag(e, a) = {} /\ v = victimize(e, a, w)
    BY <1>8, <1>9
  <2>3. /\ IsCache(v) /\ SameShape(e, v) /\ SameCounts(e, v)
        /\ check_tag(v, a) # {}
        /\ GainsNone(e, v) /\ LosesOnly(e, v, Evicted(e.tags[Index(e, a)][w]))
    BY <2>1, <2>2, FillEffect
  <2> QED BY <1>8, <2>1, <2>3 DEF GainsNone, LosesOnly
<1>11. d = IF st THEN SetDirty(v, a) ELSE v
  BY <1>1, <1>4, <1>9 DEF Refill
<1>12. /\ Index(v, a) = Index(c, a) /\ Line(v, a) = Line(c, a) /\ Sets(v) = Sets(c)
       /\ SameShape(c, v)
  BY <1>7, <1>10 DEF SameLines, SameShape, Index, Line, Sets
<1>13. /\ IsCache(d) /\ SameShape(v, d) /\ SameCounts(v, d)
       /\ st => Held(d, Index(c, a), Line(c, a))
       /\ \A i \in Sets(c), n \in Nat : Held(v, i, n) => Held(d, i, n)
  <2>1. CASE st
    <3>1. d = SetDirty(v, a)
      BY <1>11, <2>1
    <3> QED BY <1>10, <1>12, <3>1, DirtyEffect
  <2>2. CASE ~st
    BY <1>10, <1>11, <2>2 DEF SameShape, SameCounts
  <2> QED BY <2>1, <2>2
<1>15. WritesBack(old) => old[1] \in Nat /\ Held(c, Index(c, a), old[1])
  <2> SUFFICES ASSUME WritesBack(old) PROVE old[1] \in Nat /\ Held(c, Index(c, a), old[1])
    OBVIOUS
  <2>1. old \in Entries
    BY Placed DEF IsCache, CacheType
  <2>2. old[1] \in Nat /\ old[2] \in BOOLEAN /\ old[2] /\ old = Tag(old[1], old[2])
    BY <2>1, Entry DEF WritesBack
  <2>3. old = Tag(old[1], TRUE)
    BY <2>2
  <2> QED BY <2>2, <2>3 DEF Held
<1>16. ~st => GainsNone(c, d)
  BY <1>10, <1>11
<1>17. SameShape(c, d) /\ SameCounts(e, d)
  BY <1>10, <1>12, <1>13 DEF SameShape, SameCounts
<1>18. LosesOnly(c, d, Evicted(old))
  BY <1>10, <1>13 DEF LosesOnly
<1> QED BY <1>2, <1>6, <1>13, <1>15, <1>16, <1>17, <1>18 DEF SameCounts

LEMMA Victim ==
    ASSUME NEW c, NEW a
    PROVE  Victims(c, a) \subseteq Ways(c)
BY DEF Victims, Ways

\* The last level: what it loses goes to the memory.
LEMMA LastEffect ==
    ASSUME NEW c, IsCache(c), NEW a \in Nat, NEW st \in BOOLEAN, NEW r \in LastAccess(c, a, st)
    PROVE  /\ IsCache(r.cache) /\ SameShape(c, r.cache)
           /\ r.cache.accesses = c.accesses + 1
           /\ r.cache.writes = (IF st THEN c.writes + 1 ELSE c.writes)
           /\ st => Held(r.cache, Index(c, a), Line(c, a))
           /\ LosesOnly(c, r.cache, r.out)
<1>1. CASE check_tag(c, a) # {}
  <2>1. r = [cache |-> Hit(c, a, st), out |-> {}]
    BY <1>1 DEF LastAccess
  <2>2. r.cache = Hit(c, a, st) /\ r.out = {}
    BY <2>1
  <2> QED BY <1>1, <2>2, HitEffect
<1>2. CASE check_tag(c, a) = {}
  <2>1. PICK w \in Victims(c, a) :
          LET o == c.tags[Index(c, a)][w]
          IN  r = [cache |-> Refill(c, a, w, o, st), out |-> IF WritesBack(o) THEN {o[1]} ELSE {}]
    BY <1>2 DEF LastAccess
  <2>2. PICK old : old = c.tags[Index(c, a)][w]
    OBVIOUS
  <2>3. r.cache = Refill(c, a, w, old, st) /\ r.out = (IF WritesBack(old) THEN {old[1]} ELSE {})
    BY <2>1, <2>2
  <2>4. w \in Ways(c)
    BY Victim
  <2>5. /\ IsCache(r.cache) /\ SameShape(c, r.cache)
        /\ r.cache.accesses = c.accesses + 1
        /\ r.cache.writes = (IF st THEN c.writes + 1 ELSE c.writes)
        /\ st => Held(r.cache, Index(c, a), Line(c, a))
        /\ LosesOnly(c, r.cache, Evicted(old))
    BY <1>2, <2>2, <2>3, <2>4, RefillEffect
  <2> QED BY <2>3, <2>5 DEF Evicted
<1> QED BY <1>1, <1>2

\* Two levels: where the first has L bytes in a line, the second has k * L.
Levels(c, m) ==
    /\ IsCache(c) /\ IsCache(m)
    /\ \E k \in Nat \ {0} : m.linesz = k * c.linesz

LEMMA LevelsLine ==
    ASSUME NEW c, NEW m, Levels(c, m), NEW a \in Nat
    PROVE  /\ Line(c, a) * c.linesz \in Nat
           /\ Line(m, Line(c, a) * c.linesz) = Line(m, a)
BY LineBegins DEF Levels, IsCache

LEMMA ShapeSame ==
    ASSUME NEW c, NEW d, SameShape(c, d), NEW a
    PROVE  /\ Line(d, a) = Line(c, a) /\ Index(d, a) = Index(c, a) /\ Sets(d) = Sets(c)
BY DEF SameShape, Line, Index, Sets

\* What m held of an address is in d still, or in out.
Kept(m, d, out) == \A b \in Nat : Dirty(m, b) => Dirty(d, b) \/ Line(m, b) \in out

LEMMA LosesKept ==
    ASSUME NEW m, IsCache(m), NEW d, IsCache(d), SameShape(m, d), NEW out, LosesOnly(m, d, out)
    PROVE  Kept(m, d, out)
<1> SUFFICES ASSUME NEW b \in Nat, Dirty(m, b), Line(m, b) \notin out PROVE Dirty(d, b)
  BY DEF Kept
<1>1. Held(m, Index(m, b), Line(m, b)) /\ Index(m, b) \in Sets(m) /\ Line(m, b) \in Nat
  BY TagOf, Placed DEF IsCache
<1>2. Held(d, Index(m, b), Line(m, b))
  BY <1>1 DEF LosesOnly
<1> QED BY <1>2, TagOf, ShapeSame

\* A miss: the victim's line is dirty in the second level before the new line
\* is read, and lost from it only to the memory.
LEMMA MissEffect ==
    ASSUME NEW c, NEW m, Levels(c, m), NEW a \in Nat, NEW old, WritesBack(old) => old[1] \in Nat,
           NEW r \in MissHandler(c, m, a, old)
    PROVE  /\ IsCache(r.cache) /\ SameShape(m, r.cache)
           /\ r.cache.accesses = m.accesses + 1 + (IF WritesBack(old) THEN 1 ELSE 0)
           /\ r.cache.writes = m.writes + (IF WritesBack(old) THEN 1 ELSE 0)
           /\ Kept(m, r.cache, r.out)
           /\ WritesBack(old) => \A b \in Nat : Line(c, b) = old[1] =>
                Dirty(r.cache, b) \/ Line(m, b) \in r.out
<1> DEFINE new == Line(c, a) * c.linesz
           wbad == DirtyAddr(c, old)
<1>1. IsCache(c) /\ IsCache(m) /\ new \in Nat
  BY LevelsLine DEF Levels
<1> HIDE DEF new
<1>2. PICK no \in BOOLEAN : no = FALSE
  OBVIOUS
<1>3. CASE WritesBack(old)
  <2>1. PICK s \in LastAccess(m, wbad, TRUE) : \E t \in LastAccess(s.cache, new, FALSE) :
             r = [cache |-> t.cache, out |-> s.out \cup t.out]
    BY <1>3 DEF MissHandler, new
  <2>2. PICK t \in LastAccess(s.cache, new, FALSE) : r = [cache |-> t.cache, out |-> s.out \cup t.out]
    BY <2>1
  <2>3. r.cache = t.cache /\ r.out = s.out \cup t.out
    BY <2>2
  <2>4. wbad \in Nat
    <3>1. old[1] \in Nat /\ c.linesz \in Nat
      BY <1>1, <1>3 DEF IsCache, CacheType
    <3> QED BY <3>1 DEF DirtyAddr
  <2> HIDE DEF wbad
  <2>5. PICK yes \in BOOLEAN : yes = TRUE
    OBVIOUS
  <2>6. s \in LastAccess(m, wbad, yes)
    BY <2>1, <2>5
  <2>7. /\ IsCache(s.cache) /\ SameShape(m, s.cache)
        /\ s.cache.accesses = m.accesses + 1
        /\ s.cache.writes = (IF yes THEN m.writes + 1 ELSE m.writes)
        /\ yes => Held(s.cache, Index(m, wbad), Line(m, wbad))
        /\ LosesOnly(m, s.cache, s.out)
    BY <1>1, <2>4, <2>6, LastEffect
  <2>8. t \in LastAccess(s.cache, new, no)
    BY <1>2, <2>2
  <2>9. /\ IsCache(t.cache) /\ SameShape(s.cache, t.cache)
        /\ t.cache.accesses = s.cache.accesses + 1
        /\ t.cache.writes = (IF no THEN s.cache.writes + 1 ELSE s.cache.writes)
        /\ LosesOnly(s.cache, t.cache, t.out)
    BY <1>1, <2>7, <2>8, LastEffect
  <2>10. SameShape(m, t.cache)
    BY <2>7, <2>9 DEF SameShape
  <2>11. Sets(s.cache) = Sets(m)
    BY <2>7 DEF SameShape, Sets
  <2>12. LosesOnly(m, t.cache, s.out \cup t.out)
    BY <2>7, <2>9, <2>11 DEF LosesOnly
  <2>13. Kept(m, t.cache, s.out \cup t.out)
    BY <1>1, <2>9, <2>10, <2>12, LosesKept
  <2>14. ASSUME NEW b \in Nat, Line(c, b) = old[1], Line(m, b) \notin t.out
         PROVE  Dirty(t.cache, b)
    <3>1. Line(m, wbad) = Line(m, b)
      BY <2>14, LevelsLine DEF wbad, DirtyAddr
    <3>2. Index(m, wbad) = Index(m, b)
      BY <3>1 DEF Index
    <3>3. Held(s.cache, Index(m, b), Line(m, b))
      BY <2>5, <2>7, <3>1, <3>2
    <3>4. Index(m, b) \in Sets(m) /\ Line(m, b) \in Nat
      BY <1>1, Placed DEF IsCache
    <3>5. Held(t.cache, Index(m, b), Line(m, b))
      BY <2>9, <2>11, <2>14, <3>3, <3>4 DEF LosesOnly
    <3>6. Index(t.cache, b) = Index(m, b) /\ Line(t.cache, b) = Line(m, b)
      BY <2>10, ShapeSame
    <3> QED BY <2>9, <3>5, <3>6, TagOf
  <2>15. m.accesses \in Nat /\ m.writes \in Nat
    BY <1>1 DEF IsCache, CacheType
  <2> QED BY <1>2, <1>3, <2>3, <2>5, <2>7, <2>9, <2>10, <2>13, <2>14, <2>15
<1>4. CASE ~WritesBack(old)
  <2>1. r \in LastAccess(m, new, no)
    BY <1>2, <1>4 DEF MissHandler, new
  <2>2. /\ IsCache(r.cache) /\ SameShape(m, r.cache)
        /\ r.cache.accesses = m.accesses + 1
        /\ r.cache.writes = (IF no THEN m.writes + 1 ELSE m.writes)
        /\ LosesOnly(m, r.cache, r.out)
    BY <1>1, <2>1, LastEffect
  <2>3. m.accesses \in Nat /\ m.writes \in Nat
    BY <1>1 DEF IsCache, CacheType
  <2> QED BY <1>1, <1>2, <1>4, <2>2, <2>3, LosesKept
<1> QED BY <1>3, <1>4

\* An access of the first level, with what it asks of the second.
LEMMA AccessEffect ==
    ASSUME NEW c, NEW m, Levels(c, m), NEW a \in Nat, NEW st \in BOOLEAN,
           NEW r \in access(c, m, a, st)
    PROVE  /\ Levels(r.cache, r.next) /\ SameShape(c, r.cache) /\ SameShape(m, r.next)
           /\ r.next.accesses - m.accesses = (r.cache.misses - c.misses) + (r.cache.writebacks - c.writebacks)
           /\ r.next.writes - m.writes = r.cache.writebacks - c.writebacks
           /\ \A b \in Nat : Dirty(c, b) => Dirty(r.cache, b) \/ Dirty(r.next, b) \/ Line(m, b) \in r.out
           /\ Kept(m, r.next, r.out)
           /\ st => Dirty(r.cache, a)
           /\ ~st => GainsNone(c, r.cache)
           /\ r.cache.writebacks = c.writebacks
                \/ \E i \in Sets(c), n \in Nat : Held(c, i, n)
<1>0. /\ IsCache(c) /\ IsCache(m)
      /\ c.misses \in Nat /\ c.writebacks \in Nat /\ m.accesses \in Nat /\ m.writes \in Nat
      /\ Index(c, a) \in Sets(c)
  BY Placed DEF Levels, IsCache, CacheType
<1>1. CASE check_tag(c, a) # {}
  <2>1. r = [cache |-> Hit(c, a, st), next |-> m, out |-> {}]
    BY <1>1 DEF access
  <2>2. r.cache = Hit(c, a, st) /\ r.next = m /\ r.out = {}
    BY <2>1
  <2>3. PICK d : d = r.cache
    OBVIOUS
  <2>4. /\ IsCache(d) /\ SameShape(c, d)
        /\ d.misses = c.misses /\ d.writebacks = c.writebacks
        /\ st => Held(d, Index(c, a), Line(c, a))
        /\ ~st => GainsNone(c, d)
        /\ LosesOnly(c, d, {})
    BY <1>0, <1>1, <2>2, <2>3, HitEffect
  <2>5. Kept(c, d, {})
    BY <1>0, <2>4, LosesKept
  <2>6. st => Dirty(d, a)
    BY <2>4, TagOf, ShapeSame
  <2>7. Levels(d, m)
    BY <2>4 DEF Levels, SameShape
  <2>8. SameShape(m, m) /\ Kept(m, m, {})
    BY DEF SameShape, Kept
  <2> QED BY <1>0, <2>2, <2>3, <2>4, <2>5, <2>6, <2>7, <2>8 DEF Kept
<1>2. CASE check_tag(c, a) = {}
  <2>1. PICK w \in Victims(c, a) : \E t \in MissHandler(c, m, a, c.tags[Index(c, a)][w]) :
          r = [cache |-> Refill(c, a, w, c.tags[Index(c, a)][w], st), next |-> t.cache, out |-> t.out]
    BY <1>2 DEF access
  <2>2. PICK old : old = c.tags[Index(c, a)][w]
    OBVIOUS
  <2>3. PICK t \in MissHandler(c, m, a, old) :
          r = [cache |-> Refill(c, a, w, old, st), next |-> t.cache, out |-> t.out]
    BY <2>1, <2>2
  <2>4. PICK d : d = Refill(c, a, w, old, st)
    OBVIOUS
  <2>5. r.cache = d /\ r.next = t.cache /\ r.out = t.out
    BY <2>3, <2>4
  <2>6. w \in Ways(c)
    BY Victim
  <2>7. /\ IsCache(d) /\ SameShape(c, d)
        /\ d.misses = c.misses + 1
        /\ d.writebacks = (IF WritesBack(old) THEN c.writebacks + 1 ELSE c.writebacks)
        /\ st => Held(d, Index(c, a), Line(c, a))
        /\ ~st => GainsNone(c, d)
        /\ WritesBack(old) => old[1] \in Nat /\ Held(c, Index(c, a), old[1])
        /\ LosesOnly(c, d, Evicted(old))
    BY <1>0, <1>2, <2>2, <2>4, <2>6, RefillEffect
  <2>8. /\ IsCache(t.cache) /\ SameShape(m, t.cache)
        /\ t.cache.accesses = m.accesses + 1 + (IF WritesBack(old) THEN 1 ELSE 0)
        /\ t.cache.writes = m.writes + (IF WritesBack(old) THEN 1 ELSE 0)
        /\ Kept(m, t.cache, t.out)
        /\ WritesBack(old) => \A b \in Nat : Line(c, b) = old[1] =>
             Dirty(t.cache, b) \/ Line(m, b) \in t.out
    BY <2>7, MissEffect
  <2>9. Kept(c, d, Evicted(old))
    BY <1>0, <2>7, LosesKept
  <2>10. \A b \in Nat : Dirty(c, b) => Dirty(d, b) \/ Dirty(t.cache, b) \/ Line(m, b) \in t.out
    BY <2>8, <2>9 DEF Kept, Evicted
  <2>11. st => Dirty(d, a)
    BY <2>7, TagOf, ShapeSame
  <2>12. Levels(d, t.cache)
    BY <2>7, <2>8 DEF Levels, SameShape
  <2>13. /\ t.cache.accesses - m.accesses = (d.misses - c.misses) + (d.writebacks - c.writebacks)
         /\ t.cache.writes - m.writes = d.writebacks - c.writebacks
    BY <1>0, <2>7, <2>8
  <2>14. d.writebacks = c.writebacks \/ \E i \in Sets(c), n \in Nat : Held(c, i, n)
    BY <1>0, <2>7
  <2> QED BY <2>5, <2>7, <2>8, <2>10, <2>11, <2>12, <2>13, <2>14
<1> QED BY <1>1, <1>2

\* Nothing that was stored is only in the past; the instruction cache has no
\* dirty line, and the second level has counted what the first asked of it.
CacheInv ==
    /\ Levels(ic, l2) /\ Levels(dc, l2)
    /\ \A i \in Sets(ic), n \in Nat : ~Held(ic, i, n)
    /\ stored \subseteq Addrs
    /\ \A a \in stored : Dirty(dc, a) \/ Dirty(l2, a) \/ a \in written
    /\ l2.accesses = ic.misses + dc.misses + dc.writebacks
    /\ l2.writes = dc.writebacks /\ ic.writebacks = 0

LEMMA CountsAreNumbers ==
    ASSUME NEW c, IsCache(c)
    PROVE  c.accesses \in Nat /\ c.misses \in Nat /\ c.writes \in Nat /\ c.writebacks \in Nat
BY DEF IsCache, CacheType

LEMMA LevelsKept ==
    ASSUME NEW c, NEW m, Levels(c, m), NEW d, IsCache(d), SameShape(m, d)
    PROVE  Levels(c, d)
BY DEF Levels, SameShape

LEMMA Written ==
    ASSUME NEW a \in Addrs, NEW lines
    PROVE  a \in AddrsOf(lines) <=> Line(l2, a) \in lines
BY DEF AddrsOf

LEMMA Constructed ==
    ASSUME NEW g, g.sets \in Nat \ {0}, g.ways \in Nat \ {0}, g.linesz \in Nat \ {0},
           NEW c, c = construct(g)
    PROVE  /\ IsCache(c) /\ c.linesz = g.linesz
           /\ c.accesses = 0 /\ c.misses = 0 /\ c.writes = 0 /\ c.writebacks = 0
           /\ \A i \in Sets(c), n \in Nat : ~Held(c, i, n)
<1>1. /\ c = [f \in CacheFields |-> c[f]]
      /\ c.sets = g.sets /\ c.ways = g.ways /\ c.linesz = g.linesz
      /\ c.accesses = 0 /\ c.misses = 0 /\ c.writes = 0 /\ c.writebacks = 0
      /\ c.tags = [i \in 0 .. g.sets - 1 |-> [w \in 0 .. g.ways - 1 |-> NoLine]]
  BY DEF construct, CacheFields
<1>2. Sets(c) = 0 .. g.sets - 1 /\ Ways(c) = 0 .. g.ways - 1
  BY <1>1 DEF Sets, Ways
<1>3. \A i \in Sets(c), w \in Ways(c) : c.tags[i][w] = NoLine
  BY <1>1, <1>2
<1>4. c.tags \in [Sets(c) -> [Ways(c) -> Entries]]
  <2>1. [w \in Ways(c) |-> NoLine] \in [Ways(c) -> Entries]
    BY DEF Entries
  <2>2. c.tags = [i \in Sets(c) |-> [w \in Ways(c) |-> NoLine]]
    BY <1>1, <1>2
  <2> QED BY <2>1, <2>2
<1>5. IsCache(c)
  BY <1>1, <1>3, <1>4 DEF IsCache, CacheType, NoTwice
<1>6. \A i \in Sets(c), n \in Nat : ~Held(c, i, n)
  BY <1>3, Entry DEF Held
<1> QED BY <1>1, <1>5, <1>6

LEMMA CacheStarts == CacheInit => CacheInv
<1> SUFFICES ASSUME CacheInit PROVE CacheInv
  OBVIOUS
<1>1. PICK g \in Configs : ic = construct(g[1]) /\ dc = construct(g[1]) /\ l2 = construct(g[2])
  BY DEF CacheInit
<1>2. \A i \in {1, 2} : g[i].sets \in Nat \ {0} /\ g[i].ways \in Nat \ {0} /\ g[i].linesz \in Nat \ {0}
  BY CacheAssumption
<1>3. PICK k \in 1 .. g[2].linesz : g[2].linesz = k * g[1].linesz
  BY CacheAssumption
<1>4. /\ IsCache(ic) /\ ic.linesz = g[1].linesz
      /\ ic.misses = 0 /\ ic.writebacks = 0
      /\ \A i \in Sets(ic), n \in Nat : ~Held(ic, i, n)
  BY <1>1, <1>2, Constructed
<1>5. IsCache(dc) /\ dc.linesz = g[1].linesz /\ dc.misses = 0 /\ dc.writebacks = 0
  BY <1>1, <1>2, Constructed
<1>6. IsCache(l2) /\ l2.linesz = g[2].linesz /\ l2.accesses = 0 /\ l2.writes = 0
  BY <1>1, <1>2, Constructed
<1>7. k \in Nat \ {0}
  BY <1>2, <1>3
<1>8. Levels(ic, l2) /\ Levels(dc, l2)
  BY <1>3, <1>4, <1>5, <1>6, <1>7 DEF Levels
<1> QED BY <1>4, <1>5, <1>6, <1>8 DEF CacheInit, CacheInv

LEMMA FetchConserves == CacheInv /\ TraceFetch => CacheInv'
<1> SUFFICES ASSUME CacheInv, TraceFetch PROVE CacheInv'
  OBVIOUS
<1>1. PICK addr \in Addrs : \E r \in access(ic, l2, addr, FALSE) :
        ic' = r.cache /\ l2' = r.next /\ written' = written \cup AddrsOf(r.out) /\ UNCHANGED <<dc, stored>>
  BY DEF TraceFetch
<1>12. PICK r \in access(ic, l2, addr, FALSE) :
        ic' = r.cache /\ l2' = r.next /\ written' = written \cup AddrsOf(r.out) /\ UNCHANGED <<dc, stored>>
  BY <1>1
<1>2. PICK st \in BOOLEAN : st = FALSE
  OBVIOUS
<1>3. addr \in Nat /\ r \in access(ic, l2, addr, st) /\ Levels(ic, l2)
  BY <1>12, <1>2, CacheAssumption DEF CacheInv
<1>4. /\ Levels(r.cache, r.next) /\ SameShape(ic, r.cache) /\ SameShape(l2, r.next)
      /\ r.next.accesses - l2.accesses = (r.cache.misses - ic.misses) + (r.cache.writebacks - ic.writebacks)
      /\ r.next.writes - l2.writes = r.cache.writebacks - ic.writebacks
      /\ Kept(l2, r.next, r.out)
      /\ ~st => GainsNone(ic, r.cache)
      /\ r.cache.writebacks = ic.writebacks \/ \E i \in Sets(ic), n \in Nat : Held(ic, i, n)
  BY <1>3, AccessEffect
<1>5. Levels(ic', l2') /\ Levels(dc', l2')
  BY <1>12, <1>4, LevelsKept DEF CacheInv, Levels
<1>6. r.cache.writebacks = ic.writebacks
  BY <1>4 DEF CacheInv
<1>7. \A i \in Sets(ic'), n \in Nat : ~Held(ic', i, n)
  BY <1>12, <1>2, <1>4, ShapeSame DEF CacheInv, GainsNone
<1>8. ASSUME NEW a \in stored' PROVE Dirty(dc', a) \/ Dirty(l2', a) \/ a \in written'
  <2>1. a \in stored /\ a \in Addrs /\ a \in Nat /\ dc' = dc
    BY <1>12, <1>8, CacheAssumption DEF CacheInv
  <2>2. Dirty(dc, a) \/ Dirty(l2, a) \/ a \in written
    BY <2>1 DEF CacheInv
  <2>3. Dirty(l2, a) => Dirty(r.next, a) \/ a \in AddrsOf(r.out)
    BY <1>4, <2>1, Written DEF Kept
  <2> QED BY <1>12, <2>1, <2>2, <2>3
<1>9. /\ l2.accesses \in Nat /\ l2.writes \in Nat
      /\ ic.misses \in Nat /\ ic.writebacks \in Nat /\ dc.misses \in Nat /\ dc.writebacks \in Nat
      /\ r.cache.misses \in Nat /\ r.next.accesses \in Nat /\ r.next.writes \in Nat
  BY <1>4, CountsAreNumbers DEF CacheInv, Levels
<1>10. /\ l2'.accesses = ic'.misses + dc'.misses + dc'.writebacks
       /\ l2'.writes = dc'.writebacks /\ ic'.writebacks = 0
  <2>1. /\ l2'.accesses = r.next.accesses /\ l2'.writes = r.next.writes
        /\ ic'.misses = r.cache.misses /\ ic'.writebacks = r.cache.writebacks
        /\ dc'.misses = dc.misses /\ dc'.writebacks = dc.writebacks
    BY <1>12
  <2>2. /\ l2.accesses = ic.misses + dc.misses + dc.writebacks
        /\ l2.writes = dc.writebacks /\ ic.writebacks = 0
    BY DEF CacheInv
  <2>3. /\ r.next.accesses - l2.accesses = r.cache.misses - ic.misses
        /\ r.next.writes - l2.writes = 0
    BY <1>4, <1>6, <1>9
  <2>4. r.next.accesses = r.cache.misses + dc.misses + dc.writebacks /\ r.next.writes = dc.writebacks
    BY <1>9, <2>2, <2>3
  <2> QED BY <1>6, <2>1, <2>2, <2>4
<1>11. stored' \subseteq Addrs
  BY <1>12 DEF CacheInv
<1> QED BY <1>5, <1>7, <1>8, <1>10, <1>11 DEF CacheInv

\* A load or a store: what the data cache lets go of is in the second level, or
\* in memory, and the address stored to is dirty.
LEMMA DataConserves ==
    ASSUME CacheInv, NEW addr \in Addrs, NEW st \in BOOLEAN, NEW r \in access(dc, l2, addr, st),
           dc' = r.cache, l2' = r.next, ic' = ic,
           stored' = IF st THEN stored \cup {addr} ELSE stored,
           written' = IF st THEN (written \cup AddrsOf(r.out)) \ {addr} ELSE written \cup AddrsOf(r.out)
    PROVE  CacheInv'
<1>3. addr \in Nat /\ Levels(dc, l2)
  BY CacheAssumption DEF CacheInv
<1>4. /\ Levels(r.cache, r.next) /\ SameShape(dc, r.cache) /\ SameShape(l2, r.next)
      /\ r.next.accesses - l2.accesses = (r.cache.misses - dc.misses) + (r.cache.writebacks - dc.writebacks)
      /\ r.next.writes - l2.writes = r.cache.writebacks - dc.writebacks
      /\ \A b \in Nat : Dirty(dc, b) => Dirty(r.cache, b) \/ Dirty(r.next, b) \/ Line(l2, b) \in r.out
      /\ Kept(l2, r.next, r.out)
      /\ st => Dirty(r.cache, addr)
  BY <1>3, AccessEffect
<1>5. Levels(ic', l2') /\ Levels(dc', l2')
  BY <1>4, LevelsKept DEF CacheInv, Levels
<1>8. ASSUME NEW a \in stored' PROVE Dirty(dc', a) \/ Dirty(l2', a) \/ a \in written'
  <2>1. CASE st /\ a = addr
    BY <1>4, <2>1
  <2>2. CASE ~(st /\ a = addr)
    <3>1. a \in stored /\ a \in Addrs /\ a \in Nat
      BY <1>8, <2>2, CacheAssumption DEF CacheInv
    <3>2. Dirty(dc, a) \/ Dirty(l2, a) \/ a \in written
      BY <3>1 DEF CacheInv
    <3>3. Dirty(l2, a) => Dirty(r.next, a) \/ a \in AddrsOf(r.out)
      BY <1>4, <3>1, Written DEF Kept
    <3>4. Dirty(dc, a) => Dirty(r.cache, a) \/ Dirty(r.next, a) \/ a \in AddrsOf(r.out)
      BY <1>4, <3>1, Written
    <3>5. a \in written \cup AddrsOf(r.out) => a \in written'
      BY <2>2
    <3> QED BY <3>2, <3>3, <3>4, <3>5
  <2> QED BY <2>1, <2>2
<1>9. /\ l2.accesses \in Nat /\ l2.writes \in Nat
      /\ ic.misses \in Nat /\ ic.writebacks \in Nat /\ dc.misses \in Nat /\ dc.writebacks \in Nat
      /\ r.cache.misses \in Nat /\ r.cache.writebacks \in Nat
      /\ r.next.accesses \in Nat /\ r.next.writes \in Nat
  BY <1>4, CountsAreNumbers DEF CacheInv, Levels
<1>10. /\ l2'.accesses = ic'.misses + dc'.misses + dc'.writebacks
       /\ l2'.writes = dc'.writebacks /\ ic'.writebacks = 0
  BY <1>4, <1>9 DEF CacheInv
<1>11. stored' \subseteq Addrs
  BY DEF CacheInv
<1>12. \A i \in Sets(ic'), n \in Nat : ~Held(ic', i, n)
  BY DEF CacheInv
<1> QED BY <1>5, <1>8, <1>10, <1>11, <1>12 DEF CacheInv

LEMMA CacheStep == CacheInv /\ [CacheNext]_cacheVars => CacheInv'
<1> SUFFICES ASSUME CacheInv, [CacheNext]_cacheVars PROVE CacheInv'
  OBVIOUS
<1>1. ASSUME TraceFetch PROVE CacheInv'
  BY <1>1, FetchConserves
<1>2. ASSUME TraceLoad PROVE CacheInv'
  <2>0. PICK addr \in Addrs : \E r \in access(dc, l2, addr, FALSE) :
          dc' = r.cache /\ l2' = r.next /\ written' = written \cup AddrsOf(r.out) /\ UNCHANGED <<ic, stored>>
    BY <1>2 DEF TraceLoad
  <2>1. PICK r \in access(dc, l2, addr, FALSE) :
          dc' = r.cache /\ l2' = r.next /\ written' = written \cup AddrsOf(r.out) /\ UNCHANGED <<ic, stored>>
    BY <2>0
  <2>2. PICK st \in BOOLEAN : st = FALSE
    OBVIOUS
  <2>3. r \in access(dc, l2, addr, st)
    BY <2>1, <2>2
  <2> QED BY <2>1, <2>2, <2>3, DataConserves
<1>3. ASSUME TraceStore PROVE CacheInv'
  <2>0. PICK addr \in Addrs : \E r \in access(dc, l2, addr, TRUE) :
          /\ dc' = r.cache /\ l2' = r.next
          /\ written' = (written \cup AddrsOf(r.out)) \ {addr}
          /\ stored' = stored \cup {addr} /\ UNCHANGED ic
    BY <1>3 DEF TraceStore
  <2>1. PICK r \in access(dc, l2, addr, TRUE) :
          /\ dc' = r.cache /\ l2' = r.next
          /\ written' = (written \cup AddrsOf(r.out)) \ {addr}
          /\ stored' = stored \cup {addr} /\ UNCHANGED ic
    BY <2>0
  <2>2. PICK st \in BOOLEAN : st = TRUE
    OBVIOUS
  <2>3. r \in access(dc, l2, addr, st)
    BY <2>1, <2>2
  <2> QED BY <2>1, <2>2, <2>3, DataConserves
<1>4. ASSUME UNCHANGED cacheVars PROVE CacheInv'
  BY <1>4 DEF cacheVars, CacheInv, Levels, Dirty, Held, Sets, check_tag
<1> QED BY <1>1, <1>2, <1>3, <1>4 DEF CacheNext

\* The cache models of the simulator, of any geometry with whole lines of the
\* first level in those of the second, whatever is accessed and whichever
\* victims are taken (cachesim.cc).
THEOREM CacheInvariant == CacheSpec => []CacheInv
<1> QED BY CacheStarts, CacheStep, PTL DEF CacheSpec

\* No write is lost between the levels, no line is in a cache twice, and the
\* levels' counters agree (WritesConserved; cache_sim_t::access).
THEOREM CachesConserveWrites == CacheSpec => []WritesConserved
<1>1. ASSUME NEW c, IsCache(c), NEW a \in Addrs
      PROVE  Cardinality(check_tag(c, a)) <= 1
  <2>1. \A v, w \in check_tag(c, a) : v = w
    BY <1>1, TagOf, CacheAssumption
  <2>2. CASE check_tag(c, a) = {}
    BY <2>2, FS_EmptySet
  <2>3. CASE check_tag(c, a) # {}
    <3>1. PICK w : check_tag(c, a) = {w}
      BY <2>1, <2>3
    <3>2. Cardinality(check_tag(c, a)) = 1
      BY <3>1, FS_Singleton
    <3> QED BY <3>2
  <2> QED BY <2>2, <2>3
<1>2. CacheInv => WritesConserved
  BY <1>1 DEF CacheInv, Levels, WritesConserved
<1> QED BY <1>2, CacheInvariant, PTL
====
