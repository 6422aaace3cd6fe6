---------------------------- MODULE IsaReference ----------------------------
(***************************************************************************)
(* What the instruction set says of an integer instruction, in numbers: a  *)
(* register is an integer of XLEN bits, and a word is one of half as many. *)
(* A compressed instruction is the one it expands to.                      *)
(***************************************************************************)
EXTENDS Integers

CONSTANT RegBits          \* bits of a register of RV64

Signed(v, w) == ((v + 2^(w - 1)) % 2^w) - 2^(w - 1)
Unsigned(v, w) == v % 2^w
Bit(v, i) == (v \div 2^i) % 2
RECURSIVE BitsOf(_, _, _, _)
BitsOf(Op(_, _), a, b, n) ==
    IF n = 0 THEN 0 ELSE BitsOf(Op, a, b, n - 1) + (2^(n - 1) * Op(Bit(a, n - 1), Bit(b, n - 1)))
Mag(v) == IF v < 0 THEN -v ELSE v
TowardsZero(a, b) == (IF (a < 0) = (b < 0) THEN 1 ELSE -1) * (Mag(a) \div Mag(b))

\* An operation of width w on two integers.
Alu(op, w, x, y) ==
    LET a == Signed(x, w)      b == Signed(y, w)
        ua == Unsigned(x, w)   ub == Unsigned(y, w)
        sh == y % w
        min(p, q) == p * q
        max(p, q) == (p + q) - (p * q)
        odd(p, q) == (p + q) % 2
        flag(c) == IF c THEN 1 ELSE 0 IN
    CASE op = "add" -> a + b
      [] op = "sub" -> a - b
      [] op = "and" -> BitsOf(min, ua, ub, w)
      [] op = "or" -> BitsOf(max, ua, ub, w)
      [] op = "xor" -> BitsOf(odd, ua, ub, w)
      [] op = "slt" -> flag(a < b)
      [] op = "sltu" -> flag(ua < ub)
      [] op = "sll" -> ua * 2^sh
      [] op = "srl" -> ua \div 2^sh
      [] op = "sra" -> a \div 2^sh
      [] op = "mul" -> a * b
      [] op = "mulh" -> (a * b) \div 2^w
      [] op = "mulhu" -> (ua * ub) \div 2^w
      [] op = "mulhsu" -> (a * ub) \div 2^w
      [] op = "div" -> IF b = 0 THEN -1 ELSE TowardsZero(a, b)
      [] op = "divu" -> IF b = 0 THEN -1 ELSE ua \div ub
      [] op = "rem" -> IF b = 0 THEN a ELSE a - (b * TowardsZero(a, b))
      [] op = "remu" -> IF b = 0 THEN a ELSE ua % ub
      [] op = "swap" -> b
      [] op = "max" -> IF a < b THEN b ELSE a
      [] op = "min" -> IF a < b THEN a ELSE b
      [] op = "maxu" -> IF ua < ub THEN ub ELSE ua
      [] op = "minu" -> IF ua < ub THEN ua ELSE ub

Regs == {"add", "sub", "and", "or", "xor", "slt", "sltu", "sll", "srl", "sra"}
Muls == {"mul", "mulh", "mulhu", "mulhsu", "div", "divu", "rem", "remu"}
Imms == [addi |-> "add", andi |-> "and", ori |-> "or", xori |-> "xor", slti |-> "slt", sltiu |-> "sltu",
         slli |-> "sll", srli |-> "srl", srai |-> "sra"]
WordOps == [addw |-> "add", subw |-> "sub", sllw |-> "sll", srlw |-> "srl", sraw |-> "sra",
          mulw |-> "mul", divw |-> "div", divuw |-> "divu", remw |-> "rem", remuw |-> "remu"]
WordImms == [addiw |-> "add", slliw |-> "sll", srliw |-> "srl", sraiw |-> "sra"]
Loads == [lb |-> 1, lbu |-> 1, lh |-> 2, lhu |-> 2, lw |-> 4, lwu |-> 4, ld |-> 8]
Stores == [sb |-> 1, sh |-> 2, sw |-> 4, sd |-> 8]
FpLoads == [flw |-> 4, fld |-> 8]
FpStores == [fsw |-> 4, fsd |-> 8]
AmoWords == [amoadd_w |-> "add", amoand_w |-> "and", amoor_w |-> "or", amoxor_w |-> "xor", amoswap_w |-> "swap",
             amomax_w |-> "max", amomaxu_w |-> "maxu", amomin_w |-> "min", amominu_w |-> "minu"]
AmoDoubles == [amoadd_d |-> "add", amoand_d |-> "and", amoor_d |-> "or", amoxor_d |-> "xor", amoswap_d |-> "swap",
               amomax_d |-> "max", amomaxu_d |-> "maxu", amomin_d |-> "min", amominu_d |-> "minu"]

\* A base instruction on machine m: [xlen, ext, x, mem, resv, csr, pc, len].
Effect(m, i) ==
    LET a == m.x[i.rs1]     b == m.x[i.rs2]
        reg(v, w) == Signed(v, w) % 2^RegBits
        same == [x |-> m.x, npc |-> reg(m.pc + m.len, m.xlen), st |-> <<>>, f |-> <<>>, csr |-> m.csr.v,
                 resv |-> m.resv, trap |-> "none"]
        Illegal == [same EXCEPT !.trap = "illegal"]
        Needs(c, s) == IF c THEN s ELSE Illegal
        Rd(s, v, w) == [s EXCEPT !.x[i.rd] = IF i.rd = 0 THEN 0 ELSE reg(v, w)]
        To(s, t) == IF t % 4 = 2 /\ "C" \notin m.ext THEN [same EXCEPT !.trap = "misaligned"]
                    ELSE [s EXCEPT !.npc = reg(t, m.xlen)]
        If(c) == IF c THEN To(same, (m.pc + i.imm) % 2^m.xlen) ELSE same
        Jump(t) == LET s == Rd(same, m.pc + m.len, m.xlen)  j == To(s, t % 2^m.xlen) IN j
        at(addr) == m.mem + Unsigned(addr, m.xlen)
        bits(n) == (n * RegBits) \div 8
        Put(s, addr, n, v) == [s EXCEPT !.st = <<addr % 2^m.xlen, n, v % 2^bits(n)>>]
        rv64 == m.xlen = RegBits
        Amo(n, f) == Needs("A" \in m.ext /\ (n = 8 => rv64),
                        Put(Rd(same, at(a), bits(n)), a, n, Alu(f, bits(n), at(a), b)))
        Csr(write, v) == Needs(~(write /\ m.csr.ro), [Rd(same, m.csr.v, m.xlen) EXCEPT !.csr = IF write THEN v ELSE @]) IN
    CASE i.op \in Regs -> Rd(same, Alu(i.op, m.xlen, a, b), m.xlen)
      [] i.op \in Muls -> Needs("M" \in m.ext, Rd(same, Alu(i.op, m.xlen, a, b), m.xlen))
      [] i.op \in DOMAIN Imms -> Needs(Imms[i.op] \in {"sll", "srl", "sra"} => i.imm < m.xlen,
                                    Rd(same, Alu(Imms[i.op], m.xlen, a, i.imm), m.xlen))
      [] i.op \in DOMAIN WordOps -> Needs(rv64 /\ (WordOps[i.op] \in Muls => "M" \in m.ext),
                                    Rd(same, Alu(WordOps[i.op], RegBits \div 2, a, b), RegBits \div 2))
      [] i.op \in DOMAIN WordImms -> Needs(rv64, Rd(same, Alu(WordImms[i.op], RegBits \div 2, a, i.imm), RegBits \div 2))
      [] i.op = "lui" -> Rd(same, i.imm, m.xlen)
      [] i.op = "auipc" -> Rd(same, i.imm + m.pc, m.xlen)
      [] i.op = "beq" -> If(a = b)
      [] i.op = "bne" -> If(a # b)
      [] i.op = "blt" -> If(Alu("slt", m.xlen, a, b) = 1)
      [] i.op = "bge" -> If(Alu("slt", m.xlen, a, b) = 0)
      [] i.op = "bltu" -> If(Alu("sltu", m.xlen, a, b) = 1)
      [] i.op = "bgeu" -> If(Alu("sltu", m.xlen, a, b) = 0)
      [] i.op = "jal" -> Jump(m.pc + i.imm)
      [] i.op = "jalr" -> Jump(2 * ((a + i.imm) \div 2))
      [] i.op \in DOMAIN Loads ->
            LET n == bits(Loads[i.op])  v == at(a + i.imm) IN
            Needs(i.op \in {"lwu", "ld"} => rv64,
                Rd(same, IF i.op \in {"lbu", "lhu", "lwu"} THEN Unsigned(v, n) ELSE Signed(v, n), m.xlen))
      [] i.op \in DOMAIN Stores -> Needs(i.op = "sd" => rv64, Put(same, a + i.imm, Stores[i.op], b))
      [] i.op \in DOMAIN FpLoads ->
            LET n == bits(FpLoads[i.op])  v == Unsigned(at(a + i.imm), n) IN
            Needs((IF i.op = "flw" THEN "F" ELSE "D") \in m.ext /\ "FS" \in m.ext,
                  [same EXCEPT !.f = <<i.rd, (2^RegBits - 2^n) + v>>])
      [] i.op \in DOMAIN FpStores ->
            Needs((IF i.op = "fsw" THEN "F" ELSE "D") \in m.ext /\ "FS" \in m.ext, Put(same, a + i.imm, FpStores[i.op], m.fv))
      [] i.op \in DOMAIN AmoWords -> Amo(4, AmoWords[i.op])
      [] i.op \in DOMAIN AmoDoubles -> Amo(8, AmoDoubles[i.op])
      [] i.op = "lr_d" -> Needs("A" \in m.ext /\ rv64, [Rd(same, at(a), RegBits) EXCEPT !.resv = a])
      [] i.op = "sc_d" -> Needs("A" \in m.ext /\ rv64,
                            IF a = m.resv THEN Put(Rd(same, 0, RegBits), a, 8, b) ELSE Rd(same, 1, RegBits))
      [] i.op = "csrrc" -> Csr(i.rs1 # 0, Alu("sub", RegBits, m.csr.v, Alu("and", RegBits, m.csr.v, a)) % 2^RegBits)
      [] i.op = "csrrwi" -> Csr(TRUE, i.rs1)
      [] i.op = "csrrsi" -> Csr(i.rs1 # 0, Alu("or", RegBits, m.csr.v, i.rs1) % 2^RegBits)
      [] i.op = "csrrci" -> Csr(i.rs1 # 0, Alu("sub", RegBits, m.csr.v, Alu("and", RegBits, m.csr.v, i.rs1)) % 2^RegBits)
      [] i.op = "ebreak" -> [same EXCEPT !.trap = "breakpoint"]
      [] OTHER -> Illegal

\* The table of compressed instructions: fields c.rd, c.rs2 (full), c.s1 and
\* c.s2 (of three bits); reserved encodings are illegal.
Expand(c, rv64) ==
    LET I(op, rd, rs1, rs2) == [op |-> op, rd |-> rd, rs1 |-> rs1, rs2 |-> rs2, imm |-> c.imm]
        Short(op) == I(op, c.s1, c.s1, c.s2)
        Unless(bad, i) == IF bad THEN I("reserved", 0, 0, 0) ELSE i
        No(i) == [i EXCEPT !.imm = 0] IN
    CASE c.op = "c_add" -> Unless(c.rs2 = 0, I("add", c.rd, c.rd, c.rs2))
      [] c.op = "c_mv" -> Unless(c.rs2 = 0, I("add", c.rd, 0, c.rs2))
      [] c.op = "c_addi" -> I("addi", c.rd, c.rd, 0)
      [] c.op = "c_li" -> I("addi", c.rd, 0, 0)
      [] c.op = "c_lui" -> Unless(c.imm = 0, IF c.rd = 2 THEN I("addi", 2, 2, 0) ELSE I("lui", c.rd, 0, 0))
      [] c.op = "c_addw" -> Short("addw")
      [] c.op = "c_subw" -> Short("subw")
      [] c.op = "c_sub" -> Short("sub")
      [] c.op = "c_and" -> Short("and")
      [] c.op = "c_or" -> Short("or")
      [] c.op = "c_xor" -> Short("xor")
      [] c.op = "c_andi" -> Short("andi")
      [] c.op = "c_srli" -> Short("srli")
      [] c.op = "c_srai" -> Short("srai")
      [] c.op = "c_slli" -> I("slli", c.rd, c.rd, 0)
      [] c.op = "c_beqz" -> I("beq", 0, c.s1, 0)
      [] c.op = "c_bnez" -> I("bne", 0, c.s1, 0)
      [] c.op = "c_j" -> I("jal", 0, 0, 0)
      [] c.op = "c_jal" -> IF rv64 THEN Unless(c.rd = 0, I("addiw", c.rd, c.rd, 0)) ELSE I("jal", 1, 0, 0)
      [] c.op = "c_jalr" -> Unless(c.rd = 0, No(I("jalr", 1, c.rd, 0)))
      [] c.op = "c_jr" -> Unless(c.rd = 0, No(I("jalr", 0, c.rd, 0)))
      [] c.op = "c_ebreak" -> I("ebreak", 0, 0, 0)
      [] c.op = "c_lw" -> I("lw", c.s2, c.s1, 0)
      [] c.op = "c_lwsp" -> Unless(c.rd = 0, I("lw", c.rd, 2, 0))
      [] c.op = "c_sw" -> I("sw", 0, c.s1, c.s2)
      [] c.op = "c_swsp" -> I("sw", 0, 2, c.rs2)
      [] c.op = "c_flw" -> I(IF rv64 THEN "ld" ELSE "flw", c.s2, c.s1, 0)
      [] c.op = "c_flwsp" -> IF rv64 THEN Unless(c.rd = 0, I("ld", c.rd, 2, 0)) ELSE I("flw", c.rd, 2, 0)
      [] c.op = "c_fsw" -> I(IF rv64 THEN "sd" ELSE "fsw", 0, c.s1, c.s2)
      [] c.op = "c_fswsp" -> I(IF rv64 THEN "sd" ELSE "fsw", 0, 2, c.rs2)
      [] c.op = "c_fld" -> I("fld", c.s2, c.s1, 0)
      [] c.op = "c_fldsp" -> I("fld", c.rd, 2, 0)
      [] c.op = "c_fsd" -> I("fsd", 0, c.s1, c.s2)
      [] c.op = "c_fsdsp" -> I("fsd", 0, 2, c.rs2)

\* The layout of an immediate: where its bit k is in the word, if anywhere,
\* and whether it is signed.
Immediate(layout, signed, b) ==
    LET top == CHOOSE k \in DOMAIN layout : \A j \in DOMAIN layout : j <= k
        value[k \in 0 .. top] ==
            (IF k = 0 THEN 0 ELSE value[k - 1]) + (IF k \in DOMAIN layout /\ layout[k] \in b THEN 2^k ELSE 0) IN
    IF signed THEN Signed(value[top], top + 1) ELSE value[top]
====
