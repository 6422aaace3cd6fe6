----------------------------- MODULE SpikeInsns -----------------------------
(***************************************************************************)
(* The simulator's integer and compressed instructions (riscv/insns/*.h,   *)
(* decode.h, mulhi.h) with words of RegBits bits for the 64 of reg_t, half *)
(* of it for 32 and an eighth for a byte.  Registers hold RegBits bits at  *)
(* either xlen; on RV32 they hold sign-extended values.                    *)
(*                                                                         *)
(* An instruction is an operator whose value is what it leaves: registers, *)
(* next pc, the store it makes, the CSR it writes, its trap.               *)
(***************************************************************************)
EXTENDS Integers, Bitwise
LOCAL INSTANCE FiniteSetsExt

CONSTANT RegBits

VARIABLES
    xlen, ext,      \* RegBits or RegBits \div 2; the extensions
    XPR,            \* the integer registers; FRS2 is the operand of FP stores
    mem,            \* what the memory holds, from which each address differs
    reservation,    \* load_reservation
    csr,            \* the CSR named by the instruction: value, read-only
    insn,           \* its name and fields
    res             \* what the instruction left, or none

insnVars == <<xlen, ext, XPR, mem, reservation, csr, insn, res>>

H == RegBits \div 2
RA == 1
SP == 2
signed(x, w) == IF x % 2^w >= 2^(w - 1) THEN (x % 2^w) - 2^w ELSE x % 2^w
reg(x) == x % 2^RegBits
sext32(x) == reg(signed(x, H))
zext32(x) == x % 2^H
sext_xlen(x) == reg(signed(x, xlen))
zext_xlen(x) == x % 2^xlen
sreg(x) == signed(x, RegBits)

Base == [x |-> XPR, npc |-> sext_xlen(insn.pc + insn.len), st |-> <<>>, f |-> <<>>, csr |-> csr.v, resv |-> reservation, trap |-> "none"]
Traps(why) == [Base EXCEPT !.trap = why]
require(c, s) == IF c THEN s ELSE Traps("illegal")
require_rv64(s) == require(xlen = RegBits, s)
require_extension(e, s) == require(e \in ext, s)
require_fp(s) == require("FS" \in ext, s)

WRITE_REG(s, r, v) == [s EXCEPT !.x[r] = IF r = 0 THEN @ ELSE reg(v)]
WRITE_RD(v) == WRITE_REG(Base, insn.rd, v)
WRITE_RVC_RS1S(v) == WRITE_REG(Base, insn.s1, v)
WRITE_RVC_RS2S(v) == WRITE_REG(Base, insn.s2, v)
RS1 == XPR[insn.rs1]
RS2 == XPR[insn.rs2]
RVC_RS1 == XPR[insn.rd]
RVC_RS2 == XPR[insn.rs2]
RVC_RS1S == XPR[insn.s1]
RVC_RS2S == XPR[insn.s2]
RVC_SP == XPR[SP]
imm == insn.imm
SHAMT == imm % RegBits
Truth(b) == IF b THEN 1 ELSE 0
set_pc(s, v) ==
    IF (v \div 2) % 2 = 1 /\ "C" \notin ext THEN Traps("misaligned") ELSE [s EXCEPT !.npc = sext_xlen(v)]
ShiftL(a, n) == reg(a * 2^n)
ShiftR(a, n) == a \div 2^n                 \* of an unsigned value
Sar(a, w, n) == signed(a, w) \div 2^n
Even(x) == x - (x % 2)                  \* & ~1
Divide(a, b) ==                            \* C's: towards zero
    LET q == (IF a < 0 THEN -a ELSE a) \div (IF b < 0 THEN -b ELSE b) IN IF (a < 0) # (b < 0) THEN -q ELSE q
Mod(a, b) == a - (b * Divide(a, b))

----------------------------------------------------------------------------
(* Arithmetic. *)

add == WRITE_RD(sext_xlen(RS1 + RS2))
addi == WRITE_RD(sext_xlen(RS1 + imm))
addiw == require_rv64(WRITE_RD(sext32(imm + RS1)))
addw == require_rv64(WRITE_RD(sext32(RS1 + RS2)))
sub == WRITE_RD(sext_xlen(RS1 - RS2))
subw == require_rv64(WRITE_RD(sext32(RS1 - RS2)))
and == WRITE_RD(RS1 & RS2)
andi == WRITE_RD(reg(imm) & RS1)
or == WRITE_RD(RS1 | RS2)
ori == WRITE_RD(reg(imm) | RS1)
xor == WRITE_RD(RS1 ^^ RS2)
xori == WRITE_RD(reg(imm) ^^ RS1)
lui == WRITE_RD(reg(imm))
auipc == WRITE_RD(sext_xlen(imm + insn.pc))
slt == WRITE_RD(Truth(sreg(RS1) < sreg(RS2)))
slti == WRITE_RD(Truth(sreg(RS1) < imm))
sltu == WRITE_RD(Truth(RS1 < RS2))
sltiu == WRITE_RD(Truth(RS1 < reg(imm)))
sll == WRITE_RD(sext_xlen(ShiftL(RS1, RS2 % xlen)))
slli == require(SHAMT < xlen, WRITE_RD(sext_xlen(ShiftL(RS1, SHAMT))))
sllw == require_rv64(WRITE_RD(sext32(ShiftL(RS1, RS2 % H))))
slliw == require_rv64(WRITE_RD(sext32(ShiftL(RS1, SHAMT))))
srl == WRITE_RD(sext_xlen(ShiftR(zext_xlen(RS1), RS2 % xlen)))
srli == require(SHAMT < xlen, WRITE_RD(sext_xlen(ShiftR(zext_xlen(RS1), SHAMT))))
srlw == require_rv64(WRITE_RD(sext32(ShiftR(zext32(RS1), RS2 % H))))
srliw == require_rv64(WRITE_RD(sext32(ShiftR(zext32(RS1), SHAMT))))
sra == WRITE_RD(sext_xlen(Sar(sext_xlen(RS1), RegBits, RS2 % xlen)))
srai == require(SHAMT < xlen, WRITE_RD(sext_xlen(Sar(sext_xlen(RS1), RegBits, SHAMT))))
sraw == require_rv64(WRITE_RD(sext32(Sar(RS1, H, RS2 % H))))
sraiw == require_rv64(WRITE_RD(sext32(Sar(RS1, H, SHAMT))))

(* Multiplication: mulhi.h by halves, and division. *)
mulhu64(a, b) ==
    LET lo(v) == v % 2^H
        hi(v) == v \div 2^H
        t1 == reg((hi(a) * lo(b)) + hi(lo(a) * lo(b)))
        t2 == reg((lo(a) * hi(b)) + lo(t1))
        t3 == reg((hi(a) * hi(b)) + hi(t1) + hi(t2)) IN
    (hi(t3) * 2^H) + lo(t3)
\* Mutant: the complement without the carry of a zero low word.
NegatedNoCarry(r, a, b) == reg(-1 - r)
Negated(r, a, b) == reg(-1 - r + Truth(reg(a * b) = 0))
mulh64(a, b) ==
    LET r == mulhu64(IF sreg(a) < 0 THEN reg(-a) ELSE a, IF sreg(b) < 0 THEN reg(-b) ELSE b) IN
    IF (sreg(a) < 0) # (sreg(b) < 0) THEN Negated(r, a, b) ELSE r
mulhsu64(a, b) ==
    LET r == mulhu64(IF sreg(a) < 0 THEN reg(-a) ELSE a, b) IN IF sreg(a) < 0 THEN Negated(r, a, b) ELSE r
M(v) == require_extension("M", WRITE_RD(v))
M64(v) == require_extension("M", require_rv64(WRITE_RD(v)))
mul == M(sext_xlen(RS1 * RS2))
mulw == M64(sext32(RS1 * RS2))
mulh == M(IF xlen = RegBits THEN mulh64(RS1, RS2) ELSE sext32((signed(RS1, H) * signed(RS2, H)) \div 2^H))
mulhu == M(IF xlen = RegBits THEN mulhu64(RS1, RS2) ELSE sext32((zext32(RS1) * zext32(RS2)) \div 2^H))
mulhsu == M(IF xlen = RegBits THEN mulhsu64(RS1, RS2) ELSE sext32((signed(RS1, H) * zext32(RS2)) \div 2^H))
UINT64_MAX == 2^RegBits - 1
INT64_MIN == -(2^(RegBits - 1))
DivOf(l, r) == IF r = 0 THEN UINT64_MAX ELSE IF l = INT64_MIN /\ r = -1 THEN l ELSE sext_xlen(Divide(l, r))
div == M(DivOf(signed(RS1, xlen), signed(RS2, xlen)))
divu == M(IF zext_xlen(RS2) = 0 THEN UINT64_MAX ELSE sext_xlen(zext_xlen(RS1) \div zext_xlen(RS2)))
divuw == M64(IF zext32(RS2) = 0 THEN UINT64_MAX ELSE sext32(zext32(RS1) \div zext32(RS2)))
divw == M64(IF zext32(RS2) = 0 THEN UINT64_MAX ELSE sext32(Divide(signed(RS1, H), signed(RS2, H))))
RemOf(l, r) == IF r = 0 THEN l ELSE IF l = INT64_MIN /\ r = -1 THEN 0 ELSE sext_xlen(Mod(l, r))
rem == M(RemOf(signed(RS1, xlen), signed(RS2, xlen)))
remu == M(IF zext_xlen(RS2) = 0 THEN sext_xlen(RS1) ELSE sext_xlen(zext_xlen(RS1) % zext_xlen(RS2)))
remuw == M64(IF zext32(RS2) = 0 THEN sext32(zext32(RS1)) ELSE sext32(zext32(RS1) % zext32(RS2)))
remw == M64(IF zext32(RS2) = 0 THEN reg(signed(RS1, H)) ELSE sext32(Mod(signed(RS1, H), signed(RS2, H))))

----------------------------------------------------------------------------
(* Jumps and branches. *)

Branch(taken) == IF taken THEN set_pc(Base, reg(insn.pc + imm)) ELSE Base
beq == Branch(RS1 = RS2)
bne == Branch(RS1 # RS2)
blt == Branch(sreg(RS1) < sreg(RS2))
bge == Branch(sreg(RS1) >= sreg(RS2))
bltu == Branch(RS1 < RS2)
bgeu == Branch(RS1 >= RS2)
\* tmp = npc; set_pc(target), which may trap; the link is written last.
Link(target, r) == LET s == set_pc(Base, target) IN IF s.trap # "none" THEN s ELSE WRITE_REG(s, r, Base.npc)
jal == Link(reg(insn.pc + imm), insn.rd)
jalr == Link(Even(reg(RS1 + imm)), insn.rd)

(* Loads, stores and atomics: st is <<address, bytes, value>>. *)
Bits(bytes) == bytes * (RegBits \div 8)
\* The MMU zero-extends an address from xlen.
Mem(addr) == reg(mem + zext_xlen(addr))
load_uint(addr, bytes) == Mem(addr) % 2^Bits(bytes)
load_int(addr, bytes) == reg(signed(Mem(addr), Bits(bytes)))
store_uint(s, addr, bytes, v) == [s EXCEPT !.st = <<zext_xlen(addr), bytes, v % 2^Bits(bytes)>>]
lb == WRITE_RD(load_int(RS1 + imm, 1))
lbu == WRITE_RD(load_uint(RS1 + imm, 1))
lh == WRITE_RD(load_int(RS1 + imm, 2))
lhu == WRITE_RD(load_uint(RS1 + imm, 2))
lw == WRITE_RD(load_int(RS1 + imm, 4))
lwu == require_rv64(WRITE_RD(load_uint(RS1 + imm, 4)))
ld == require_rv64(WRITE_RD(load_int(RS1 + imm, 8)))
sb == store_uint(Base, RS1 + imm, 1, RS2)
sh == store_uint(Base, RS1 + imm, 2, RS2)
sw == store_uint(Base, RS1 + imm, 4, RS2)
sd == require_rv64(store_uint(Base, RS1 + imm, 8, RS2))
amo_w(v) == require_extension("A", store_uint(WRITE_RD(sext32(load_uint(RS1, 4))), RS1, 4, v))
amo_d(v) == require_extension("A", require_rv64(store_uint(WRITE_RD(load_uint(RS1, 8)), RS1, 8, v)))
Greater(a, b) == IF a < b THEN b ELSE a
Lesser(a, b) == IF b < a THEN b ELSE a
amoadd_w == amo_w(load_uint(RS1, 4) + RS2)
amoadd_d == amo_d(load_uint(RS1, 8) + RS2)
amoand_w == amo_w(load_uint(RS1, 4) & RS2)
amoand_d == amo_d(load_uint(RS1, 8) & RS2)
amoor_w == amo_w(load_uint(RS1, 4) | RS2)
amoor_d == amo_d(load_uint(RS1, 8) | RS2)
amoxor_w == amo_w(load_uint(RS1, 4) ^^ RS2)
amoxor_d == amo_d(load_uint(RS1, 8) ^^ RS2)
amoswap_w == amo_w(RS2)
amoswap_d == amo_d(RS2)
amomax_w == amo_w(Greater(signed(Mem(RS1), H), signed(RS2, H)))
amomax_d == amo_d(Greater(signed(Mem(RS1), RegBits), sreg(RS2)))
amomaxu_w == amo_w(Greater(load_uint(RS1, 4), zext32(RS2)))
amomaxu_d == amo_d(Greater(load_uint(RS1, 8), RS2))
amomin_w == amo_w(Lesser(signed(Mem(RS1), H), signed(RS2, H)))
amomin_d == amo_d(Lesser(signed(Mem(RS1), RegBits), sreg(RS2)))
amominu_w == amo_w(Lesser(load_uint(RS1, 4), zext32(RS2)))
amominu_d == amo_d(Lesser(load_uint(RS1, 8), RS2))
lr_d == require_extension("A", require_rv64([WRITE_RD(load_int(RS1, 8)) EXCEPT !.resv = RS1]))
sc_d == require_extension("A", require_rv64(
            IF RS1 = reservation THEN store_uint(WRITE_RD(0), RS1, 8, RS2) ELSE WRITE_RD(1)))

(* CSRs: written only if a register or an immediate is named. *)
CsrOp(write, v) ==
    IF write /\ csr.ro THEN Traps("illegal")
    ELSE [WRITE_RD(sext_xlen(csr.v)) EXCEPT !.csr = IF write THEN v ELSE @]
csrrc == CsrOp(insn.rs1 # 0, csr.v - (csr.v & RS1))
csrrwi == CsrOp(TRUE, insn.rs1)
csrrsi == CsrOp(insn.rs1 # 0, csr.v | insn.rs1)
csrrci == CsrOp(insn.rs1 # 0, csr.v - (csr.v & insn.rs1))

----------------------------------------------------------------------------
(* Compressed instructions. *)

C(s) == require_extension("C", s)
c_add == C(require(insn.rs2 # 0, WRITE_RD(sext_xlen(RVC_RS1 + RVC_RS2))))
c_mv == C(require(insn.rs2 # 0, WRITE_RD(RVC_RS2)))
c_addi == C(WRITE_RD(sext_xlen(RVC_RS1 + imm)))
c_li == C(WRITE_RD(reg(imm)))
\* rvc_imm() << 12; in SP's place, c.addi16sp.
c_lui ==
    C(IF insn.rd = SP THEN require(imm # 0, WRITE_REG(Base, SP, sext_xlen(RVC_SP + imm)))
      ELSE require(imm # 0, WRITE_RD(reg(imm))))
c_addw == C(require_rv64(WRITE_RVC_RS1S(sext32(RVC_RS1S + RVC_RS2S))))
c_subw == C(require_rv64(WRITE_RVC_RS1S(sext32(RVC_RS1S - RVC_RS2S))))
c_sub == C(WRITE_RVC_RS1S(sext_xlen(RVC_RS1S - RVC_RS2S)))
c_and == C(WRITE_RVC_RS1S(RVC_RS1S & RVC_RS2S))
c_andi == C(WRITE_RVC_RS1S(RVC_RS1S & reg(imm)))
c_or == C(WRITE_RVC_RS1S(RVC_RS1S | RVC_RS2S))
c_xor == C(WRITE_RVC_RS1S(RVC_RS1S ^^ RVC_RS2S))
c_slli == C(require(imm < xlen, WRITE_RD(sext_xlen(ShiftL(RVC_RS1, imm)))))
c_srli == C(require(imm < xlen, WRITE_RVC_RS1S(sext_xlen(ShiftR(zext_xlen(RVC_RS1S), imm)))))
c_srai == C(require(imm < xlen, WRITE_RVC_RS1S(sext_xlen(Sar(sext_xlen(RVC_RS1S), RegBits, imm)))))
c_beqz == C(Branch(RVC_RS1S = 0))
c_bnez == C(Branch(RVC_RS1S # 0))
c_j == C(set_pc(Base, reg(insn.pc + imm)))
\* On RV64 it is c.addiw.
c_jal ==
    C(IF xlen = H THEN Link(reg(insn.pc + imm), RA)
      ELSE require(insn.rd # 0, WRITE_RD(sext32(RVC_RS1 + imm))))
c_jalr == C(require(insn.rd # 0, Link(Even(RVC_RS1), RA)))
c_jr == C(require(insn.rd # 0, set_pc(Base, Even(RVC_RS1))))
c_ebreak == C(Traps("breakpoint"))
c_lw == C(WRITE_RVC_RS2S(load_int(RVC_RS1S + imm, 4)))
c_lwsp == C(require(insn.rd # 0, WRITE_RD(load_int(RVC_SP + imm, 4))))
c_sw == C(store_uint(Base, RVC_RS1S + imm, 4, RVC_RS2S))
c_swsp == C(store_uint(Base, RVC_SP + imm, 4, RVC_RS2))
\* Floating-point loads and stores of RV32, where RV64 has c.ld and c.sd.
FpLoad(e, r, addr, bytes) ==
    require_extension(e, require_fp(
        [Base EXCEPT !.f = <<r, IF bytes = 4 THEN (2^RegBits - 2^H) + load_uint(addr, 4) ELSE load_uint(addr, 8)>>]))
FpStore(e, addr, bytes, v) == require_extension(e, require_fp(store_uint(Base, addr, bytes, v)))
FRS2 == insn.fv
c_flw == C(IF xlen = H THEN FpLoad("F", insn.s2, RVC_RS1S + imm, 4) ELSE WRITE_RVC_RS2S(load_int(RVC_RS1S + imm, 8)))
c_flwsp == C(IF xlen = H THEN FpLoad("F", insn.rd, RVC_SP + imm, 4) ELSE require(insn.rd # 0, WRITE_RD(load_int(RVC_SP + imm, 8))))
c_fsw == C(IF xlen = H THEN FpStore("F", RVC_RS1S + imm, 4, FRS2) ELSE store_uint(Base, RVC_RS1S + imm, 8, RVC_RS2S))
c_fswsp == C(IF xlen = H THEN FpStore("F", RVC_SP + imm, 4, FRS2) ELSE store_uint(Base, RVC_SP + imm, 8, RVC_RS2))
c_fld == C(FpLoad("D", insn.s2, RVC_RS1S + imm, 8))
c_fldsp == C(FpLoad("D", insn.rd, RVC_SP + imm, 8))
c_fsd == C(FpStore("D", RVC_RS1S + imm, 8, FRS2))
c_fsdsp == C(FpStore("D", RVC_SP + imm, 8, FRS2))

----------------------------------------------------------------------------
(* The fields of insn_t, from the set of bits of the word. *)

x(b, lo, len) == LET bit(i) == 2^(i - lo) IN MapThenSumSet(bit, b \cap lo .. lo + len - 1)
xs(b, lo, len) == signed(x(b, lo, len), len)
i_imm(b) == xs(b, 20, 12)
s_imm(b) == x(b, 7, 5) + (xs(b, 25, 7) * 2^5)
sb_imm(b) == (x(b, 8, 4) * 2) + (x(b, 25, 6) * 2^5) + (x(b, 7, 1) * 2^11) + (xs(b, 31, 1) * 2^12)
u_imm(b) == xs(b, 12, 20)           \* times 2^12
uj_imm(b) == (x(b, 21, 10) * 2) + (x(b, 20, 1) * 2^11) + (x(b, 12, 8) * 2^12) + (xs(b, 31, 1) * 2^20)
rvc_imm(b) == x(b, 2, 5) + (xs(b, 12, 1) * 2^5)
rvc_zimm(b) == x(b, 2, 5) + (x(b, 12, 1) * 2^5)
rvc_addi4spn_imm(b) == (x(b, 6, 1) * 2^2) + (x(b, 5, 1) * 2^3) + (x(b, 11, 2) * 2^4) + (x(b, 7, 4) * 2^6)
rvc_addi16sp_imm(b) ==
    (x(b, 6, 1) * 2^4) + (x(b, 2, 1) * 2^5) + (x(b, 5, 1) * 2^6) + (x(b, 3, 2) * 2^7) + (xs(b, 12, 1) * 2^9)
rvc_lwsp_imm(b) == (x(b, 4, 3) * 2^2) + (x(b, 12, 1) * 2^5) + (x(b, 2, 2) * 2^6)
rvc_ldsp_imm(b) == (x(b, 5, 2) * 2^3) + (x(b, 12, 1) * 2^5) + (x(b, 2, 3) * 2^6)
rvc_swsp_imm(b) == (x(b, 9, 4) * 2^2) + (x(b, 7, 2) * 2^6)
rvc_sdsp_imm(b) == (x(b, 10, 3) * 2^3) + (x(b, 7, 3) * 2^6)
rvc_lw_imm(b) == (x(b, 6, 1) * 2^2) + (x(b, 10, 3) * 2^3) + (x(b, 5, 1) * 2^6)
rvc_ld_imm(b) == (x(b, 10, 3) * 2^3) + (x(b, 5, 2) * 2^6)
rvc_j_imm(b) ==
    (x(b, 3, 3) * 2) + (x(b, 11, 1) * 2^4) + (x(b, 2, 1) * 2^5) + (x(b, 7, 1) * 2^6) + (x(b, 6, 1) * 2^7)
        + (x(b, 9, 2) * 2^8) + (x(b, 8, 1) * 2^10) + (xs(b, 12, 1) * 2^11)
rvc_b_imm(b) ==
    (x(b, 3, 2) * 2) + (x(b, 10, 2) * 2^3) + (x(b, 2, 1) * 2^5) + (x(b, 5, 2) * 2^6) + (xs(b, 12, 1) * 2^8)

----------------------------------------------------------------------------
Execute(o) ==
    CASE o = "add" -> add [] o = "addi" -> addi [] o = "addiw" -> addiw [] o = "addw" -> addw
      [] o = "sub" -> sub [] o = "subw" -> subw [] o = "and" -> and [] o = "andi" -> andi [] o = "or" -> or
      [] o = "ori" -> ori [] o = "xor" -> xor [] o = "xori" -> xori [] o = "lui" -> lui
      [] o = "auipc" -> auipc [] o = "slt" -> slt [] o = "slti" -> slti [] o = "sltu" -> sltu
      [] o = "sltiu" -> sltiu [] o = "sll" -> sll [] o = "slli" -> slli [] o = "sllw" -> sllw
      [] o = "slliw" -> slliw [] o = "srl" -> srl [] o = "srli" -> srli [] o = "srlw" -> srlw
      [] o = "srliw" -> srliw [] o = "sra" -> sra [] o = "srai" -> srai [] o = "sraw" -> sraw
      [] o = "sraiw" -> sraiw [] o = "mul" -> mul [] o = "mulw" -> mulw [] o = "mulh" -> mulh
      [] o = "mulhu" -> mulhu [] o = "mulhsu" -> mulhsu [] o = "div" -> div [] o = "divu" -> divu
      [] o = "divuw" -> divuw [] o = "divw" -> divw [] o = "rem" -> rem [] o = "remu" -> remu
      [] o = "remuw" -> remuw [] o = "remw" -> remw [] o = "beq" -> beq [] o = "bne" -> bne
      [] o = "blt" -> blt [] o = "bge" -> bge [] o = "bltu" -> bltu [] o = "bgeu" -> bgeu
      [] o = "jal" -> jal [] o = "jalr" -> jalr [] o = "lb" -> lb [] o = "lbu" -> lbu [] o = "lh" -> lh
      [] o = "lhu" -> lhu [] o = "lw" -> lw [] o = "lwu" -> lwu [] o = "ld" -> ld [] o = "sb" -> sb
      [] o = "sh" -> sh [] o = "sw" -> sw [] o = "sd" -> sd [] o = "amoadd_w" -> amoadd_w
      [] o = "amoadd_d" -> amoadd_d [] o = "amoand_w" -> amoand_w [] o = "amoand_d" -> amoand_d
      [] o = "amoor_w" -> amoor_w [] o = "amoor_d" -> amoor_d [] o = "amoxor_w" -> amoxor_w
      [] o = "amoxor_d" -> amoxor_d [] o = "amoswap_w" -> amoswap_w [] o = "amoswap_d" -> amoswap_d
      [] o = "amomax_w" -> amomax_w [] o = "amomax_d" -> amomax_d [] o = "amomaxu_w" -> amomaxu_w
      [] o = "amomaxu_d" -> amomaxu_d [] o = "amomin_w" -> amomin_w [] o = "amomin_d" -> amomin_d
      [] o = "amominu_w" -> amominu_w [] o = "amominu_d" -> amominu_d [] o = "lr_d" -> lr_d
      [] o = "sc_d" -> sc_d [] o = "csrrc" -> csrrc [] o = "csrrwi" -> csrrwi [] o = "csrrsi" -> csrrsi
      [] o = "csrrci" -> csrrci [] o = "c_add" -> c_add [] o = "c_mv" -> c_mv [] o = "c_addi" -> c_addi
      [] o = "c_li" -> c_li [] o = "c_lui" -> c_lui [] o = "c_addw" -> c_addw [] o = "c_subw" -> c_subw
      [] o = "c_sub" -> c_sub [] o = "c_and" -> c_and [] o = "c_andi" -> c_andi [] o = "c_or" -> c_or
      [] o = "c_xor" -> c_xor [] o = "c_slli" -> c_slli [] o = "c_srli" -> c_srli [] o = "c_srai" -> c_srai
      [] o = "c_beqz" -> c_beqz [] o = "c_bnez" -> c_bnez [] o = "c_j" -> c_j [] o = "c_jal" -> c_jal
      [] o = "c_jalr" -> c_jalr [] o = "c_jr" -> c_jr [] o = "c_ebreak" -> c_ebreak [] o = "c_lw" -> c_lw
      [] o = "c_lwsp" -> c_lwsp [] o = "c_sw" -> c_sw [] o = "c_swsp" -> c_swsp [] o = "c_flw" -> c_flw
      [] o = "c_flwsp" -> c_flwsp [] o = "c_fsw" -> c_fsw [] o = "c_fswsp" -> c_fswsp
      [] o = "c_fld" -> c_fld [] o = "c_fldsp" -> c_fldsp [] o = "c_fsd" -> c_fsd
      [] o = "c_fsdsp" -> c_fsdsp

NotYet == [trap |-> "none yet"]
ExecuteInsn == res = NotYet /\ res' = Execute(insn.op) /\ UNCHANGED <<xlen, ext, XPR, mem, reservation, csr, insn>>
====
