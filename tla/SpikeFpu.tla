------------------------------ MODULE SpikeFpu ------------------------------
(***************************************************************************)
(* The F and D instructions of the instruction-set simulator               *)
(* (riscv-isa-sim/riscv/insns/f*.h over the macros of decode.h), and       *)
(* direct calls of the SoftFloat functions no instruction uses.            *)
(*                                                                         *)
(* An instruction is one step.  SoftFloat keeps its rounding mode and its  *)
(* exception flags in globals that outlive the instruction: one that       *)
(* rounds first sets softfloat_roundingMode to RM, one that raises flags   *)
(* ends with set_fp_exceptions.  Those that do neither run with what the   *)
(* instructions before them left behind.                                   *)
(*                                                                         *)
(* finsn is the instruction being executed, with its operands already read: *)
(* a, b, c the FPR values (words of the F64 width), x the value of XRS1 as  *)
(* a signed integer.  result is what it wrote.                                *)
(***************************************************************************)
EXTENDS SfConvert

VARIABLES
    isa,                       \* the extensions and "64" for an RV64 machine
    FS,                        \* the FS field of mstatus
    frm, fflags,
    softfloat_exceptionFlags,
    finsn, result

fpuVars == <<isa, FS, frm, fflags, softfloat_exceptionFlags,
             softfloat_roundingMode, finsn, result>>

\* The library with its global rounding mode equal to rm.
SF(rm) == INSTANCE SfConvert WITH softfloat_roundingMode <- rm

ModeOf == <<"near_even", "minMag", "min", "max", "near_maxMag">>
\* finsn.rm() or frm when it is 7; more than 4 is illegal.
RmCode == IF finsn.rm = 7 THEN frm ELSE finsn.rm
RM == IF RmCode <= 4 THEN ModeOf[RmCode + 1] ELSE "illegal"

----------------------------------------------------------------------------
(* Registers: a single-precision value lives in the low half of an FPR under *)
(* a high half of ones; G is the wide format of the pair.                    *)

Ones(F) == 2^Width(F) - 1
isBoxedF32(F, r) == Shr(r, Width(F)) = Ones(F)
unboxF32(F, r) == IF isBoxedF32(F, r) THEN r % 2^Width(F) ELSE defaultNaNUI(F)
fregF32(F, v) == Ones(F) * 2^Width(F) + v
f32(r) == unboxF32(F32, r)
Negate(F, v) == (v + 2^(Width(F) - 1)) % 2^Width(F)
\* The sign of a replaced by b's, its complement, or the xor of both.
fsgnj(F, a, b, n, x) ==
    LET s == IF x THEN XorSign(signUI(F, a), signUI(F, b))
             ELSE XorSign(IF n THEN 1 ELSE 0, signUI(F, b))
    IN  s * 2^(Width(F) - 1) + (a % 2^(Width(F) - 1))
fsgnj32(a, b, n, x) == fsgnj(F32, f32(a), f32(b), n, x)
fsgnj64(a, b, n, x) == fsgnj(F64, a, b, n, x)

int32(x) == AsSigned(I32Bits, x % 2^I32Bits)
uint32(x) == x % 2^I32Bits
uint64(x) == x % 2^I64Bits
sext_w(v) == AsSigned(I32Bits, v % 2^I32Bits)
XReg(v) == AsSigned(I64Bits, v % 2^I64Bits)

----------------------------------------------------------------------------
(* The frame of an instruction. *)

FpTrap == /\ result' = [kind |-> "trap", v |-> 0, fl |-> {}]
        /\ UNCHANGED <<FS, fflags, softfloat_exceptionFlags, softfloat_roundingMode>>

\* require_extension, require_rv64, require_fp.
Allowed(exts) == exts \subseteq isa /\ FS # "off"

\* Whether flags raised so far are moved to fflags and cleared, or left.
KeepExceptions(raised, merge) ==
    /\ fflags' = IF merge THEN fflags \cup raised ELSE fflags
    /\ softfloat_exceptionFlags' = raised
set_fp_exceptions(raised, merge) ==
    IF merge THEN fflags' = fflags \cup raised /\ softfloat_exceptionFlags' = {}
    ELSE UNCHANGED fflags /\ softfloat_exceptionFlags' = raised

\* kind "frd" writes an FPR, "rd" an integer register, "mem" memory.
Write(kind, v, fl, merge) ==
    LET raised == softfloat_exceptionFlags \cup fl
    IN  /\ result' = [kind |-> kind, v |-> v, fl |-> fl]
        /\ set_fp_exceptions(raised, merge)
        /\ FS' = IF kind = "frd" \/ (merge /\ raised # {}) THEN "dirty" ELSE FS

\* softfloat_roundingMode = RM; write; set_fp_exceptions.  Op(m) is the set of
\* results the library may return in mode m, To the conversion of the result.
Rounding(exts, kind, Op(_), To(_)) ==
    IF Allowed(exts) /\ RM # "illegal"
      THEN /\ softfloat_roundingMode' = RM
           /\ \E r \in Op(RM) : Write(kind, To(r.v), r.fl, TRUE)
      ELSE FpTrap
Id(v) == v
Box(v) == fregF32(F32, v)
ArithS(Op(_)) == Rounding({"F"}, "frd", LAMBDA m : {Op(m)}, Box)
ArithD(Op(_)) == Rounding({"D"}, "frd", LAMBDA m : {Op(m)}, Id)
ToInt(exts, Op(_), To(_)) == Rounding(exts, "rd", LAMBDA m : {Op(m)}, To)

\* No rounding; the comparisons end with set_fp_exceptions.
Compared(ext, r) ==
    IF Allowed({ext}) THEN /\ Write("rd", Bool(r.v), r.fl, TRUE)
                           /\ UNCHANGED softfloat_roundingMode
    ELSE FpTrap
\* No flags at all.
Moved(exts, kind, v) ==
    IF Allowed(exts) THEN /\ Write(kind, v, {}, FALSE)
                          /\ UNCHANGED softfloat_roundingMode
    ELSE FpTrap

FRS1 == finsn.a
FpRS2 == finsn.b
FRS3 == finsn.c
XRS1 == finsn.x

----------------------------------------------------------------------------
(* The instructions, one per file of insns/. *)

fadd_s == ArithS(LAMBDA m : SF(m)!f32_add(f32(FRS1), f32(FpRS2)))
fadd_d == ArithD(LAMBDA m : SF(m)!f64_add(FRS1, FpRS2))
fsub_s == ArithS(LAMBDA m : SF(m)!f32_sub(f32(FRS1), f32(FpRS2)))
fsub_d == ArithD(LAMBDA m : SF(m)!f64_sub(FRS1, FpRS2))
fmul_s == ArithS(LAMBDA m : SF(m)!f32_mul(f32(FRS1), f32(FpRS2)))
fmul_d == ArithD(LAMBDA m : SF(m)!f64_mul(FRS1, FpRS2))
fdiv_s == ArithS(LAMBDA m : SF(m)!f32_div(f32(FRS1), f32(FpRS2)))
fdiv_d == ArithD(LAMBDA m : SF(m)!f64_div(FRS1, FpRS2))
fsqrt_s == Rounding({"F"}, "frd", LAMBDA m : SF(m)!f32_sqrt(unboxF32(F32R, FRS1)),
                    LAMBDA v : fregF32(F32R, v))
fsqrt_d == Rounding({"D"}, "frd", LAMBDA m : SF(m)!f64_sqrt(FRS1), Id)
fmadd_s == ArithS(LAMBDA m : SF(m)!f32_mulAdd(f32(FRS1), f32(FpRS2), f32(FRS3)))
fmadd_d == ArithD(LAMBDA m : SF(m)!f64_mulAdd(FRS1, FpRS2, FRS3))
fmsub_s == ArithS(LAMBDA m :
    SF(m)!f32_mulAdd(f32(FRS1), f32(FpRS2), Negate(F32, f32(FRS3))))
fmsub_d == ArithD(LAMBDA m : SF(m)!f64_mulAdd(FRS1, FpRS2, Negate(F64, FRS3)))
fnmsub_s == ArithS(LAMBDA m :
    SF(m)!f32_mulAdd(Negate(F32, f32(FRS1)), f32(FpRS2), f32(FRS3)))
fnmsub_d == ArithD(LAMBDA m : SF(m)!f64_mulAdd(Negate(F64, FRS1), FpRS2, FRS3))
fnmadd_s == ArithS(LAMBDA m :
    SF(m)!f32_mulAdd(Negate(F32, f32(FRS1)), f32(FpRS2), Negate(F32, f32(FRS3))))
fnmadd_d == ArithD(LAMBDA m :
    SF(m)!f64_mulAdd(Negate(F64, FRS1), FpRS2, Negate(F64, FRS3)))

fcvt_w_s == ToInt({"F"}, LAMBDA m : f32_to_i32(f32(FRS1), m, TRUE), sext_w)
fcvt_wu_s == ToInt({"F"}, LAMBDA m : f32_to_ui32(f32(FRS1), m, TRUE), sext_w)
fcvt_l_s == ToInt({"F", "64"}, LAMBDA m : f32_to_i64(f32(FRS1), m, TRUE), XReg)
fcvt_lu_s == ToInt({"F", "64"}, LAMBDA m : f32_to_ui64(f32(FRS1), m, TRUE), XReg)
fcvt_w_d == ToInt({"D"}, LAMBDA m : f64_to_i32(FRS1, m, TRUE), sext_w)
fcvt_wu_d == ToInt({"D"}, LAMBDA m : f64_to_ui32(FRS1, m, TRUE), sext_w)
fcvt_l_d == ToInt({"D", "64"}, LAMBDA m : f64_to_i64(FRS1, m, TRUE), XReg)
fcvt_lu_d == ToInt({"D", "64"}, LAMBDA m : f64_to_ui64(FRS1, m, TRUE), XReg)
fcvt_s_w == ArithS(LAMBDA m : SF(m)!i32_to_f32(int32(XRS1)))
fcvt_s_wu == ArithS(LAMBDA m : SF(m)!ui32_to_f32(uint32(XRS1)))
fcvt_s_l == Rounding({"F", "64"}, "frd", LAMBDA m : {SF(m)!i64_to_f32(XRS1)}, Box)
fcvt_s_lu == Rounding({"F", "64"}, "frd",
                      LAMBDA m : {SF(m)!ui64_to_f32(uint64(XRS1))}, Box)
fcvt_d_w == ArithD(LAMBDA m : SF(m)!i32_to_f64(int32(XRS1)))
fcvt_d_wu == ArithD(LAMBDA m : SF(m)!ui32_to_f64(uint32(XRS1)))
fcvt_d_l == Rounding({"D", "64"}, "frd", LAMBDA m : {SF(m)!i64_to_f64(XRS1)}, Id)
fcvt_d_lu == Rounding({"D", "64"}, "frd",
                      LAMBDA m : {SF(m)!ui64_to_f64(uint64(XRS1))}, Id)
fcvt_d_s == ArithD(LAMBDA m : SF(m)!f32_to_f64(f32(FRS1)))
fcvt_s_d == Rounding({"D"}, "frd", LAMBDA m : {SF(m)!f64_to_f32(FRS1)}, Box)

feq_s == Compared("F", f32_eq(f32(FRS1), f32(FpRS2)))
feq_d == Compared("D", f64_eq(FRS1, FpRS2))
fle_s == Compared("F", f32_le(f32(FRS1), f32(FpRS2)))
fle_d == Compared("D", f64_le(FRS1, FpRS2))
flt_s == Compared("F", f32_lt(f32(FRS1), f32(FpRS2)))
flt_d == Compared("D", f64_lt(FRS1, FpRS2))

\* first is chosen when it is the lesser (greater), or the other is a NaN; two
\* NaNs give the default NaN.  The register is copied as it is.
Chosen(F, G, ext, first, a, b, lt, eq) ==
    LET sel == lt.v \/ (eq.v /\ signUI(F, first) = 1)
        v == IF sel \/ isNaNUI(F, b) THEN FRS1 ELSE FpRS2
        nan == IF F = G THEN defaultNaNUI(F) ELSE fregF32(F, defaultNaNUI(F))
        fl == lt.fl \cup (IF lt.v THEN {} ELSE eq.fl)   \* || short-circuits
    IN  IF Allowed({ext})
          THEN /\ Write("frd", IF isNaNUI(F, a) /\ isNaNUI(F, b) THEN nan ELSE v,
                        fl, TRUE)
               /\ UNCHANGED softfloat_roundingMode
          ELSE FpTrap
fmin_s == LET a == f32(FRS1)  b == f32(FpRS2)
          IN Chosen(F32, F64, "F", a, a, b, f32_lt_quiet(a, b), f32_eq(a, b))
fmax_s == LET a == f32(FRS1)  b == f32(FpRS2)
          IN Chosen(F32, F64, "F", b, a, b, f32_lt_quiet(b, a), f32_eq(b, a))
fmin_d == LET a == FRS1  b == FpRS2
          IN Chosen(F64, F64, "D", a, a, b, f64_lt_quiet(a, b), f64_eq(a, b))
fmax_d == LET a == FRS1  b == FpRS2
          IN Chosen(F64, F64, "D", b, a, b, f64_lt_quiet(b, a), f64_eq(b, a))

fsgnj_s == Moved({"F"}, "frd", Box(fsgnj32(FRS1, FpRS2, FALSE, FALSE)))
fsgnj_d == Moved({"D"}, "frd", fsgnj64(FRS1, FpRS2, FALSE, FALSE))
fsgnjn_s == Moved({"F"}, "frd", Box(fsgnj32(FRS1, FpRS2, TRUE, FALSE)))
fsgnjn_d == Moved({"D"}, "frd", fsgnj64(FRS1, FpRS2, TRUE, FALSE))
fsgnjx_s == Moved({"F"}, "frd", Box(fsgnj32(FRS1, FpRS2, FALSE, TRUE)))
fsgnjx_d == Moved({"D"}, "frd", fsgnj64(FRS1, FpRS2, FALSE, TRUE))
fmv_w_x == Moved({"F"}, "frd", Box(uint32(XRS1)))
fmv_d_x == Moved({"D", "64"}, "frd", uint64(XRS1))
fmv_x_w == Moved({"F"}, "rd", sext_w(FRS1))
fmv_x_d == Moved({"D", "64"}, "rd", XReg(FRS1))
\* The loaded word is x; the stores write FpRS2, fsw its low half.
flw == Moved({"F"}, "frd", Box(uint32(XRS1)))
fld == Moved({"D"}, "frd", uint64(XRS1))
fsw == Moved({"F"}, "mem", uint32(FpRS2))
fsd == Moved({"D"}, "mem", FpRS2)

\* The mask of fclass is a power of two.
fclass_s == Moved({"F"}, "rd", 2^(CHOOSE n \in 0..9 : n \in f32_classify(f32(FRS1))))
fclass_d == Moved({"D"}, "rd", 2^(CHOOSE n \in 0..9 : n \in f64_classify(FRS1)))

----------------------------------------------------------------------------
(* A call of a library function that no instruction makes; FRS1 and FpRS2 are *)
(* words of the function's own format, the mode argument is RM.              *)

LibCall(r) ==
    /\ result' = [kind |-> "call", v |-> r.v, fl |-> r.fl]
    /\ UNCHANGED <<FS, fflags, softfloat_exceptionFlags, softfloat_roundingMode>>

ExecuteFp(op) ==
    /\ finsn.op = op /\ result.kind = "none"
    /\ UNCHANGED <<isa, frm, finsn>>
    /\ CASE op = "fadd.s" -> fadd_s [] op = "fadd.d" -> fadd_d
         [] op = "fsub.s" -> fsub_s [] op = "fsub.d" -> fsub_d
         [] op = "fmul.s" -> fmul_s [] op = "fmul.d" -> fmul_d
         [] op = "fdiv.s" -> fdiv_s [] op = "fdiv.d" -> fdiv_d
         [] op = "fsqrt.s" -> fsqrt_s [] op = "fsqrt.d" -> fsqrt_d
         [] op = "fmadd.s" -> fmadd_s [] op = "fmadd.d" -> fmadd_d
         [] op = "fmsub.s" -> fmsub_s [] op = "fmsub.d" -> fmsub_d
         [] op = "fnmsub.s" -> fnmsub_s [] op = "fnmsub.d" -> fnmsub_d
         [] op = "fnmadd.s" -> fnmadd_s [] op = "fnmadd.d" -> fnmadd_d
         [] op = "fcvt.w.s" -> fcvt_w_s [] op = "fcvt.wu.s" -> fcvt_wu_s
         [] op = "fcvt.l.s" -> fcvt_l_s [] op = "fcvt.lu.s" -> fcvt_lu_s
         [] op = "fcvt.w.d" -> fcvt_w_d [] op = "fcvt.wu.d" -> fcvt_wu_d
         [] op = "fcvt.l.d" -> fcvt_l_d [] op = "fcvt.lu.d" -> fcvt_lu_d
         [] op = "fcvt.s.w" -> fcvt_s_w [] op = "fcvt.s.wu" -> fcvt_s_wu
         [] op = "fcvt.s.l" -> fcvt_s_l [] op = "fcvt.s.lu" -> fcvt_s_lu
         [] op = "fcvt.d.w" -> fcvt_d_w [] op = "fcvt.d.wu" -> fcvt_d_wu
         [] op = "fcvt.d.l" -> fcvt_d_l [] op = "fcvt.d.lu" -> fcvt_d_lu
         [] op = "fcvt.d.s" -> fcvt_d_s [] op = "fcvt.s.d" -> fcvt_s_d
         [] op = "feq.s" -> feq_s [] op = "feq.d" -> feq_d
         [] op = "fle.s" -> fle_s [] op = "fle.d" -> fle_d
         [] op = "flt.s" -> flt_s [] op = "flt.d" -> flt_d
         [] op = "fmin.s" -> fmin_s [] op = "fmin.d" -> fmin_d
         [] op = "fmax.s" -> fmax_s [] op = "fmax.d" -> fmax_d
         [] op = "fsgnj.s" -> fsgnj_s [] op = "fsgnj.d" -> fsgnj_d
         [] op = "fsgnjn.s" -> fsgnjn_s [] op = "fsgnjn.d" -> fsgnjn_d
         [] op = "fsgnjx.s" -> fsgnjx_s [] op = "fsgnjx.d" -> fsgnjx_d
         [] op = "fmv.w.x" -> fmv_w_x [] op = "fmv.d.x" -> fmv_d_x
         [] op = "fmv.x.w" -> fmv_x_w [] op = "fmv.x.d" -> fmv_x_d
         [] op = "flw" -> flw [] op = "fld" -> fld
         [] op = "fsw" -> fsw [] op = "fsd" -> fsd
         [] op = "fclass.s" -> fclass_s [] op = "fclass.d" -> fclass_d
         [] op = "f32_rem" -> LibCall(f32_rem(FRS1, FpRS2))
         [] op = "f64_rem" -> LibCall(f64_rem(FRS1, FpRS2))
         [] op = "f32_roundToInt" -> LibCall(f32_roundToInt(FRS1, RM, XRS1 = 1))
         [] op = "f64_roundToInt" -> LibCall(f64_roundToInt(FRS1, RM, XRS1 = 1))
         [] op = "f32_to_i32_r_minMag" -> LibCall(f32_to_i32_r_minMag(FRS1, XRS1 = 1))
         [] op = "f32_to_ui32_r_minMag" -> LibCall(f32_to_ui32_r_minMag(FRS1, XRS1 = 1))
         [] op = "f32_to_i64_r_minMag" -> LibCall(f32_to_i64_r_minMag(FRS1, XRS1 = 1))
         [] op = "f32_to_ui64_r_minMag" -> LibCall(f32_to_ui64_r_minMag(FRS1, XRS1 = 1))
         [] op = "f64_to_i32_r_minMag" -> LibCall(f64_to_i32_r_minMag(FRS1, XRS1 = 1))
         [] op = "f64_to_ui32_r_minMag" -> LibCall(f64_to_ui32_r_minMag(FRS1, XRS1 = 1))
         [] op = "f64_to_i64_r_minMag" -> LibCall(f64_to_i64_r_minMag(FRS1, XRS1 = 1))
         [] op = "f64_to_ui64_r_minMag" -> LibCall(f64_to_ui64_r_minMag(FRS1, XRS1 = 1))
         [] op = "f32_eq_signaling" -> LibCall(f32_eq_signaling(FRS1, FpRS2))
         [] op = "f64_eq_signaling" -> LibCall(f64_eq_signaling(FRS1, FpRS2))
         [] op = "f32_le_quiet" -> LibCall(f32_le_quiet(FRS1, FpRS2))
         [] op = "f64_le_quiet" -> LibCall(f64_le_quiet(FRS1, FpRS2))
=============================================================================
