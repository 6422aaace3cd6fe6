---------------------------- MODULE MCSpikeUnits ----------------------------
(* Six parts of the simulator that do not meet: a behaviour is one of one   *)
(* of them, and the others stay as they are.                                *)
EXTENDS SpikeFpu, SpikeSim, SpikeDecode, CacheSim, SpikeInsns, SpikeHart

VARIABLE unit

Isa == INSTANCE IsaReference
Ref == INSTANCE IeeeReference

----------------------------------------------------------------------------
(* Floating point over scaled formats: one instruction or library call     *)
(* from each of a few machine states, against the rounding of              *)
(* IeeeReference.                                                          *)

MCF32 == [e |-> 6, m |-> 4]
MCF64 == [e |-> 8, m |-> 13]
MCF32R == [e |-> 8, m |-> 6]
MCF64R == [e |-> 11, m |-> 18]

\* Operands: every class, both ends of the exponent range and the exponents
\* around 1, with fractions at and next to the ends and the middle.
Operands(F, signs, exps, fracs) ==
    {packToUI(F, s, exp, f) : s \in signs, exp \in exps, f \in fracs}
EdgeFracs(F) == {0, 1, 2^(F.m - 1), 2^(F.m - 1) + 1, 2^F.m - 1}
EdgeExps(F) == {0, 1, Bias(F) - 2, Bias(F), ExpMax(F) - 1, ExpMax(F)}
Edge(F) == Operands(F, {0, 1}, EdgeExps(F), EdgeFracs(F))
\* Significands that differ in every digit, exponents far and near.
Mixed(F) == Operands(F, {0, 1}, {0, Bias(F) - 1, Bias(F), Bias(F) + 3},
                  {1, 2^F.m \div 3, 2^F.m - 3})
Extremes(F) == Operands(F, {0, 1}, {0, Bias(F), ExpMax(F) - 1}, {1, 2^F.m - 1})
            \cup {Inf(F, 0).v, defaultNaNUI(F), defaultNaNUI(F) - 1}
Ordered(F) == Extremes(F) \cup {Zero(F, 0).v, Zero(F, 1).v}
\* Around the integers and the limits of the integer types.
NearInts(F) ==
    Operands(F, {0, 1},
          {0, Bias(F) - 1, Bias(F)} \cup {e \in {Bias(F) + k : k \in
             {1, F.m - 1, F.m, I32Bits - 2, I32Bits - 1, I32Bits, I64Bits - 2,
              I64Bits - 1, I64Bits}} : e < ExpMax(F)} \cup {ExpMax(F)},
          EdgeFracs(F) \cup {2^(F.m - 2)})
Ints == {s * (2^k + d) : s \in {1, -1}, k \in {0, 4, 5, 9, 10, 13, 14, 20},
         d \in {-1, 0, 1, 5}}
          \cup {2^(I64Bits - 1) - 1, -(2^(I64Bits - 1))}

Boxed(S) == {fregF32(F32, v) : v \in S}
NotBoxed == {defaultNaNUI(F64), Ones(F32) * 2^Width(F32) - 1}

I(op, a, b, c, xr, rm) == [op |-> op, a |-> a, b |-> b, c |-> c, x |-> xr, rm |-> rm]
Bin(ops, A, B, rms) ==
    \E op \in ops, a \in A, b \in B, rm \in rms : finsn' = I(op, a, b, 0, 0, rm)
Una(ops, A, rms) == Bin(ops, A, {0}, rms)
Tri(ops, A, B, Z, rms) ==
    \E op \in ops, a \in A, b \in B, c \in Z, rm \in rms :
        finsn' = I(op, a, b, c, 0, rm)
FromX(ops, X, rms) ==
    \E op \in ops, v \in X, rm \in rms : finsn' = I(op, 0, 0, 0, v, rm)
Exact(ops, A, rms) ==
    \E op \in ops, a \in A, v \in {0, 1}, rm \in rms : finsn' = I(op, a, 0, 0, v, rm)

AllRm == 0..4
SumS == {"fadd.s", "fsub.s", "fmul.s", "fdiv.s"}
SumD == {"fadd.d", "fsub.d", "fmul.d"}
FmaS == {"fmadd.s", "fmsub.s", "fnmsub.s", "fnmadd.s"}
FmaD == {"fmadd.d", "fmsub.d", "fnmsub.d", "fnmadd.d"}
CmpS == {"feq.s", "fle.s", "flt.s", "fmin.s", "fmax.s",
         "fsgnj.s", "fsgnjn.s", "fsgnjx.s"}
CmpD == {"feq.d", "fle.d", "flt.d", "fmin.d", "fmax.d",
         "fsgnj.d", "fsgnjn.d", "fsgnjx.d"}
ToIntS == {"fcvt.w.s", "fcvt.wu.s", "fcvt.l.s", "fcvt.lu.s"}
ToIntD == {"fcvt.w.d", "fcvt.wu.d", "fcvt.l.d", "fcvt.lu.d"}
FromInt == {"fcvt.s.w", "fcvt.s.wu", "fcvt.s.l", "fcvt.s.lu",
            "fcvt.d.w", "fcvt.d.wu", "fcvt.d.l", "fcvt.d.lu"}
MovesIn == {"fmv.w.x", "fmv.d.x", "flw", "fld"}
MinMagS == {"f32_to_i32_r_minMag", "f32_to_ui32_r_minMag",
            "f32_to_i64_r_minMag", "f32_to_ui64_r_minMag"}
MinMagD == {"f64_to_i32_r_minMag", "f64_to_ui32_r_minMag",
            "f64_to_i64_r_minMag", "f64_to_ui64_r_minMag"}

\* Every instruction over many operands, in the five static modes.
Many ==
    \/ Bin(SumS, Boxed(Edge(F32)), Boxed(Mixed(F32)), AllRm)
    \/ Bin(SumD, Edge(F64), Mixed(F64), AllRm)
    \/ Bin({"fdiv.d"}, Mixed(F64R) \cup Extremes(F64R), Mixed(F64R), AllRm)
    \/ Una({"fsqrt.s"}, {fregF32(F32R, v) : v \in
                 Edge(F32R) \cup Operands(F32R, {0}, {0, 40, Bias(F32R)}, 0..63)}, AllRm)
    \/ Una({"fsqrt.d"}, Edge(F64R) \cup Mixed(F64R), AllRm)
    \/ Tri({"fmadd.s"}, Boxed(Mixed(F32)), Boxed(Extremes(F32)), Boxed(Extremes(F32)), AllRm)
    \/ Tri({"fmadd.d"}, Mixed(F64), Extremes(F64), Extremes(F64), AllRm)
    \/ Una(ToIntS, Boxed(NearInts(F32)), AllRm)
    \/ Una(ToIntD, NearInts(F64), AllRm)
    \/ FromX(FromInt, Ints, AllRm)
    \/ Una({"fcvt.d.s"}, Boxed(Edge(F32)), {0})
    \/ Una({"fcvt.s.d"}, Edge(F64) \cup Operands(F64, {0, 1},
                 {Bias(F64) - Bias(F32) + k : k \in -5..1}, EdgeFracs(F64)), AllRm)
    \/ Bin(CmpS, Boxed(Edge(F32)), Boxed(Ordered(F32)), {0})
    \/ Bin(CmpD, Edge(F64), Ordered(F64), {0})
    \/ Una({"fclass.s", "fmv.x.w"}, Boxed(Edge(F32)), {0})
    \/ Una({"fclass.d", "fmv.x.d"}, Edge(F64), {0})
    \/ Bin({"fsw", "fsd"}, {0}, Boxed(Edge(F32)), {0})
    \/ FromX(MovesIn, Ints, {0})
    \/ \E a64, a0, b64, b0 \in {0, 1, 3, 7, 8, 10, 15} :
           finsn' = I("wide", a64, a0, b64, b0, 0)
    \/ Bin({"f32_rem"}, Edge(F32), Mixed(F32), {0})
    \/ Bin({"f64_rem"}, Mixed(F64R), Extremes(F64R), {0})
    \/ Exact({"f32_roundToInt"}, NearInts(F32), AllRm)
    \/ Exact({"f64_roundToInt"}, NearInts(F64), AllRm)
    \/ Exact(MinMagS, NearInts(F32), {1})
    \/ Exact(MinMagD, NearInts(F64), {1})
    \/ Bin({"f32_eq_signaling", "f32_le_quiet"}, Edge(F32), Ordered(F32), {0})
    \/ Bin({"f64_eq_signaling", "f64_le_quiet"}, Edge(F64), Ordered(F64), {0})

\* Every instruction, on few operands, with the mode taken from frm.
Dynamic ==
    \/ Tri(FmaS, Boxed(Mixed(F32)) \cup NotBoxed, {fregF32(F32, 500)},
        {fregF32(F32, 499), fregF32(F32, 2047)}, {0, 3, 7})
    \/ Tri(FmaD, Mixed(F64), {1045000}, {1045001}, {0, 3, 5, 7})
    \/ Bin(SumS \cup CmpS, NotBoxed \cup Boxed({37}), NotBoxed, {6, 7})
    \/ Bin(SumD \cup CmpD, {1045000, 1050001}, {1045001, 3145001}, {5, 7})
    \/ Una({"fdiv.d"}, {5000000}, {7})
    \/ Una({"fsqrt.s", "fsqrt.d"}, {5000000, 2^30 - 77777}, {5, 7})
    \/ Una(ToIntS \cup {"fcvt.d.s", "fclass.s", "fmv.x.w"},
               NotBoxed \cup Boxed({500}), {5, 7})
    \/ Una(ToIntD \cup {"fcvt.s.d", "fclass.d", "fmv.x.d"}, {1130000}, {5, 7})
    \/ Bin({"fsw", "fsd"}, {0}, NotBoxed, {0})
    \/ FromX(FromInt \cup MovesIn, {-3, 19999}, {5, 7})

\* What earlier instructions and CSR writes left: the mode and flags of the
\* library, frm (5 is reserved), fflags, FS and the machine's extensions.
FpMachine(i, fs, r, fl, mode) ==
    /\ isa = i /\ FS = fs /\ frm = r /\ fflags = fl
    /\ softfloat_roundingMode = mode
    /\ softfloat_exceptionFlags = {}
    /\ result = [kind |-> "none", v |-> 0, fl |-> {}]
RV64G == {"F", "D", "64"}
NoInsn == I("none", 0, 0, 0, 0, 0)
FpuInit ==
    /\ finsn = NoInsn
    /\ \/ FpMachine(RV64G, "on", 0, {}, "near_even")
       \/ FpMachine(RV64G, "dirty", 3, {"inexact"}, "min")
       \/ FpMachine(RV64G, "on", 5, {"invalid"}, "minMag")
       \/ FpMachine({"F"}, "on", 4, {}, "max")
       \/ FpMachine(RV64G, "off", 0, {}, "near_even")

FetchFp ==
    /\ finsn = NoInsn
    /\ IF FS = "on" /\ fflags = {} /\ frm = 0 THEN Many ELSE Dynamic
    /\ UNCHANGED <<isa, FS, frm, fflags, softfloat_exceptionFlags,
                   softfloat_roundingMode, result>>
FpuNext == FetchFp \/ \E op \in {finsn.op} \ {"none", "wide"} : ExecuteFp(op)
----------------------------------------------------------------------------
Written == result.kind \notin {"none", "trap"}

\* The value an FPR holds for a single-precision read, and its rounded result.
Nan32(r) == IF r \div 2^Width(F32) = 2^Width(F32) - 1 THEN r % 2^Width(F32)
            ELSE Ref!CanonicalNaN(F32)
a32 == Nan32(finsn.a)    b32 == Nan32(finsn.b)    c32 == Nan32(finsn.c)
Boxes(F, r) == [r EXCEPT !.v = (2^Width(F) - 1) * 2^Width(F) + @]
Neg(F, a) == Ref!Negated(F, a)
Is(kind, ref) == Written => result = [kind |-> kind, v |-> ref.v, fl |-> ref.fl]
IsF32(ref) == Is("frd", Boxes(F32, ref))
IsF64(ref) == Is("frd", ref)

\* An arithmetic instruction returns the exact result rounded once in the mode
\* of its rm field, with exactly the flags that rounding raises: add, subtract,
\* multiply, divide, square root and the fused forms (insns/f*.h, softfloat/).
ArithmeticRounds ==
    LET m == RM  op == finsn.op
    IN  CASE op = "fadd.s" -> IsF32(Ref!RefAdd(F32, m, a32, b32))
          [] op = "fsub.s" -> IsF32(Ref!RefSub(F32, m, a32, b32))
          [] op = "fmul.s" -> IsF32(Ref!RefMul(F32, m, a32, b32))
          [] op = "fdiv.s" -> IsF32(Ref!RefDiv(F32, m, a32, b32))
          [] op = "fadd.d" -> IsF64(Ref!RefAdd(F64, m, finsn.a, finsn.b))
          [] op = "fsub.d" -> IsF64(Ref!RefSub(F64, m, finsn.a, finsn.b))
          [] op = "fmul.d" -> IsF64(Ref!RefMul(F64, m, finsn.a, finsn.b))
          [] op = "fdiv.d" -> IsF64(Ref!RefDiv(F64R, m, finsn.a, finsn.b))
          [] op = "fsqrt.s" ->
               Is("frd", Boxes(F32R, Ref!RefSqrt(F32R, m,
                   IF finsn.a \div 2^15 = 2^15 - 1 THEN finsn.a % 2^15
                   ELSE Ref!CanonicalNaN(F32R))))
          [] op = "fsqrt.d" -> IsF64(Ref!RefSqrt(F64R, m, finsn.a))
          [] OTHER -> TRUE

\* The fused forms round a * b + c once; the negated forms flip the signs of
\* the product and of c before that (insns/fmadd_s.h, s_mulAddF64.c).
FusedRoundsOnce ==
    LET m == RM  op == finsn.op
        Single(y, z) == IsF32(Ref!RefMulAdd(F32, m, y, b32, z))
        Double(y, z) == IsF64(Ref!RefMulAdd(F64, m, y, finsn.b, z))
    IN  CASE op = "fmadd.s" -> Single(a32, c32)
          [] op = "fmsub.s" -> Single(a32, Neg(F32, c32))
          [] op = "fnmsub.s" -> Single(Neg(F32, a32), c32)
          [] op = "fnmadd.s" -> Single(Neg(F32, a32), Neg(F32, c32))
          [] op = "fmadd.d" -> Double(finsn.a, finsn.c)
          [] op = "fmsub.d" -> Double(finsn.a, Neg(F64, finsn.c))
          [] op = "fnmsub.d" -> Double(Neg(F64, finsn.a), finsn.c)
          [] op = "fnmadd.d" -> Double(Neg(F64, finsn.a), Neg(F64, finsn.c))
          [] OTHER -> TRUE

\* The remainder is the exact a - n * b, n the integer nearest to a / b.
RemainderExact ==
    CASE finsn.op = "f32_rem" -> Is("call", Ref!RefRem(F32, finsn.a, finsn.b))
      [] finsn.op = "f64_rem" -> Is("call", Ref!RefRem(F64R, finsn.a, finsn.b))
      [] OTHER -> TRUE

Max32 == 2^(I32Bits - 1) - 1
Max64 == 2^(I64Bits - 1) - 1
SignExt(bits, r) == [r EXCEPT !.v = IF @ >= 2^(bits - 1) THEN @ - 2^bits ELSE @]
\* A conversion to an integer rounds, saturates with invalid outside the range
\* of the type, and takes a NaN to the largest value; a 32-bit unsigned result
\* is sign-extended into the register (fcvt_wu_s.h).
ToIntSaturates ==
    LET op == finsn.op
        To(F, a, lo, hi) == Ref!RefToInt(F, RM, TRUE, a, lo, hi)
        Cut(F, lo, hi) ==
            Is("call", Ref!RefToInt(F, "minMag", finsn.x = 1, finsn.a, lo, hi))
    IN  CASE op = "fcvt.w.s" -> Is("rd", To(F32, a32, -Max32 - 1, Max32))
          [] op = "fcvt.l.s" -> Is("rd", To(F32, a32, -Max64 - 1, Max64))
          [] op = "fcvt.wu.s" ->
               Is("rd", SignExt(I32Bits, To(F32, a32, 0, 2 * Max32 + 1)))
          [] op = "fcvt.lu.s" ->
               Is("rd", SignExt(I64Bits, To(F32, a32, 0, 2 * Max64 + 1)))
          [] op = "fcvt.w.d" -> Is("rd", To(F64, finsn.a, -Max32 - 1, Max32))
          [] op = "fcvt.l.d" -> Is("rd", To(F64, finsn.a, -Max64 - 1, Max64))
          [] op = "fcvt.wu.d" ->
               Is("rd", SignExt(I32Bits, To(F64, finsn.a, 0, 2 * Max32 + 1)))
          [] op = "fcvt.lu.d" ->
               Is("rd", SignExt(I64Bits, To(F64, finsn.a, 0, 2 * Max64 + 1)))
          [] op = "f32_to_i32_r_minMag" -> Cut(F32, -Max32 - 1, Max32)
          [] op = "f32_to_i64_r_minMag" -> Cut(F32, -Max64 - 1, Max64)
          [] op = "f32_to_ui32_r_minMag" -> Cut(F32, 0, 2 * Max32 + 1)
          [] op = "f32_to_ui64_r_minMag" -> Cut(F32, 0, 2 * Max64 + 1)
          [] op = "f64_to_i32_r_minMag" -> Cut(F64, -Max32 - 1, Max32)
          [] op = "f64_to_i64_r_minMag" -> Cut(F64, -Max64 - 1, Max64)
          [] op = "f64_to_ui32_r_minMag" -> Cut(F64, 0, 2 * Max32 + 1)
          [] op = "f64_to_ui64_r_minMag" -> Cut(F64, 0, 2 * Max64 + 1)
          [] OTHER -> TRUE

\* Integers become the nearest value of the mode, a 32-bit one read from the
\* low half of the register; the formats convert into each other the same way,
\* and roundToInt stays in the format (i64_to_f32.c, f64_to_f32.c, ...).
ConversionsRound ==
    LET m == RM  op == finsn.op  n == finsn.x
        wu == n % 2^I32Bits    lu == n % 2^I64Bits
        w == IF wu > Max32 THEN wu - 2^I32Bits ELSE wu
    IN  CASE op = "fcvt.s.w" -> IsF32(Ref!RefFromInt(F32, m, w))
          [] op = "fcvt.s.wu" -> IsF32(Ref!RefFromInt(F32, m, wu))
          [] op = "fcvt.s.l" -> IsF32(Ref!RefFromInt(F32, m, n))
          [] op = "fcvt.s.lu" -> IsF32(Ref!RefFromInt(F32, m, lu))
          [] op = "fcvt.d.w" -> IsF64(Ref!RefFromInt(F64, m, w))
          [] op = "fcvt.d.wu" -> IsF64(Ref!RefFromInt(F64, m, wu))
          [] op = "fcvt.d.l" -> IsF64(Ref!RefFromInt(F64, m, n))
          [] op = "fcvt.d.lu" -> IsF64(Ref!RefFromInt(F64, m, lu))
          [] op = "fcvt.d.s" -> IsF64(Ref!RefConvert(F32, F64, m, a32))
          [] op = "fcvt.s.d" -> IsF32(Ref!RefConvert(F64, F32, m, finsn.a))
          [] op = "f32_roundToInt" ->
               Is("call", Ref!RefIntegral(F32, m, n = 1, finsn.a))
          [] op = "f64_roundToInt" ->
               Is("call", Ref!RefIntegral(F64, m, n = 1, finsn.a))
          [] OTHER -> TRUE

\* Comparisons agree with the order of the numbers, whatever the signs and
\* zeros; only the signaling ones raise invalid for a quiet NaN; min and max
\* return the number when the other operand is a NaN (fmin_s.h, f32_le.c, ...).
ComparisonsOrder ==
    LET op == finsn.op
        Cmp(F, a, b, rel) ==
            LET r == Ref!RefCompare(F, a, b, rel = "eq", rel)
            IN  Is("rd", [r EXCEPT !.v = IF @ THEN 1 ELSE 0])
        Lib(F, quiet, rel) ==
            Is("call", Ref!RefCompare(F, finsn.a, finsn.b, quiet, rel))
    IN  CASE op = "feq.s" -> Cmp(F32, a32, b32, "eq")
          [] op = "flt.s" -> Cmp(F32, a32, b32, "lt")
          [] op = "fle.s" -> Cmp(F32, a32, b32, "le")
          [] op = "feq.d" -> Cmp(F64, finsn.a, finsn.b, "eq")
          [] op = "flt.d" -> Cmp(F64, finsn.a, finsn.b, "lt")
          [] op = "fle.d" -> Cmp(F64, finsn.a, finsn.b, "le")
          [] op = "fmin.s" -> IsF32(Ref!RefMinMax(F32, a32, b32, FALSE))
          [] op = "fmax.s" -> IsF32(Ref!RefMinMax(F32, a32, b32, TRUE))
          [] op = "fmin.d" -> IsF64(Ref!RefMinMax(F64, finsn.a, finsn.b, FALSE))
          [] op = "fmax.d" -> IsF64(Ref!RefMinMax(F64, finsn.a, finsn.b, TRUE))
          [] op = "f32_eq_signaling" -> Lib(F32, FALSE, "eq")
          [] op = "f64_eq_signaling" -> Lib(F64, FALSE, "eq")
          [] op = "f32_le_quiet" -> Lib(F32, TRUE, "le")
          [] op = "f64_le_quiet" -> Lib(F64, TRUE, "le")
          [] OTHER -> TRUE

\* The two-word primitives are arithmetic on the number v64 * 2^W + v0, the
\* jamming shifts included, at every word the operand sets hold (primitives.h).
WidePrimitivesExact ==
    finsn.op = "wide" =>
      LET W == 4    K == 16
          a64 == finsn.a    a0 == finsn.b    b64 == finsn.c    b0 == finsn.x
          A == a64 * K + a0    B == b64 * K + b0
          Val(r) == r.v64 * K + r.v0
          Sticky(n, c) == LET q == n \div 2^c
                          IN  IF n % 2^c # 0 /\ q % 2 = 0 THEN q + 1 ELSE q
      IN  /\ Val(softfloat_add128(W, a64, a0, b64, b0)) = (A + B) % 256
          /\ Val(softfloat_sub128(W, a64, a0, b64, b0)) = (A - B) % 256
          /\ Val(softfloat_mul64To128(W, a64, b64)) = a64 * b64
          /\ Val(softfloat_mul128By32(W, a64, a0, b0 % 4)) = (A * (b0 % 4)) % 256
          /\ Val(softfloat_mul64ByShifted32To128(W, a64, b0 % 4)) = 4 * a64 * (b0 % 4)
          /\ softfloat_eq128(a64, a0, b64, b0) <=> A = B
          /\ softfloat_le128(a64, a0, b64, b0) <=> A <= B
          /\ softfloat_lt128(a64, a0, b64, b0) <=> A < B
          /\ \A c \in 1..3 :
               /\ Val(softfloat_shortShiftLeft128(W, a64, a0, c)) = (A * 2^c) % 256
               /\ Val(softfloat_shortShiftRight128(W, a64, a0, c)) = A \div 2^c
               /\ Val(softfloat_shortShiftRightJam128(W, a64, a0, c)) = Sticky(A, c)
               /\ LET r == softfloat_shortShiftRightJam128Extra(W, a64, a0, b0, c)
                  IN  /\ Val(r) = A \div 2^c
                      /\ (r.extra # 0) <=> (A % 2^c # 0 \/ b0 # 0)
               /\ LET r == softfloat_shortShiftRightJam64Extra(W, a64, b0, c)
                  IN  r.v * K + r.extra =
                        Sticky(a64 * K * 2^c + (IF b0 # 0 THEN 1 ELSE 0), 2 * c)
          /\ \A c \in 1..10 :
               /\ Val(softfloat_shiftRightJam128(W, a64, a0, c)) = Sticky(A, c)
               /\ LET r == softfloat_shiftRightJam64Extra(W, a64, 0, c)
                      cut == a64 % 2^c          \* what is shifted result, to 2^c
                  IN  /\ r.v = a64 \div 2^c
                      /\ (r.extra = 0) <=> (cut = 0)
                      /\ (r.extra >= 8) <=> (2 * cut >= 2^c)
                      /\ (r.extra = 8) <=> (2 * cut = 2^c)

\* Flags accrue: an instruction adds the flags it raised to fflags and leaves
\* none pending in the library for the next one; whenever it wrote an FPR or
\* fflags the FS field says so (set_fp_exceptions, dirty_fp_state).  A direct
\* call is outside this: its caller reads the library's flags.
FlagsAccrue ==
    [][result'.kind # "call" /\ result # result' =>
         /\ fflags' = fflags \cup result'.fl
         /\ softfloat_exceptionFlags' = {}
         /\ (result'.kind = "frd" \/ fflags' # fflags) => FS' = "dirty"]_fpuVars

----------------------------------------------------------------------------
(* The other units. *)

D(name, match, mask) == [name |-> name, match |-> match, mask |-> mask]
\* The encodings of encoding.h for the instructions that share a match, and
\* for three that do not.
MCRegistered ==
    <<D("c_addi4spn", 0, 57347), D("c_addi", 1, 57347), D("c_li", 16385, 57347),
      D("c_jr", 32770, 61567), D("c_mv", 32770, 61443), D("c_lwsp", 16386, 57347),
      D("c_add", 36866, 61443), D("c_jalr", 36866, 61567), D("c_ebreak", 36866, 65535)>>
\* ret, mv, ebreak, jalr, add, an illegal word, addi4spn, addi, li, lwsp
MCWords == {32898, 32906, 36866, 36994, 37002, 0, 64, 5, 16517, 16514}

Geometry(sets, ways, linesz) == [sets |-> sets, ways |-> ways, linesz |-> linesz]
MCConfigs == {<<Geometry(1, 2, 1), Geometry(2, 1, 1)>>, <<Geometry(2, 1, 1), Geometry(1, 2, 2)>>}

(* The hart: a program of machine, supervisor and user code with one       *)
(* interrupt of each.                                                      *)
CsrWrite(which, val) == [which |-> which, val |-> val]
MCCsrWrites ==
    {CsrWrite("MSTATUS", [mie |-> TRUE]), CsrWrite("MSTATUS", [mpp |-> "S"]), CsrWrite("SSTATUS", [sie |-> TRUE, mie |-> TRUE]),
     CsrWrite("SSTATUS", [spp |-> "S", fs |-> 1]), CsrWrite("MIE", {"MTIP", "SSIP"}), CsrWrite("SIE", {"SSIP", "MTIP"}),
     CsrWrite("SIE", {}), CsrWrite("MIP", {"SSIP"}), CsrWrite("SIP", {"SSIP"}), CsrWrite("MIDELEG", {"SSIP", "MTIP"}),
     CsrWrite("MEDELEG", {"U_ecall", "breakpoint"}), CsrWrite("MEPC", 1), CsrWrite("FFLAGS", 1), CsrWrite("MCOUNTEREN", TRUE)}

(* The instructions: every one on machines with few registers, whose       *)
(* operands are at and around the ends of both widths.                     *)
Values(xl) == IF xl = H THEN {sext32(v) : v \in {0, 1, 2, 5, 7, 8, 9, 15}} ELSE {0, 1, 7, 16, 127, 128, 248, 255}
Others(xl) == Values(xl) \cup (IF xl = H THEN {3} ELSE {3, 85, 254})
AllExts == {"M", "A", "F", "D", "C", "FS"}
Machines ==
    /\ xlen \in {H, RegBits} /\ ext \in {AllExts, {}}
    /\ \E a \in (IF ext = {} THEN {1} ELSE Values(xlen)), b \in (IF ext = {} THEN {3} ELSE Others(xlen)) :
          XPR = [r \in {0, RA, SP, 8, 9} |-> IF r = 0 THEN 0 ELSE IF r = 9 THEN b ELSE a]
    /\ mem \in (IF XPR[9] = 3 THEN {0, 90, 200} ELSE {200})
    /\ reservation = XPR[9] /\ csr \in [v : {XPR[9]}, ro : {XPR[8] % 2 = 0}]
NoInsns == xlen = H /\ ext = {} /\ XPR = [r \in {0} |-> 0] /\ mem = 0 /\ reservation = 0 /\ csr = 0
Fields(op, rd, rs1, rs2, s1, s2, im) ==
    [op |-> op, rd |-> rd, rs1 |-> rs1, rs2 |-> rs2, s1 |-> s1, s2 |-> s2, imm |-> im, fv |-> XPR[9],
     pc |-> 2^(xlen - 1) - 4, len |-> IF s1 = 0 THEN 4 ELSE 2]
BaseInsn(op, rds, ims) == \E rd \in rds, im \in ims : insn' = Fields(op, rd, 8, 9, 0, 0, im)
RvcInsn(op, rds, ims) ==
    \E rd \in rds, im \in ims, r2 \in {0, 9} : insn' = Fields(op, rd, 0, r2, 8, 9, im)
Few == XPR[9] = 3
RegOps == Isa!Regs \cup Isa!Muls \cup DOMAIN Isa!WordOps
ShiftOps == {"slli", "srli", "srai", "slliw", "srliw", "sraiw"}
ImmOps == (DOMAIN Isa!Imms \cup DOMAIN Isa!WordImms \cup {"lui", "auipc", "jalr"}) \ ShiftOps
CsrOps == {"csrrc", "csrrwi", "csrrsi", "csrrci"}
Shifts == IF xlen = H THEN {0, 1, 3, 4} ELSE {0, 1, 3, 7}
WordShifts == {0, 1, 3}
RvcRegs == {"c_add", "c_mv", "c_jalr", "c_jr", "c_ebreak", "c_addw", "c_subw", "c_sub", "c_and", "c_or", "c_xor"}
RvcImms == {"c_addi", "c_li", "c_lui", "c_andi", "c_beqz", "c_bnez", "c_j", "c_jal",
            "c_lw", "c_lwsp", "c_sw", "c_swsp", "c_flw", "c_flwsp", "c_fsw", "c_fswsp", "c_fld", "c_fldsp", "c_fsd", "c_fsdsp"}
Choose ==
    /\ res = [trap |-> "choose"] /\ res' = NotYet
    /\ \/ \E op \in RegOps : BaseInsn(op, {0, 9}, {0})
       \/ \E op \in {"beq", "bne", "blt", "bge", "bltu", "bgeu", "jal"} : BaseInsn(op, {0, 9}, {-8, 6})
       \/ Few /\ \E op \in ImmOps : BaseInsn(op, {0, 8, 9}, {-8, -1, 0, 5, 7})
       \/ Few /\ \E op \in ShiftOps : BaseInsn(op, {9}, IF op \in DOMAIN Isa!WordImms THEN WordShifts ELSE Shifts)
       \/ Few /\ \E op \in DOMAIN Isa!Loads \cup DOMAIN Isa!Stores : BaseInsn(op, {0, 8}, {-3, 5})
       \/ \E op \in DOMAIN Isa!AmoWords \cup DOMAIN Isa!AmoDoubles : BaseInsn(op, {9}, {0})
       \/ \E op \in {"lr_d", "sc_d"} : BaseInsn(op, {0, 9}, {0})
       \/ Few /\ \E op \in CsrOps, r \in {0, 8} : insn' = [Fields(op, 9, 8, 9, 0, 0, 0) EXCEPT !.rs1 = r]
       \/ \E op \in RvcRegs : RvcInsn(op, {0, RA, 9}, {0})
       \/ Few /\ \E op \in RvcImms : RvcInsn(op, {0, SP, 9}, {-8, 0, 6})
       \/ Few /\ \E op \in {"c_slli", "c_srli", "c_srai"} : RvcInsn(op, {0, 9}, Shifts)
    /\ UNCHANGED <<xlen, ext, XPR, mem, reservation, csr>>

\* Words for the immediates: any two bits set, or all but two.
Bits32 == 0 .. 31
ChooseWord ==
    /\ res = [trap |-> "choose"] /\ ext = AllExts /\ XPR[8] = 0 /\ Few /\ mem = 0 /\ xlen = RegBits
    /\ \E i, j \in Bits32, inv \in BOOLEAN :
          insn' = [op |-> "word", bits |-> IF inv THEN Bits32 \ {i, j} ELSE {i, j}]
    /\ res' = [trap |-> "word"]
    /\ UNCHANGED <<xlen, ext, XPR, mem, reservation, csr>>

InsnsInit == insn = [op |-> "none"] /\ res = [trap |-> "choose"]

----------------------------------------------------------------------------
ShortIns(i) == i.op \in RvcRegs \cup RvcImms \cup {"c_slli", "c_srli", "c_srai"}
Plain(i) == IF ShortIns(i) THEN Isa!Expand(i, xlen = RegBits) ELSE i
Machine == [xlen |-> xlen, ext |-> ext, x |-> XPR, mem |-> mem, resv |-> reservation, csr |-> csr,
            pc |-> insn.pc, len |-> insn.len, fv |-> insn.fv]
Expected ==
    IF ShortIns(insn) /\ "C" \notin ext
    THEN [Isa!Effect(Machine, [op |-> "reserved", rd |-> 0, rs1 |-> 0, rs2 |-> 0, imm |-> 0]) EXCEPT !.trap = "illegal"]
    ELSE Isa!Effect(Machine, Plain(insn))

\* The bits of an immediate in the order of the manual's tables, from bit hi
\* of the word down.
Order(hi, bits) == [k \in {bits[i] : i \in DOMAIN bits} |-> hi + 1 - CHOOSE i \in DOMAIN bits : bits[i] = k]
Down(hi, lo) == [i \in 1 .. hi - lo + 1 |-> hi - i + 1]
S == Order(31, Down(11, 5)) @@ Order(11, Down(4, 0))
SB == Order(31, <<12>> \o Down(10, 5)) @@ Order(11, Down(4, 1) \o <<11>>)
UJ == Order(31, <<20>> \o Down(10, 1) \o <<11>> \o Down(19, 12))
CI == Order(12, <<5>>) @@ Order(6, Down(4, 0))
Immediates(b) ==
    LET Spells(got, layout, sgn) == got = Isa!Immediate(layout, sgn, b) IN
    /\ Spells(i_imm(b), Order(31, Down(11, 0)), TRUE) /\ Spells(s_imm(b), S, TRUE) /\ Spells(sb_imm(b), SB, TRUE)
    /\ Spells(u_imm(b), Order(31, Down(19, 0)), TRUE) /\ Spells(uj_imm(b), UJ, TRUE)
    /\ Spells(rvc_imm(b), CI, TRUE) /\ Spells(rvc_zimm(b), CI, FALSE)
    /\ Spells(rvc_addi4spn_imm(b), Order(12, <<5, 4, 9, 8, 7, 6, 2, 3>>), FALSE)
    /\ Spells(rvc_addi16sp_imm(b), Order(12, <<9>>) @@ Order(6, <<4, 6, 8, 7, 5>>), TRUE)
    /\ Spells(rvc_lwsp_imm(b), Order(12, <<5>>) @@ Order(6, <<4, 3, 2, 7, 6>>), FALSE)
    /\ Spells(rvc_ldsp_imm(b), Order(12, <<5>>) @@ Order(6, <<4, 3, 8, 7, 6>>), FALSE)
    /\ Spells(rvc_swsp_imm(b), Order(12, <<5, 4, 3, 2, 7, 6>>), FALSE)
    /\ Spells(rvc_sdsp_imm(b), Order(12, <<5, 4, 3, 8, 7, 6>>), FALSE)
    /\ Spells(rvc_lw_imm(b), Order(12, <<5, 4, 3>>) @@ Order(6, <<2, 6>>), FALSE)
    /\ Spells(rvc_ld_imm(b), Order(12, <<5, 4, 3>>) @@ Order(6, <<7, 6>>), FALSE)
    /\ Spells(rvc_j_imm(b), Order(12, <<11, 4, 9, 8, 10, 6, 7, 3, 2, 1, 5>>), TRUE)
    /\ Spells(rvc_b_imm(b), Order(12, <<8, 4, 3>>) @@ Order(6, <<7, 6, 2, 1, 5>>), TRUE)

\* Every integer and compressed instruction leaves what the instruction set
\* says, at both widths, on registers of the wider one: results wrap, extend
\* and saturate as they must, links are of the old registers, a register of
\* RV32 stays sign-extended, what is not there traps without an effect; an
\* immediate is the number its scattered bits spell; and a word decodes as the
\* registered order says, whatever was decoded before (insns/, decode.h,
\* processor.cc).
InstructionsExact ==
    /\ (unit = "insns" /\ "x" \in DOMAIN res) =>
          /\ res.trap = Expected.trap
          /\ res.trap = "none" => res = Expected
          /\ \A r \in DOMAIN res.x : res.x[r] = sext_xlen(res.x[r])
    /\ (unit = "insns" /\ res.trap = "word") => Immediates(insn.bits)
    /\ unit = "decode" => DecodeStable

----------------------------------------------------------------------------
\* Arithmetic is exact arithmetic rounded once: the basic operations, the
\* fused ones, the remainder and the wide primitives below them (softfloat/).
ArithmeticExact ==
    unit = "fpu" => ArithmeticRounds /\ FusedRoundsOnce /\ RemainderExact /\ WidePrimitivesExact

\* Conversions in every direction round or saturate as the format asked for
\* requires, and comparisons follow the order of the numbers (softfloat/).
ConversionsExact == unit = "fpu" => ToIntSaturates /\ ConversionsRound /\ ComparisonsOrder

----------------------------------------------------------------------------
\* One part at a time; the others stay as they are.
MCInit == /\ unit \in {"sim", "decode", "cache", "insns", "hart", "fpu"}
          /\ SimInit /\ (unit # "sim" => where = "main" /\ mtime = 0)
          /\ DecodeInit
          /\ CacheInit /\ (unit # "cache" => dc.sets = 1)
          /\ HartInit /\ (unit # "hart" => ~h.dhalt)
          /\ FpuInit /\ (unit # "fpu" => FS = "on" /\ frm = 0)
          /\ InsnsInit /\ (IF unit = "insns" THEN Machines ELSE NoInsns)
Sim == unit = "sim" /\ SimNext /\ UNCHANGED <<unit, decodeVars, cacheVars, insnVars, hartVars, fpuVars>>
Decode == unit = "decode" /\ DecodeNext /\ UNCHANGED <<unit, simVars, cacheVars, insnVars, hartVars, fpuVars>>
Cache == unit = "cache" /\ CacheNext /\ UNCHANGED <<unit, simVars, decodeVars, insnVars, hartVars, fpuVars>>
Insns == /\ unit = "insns" /\ (Choose \/ ChooseWord \/ ExecuteInsn)
         /\ UNCHANGED <<unit, simVars, decodeVars, cacheVars, hartVars, fpuVars>>
Hart == unit = "hart" /\ HartNext /\ UNCHANGED <<unit, simVars, decodeVars, cacheVars, insnVars, fpuVars>>
Fpu == unit = "fpu" /\ FpuNext /\ UNCHANGED <<unit, simVars, decodeVars, cacheVars, insnVars, hartVars>>
MCNext == Sim \/ Decode \/ Cache \/ Insns \/ Hart \/ Fpu
MCSpec == MCInit /\ [][MCNext]_<<unit, simVars, decodeVars, cacheVars, insnVars, hartVars, fpuVars>>
====
