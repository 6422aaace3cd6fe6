----------------------------- MODULE SoftFloat ------------------------------
(***************************************************************************)
(* Berkeley SoftFloat 3a as the instruction-set simulator builds it        *)
(* (riscv-isa-sim/softfloat): binary32 and binary64 arithmetic on unsigned *)
(* words.  The global softfloat_roundingMode is a variable; a function     *)
(* that may raise exceptions returns the record [v, fl] of the word it     *)
(* returns and the set of flags it ORs into softfloat_exceptionFlags.      *)
(*                                                                         *)
(* A format is the record [e, m] of its exponent and fraction widths: the  *)
(* code's two formats are [8, 23] and [11, 52].  Every hexadecimal         *)
(* constant of the code is a function of e and m (0xFF is 2^e - 1, 0x7E is *)
(* the bias minus one, 0x40 is half of the e - 1 round bits ...), and the  *)
(* F64 text differs from the F32 text only in those constants unless a     *)
(* separate operator says otherwise.  The bodies are written once over the *)
(* format; f32_add and f64_add are their two instances.                    *)
(***************************************************************************)
EXTENDS Integers, FiniteSets

CONSTANTS
    F32, F64,      \* the two formats
    F32R, F64R,    \* the same formats for division and square root, whose
                   \* error bounds need the code's 7 and 10 round bits
    RoundBits      \* round bits of the integer conversions (7 in the code)

VARIABLE softfloat_roundingMode

IsFormat(F) == F.e \in Nat /\ F.m \in Nat /\ F.e >= 4 /\ F.m >= 2
ASSUME FormatAssumption ==
    /\ \A F \in {F32, F64, F32R, F64R} : IsFormat(F)
    /\ 2^(F32.e - 1) > 2 * (1 + F32.e + F32.m)   \* every i64 is in F32's range
    /\ F64.e > F32.e /\ 1 + F64.e + F64.m = 2 * (1 + F32.e + F32.m)
    /\ RoundBits \in Nat /\ RoundBits >= 2
    /\ F64.m >= 1 + F32.e + F32.m + RoundBits

RoundingModes == {"near_even", "minMag", "min", "max", "near_maxMag"}
Flags == {"inexact", "underflow", "overflow", "infinite", "invalid"}

----------------------------------------------------------------------------
(* The integer primitives (primitives.h and s_*.c).  The library is built  *)
(* with INLINE_LEVEL 5, SOFTFLOAT_FAST_INT64 and SOFTFLOAT_FAST_DIV64TO32  *)
(* (platform.h), so the variants modelled are the inline ones.  The first  *)
(* argument W is the width of the machine word (32 or 64 in the code); a   *)
(* "128-bit" integer is the record [v64, v0] of two words, as in struct    *)
(* uint128.                                                                *)

\* x<<n and x>>n of an unsigned W-bit word, and x | (b != 0).
Shl(W, x, n) == ((x % 2^(W - n)) * 2^n) % 2^W
Shr(x, n) == x \div 2^n
Jam(x, b) == IF b /\ x % 2 = 0 THEN x + 1 ELSE x
Bool(b) == IF b THEN 1 ELSE 0

\* a<<(-count & (W-1)): the count low bits of a, at the top of the word (all of
\* a when count is 0).
LowBitsUp(W, a, count) == IF count = 0 THEN a ELSE Shl(W, a, W - count)

softfloat_shortShiftRightJam64(W, a, count) ==
    Jam(Shr(a, count), a % 2^count # 0)

\* The same text for softfloat_shiftRightJam32 (W = 32) and ...64 (W = 64).
softfloat_shiftRightJam(W, a, count) ==
    IF count < W - 1
      THEN Jam(Shr(a, count), LowBitsUp(W, a, count) # 0)
      ELSE Bool(a # 0)

\* The halving search with its 256-entry table, by what it computes.
softfloat_countLeadingZeros(W, a) ==
    CHOOSE n \in 0..W : a < 2^(W - n) /\ (n = W \/ 2^(W - n - 1) <= a)

\* 1/A for A with one integer bit, as a fraction of H bits.
softfloat_approxRecip32_1(H, a) == ((2^(2 * H - 1) - 1) \div a) % 2^H

softfloat_eq128(a64, a0, b64, b0) == a64 = b64 /\ a0 = b0
softfloat_le128(a64, a0, b64, b0) == a64 < b64 \/ (a64 = b64 /\ a0 <= b0)
softfloat_lt128(a64, a0, b64, b0) == a64 < b64 \/ (a64 = b64 /\ a0 < b0)

\* The | of the code joins disjoint bits when count is in 1..W-1, the
\* precondition of the "short" shifts.
softfloat_shortShiftLeft128(W, a64, a0, count) ==
    [v64 |-> Shl(W, a64, count) + Shr(a0, (W - count) % W),
     v0  |-> Shl(W, a0, count)]

softfloat_shortShiftRight128(W, a64, a0, count) ==
    [v64 |-> Shr(a64, count),
     v0  |-> LowBitsUp(W, a64, count) + Shr(a0, count)]

softfloat_shortShiftRightJam64Extra(W, a, extra, count) ==
    [v |-> Shr(a, count), extra |-> Jam(LowBitsUp(W, a, count), extra # 0)]

softfloat_shortShiftRightJam128(W, a64, a0, count) ==
    [v64 |-> Shr(a64, count),
     v0  |-> Jam(LowBitsUp(W, a64, count) + Shr(a0, count),
                 LowBitsUp(W, a0, count) # 0)]

softfloat_shortShiftRightJam128Extra(W, a64, a0, extra, count) ==
    [v64   |-> Shr(a64, count),
     v0    |-> LowBitsUp(W, a64, count) + Shr(a0, count),
     extra |-> Jam(LowBitsUp(W, a0, count), extra # 0)]

softfloat_shiftRightJam64Extra(W, a, extra, count) ==
    LET z == IF count < W
               THEN [v |-> Shr(a, count), extra |-> LowBitsUp(W, a, count)]
               ELSE [v |-> 0, extra |-> IF count = W THEN a ELSE Bool(a # 0)]
    IN  [z EXCEPT !.extra = Jam(@, extra # 0)]

softfloat_shiftRightJam128(W, a64, a0, count) ==
    IF count < W
      THEN [v64 |-> Shr(a64, count),
            v0  |-> Jam(LowBitsUp(W, a64, count) + Shr(a0, count),
                        LowBitsUp(W, a0, count) # 0)]
      ELSE [v64 |-> 0,
            v0  |-> IF count < 2 * W - 1
                      THEN Jam(Shr(a64, count % W),
                               a64 % 2^(count % W) # 0 \/ a0 # 0)
                      ELSE Bool(a64 # 0 \/ a0 # 0)]

softfloat_add128(W, a64, a0, b64, b0) ==
    LET v0 == (a0 + b0) % 2^W
    IN  [v64 |-> (a64 + b64 + Bool(v0 < a0)) % 2^W, v0 |-> v0]

softfloat_sub128(W, a64, a0, b64, b0) ==
    [v64 |-> (a64 - b64 - Bool(a0 < b0)) % 2^W, v0 |-> (a0 - b0) % 2^W]

\* a * (b << H) for a W-bit a and an H-bit b, H = W / 2.
softfloat_mul64ByShifted32To128(W, a, b) ==
    LET H   == W \div 2
        mid == (a % 2^H) * b
    IN  [v64 |-> (Shr(a, H) * b + Shr(mid, H)) % 2^W, v0 |-> Shl(W, mid, H)]

softfloat_mul64To128(W, a, b) ==
    LET H    == W \div 2
        a32  == Shr(a, H)    a0 == a % 2^H
        b32  == Shr(b, H)    b0 == b % 2^H
        mid1 == a32 * b0
        mid  == (mid1 + a0 * b32) % 2^W
        low  == Shl(W, mid, H)
        v0   == (a0 * b0 + low) % 2^W
    IN  [v64 |-> (a32 * b32 + Bool(mid < mid1) * 2^H + Shr(mid, H)
                    + Bool(v0 < low)) % 2^W,
         v0  |-> v0]

softfloat_mul128By32(W, a64, a0, b) ==
    LET H     == W \div 2
        v0    == (a0 * b) % 2^W
        mid   == Shr(a0, H) * b
        carry == (Shr(v0, H) - mid) % 2^H
    IN  [v64 |-> (a64 * b + Shr(mid + carry, H)) % 2^W, v0 |-> v0]

----------------------------------------------------------------------------
(* Formats: internals.h and specialize.h. *)

Width(F) == 1 + F.e + F.m
ExpMax(F) == 2^F.e - 1
Bias(F) == 2^(F.e - 1) - 1
Guard(F) == F.e - 1                \* round bits of roundPackTo: 7 and 10
HiddenBit(F) == 2^F.m

signUI(F, a) == Shr(a, F.e + F.m)
expUI(F, a) == Shr(a, F.m) % 2^F.e
fracUI(F, a) == a % 2^F.m
packToUI(F, sign, exp, sig) ==
    (sign * 2^(F.e + F.m) + exp * 2^F.m + sig) % 2^Width(F)
isNaNUI(F, a) == expUI(F, a) = ExpMax(F) /\ fracUI(F, a) # 0

defaultNaNUI(F) == ExpMax(F) * 2^F.m + 2^(F.m - 1)
isSigNaNUI(F, a) ==
    isNaNUI(F, a) /\ fracUI(F, a) < 2^(F.m - 1)

XorSign(a, b) == (a + b) % 2
Ret(v) == [v |-> v, fl |-> {}]
Raise(v, fl) == [v |-> v, fl |-> fl]
Invalid(F) == Raise(defaultNaNUI(F), {"invalid"})
Inf(F, sign) == Ret(packToUI(F, sign, ExpMax(F), 0))
Zero(F, sign) == Ret(packToUI(F, sign, 0, 0))

\* Every NaN operand gives the default NaN; a signaling one raises invalid.
PropagateNaN(F, uiA, uiB) ==
    Raise(defaultNaNUI(F),
          IF isSigNaNUI(F, uiA) \/ isSigNaNUI(F, uiB)
            THEN {"invalid"} ELSE {})

----------------------------------------------------------------------------
(* Normalisation, rounding and packing. *)

\* A subnormal fraction shifted until its leading bit is the hidden bit.
NormSubnormalSig(F, sig) ==
    LET n == softfloat_countLeadingZeros(Width(F), sig) - F.e
    IN  [exp |-> 1 - n, sig |-> Shl(Width(F), sig, n)]

\* The operand's exponent and fraction, a subnormal one normalised.
NormSig(F, ui) ==
    IF expUI(F, ui) = 0 THEN NormSubnormalSig(F, fracUI(F, ui))
    ELSE [exp |-> expUI(F, ui), sig |-> fracUI(F, ui)]
Significand(F, ui) == (NormSig(F, ui).sig % HiddenBit(F)) + HiddenBit(F)

\* What is added to the round bits (n of them) before they are cut off.
RoundIncrement(rm, sign, n) ==
    CASE rm \in {"near_even", "near_maxMag"} -> 2^(n - 1)
      [] rm = (IF sign = 1 THEN "min" ELSE "max") -> 2^n - 1
      [] OTHER -> 0

TieAlwaysToEven(rm, sig, roundBits, n) ==
    IF roundBits = 2^(n - 1) THEN sig - (sig % 2) ELSE sig
\* sig &= ~(! (roundBits ^ half) & roundNearEven)
TieToEven(rm, sig, roundBits, n) ==
    IF rm = "near_even" /\ roundBits = 2^(n - 1) THEN sig - (sig % 2) ELSE sig

\* sig has its leading bit in bit Width - 2, above it room for the carry, and
\* Guard round bits below the fraction.  Tininess is detected after rounding
\* (init_detectTininess).
RoundPack(F, sign, exp, sig) ==
    LET rm   == softfloat_roundingMode
        n    == Guard(F)
        inc  == RoundIncrement(rm, sign, n)
        top  == 2^(Width(F) - 1)
        tiny == exp < 0 /\ (exp < -1 \/ sig + inc < top)
        s    == IF exp < 0 THEN softfloat_shiftRightJam(Width(F), sig, -exp)
                ELSE sig
        bits == s % 2^n
        z    == TieToEven(rm, Shr(s + inc, n), bits, n)
        over == exp >= 0 /\ ExpMax(F) - 2 <= exp
                         /\ (ExpMax(F) - 2 < exp \/ top <= sig + inc)
    IN  IF over
          THEN Raise(packToUI(F, sign, ExpMax(F), 0) - Bool(inc = 0),
                     {"overflow", "inexact"})
          ELSE Raise(packToUI(F, sign,
                              IF z = 0 \/ exp < 0 THEN 0 ELSE exp, z),
                     (IF tiny /\ bits # 0 THEN {"underflow"} ELSE {})
                       \cup (IF bits # 0 THEN {"inexact"} ELSE {}))

NormRoundPack(F, sign, exp, sig) ==
    LET shiftCount == softfloat_countLeadingZeros(Width(F), sig) - 1
        x == exp - shiftCount
    IN  IF Guard(F) <= shiftCount /\ 0 <= x /\ x < ExpMax(F) - 2
          THEN Ret(packToUI(F, sign, IF sig = 0 THEN 0 ELSE x,
                            Shl(Width(F), sig, shiftCount - Guard(F))))
          ELSE RoundPack(F, sign, x, Shl(Width(F), sig, shiftCount))

----------------------------------------------------------------------------
(* Addition and subtraction. *)

\* |A| + |B| with the sign of A.  The fractions carry Guard - 1 round bits.
AddMags(F, uiA, uiB, signZ) ==
    LET expA == expUI(F, uiA)     expB == expUI(F, uiB)
        sigA == fracUI(F, uiA) * 2^(Guard(F) - 1)
        sigB == fracUI(F, uiB) * 2^(Guard(F) - 1)
        one  == 2^(Width(F) - 3)
        Aligned(sig, exp, dist) ==
            softfloat_shiftRightJam(Width(F),
                sig + (IF exp # 0 THEN one ELSE sig), dist)
        sum  == one + (IF expA < expB THEN Aligned(sigA, expA, expB - expA)
                                          + sigB
                       ELSE sigA + Aligned(sigB, expB, expA - expB))
        expZ == IF expA < expB THEN expB ELSE expA
    IN  CASE expA = expB /\ expA = ExpMax(F) ->
               IF sigA # 0 \/ sigB # 0 THEN PropagateNaN(F, uiA, uiB)
               ELSE Ret(uiA)
          [] expA = expB /\ expA = 0 ->
               Ret(packToUI(F, signZ, 0, (uiA + uiB) % 2^(Width(F) - 1)))
          [] expA = expB /\ expA \notin {0, ExpMax(F)} ->
               RoundPack(F, signZ, expA, 2 * one + sigA + sigB)
          [] expA < expB /\ expB = ExpMax(F) ->
               IF sigB # 0 THEN PropagateNaN(F, uiA, uiB)
               ELSE Inf(F, signZ)
          [] expA > expB /\ expA = ExpMax(F) ->
               IF sigA # 0 THEN PropagateNaN(F, uiA, uiB)
               ELSE Ret(uiA)
          [] OTHER ->
               IF sum < 2 * one
                 THEN RoundPack(F, signZ, expZ - 1, 2 * sum)
                 ELSE RoundPack(F, signZ, expZ, sum)

\* |A| - |B| with the sign of A, negated when B is the larger.
SubMags(F, uiA, uiB, signZ) ==
    LET rawA == expUI(F, uiA)     rawB == expUI(F, uiB)
        sigA == fracUI(F, uiA) * 2^Guard(F)
        sigB == fracUI(F, uiB) * 2^Guard(F)
        one  == 2^(Width(F) - 2)
        Aligned(sig, exp, dist) ==
            softfloat_shiftRightJam(Width(F),
                sig + (IF exp # 0 THEN one ELSE sig), dist)
        same == IF rawA = 0 THEN 1 ELSE rawA
    IN  CASE rawA = rawB /\ rawA = ExpMax(F) ->
               IF sigA # 0 \/ sigB # 0 THEN PropagateNaN(F, uiA, uiB)
               ELSE Invalid(F)
          [] rawA = rawB /\ rawA # ExpMax(F) ->
               IF sigA = sigB THEN Zero(F, Bool(softfloat_roundingMode = "min"))
               ELSE IF sigB < sigA
                 THEN NormRoundPack(F, signZ, same - 1, sigA - sigB)
                 ELSE NormRoundPack(F, 1 - signZ, same - 1,
                                                sigB - sigA)
          [] rawA < rawB ->
               IF rawB = ExpMax(F)
                 THEN IF sigB # 0 THEN PropagateNaN(F, uiA, uiB)
                      ELSE Inf(F, 1 - signZ)
                 ELSE NormRoundPack(F, 1 - signZ, rawB - 1,
                          sigB + one - Aligned(sigA, rawA, rawB - rawA))
          [] OTHER ->
               IF rawA = ExpMax(F)
                 THEN IF sigA # 0 THEN PropagateNaN(F, uiA, uiB)
                      ELSE Ret(uiA)
                 ELSE NormRoundPack(F, signZ, rawA - 1,
                          sigA + one - Aligned(sigB, rawB, rawA - rawB))

\* The two instances the rest of the library calls.
softfloat_propagateNaNF32UI(uiA, uiB) == PropagateNaN(F32, uiA, uiB)
softfloat_propagateNaNF64UI(uiA, uiB) == PropagateNaN(F64, uiA, uiB)
softfloat_normSubnormalF32Sig(sig) == NormSubnormalSig(F32, sig)
softfloat_normSubnormalF64Sig(sig) == NormSubnormalSig(F64, sig)
softfloat_roundPackToF32(sign, exp, sig) == RoundPack(F32, sign, exp, sig)
softfloat_roundPackToF64(sign, exp, sig) == RoundPack(F64, sign, exp, sig)
softfloat_normRoundPackToF32(s, exp, sig) == NormRoundPack(F32, s, exp, sig)
softfloat_normRoundPackToF64(s, exp, sig) == NormRoundPack(F64, s, exp, sig)
softfloat_addMagsF32(uiA, uiB, signZ) == AddMags(F32, uiA, uiB, signZ)
softfloat_addMagsF64(uiA, uiB, signZ) == AddMags(F64, uiA, uiB, signZ)
softfloat_subMagsF32(uiA, uiB, signZ) == SubMags(F32, uiA, uiB, signZ)
softfloat_subMagsF64(uiA, uiB, signZ) == SubMags(F64, uiA, uiB, signZ)

f32_add(a, b) ==
    IF signUI(F32, a) = signUI(F32, b)
      THEN softfloat_addMagsF32(a, b, signUI(F32, a))
      ELSE softfloat_subMagsF32(a, b, signUI(F32, a))
f32_sub(a, b) ==
    IF signUI(F32, a) = signUI(F32, b)
      THEN softfloat_subMagsF32(a, b, signUI(F32, a))
      ELSE softfloat_addMagsF32(a, b, signUI(F32, a))
f64_add(a, b) ==
    IF signUI(F64, a) = signUI(F64, b)
      THEN softfloat_addMagsF64(a, b, signUI(F64, a))
      ELSE softfloat_subMagsF64(a, b, signUI(F64, a))
f64_sub(a, b) ==
    IF signUI(F64, a) = signUI(F64, b)
      THEN softfloat_subMagsF64(a, b, signUI(F64, a))
      ELSE softfloat_addMagsF64(a, b, signUI(F64, a))

----------------------------------------------------------------------------
(* Multiplication. *)

IsInf(F, a) == expUI(F, a) = ExpMax(F) /\ fracUI(F, a) = 0
IsZero(F, a) == expUI(F, a) = 0 /\ fracUI(F, a) = 0

\* The cases of a product with a NaN, an infinite or a zero operand; Finite
\* is the product of two nonzero finite operands.
Mul(F, a, b, Finite) ==
    LET signZ == XorSign(signUI(F, a), signUI(F, b))
    IN  CASE isNaNUI(F, a) \/ isNaNUI(F, b) -> PropagateNaN(F, a, b)
          [] IsInf(F, a) /\ ~isNaNUI(F, b) ->
               IF IsZero(F, b) THEN Invalid(F) ELSE Inf(F, signZ)
          [] IsInf(F, b) /\ ~isNaNUI(F, a) /\ ~IsInf(F, a) ->
               IF IsZero(F, a) THEN Invalid(F) ELSE Inf(F, signZ)
          [] OTHER -> IF IsZero(F, a) \/ IsZero(F, b) THEN Zero(F, signZ)
                      ELSE Finite

\* The leading bit of a product of two significands is in one of two places.
PackProduct(F, signZ, expZ, sigZ) ==
    IF sigZ < 2^(Width(F) - 2) THEN RoundPack(F, signZ, expZ - 1, 2 * sigZ)
    ELSE RoundPack(F, signZ, expZ, sigZ)

ProductExp(F, a, b) == NormSig(F, a).exp + NormSig(F, b).exp - Bias(F)
ProductSign(F, a, b) == XorSign(signUI(F, a), signUI(F, b))

\* The product fits a double word, whose low half is jammed away.
f32_mul(a, b) ==
    LET prod == (Significand(F32, a) * 2^Guard(F32))
                  * (Significand(F32, b) * 2^(Guard(F32) + 1))
    IN  Mul(F32, a, b,
            PackProduct(F32, ProductSign(F32, a, b), ProductExp(F32, a, b),
                softfloat_shortShiftRightJam64(Width(F64), prod, Width(F32))))

f64_mul(a, b) ==
    LET prod == softfloat_mul64To128(Width(F64),
                    Significand(F64, a) * 2^Guard(F64),
                    Significand(F64, b) * 2^(Guard(F64) + 1))
    IN  Mul(F64, a, b,
            PackProduct(F64, ProductSign(F64, a, b), ProductExp(F64, a, b),
                        Jam(prod.v64, prod.v0 # 0)))

----------------------------------------------------------------------------
(* Fused multiply-add: A * B + C, or with C or the product negated. *)

\* The operands' NaN, infinity and zero-product cases; Finite otherwise.
MulAdd(F, a, b, c, signProd, signC, Finite) ==
    LET nan(z, x) == PropagateNaN(F, z, x)
        \* propagateNaN_ABC: flags of A and B, then of the result and C.
        abc == Raise(defaultNaNUI(F), nan(a, b).fl \cup nan(0, c).fl)
        magBits == ~(IsZero(F, a) \/ IsZero(F, b))
    IN  CASE isNaNUI(F, a) \/ isNaNUI(F, b) -> abc
          [] (IsInf(F, a) \/ IsInf(F, b)) /\ ~isNaNUI(F, a) /\ ~isNaNUI(F, b) ->
               CASE ~magBits ->
                      Raise(defaultNaNUI(F), {"invalid"} \cup nan(0, c).fl)
                 [] magBits /\ isNaNUI(F, c) -> nan(0, c)
                 [] magBits /\ IsInf(F, c) /\ signProd # signC -> Invalid(F)
                 [] OTHER -> Inf(F, signProd)
          [] OTHER ->
               CASE isNaNUI(F, c) -> nan(0, c)
                 [] IsInf(F, c) -> Ret(c)
                 [] ~magBits /\ ~isNaNUI(F, c) /\ ~IsInf(F, c) ->
                      IF IsZero(F, c) /\ signProd # signC
                        THEN Zero(F, Bool(softfloat_roundingMode = "min"))
                        ELSE Ret(c)
                 [] OTHER -> Finite

ProdSign(F, a, b, op) == XorSign(ProductSign(F, a, b), Bool(op = "subProd"))
CSign(F, c, op) == XorSign(signUI(F, c), Bool(op = "subC"))
Cancelled(F) == Zero(F, Bool(softfloat_roundingMode = "min"))

\* The product is held in one double word of D bits, its leading bit in bit
\* D - 3.  Sum of C and a product with the same sign:
SumF32(sign, expProd, sigProd, expC, sigC) ==
    LET W == Width(F32)    D == Width(F64)
        d == expProd - expC
        Pack(exp, sigZ) == IF sigZ < 2^(W - 2)
                             THEN softfloat_roundPackToF32(sign, exp - 1, 2 * sigZ)
                             ELSE softfloat_roundPackToF32(sign, exp, sigZ)
    IN  IF d <= 0
          THEN Pack(expC, sigC + softfloat_shiftRightJam(D, sigProd, W - d))
          ELSE Pack(expProd, softfloat_shortShiftRightJam64(D,
                 sigProd + softfloat_shiftRightJam(D, sigC * 2^W, d), W))
\* With different signs, the difference of double words, normalised.
NormalizedF32(sign, exp, sig64Z, shift) ==
    LET W == Width(F32)
    IN  softfloat_roundPackToF32(sign, exp - shift,
            IF shift < W
              THEN softfloat_shortShiftRightJam64(Width(F64), sig64Z, W - shift)
              ELSE Shl(W, sig64Z, shift - W))
PackDifferenceF32(sign, exp, diff) ==
    LET Clz(x) == softfloat_countLeadingZeros(Width(F64), x) - 1
    IN  CASE diff = 0 -> Cancelled(F32)
          [] diff > 0 -> NormalizedF32(sign, exp, diff, Clz(diff))
          [] OTHER -> NormalizedF32(1 - sign, exp, -diff, Clz(-diff))
DifferenceF32(signProd, signC, expProd, sigProd, expC, sig64C) ==
    LET D == Width(F64)
        d == expProd - expC
    IN  CASE d < 0 -> PackDifferenceF32(signC, expC,
                        sig64C - softfloat_shiftRightJam(D, sigProd, -d))
          [] d = 0 -> PackDifferenceF32(signProd, expProd, sigProd - sig64C)
          [] OTHER -> PackDifferenceF32(signProd, expProd,
                        sigProd - softfloat_shiftRightJam(D, sig64C, d))
FusedF32(signProd, signC, expProd, sigProd, cIsZero, expC, sigC) ==
    CASE cIsZero ->
           softfloat_roundPackToF32(signProd, expProd - 1,
               softfloat_shortShiftRightJam64(Width(F64), sigProd, Width(F32) - 1))
      [] ~cIsZero /\ signProd = signC ->
           SumF32(signProd, expProd, sigProd, expC, sigC)
      [] OTHER -> DifferenceF32(signProd, signC, expProd, sigProd, expC,
                                sigC * 2^Width(F32))

softfloat_mulAddF32(a, b, c, op) ==
    LET g == Guard(F32)
        signProd == ProdSign(F32, a, b, op)
        signC == CSign(F32, c, op)
        Fused(exp, sig) == FusedF32(signProd, signC, exp, sig, IsZero(F32, c),
                               NormSig(F32, c).exp, Significand(F32, c) * 2^(g - 1))
        Normal(exp, raw) == IF raw < 2^(Width(F64) - 3) THEN Fused(exp, 2 * raw)
                            ELSE Fused(exp + 1, raw)
    IN  MulAdd(F32, a, b, c, signProd, signC,
               Normal(ProductExp(F32, a, b),
                      Significand(F32, a) * 2^g * (Significand(F32, b) * 2^g)))

\* The product as a pair of words with its exponent, the leading bit in bit
\* W - 3 of the high word.
Product128(expP, raw) ==
    LET W == Width(F64)
    IN  IF raw.v64 < 2^(W - 3)
          THEN [exp |-> expP,
                sig |-> softfloat_add128(W, raw.v64, raw.v0, raw.v64, raw.v0)]
          ELSE [exp |-> expP + 1, sig |-> raw]

\* When C is the larger by exactly one place and the signs differ, the pair is
\* shifted whole; otherwise only its high word is, and the low word stays.
AlignProduct(sig, d, same) ==
    LET W == Width(F64)
    IN  CASE d < 0 /\ (same \/ d < -1) ->
               [sig EXCEPT !.v64 = softfloat_shiftRightJam(W, @, -d)]
          [] d = -1 /\ ~same ->
               softfloat_shortShiftRightJam128(W, sig.v64, sig.v0, 1)
          [] OTHER -> sig
AlignC(sigC, d) ==
    IF d > 0 THEN softfloat_shiftRightJam128(Width(F64), sigC, 0, d)
    ELSE [v64 |-> sigC, v0 |-> 0]

PackSum(sign, exp, sigZ) ==
    IF sigZ < 2^(Width(F64) - 2)
      THEN softfloat_roundPackToF64(sign, exp - 1, 2 * sigZ)
      ELSE softfloat_roundPackToF64(sign, exp, sigZ)

\* The difference of pairs, normalised: a high word of zero is skipped.
PackNormal(sign, exp, up, shift) ==
    LET W == Width(F64)
        left == softfloat_shortShiftLeft128(W, up.v64, up.v0, shift)
    IN  softfloat_roundPackToF64(sign, exp - shift,
            IF shift < 0
              THEN Jam(softfloat_shortShiftRightJam64(W, up.v64, -shift), up.v0 # 0)
              ELSE Jam(left.v64, left.v0 # 0))
PackMagnitude(sign, exp, mag) ==
    LET W == Width(F64)
    IN  IF mag.v64 = 0
          THEN PackNormal(sign, exp - W, [v64 |-> mag.v0, v0 |-> 0],
                          softfloat_countLeadingZeros(W, mag.v0) - 1)
          ELSE PackNormal(sign, exp, mag,
                          softfloat_countLeadingZeros(W, mag.v64) - 1)
PackDifference(sign, exp, sub, mayBeNegative) ==
    CASE sub.v64 = 0 /\ sub.v0 = 0 -> Cancelled(F64)
      [] mayBeNegative /\ sub.v64 >= 2^(Width(F64) - 1) ->
           PackMagnitude(1 - sign, exp,
                         softfloat_sub128(Width(F64), 0, 0, sub.v64, sub.v0))
      [] OTHER -> PackMagnitude(sign, exp, sub)

\* P and C are the aligned pairs, d their exponents' difference.
Combine(signProd, signC, exp, d, P, C) ==
    LET W == Width(F64)
        Total(s) == PackSum(signProd, exp, Jam(s.v64, s.v0 # 0))
    IN  CASE signProd = signC ->
               Total(softfloat_add128(W, P.v64, P.v0, C.v64, C.v0))
          [] signProd # signC /\ d < 0 ->
               PackDifference(signC, exp,
                   softfloat_sub128(W, C.v64, C.v0, P.v64, P.v0), FALSE)
          [] OTHER ->
               PackDifference(signProd, exp,
                   softfloat_sub128(W, P.v64, P.v0, C.v64, C.v0), d = 0)

FusedF64(signProd, signC, prod, cIsZero, expC, sigC) ==
    LET d == prod.exp - expC
    IN  IF cIsZero
          THEN softfloat_roundPackToF64(signProd, prod.exp - 1,
                                        Jam(2 * prod.sig.v64, prod.sig.v0 # 0))
          ELSE Combine(signProd, signC, IF d < 0 THEN expC ELSE prod.exp, d,
                       AlignProduct(prod.sig, d, signProd = signC),
                       AlignC(sigC, d))

softfloat_mulAddF64(a, b, c, op) ==
    LET g == Guard(F64)
        signProd == ProdSign(F64, a, b, op)
        signC == CSign(F64, c, op)
        raw == softfloat_mul64To128(Width(F64), Significand(F64, a) * 2^g,
                                                Significand(F64, b) * 2^g)
    IN  MulAdd(F64, a, b, c, signProd, signC,
          FusedF64(signProd, signC, Product128(ProductExp(F64, a, b), raw),
                   IsZero(F64, c), NormSig(F64, c).exp,
                   Significand(F64, c) * 2^(g - 1)))

f32_mulAdd(a, b, c) == softfloat_mulAddF32(a, b, c, "none")
f64_mulAdd(a, b, c) == softfloat_mulAddF64(a, b, c, "none")

----------------------------------------------------------------------------
(* Division and square root. *)

Div(F, a, b, Finite) ==
    LET signZ == ProductSign(F, a, b)
    IN  CASE isNaNUI(F, a) \/ isNaNUI(F, b) -> PropagateNaN(F, a, b)
          [] IsInf(F, a) /\ ~isNaNUI(F, b) ->
               IF IsInf(F, b) THEN Invalid(F) ELSE Inf(F, signZ)
          [] IsInf(F, b) /\ ~IsInf(F, a) /\ ~isNaNUI(F, a) -> Zero(F, signZ)
          [] OTHER ->
               CASE IsZero(F, b) /\ IsZero(F, a) -> Invalid(F)
                 [] IsZero(F, b) /\ ~IsZero(F, a) ->
                      Raise(Inf(F, signZ).v, {"infinite"})
                 [] IsZero(F, a) /\ ~IsZero(F, b) -> Zero(F, signZ)
                 [] OTHER -> Finite

\* The exponent of the quotient: one less when A's significand is the smaller.
QuotientExp(F, a, b) ==
    NormSig(F, a).exp - NormSig(F, b).exp + Bias(F) - 1
      - Bool(Significand(F, a) < Significand(F, b))

\* One double-word division; the sticky bit is only computed when the bits
\* below the rounding bit are all zero.
f32_div(a, b) ==
    LET W      == Width(F32)
        sigA   == Significand(F32, a)
        sigB   == Significand(F32, b)
        sig64A == sigA * (IF sigA < sigB THEN 2^(W - 1) ELSE 2^(W - 2))
        sigZ   == sig64A \div sigB
        exact  == IF sigZ % 2^(Guard(F32) - 1) = 0
                    THEN Jam(sigZ, sigB * sigZ # sig64A) ELSE sigZ
    IN  Div(F32, a, b, softfloat_roundPackToF32(ProductSign(F32, a, b),
                                                QuotientExp(F32, a, b), exact))

\* x * y modulo 2^W, by halves.
MulMod(W, x, y) ==
    LET H == W \div 2
    IN  ((x % 2^H) * (y % 2^H)
           + Shl(W, Shr(x, H) * (y % 2^H) + (x % 2^H) * Shr(y, H), H)) % 2^W

\* Two half-word quotient digits from one approximate reciprocal; the remainder
\* is computed exactly only when the error of the second digit could matter.
f64_div(a, b) ==
    LET F == F64R    W == Width(F)    H == W \div 2
        rawA == Significand(F, a)
        rawB == Significand(F, b)
        sigA == rawA * (IF rawA < rawB THEN 2^F.e ELSE 2^Guard(F))
        sigB == rawB * 2^F.e
        recip32 == softfloat_approxRecip32_1(H, Shr(sigB, H)) - 2
        sig32Z  == Shr(Shr(sigA, H) * recip32, H)
        Less(rem, digit) ==   \* (rem - 2 digit * high B)<<28 - 2 digit * low B
            (Shl(W, (rem - ((2 * digit) % 2^H) * Shr(sigB, H)) % 2^W, H - 4)
               - ((2 * digit) % 2^H) * Shr(sigB % 2^H, 4)) % 2^W
        rem  == Less(sigA, sig32Z)
        q    == Shr(Shr(rem, H) * recip32, H) + 4
        sigZ == sig32Z * 2^H + q * 2^4
        rem2 == Less(rem, q - (q % 8))
        cut  == sigZ - (sigZ % 2^7)
        fixd == IF rem2 >= 2^(W - 1) THEN cut - 2^7 ELSE Jam(cut, rem2 # 0)
    IN  Div(F, a, b,
            RoundPack(F, ProductSign(F, a, b), QuotientExp(F, a, b),
                IF sigZ % 2^(Guard(F) - 1) < 4 * 2^4 THEN fixd ELSE sigZ))

\* floor(sqrt(n)), bit by bit from bit k - 1.
ISqrt(n, k) ==
    LET R[i \in 0..k] == IF i = 0 THEN 0
                         ELSE LET q == R[i - 1]
                                  r == q + 2^(k - i)
                              IN  IF r * r <= n THEN r ELSE q
    IN  R[k]

\* The table-driven approximation of 1/sqrt(A), A with one integer bit (odd
\* exponent) or two, by its documented bound: never greater than the true
\* value, less than it by at most 2.06 units in the last place, and with its
\* top bit set.  Which of these values the table gives is left open.
softfloat_approxRecipSqrt32_1(H, oddExpA, a) ==
    LET one  == 2^(2 * H - 2 + oddExpA)
        n    == (one \div a) * 2^H + ((one % a) * 2^H) \div a
        best == ISqrt(n, H)
    IN  {r \in {best, best - 1, best - 2} : 2^(H - 1) <= r}

Sqrt(F, a, Finite) ==
    CASE isNaNUI(F, a) -> {PropagateNaN(F, a, 0)}
      [] IsInf(F, a) -> {IF signUI(F, a) = 0 THEN Ret(a) ELSE Invalid(F)}
      [] IsZero(F, a) -> {Ret(a)}
      [] OTHER -> IF signUI(F, a) = 1 THEN {Invalid(F)} ELSE Finite

SqrtExp(F, a) == ((NormSig(F, a).exp - Bias(F)) \div 2) + Bias(F) - 1
OddExp(F, a) == NormSig(F, a).exp % 2

\* The set of results over the choices of the approximation.
f32_sqrt(a) ==
    LET F == F32R    W == Width(F)
        odd  == OddExp(F, a)
        sigA == Significand(F, a) * 2^F.e
        Result(recip) ==
            LET sigZ == Shr(Shr(sigA * recip, W), odd) + 2
                s    == Shr(sigZ, 2)
                negRem == (s * s) % 2^W
                fixd == IF negRem >= 2^(W - 1) THEN 4 * s + 1
                        ELSE 4 * s - Bool(negRem # 0)
            IN  RoundPack(F, 0, SqrtExp(F, a),
                    IF sigZ % 2^(Guard(F) - 1) < 2 THEN fixd ELSE sigZ)
    IN  Sqrt(F, a, {Result(r) : r \in softfloat_approxRecipSqrt32_1(W, odd, sigA)})

f64_sqrt(a) ==
    LET F == F64R    W == Width(F)    H == W \div 2
        odd    == OddExp(F, a)
        raw    == Significand(F, a)
        sig32A == Shr(raw, F.m + 1 - H)
        sigA   == raw * 2^(Guard(F) - 1 - odd)
        Result(recip) ==
            LET sig32Z == Shr(Shr(sig32A * recip, H), odd)
                rem  == (sigA - sig32Z * sig32Z) % 2^W
                q    == Shr((Shr(rem, 2) % 2^H) * recip, H)
                sigZ == sig32Z * 2^H + 2^5 + q * 2^3
                cut  == sigZ - (sigZ % 2^6)
                s    == Shr(sigZ, 6)
                rem2 == (Shl(W, sigA, W - 12) - MulMod(W, s, s)) % 2^W
                fixd == IF rem2 >= 2^(W - 1) THEN cut - 1 ELSE Jam(cut, rem2 # 0)
            IN  RoundPack(F, 0, SqrtExp(F, a),
                    IF sigZ % 2^(Guard(F) - 1) < 2^5 THEN fixd ELSE sigZ)
    IN  Sqrt(F, a, {Result(r) : r \in softfloat_approxRecipSqrt32_1(H, odd, sig32A)})

----------------------------------------------------------------------------
(* Remainder: A - n * B with n the integer nearest to A / B. *)

Rem(F, a, b, Finite) ==
    CASE isNaNUI(F, a) \/ isNaNUI(F, b) -> PropagateNaN(F, a, b)
      [] IsInf(F, a) /\ ~isNaNUI(F, b) -> Invalid(F)
      [] IsInf(F, b) /\ ~IsInf(F, a) /\ ~isNaNUI(F, a) -> Ret(a)
      [] OTHER -> CASE IsZero(F, b) -> Invalid(F)
                    [] IsZero(F, a) /\ ~IsZero(F, b) -> Ret(a)
                    [] OTHER -> Finite

\* Of two successive remainders, the one of least magnitude; on a tie the one
\* with an even quotient.  q belongs to rem.
SelectRem(F, signA, expB, rem, altRem, q) ==
    LET W    == Width(F)
        mean == (rem + altRem) % 2^W
        z    == IF mean >= 2^(W - 1) \/ (mean = 0 /\ q % 2 = 1)
                  THEN altRem ELSE rem
    IN  IF z >= 2^(W - 1) THEN NormRoundPack(F, 1 - signA, expB, 2^W - z)
        ELSE NormRoundPack(F, signA, expB, z)

\* do { altRem = rem; ++q; rem -= sigB; } while (0 <= rem)
SubtractB(F, signA, expB, rem, sigB, q) ==
    LET W == Width(F)
        k == IF rem >= 2^(W - 1) THEN 1 ELSE rem \div sigB + 1
    IN  SelectRem(F, signA, expB, (rem - k * sigB) % 2^W,
                  (rem - (k - 1) * sigB) % 2^W, q + k)

\* The exponents differ by at most one place.
NearRem(F, signA, expB, sigA, sigB, expDiff) ==
    LET g == Guard(F) - 1
        q == Bool(expDiff = 0 /\ sigB <= sigA)
    IN  SubtractB(F, signA, expB,
                  IF expDiff = 0 THEN (sigA - q * sigB) * 2^g
                  ELSE sigA * 2^(g - 1), sigB * 2^g, q)

f32_rem(a, b) ==
    LET F == F32    W == Width(F)    g == Guard(F)
        sigA == Significand(F, a)    sigB == Significand(F, b)
        expB == NormSig(F, b).exp
        expDiff == NormSig(F, a).exp - expB
        recip32 == softfloat_approxRecip32_1(W, sigB * 2^F.e)
        B     == sigB * 2^(g - 1)
        Q(r)  == Shr(r * recip32, W)
        first == expDiff - (W - 1)
        loops == IF first < 0 THEN 0 ELSE first \div (W - 3) + 1
        R[i \in 0..loops] ==
            IF i = 0 THEN sigA * 2^g ELSE (-(Q(R[i - 1]) * B)) % 2^W
        last  == first - loops * (W - 3)
        r     == R[loops]
        q     == Shr(Q(r), -last - 1)
        rem   == (Shl(W, r, last + W - 2) - q * B) % 2^W
    IN  Rem(F, a, b,
            CASE expDiff < -1 -> Ret(a)
              [] expDiff \in {-1, 0} ->
                   NearRem(F, signUI(F, a), expB, sigA, sigB, expDiff)
              [] OTHER -> SubtractB(F, signUI(F, a), expB, rem, B, q))

\* Like f32_rem, with half-word digits that are corrected when too large.
f64_rem(a, b) ==
    LET F == F64R    W == Width(F)    H == W \div 2    g == Guard(F)
        sigA == Significand(F, a)    sigB == Significand(F, b)
        expB == NormSig(F, b).exp
        expDiff == NormSig(F, a).exp - expB
        recip32 == softfloat_approxRecip32_1(H, Shr(sigB, F.m + 1 - H))
        B      == sigB * 2^(g - 1)
        Q64(r) == Shr(r, H) * recip32
        first  == expDiff - (H - 2)
        loops  == IF first < 0 THEN 0 ELSE first \div (H - 3) + 1
        Step(r) ==
            LET q == Shr(Q64(r) + 2^(H - 1), H)
                d == (Shl(W, r, H - 3) - MulMod(W, q, B)) % 2^W
            IN  IF d >= 2^(W - 1) THEN (d + B) % 2^W ELSE d
        R[i \in 0..loops] == IF i = 0 THEN sigA * 2^(g - 1) ELSE Step(R[i - 1])
        last == first - loops * (H - 3)
        r    == R[loops]
        q    == Shr(Shr(Q64(r), H), -last - 1)
        rem  == (Shl(W, r, last + H - 2) - MulMod(W, q, B)) % 2^W
    IN  Rem(F, a, b,
            CASE expDiff < -1 \/ expUI(F, a) < expUI(F, b) - 1 -> Ret(a)
              [] expDiff \in {-1, 0} ->
                   NearRem(F, signUI(F, a), expB, sigA, sigB, expDiff)
              [] OTHER ->
                   IF rem >= 2^(W - 1)
                     THEN SelectRem(F, signUI(F, a), expB, rem, (rem + B) % 2^W, q)
                     ELSE SubtractB(F, signUI(F, a), expB, rem, B, q))

----------------------------------------------------------------------------
(* Round to integral value, comparison and classification. *)

RoundToInt(F, a, roundingMode, exact) ==
    LET exp  == expUI(F, a)
        last == 2^(Bias(F) + F.m - exp)          \* lastBitMask
        up   == CASE roundingMode \in {"near_even", "near_maxMag"} ->
                       a + last \div 2
                  [] roundingMode = (IF signUI(F, a) = 1 THEN "min" ELSE "max") ->
                       a + last - 1
                  [] OTHER -> a
        tied == IF roundingMode = "near_even" /\ up % last = 0
                  THEN up - (IF Shr(up, Bias(F) + F.m - exp) % 2 = 1 THEN last ELSE 0)
                  ELSE up
        z    == tied - (tied % last)
        one(sign) == packToUI(F, sign, Bias(F), 0)
        small == CASE roundingMode = "near_even" /\ fracUI(F, a) = 0 ->
                        packToUI(F, signUI(F, a), 0, 0)
                   [] roundingMode \in {"near_even", "near_maxMag"}
                        /\ ~(roundingMode = "near_even" /\ fracUI(F, a) = 0) ->
                        packToUI(F, signUI(F, a),
                                 IF exp = Bias(F) - 1 THEN Bias(F) ELSE 0, 0)
                   [] roundingMode = "min" /\ signUI(F, a) = 1 -> one(1)
                   [] roundingMode = "max" /\ signUI(F, a) = 0 -> one(0)
                   [] OTHER -> packToUI(F, signUI(F, a), 0, 0)
    IN  CASE exp <= Bias(F) - 1 ->
               IF IsZero(F, a) THEN Ret(a)
               ELSE Raise(small, IF exact THEN {"inexact"} ELSE {})
          [] Bias(F) + F.m <= exp ->
               IF isNaNUI(F, a) THEN PropagateNaN(F, a, 0) ELSE Ret(a)
          [] OTHER -> Raise(z, IF exact /\ z # a THEN {"inexact"} ELSE {})
f32_roundToInt(a, roundingMode, exact) == RoundToInt(F32, a, roundingMode, exact)
f64_roundToInt(a, roundingMode, exact) == RoundToInt(F64, a, roundingMode, exact)

\* A quiet comparison raises invalid for a signaling NaN only, a signaling one
\* for every NaN.
Compare(F, a, b, quiet, ordered) ==
    IF isNaNUI(F, a) \/ isNaNUI(F, b)
      THEN Raise(FALSE, IF quiet THEN PropagateNaN(F, a, b).fl ELSE {"invalid"})
      ELSE Ret(ordered)
BothZero(F, a, b) == IsZero(F, a) /\ IsZero(F, b)
Eq(F, a, b) == a = b \/ BothZero(F, a, b)
Le(F, a, b) == IF signUI(F, a) # signUI(F, b)
                 THEN signUI(F, a) = 1 \/ BothZero(F, a, b)
                 ELSE a = b \/ ((signUI(F, a) = 1) # (a < b))
Lt(F, a, b) == IF signUI(F, a) # signUI(F, b)
                 THEN signUI(F, a) = 1 /\ ~BothZero(F, a, b)
                 ELSE a # b /\ ((signUI(F, a) = 1) # (a < b))
f32_eq(a, b) == Compare(F32, a, b, TRUE, Eq(F32, a, b))
f64_eq(a, b) == Compare(F64, a, b, TRUE, Eq(F64, a, b))
f32_eq_signaling(a, b) == Compare(F32, a, b, FALSE, Eq(F32, a, b))
f64_eq_signaling(a, b) == Compare(F64, a, b, FALSE, Eq(F64, a, b))
f32_le(a, b) == Compare(F32, a, b, FALSE, Le(F32, a, b))
f64_le(a, b) == Compare(F64, a, b, FALSE, Le(F64, a, b))
f32_le_quiet(a, b) == Compare(F32, a, b, TRUE, Le(F32, a, b))
f64_le_quiet(a, b) == Compare(F64, a, b, TRUE, Le(F64, a, b))
f32_lt(a, b) == Compare(F32, a, b, FALSE, Lt(F32, a, b))
f64_lt(a, b) == Compare(F64, a, b, FALSE, Lt(F64, a, b))
f32_lt_quiet(a, b) == Compare(F32, a, b, TRUE, Lt(F32, a, b))
f64_lt_quiet(a, b) == Compare(F64, a, b, TRUE, Lt(F64, a, b))
f32_isSignalingNaN(a) == isSigNaNUI(F32, a)
f64_isSignalingNaN(a) == isSigNaNUI(F64, a)

\* The class as the set of bits set in the mask.
Classify(F, a) ==
    LET sign == signUI(F, a) = 1
        infOrNaN == expUI(F, a) = ExpMax(F)
        subnormalOrZero == expUI(F, a) = 0
        frac == fracUI(F, a) # 0
        bit  == [n \in 0..9 |->
            CASE n = 0 -> sign /\ infOrNaN /\ ~frac
              [] n = 1 -> sign /\ ~infOrNaN /\ ~subnormalOrZero
              [] n = 2 -> sign /\ subnormalOrZero /\ frac
              [] n = 3 -> sign /\ subnormalOrZero /\ ~frac
              [] n = 7 -> ~sign /\ infOrNaN /\ ~frac
              [] n = 6 -> ~sign /\ ~infOrNaN /\ ~subnormalOrZero
              [] n = 5 -> ~sign /\ subnormalOrZero /\ frac
              [] n = 4 -> ~sign /\ subnormalOrZero /\ ~frac
              [] n = 8 -> isNaNUI(F, a) /\ isSigNaNUI(F, a)
              [] n = 9 -> isNaNUI(F, a) /\ ~isSigNaNUI(F, a)]
    IN  {n \in 0..9 : bit[n]}
f32_classify(a) == Classify(F32, a)
f64_classify(a) == Classify(F64, a)
=============================================================================
