----------------------------- MODULE SfConvert ------------------------------
(***************************************************************************)
(* SoftFloat's conversions between the two formats and the four integer    *)
(* types.  An "i32" has the width of the F32 word, an "i64" that of the    *)
(* F64 word; signed results are integers, not words.                       *)
(***************************************************************************)
EXTENDS SoftFloat

I32Bits == Width(F32)
I64Bits == Width(F64)

\* specialize.h: what an invalid conversion returns.
FromPosOverflow(bits, signed) == IF signed THEN 2^(bits - 1) - 1 ELSE 2^bits - 1
FromNegOverflow(bits, signed) == IF signed THEN -(2^(bits - 1)) ELSE 0
FromOverflow(bits, signed, sign) ==
    Raise(IF sign = 1 THEN FromNegOverflow(bits, signed)
          ELSE FromPosOverflow(bits, signed), {"invalid"})
\* fromNaN is fromPosOverflow for each of the four types.
FromInvalid(F, a, bits, signed) ==
    FromOverflow(bits, signed, IF isNaNUI(F, a) THEN 0 ELSE signUI(F, a))
Inexact(exact, lost) == IF exact /\ lost THEN {"inexact"} ELSE {}

\* The word x read as two's complement.
AsSigned(bits, x) == IF x >= 2^(bits - 1) THEN x - 2^bits ELSE x
Signed(bits, sign, sig) ==
    AsSigned(bits, (IF sign = 1 THEN -sig ELSE sig) % 2^bits)

----------------------------------------------------------------------------
(* Rounding a significand to an integer. *)

\* sig has RoundBits bits below the unit.
RoundedWord(sign, sig, rm) ==
    TieToEven(rm, Shr(sig + RoundIncrement(rm, sign, RoundBits), RoundBits),
              sig % 2^RoundBits, RoundBits)
TooLarge(sign, sig, rm) ==
    sig + RoundIncrement(rm, sign, RoundBits) >= 2^(I32Bits + RoundBits)

softfloat_roundPackToI32(sign, sig, rm, exact) ==
    LET z == Signed(I32Bits, sign, RoundedWord(sign, sig, rm))
    IN  IF TooLarge(sign, sig, rm) \/ (z # 0 /\ (z < 0) # (sign = 1))
          THEN FromOverflow(I32Bits, TRUE, sign)
          ELSE Raise(z, Inexact(exact, sig % 2^RoundBits # 0))

softfloat_roundPackToUI32(sign, sig, rm, exact) ==
    LET z == RoundedWord(sign, sig, rm)
    IN  IF TooLarge(sign, sig, rm) \/ (sign = 1 /\ z # 0)
          THEN FromOverflow(I32Bits, FALSE, sign)
          ELSE Raise(z, Inexact(exact, sig % 2^RoundBits # 0))

\* sigExtra is the fraction, a whole word of it.
DoIncrement(sign, sigExtra, rm) ==
    CASE rm \in {"near_even", "near_maxMag"} -> 2^(I64Bits - 1) <= sigExtra
      [] rm = (IF sign = 1 THEN "min" ELSE "max") -> sigExtra # 0
      [] OTHER -> FALSE
Incremented(sign, sig, sigExtra, rm) ==
    IF ~DoIncrement(sign, sigExtra, rm) THEN sig
    ELSE IF rm = "near_even" /\ sigExtra % 2^(I64Bits - 1) = 0
      THEN (sig + 1) - ((sig + 1) % 2) ELSE sig + 1
Wraps(sign, sig, sigExtra, rm) ==
    DoIncrement(sign, sigExtra, rm) /\ sig + 1 = 2^I64Bits

softfloat_roundPackToI64(sign, sig, sigExtra, rm, exact) ==
    LET z == Signed(I64Bits, sign, Incremented(sign, sig, sigExtra, rm))
    IN  IF Wraps(sign, sig, sigExtra, rm) \/ (z # 0 /\ (z < 0) # (sign = 1))
          THEN FromOverflow(I64Bits, TRUE, sign)
          ELSE Raise(z, Inexact(exact, sigExtra # 0))

softfloat_roundPackToUI64(sign, sig, sigExtra, rm, exact) ==
    LET z == Incremented(sign, sig, sigExtra, rm)
    IN  IF Wraps(sign, sig, sigExtra, rm) \/ (sign = 1 /\ z # 0)
          THEN FromOverflow(I64Bits, FALSE, sign)
          ELSE Raise(z, Inexact(exact, sigExtra # 0))

----------------------------------------------------------------------------
(* Floating point to integer. *)

\* The significand with its hidden bit, a subnormal one as it is.
Sig(F, a) == fracUI(F, a) + (IF expUI(F, a) # 0 THEN HiddenBit(F) ELSE 0)
SignOrNaN(F, a) == IF isNaNUI(F, a) THEN 0 ELSE signUI(F, a)
JamRight(sig, dist) ==
    IF 0 < dist THEN softfloat_shiftRightJam(I64Bits, sig, dist) ELSE sig

\* Aligned so that RoundBits bits stand below the unit; no left shift, a
\* number too large for one overflows anyway.
Aligned32(a) == JamRight(Sig(F32, a) * 2^I32Bits,
                    Bias(F32) + F32.m + I32Bits - RoundBits - expUI(F32, a))
Aligned64(a) == JamRight(Sig(F64, a),
                    Bias(F64) + F64.m - RoundBits - expUI(F64, a))

f32_to_i32(a, rm, exact) ==
    softfloat_roundPackToI32(SignOrNaN(F32, a), Aligned32(a), rm, exact)
f32_to_ui32(a, rm, exact) ==
    softfloat_roundPackToUI32(SignOrNaN(F32, a), Aligned32(a), rm, exact)
f64_to_i32(a, rm, exact) ==
    softfloat_roundPackToI32(SignOrNaN(F64, a), Aligned64(a), rm, exact)
f64_to_ui32(a, rm, exact) ==
    softfloat_roundPackToUI32(SignOrNaN(F64, a), Aligned64(a), rm, exact)

\* Unit in the lowest bit of the word, the fraction in a second word.
Extra32(a) ==
    LET sig64 == Sig(F32, a) * 2^(I64Bits - 1 - F32.m)
        dist  == Bias(F32) + I64Bits - 1 - expUI(F32, a)
    IN  IF dist = 0 THEN [v |-> sig64, extra |-> 0]
        ELSE softfloat_shiftRightJam64Extra(I64Bits, sig64, 0, dist)
Beyond32(a) == Bias(F32) + I64Bits - 1 - expUI(F32, a) < 0
f32_to_i64(a, rm, exact) ==
    IF Beyond32(a) THEN FromInvalid(F32, a, I64Bits, TRUE)
    ELSE softfloat_roundPackToI64(signUI(F32, a), Extra32(a).v,
                                  Extra32(a).extra, rm, exact)
f32_to_ui64(a, rm, exact) ==
    IF Beyond32(a) THEN FromInvalid(F32, a, I64Bits, FALSE)
    ELSE softfloat_roundPackToUI64(signUI(F32, a), Extra32(a).v,
                                   Extra32(a).extra, rm, exact)

Dist64(a) == Bias(F64) + F64.m - expUI(F64, a)
Extra64(a) ==
    IF Dist64(a) <= 0
      THEN [v |-> Shl(I64Bits, Sig(F64, a), -Dist64(a)), extra |-> 0]
      ELSE softfloat_shiftRightJam64Extra(I64Bits, Sig(F64, a), 0, Dist64(a))
f64_to_i64(a, rm, exact) ==
    IF Dist64(a) < -F64.e THEN FromInvalid(F64, a, I64Bits, TRUE)
    ELSE softfloat_roundPackToI64(signUI(F64, a), Extra64(a).v,
                                  Extra64(a).extra, rm, exact)
f64_to_ui64(a, rm, exact) ==
    IF Dist64(a) < -F64.e THEN FromInvalid(F64, a, I64Bits, FALSE)
    ELSE softfloat_roundPackToUI64(signUI(F64, a), Extra64(a).v,
                                   Extra64(a).extra, rm, exact)

----------------------------------------------------------------------------
(* Floating point to integer, toward zero. *)

Vanishes(F, a, exact) == Raise(0, Inexact(exact, ~IsZero(F, a)))
\* sig>>dist with the sign, and inexact when bits are lost.
Truncated(sign, sig, dist, exact) ==
    Raise((IF sign = 1 THEN -1 ELSE 1) * Shr(sig, dist),
          Inexact(exact, sig % 2^dist # 0))

f32_to_i32_r_minMag(a, exact) ==
    LET dist == Bias(F32) + I32Bits - 1 - expUI(F32, a)
    IN  CASE I32Bits <= dist -> Vanishes(F32, a, exact)
          [] dist <= 0 ->
               IF a = packToUI(F32, 1, Bias(F32) + I32Bits - 1, 0)
                 THEN Ret(-(2^(I32Bits - 1)))
                 ELSE FromInvalid(F32, a, I32Bits, TRUE)
          [] OTHER -> Truncated(signUI(F32, a), Sig(F32, a) * 2^F32.e, dist, exact)
f32_to_ui32_r_minMag(a, exact) ==
    LET dist == Bias(F32) + I32Bits - 1 - expUI(F32, a)
    IN  CASE I32Bits <= dist -> Vanishes(F32, a, exact)
          [] dist < I32Bits /\ (signUI(F32, a) = 1 \/ dist < 0) ->
               FromInvalid(F32, a, I32Bits, FALSE)
          [] OTHER -> Truncated(0, Sig(F32, a) * 2^F32.e, dist, exact)
f64_to_i32_r_minMag(a, exact) ==
    CASE F64.m + 1 <= Dist64(a) -> Vanishes(F64, a, exact)
      [] Dist64(a) < F64.m + 2 - I32Bits ->
           IF /\ signUI(F64, a) = 1
              /\ expUI(F64, a) = Bias(F64) + I32Bits - 1
              /\ fracUI(F64, a) < 2^(F64.m + 1 - I32Bits)
             THEN Raise(-(2^(I32Bits - 1)), Inexact(exact, fracUI(F64, a) # 0))
             ELSE FromInvalid(F64, a, I32Bits, TRUE)
      [] OTHER -> Truncated(signUI(F64, a), Sig(F64, a), Dist64(a), exact)
f64_to_ui32_r_minMag(a, exact) ==
    CASE F64.m + 1 <= Dist64(a) -> Vanishes(F64, a, exact)
      [] Dist64(a) < F64.m + 1
           /\ (signUI(F64, a) = 1 \/ Dist64(a) < F64.m + 1 - I32Bits) ->
           FromInvalid(F64, a, I32Bits, FALSE)
      [] OTHER -> Truncated(0, Sig(F64, a), Dist64(a), exact)

f32_to_i64_r_minMag(a, exact) ==
    LET dist == Bias(F32) + I64Bits - 1 - expUI(F32, a)
    IN  CASE I64Bits <= dist -> Vanishes(F32, a, exact)
          [] dist <= 0 ->
               IF a = packToUI(F32, 1, Bias(F32) + I64Bits - 1, 0)
                 THEN Ret(-(2^(I64Bits - 1)))
                 ELSE FromInvalid(F32, a, I64Bits, TRUE)
          [] OTHER -> Truncated(signUI(F32, a),
                        Sig(F32, a) * 2^(I64Bits - 1 - F32.m), dist, exact)
f32_to_ui64_r_minMag(a, exact) ==
    LET dist == Bias(F32) + I64Bits - 1 - expUI(F32, a)
    IN  CASE I64Bits <= dist -> Vanishes(F32, a, exact)
          [] dist < I64Bits /\ (signUI(F32, a) = 1 \/ dist < 0) ->
               FromInvalid(F32, a, I64Bits, FALSE)
          [] OTHER -> Truncated(0, Sig(F32, a) * 2^(I64Bits - 1 - F32.m),
                                dist, exact)
f64_to_i64_r_minMag(a, exact) ==
    LET s == IF signUI(F64, a) = 1 THEN -1 ELSE 1
    IN  CASE Dist64(a) < -(F64.e - 1) ->
               IF a = packToUI(F64, 1, Bias(F64) + I64Bits - 1, 0)
                 THEN Ret(-(2^(I64Bits - 1)))
                 ELSE FromInvalid(F64, a, I64Bits, TRUE)
          [] Dist64(a) <= 0 /\ Dist64(a) >= -(F64.e - 1) ->
               Ret(s * (Sig(F64, a) * 2^(-Dist64(a))))
          [] F64.m + 1 <= Dist64(a) -> Vanishes(F64, a, exact)
          [] OTHER -> Truncated(signUI(F64, a), Sig(F64, a), Dist64(a), exact)
f64_to_ui64_r_minMag(a, exact) ==
    CASE F64.m + 1 <= Dist64(a) -> Vanishes(F64, a, exact)
      [] Dist64(a) < F64.m + 1
           /\ (signUI(F64, a) = 1 \/ Dist64(a) < -F64.e) ->
           FromInvalid(F64, a, I64Bits, FALSE)
      [] OTHER -> IF Dist64(a) <= 0 THEN Ret(Sig(F64, a) * 2^(-Dist64(a)))
                  ELSE Truncated(0, Sig(F64, a), Dist64(a), exact)

----------------------------------------------------------------------------
(* Integer to floating point. *)

Abs(a) == IF a < 0 THEN -a ELSE a
i32_to_f32(a) ==
    IF a \in {0, -(2^(I32Bits - 1))}
      THEN Ret(IF a < 0 THEN packToUI(F32, 1, Bias(F32) + I32Bits - 1, 0) ELSE 0)
      ELSE softfloat_normRoundPackToF32(Bool(a < 0), Bias(F32) + I32Bits - 3, Abs(a))
i64_to_f64(a) ==
    IF a \in {0, -(2^(I64Bits - 1))}
      THEN Ret(IF a < 0 THEN packToUI(F64, 1, Bias(F64) + I64Bits - 1, 0) ELSE 0)
      ELSE softfloat_normRoundPackToF64(Bool(a < 0), Bias(F64) + I64Bits - 3, Abs(a))
Ui32ToF32NoSticky(a) ==
    CASE a = 0 -> Ret(0)
      [] a >= 2^(I32Bits - 1) ->
           softfloat_roundPackToF32(0, Bias(F32) + I32Bits - 2, Shr(a, 1))
      [] OTHER -> softfloat_normRoundPackToF32(0, Bias(F32) + I32Bits - 3, a)
ui32_to_f32(a) ==
    CASE a = 0 -> Ret(0)
      [] a >= 2^(I32Bits - 1) ->
           softfloat_roundPackToF32(0, Bias(F32) + I32Bits - 2,
                                    Jam(Shr(a, 1), a % 2 = 1))
      [] OTHER -> softfloat_normRoundPackToF32(0, Bias(F32) + I32Bits - 3, a)
ui64_to_f64(a) ==
    CASE a = 0 -> Ret(0)
      [] a >= 2^(I64Bits - 1) ->
           softfloat_roundPackToF64(0, Bias(F64) + I64Bits - 2,
               softfloat_shortShiftRightJam64(I64Bits, a, 1))
      [] OTHER -> softfloat_normRoundPackToF64(0, Bias(F64) + I64Bits - 3, a)

\* Every 32-bit integer is a binary64 value: no rounding.
Exact64(sign, absA) ==
    LET n == softfloat_countLeadingZeros(I32Bits, absA) + F64.m + 1 - I32Bits
    IN  Ret(packToUI(F64, sign, Bias(F64) + F64.m - 1 - n, absA * 2^n))
i32_to_f64(a) == IF a = 0 THEN Ret(0) ELSE Exact64(Bool(a < 0), Abs(a))
ui32_to_f64(a) == IF a = 0 THEN Ret(0) ELSE Exact64(0, a)

\* Exact when the integer has no more bits than the significand.
Narrow32(sign, absA) ==
    LET n == softfloat_countLeadingZeros(I64Bits, absA) - (I64Bits - F32.m - 1)
        k == n + Guard(F32)
    IN  CASE absA = 0 -> Ret(0)
          [] absA # 0 /\ 0 <= n ->
               Ret(packToUI(F32, sign, Bias(F32) + F32.m - 1 - n, absA * 2^n))
          [] OTHER ->
               softfloat_roundPackToF32(sign, Bias(F32) + I32Bits - 3 - k,
                   IF k < 0 THEN softfloat_shortShiftRightJam64(I64Bits, absA, -k)
                   ELSE absA * 2^k)
i64_to_f32(a) == Narrow32(Bool(a < 0), Abs(a))
ui64_to_f32(a) == Narrow32(0, a)

----------------------------------------------------------------------------
(* Between the formats. *)

\* Through the "common NaN", which is empty: only the invalid flag survives.
CommonNaN(F, G, a) ==
    Raise(defaultNaNUI(G),
          IF fracUI(F, a) < 2^(F.m - 1) THEN {"invalid"} ELSE {})

f32_to_f64(a) ==
    LET sign == signUI(F32, a)
        norm == softfloat_normSubnormalF32Sig(fracUI(F32, a))
        Widened(exp, sig) == Ret(packToUI(F64, sign, exp + Bias(F64) - Bias(F32),
                                          sig * 2^(F64.m - F32.m)))
    IN  CASE isNaNUI(F32, a) -> CommonNaN(F32, F64, a)
          [] IsInf(F32, a) -> Inf(F64, sign)
          [] IsZero(F32, a) -> Zero(F64, sign)
          [] OTHER -> IF expUI(F32, a) = 0 THEN Widened(norm.exp - 1, norm.sig)
                      ELSE Widened(expUI(F32, a), fracUI(F32, a))

f64_to_f32(a) ==
    LET sign  == signUI(F64, a)
        sig32 == softfloat_shortShiftRightJam64(I64Bits, fracUI(F64, a),
                                                F64.m - (I32Bits - 2))
    IN  CASE isNaNUI(F64, a) -> CommonNaN(F64, F32, a)
          [] IsInf(F64, a) -> Inf(F32, sign)
          [] IsZero(F64, a) -> Zero(F32, sign)
          [] OTHER -> softfloat_roundPackToF32(sign,
                        expUI(F64, a) - (Bias(F64) - Bias(F32) + 1),
                        sig32 + 2^(I32Bits - 2))
=============================================================================
