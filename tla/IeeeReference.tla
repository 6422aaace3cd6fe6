--------------------------- MODULE IeeeReference ----------------------------
(***************************************************************************)
(* What IEEE 754 asks of an operation on a binary format [e, m]: the exact *)
(* value of the result, rounded once.  Nothing here follows SoftFloat's    *)
(* code: values are exact numbers n * 2^k, the digits of quotients and     *)
(* roots come from schoolbook recurrences that keep the remainder.         *)
(***************************************************************************)
EXTENDS Integers

Max2(a, b) == IF a < b THEN b ELSE a
Digits(n) ==      \* of n < 2^31
    IF n >= 2^30 THEN 31
    ELSE CHOOSE k \in 0..30 : n < 2^k /\ (k = 0 \/ 2^(k - 1) <= n)

ExpBias(F) == 2^(F.e - 1) - 1
SignOf(F, a) == a \div 2^(F.e + F.m)
ExpOf(F, a) == (a \div 2^F.m) % 2^F.e
FracOf(F, a) == a % 2^F.m
NaN(F, a) == ExpOf(F, a) = 2^F.e - 1 /\ FracOf(F, a) # 0
SNaN(F, a) == NaN(F, a) /\ FracOf(F, a) < 2^(F.m - 1)
Infinite(F, a) == ExpOf(F, a) = 2^F.e - 1 /\ FracOf(F, a) = 0
IsFinite(F, a) == ExpOf(F, a) # 2^F.e - 1

\* A finite operand as the number (-1)^s * n * 2^k.
Num(s, n, k) == [s |-> s, n |-> n, k |-> k]
Number(F, a) ==
    Num(SignOf(F, a),
        FracOf(F, a) + (IF ExpOf(F, a) = 0 THEN 0 ELSE 2^F.m),
        Max2(ExpOf(F, a), 1) - ExpBias(F) - F.m)
Pack(F, s, rest) == s * 2^(F.e + F.m) + rest
InfUI(F, s) == Pack(F, s, (2^F.e - 1) * 2^F.m)
CanonicalNaN(F) == (2^F.e - 1) * 2^F.m + 2^(F.m - 1)
Out(v, fl) == [v |-> v, fl |-> fl]

\* n * 2^k cut at the place 2^q: the digits above it, and how what is cut off
\* compares with half a unit of that place (0, below, 1/2, above).
CutAt(n, k, q) ==
    LET d == q - k
    IN  IF n = 0 THEN [n |-> 0, r |-> "zero"]
        ELSE IF d <= 0 THEN [n |-> n * 2^(-d), r |-> "zero"]
        ELSE IF d > 30 THEN [n |-> 0, r |-> "below"]
        ELSE [n |-> n \div 2^d,
              r |-> LET low == n % 2^d
                        half == 2^(d - 1)
                    IN  CASE low = 0 -> "zero"
                          [] 0 < low /\ low < half -> "below"
                          [] low = half -> "half"
                          [] OTHER -> "above"]
RoundCut(rm, s, c) ==
    c.n + (IF \/ rm = "near_even" /\ (c.r = "above" \/ (c.r = "half" /\ c.n % 2 = 1))
              \/ rm = "near_maxMag" /\ c.r \in {"half", "above"}
              \/ rm = "min" /\ s = 1 /\ c.r # "zero"
              \/ rm = "max" /\ s = 0 /\ c.r # "zero"
             THEN 1 ELSE 0)

\* A nonzero number rounded to the format, with the flags; tiny means tiny
\* after rounding with an unbounded exponent.
RoundsToInf(rm, s) == \/ rm \in {"near_even", "near_maxMag"}
                      \/ rm = (IF s = 1 THEN "min" ELSE "max")
FromCut(F, rm, s, c, q, tiny) ==
    LET bits == (q + F.m + ExpBias(F) - 1) * 2^F.m + RoundCut(rm, s, c)
    IN  IF bits >= InfUI(F, 0)
          THEN Out(InfUI(F, s) - (IF RoundsToInf(rm, s) THEN 0 ELSE 1),
                   {"overflow", "inexact"})
          ELSE Out(Pack(F, s, bits),
                   (IF c.r # "zero" THEN {"inexact"} ELSE {})
                     \cup (IF c.r # "zero" /\ tiny THEN {"underflow"} ELSE {}))
RoundedAt(F, rm, x, top, q) ==
    FromCut(F, rm, x.s, CutAt(x.n, x.k, q), q,
            /\ top < 1 - ExpBias(F)
            /\ ~(/\ top = -ExpBias(F)
                 /\ RoundCut(rm, x.s, CutAt(x.n, x.k, top - F.m)) = 2^(F.m + 1)))
Rounded(F, rm, x) ==
    LET top == Digits(x.n) + x.k - 1
    IN  RoundedAt(F, rm, x, top, Max2(top, 1 - ExpBias(F)) - F.m)

NaNResult(F, args) ==
    Out(CanonicalNaN(F), IF \E i \in DOMAIN args : SNaN(F, args[i])
                           THEN {"invalid"} ELSE {})
AnyNaN(F, args) == \E i \in DOMAIN args : NaN(F, args[i])
InvalidResult(F) == Out(CanonicalNaN(F), {"invalid"})

\* The sum of two numbers.  A term so far below the other that it cannot be
\* aligned in the integers at hand is replaced by one that rounds alike.
SignedValue(s, n) == IF s = 1 THEN -n ELSE n
FromValue(t, k) == Num(IF t < 0 THEN 1 ELSE 0, IF t < 0 THEN -t ELSE t, k)
StickyOdd(c) == c.n + (IF c.r # "zero" /\ c.n % 2 = 0 THEN 1 ELSE 0)
AddAt(k, hi, lo) ==
    FromValue(SignedValue(hi.s, hi.n * 2^(hi.k - k))
                + SignedValue(lo.s, StickyOdd(CutAt(lo.n, lo.k, k))), k)
AddOrdered(hi, lo) ==
    CASE lo.n = 0 -> hi
      [] lo.n # 0 /\ hi.n = 0 -> lo
      [] OTHER -> AddAt(Max2(lo.k, hi.k - (30 - Digits(hi.n))), hi, lo)
Sum(x, y) == AddOrdered(IF x.k >= y.k THEN x ELSE y, IF x.k >= y.k THEN y ELSE x)

\* A sum that is exactly zero: the sign both terms have, or the mode's.
SumOrZero(F, rm, z, zeroSign) ==
    IF z.n # 0 THEN Rounded(F, rm, z) ELSE Out(Pack(F, zeroSign, 0), {})
SumResult(F, rm, x, y) ==
    SumOrZero(F, rm, Sum(x, y), IF x.s = y.s THEN x.s
                                ELSE IF rm = "min" THEN 1 ELSE 0)

Product(x, y) == Num((x.s + y.s) % 2, x.n * y.n, x.k + y.k)
Negated(F, a) == (a + 2^(F.e + F.m)) % 2^(1 + F.e + F.m)

RefAdd(F, rm, a, b) ==
    CASE AnyNaN(F, <<a, b>>) -> NaNResult(F, <<a, b>>)
      [] ~AnyNaN(F, <<a, b>>) /\ Infinite(F, a) ->
           IF Infinite(F, b) /\ a # b THEN InvalidResult(F) ELSE Out(a, {})
      [] IsFinite(F, a) /\ Infinite(F, b) -> Out(b, {})
      [] OTHER -> SumResult(F, rm, Number(F, a), Number(F, b))
RefSub(F, rm, a, b) ==
    IF NaN(F, b) THEN NaNResult(F, <<a, b>>) ELSE RefAdd(F, rm, a, Negated(F, b))

RefMulAdd(F, rm, a, b, c) ==
    LET inf  == Infinite(F, a) \/ Infinite(F, b)
        zero == Number(F, a).n = 0 \/ Number(F, b).n = 0
        s    == (SignOf(F, a) + SignOf(F, b)) % 2
        bad  == (Infinite(F, a) /\ IsFinite(F, b) /\ Number(F, b).n = 0)
                  \/ (Infinite(F, b) /\ IsFinite(F, a) /\ Number(F, a).n = 0)
    IN  CASE AnyNaN(F, <<a, b, c>>) ->
               IF bad THEN InvalidResult(F) ELSE NaNResult(F, <<a, b, c>>)
          [] ~AnyNaN(F, <<a, b, c>>) /\ inf ->
               IF bad \/ (Infinite(F, c) /\ SignOf(F, c) # s) THEN InvalidResult(F)
               ELSE Out(InfUI(F, s), {})
          [] ~AnyNaN(F, <<a, b, c>>) /\ ~inf /\ Infinite(F, c) -> Out(c, {})
          [] OTHER -> SumResult(F, rm, Product(Number(F, a), Number(F, b)),
                                Number(F, c))

RefMul(F, rm, a, b) ==
    LET s == (SignOf(F, a) + SignOf(F, b)) % 2
        x == Product(Number(F, a), Number(F, b))
    IN  CASE AnyNaN(F, <<a, b>>) -> NaNResult(F, <<a, b>>)
          [] ~AnyNaN(F, <<a, b>>) /\ (Infinite(F, a) \/ Infinite(F, b)) ->
               IF \E y \in {a, b} : IsFinite(F, y) /\ Number(F, y).n = 0
                 THEN InvalidResult(F) ELSE Out(InfUI(F, s), {})
          [] OTHER -> IF x.n = 0 THEN Out(Pack(F, s, 0), {}) ELSE Rounded(F, rm, x)

\* Scaled so that n has exactly m + 1 digits.
Normal(F, x) == LET d == F.m + 1 - Digits(x.n) IN Num(x.s, x.n * 2^d, x.k - d)

\* m + 4 binary digits of the quotient, then a digit for a nonzero remainder.
Quotient(F, x, y) ==
    LET L == F.m + 4
        D[i \in 0..L] ==      \* quotient so far and remainder
            IF i = 0 THEN <<x.n \div y.n, x.n % y.n>>
            ELSE LET d == D[i - 1]
                     r == 2 * d[2]
                 IN  <<2 * d[1] + r \div y.n, r % y.n>>
        q == D[L]
    IN  Num((x.s + y.s) % 2, 2 * q[1] + (IF q[2] # 0 THEN 1 ELSE 0),
            x.k - y.k - L - 1)
RefDiv(F, rm, a, b) ==
    LET s == (SignOf(F, a) + SignOf(F, b)) % 2
        x == Number(F, a)    y == Number(F, b)
    IN  CASE AnyNaN(F, <<a, b>>) -> NaNResult(F, <<a, b>>)
          [] ~AnyNaN(F, <<a, b>>) /\ Infinite(F, a) ->
               IF Infinite(F, b) THEN InvalidResult(F) ELSE Out(InfUI(F, s), {})
          [] IsFinite(F, a) /\ Infinite(F, b) -> Out(Pack(F, s, 0), {})
          [] OTHER ->
               CASE y.n = 0 /\ x.n = 0 -> InvalidResult(F)
                 [] y.n = 0 /\ x.n # 0 -> Out(InfUI(F, s), {"infinite"})
                 [] y.n # 0 /\ x.n = 0 -> Out(Pack(F, s, 0), {})
                 [] OTHER -> Rounded(F, rm, Quotient(F, Normal(F, x), Normal(F, y)))

\* Digit by digit, two digits of the radicand n * 2^(2 * L) at a time.
Root(F, x) ==
    LET y == IF x.k % 2 = 0 THEN x ELSE Num(x.s, 2 * x.n, x.k - 1)
        w == (F.m + 3) \div 2           \* pairs of digits of y.n
        L == F.m + 4                    \* digits of the root
        S[i \in 0..L] ==
            IF i = 0 THEN <<0, 0>>
            ELSE LET pair == IF i <= w THEN (y.n \div 4^(w - i)) % 4 ELSE 0
                     s    == S[i - 1]
                     rem  == 4 * s[2] + pair
                     try  == 4 * s[1] + 1
                 IN  IF try <= rem THEN <<2 * s[1] + 1, rem - try>>
                     ELSE <<2 * s[1], rem>>
        q == S[L]
        z == Num(0, q[1], y.k \div 2 - (L - w))
    IN  IF q[2] = 0 THEN z ELSE Num(0, 2 * z.n + 1, z.k - 1)
RefSqrt(F, rm, a) ==
    CASE NaN(F, a) -> NaNResult(F, <<a>>)
      [] ~NaN(F, a) /\ SignOf(F, a) = 1 /\ a # Pack(F, 1, 0) -> InvalidResult(F)
      [] Infinite(F, a) /\ SignOf(F, a) = 0 -> Out(a, {})
      [] OTHER -> IF Number(F, a).n = 0 THEN Out(a, {})
                  ELSE Rounded(F, rm, Root(F, Normal(F, Number(F, a))))

\* x - n * y for the integer n nearest to x / y, ties to the even n: x is
\* reduced modulo 2 * y, then brought to the nearest multiple of y.
RefRem(F, a, b) ==
    LET x == Number(F, a)    y == Number(F, b)
        d == x.k - y.k
        unit == IF d < 0 THEN x.k ELSE y.k      \* everything in units of 2^unit
        yn == IF d < 0 THEN y.n * 2^(-d) ELSE y.n
        M[i \in 0..Max2(d, 0)] ==
            IF i = 0 THEN x.n % (2 * yn) ELSE (2 * M[i - 1]) % (2 * yn)
        r == M[Max2(d, 0)]
        near == CASE 2 * r <= yn -> r
                  [] 2 * r > yn /\ 2 * r < 3 * yn -> r - yn
                  [] OTHER -> r - 2 * yn
        z == IF near = 0 THEN Num(x.s, 0, 0)
             ELSE Num(IF near < 0 THEN 1 - x.s ELSE x.s,
                      IF near < 0 THEN -near ELSE near, unit)
    IN  CASE AnyNaN(F, <<a, b>>) -> NaNResult(F, <<a, b>>)
          [] ~AnyNaN(F, <<a, b>>)
               /\ (Infinite(F, a) \/ (IsFinite(F, b) /\ y.n = 0)) -> InvalidResult(F)
          [] IsFinite(F, a) /\ Infinite(F, b) -> Out(a, {})
          [] IsFinite(F, a) /\ IsFinite(F, b) /\ y.n # 0 /\ d < -3 ->
               Out(a, {})                       \* less than half of b
          [] OTHER -> IF z.n = 0 THEN Out(Pack(F, x.s, 0), {})
                      ELSE Rounded(F, "near_even", z)

\* The order of two numbers, and the comparisons: an unordered pair compares
\* false, with invalid for a signaling NaN, or for any NaN if not quiet.
Below(F, a, b) ==
    LET Negative(d) == d.n # 0 /\ d.s = 1
    IN  IF Infinite(F, a) \/ Infinite(F, b)
          THEN a # b /\ (a = InfUI(F, 1) \/ b = InfUI(F, 0))
          ELSE Negative(Sum(Number(F, a), [Number(F, b) EXCEPT !.s = 1 - @]))
RefCompare(F, a, b, quiet, rel) ==
    IF AnyNaN(F, <<a, b>>)
      THEN Out(FALSE, IF quiet THEN NaNResult(F, <<a, b>>).fl ELSE {"invalid"})
      ELSE Out(CASE rel = "lt" -> Below(F, a, b)
                 [] rel = "le" -> ~Below(F, b, a)
                 [] rel = "eq" -> ~Below(F, a, b) /\ ~Below(F, b, a), {})

\* The lesser (greater) operand, -0 below +0; a NaN only when both are.
RefMinMax(F, a, b, max) ==
    LET less == \/ Below(F, a, b)
                \/ ~Below(F, b, a) /\ SignOf(F, a) = 1
        v == CASE NaN(F, a) /\ NaN(F, b) -> CanonicalNaN(F)
               [] NaN(F, a) /\ ~NaN(F, b) -> b
               [] NaN(F, b) /\ ~NaN(F, a) -> a
               [] OTHER -> IF less # max THEN a ELSE b
    IN  Out(v, IF SNaN(F, a) \/ SNaN(F, b) THEN {"invalid"} ELSE {})

\* A number rounded to an integer of lo..hi.
RefToInt(F, rm, exact, a, lo, hi) ==
    LET x == Number(F, a)
        c == CutAt(x.n, x.k, 0)
        r == RoundCut(rm, x.s, c)
        z == IF x.s = 1 THEN -r ELSE r
        huge == Digits(x.n) + x.k > 25
        bad(s) == Out(IF s = 1 THEN lo ELSE hi, {"invalid"})
    IN  CASE NaN(F, a) -> bad(0)
          [] ~NaN(F, a) /\ (Infinite(F, a) \/ huge) -> bad(SignOf(F, a))
          [] OTHER -> IF z < lo \/ z > hi THEN bad(x.s)
                      ELSE Out(z, IF exact /\ c.r # "zero" THEN {"inexact"} ELSE {})
RefFromInt(F, rm, x) ==
    IF x = 0 THEN Out(0, {})
    ELSE Rounded(F, rm, Num(IF x < 0 THEN 1 ELSE 0, IF x < 0 THEN -x ELSE x, 0))

\* The integral value of the format next to a in the direction of rm.
RefIntegral(F, rm, exact, a) ==
    LET x == Number(F, a)
        c == CutAt(x.n, x.k, 0)
        r == RoundCut(rm, x.s, c)
    IN  CASE NaN(F, a) -> NaNResult(F, <<a>>)
          [] Infinite(F, a) -> Out(a, {})
          [] OTHER -> IF x.k >= 0 THEN Out(a, {})
                      ELSE Out(IF r = 0 THEN Pack(F, x.s, 0)
                               ELSE Rounded(F, rm, Num(x.s, r, 0)).v,
                               IF exact /\ c.r # "zero" THEN {"inexact"} ELSE {})

\* A value of the format F in the format G.
RefConvert(F, G, rm, a) ==
    CASE NaN(F, a) -> Out(CanonicalNaN(G), NaNResult(F, <<a>>).fl)
      [] Infinite(F, a) -> Out(InfUI(G, SignOf(F, a)), {})
      [] OTHER -> IF Number(F, a).n = 0 THEN Out(Pack(G, SignOf(F, a), 0), {})
                  ELSE Rounded(G, rm, Number(F, a))
=============================================================================
