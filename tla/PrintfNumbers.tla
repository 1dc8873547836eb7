--------------------------- MODULE PrintfNumbers ---------------------------
(***************************************************************************)
(* The number conversions of ext/printf (src/printf/printf.c): from a      *)
(* value, a width, a precision and a set of flags to the characters that   *)
(* go to the output gadget.  buf is the conversion's buffer on the stack:  *)
(* as in the code it holds the characters in reverse, and what does not    *)
(* fit is dropped.                                                         *)
(*                                                                         *)
(* A floating-point number is [kind, neg, num, den]: kind is "nan", "inf"  *)
(* or "num", and then the value is num / den, exactly.  The code computes  *)
(* with doubles; on numbers whose scaled values a double holds, or misses  *)
(* by less than their distance to a tie, the two agree.                    *)
(***************************************************************************)
EXTENDS Integers, Sequences, FiniteSetsExt, Powers

CONSTANTS
    IntegerBufferSize,   \* PRINTF_INTEGER_BUFFER_SIZE
    DecimalBufferSize,   \* PRINTF_DECIMAL_BUFFER_SIZE
    DefaultPrecision,    \* PRINTF_DEFAULT_FLOAT_PRECISION
    IntegralDigits,      \* PRINTF_MAX_INTEGRAL_DIGITS_FOR_DECIMAL
    SupportedPrecision,  \* PRINTF_MAX_SUPPORTED_PRECISION, the last index of powers_of_10
    MaxExp10             \* FP_TYPE_MAX_10_EXP

ASSUME SizesAssumption ==
    /\ {IntegerBufferSize, DecimalBufferSize} \subseteq Nat \ {0}
    /\ {DefaultPrecision, IntegralDigits, SupportedPrecision, MaxExp10} \subseteq Nat

Repeat(c, n) == [i \in 1..Max({n, 0}) |-> c]

Backwards(s) == [i \in 1..Len(s) |-> s[Len(s) + 1 - i]]

\* buf[len++] = ... for every character of s, while the buffer has room
Push(buf, s, size) == buf \o SubSeq(s, 1, Min({Len(s), size - Len(buf)}))

\* buf[len++] = c while len is below n and the buffer has room
PadTo(buf, c, n, size) == buf \o Repeat(c, Min({n, size}) - Len(buf))

\* out_rev_: spaces on one side, none at all on the left under '0'.
OutRev(buf, width, flags) ==
    LET spaces == Repeat(" ", width - Len(buf))
    IN  (IF flags \cap {"LEFT", "ZEROPAD"} = {} THEN spaces ELSE <<>>)
          \o Backwards(buf)
          \o (IF "LEFT" \in flags THEN spaces ELSE <<>>)

\* The room a sign takes from the zeros that fill a field.
WidthForZeros(width, negative, flags) ==
    IF width > 0 /\ (negative \/ flags \cap {"PLUS", "SPACE"} # {}) THEN width - 1 ELSE width

SignOf(negative, flags) ==
    IF negative THEN <<"-">>
    ELSE IF "PLUS" \in flags THEN <<"+">>
    ELSE IF "SPACE" \in flags THEN <<" ">> ELSE <<>>

-----------------------------------------------------------------------------
(* Integers *)

DigitChar(d, upper) ==
    (IF upper THEN <<"0","1","2","3","4","5","6","7","8","9","A","B","C","D","E","F">>
              ELSE <<"0","1","2","3","4","5","6","7","8","9","a","b","c","d","e","f">>)[d + 1]

\* The digits of v, the lowest first; none for 0.
LowDigits(v, base, upper) ==
    LET D[n \in Nat] == IF n = 0 THEN <<>>
                        ELSE <<DigitChar(n % base, upper)>> \o D[n \div base]
    IN  D[v]

\* Under '#' the prefix may take the place of zeros that only fill the field, but of no digit.
TakesDigits(buf, digits, base, precision, width, flags) ==
    IF "PRECISION" \notin flags /\ Len(buf) > 0 /\ Len(buf) \in {precision, width}
    THEN SubSeq(buf, 1, Max({0, Len(buf) - (IF base \in {2, 16} THEN 2 ELSE 1)}))
    ELSE buf
TakeBack(buf, digits, base, precision, width, flags) ==
    IF "PRECISION" \notin flags /\ Len(buf) > 0 /\ Len(buf) \in {precision, width}
    THEN SubSeq(buf, 1, Max({digits, Len(buf) - (IF base \in {2, 16} THEN 2 ELSE 1)}))
    ELSE buf

BasePrefix(base, flags) ==
    CASE base = 16 -> IF "UPPERCASE" \in flags THEN <<"X">> ELSE <<"x">>
      [] base = 2  -> <<"b">>
      [] OTHER     -> <<>>

\* print_integer_finalization
Finalize(buf, negative, base, precision, width0, flags0) ==
    LET zeropad == "LEFT" \notin flags0 /\ "ZEROPAD" \in flags0
        width   == IF zeropad THEN WidthForZeros(width0, negative, flags0) ELSE width0
        filled  == IF zeropad THEN PadTo(buf, "0", width, IntegerBufferSize) ELSE buf
        padded  == PadTo(filled, "0", precision, IntegerBufferSize)
        flags   == IF base = 8 /\ Len(padded) > Len(buf) THEN flags0 \ {"HASH"} ELSE flags0
        prefixed ==
            IF flags \cap {"HASH", "POINTER"} = {} THEN padded
            ELSE Push(Push(TakeBack(padded, Len(buf), base, precision, width, flags),
                           BasePrefix(base, flags), IntegerBufferSize),
                      <<"0">>, IntegerBufferSize)
        signed  == Push(prefixed, SignOf(negative, flags), IntegerBufferSize)
    IN  OutRev(signed, width, flags)

\* print_integer; '#' says nothing of a 0 that has its digit, nor of one in base 16.
PrintInteger(value, negative, base, precision, width, flags) ==
    LET bare == value = 0 /\ ("PRECISION" \notin flags \/ base = 16)
        buf  == IF value = 0
                THEN IF "PRECISION" \in flags THEN <<>> ELSE <<"0">>
                ELSE Push(<<>>, LowDigits(value, base, "UPPERCASE" \in flags), IntegerBufferSize)
    IN  Finalize(buf, negative, base, precision, width,
                 IF bare THEN flags \ {"HASH"} ELSE flags)

-----------------------------------------------------------------------------
(* Exact fractions: the doubles of the code *)

Frac(n, d) ==
    LET Gcd[a, b \in Nat] == IF b = 0 THEN a ELSE Gcd[b, a % b]
        g == Gcd[IF n < 0 THEN -n ELSE n, d]
    IN  [num |-> n \div g, den |-> d \div g]

Trunc(a) == a.num \div a.den

Minus(a, b) == Frac(a.num * b.den - b.num * a.den, a.den * b.den)

\* a less the integer n
Less(a, n) == Frac(a.num - n * a.den, a.den)

\* a * 10^k, for k of either sign
Scale(a, k) ==
    IF k >= 0 THEN Frac(a.num * Power(10, k), a.den) ELSE Frac(a.num, a.den * Power(10, -k))

FromHalfOn(a) == 2 * a.num >= a.den
AboveHalf(a)  == 2 * a.num > a.den

IsHalf(a) == 2 * a.num = a.den

AtLeastInt(a, n) == a.num >= n * a.den

-----------------------------------------------------------------------------
(* Floating point, decimal notation.  inside tells that powers_of_10 was   *)
(* read within its bounds.                                                 *)

PowersOf10 == 0..SupportedPrecision

Parts(integral, fractional) ==
    [integral |-> integral, fractional |-> fractional, inside |-> TRUE]

Outside == [integral |-> 0, fractional |-> 0, inside |-> FALSE]

\* Banker's rounding of a whole part n and what is left of the number
RoundUp(n, rest)  == IF AboveHalf(rest) \/ (IsHalf(rest) /\ n % 2 = 1) THEN n + 1 ELSE n
RoundedToEven(a)  == RoundUp(Trunc(a), Less(a, Trunc(a)))

\* A fraction that was rounded up to one is carried.
Carried(integral, fractional, precision) ==
    IF fractional >= Power(10, precision) THEN Parts(integral + 1, 0) ELSE Parts(integral, fractional)

\* With no decimals it is the whole part that a tie makes even.
TieToEven(a, parts) ==
    IF IsHalf(Less(a, parts.integral)) /\ parts.integral % 2 = 1
    THEN [parts EXCEPT !.integral = @ + 1] ELSE parts

\* get_components
GetComponents(a, precision) ==
    LET parts == Carried(Trunc(a), RoundedToEven(Scale(Less(a, Trunc(a)), precision)), precision)
    IN  CASE precision \notin PowersOf10 -> Outside
          [] precision = 0               -> TieToEven(a, parts)
          [] OTHER                       -> parts

\* %g drops the zeros at the end of the fraction: what is left of it, and of count.
WithoutZeros(fractional, count) ==
    LET S[f, n \in Nat] == IF f % 10 # 0 THEN [fractional |-> f, count |-> n]
                           ELSE S[f \div 10, n - 1]
    IN  S[fractional, count]

AtLeastOneDigit(n) == IF n = 0 THEN <<"0">> ELSE LowDigits(n, 10, FALSE)

\* The fraction and the point, at the low end of the buffer.
PushFraction(fractional, precision, flags, buf) ==
    LET adapt == "ADAPT_EXP" \in flags /\ "HASH" \notin flags
        left  == IF adapt /\ fractional > 0 THEN WithoutZeros(fractional, precision)
                 ELSE [fractional |-> fractional, count |-> precision]
        digits == Push(buf, AtLeastOneDigit(left.fractional), DecimalBufferSize)
        zeros  == left.count - (Len(digits) - Len(buf))
    IN  CASE precision = 0 /\ "HASH" \in flags -> Push(buf, <<".">>, DecimalBufferSize)
          [] precision # 0 /\ ~(adapt /\ fractional = 0) ->
                Push(Push(digits, Repeat("0", zeros), DecimalBufferSize),
                     <<".">>, DecimalBufferSize)
          [] OTHER -> buf

\* print_broken_up_decimal
PrintBrokenUpDecimal(parts, negative, precision, width0, flags, buf) ==
    LET zeropad  == "LEFT" \notin flags /\ "ZEROPAD" \in flags
        width    == IF zeropad THEN WidthForZeros(width0, negative, flags) ELSE width0
        fraction == PushFraction(parts.fractional, precision, flags, buf)
        whole    == Push(fraction, AtLeastOneDigit(parts.integral), DecimalBufferSize)
        padded   == IF zeropad THEN PadTo(whole, "0", width, DecimalBufferSize) ELSE whole
        signed   == Push(padded, SignOf(negative, flags), DecimalBufferSize)
    IN  OutRev(signed, width, flags)

-----------------------------------------------------------------------------
(* Floating point, exponential notation.  A scaling factor is the exponent *)
(* of its power of ten; whether the code multiplies or divides by it, and  *)
(* in which order it combines two, only moves the rounding of a double.    *)

\* log10_of_positive, bastardized_floor, pow10_of_int and the correction after them
FlooredExp10(a) ==
    CASE a.num = 0      -> 0
      [] a.num >= a.den -> CHOOSE e \in 0..MaxExp10 : Trunc(a) \in Power(10, e)..(Power(10, e + 1) - 1)
      [] OTHER          -> -(CHOOSE e \in 1..MaxExp10 : Trunc(Scale(a, e)) \in 1..9)

\* update_normalization
UpdateNormalization(normalization, precision) == normalization + precision

\* get_normalized_components, the part of it that computes
Normalized(a, integral, precision, normalization) ==
    Carried(integral,
            RoundedToEven(Scale(Minus(a, Scale(Frac(integral, 1), -normalization)),
                                UpdateNormalization(normalization, precision))),
            precision)

GetNormalizedComponents(a, precision, normalization, flooredExp10) ==
    IF precision - flooredExp10 >= MaxExp10 - 1
    THEN GetComponents(Scale(a, normalization), precision)
    ELSE IF precision \notin PowersOf10 THEN Outside
    ELSE Normalized(a, Trunc(Scale(a, normalization)), precision, normalization)

Mantissa(a, precision, exp10) ==
    IF exp10 = 0 THEN GetComponents(a, precision)
    ELSE GetNormalizedComponents(a, precision, -exp10, exp10)

\* A mantissa that was rounded up to 10 is 1 with the next exponent.
RolledOver(parts, exp10) ==
    IF parts.integral >= 10
    THEN [parts |-> [parts EXCEPT !.integral = 1, !.fractional = 0], exponent |-> exp10 + 1]
    ELSE [parts |-> parts, exponent |-> exp10]

FallsBackToDecimal(flags, exponent, precision) ==
    "ADAPT_EXP" \in flags /\ exponent >= -4 /\ exponent < precision + 1

\* whole has one decimal less when it was rounded up to the next power of ten.
PrintDecimalMode(whole, negative, precision, exp10, width, flags, buf) ==
    LET reached == exp10 >= -1 /\ whole.integral = Power(10, exp10 + 1)
    IN  PrintBrokenUpDecimal(whole, negative,
            IF reached THEN Max({precision - 1, 0}) ELSE precision, width, flags, buf)

RightPadded(text, width) == text \o Repeat(" ", width - Len(text))

PrintExponentialMode(parts, exponent, negative, precision, width, flags, buf) ==
    LET left      == "LEFT" \in flags
        expWidth  == IF exponent \in -99..99 THEN 4 ELSE 5
        partWidth == IF left \/ width <= expWidth THEN 0 ELSE width - expWidth
    IN  RightPadded(
            PrintBrokenUpDecimal(parts, negative, precision, partWidth, flags, buf)
              \o <<IF "UPPERCASE" \in flags THEN "E" ELSE "e">>
              \o PrintInteger(IF exponent < 0 THEN -exponent ELSE exponent, exponent < 0, 10, 0,
                              expWidth - 1, {"ZEROPAD", "PLUS"}),
            IF left THEN width ELSE 0)

\* The end of print_exponential_number, once mantissa and exponent are known
PrintRolled(a, rolled, exp10, negative, precision, width, flags, buf) ==
    LET decimals == Max({precision - rolled.exponent, 0})
        whole    == GetComponents(a, decimals)
    IN  IF FallsBackToDecimal(flags, rolled.exponent, precision)
        THEN [text   |-> PrintDecimalMode(whole, negative, decimals, exp10, width, flags, buf),
              inside |-> rolled.parts.inside /\ whole.inside]
        ELSE [text   |-> PrintExponentialMode(rolled.parts, rolled.exponent, negative, precision,
                                              width, flags, buf),
              inside |-> rolled.parts.inside]

\* print_exponential_number; for %g the precision counts the digit before the point, too
PrintNormalized(a, exp10, negative, precision, width, flags, buf) ==
    PrintRolled(a, RolledOver(Mantissa(a, precision, exp10), exp10), exp10,
                negative, precision, width, flags, buf)

PrintExponentialNumber(value, precision, width, flags, buf) ==
    PrintNormalized(Frac(value.num, value.den), FlooredExp10(value), value.neg,
                    IF "ADAPT_EXP" \in flags THEN Max({precision - 1, 0}) ELSE precision,
                    width, flags, buf)

\* The zeros that stand for the digits of a precision beyond the supported one
ZerosBeyond(precision) == Max({0, Min({precision - SupportedPrecision, DecimalBufferSize})})

PrintFinite(value, precision, zeros, width, flags, preferExponential) ==
    IF preferExponential
    THEN PrintExponentialNumber(value, precision - zeros, width, flags, Repeat("0", zeros))
    ELSE LET parts == GetComponents(value, precision - zeros)
         IN  [text   |-> PrintBrokenUpDecimal(parts, value.neg, precision - zeros, width, flags,
                                              Repeat("0", zeros)),
              inside |-> parts.inside]

\* A number with more digits before the point than decimal notation is used for
IsLarge(value) ==
    LET least == Power(10, IntegralDigits)
    IN  AtLeastInt(value, least) /\ value.num # value.den * least

\* print_floating_point.  A large %f turns exponential before it has its precision.
PrintFloatingPoint(value, precision0, width, flags, preferExponential) ==
    LET precision == IF "PRECISION" \in flags THEN precision0 ELSE DefaultPrecision
        infinity  == IF value.neg THEN <<"-","i","n","f">>
                     ELSE IF "PLUS" \in flags THEN <<"+","i","n","f">> ELSE <<"i","n","f">>
        As(text)  == [text |-> OutRev(Backwards(text), width, flags), inside |-> TRUE]
    IN  CASE value.kind = "nan" -> As(<<"n","a","n">>)
          [] value.kind = "inf" -> As(infinity)
          [] OTHER ->
              IF IsLarge(value) /\ ~preferExponential
              THEN PrintExponentialNumber(value, precision0, width, flags, <<>>)
              ELSE PrintFinite(value, precision, ZerosBeyond(precision), width, flags,
                               preferExponential)
=============================================================================
