----------------------------- MODULE PrintfText -----------------------------
(***************************************************************************)
(* What a directive should print, by the tables of ext/printf's README and *)
(* the C standard they summarise: the reference Printf is checked against. *)
(* A directive is [flags, width, prec, conv, value], conv without its      *)
(* length: flags is a set of flag characters, a negative prec is none, and *)
(* value is what is to be printed.                                         *)
(***************************************************************************)
EXTENDS Integers, Sequences, FiniteSetsExt, Powers

CONSTANTS DefaultPrec,   \* of a floating-point number
          PointDigits,   \* more digits than these before the point turn %f into %e
          MostDecimals,  \* more decimals than these are zeros
          AddressDigits  \* of a pointer

Fill(c, n) == [i \in 1..Max({n, 0}) |-> c]

\* The n lowest digits of v, the highest first.
DigitsOf(v, n, base, upper) ==
    LET glyph == IF upper THEN <<"0","1","2","3","4","5","6","7","8","9","A","B","C","D","E","F">>
                 ELSE <<"0","1","2","3","4","5","6","7","8","9","a","b","c","d","e","f">>
    IN  [i \in 1..n |-> glyph[((v \div Power(base, n - i)) % base) + 1]]

\* How many digits v has; 0 has none.
DigitCount(v, base) ==
    CHOOSE n \in 0..v : v < Power(base, n) /\ (n > 0 => v >= Power(base, n - 1))

\* A sign or a prefix and a number in a field of the directive's width.
InField(head, body, d, zeros) ==
    LET gap == d.width - Len(head) - Len(body)
    IN  IF "-" \in d.flags THEN head \o body \o Fill(" ", gap)
        ELSE IF zeros /\ "0" \in d.flags THEN head \o Fill("0", gap) \o body
        ELSE Fill(" ", gap) \o head \o body

Sign(negative, d) ==
    IF negative THEN <<"-">>
    ELSE IF "+" \in d.flags THEN <<"+">>
    ELSE IF " " \in d.flags THEN <<" ">> ELSE <<>>

IntegerShown(d) ==
    LET base   == CASE d.conv \in {"x", "X"} -> 16 [] d.conv = "o" -> 8 [] d.conv = "b" -> 2
                    [] OTHER -> 10
        signed == d.conv \in {"d", "i"}
        v      == IF d.value < 0 THEN -d.value ELSE d.value
        least  == IF d.prec < 0 THEN 1 ELSE d.prec
        alt    == "#" \in d.flags
        digits == DigitsOf(v, Max({DigitCount(v, base), least}), base, d.conv = "X")
        body   == IF alt /\ base = 8 /\ (digits = <<>> \/ digits[1] # "0")
                  THEN <<"0">> \o digits ELSE digits
        head   == CASE signed -> Sign(d.value < 0, d)
                    [] alt /\ v # 0 /\ base = 16 -> <<"0", d.conv>>
                    [] alt /\ v # 0 /\ base = 2  -> <<"0", "b">>
                    [] OTHER -> <<>>
    IN  [head |-> head, body |-> body]

-----------------------------------------------------------------------------
(* Floating point: num / den, rounded half to even                         *)

Rounded(n, d) ==
    LET q == n \div d  r == n % d
    IN  IF 2 * r > d \/ (2 * r = d /\ q % 2 = 1) THEN q + 1 ELSE q

\* a * 10^k, rounded
TimesTen(a, k) ==
    IF k >= 0 THEN Rounded(a.num * Power(10, k), a.den) ELSE Rounded(a.num, a.den * Power(10, -k))

Point(d, p) == IF p > 0 \/ "#" \in d.flags THEN <<".">> ELSE <<>>

\* The integer n as a number with p decimals
WithPoint(n, p, d) ==
    LET s == DigitsOf(n, Max({DigitCount(n, 10), p + 1}), 10, FALSE)
    IN  SubSeq(s, 1, Len(s) - p) \o Point(d, p) \o SubSeq(s, Len(s) - p + 1, Len(s))

Fixed(a, p, d) ==
    LET q == Min({p, MostDecimals})
    IN  WithPoint(TimesTen(a, q), q, d) \o Fill("0", p - q)

\* The decimal exponent of a rounded to p decimals behind one digit
Exponent(a, p) ==
    IF a.num = 0 THEN 0
    ELSE LET e == IF a.num >= a.den
                  THEN CHOOSE k \in 0..9 : a.num \div a.den \in Power(10, k)..(Power(10, k + 1) - 1)
                  ELSE -(CHOOSE k \in 1..9 : (a.num * Power(10, k)) \div a.den \in 1..9)
         IN  IF TimesTen(a, p - e) = Power(10, p + 1) THEN e + 1 ELSE e

Mantissa(a, p, d) ==
    LET q == Min({p, MostDecimals})
    IN  WithPoint(TimesTen(a, q - Exponent(a, q)), q, d) \o Fill("0", p - q)

ExponentShown(a, p, d) ==
    LET e == Exponent(a, Min({p, MostDecimals}))
    IN  <<IF d.conv \in {"E", "G"} THEN "E" ELSE "e", IF e < 0 THEN "-" ELSE "+">>
          \o DigitsOf(IF e < 0 THEN -e ELSE e, 2, 10, FALSE)

\* Without the zeros a fraction ends in, nor a point with nothing behind it
Trimmed(s, d) ==
    LET point == {i \in 1..Len(s) : s[i] = "."}
        last  == Max({i \in 1..Len(s) : s[i] \notin {"0", "."}} \cup {Max(point) - 1})
    IN  IF point = {} \/ "#" \in d.flags THEN s ELSE SubSeq(s, 1, last)

\* Significant digits p, in the shorter of the two notations
General(a, p, d) ==
    LET e == Exponent(a, p - 1)
    IN  IF e >= -4 /\ e < p THEN Trimmed(Fixed(a, p - 1 - e, d), d)
        ELSE Trimmed(Mantissa(a, p - 1, d), d) \o ExponentShown(a, p - 1, d)

FloatShown(d) ==
    LET a == d.value
        p == IF d.prec < 0 THEN DefaultPrec ELSE d.prec
        large == a.kind = "num" /\ a.num > a.den * Power(10, PointDigits)
    IN  [head |-> IF a.kind = "nan" THEN <<>>
                  ELSE IF a.kind = "inf" /\ ~a.neg /\ "+" \notin d.flags THEN <<>>
                  ELSE Sign(a.neg, d),
         body |-> IF a.kind = "nan" THEN <<"n","a","n">>
                  ELSE IF a.kind = "inf" THEN <<"i","n","f">>
                  ELSE IF d.conv \in {"g", "G"} THEN General(a, Max({p, 1}), d)
                  ELSE IF d.conv \in {"e", "E"} \/ large
                  THEN Mantissa(a, p, d) \o ExponentShown(a, p, d)
                  ELSE Fixed(a, p, d)]

-----------------------------------------------------------------------------
(* All directives                                                          *)

Shown(d) ==
    LET chars == IF d.prec < 0 THEN d.value ELSE SubSeq(d.value, 1, Min({Len(d.value), d.prec}))
    IN  CASE d.conv \in {"d", "i", "u", "x", "X", "o", "b"} -> IntegerShown(d)
          [] d.conv \in {"f", "F", "e", "E", "g", "G"}      -> FloatShown(d)
          [] d.conv = "s"    -> [head |-> <<>>, body |-> chars]
          [] d.conv = "c"    -> [head |-> <<>>, body |-> <<d.value>>]
          [] d.conv = "p"    -> IF d.value = 0 THEN [head |-> <<>>, body |-> <<"(","n","i","l",")">>]
                                ELSE [head |-> <<"0", "x">>,
                                      body |-> DigitsOf(d.value, AddressDigits, 16, FALSE)]
          [] d.conv = "n"    -> [head |-> <<>>, body |-> <<>>]
          [] d.conv = "text" -> [head |-> <<>>, body |-> d.value]

\* Zeros fill the field of a number that has no precision, and of a float that is one.
FillsWithZeros(d) ==
    \/ d.conv \in {"d", "i", "u", "x", "X", "o", "b"} /\ d.prec < 0
    \/ d.conv \in {"f", "F", "e", "E", "g", "G"} /\ d.value.kind = "num"

Text(d) == InField(Shown(d).head, Shown(d).body, d, FillsWithZeros(d))
=============================================================================
