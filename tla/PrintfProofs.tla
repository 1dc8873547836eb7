---------------------------- MODULE PrintfProofs ----------------------------
(***************************************************************************)
(* Proofs about Printf, for any calls, formats and arguments: what a call  *)
(* reads, and what an integer directive prints.  A format is read up to    *)
(* its NUL unless it ends in the flags, the width or the precision of a    *)
(* directive, and powers_of_10 within its bounds unless a directive is     *)
(* TooPrecise.  An integer prints what PrintfText says unless it is an     *)
(* OddInteger: the code writes it in reverse, so most of the proof is      *)
(* about what the buffer is, read backwards.                               *)
(***************************************************************************)
EXTENDS Printf, SequenceTheorems, WellFoundedInduction, TLAPS

----------------------------------------------------------------------------
(* Numbers and sets of them *)

\* A set of numbers that is not empty has a least one: the induction of this module.
LEMMA Least ==
    ASSUME NEW S \in SUBSET Nat, S # {}
    PROVE  \E m \in S : \A k \in S : m <= k
<1>1. PICK m \in S : \A k \in S : ~(<<k, m>> \in OpToRel(<, Nat))
  BY NatLessThanWellFounded, WFMin
<1>2. \A k \in S : k < m => <<k, m>> \in OpToRel(<, Nat)
  BY DEF OpToRel
<1>3. ASSUME NEW k \in S PROVE m <= k
  <2>1. k \in Nat /\ m \in Nat /\ ~(k < m)
    BY <1>1, <1>2
  <2>. QED
    BY <2>1
<1>. QED
  BY <1>3

\* Whatever holds of a number when it holds of all smaller ones holds of all.
LEMMA Induction ==
    ASSUME NEW S \in SUBSET Nat, \A n \in Nat : (\A m \in 0..(n - 1) : m \in S) => n \in S
    PROVE  S = Nat
<1>1. SUFFICES ASSUME Nat \ S # {} PROVE FALSE
  OBVIOUS
<1>2. PICK n \in Nat \ S : \A k \in Nat \ S : n <= k
  BY <1>1, Least
<1>3. \A m \in 0..(n - 1) : m \in S
  BY <1>2
<1>. QED
  BY <1>2, <1>3

\* f starts with x, and from n = 1 on h[n] makes its value of the one at prev[n].
Recurs(f, x, prev, h) == \A n \in Nat : f[n] = IF n = 0 THEN x ELSE h[n][f[prev[n]]]

\* A function of the numbers that is defined by its value at a smaller one exists.
LEMMA Recursion ==
    ASSUME NEW X, NEW x \in X,
           NEW prev \in [Nat \ {0} -> Nat], \A n \in Nat \ {0} : prev[n] < n,
           NEW h \in [Nat \ {0} -> [X -> X]]
    PROVE  \E f \in [Nat -> X] : Recurs(f, x, prev, h)
<1>. DEFINE Term(f, n) == IF n = 0 THEN x ELSE h[n][f[prev[n]]]
            IsTo(f, n) == f \in [0..n -> X] /\ \A k \in 0..n : f[k] = Term(f, k)
            Has        == {n \in Nat : \E f : IsTo(f, n)}
            At(n)      == CHOOSE f : IsTo(f, n)
<1>1. \A n \in Nat : n \in Has
  <2>1. 0 \in Has
    <3>1. IsTo([k \in 0..0 |-> x], 0)
      OBVIOUS
    <3>. QED
      BY <3>1
  <2>2. ASSUME NEW n \in Nat \ {0}, n - 1 \in Has PROVE n \in Has
    <3>1. PICK f : IsTo(f, n - 1)
      BY <2>2
    <3>. DEFINE g == [k \in 0..n |-> IF k = n THEN h[n][f[prev[n]]] ELSE f[k]]
    <3>2. prev[n] \in 0..(n - 1)
      OBVIOUS
    <3>3. h[n][f[prev[n]]] \in X
      BY <3>1, <3>2
    <3>4. g \in [0..n -> X]
      BY <3>1, <3>3
    <3>5. ASSUME NEW k \in 0..n PROVE g[k] = Term(g, k)
      <4>1. CASE k = n
        BY <3>2, <4>1
      <4>2. CASE k # n
        <5>1. k \in 0..(n - 1) /\ g[k] = f[k] /\ f[k] = Term(f, k)
          BY <3>1, <4>2
        <5>2. k # 0 => prev[k] \in 0..(n - 1)
          BY <4>2
        <5>3. k # 0 => g[prev[k]] = f[prev[k]]
          BY <5>2
        <5>. QED
          BY <5>1, <5>3
      <4>. QED
        BY <4>1, <4>2
    <3>. HIDE DEF g
    <3>6. IsTo(g, n)
      BY <3>4, <3>5
    <3>. QED
      BY <3>6
  <2>3. \A n \in Nat : (\A m \in 0..(n - 1) : m \in Has) => n \in Has
    <3>. HIDE DEF Has
    <3>1. \A n \in Nat : n # 0 => n - 1 \in 0..(n - 1)
      OBVIOUS
    <3>. QED
      BY <2>1, <2>2, <3>1
  <2>. HIDE DEF Has
  <2>4. Has \in SUBSET Nat
    BY DEF Has
  <2>. QED
    BY <2>3, <2>4, Induction
<1>2. \A n \in Nat : IsTo(At(n), n)
  <2>. HIDE DEF IsTo
  <2>. QED
    BY <1>1
<1>. DEFINE Agree == {k \in Nat : \A m, n \in Nat : \A f, g :
                          k <= m /\ k <= n /\ IsTo(f, m) /\ IsTo(g, n) => f[k] = g[k]}
<1>3. \A k \in Nat : k \in Agree
  <2>1. ASSUME NEW k \in Nat, \A j \in 0..(k - 1) : j \in Agree PROVE k \in Agree
    <3>1. SUFFICES ASSUME NEW m \in Nat, NEW n \in Nat, NEW f, NEW g,
                          k <= m, k <= n, IsTo(f, m), IsTo(g, n)
                   PROVE  f[k] = g[k]
      <4>. HIDE DEF IsTo
      <4>. QED
        OBVIOUS
    <3>2. f[k] = Term(f, k) /\ g[k] = Term(g, k)
      BY <3>1
    <3>3. k # 0 => f[prev[k]] = g[prev[k]]
      <4>1. k # 0 => prev[k] \in 0..(k - 1) /\ prev[k] <= m /\ prev[k] <= n
        BY <3>1
      <4>. HIDE DEF IsTo
      <4>. QED
        BY <2>1, <3>1, <4>1
    <3>. QED
      BY <3>2, <3>3
  <2>. HIDE DEF Agree
  <2>2. Agree \in SUBSET Nat
    BY DEF Agree
  <2>. QED
    BY <2>1, <2>2, Induction
<1>. DEFINE f == [n \in Nat |-> At(n)[n]]
<1>4. f \in [Nat -> X]
  <2>1. ASSUME NEW n \in Nat PROVE At(n)[n] \in X
    <3>1. IsTo(At(n), n)
      BY <1>2
    <3>. HIDE DEF At
    <3>. QED
      BY <3>1
  <2>. HIDE DEF At
  <2>. QED
    BY <2>1
<1>5. ASSUME NEW n \in Nat PROVE f[n] = Term(f, n)
  <2>1. At(n)[n] = Term(At(n), n)
    <3>1. IsTo(At(n), n)
      BY <1>2
    <3>. HIDE DEF At
    <3>. QED
      BY <3>1
  <2>2. n # 0 => At(n)[prev[n]] = At(prev[n])[prev[n]]
    <3>1. n # 0 => prev[n] \in Nat /\ prev[n] <= n
      OBVIOUS
    <3>. HIDE DEF IsTo, At
    <3>. QED
      BY <1>2, <1>3, <3>1
  <2>. HIDE DEF At
  <2>. QED
    BY <2>1, <2>2
<1>. HIDE DEF f
<1>. QED
  BY <1>4, <1>5 DEF Recurs

\* Min is the least number of a set.
LEMMA MinIs ==
    ASSUME NEW S \in SUBSET Nat, S # {}
    PROVE  Min(S) \in S /\ \A k \in S : Min(S) <= k
  BY Least DEF Min

\* The larger and the smaller of two numbers.
LEMMA MaxOfTwo ==
    \A a, b \in Int : Max({a, b}) = IF a >= b THEN a ELSE b
  BY DEF Max

LEMMA MinOfTwo ==
    \A a, b \in Int : Min({a, b}) = IF a <= b THEN a ELSE b
  BY DEF Min

----------------------------------------------------------------------------
(* The format *)

CString == call.format \in Seq(Range(call.format) \ {NUL})

End == Len(call.format) + 1

\* The format ends in the flags, the width or the precision of a directive.
EndsInField == Last(call.format) \in DOMAIN FlagOf \cup DecimalDigit

\* Nothing but the end of a format reads as NUL.
LEMMA CharIs ==
    ASSUME CString, NEW i \in 1..End
    PROVE  /\ End \in Nat \ {0}
           /\ Char(i) = NUL <=> i = End
           /\ i = End - 1 => Char(i) = Last(call.format)
<1>1. Len(call.format) \in Nat
  BY DEF CString
<1>2. i <= Len(call.format) => call.format[i] \in Range(call.format) \ {NUL}
  BY <1>1 DEF CString, End
<1>. QED
  BY <1>1, <1>2 DEF Char, End, Last

\* The characters of numbers and flags.
LEMMA Digits == DecimalDigit = {"0", "1", "2", "3", "4", "5", "6", "7", "8", "9"}
  BY DEF DecimalDigit, DigitChar

LEMMA NotNUL ==
    /\ NUL \notin DecimalDigit /\ NUL \notin DOMAIN FlagOf
    /\ NUL \notin {"*", ".", "-", "l", "h", "L", "j", "t", "z", "%"}
  BY Digits DEF NUL, FlagOf

\* Beyond stops at the first other character, at the latest at the end.
LEMMA BeyondIs ==
    ASSUME CString, NEW S, NUL \notin S, NEW i \in 1..End
    PROVE  /\ Beyond(i, S) \in i..End
           /\ Char(Beyond(i, S)) \notin S
           /\ \A j \in i..(Beyond(i, S) - 1) : Char(j) \in S
<1>. DEFINE Others == {j \in i..End : Char(j) \notin S}
<1>1. End \in Nat
  BY CharIs
<1>2. Others \in SUBSET Nat
  BY <1>1
<1>3. End \in Others
  BY <1>1, CharIs
<1>4. Beyond(i, S) = Min(Others)
  BY DEF Beyond, End
<1>. HIDE DEF Others
<1>5. Min(Others) \in Others /\ \A k \in Others : Min(Others) <= k
  BY <1>2, <1>3, MinIs
<1>. QED
  BY <1>1, <1>4, <1>5 DEF Others

\* Where it skips to the end, the last character was one of those.
LEMMA BeyondEnd ==
    ASSUME CString, NEW S, NUL \notin S, NEW i \in 1..End, i < End, Beyond(i, S) = End
    PROVE  Last(call.format) \in S
<1>1. End \in Nat
  BY CharIs
<1>2. Char(End - 1) \in S
  BY <1>1, BeyondIs
<1>3. Char(End - 1) = Last(call.format)
  BY <1>1, CharIs
<1>. QED
  BY <1>2, <1>3

\* A numeral built digit by digit from its left is a natural number.
LEMMA NumeralFrom ==
    ASSUME NEW i \in Nat, NEW e \in Nat, i <= e, NEW v \in [i..(e - 1) -> 0..9],
           NEW n, n = CHOOSE f : f = [j \in i..e |-> IF j = i THEN 0 ELSE 10 * f[j - 1] + v[j - 1]]
    PROVE  n[e] \in Nat
<1>. DEFINE Term(f, j) == IF j = i THEN 0 ELSE 10 * f[j - 1] + v[j - 1]
            IsTo(f, m) == \A j \in i..m : f[j] = Term(f, j)
            Has(m)     == \E f \in [i..m -> Nat] : IsTo(f, m)
<1>1. Has(i)
  <2>1. [j \in i..i |-> 0] \in [i..i -> Nat] /\ IsTo([j \in i..i |-> 0], i)
    OBVIOUS
  <2>. QED
    BY <2>1
<1>2. ASSUME NEW m \in (i + 1)..e, Has(m - 1) PROVE Has(m)
  <2>1. PICK f \in [i..(m - 1) -> Nat] : IsTo(f, m - 1)
    BY <1>2
  <2>. DEFINE g == [j \in i..m |-> IF j = m THEN 10 * f[m - 1] + v[m - 1] ELSE f[j]]
  <2>2. f[m - 1] \in Nat /\ v[m - 1] \in Nat
    <3>1. m - 1 \in i..(m - 1) /\ m - 1 \in i..(e - 1)
      OBVIOUS
    <3>2. v[m - 1] \in 0..9
      BY <3>1
    <3>. QED
      BY <3>1, <3>2
  <2>3. g \in [i..m -> Nat]
    BY <2>2
  <2>4. ASSUME NEW j \in i..m, j # m PROVE g[j] = Term(g, j)
    <3>1. g[j] = f[j] /\ (j # i => g[j - 1] = f[j - 1])
      BY <2>4
    <3>. QED
      BY <2>1, <2>4, <3>1
  <2>5. g[m] = Term(g, m)
    OBVIOUS
  <2>. HIDE DEF g
  <2>6. IsTo(g, m)
    BY <2>4, <2>5
  <2>. QED
    BY <2>3, <2>6
<1>3. Has(e)
  <2>. DEFINE Short == {m \in i..e : ~Has(m)}
  <2>. HIDE DEF Has
  <2>1. SUFFICES ASSUME Short # {} PROVE FALSE
    OBVIOUS
  <2>2. PICK m \in Short : \A k \in Short : m <= k
    <3>. HIDE DEF Short
    <3>1. Short \in SUBSET Nat
      BY DEF Short
    <3>. QED
      BY <2>1, <3>1, Least
  <2>3. m \in (i + 1)..e /\ m - 1 \in i..e /\ m - 1 < m
    BY <1>1, <2>2
  <2>. QED
    BY <1>2, <2>2, <2>3
<1>4. n = [j \in i..e |-> Term(n, j)]
  <2>1. PICK f \in [i..e -> Nat] : IsTo(f, e)
    BY <1>3
  <2>. DEFINE P(h) == h = [j \in i..e |-> Term(h, j)]
  <2>2. P(f)
    BY <2>1
  <2>3. n = CHOOSE h : P(h)
    OBVIOUS
  <2>. HIDE DEF P
  <2>4. P(n)
    BY <2>2, <2>3
  <2>. QED
    BY <2>4 DEF P
<1>. DEFINE Unlike == {m \in i..e : n[m] \notin Nat}
<1>5. \A j \in i..e : n[j] = Term(n, j)
  <2>. DEFINE t(j) == Term(n, j)
  <2>1. n = [j \in i..e |-> t(j)]
    BY <1>4
  <2>. HIDE DEF t
  <2>2. \A j \in i..e : n[j] = t(j)
    BY <2>1
  <2>. QED
    BY <2>2 DEF t
<1>6. ASSUME NEW m \in (i + 1)..e, n[m - 1] \in Nat PROVE n[m] \in Nat
  <2>1. v[m - 1] \in 0..9
    OBVIOUS
  <2>2. n[m] = 10 * n[m - 1] + v[m - 1]
    BY <1>5
  <2>. QED
    BY <1>6, <2>1, <2>2
<1>7. Unlike = {}
  <2>1. SUFFICES ASSUME Unlike # {} PROVE FALSE
    OBVIOUS
  <2>2. PICK m \in Unlike : \A k \in Unlike : m <= k
    <3>. HIDE DEF Unlike
    <3>1. Unlike \in SUBSET Nat
      BY DEF Unlike
    <3>. QED
      BY <2>1, <3>1, Least
  <2>3. m \in (i + 1)..e /\ m - 1 \in i..e /\ m - 1 < m
    <3>1. n[i] \in Nat
      BY <1>5
    <3>. QED
      BY <2>2, <3>1
  <2>. QED
    BY <1>6, <2>2, <2>3
<1>8. e \in i..e
  OBVIOUS
<1>. QED
  BY <1>7, <1>8

\* atou_ returns a natural number.
LEMMA AtouIs ==
    ASSUME CString, NEW i \in 1..End
    PROVE  Atou(i) \in Nat
<1>. DEFINE e == Beyond(i, DecimalDigit)
            v == [j \in i..(e - 1) |-> DigitValue(Char(j))]
            n == CHOOSE f : f = [j \in i..e |-> IF j = i THEN 0
                                               ELSE 10 * f[j - 1] + DigitValue(Char(j - 1))]
            w == CHOOSE f : f = [j \in i..e |-> IF j = i THEN 0 ELSE 10 * f[j - 1] + v[j - 1]]
<1>1. i \in Nat /\ e \in Nat /\ i <= e
  BY CharIs, BeyondIs, NotNUL
<1>2. ASSUME NEW j \in i..(e - 1) PROVE DigitValue(Char(j)) \in 0..9
  <2>1. Char(j) \in DecimalDigit
    BY BeyondIs, NotNUL
  <2>. QED
    BY <2>1 DEF DecimalDigit, DigitValue
<1>3. Atou(i) = n[e]
  BY DEF Atou
<1>4. n = w
  <2>1. \A f : [j \in i..e |-> IF j = i THEN 0 ELSE 10 * f[j - 1] + DigitValue(Char(j - 1))]
              = [j \in i..e |-> IF j = i THEN 0 ELSE 10 * f[j - 1] + v[j - 1]]
    <3>1. \A j \in i..e : j # i => j - 1 \in i..(e - 1)
      BY <1>1
    <3>. QED
      BY <3>1
  <2>. QED
    BY <2>1
<1>5. v \in [i..(e - 1) -> 0..9]
  BY <1>2
<1>. HIDE DEF e, v, n, w
<1>6. w[e] \in Nat
  BY <1>1, <1>5, NumeralFrom DEF w
<1>. QED
  BY <1>3, <1>4, <1>6

----------------------------------------------------------------------------
(* The parse of a directive *)

\* The fields of a parse, if the stars have integers: POINTER and UPPERCASE are set by a
\* conversion alone, and a precision is 0 without its flag.
Parsed(d) ==
    /\ d.flags \cap {"POINTER", "UPPERCASE"} = {}
    /\ d.width \in Nat /\ d.precision \in Nat
    /\ "PRECISION" \notin d.flags => d.precision = 0

\* Before its precision a parse has none.
Fresh(p) == p.precision = 0 /\ "PRECISION" \notin p.flags

\* A parse that has read no further than the end; one that was not cut is there only if the
\* format ends in a field.
Read(p) ==
    /\ DOMAIN p = {"i", "flags", "width", "precision", "va", "cut"}
    /\ p.i \in 1..End
    /\ p.cut \in BOOLEAN
    /\ ~p.cut /\ p.i = End => EndsInField
    /\ va \in Nat /\ p.va \in Nat /\ va <= p.va
    /\ (\A k \in va..(p.va - 1) : call.args[k] \in Int) => Parsed(p)
    /\ "ADAPT_EXP" \notin p.flags

\* ADVANCE_IN_FORMAT_STRING does not pass the end, and returns there.
LEMMA AdvanceReads ==
    ASSUME CString, NEW p, Read(p), p.i < End
    PROVE  Read(Advance(p))
<1>1. p.i + 1 \in 1..End /\ (Char(p.i + 1) = NUL <=> p.i + 1 = End)
  BY CharIs DEF Read
<1>. QED
  BY <1>1 DEF Read, Parsed, Advance

\* A character that is not NUL is before the end.
LEMMA BeforeEnd ==
    ASSUME CString, NEW i \in 1..End, Char(i) # NUL
    PROVE  i < End
  BY CharIs

LEMMA ParseFlagsReads ==
    ASSUME CString, NEW p, Read(p), ~p.cut, Fresh(p)
    PROVE  Read(ParseFlags(p)) /\ ~ParseFlags(p).cut /\ Fresh(ParseFlags(p))
<1>. DEFINE end == Beyond(p.i, DOMAIN FlagOf)
<1>1. end \in p.i..End /\ End \in Nat /\ p.i \in 1..End
  BY BeyondIs, CharIs, NotNUL DEF Read
<1>2. end = End => EndsInField
  BY <1>1, BeyondEnd, NotNUL DEF EndsInField, Read
<1>3. \A j \in p.i..(end - 1) :
         FlagOf[Char(j)] \notin {"ADAPT_EXP", "POINTER", "UPPERCASE", "PRECISION"}
  <2>1. \A c \in DOMAIN FlagOf :
           FlagOf[c] \notin {"ADAPT_EXP", "POINTER", "UPPERCASE", "PRECISION"}
    BY DEF FlagOf
  <2>. QED
    BY <1>1, <2>1, BeyondIs, NotNUL
<1>. HIDE DEF end
<1>4. ParseFlags(p) = [p EXCEPT !.i = end, !.flags = {FlagOf[Char(j)] : j \in p.i..(end - 1)}]
  BY DEF ParseFlags, end
<1>. QED
  BY <1>1, <1>2, <1>3, <1>4 DEF Read, Parsed, Fresh

\* The digits of a width or a precision
LEMMA NumeralReads ==
    ASSUME CString, NEW p, Read(p), Char(p.i) \in DecimalDigit
    PROVE  /\ Beyond(p.i, DecimalDigit) \in 1..End
           /\ Beyond(p.i, DecimalDigit) = End => EndsInField
           /\ Atou(p.i) \in Nat
<1>1. p.i \in 1..End /\ End \in Nat /\ p.i < End
  BY BeforeEnd, CharIs, NotNUL DEF Read
<1>. QED
  BY <1>1, BeyondIs, BeyondEnd, AtouIs, NotNUL DEF EndsInField

LEMMA ParseWidthReads ==
    ASSUME CString, NEW p, Read(p), ~p.cut, Fresh(p)
    PROVE  Read(ParseWidth(p)) /\ Fresh(ParseWidth(p))
<1>1. CASE Char(p.i) \in DecimalDigit
  <2>1. ParseWidth(p) = [p EXCEPT !.width = Atou(p.i), !.i = Beyond(p.i, DecimalDigit)]
    BY <1>1, Digits DEF ParseWidth
  <2>2. /\ Beyond(p.i, DecimalDigit) \in 1..End
        /\ Beyond(p.i, DecimalDigit) = End => EndsInField
        /\ Atou(p.i) \in Nat
    BY <1>1, NumeralReads
  <2>. QED
    BY <2>1, <2>2 DEF Read, Parsed, Fresh
<1>2. CASE Char(p.i) = "*"
  <2>. DEFINE w == call.args[p.va]
              q == [p EXCEPT !.va = @ + 1, !.width = IF w < 0 THEN -w ELSE w,
                             !.flags = @ \cup (IF w < 0 THEN {"LEFT"} ELSE {})]
  <2>1. ParseWidth(p) = Advance(q)
    BY <1>2, Digits DEF ParseWidth
  <2>2. /\ p.va \in va..p.va
        /\ w \in Int => (IF w < 0 THEN -w ELSE w) \in Nat
    BY DEF Read
  <2>3. Read(q) /\ q.i = p.i
    BY <2>2 DEF Read, Parsed
  <2>4. p.i < End
    BY <1>2, BeforeEnd, NotNUL DEF Read
  <2>5. Fresh(Advance(q))
    BY DEF Fresh, Advance, Read
  <2>. HIDE DEF q
  <2>. QED
    BY <2>1, <2>3, <2>4, <2>5, AdvanceReads
<1>3. CASE Char(p.i) \notin DecimalDigit /\ Char(p.i) # "*"
  BY <1>3 DEF ParseWidth
<1>. QED
  BY <1>1, <1>2, <1>3

LEMMA ParsePrecisionValueReads ==
    ASSUME CString, NEW p, Read(p), ~p.cut, p.precision = 0, "PRECISION" \in p.flags
    PROVE  Read(ParsePrecisionValue(p))
<1>1. CASE Char(p.i) = "-"
  <2>. DEFINE beyond == Beyond(p.i + 1, DecimalDigit)
  <2>1. p.i < End
    BY <1>1, BeforeEnd, NotNUL DEF Read
  <2>2. p.i + 1 \in 1..End /\ End \in Nat
    BY <2>1, CharIs DEF Read
  <2>3. beyond \in 1..End /\ (Char(beyond) = NUL <=> beyond = End)
    BY <2>2, BeyondIs, CharIs, NotNUL
  <2>4. ParsePrecisionValue(p) = [p EXCEPT !.flags = p.flags \ {"PRECISION"}, !.i = beyond,
                                           !.cut = Char(beyond) = NUL]
    BY <1>1, Digits DEF ParsePrecisionValue
  <2>. HIDE DEF beyond
  <2>. QED
    BY <2>3, <2>4 DEF Read, Parsed
<1>2. CASE Char(p.i) \in DecimalDigit
  <2>1. ParsePrecisionValue(p) = [p EXCEPT !.precision = Atou(p.i),
                                           !.i = Beyond(p.i, DecimalDigit)]
    BY <1>2, Digits DEF ParsePrecisionValue
  <2>2. /\ Beyond(p.i, DecimalDigit) \in 1..End
        /\ Beyond(p.i, DecimalDigit) = End => EndsInField
        /\ Atou(p.i) \in Nat
    BY <1>2, NumeralReads
  <2>. QED
    BY <2>1, <2>2 DEF Read, Parsed
<1>3. CASE Char(p.i) = "*"
  <2>. DEFINE n == call.args[p.va]
              q == [p EXCEPT !.va = @ + 1, !.precision = Max({n, 0}),
                             !.flags = IF n < 0 THEN p.flags \ {"PRECISION"} ELSE @]
  <2>1. ParsePrecisionValue(p) = Advance(q)
    BY <1>3, Digits DEF ParsePrecisionValue
  <2>2. (\A k \in va..p.va : call.args[k] \in Int)
            => Max({n, 0}) \in Nat /\ (n < 0 => Max({n, 0}) = 0)
    <3>1. n \in Int => Max({n, 0}) \in Nat /\ (n < 0 => Max({n, 0}) = 0)
      BY MaxOfTwo
    <3>2. p.va \in va..p.va
      BY DEF Read
    <3>. QED
      BY <3>1, <3>2
  <2>3. Read(q) /\ q.i = p.i
    BY <2>2 DEF Read, Parsed
  <2>4. p.i < End
    BY <1>3, BeforeEnd, NotNUL DEF Read
  <2>. QED
    BY <2>1, <2>3, <2>4, AdvanceReads
<1>4. CASE Char(p.i) \notin DecimalDigit \cup {"-", "*"}
  BY <1>4 DEF ParsePrecisionValue
<1>. QED
  BY <1>1, <1>2, <1>3, <1>4

LEMMA ParsePrecisionReads ==
    ASSUME CString, NEW p, Read(p), ~p.cut, Fresh(p)
    PROVE  Read(ParsePrecision(p))
<1>1. CASE Char(p.i) = "."
  <2>. DEFINE q == [p EXCEPT !.flags = @ \cup {"PRECISION"}]
  <2>1. p.i < End
    BY <1>1, BeforeEnd, NotNUL DEF Read
  <2>2. Read(q) /\ q.i < End
    BY <2>1 DEF Read, Parsed, Fresh
  <2>3. Read(Advance(q))
    BY <2>2, AdvanceReads
  <2>5. Advance(q).precision = 0 /\ "PRECISION" \in Advance(q).flags
    BY DEF Fresh, Advance, Read
  <2>4. ParsePrecision(p) = IF Advance(q).cut THEN Advance(q) ELSE ParsePrecisionValue(Advance(q))
    BY <1>1 DEF ParsePrecision, Then
  <2>. HIDE DEF q
  <2>. QED
    BY <2>3, <2>4, <2>5, ParsePrecisionValueReads
<1>2. CASE Char(p.i) # "."
  BY <1>2 DEF ParsePrecision
<1>. QED
  BY <1>1, <1>2

LEMMA ParseLengthReads ==
    ASSUME CString, NEW p, Read(p), ~p.cut
    PROVE  Read(ParseLength(p))
<1>. DEFINE c     == Char(p.i)
            Long  == {"l", "h", "L", "j", "t", "z"}
            With(f) == Advance([p EXCEPT !.flags = @ \cup {f}])
<1>1. ASSUME c # NUL, NEW f, f \notin {"ADAPT_EXP", "POINTER", "UPPERCASE"}
      PROVE  Read(With(f)) /\ With(f).i = p.i + 1
  <2>. DEFINE q == [p EXCEPT !.flags = @ \cup {f}]
  <2>1. p.i < End
    BY <1>1, BeforeEnd DEF Read
  <2>2. Read(q) /\ q.i = p.i
    BY <1>1 DEF Read, Parsed
  <2>3. Advance(q).i = p.i + 1
    BY DEF Advance, Read
  <2>. HIDE DEF q
  <2>4. Read(Advance(q))
    BY <2>1, <2>2, AdvanceReads
  <2>. QED
    BY <2>3, <2>4 DEF q
<1>2. ASSUME NEW q, Read(q), Char(q.i) # NUL, NEW f, f \notin {"ADAPT_EXP", "POINTER", "UPPERCASE"}
      PROVE  Read(Advance([q EXCEPT !.flags = @ \cup {f}]))
  <2>. DEFINE r == [q EXCEPT !.flags = @ \cup {f}]
  <2>1. q.i < End
    BY <1>2, BeforeEnd DEF Read
  <2>2. Read(r) /\ r.i < End
    BY <1>2, <2>1 DEF Read, Parsed
  <2>. QED
    BY <2>2, AdvanceReads
<1>. DEFINE one == CASE c = "l" -> "LONG" [] c = "h" -> "SHORT" [] c = "L" -> "LONG_DOUBLE"
                     [] c = "j" -> IF Bits["llong"] = Bits["long"] THEN "LONG" ELSE "LONG_LONG"
                     [] OTHER -> "INT"
            two == IF c = "l" THEN "LONG_LONG" ELSE "CHAR"
<1>3. {one, two} \cap {"ADAPT_EXP", "POINTER", "UPPERCASE"} = {}
  OBVIOUS
<1>. HIDE DEF one, two
<1>4. CASE c \notin Long
  BY <1>4 DEF ParseLength
<1>5. CASE c \in {"l", "h"} /\ Char(p.i + 1) = c
  <2>1. c # NUL
    BY <1>5, NotNUL
  <2>2. ParseLength(p) = Advance([With(one) EXCEPT !.flags = @ \cup {two}])
    BY <1>5 DEF ParseLength, one, two
  <2>3. Read(With(one)) /\ Char(With(one).i) # NUL
    BY <1>1, <1>3, <1>5, <2>1
  <2>. HIDE DEF With
  <2>. QED
    BY <1>2, <1>3, <2>2, <2>3
<1>6. CASE c \in Long /\ ~(c \in {"l", "h"} /\ Char(p.i + 1) = c)
  <2>1. c # NUL
    BY <1>6, NotNUL
  <2>2. ParseLength(p) = With(one)
    BY <1>6 DEF ParseLength, one, two
  <2>. QED
    BY <1>1, <1>3, <2>1, <2>2
<1>. QED
  BY <1>4, <1>5, <1>6

\* format_string_loop reads a directive, from its % on, no further than the end of the format.
LEMMA DirectiveReads ==
    ASSUME CString, at \in Nat \ {0}, at < End, va \in Nat
    PROVE  Read(Directive)
<1>. DEFINE first  == Advance(NotParsed)
            second == IF first.cut THEN first ELSE ParseWidth(ParseFlags(first))
            third  == IF second.cut THEN second ELSE ParsePrecision(second)
<1>1. Read(NotParsed) /\ NotParsed.i < End
  BY CharIs DEF Read, Parsed, NotParsed, CString, End
<1>2. Read(first) /\ Fresh(first)
  BY <1>1, AdvanceReads DEF Fresh, Advance, NotParsed
<1>. HIDE DEF first
<1>3. Read(second) /\ (second.cut \/ Fresh(second))
  BY <1>2, ParseFlagsReads, ParseWidthReads
<1>. HIDE DEF second
<1>4. Read(third)
  BY <1>3, ParsePrecisionReads
<1>. HIDE DEF third
<1>5. Directive = IF third.cut THEN third ELSE ParseLength(third)
  BY DEF Directive, Then, first, second, third
<1>. QED
  BY <1>4, <1>5, ParseLengthReads

----------------------------------------------------------------------------
(* Floating point: which powers of ten are read *)

IsParts(parts) == DOMAIN parts = {"integral", "fractional", "inside"} /\ parts.inside \in BOOLEAN

\* A number of digits for which there is a power of ten.
Supported(precision) == precision \in 0..SupportedPrecision

LEMMA ComponentsInside ==
    ASSUME NEW a, NEW precision
    PROVE  /\ IsParts(GetComponents(a, precision))
           /\ GetComponents(a, precision).inside <=> Supported(precision)
<1>. DEFINE parts == Carried(Trunc(a), RoundedToEven(Scale(Less(a, Trunc(a)), precision)), precision)
<1>1. IsParts(parts) /\ parts.inside
  BY DEF Carried, Parts, IsParts
<1>2. IsParts(Outside) /\ ~Outside.inside
  BY DEF Outside, IsParts
<1>. HIDE DEF parts
<1>3. IsParts(TieToEven(a, parts)) /\ TieToEven(a, parts).inside
  BY <1>1 DEF TieToEven, IsParts
<1>4. CASE precision \notin PowersOf10
  <2>1. GetComponents(a, precision) = Outside
    BY <1>4, SizesAssumption DEF GetComponents, PowersOf10
  <2>. QED
    BY <1>2, <1>4, <2>1 DEF PowersOf10, Supported
<1>5. CASE precision \in PowersOf10
  <2>1. GetComponents(a, precision) = IF precision = 0 THEN TieToEven(a, parts) ELSE parts
    BY <1>5 DEF GetComponents, PowersOf10, parts
  <2>. QED
    BY <1>1, <1>3, <1>5, <2>1 DEF PowersOf10, Supported
<1>. QED
  BY <1>4, <1>5

LEMMA MantissaInside ==
    ASSUME NEW a, NEW precision, NEW exp10
    PROVE  /\ IsParts(Mantissa(a, precision, exp10))
           /\ Mantissa(a, precision, exp10).inside <=> Supported(precision)
<1>. DEFINE parts == Normalized(a, Trunc(Scale(a, -exp10)), precision, -exp10)
<1>1. IsParts(parts) /\ parts.inside
  BY DEF Normalized, Carried, Parts, IsParts
<1>2. IsParts(Outside) /\ ~Outside.inside
  BY DEF Outside, IsParts
<1>3. CASE exp10 = 0
  BY <1>3, ComponentsInside DEF Mantissa
<1>4. CASE exp10 # 0 /\ precision - exp10 >= MaxExp10 - 1
  BY <1>4, ComponentsInside DEF Mantissa, GetNormalizedComponents
<1>5. CASE exp10 # 0 /\ ~(precision - exp10 >= MaxExp10 - 1)
  <2>1. Mantissa(a, precision, exp10) = IF precision \notin PowersOf10 THEN Outside ELSE parts
    BY <1>5 DEF Mantissa, GetNormalizedComponents
  <2>. QED
    BY <1>1, <1>2, <2>1 DEF PowersOf10, Supported
<1>. QED
  BY <1>3, <1>4, <1>5

\* print_exponential_number reads the power of its precision, and for %g in decimal notation
\* that of the decimals it is left with.
LEMMA NormalizedInside ==
    ASSUME NEW a, NEW exp10 \in Int, NEW negative, NEW precision \in Nat, NEW width, NEW flags,
           NEW buf,
           ~PrintNormalized(a, exp10, negative, precision, width, flags, buf).inside
    PROVE  \/ precision > SupportedPrecision
           \/ /\ "ADAPT_EXP" \in flags
              /\ exp10 >= -5 /\ precision - exp10 > SupportedPrecision
<1>. DEFINE parts    == Mantissa(a, precision, exp10)
            rolled   == RolledOver(parts, exp10)
            decimals == Max({precision - rolled.exponent, 0})
<1>. USE SizesAssumption
<1>1. IsParts(parts) /\ (parts.inside <=> Supported(precision))
  BY MantissaInside
<1>. HIDE DEF parts
<1>2. rolled.exponent \in {exp10, exp10 + 1} /\ (rolled.parts.inside <=> parts.inside)
  BY <1>1 DEF RolledOver, IsParts
<1>. HIDE DEF rolled
<1>3. PrintNormalized(a, exp10, negative, precision, width, flags, buf).inside
        <=> IF FallsBackToDecimal(flags, rolled.exponent, precision)
          THEN rolled.parts.inside /\ GetComponents(a, decimals).inside
          ELSE rolled.parts.inside
  BY DEF PrintNormalized, PrintRolled, rolled, parts
<1>4. decimals = IF precision - rolled.exponent >= 0 THEN precision - rolled.exponent ELSE 0
  BY <1>2, MaxOfTwo
<1>5. CASE ~Supported(precision)
  BY <1>5 DEF Supported
<1>6. CASE Supported(precision)
  <2>1. /\ "ADAPT_EXP" \in flags /\ rolled.exponent >= -4
        /\ ~Supported(decimals)
    BY <1>1, <1>2, <1>3, <1>6, ComponentsInside DEF FallsBackToDecimal
  <2>. HIDE DEF decimals
  <2>2. precision - rolled.exponent > SupportedPrecision
    BY <1>2, <1>4, <2>1 DEF Supported
  <2>. QED
    BY <1>2, <2>1, <2>2
<1>. QED
  BY <1>5, <1>6

LEMMA ExponentialInside ==
    ASSUME NEW x, FlooredExp10(x) \in Int, NEW precision \in Nat, NEW width, NEW flags, NEW buf,
           ~PrintExponentialNumber(x, precision, width, flags, buf).inside
    PROVE  IF "ADAPT_EXP" \in flags
           THEN \/ precision - 1 > SupportedPrecision
                \/ /\ FlooredExp10(x) >= -5
                   /\ Max({precision - 1, 0}) - FlooredExp10(x) > SupportedPrecision
           ELSE precision > SupportedPrecision
<1>. DEFINE p == IF "ADAPT_EXP" \in flags THEN Max({precision - 1, 0}) ELSE precision
<1>1. Max({precision - 1, 0}) = IF precision - 1 >= 0 THEN precision - 1 ELSE 0
  BY MaxOfTwo
<1>2. p \in Nat
  BY <1>1
<1>. DEFINE a == Frac(x.num, x.den)
<1>3. ~PrintNormalized(a, FlooredExp10(x), x.neg, p, width, flags, buf).inside
  BY DEF PrintExponentialNumber
<1>. HIDE DEF p, a
<1>4. \/ p > SupportedPrecision
      \/ "ADAPT_EXP" \in flags /\ FlooredExp10(x) >= -5
         /\ p - FlooredExp10(x) > SupportedPrecision
  BY <1>2, <1>3, NormalizedInside
<1>. QED
  BY <1>1, <1>4, SizesAssumption DEF p

\* What the zeros leave of a precision is supported up to the size of the buffer.
LEMMA ZerosLeave ==
    ASSUME NEW precision \in Nat
    PROVE  /\ precision - ZerosBeyond(precision) \in Nat
           /\ precision - ZerosBeyond(precision) > SupportedPrecision
                => precision > SupportedPrecision + DecimalBufferSize
           /\ precision <= SupportedPrecision + DecimalBufferSize
                => precision - ZerosBeyond(precision) = Min({precision, SupportedPrecision})
<1>1. {precision - SupportedPrecision, DecimalBufferSize, SupportedPrecision} \subseteq Int
      /\ DecimalBufferSize > 0 /\ SupportedPrecision >= 0
  BY SizesAssumption
<1>2. Min({precision - SupportedPrecision, DecimalBufferSize})
        = IF precision - SupportedPrecision <= DecimalBufferSize
          THEN precision - SupportedPrecision ELSE DecimalBufferSize
  BY <1>1, MinOfTwo
<1>3. ZerosBeyond(precision)
        = IF precision - SupportedPrecision <= 0 THEN 0
          ELSE IF precision - SupportedPrecision <= DecimalBufferSize
          THEN precision - SupportedPrecision ELSE DecimalBufferSize
  BY <1>1, <1>2, MaxOfTwo DEF ZerosBeyond
<1>4. Min({precision, SupportedPrecision})
        = IF precision <= SupportedPrecision THEN precision ELSE SupportedPrecision
  BY <1>1, MinOfTwo
<1>. QED
  BY <1>1, <1>3, <1>4

\* powers_of_10 is read within its bounds, unless the directive is TooPrecise.
LEMMA FloatInside ==
    ASSUME NEW d, d.precision \in Nat, "ADAPT_EXP" \notin d.flags, NEW conv \in FloatConv,
           NEW x, IsDouble(x), ~FloatText(d, conv, x).inside
    PROVE  TooPrecise(d, conv, x)
<1>. DEFINE flags == d.flags \cup (IF conv \in {"F", "E", "G"} THEN {"UPPERCASE"} ELSE {})
                            \cup (IF conv \in {"g", "G"} THEN {"ADAPT_EXP"} ELSE {})
            exponential == conv \notin {"f", "F"}
            precision   == IF "PRECISION" \in d.flags THEN d.precision ELSE DefaultPrecision
            zeros       == ZerosBeyond(precision)
<1>1. ~PrintFloatingPoint(x, d.precision, d.width, flags, exponential).inside
  BY DEF FloatText
<1>2. /\ "PRECISION" \in flags <=> "PRECISION" \in d.flags
      /\ "ADAPT_EXP" \in flags <=> conv \in {"g", "G"}
  OBVIOUS
<1>. HIDE DEF flags
<1>3. precision \in Nat /\ FlooredExp10(x) \in Int /\ SupportedPrecision \in Nat
  BY SizesAssumption DEF IsDouble
<1>4. x.kind = "num"
  <2>1. x.kind \in {"nan", "inf", "num"}
    BY DEF IsDouble
  <2>. QED
    BY <1>1, <2>1 DEF PrintFloatingPoint
<1>5. CASE IsLarge(x) /\ ~exponential
  <2>1. ~PrintExponentialNumber(x, d.precision, d.width, flags, <<>>).inside
    BY <1>1, <1>4, <1>5 DEF PrintFloatingPoint
  <2>2. d.precision > SupportedPrecision
    BY <1>2, <1>3, <1>5, <2>1, ExponentialInside
  <2>. QED
    BY <1>4, <1>5, <2>2 DEF TooPrecise
<1>6. CASE ~(IsLarge(x) /\ ~exponential)
  <2>1. ~PrintFinite(x, precision, zeros, d.width, flags, exponential).inside
    BY <1>1, <1>2, <1>4, <1>6 DEF PrintFloatingPoint
  <2>. HIDE DEF precision
  <2>2. CASE precision > SupportedPrecision + DecimalBufferSize
    BY <1>4, <2>2 DEF TooPrecise, precision
  <2>3. CASE ~(precision > SupportedPrecision + DecimalBufferSize)
    <3>1. precision - zeros \in Nat /\ precision - zeros <= SupportedPrecision
      <4>1. precision - zeros \in Nat /\ ~(precision - zeros > SupportedPrecision)
        BY <1>3, <2>3, ZerosLeave
      <4>. QED
        BY <1>3, <4>1
    <3>2. precision - zeros = Min({precision, SupportedPrecision})
      <4>1. precision <= SupportedPrecision + DecimalBufferSize
        BY <1>3, <2>3, SizesAssumption
      <4>. QED
        BY <1>3, <4>1, ZerosLeave
    <3>. HIDE DEF zeros
    <3>3. exponential
      <4>1. ASSUME ~exponential PROVE FALSE
        <5>1. ~GetComponents(x, precision - zeros).inside
          BY <2>1, <4>1 DEF PrintFinite
        <5>. QED
          BY <1>3, <3>1, <5>1, ComponentsInside DEF Supported
      <4>. QED
        BY <4>1
    <3>4. ~PrintExponentialNumber(x, precision - zeros, d.width, flags, Repeat("0", zeros)).inside
      BY <2>1, <3>3 DEF PrintFinite
    <3>5. /\ conv \in {"g", "G"} /\ FlooredExp10(x) >= -5
          /\ Max({precision - zeros - 1, 0}) - FlooredExp10(x) > SupportedPrecision
      <4>. DEFINE q == precision - zeros
      <4>1. q \in Nat /\ q <= SupportedPrecision
        BY <3>1
      <4>2. ~PrintExponentialNumber(x, q, d.width, flags, Repeat("0", zeros)).inside
        BY <3>4
      <4>. HIDE DEF q
      <4>3. /\ "ADAPT_EXP" \in flags /\ FlooredExp10(x) >= -5
            /\ Max({q - 1, 0}) - FlooredExp10(x) > SupportedPrecision
        BY <1>3, <4>1, <4>2, ExponentialInside
      <4>. QED
        BY <1>2, <4>3 DEF q
    <3>. QED
      BY <1>4, <3>2, <3>5 DEF TooPrecise, precision
  <2>. QED
    BY <2>2, <2>3
<1>. QED
  BY <1>5, <1>6

----------------------------------------------------------------------------
(* The calls *)

\* Where a call is in its format: not behind the NUL, unless the format ends in a field.
Position ==
    /\ CString
    /\ va \in Nat \ {0}
    /\ at \in 1..(End + 1)
    /\ pc = "idle" => at = 1 /\ va = 1
    /\ at = End + 1 => EndsInField
    /\ pc = "convert" => at < End /\ Read(parse) /\ ~parse.cut

ReadInv == Position /\ StaysInside

\* Every call starts at the first character of a C string.
LEMMA ReadInit == Init => ReadInv
<1>. SUFFICES ASSUME Init PROVE ReadInv
  OBVIOUS
<1>1. call.format = <<>> /\ Range(<<>>) = {}
  BY DEF Init, Range
<1>2. call.format \in Seq(Range(call.format) \ {NUL}) /\ Len(call.format) = 0
  BY <1>1
<1>. QED
  BY <1>2 DEF Init, ReadInv, Position, StaysInside, CString, End

\* The turn ends behind the specifier, which is no NUL but where a format that ends in a
\* field prints its NUL.
LEMMA TurnReads ==
    ASSUME ReadInv, pc = "convert", NEW n \in {0, 1}, NextTurn(n)
    PROVE  ReadInv'
<1>1. End \in Nat \ {0} /\ parse.i \in 1..End /\ (parse.i = End => EndsInField) /\ parse.va \in Nat
  BY CharIs DEF ReadInv, Position, Read
<1>2. parse.va >= va
  BY DEF ReadInv, Position, Read
<1>3. CString' /\ End' = End /\ (EndsInField => EndsInField')
  BY DEF ReadInv, Position, NextTurn, CString, End, EndsInField
<1>4. at' = parse.i + 1 /\ va' = parse.va + n /\ pc' = "loop"
  BY DEF NextTurn
<1>5. va' \in Nat \ {0} /\ at' \in 1..(End + 1) /\ (at' = End + 1 => parse.i = End)
  BY <1>1, <1>2, <1>4 DEF ReadInv, Position
<1>6. Position'
  BY <1>1, <1>3, <1>4, <1>5 DEF Position
<1>. QED
  BY <1>4, <1>6 DEF ReadInv, StaysInside

LEMMA ReadNext == ReadInv /\ [Next]_vars => ReadInv'
<1>. SUFFICES ASSUME ReadInv, [Next]_vars PROVE ReadInv'
  OBVIOUS
<1>. USE DEF ReadInv
<1>0. End \in Nat \ {0}
  BY CharIs DEF Position, CString, End
<1>1. CASE UNCHANGED vars
  BY <1>1 DEF vars, Position, StaysInside, CString, End, EndsInField, Read, Parsed, Typed, Argument,
              Specifier, Char
<1>2. CASE Enter \/ EnterWithoutFunction
  <2>1. call' \in Calls /\ pc = "idle" /\ pc' \in {"loop", "done"} /\ at' = 1 /\ va' = 1
    BY <1>2 DEF Enter, EnterWithoutFunction, Position
  <2>2. CString'
    BY <2>1, FormatsAssumption DEF CString
  <2>3. Len(call'.format) \in Nat
    BY <2>2 DEF CString
  <2>4. Position'
    BY <2>1, <2>2, <2>3 DEF Position, End
  <2>. QED
    BY <2>1, <2>4 DEF StaysInside
<1>3. CASE Ordinary
  <2>1. at < End
    BY <1>0, <1>3 DEF Ordinary, InLoop, End, Position
  <2>2. Position'
    BY <1>0, <1>3, <2>1 DEF Ordinary, InLoop, Position, CString, End, EndsInField
  <2>. QED
    BY <1>3, <2>2 DEF Ordinary, InLoop, StaysInside
<1>4. CASE Parse
  <2>1. at < End /\ at \in Nat \ {0} /\ va \in Nat
    BY <1>0, <1>4 DEF Parse, InLoop, End, Position
  <2>2. Read(Directive)
    BY <2>1, DirectiveReads DEF Position
  <2>3. UNCHANGED <<call, at, va>> /\ parse' = Directive /\ pc' = IF parse'.cut THEN "end" ELSE "convert"
    BY <1>4 DEF Parse
  <2>. HIDE DEF Directive
  <2>4. Read(parse)'
    BY <2>2, <2>3 DEF Read, Parsed, End, EndsInField
  <2>5. Position'
    BY <2>1, <2>3, <2>4 DEF Position, CString, End, EndsInField
  <2>. QED
    BY <2>3, <2>5 DEF StaysInside
<1>5. CASE PrintIntegerDirective
  BY <1>5, TurnReads DEF PrintIntegerDirective, Specified
<1>6. CASE PrintFloatDirective
  <2>1. pc = "convert" /\ Specifier \in FloatConv
    BY <1>6 DEF PrintFloatDirective, Specified
  <2>2. CASE NextTurn(1)
    BY <2>1, <2>2, TurnReads
  <2>3. CASE ~FloatText(parse, Specifier, Argument).inside /\ pc' = "outside"
             /\ UNCHANGED <<call, at, va, parse>>
    <3>1. Typed => TooPrecise(parse, Specifier, Argument)
      <4>. SUFFICES ASSUME Typed PROVE TooPrecise(parse, Specifier, Argument)
        OBVIOUS
      <4>1. parse.precision \in Nat /\ "ADAPT_EXP" \notin parse.flags
        BY <2>1 DEF Position, Read, Parsed, Typed
      <4>. QED
        BY <2>1, <2>3, <4>1, FloatInside DEF Typed
    <3>2. (Typed => TooPrecise(parse, Specifier, Argument))'
      BY <2>3, <3>1 DEF Typed, Argument, Specifier, Char
    <3>3. Position'
      BY <2>1, <2>3 DEF Position, CString, End, EndsInField
    <3>4. at' <= Len(call.format)'
      BY <1>0, <2>1, <2>3 DEF Position, End
    <3>. QED
      BY <3>2, <3>3, <3>4 DEF StaysInside
  <2>. QED
    BY <1>6, <2>2, <2>3 DEF PrintFloatDirective
<1>7. CASE PrintTextDirective
  BY <1>7, TurnReads DEF PrintTextDirective, Specified
<1>8. CASE WriteBack
  BY <1>8, TurnReads DEF WriteBack, Specified
<1>9. CASE PrintItself
  BY <1>9, TurnReads DEF PrintItself
<1>10. CASE ReadBehindFormat
  <2>1. /\ pc = "loop" /\ at > Len(call.format) + 1 /\ pc' = "outside"
        /\ UNCHANGED <<call, at, va, parse>>
    BY <1>10 DEF ReadBehindFormat
  <2>2. at = Len(call.format) + 2 /\ EndsInField
    BY <1>0, <2>1 DEF Position, End
  <2>3. Position'
    BY <2>1 DEF Position, CString, End, EndsInField
  <2>. QED
    BY <2>1, <2>2, <2>3 DEF StaysInside, EndsInField
<1>11. CASE LeaveLoop \/ Terminate
  <2>1. pc' \in {"end", "done"} /\ UNCHANGED <<call, at, va, parse>>
    BY <1>11 DEF LeaveLoop, Terminate
  <2>. QED
    BY <2>1 DEF Position, StaysInside, CString, End, EndsInField
<1>12. CASE Return
  <2>1. call'.format = <<>> /\ Len(call'.format) = 0 /\ pc' = "idle" /\ at' = 1 /\ va' = 1
    BY <1>12 DEF Return
  <2>2. CString'
    BY <2>1 DEF CString
  <2>. QED
    BY <2>1, <2>2 DEF Position, StaysInside, End
<1>. QED
  BY <1>1, <1>2, <1>3, <1>4, <1>5, <1>6, <1>7, <1>8, <1>9, <1>10, <1>11, <1>12 DEF Next

\* format_string_loop leaves the format behind only where its end is not checked for, and
\* the table of powers only with a directive that asks for more decimals than it has.
THEOREM ReadsStayInside == Spec => []StaysInside
<1>1. Init => ReadInv
  BY ReadInit
<1>2. ReadInv /\ [Next]_vars => ReadInv'
  BY ReadNext
<1>3. ReadInv => StaysInside
  BY DEF ReadInv
<1>. QED
  BY <1>1, <1>2, <1>3, PTL DEF Spec

----------------------------------------------------------------------------
(* The digits of an integer *)

Bases == {2, 8, 10, 16}

\* What the recursive function Power computes.
LEMMA PowerIs ==
    ASSUME NEW b \in Nat \ {0}
    PROVE  /\ Power(b, 0) = 1
           /\ \A n \in Nat : Power(b, n + 1) = b * Power(b, n)
           /\ \A n \in Nat : Power(b, n) \in Nat \ {0}
<1>. DEFINE h == [n \in Nat \ {0} |-> [p \in Nat \ {0} |-> b * p]]
            prev == [n \in Nat \ {0} |-> n - 1]
            IsP(f) == f = [n \in Nat |-> IF n = 0 THEN 1 ELSE b * f[n - 1]]
            P == CHOOSE f : IsP(f)
<1>1. PICK f \in [Nat -> Nat \ {0}] : \A n \in Nat : f[n] = IF n = 0 THEN 1 ELSE h[n][f[prev[n]]]
  <2>1. \A p \in Nat \ {0} : b * p \in Nat \ {0}
    OBVIOUS
  <2>2. h \in [Nat \ {0} -> [Nat \ {0} -> Nat \ {0}]]
    BY <2>1
  <2>3. prev \in [Nat \ {0} -> Nat] /\ \A n \in Nat \ {0} : prev[n] < n
    OBVIOUS
  <2>. DEFINE one == 1
              X == Nat \ {0}
  <2>4. one \in X /\ h \in [Nat \ {0} -> [X -> X]]
    BY <2>2
  <2>. HIDE DEF h, prev, one, X
  <2>5. \E f \in [Nat -> X] : Recurs(f, one, prev, h)
    BY <2>3, <2>4, Recursion
  <2>. QED
    BY <2>5 DEF one, X, Recurs
<1>2. IsP(f)
  <2>1. ASSUME NEW n \in Nat PROVE f[n] = IF n = 0 THEN 1 ELSE b * f[n - 1]
    <3>1. CASE n = 0
      BY <1>1, <3>1
    <3>2. CASE n # 0
      <4>1. prev[n] = n - 1 /\ n - 1 \in Nat /\ f[n - 1] \in Nat \ {0}
        BY <1>1, <3>2
      <4>2. f[n] = h[n][f[n - 1]]
        BY <1>1, <3>2, <4>1
      <4>. QED
        BY <3>2, <4>1, <4>2
    <3>. QED
      BY <3>1, <3>2
  <2>. QED
    BY <1>1, <2>1
<1>3. IsP(P)
  <2>. HIDE DEF IsP
  <2>. QED
    BY <1>2
<1>4. \A n \in Nat : Power(b, n) = P[n]
  BY DEF Power
<1>. HIDE DEF P
<1>5. P[0] = 1 /\ \A n \in Nat : P[n + 1] = b * P[n]
  <2>1. \A n \in Nat : n + 1 \in Nat /\ n + 1 # 0 /\ (n + 1) - 1 = n
    OBVIOUS
  <2>. QED
    BY <1>3, <2>1
<1>. DEFINE Positive == {n \in Nat : P[n] \in Nat \ {0}}
<1>6. Positive = Nat
  <2>1. ASSUME NEW n \in Nat, \A m \in 0..(n - 1) : m \in Positive PROVE n \in Positive
    <3>1. CASE n = 0
      BY <1>5, <3>1
    <3>2. CASE n # 0
      <4>1. n - 1 \in 0..(n - 1) /\ (n - 1) + 1 = n /\ n - 1 \in Nat
        BY <3>2
      <4>2. P[n - 1] \in Nat \ {0}
        BY <2>1, <4>1
      <4>3. P[n] = b * P[n - 1]
        BY <1>5, <4>1
      <4>. QED
        BY <4>2, <4>3
    <3>. QED
      BY <3>1, <3>2
  <2>. HIDE DEF Positive
  <2>2. Positive \in SUBSET Nat
    BY DEF Positive
  <2>. QED
    BY <2>1, <2>2, Induction
<1>7. \A n \in Nat : n \in Positive
  <2>. HIDE DEF Positive
  <2>. QED
    BY <1>6
<1>8. \A n \in Nat : P[n] \in Nat \ {0}
  BY <1>7
<1>9. \A n \in Nat : n + 1 \in Nat
  OBVIOUS
<1>. QED
  BY <1>4, <1>5, <1>8, <1>9

\* A higher power is no smaller.
LEMMA PowerGrows ==
    ASSUME NEW b \in Nat \ {0}, NEW m \in Nat, NEW n \in Nat, m <= n
    PROVE  Power(b, m) <= Power(b, n)
<1>. DEFINE No == {k \in Nat : Power(b, m) <= Power(b, m + k)}
<1>1. \A k \in Nat : Power(b, k) \in Nat \ {0} /\ Power(b, k + 1) = b * Power(b, k)
  BY PowerIs
<1>2. No = Nat
  <2>1. ASSUME NEW k \in Nat, \A j \in 0..(k - 1) : j \in No PROVE k \in No
    <3>1. CASE k = 0
      <4>1. m + 0 = m /\ Power(b, m) \in Nat
        BY <1>1
      <4>. QED
        BY <3>1, <4>1
    <3>2. CASE k # 0
      <4>. DEFINE p == Power(b, m + (k - 1))
      <4>1. k - 1 \in 0..(k - 1) /\ m + (k - 1) \in Nat /\ (m + (k - 1)) + 1 = m + k
        BY <3>2
      <4>2. Power(b, m) <= p /\ p \in Nat /\ Power(b, m + k) = b * p /\ Power(b, m) \in Nat
        BY <1>1, <2>1, <4>1
      <4>. HIDE DEF p
      <4>3. b * p >= p /\ b * p \in Int
        BY <4>2
      <4>. QED
        BY <4>2, <4>3
    <3>. QED
      BY <3>1, <3>2
  <2>. HIDE DEF No
  <2>2. No \in SUBSET Nat
    BY DEF No
  <2>. QED
    BY <2>1, <2>2, Induction
<1>3. n - m \in Nat /\ m + (n - m) = n
  OBVIOUS
<1>4. n - m \in No
  <2>. HIDE DEF No
  <2>. QED
    BY <1>2, <1>3
<1>. QED
  BY <1>3, <1>4

\* What a quotient leaves is less than the divisor.
LEMMA Quotient ==
    ASSUME NEW v \in Nat, NEW p \in Nat \ {0}
    PROVE  v \div p \in Nat /\ p * (v \div p) <= v /\ v < p * (v \div p) + p
  OBVIOUS

\* Multiples in order have factors in order.
LEMMA TimesOrder ==
    ASSUME NEW p \in Int, p > 0, NEW m \in Int, NEW n \in Int, p * m < p * n + p
    PROVE  m <= n
  OBVIOUS

\* The quotient is the only number of which that holds.
LEMMA QuotientIs ==
    ASSUME NEW v \in Nat, NEW p \in Nat \ {0}, NEW q \in Nat, p * q <= v, v < p * q + p
    PROVE  v \div p = q
<1>. DEFINE d == v \div p
<1>1. d \in Nat /\ p * d <= v /\ v < p * d + p
  BY Quotient
<1>. HIDE DEF d
<1>2. p * d \in Int /\ p * q \in Int
  BY <1>1
<1>3. p * d < p * q + p /\ p * q < p * d + p
  BY <1>1, <1>2
<1>4. d <= q /\ q <= d
  BY <1>1, <1>3, TimesOrder
<1>. QED
  BY <1>1, <1>4 DEF d

\* Dividing twice divides by the product.
LEMMA DivideTwice ==
    ASSUME NEW v \in Nat, NEW p \in Nat \ {0}, NEW b \in Nat \ {0}
    PROVE  (v \div p) \div b = v \div (b * p)
<1>. DEFINE q == v \div p
            s == q \div b
            n == b * p
<1>1. q \in Nat /\ p * q <= v /\ v < p * q + p
  BY Quotient
<1>. HIDE DEF q
<1>2. s \in Nat /\ b * s <= q /\ q < b * s + b
  BY <1>1, Quotient
<1>. HIDE DEF s
<1>3. n \in Nat \ {0} /\ n * s \in Int /\ p * q \in Int /\ n * s = p * (b * s)
  BY <1>1, <1>2
<1>4. n * s <= v
  <2>1. b * s \in Int /\ p * (b * s) <= p * q
    BY <1>1, <1>2
  <2>. QED
    BY <1>1, <1>3, <2>1
<1>5. v < n * s + n
  <2>1. b * s \in Int /\ q + 1 <= b * s + b
    BY <1>1, <1>2
  <2>2. p * (q + 1) <= p * (b * s + b)
    BY <1>1, <2>1
  <2>3. p * (q + 1) = p * q + p /\ p * (b * s + b) = p * (b * s) + n
    BY <1>1, <2>1
  <2>. QED
    BY <1>1, <1>3, <2>2, <2>3
<1>. HIDE DEF n
<1>6. v \div n = s
  BY <1>2, <1>3, <1>4, <1>5, QuotientIs
<1>. QED
  BY <1>6 DEF q, s, n

\* The characters of numbers and fields.
Glyphs == {"0", "1", "2", "3", "4", "5", "6", "7", "8", "9", "A", "B", "C", "D", "E", "F",
           "a", "b", "c", "d", "e", "f", "x", "X", "+", "-", " "}

\* Only the digit 0 is written '0'.
LEMMA GlyphIs ==
    ASSUME NEW d \in 0..15, NEW upper \in BOOLEAN
    PROVE  DigitChar(d, upper) \in Glyphs /\ (DigitChar(d, upper) = "0" <=> d = 0)
<1>1. /\ DigitChar(d, TRUE) \in {"0", "1", "2", "3", "4", "5", "6", "7", "8", "9",
                                 "A", "B", "C", "D", "E", "F"}
      /\ DigitChar(d, FALSE) \in {"0", "1", "2", "3", "4", "5", "6", "7", "8", "9",
                                  "a", "b", "c", "d", "e", "f"}
  BY DEF DigitChar
<1>2. DigitChar(d, TRUE) \in Glyphs /\ DigitChar(d, FALSE) \in Glyphs
  BY <1>1 DEF Glyphs
<1>3. (DigitChar(d, TRUE) = "0" <=> d = 0) /\ (DigitChar(d, FALSE) = "0" <=> d = 0)
  BY DEF DigitChar
<1>4. upper = TRUE \/ upper = FALSE
  OBVIOUS
<1>. QED
  BY <1>2, <1>3, <1>4

\* The lowest digit, and what is left without it.
LEMMA LowDigit ==
    ASSUME NEW b \in Bases, NEW v \in Nat \ {0}
    PROVE  v % b \in 0..(b - 1) /\ v % b \in 0..15 /\ v \div b \in Nat /\ v \div b < v
  BY DEF Bases

\* What the recursive function LowDigits computes.
LEMMA LowDigitsStep ==
    ASSUME NEW b \in Bases, NEW upper \in BOOLEAN
    PROVE  /\ LowDigits(0, b, upper) = <<>>
           /\ \A v \in Nat \ {0} :
                 LowDigits(v, b, upper) = <<DigitChar(v % b, upper)>> \o LowDigits(v \div b, b, upper)
           /\ \A v \in Nat : LowDigits(v, b, upper) \in Seq(Glyphs)
<1>. DEFINE low(n) == DigitChar(n % b, upper)
            X == Seq(Glyphs)
            h == [n \in Nat \ {0} |-> [s \in X |-> <<low(n)>> \o s]]
            prev == [n \in Nat \ {0} |-> n \div b]
            IsD(f) == f = [n \in Nat |-> IF n = 0 THEN <<>> ELSE <<low(n)>> \o f[n \div b]]
            D == CHOOSE f : IsD(f)
            none == <<>>
<1>1. \A n \in Nat \ {0} : low(n) \in Glyphs /\ n \div b \in Nat /\ n \div b < n
  BY LowDigit, GlyphIs
<1>0. <<>> \in X /\ \A n \in Nat \ {0} : \A s \in X : <<low(n)>> \o s \in X
  BY <1>1
<1>. HIDE DEF low
<1>2. PICK f \in [Nat -> X] : Recurs(f, none, prev, h)
  <2>1. \A n \in Nat \ {0} : \A s \in X : <<low(n)>> \o s \in X
    BY <1>1
  <2>2. h \in [Nat \ {0} -> [X -> X]]
    BY <2>1
  <2>3. prev \in [Nat \ {0} -> Nat] /\ \A n \in Nat \ {0} : prev[n] < n
    BY <1>1
  <2>4. none \in X
    OBVIOUS
  <2>. HIDE DEF h, prev, none, X
  <2>. QED
    BY <2>2, <2>3, <2>4, Recursion
<1>3. IsD(f)
  <2>1. ASSUME NEW n \in Nat PROVE f[n] = IF n = 0 THEN <<>> ELSE <<low(n)>> \o f[n \div b]
    <3>1. CASE n = 0
      BY <1>2, <3>1 DEF Recurs
    <3>2. CASE n # 0
      <4>1. prev[n] = n \div b /\ n \div b \in Nat /\ f[n \div b] \in X
        BY <1>1, <1>2, <3>2
      <4>2. f[n] = h[n][f[n \div b]]
        BY <1>2, <3>2, <4>1 DEF Recurs
      <4>. QED
        BY <3>2, <4>1, <4>2
    <3>. QED
      BY <3>1, <3>2
  <2>. QED
    BY <1>2, <2>1
<1>4. IsD(D)
  <2>. HIDE DEF IsD
  <2>. QED
    BY <1>3
<1>5. \A n : LowDigits(n, b, upper) = D[n]
  BY DEF LowDigits, low
<1>. HIDE DEF D
<1>6. D[0] = <<>> /\ \A n \in Nat \ {0} : D[n] = <<low(n)>> \o D[n \div b]
  BY <1>4
<1>. DEFINE Fine == {n \in Nat : D[n] \in X}
<1>7. Fine = Nat
  <2>. HIDE DEF X
  <2>1. ASSUME NEW n \in Nat, \A m \in 0..(n - 1) : m \in Fine PROVE n \in Fine
    <3>1. CASE n = 0
      BY <1>0, <1>6, <3>1
    <3>2. CASE n # 0
      <4>1. n \div b \in 0..(n - 1) /\ low(n) \in Glyphs
        BY <1>1, <3>2
      <4>2. D[n \div b] \in X
        BY <2>1, <4>1
      <4>. QED
        BY <1>0, <1>6, <3>2, <4>2
    <3>. QED
      BY <3>1, <3>2
  <2>. HIDE DEF Fine
  <2>2. Fine \in SUBSET Nat
    BY DEF Fine
  <2>. QED
    BY <2>1, <2>2, Induction
<1>. QED
  BY <1>5, <1>6, <1>7 DEF low

\* The digits of v: as many as it has, the k-th of them the one of the power k - 1.
LEMMA LowDigitsAre ==
    ASSUME NEW b \in Bases, NEW upper \in BOOLEAN, NEW v \in Nat
    PROVE  LET s == LowDigits(v, b, upper)
           IN  /\ s \in Seq(Glyphs)
               /\ \A k \in 1..Len(s) : s[k] = DigitChar((v \div Power(b, k - 1)) % b, upper)
               /\ v < Power(b, Len(s))
               /\ v > 0 => Len(s) > 0 /\ Power(b, Len(s) - 1) <= v
               /\ Len(s) <= v
<1>. DEFINE S(n) == LowDigits(n, b, upper)
            Are(n) == /\ \A k \in 1..Len(S(n)) :
                            S(n)[k] = DigitChar((n \div Power(b, k - 1)) % b, upper)
                      /\ n < Power(b, Len(S(n)))
                      /\ n > 0 => Len(S(n)) > 0 /\ Power(b, Len(S(n)) - 1) <= n
                      /\ Len(S(n)) <= n
            Good == {n \in Nat : Are(n)}
<1>1. /\ S(0) = <<>>
      /\ \A n \in Nat : S(n) \in Seq(Glyphs)
      /\ \A n \in Nat \ {0} : S(n) = <<DigitChar(n % b, upper)>> \o S(n \div b)
  BY LowDigitsStep
<1>. HIDE DEF S
<1>0. b \in Nat \ {0}
  BY DEF Bases
<1>2. b \in Nat \ {0} /\ Power(b, 0) = 1
  BY <1>0, PowerIs
<1>3. \A n \in Nat : Power(b, n + 1) = b * Power(b, n) /\ Power(b, n) \in Nat \ {0}
  BY <1>2, PowerIs
<1>4. Are(0)
  <2>1. S(0) = <<>> /\ Len(S(0)) = 0
    BY <1>1
  <2>. QED
    BY <1>2, <2>1
<1>5. ASSUME NEW n \in Nat \ {0}, Are(n \div b) PROVE Are(n)
  <2>. DEFINE m == n \div b
              t == S(m)
              l == Len(t)
  <2>1. m \in Nat /\ m < n /\ n % b \in Nat /\ b * m <= n /\ n < b * m + b
    BY <1>2, LowDigit, Quotient
  <2>2. t \in Seq(Glyphs) /\ l \in Nat /\ DigitChar(n % b, upper) \in Glyphs
    <3>1. n % b \in 0..15
      BY LowDigit
    <3>2. DigitChar(n % b, upper) \in Glyphs
      BY <3>1, GlyphIs
    <3>3. t \in Seq(Glyphs)
      BY <1>1, <2>1
    <3>. HIDE DEF t
    <3>. QED
      BY <3>2, <3>3
  <2>3. S(n) = <<DigitChar(n % b, upper)>> \o t /\ Len(S(n)) = l + 1
    <3>. DEFINE c == DigitChar(n % b, upper)
    <3>1. S(n) = <<c>> \o t
      BY <1>1
    <3>. HIDE DEF c, t
    <3>2. Len(<<c>> \o t) = Len(t) + 1
      BY <2>2 DEF c
    <3>. QED
      BY <3>1, <3>2 DEF c
  <2>4. m < Power(b, l) /\ l <= m /\ (m > 0 => l > 0 /\ Power(b, l - 1) <= m)
    BY <1>5
  <2>5. ASSUME NEW k \in 1..(l + 1) PROVE S(n)[k] = DigitChar((n \div Power(b, k - 1)) % b, upper)
    <3>1. CASE k = 1
      <4>1. n \div 1 = n
        OBVIOUS
      <4>2. S(n)[1] = DigitChar(n % b, upper)
        BY <2>2, <2>3
      <4>. QED
        BY <1>2, <3>1, <4>1, <4>2
    <3>2. CASE k # 1
      <4>1. k - 1 \in 1..l /\ S(n)[k] = t[k - 1]
        BY <2>2, <2>3, <3>2
      <4>2. t[k - 1] = DigitChar((m \div Power(b, k - 2)) % b, upper)
        BY <1>5, <4>1
      <4>3. k - 2 \in Nat /\ (k - 2) + 1 = k - 1
        BY <3>2
      <4>4. m \div Power(b, k - 2) = n \div Power(b, k - 1)
        <5>. DEFINE p == Power(b, k - 2)
        <5>1. p \in Nat \ {0} /\ Power(b, k - 1) = b * p
          BY <1>3, <4>3
        <5>. HIDE DEF p
        <5>2. (n \div b) \div p = n \div (p * b)
          BY <1>2, <5>1, DivideTwice
        <5>3. p * b = b * p
          BY <1>2, <5>1
        <5>. QED
          BY <5>1, <5>2, <5>3 DEF p
      <4>. QED
        BY <4>1, <4>2, <4>4
    <3>. QED
      BY <3>1, <3>2
  <2>. HIDE DEF m, l
  <2>6. n < Power(b, l + 1)
    <3>. DEFINE p == Power(b, l)
    <3>1. p \in Nat /\ m + 1 <= p /\ Power(b, l + 1) = b * p
      BY <1>3, <2>1, <2>2, <2>4
    <3>. HIDE DEF p
    <3>2. b * (m + 1) <= b * p /\ b * (m + 1) = b * m + b
      BY <1>2, <2>1, <3>1
    <3>. QED
      BY <1>2, <2>1, <3>1, <3>2
  <2>7. Power(b, l) <= n
    <3>1. CASE m = 0
      <4>1. l = 0
        BY <2>2, <2>4, <3>1
      <4>. QED
        BY <1>2, <4>1
    <3>2. CASE m > 0
      <4>. DEFINE p == Power(b, l - 1)
      <4>1. l - 1 \in Nat /\ (l - 1) + 1 = l
        BY <2>2, <2>4, <3>2
      <4>2. p \in Nat /\ p <= m /\ Power(b, l) = b * p
        BY <1>3, <2>4, <3>2, <4>1
      <4>. HIDE DEF p
      <4>3. b * p <= b * m
        BY <1>2, <2>1, <4>2
      <4>. QED
        BY <1>2, <2>1, <4>2, <4>3
    <3>. QED
      BY <2>1, <3>1, <3>2
  <2>8. l + 1 <= n /\ l + 1 > 0 /\ (l + 1) - 1 = l
    BY <2>1, <2>2, <2>4
  <2>. QED
    BY <2>3, <2>5, <2>6, <2>7, <2>8
<1>6. Good = Nat
  <2>1. ASSUME NEW n \in Nat, \A m \in 0..(n - 1) : m \in Good PROVE n \in Good
    <3>. HIDE DEF Are
    <3>1. CASE n = 0
      BY <1>4, <3>1
    <3>2. CASE n # 0
      <4>1. n \div b \in 0..(n - 1)
        BY <3>2, LowDigit
      <4>. QED
        BY <1>5, <2>1, <3>2, <4>1
    <3>. QED
      BY <3>1, <3>2
  <2>. HIDE DEF Good
  <2>2. Good \in SUBSET Nat
    BY DEF Good
  <2>. QED
    BY <2>1, <2>2, Induction
<1>. QED
  BY <1>1, <1>6 DEF S

----------------------------------------------------------------------------
(* Rows of characters *)

\* A row of one character; none at all for a length of 0 or less.
LEMMA RepeatIs ==
    ASSUME NEW S, NEW c \in S, NEW n \in Int
    PROVE  /\ Repeat(c, n) \in Seq(S)
           /\ Len(Repeat(c, n)) = (IF n > 0 THEN n ELSE 0)
           /\ \A i \in 1..Len(Repeat(c, n)) : Repeat(c, n)[i] = c
           /\ n <= 0 => Repeat(c, n) = <<>>
<1>1. Max({n, 0}) = IF n > 0 THEN n ELSE 0
  BY MaxOfTwo
<1>2. Repeat(c, n) = [i \in 1..(IF n > 0 THEN n ELSE 0) |-> c]
  BY <1>1 DEF Repeat
<1>. QED
  BY <1>2

\* The reference's row is the code's.
LEMMA FillIs == \A c, n : T!Fill(c, n) = Repeat(c, n)
  BY DEF T!Fill, Repeat, T!Max, Max

\* A sequence read backwards.
LEMMA BackwardsIs ==
    ASSUME NEW S, NEW s \in Seq(S)
    PROVE  /\ Backwards(s) \in Seq(S)
           /\ Len(Backwards(s)) = Len(s)
           /\ \A i \in 1..Len(s) : Backwards(s)[i] = s[Len(s) + 1 - i]
<1>1. \A i \in 1..Len(s) : s[Len(s) + 1 - i] \in S
  OBVIOUS
<1>. QED
  BY <1>1 DEF Backwards

\* Two sequences, one behind the other.
LEMMA Joined ==
    ASSUME NEW S, NEW s \in Seq(S), NEW t \in Seq(S)
    PROVE  /\ s \o t \in Seq(S)
           /\ Len(s \o t) = Len(s) + Len(t)
           /\ \A i \in 1..(Len(s) + Len(t)) :
                 (s \o t)[i] = IF i <= Len(s) THEN s[i] ELSE t[i - Len(s)]
  OBVIOUS

\* Sequences of one length with the same elements are the same.
LEMMA SameSequence ==
    ASSUME NEW S, NEW s \in Seq(S), NEW t \in Seq(S), Len(s) = Len(t),
           \A i \in 1..Len(s) : s[i] = t[i]
    PROVE  s = t
  OBVIOUS

\* Two rows of a character are one.
LEMMA RowsJoin ==
    ASSUME NEW S, NEW c \in S, NEW m \in Nat, NEW n \in Nat
    PROVE  Repeat(c, m) \o Repeat(c, n) = Repeat(c, m + n)
<1>. DEFINE a == Repeat(c, m)
            b == Repeat(c, n)
            r == Repeat(c, m + n)
<1>0. m \in Int /\ n \in Int /\ m + n \in Int /\ m + n >= 0
  OBVIOUS
<1>1. /\ a \in Seq(S) /\ Len(a) = m /\ \A i \in 1..m : a[i] = c
      /\ b \in Seq(S) /\ Len(b) = n /\ \A i \in 1..n : b[i] = c
      /\ r \in Seq(S) /\ Len(r) = m + n /\ \A i \in 1..(m + n) : r[i] = c
  <2>1. a \in Seq(S) /\ Len(a) = m /\ \A i \in 1..m : a[i] = c
    BY <1>0, RepeatIs
  <2>2. b \in Seq(S) /\ Len(b) = n /\ \A i \in 1..n : b[i] = c
    BY <1>0, RepeatIs
  <2>3. r \in Seq(S) /\ Len(r) = m + n /\ \A i \in 1..(m + n) : r[i] = c
    <3>. DEFINE k == m + n
    <3>1. k \in Int /\ k >= 0
      OBVIOUS
    <3>. HIDE DEF k
    <3>2. Repeat(c, k) \in Seq(S) /\ Len(Repeat(c, k)) = k /\ \A i \in 1..k : Repeat(c, k)[i] = c
      BY <3>1, RepeatIs
    <3>. QED
      BY <3>2 DEF k
  <2>. QED
    BY <2>1, <2>2, <2>3
<1>. HIDE DEF a, b, r
<1>2. /\ a \o b \in Seq(S) /\ Len(a \o b) = m + n
      /\ \A i \in 1..(m + n) : (a \o b)[i] = IF i <= m THEN a[i] ELSE b[i - m]
  BY <1>1, Joined
<1>3. a \o b = r
  BY <1>1, <1>2, SameSequence
<1>. QED
  BY <1>3 DEF a, b, r

\* A row reads the same backwards.
LEMMA RowBackwards ==
    ASSUME NEW S, NEW c \in S, NEW n \in Int
    PROVE  Backwards(Repeat(c, n)) = Repeat(c, n)
<1>. DEFINE r == Repeat(c, n)
<1>1. r \in Seq(S) /\ \A i \in 1..Len(r) : r[i] = c
  BY RepeatIs
<1>. HIDE DEF r
<1>2. /\ Backwards(r) \in Seq(S) /\ Len(Backwards(r)) = Len(r)
      /\ \A i \in 1..Len(r) : Backwards(r)[i] = r[Len(r) + 1 - i]
  BY <1>1, BackwardsIs
<1>3. Backwards(r) = r
  <2>. DEFINE z == Backwards(r)
  <2>1. z \in Seq(S) /\ Len(z) = Len(r) /\ \A i \in 1..Len(r) : z[i] = r[i]
    BY <1>1, <1>2
  <2>. HIDE DEF z
  <2>2. z = r
    BY <1>1, <2>1, SameSequence
  <2>. QED
    BY <2>2 DEF z
<1>. QED
  BY <1>3 DEF r

\* Read backwards, the second comes first.
LEMMA BackwardsJoin ==
    ASSUME NEW S, NEW s \in Seq(S), NEW t \in Seq(S)
    PROVE  Backwards(s \o t) = Backwards(t) \o Backwards(s)
<1>. DEFINE u == Backwards(s)
            v == Backwards(t)
            w == s \o t
            b == Backwards(w)
<1>1. /\ w \in Seq(S) /\ Len(w) = Len(s) + Len(t)
      /\ \A i \in 1..(Len(s) + Len(t)) : w[i] = IF i <= Len(s) THEN s[i] ELSE t[i - Len(s)]
  BY Joined
<1>. HIDE DEF w
<1>2. /\ u \in Seq(S) /\ Len(u) = Len(s) /\ \A i \in 1..Len(s) : u[i] = s[Len(s) + 1 - i]
      /\ v \in Seq(S) /\ Len(v) = Len(t) /\ \A i \in 1..Len(t) : v[i] = t[Len(t) + 1 - i]
      /\ b \in Seq(S) /\ Len(b) = Len(w) /\ \A i \in 1..Len(w) : b[i] = w[Len(w) + 1 - i]
  <2>1. u \in Seq(S) /\ Len(u) = Len(s) /\ \A i \in 1..Len(s) : u[i] = s[Len(s) + 1 - i]
    BY BackwardsIs
  <2>2. v \in Seq(S) /\ Len(v) = Len(t) /\ \A i \in 1..Len(t) : v[i] = t[Len(t) + 1 - i]
    BY BackwardsIs
  <2>3. b \in Seq(S) /\ Len(b) = Len(w) /\ \A i \in 1..Len(w) : b[i] = w[Len(w) + 1 - i]
    BY <1>1, BackwardsIs
  <2>. QED
    BY <2>1, <2>2, <2>3
<1>. HIDE DEF u, v, b
<1>3. /\ v \o u \in Seq(S) /\ Len(v \o u) = Len(t) + Len(s)
      /\ \A i \in 1..(Len(t) + Len(s)) : (v \o u)[i] = IF i <= Len(t) THEN v[i] ELSE u[i - Len(t)]
  <2>1. v \in Seq(S) /\ u \in Seq(S) /\ Len(u) = Len(s) /\ Len(v) = Len(t)
    BY <1>2
  <2>2. /\ v \o u \in Seq(S) /\ Len(v \o u) = Len(v) + Len(u)
        /\ \A i \in 1..(Len(v) + Len(u)) : (v \o u)[i] = IF i <= Len(v) THEN v[i] ELSE u[i - Len(v)]
    BY <2>1, Joined
  <2>. QED
    BY <2>1, <2>2
<1>4. ASSUME NEW i \in 1..Len(b) PROVE b[i] = (v \o u)[i]
  <2>0. i \in Int /\ i \in 1..(Len(t) + Len(s)) /\ Len(s) \in Nat /\ Len(t) \in Nat
    BY <1>1, <1>2
  <2>1. i \in 1..(Len(s) + Len(t)) /\ b[i] = w[Len(s) + Len(t) + 1 - i]
    BY <1>1, <1>2, <2>0
  <2>2. CASE i <= Len(t)
    <3>1. Len(s) + Len(t) + 1 - i \in 1..(Len(s) + Len(t)) /\ Len(s) + Len(t) + 1 - i > Len(s)
      BY <2>0, <2>2
    <3>2. w[Len(s) + Len(t) + 1 - i] = t[Len(s) + Len(t) + 1 - i - Len(s)]
      <4>. DEFINE k == Len(s) + Len(t) + 1 - i
      <4>1. k \in 1..(Len(s) + Len(t)) /\ ~(k <= Len(s))
        BY <2>0, <3>1
      <4>. HIDE DEF k
      <4>2. w[k] = t[k - Len(s)]
        BY <1>1, <4>1
      <4>. QED
        BY <4>2 DEF k
    <3>3. Len(s) + Len(t) + 1 - i - Len(s) = Len(t) + 1 - i /\ i \in 1..Len(t)
      BY <2>0, <2>2
    <3>4. (v \o u)[i] = v[i] /\ v[i] = t[Len(t) + 1 - i]
      BY <1>2, <1>3, <2>0, <2>2, <3>3
    <3>. QED
      BY <2>1, <3>2, <3>3, <3>4
  <2>3. CASE i > Len(t)
    <3>1. i - Len(t) \in 1..Len(s) /\ Len(s) + Len(t) + 1 - i = Len(s) + 1 - (i - Len(t))
          /\ Len(s) + Len(t) + 1 - i \in 1..Len(s)
      BY <2>0, <2>3
    <3>2. w[Len(s) + Len(t) + 1 - i] = s[Len(s) + 1 - (i - Len(t))]
      BY <1>1, <2>0, <3>1
    <3>3. (v \o u)[i] = u[i - Len(t)]
      BY <1>3, <2>0, <2>3
    <3>4. u[i - Len(t)] = s[Len(s) + 1 - (i - Len(t))]
      BY <1>2, <3>1
    <3>. QED
      BY <2>1, <3>2, <3>3, <3>4
  <2>4. i <= Len(t) \/ i > Len(t)
    BY <2>0
  <2>. QED
    BY <2>2, <2>3, <2>4
<1>5. b = v \o u
  <2>. DEFINE z == v \o u
  <2>1. z \in Seq(S) /\ Len(z) = Len(b) /\ \A i \in 1..Len(b) : b[i] = z[i]
    BY <1>1, <1>2, <1>3, <1>4
  <2>. HIDE DEF z
  <2>2. b = z
    BY <1>2, <2>1, SameSequence
  <2>. QED
    BY <2>2 DEF z
<1>. QED
  BY <1>5 DEF u, v, w, b

\* What has room is appended whole.
LEMMA PushFits ==
    ASSUME NEW S, NEW buf \in Seq(S), NEW s \in Seq(S), NEW size \in Nat,
           Len(buf) + Len(s) <= size
    PROVE  Push(buf, s, size) = buf \o s
<1>1. Min({Len(s), size - Len(buf)}) = Len(s)
  BY MinOfTwo
<1>2. SubSeq(s, 1, Len(s)) = s
  OBVIOUS
<1>. QED
  BY <1>1, <1>2 DEF Push

\* So are the characters up to a length the buffer has room for.
LEMMA PadFits ==
    ASSUME NEW buf, NEW c, NEW n \in Nat, NEW size \in Nat, n <= size
    PROVE  PadTo(buf, c, n, size) = buf \o Repeat(c, n - Len(buf))
<1>1. Min({n, size}) = n
  BY MinOfTwo
<1>. QED
  BY <1>1 DEF PadTo

\* Of zeros behind a text so many may be taken, but nothing of the text.
LEMMA TakenZeros ==
    ASSUME NEW B \in Seq(Glyphs), NEW k \in Nat, NEW r \in Nat
    PROVE  SubSeq(B \o Repeat("0", k), 1, Max({Len(B), Len(B) + k - r})) = B \o Repeat("0", k - r)
<1>. DEFINE z == Repeat("0", k)
            y == Repeat("0", k - r)
            l == Len(B)
            m == IF k >= r THEN l + k - r ELSE l
<1>0. l \in Nat /\ "0" \in Glyphs
  <2>1. "0" \in Glyphs
    BY DEF Glyphs
  <2>2. l \in Nat
    OBVIOUS
  <2>. QED
    BY <2>1, <2>2
<1>1. Max({l, l + k - r}) = m
  <2>1. l \in Int /\ l + k - r \in Int
    BY <1>0
  <2>. HIDE DEF l
  <2>2. Max({l, l + k - r}) = IF l >= l + k - r THEN l ELSE l + k - r
    BY <2>1, MaxOfTwo
  <2>. QED
    BY <1>0, <2>2
<1>2. z \in Seq(Glyphs) /\ Len(z) = k /\ \A i \in 1..k : z[i] = "0"
  <2>1. k \in Int /\ k = IF k > 0 THEN k ELSE 0
    OBVIOUS
  <2>2. z \in Seq(Glyphs) /\ Len(z) = k
    BY <1>0, <2>1, RepeatIs
  <2>3. \A i \in 1..Len(z) : z[i] = "0"
    BY <1>0, <2>1, RepeatIs
  <2>. HIDE DEF z
  <2>. QED
    BY <2>2, <2>3
<1>3. y \in Seq(Glyphs) /\ Len(y) = m - l /\ \A i \in 1..(m - l) : y[i] = "0"
  <2>1. k - r \in Int /\ m - l = IF k - r > 0 THEN k - r ELSE 0
    BY <1>0
  <2>2. y \in Seq(Glyphs) /\ Len(y) = m - l
    BY <1>0, <2>1, RepeatIs
  <2>3. \A i \in 1..Len(y) : y[i] = "0"
    BY <1>0, <2>1, RepeatIs
  <2>. HIDE DEF y, m
  <2>. QED
    BY <2>2, <2>3
<1>4. m \in l..(l + k)
  BY <1>0
<1>. HIDE DEF z, y, m
<1>. DEFINE u == B \o z
            v == B \o y
<1>5. /\ u \in Seq(Glyphs) /\ Len(u) = l + k
      /\ \A i \in 1..(l + k) : u[i] = IF i <= l THEN B[i] ELSE z[i - l]
  BY <1>2, Joined
<1>6. /\ v \in Seq(Glyphs) /\ Len(v) = m
      /\ \A i \in 1..m : v[i] = IF i <= l THEN B[i] ELSE y[i - l]
  <2>1. l + (m - l) = m
    BY <1>0, <1>4
  <2>2. /\ v \in Seq(Glyphs) /\ Len(v) = l + Len(y)
        /\ \A i \in 1..(l + Len(y)) : v[i] = IF i <= l THEN B[i] ELSE y[i - l]
    BY <1>3, Joined
  <2>. HIDE DEF v, l
  <2>. QED
    BY <1>3, <2>1, <2>2
<1>. HIDE DEF u, v, l
<1>. DEFINE s == SubSeq(u, 1, m)
<1>7. s \in Seq(Glyphs) /\ Len(s) = m /\ \A i \in 1..m : s[i] = u[i]
  BY <1>0, <1>4, <1>5
<1>. HIDE DEF s
<1>8. ASSUME NEW i \in 1..m PROVE s[i] = v[i]
  <2>1. i \in 1..(l + k) /\ s[i] = u[i]
    BY <1>0, <1>4, <1>7
  <2>2. CASE i <= l
    BY <1>5, <1>6, <2>1, <2>2
  <2>3. CASE ~(i <= l)
    <3>1. i - l \in 1..k /\ i - l \in 1..(m - l)
      BY <1>0, <1>4, <2>1, <2>3
    <3>. QED
      BY <1>2, <1>3, <1>5, <1>6, <2>1, <2>3, <3>1
  <2>. QED
    BY <2>2, <2>3
<1>9. s = v
  BY <1>6, <1>7, <1>8, SameSequence
<1>. QED
  BY <1>1, <1>9 DEF s, u, v, z, y, l

----------------------------------------------------------------------------
(* print_integer_finalization *)

\* Sequences join in any grouping.
LEMMA Regroup == \A a, b, c \in Seq(Glyphs) : a \o (b \o c) = (a \o b) \o c
  BY ConcatAssociative

\* Two texts make one, as long as both.
LEMMA Lengths == \A s, t \in Seq(Glyphs) : s \o t \in Seq(Glyphs) /\ Len(s \o t) = Len(s) + Len(t)
  BY Joined

\* The conversion fills with zeros.
Zeropad(F) == "LEFT" \notin F /\ "ZEROPAD" \in F

FillTo(negative, p, w, F) == IF Zeropad(F) THEN WidthForZeros(w, negative, F) ELSE p

\* A base's prefix is printed: in base 8 a zero in front stands for it.
WithPrefix(base, k, F) == "HASH" \in F /\ ~(base = 8 /\ k > 0)

Prefix(base, F) == BasePrefix(base, F) \o <<"0">>

\* Of k zeros in front of the digits those that the prefix does not take.
ZerosKept(base, k, F) == IF Zeropad(F) /\ WithPrefix(base, k, F) THEN k - Len(Prefix(base, F)) ELSE k

\* Only a decimal has a sign.
OnlyDecimalSigned(base, negative, F) == base # 10 => ~negative /\ F \cap {"PLUS", "SPACE"} = {}

\* What the buffer holds in the end.
InReverse(B, negative, base, k, F) ==
    ((B \o Repeat("0", ZerosKept(base, k, F)))
       \o (IF WithPrefix(base, k, F) THEN Prefix(base, F) ELSE <<>>))
       \o SignOf(negative, F)

\* A row of zeros.
LEMMA ZerosAre ==
    ASSUME NEW n \in Int
    PROVE  /\ "0" \in Glyphs
           /\ Repeat("0", n) \in Seq(Glyphs)
           /\ n >= 0 => Len(Repeat("0", n)) = n
           /\ n <= 0 => Repeat("0", n) = <<>>
<1>1. "0" \in Glyphs
  BY DEF Glyphs
<1>2. Repeat("0", n) \in Seq(Glyphs)
  BY <1>1, RepeatIs
<1>3. Len(Repeat("0", n)) = (IF n > 0 THEN n ELSE 0)
  BY <1>1, RepeatIs
<1>4. n <= 0 => Repeat("0", n) = <<>>
  BY <1>1, RepeatIs
<1>. QED
  BY <1>1, <1>2, <1>3, <1>4

\* A prefix of the bases that have one: a zero behind its letter, or a zero alone.
LEMMA PrefixIs ==
    ASSUME NEW base \in Bases, base # 10, NEW F
    PROVE  /\ BasePrefix(base, F) \in Seq(Glyphs) /\ <<"0">> \in Seq(Glyphs)
           /\ Prefix(base, F) \in Seq(Glyphs)
           /\ base = 8 => BasePrefix(base, F) = <<>> /\ Len(Prefix(base, F)) = 1
           /\ base # 8 => Len(BasePrefix(base, F)) = 1 /\ Len(Prefix(base, F)) = 2
           /\ Len(BasePrefix(base, F)) \in Nat
           /\ Len(Prefix(base, F)) = Len(BasePrefix(base, F)) + 1
<1>1. {"0", "x", "X", "b"} \subseteq Glyphs
  BY DEF Glyphs
<1>2. CASE base = 16
  BY <1>1, <1>2 DEF BasePrefix, Prefix
<1>3. CASE base = 8
  BY <1>1, <1>3 DEF BasePrefix, Prefix
<1>4. CASE base = 2
  BY <1>1, <1>4 DEF BasePrefix, Prefix
<1>. QED
  BY <1>2, <1>3, <1>4 DEF Bases

\* A sign is one character, if there is one.
LEMMA SignIs ==
    ASSUME NEW negative \in BOOLEAN, NEW F
    PROVE  /\ SignOf(negative, F) \in Seq(Glyphs)
           /\ Len(SignOf(negative, F)) = IF negative \/ F \cap {"PLUS", "SPACE"} # {} THEN 1 ELSE 0
           /\ ~negative /\ F \cap {"PLUS", "SPACE"} = {} => SignOf(negative, F) = <<>>
<1>. DEFINE minus == "-"
            plus  == "+"
            space == " "
            s     == SignOf(negative, F)
<1>1. minus \in Glyphs /\ plus \in Glyphs /\ space \in Glyphs
  BY DEF Glyphs
<1>2. s = IF negative THEN <<minus>>
          ELSE IF "PLUS" \in F THEN <<plus>>
          ELSE IF "SPACE" \in F THEN <<space>> ELSE <<>>
  BY DEF SignOf
<1>. HIDE DEF minus, plus, space, s
<1>3. /\ s \in Seq(Glyphs)
      /\ Len(s) = IF negative \/ F \cap {"PLUS", "SPACE"} # {} THEN 1 ELSE 0
      /\ ~negative /\ F \cap {"PLUS", "SPACE"} = {} => s = <<>>
  BY <1>1, <1>2
<1>. QED
  BY <1>3 DEF s

\* The zeros of a field leave room for its sign.
LEMMA WidthForZerosIs ==
    ASSUME NEW negative \in BOOLEAN, NEW F, NEW w \in Nat
    PROVE  /\ WidthForZeros(w, negative, F) \in Nat
           /\ WidthForZeros(w, negative, F) <= w
           /\ WidthForZeros(w, negative, F) = IF w = 0 THEN 0 ELSE w - Len(SignOf(negative, F))
<1>. DEFINE n == negative \/ F \cap {"PLUS", "SPACE"} # {}
<1>1. Len(SignOf(negative, F)) = IF n THEN 1 ELSE 0
  BY SignIs
<1>2. WidthForZeros(w, negative, F) = IF w > 0 /\ n THEN w - 1 ELSE w
  BY DEF WidthForZeros
<1>. HIDE DEF n
<1>. QED
  BY <1>1, <1>2

\* out_rev_ does not look at '#'.
LEMMA OutRevSame ==
    \A s, w, F : OutRev(s, w, F \ {"HASH"}) = OutRev(s, w, F)
<1>1. \A F : /\ (F \ {"HASH"}) \cap {"LEFT", "ZEROPAD"} = F \cap {"LEFT", "ZEROPAD"}
             /\ "LEFT" \in F \ {"HASH"} <=> "LEFT" \in F
  OBVIOUS
<1>. QED
  BY <1>1 DEF OutRev

\* What the prefix takes back is zeros that only fill the field.
LEMMA TakeBackIs ==
    ASSUME NEW B \in Seq(Glyphs), NEW base \in Bases, base # 10, NEW p \in Nat, NEW width \in Nat,
           NEW F, NEW k \in Int, k = (IF Zeropad(F) THEN width ELSE p) - Len(B),
           "PRECISION" \in F => "ZEROPAD" \notin F,
           "PRECISION" \notin F => p = 0,
           WithPrefix(base, k, F)
    PROVE  TakeBack(B \o Repeat("0", k), Len(B), base, p, width, F)
             = B \o Repeat("0", ZerosKept(base, k, F))
<1>. DEFINE z == Repeat("0", k)
            u == B \o z
            l == Len(B)
            r == IF base \in {2, 16} THEN 2 ELSE 1
<1>1. l \in Nat /\ z \in Seq(Glyphs) /\ (k >= 0 => Len(z) = k) /\ (k <= 0 => z = <<>>)
  <2>1. l \in Nat
    OBVIOUS
  <2>2. z \in Seq(Glyphs) /\ (k >= 0 => Len(z) = k) /\ (k <= 0 => z = <<>>)
    BY ZerosAre
  <2>. QED
    BY <2>1, <2>2
<1>2. Len(Prefix(base, F)) = r
  BY PrefixIs DEF Bases
<1>3. CASE "PRECISION" \in F
  <2>1. ~Zeropad(F)
    BY <1>3 DEF Zeropad
  <2>2. ZerosKept(base, k, F) = k
    BY <2>1 DEF ZerosKept
  <2>3. TakeBack(u, l, base, p, width, F) = u
    BY <1>3 DEF TakeBack
  <2>. QED
    BY <2>2, <2>3
<1>4. CASE "PRECISION" \notin F /\ k <= 0
  <2>0. z = <<>> /\ u = B
    BY <1>1, <1>4
  <2>1. ZerosKept(base, k, F) \in Int /\ ZerosKept(base, k, F) <= 0
    BY <1>2, <1>4 DEF ZerosKept
  <2>2. Repeat("0", ZerosKept(base, k, F)) = <<>>
    BY <2>1, ZerosAre
  <2>3. SubSeq(B, 1, Max({l, l - r})) = B
    <3>1. l \in Int /\ l - r \in Int /\ r \in Nat
      BY <1>1
    <3>. HIDE DEF l, r
    <3>2. Max({l, l - r}) = l
      BY <1>1, <3>1, MaxOfTwo
    <3>. QED
      BY <3>2 DEF l
  <2>4. TakeBack(B, l, base, p, width, F) = B
    BY <2>3 DEF TakeBack
  <2>. QED
    BY <2>0, <2>2, <2>4
<1>5. CASE "PRECISION" \notin F /\ k > 0
  <2>1. Zeropad(F) /\ k = width - l /\ k \in Nat
    BY <1>1, <1>5
  <2>2. ZerosKept(base, k, F) = k - r
    BY <1>2, <2>1 DEF ZerosKept
  <2>3. r \in Nat
    OBVIOUS
  <2>. HIDE DEF r
  <2>4. SubSeq(u, 1, Max({l, l + k - r})) = B \o Repeat("0", k - r)
    BY <2>1, <2>3, TakenZeros
  <2>5. Len(u) = l + k
    <3>. HIDE DEF z
    <3>. QED
      BY <1>1, <2>1
  <2>. HIDE DEF u
  <2>6. Len(u) > 0 /\ Len(u) \in {p, width} /\ l + k - r = Len(u) - r
    BY <1>1, <1>5, <2>1, <2>3, <2>5
  <2>7. TakeBack(u, l, base, p, width, F) = SubSeq(u, 1, Max({l, Len(u) - r}))
    BY <1>5, <2>6 DEF TakeBack, r
  <2>8. TakeBack(u, l, base, p, width, F) = B \o Repeat("0", ZerosKept(base, k, F))
    BY <2>2, <2>4, <2>6, <2>7
  <2>. QED
    BY <2>8 DEF u
<1>. QED
  BY <1>3, <1>4, <1>5

\* With room for all of it, print_integer_finalization makes what InReverse says.
LEMMA FinalizeIs ==
    ASSUME NEW B \in Seq(Glyphs), NEW negative \in BOOLEAN, NEW base \in Bases,
           NEW p \in Nat, NEW w \in Nat, NEW F, NEW k \in Int,
           k = FillTo(negative, p, w, F) - Len(B),
           "POINTER" \notin F,
           base = 10 => "HASH" \notin F,
           "PRECISION" \in F => "ZEROPAD" \notin F,
           "PRECISION" \notin F => p = 0,
           OnlyDecimalSigned(base, negative, F),
           FillTo(negative, p, w, F) <= IntegerBufferSize,
           Len(InReverse(B, negative, base, k, F)) <= IntegerBufferSize
    PROVE  Finalize(B, negative, base, p, w, F)
             = OutRev(InReverse(B, negative, base, k, F),
                      IF Zeropad(F) THEN WidthForZeros(w, negative, F) ELSE w, F)
<1>. DEFINE N        == IntegerBufferSize
            zeropad  == Zeropad(F)
            width    == IF zeropad THEN WidthForZeros(w, negative, F) ELSE w
            filled   == IF zeropad THEN PadTo(B, "0", width, N) ELSE B
            padded   == PadTo(filled, "0", p, N)
            flags    == IF base = 8 /\ Len(padded) > Len(B) THEN F \ {"HASH"} ELSE F
            prefixed == IF flags \cap {"HASH", "POINTER"} = {} THEN padded
                        ELSE Push(Push(TakeBack(padded, Len(B), base, p, width, flags),
                                       BasePrefix(base, flags), N), <<"0">>, N)
            signed   == Push(prefixed, SignOf(negative, flags), N)
            kept     == B \o Repeat("0", ZerosKept(base, k, F))
            pre      == IF WithPrefix(base, k, F) THEN Prefix(base, F) ELSE <<>>
            sign     == SignOf(negative, F)
            result   == InReverse(B, negative, base, k, F)
<1>1. Finalize(B, negative, base, p, w, F) = OutRev(signed, width, flags)
  BY DEF Finalize, Zeropad
<1>2. N \in Nat
  BY SizesAssumption
<1>3. width \in Nat /\ (zeropad => width = FillTo(negative, p, w, F) /\ p = 0)
      /\ (~zeropad => p = FillTo(negative, p, w, F))
  BY WidthForZerosIs DEF FillTo, Zeropad
<1>. HIDE DEF N, zeropad, width
<1>4. padded = B \o Repeat("0", k)
  <2>1. CASE zeropad
    <3>1. filled = B \o Repeat("0", k)
      BY <1>2, <1>3, <2>1, PadFits DEF N
    <3>2. padded = filled \o Repeat("0", 0 - Len(filled))
      <4>1. p = 0 /\ 0 \in Nat /\ 0 <= N
        BY <1>2, <1>3, <2>1
      <4>. HIDE DEF filled
      <4>2. PadTo(filled, "0", 0, N) = filled \o Repeat("0", 0 - Len(filled))
        BY <1>2, <4>1, PadFits
      <4>. QED
        BY <4>1, <4>2
    <3>3. filled \in Seq(Glyphs) /\ 0 - Len(filled) \in Int /\ 0 - Len(filled) <= 0
      <4>1. Repeat("0", k) \in Seq(Glyphs)
        BY ZerosAre
      <4>2. B \o Repeat("0", k) \in Seq(Glyphs)
        BY <4>1
      <4>3. filled \in Seq(Glyphs)
        BY <3>1, <4>2
      <4>. HIDE DEF filled
      <4>. QED
        BY <4>3
    <3>4. Repeat("0", 0 - Len(filled)) = <<>>
      BY <3>3, ZerosAre
    <3>. HIDE DEF filled
    <3>5. filled \o <<>> = filled
      BY <3>3
    <3>. QED
      BY <3>1, <3>2, <3>4, <3>5
  <2>2. CASE ~zeropad
    BY <1>2, <1>3, <2>2, PadFits DEF N
  <2>. QED
    BY <2>1, <2>2
<1>. HIDE DEF filled, padded
<1>5. Len(padded) > Len(B) <=> k > 0
  <2>. DEFINE z == Repeat("0", k)
  <2>1. z \in Seq(Glyphs) /\ (k >= 0 => Len(z) = k) /\ (k <= 0 => z = <<>>)
    BY ZerosAre
  <2>. HIDE DEF z
  <2>2. Len(B \o z) = Len(B) + Len(z) /\ Len(B) \in Nat /\ Len(z) \in Nat
    BY <2>1
  <2>3. k <= 0 => Len(z) = 0
    BY <2>1
  <2>4. Len(padded) = Len(B) + Len(z)
    BY <1>4, <2>2 DEF z
  <2>. QED
    BY <2>1, <2>2, <2>3, <2>4
<1>6. /\ flags \cap {"HASH", "POINTER"} = {} <=> ~WithPrefix(base, k, F)
      /\ WithPrefix(base, k, F) => flags = F /\ base # 10
      /\ flags \in {F, F \ {"HASH"}}
  BY <1>5 DEF WithPrefix
<1>7. /\ pre \in Seq(Glyphs) /\ kept \in Seq(Glyphs) /\ sign \in Seq(Glyphs)
      /\ <<"0">> \in Seq(Glyphs)
  <2>1. ZerosKept(base, k, F) \in Int
    <3>1. WithPrefix(base, k, F) => Len(Prefix(base, F)) \in Nat
      BY <1>6, PrefixIs
    <3>. QED
      BY <3>1 DEF ZerosKept
  <2>2. kept \in Seq(Glyphs)
    <3>1. Repeat("0", ZerosKept(base, k, F)) \in Seq(Glyphs)
      BY <2>1, ZerosAre
    <3>. QED
      BY <3>1
  <2>3. pre \in Seq(Glyphs)
    <3>1. WithPrefix(base, k, F) => Prefix(base, F) \in Seq(Glyphs)
      BY <1>6, PrefixIs
    <3>. QED
      BY <3>1
  <2>4. sign \in Seq(Glyphs)
    BY SignIs
  <2>5. <<"0">> \in Seq(Glyphs)
    <3>1. "0" \in Glyphs
      BY DEF Glyphs
    <3>. QED
      BY <3>1
  <2>. QED
    BY <2>2, <2>3, <2>4, <2>5
<1>8. result = (kept \o pre) \o sign /\ Len(result) <= N
  BY DEF InReverse, N
<1>. HIDE DEF kept, pre, sign, result
<1>9. /\ Len(kept) \in Nat /\ Len(pre) \in Nat /\ Len(sign) \in Nat
      /\ kept \o pre \in Seq(Glyphs)
      /\ Len(kept \o pre) = Len(kept) + Len(pre)
      /\ Len(kept) + Len(pre) + Len(sign) <= N
  <2>. DEFINE kp == kept \o pre
  <2>1. kp \in Seq(Glyphs) /\ Len(kp) = Len(kept) + Len(pre)
    BY <1>7
  <2>2. Len(kept) \in Nat /\ Len(pre) \in Nat /\ Len(sign) \in Nat
    BY <1>7
  <2>. HIDE DEF kp
  <2>3. Len(kp \o sign) = Len(kp) + Len(sign)
    <3>1. kp \in Seq(Glyphs) /\ sign \in Seq(Glyphs)
      BY <1>7, <2>1
    <3>. QED
      BY <3>1, Joined
  <2>4. Len(kp \o sign) <= N
    BY <1>8 DEF kp
  <2>5. Len(kept) + Len(pre) + Len(sign) <= N
    BY <2>1, <2>3, <2>4
  <2>. QED
    BY <2>1, <2>2, <2>5 DEF kp
<1>10. prefixed = kept \o pre
  <2>1. CASE WithPrefix(base, k, F)
    <3>. DEFINE bp == BasePrefix(base, F)
                nought == <<"0">>
    <3>1. /\ bp \in Seq(Glyphs) /\ nought \in Seq(Glyphs) /\ Len(nought) = 1 /\ Len(bp) \in Nat
          /\ pre = bp \o nought /\ Len(pre) = Len(bp) + 1
      BY <1>6, <2>1, PrefixIs DEF pre, Prefix
    <3>2. TakeBack(padded, Len(B), base, p, width, F) = kept
      <4>1. k = (IF Zeropad(F) THEN width ELSE p) - Len(B)
        BY <1>3 DEF zeropad
      <4>. QED
        BY <1>3, <1>4, <1>6, <2>1, <4>1, TakeBackIs DEF kept
    <3>3. prefixed = Push(Push(kept, bp, N), nought, N)
      BY <1>6, <2>1, <3>2
    <3>. HIDE DEF bp, nought, prefixed
    <3>4. Push(kept, bp, N) = kept \o bp
      <4>1. Len(kept) + Len(bp) <= N
        BY <1>2, <1>9, <3>1
      <4>. QED
        BY <1>2, <1>7, <3>1, <4>1, PushFits
    <3>. DEFINE kb == kept \o bp
    <3>5. kb \in Seq(Glyphs) /\ Len(kb) = Len(kept) + Len(bp)
      BY <1>7, <3>1
    <3>. HIDE DEF kb
    <3>6. Push(kb, nought, N) = kb \o nought
      <4>1. Len(kb) + Len(nought) <= N
        BY <1>2, <1>9, <3>1, <3>5
      <4>. QED
        BY <1>2, <3>1, <3>5, <4>1, PushFits
    <3>7. kb \o nought = kept \o (bp \o nought)
      <4>1. kept \in Seq(Glyphs) /\ bp \in Seq(Glyphs) /\ nought \in Seq(Glyphs)
        BY <1>7, <3>1
      <4>. QED
        BY <4>1, Regroup, Zenon DEF kb
    <3>. QED
      BY <3>1, <3>3, <3>4, <3>6, <3>7 DEF kb
  <2>2. CASE ~WithPrefix(base, k, F)
    <3>1. prefixed = padded
      BY <1>6, <2>2
    <3>2. pre = <<>> /\ kept = padded
      BY <1>4, <2>2 DEF pre, kept, ZerosKept
    <3>3. kept \o <<>> = kept
      BY <1>7
    <3>. HIDE DEF prefixed
    <3>. QED
      BY <3>1, <3>2, <3>3
  <2>. QED
    BY <2>1, <2>2
<1>11. SignOf(negative, flags) = sign
  BY <1>6 DEF SignOf, sign
<1>. HIDE DEF prefixed, flags
<1>12. signed = result
  <2>. DEFINE kp == kept \o pre
  <2>1. kp \in Seq(Glyphs) /\ Len(kp) + Len(sign) <= N
    BY <1>9
  <2>2. signed = Push(kp, sign, N)
    BY <1>10, <1>11
  <2>3. result = kp \o sign
    BY <1>8
  <2>. HIDE DEF kp, signed
  <2>4. Push(kp, sign, N) = kp \o sign
    BY <1>2, <1>7, <2>1, PushFits
  <2>. QED
    BY <2>2, <2>3, <2>4
<1>. HIDE DEF signed
<1>13. OutRev(result, width, flags) = OutRev(result, width, F)
  BY <1>6, OutRevSame
<1>. QED
  BY <1>1, <1>12, <1>13 DEF width, zeropad, result

----------------------------------------------------------------------------
(* The digits a directive means *)

\* The reference's helpers are the code's.
LEMMA SamePower == \A b, n : T!Power(b, n) = Power(b, n)
  BY DEF T!Power, Power

\* The reference's helpers are the code's.
LEMMA SameMax == \A S : T!Max(S) = Max(S)
  BY DEF T!Max, Max

\* The reference's digits, in the code's characters.
LEMMA DigitsOfIs ==
    ASSUME NEW v, NEW n, NEW b, NEW upper
    PROVE  T!DigitsOf(v, n, b, upper)
             = [i \in 1..n |-> DigitChar((v \div Power(b, n - i)) % b, upper)]
  BY DEF T!DigitsOf, DigitChar, T!Power, Power

\* The number of digits by definition is the number of those the code divides off.
LEMMA DigitCountIs ==
    ASSUME NEW b \in Bases, NEW upper \in BOOLEAN, NEW v \in Nat
    PROVE  T!DigitCount(v, b) = Len(LowDigits(v, b, upper))
<1>. DEFINE L == LowDigits(v, b, upper)
            l == Len(L)
            Counts(n) == v < Power(b, n) /\ (n > 0 => v >= Power(b, n - 1))
            c == CHOOSE n \in 0..v : Counts(n)
<1>0. b \in Nat \ {0}
  BY DEF Bases
<1>1. /\ L \in Seq(Glyphs)
      /\ v < Power(b, l)
      /\ v > 0 => l > 0 /\ Power(b, l - 1) <= v
      /\ l <= v
  BY LowDigitsAre
<1>2. l \in 0..v
  <2>. HIDE DEF L
  <2>. QED
    BY <1>1
<1>. HIDE DEF L, l
<1>3. \A n \in Nat : Power(b, n) \in Nat \ {0}
  BY <1>0, PowerIs
<1>4. Counts(l)
  <2>1. l > 0 => v > 0 /\ l - 1 \in Nat
    BY <1>2
  <2>. QED
    BY <1>1, <1>2, <1>3, <2>1
<1>5. c \in 0..v /\ Counts(c)
  <2>. HIDE DEF Counts
  <2>. QED
    BY <1>2, <1>4
<1>. HIDE DEF c
<1>6. ~(c < l)
  <2>1. SUFFICES ASSUME c < l PROVE FALSE
    OBVIOUS
  <2>2. l - 1 \in Nat /\ c \in Nat /\ c <= l - 1 /\ l > 0
    BY <1>2, <1>5, <2>1
  <2>3. Power(b, c) <= Power(b, l - 1)
    BY <1>0, <2>2, PowerGrows
  <2>. QED
    BY <1>3, <1>4, <1>5, <2>2, <2>3
<1>7. ~(l < c)
  <2>1. SUFFICES ASSUME l < c PROVE FALSE
    OBVIOUS
  <2>2. c - 1 \in Nat /\ l \in Nat /\ l <= c - 1 /\ c > 0
    BY <1>2, <1>5, <2>1
  <2>3. Power(b, l) <= Power(b, c - 1)
    BY <1>0, <2>2, PowerGrows
  <2>. QED
    BY <1>3, <1>4, <1>5, <2>2, <2>3
<1>8. c = l
  BY <1>2, <1>5, <1>6, <1>7
<1>9. T!DigitCount(v, b) = c
  BY SamePower DEF T!DigitCount, c
<1>. QED
  BY <1>8, <1>9 DEF l, L

\* At least so many digits, the highest first: zeros, and the code's digits backwards.
LEMMA DigitsShown ==
    ASSUME NEW b \in Bases, NEW upper \in BOOLEAN, NEW v \in Nat, NEW least \in Nat
    PROVE  T!DigitsOf(v, T!Max({T!DigitCount(v, b), least}), b, upper)
             = Repeat("0", least - Len(LowDigits(v, b, upper)))
                 \o Backwards(LowDigits(v, b, upper))
<1>. DEFINE L == LowDigits(v, b, upper)
            l == Len(L)
            D(k) == DigitChar((v \div Power(b, k)) % b, upper)
            n == IF l >= least THEN l ELSE least
            z == Repeat("0", least - l)
            r == Backwards(L)
            w == z \o r
            s == T!DigitsOf(v, T!Max({T!DigitCount(v, b), least}), b, upper)
<1>0. b \in Nat \ {0}
  BY DEF Bases
<1>1. L \in Seq(Glyphs) /\ v < Power(b, l) /\ \A k \in 1..l : L[k] = D(k - 1)
  BY LowDigitsAre
<1>2. T!DigitCount(v, b) = l
  BY DigitCountIs
<1>. HIDE DEF L
<1>3. l \in Nat
  BY <1>1
<1>4. T!Max({T!DigitCount(v, b), least}) = n
  BY <1>2, <1>3, SameMax, MaxOfTwo
<1>5. s = [i \in 1..n |-> D(n - i)]
  BY <1>4, DigitsOfIs
<1>. HIDE DEF s, D
<1>6. z \in Seq(Glyphs) /\ Len(z) = n - l /\ \A i \in 1..(n - l) : z[i] = "0"
  <2>1. least - l \in Int /\ n - l = IF least - l > 0 THEN least - l ELSE 0
    BY <1>3
  <2>2. "0" \in Glyphs
    BY DEF Glyphs
  <2>3. z \in Seq(Glyphs) /\ Len(z) = n - l
    BY <2>1, <2>2, RepeatIs
  <2>4. \A i \in 1..Len(z) : z[i] = "0"
    BY <2>1, <2>2, RepeatIs
  <2>. HIDE DEF z, n
  <2>. QED
    BY <2>3, <2>4
<1>7. r \in Seq(Glyphs) /\ Len(r) = l /\ \A i \in 1..l : r[i] = L[l + 1 - i]
  BY <1>1, BackwardsIs
<1>8. n \in Nat /\ l <= n
  BY <1>3
<1>. HIDE DEF z, r, l, n
<1>9. /\ w \in Seq(Glyphs) /\ Len(w) = n
      /\ \A i \in 1..n : w[i] = IF i <= n - l THEN z[i] ELSE r[i - (n - l)]
  <2>1. (n - l) + l = n
    BY <1>3, <1>8
  <2>2. /\ w \in Seq(Glyphs) /\ Len(w) = Len(z) + Len(r)
        /\ \A i \in 1..(Len(z) + Len(r)) : w[i] = IF i <= Len(z) THEN z[i] ELSE r[i - Len(z)]
    BY <1>6, <1>7, Joined
  <2>. HIDE DEF w
  <2>. QED
    BY <1>6, <1>7, <2>1, <2>2
<1>. HIDE DEF w
<1>10. ASSUME NEW i \in 1..n PROVE w[i] = D(n - i)
  <2>1. CASE i <= n - l
    <3>1. w[i] = "0"
      BY <1>3, <1>6, <1>8, <1>9, <2>1
    <3>. DEFINE k == n - i
    <3>2. k \in Nat /\ l <= k
      BY <1>3, <1>8, <2>1
    <3>. HIDE DEF k
    <3>3. v < Power(b, k) /\ Power(b, k) \in Nat \ {0}
      <4>1. Power(b, l) <= Power(b, k) /\ Power(b, k) \in Nat \ {0} /\ Power(b, l) \in Nat
        BY <1>0, <1>3, <3>2, PowerGrows, PowerIs
      <4>. QED
        BY <1>1, <4>1
    <3>4. v \div Power(b, k) = 0
      <4>. DEFINE q == Power(b, k)
      <4>1. q \in Nat \ {0} /\ v < q
        BY <3>3
      <4>. HIDE DEF q
      <4>2. v \div q = 0
        BY <4>1
      <4>. QED
        BY <4>2 DEF q
    <3>5. 0 % b = 0 /\ 0 \in 0..15
      BY <1>0
    <3>6. D(k) = DigitChar(0, upper)
      BY <3>4, <3>5 DEF D
    <3>7. DigitChar(0, upper) = "0"
      BY <3>5, GlyphIs
    <3>. QED
      BY <3>1, <3>6, <3>7 DEF k
  <2>2. CASE ~(i <= n - l)
    <3>1. i - (n - l) \in 1..l /\ l + 1 - (i - (n - l)) \in 1..l
          /\ (l + 1 - (i - (n - l))) - 1 = n - i
      BY <1>3, <1>8, <2>2
    <3>2. w[i] = r[i - (n - l)]
      BY <1>9, <2>2
    <3>3. r[i - (n - l)] = L[l + 1 - (i - (n - l))]
      BY <1>7, <3>1
    <3>4. L[l + 1 - (i - (n - l))] = D(n - i)
      BY <1>1, <3>1
    <3>. QED
      BY <3>2, <3>3, <3>4
  <2>. QED
    BY <2>1, <2>2
<1>11. s = w
  <2>1. w = [i \in 1..n |-> w[i]]
    BY <1>9
  <2>. QED
    BY <1>5, <1>10, <2>1
<1>. QED
  BY <1>11 DEF s, w, z, r, l, L

\* The highest digit of a number is not 0.
LEMMA TopDigit ==
    ASSUME NEW b \in Bases, NEW upper \in BOOLEAN, NEW v \in Nat \ {0}
    PROVE  LET L == LowDigits(v, b, upper) IN Len(L) > 0 /\ L[Len(L)] # "0"
<1>. DEFINE L == LowDigits(v, b, upper)
            l == Len(L)
            p == Power(b, l - 1)
            q == v \div p
<1>0. b \in Nat \ {0} /\ b <= 16
  BY DEF Bases
<1>1. /\ L \in Seq(Glyphs)
      /\ \A k \in 1..l : L[k] = DigitChar((v \div Power(b, k - 1)) % b, upper)
      /\ v < Power(b, l)
      /\ l > 0 /\ Power(b, l - 1) <= v
  BY LowDigitsAre
<1>2. l \in Nat
  <2>. HIDE DEF L
  <2>. QED
    BY <1>1
<1>3. l > 0 /\ p <= v /\ L[l] = DigitChar(q % b, upper)
  <2>. HIDE DEF L, l
  <2>. QED
    BY <1>1, <1>2
<1>4. p \in Nat \ {0} /\ v < b * p
  <2>1. l - 1 \in Nat /\ (l - 1) + 1 = l
    BY <1>1, <1>2
  <2>. HIDE DEF L, l
  <2>. QED
    BY <1>0, <1>1, <2>1, PowerIs
<1>. HIDE DEF L, l, p
<1>5. q \in Nat /\ p * q <= v /\ v < p * q + p
  BY <1>4, Quotient
<1>. HIDE DEF q
<1>6. q > 0
  <2>1. q = 0 => p * q = 0
    BY <1>4
  <2>. QED
    BY <1>3, <1>4, <1>5, <2>1
<1>7. q < b
  <2>1. SUFFICES ASSUME b <= q PROVE FALSE
    BY <1>0, <1>5
  <2>2. p * b <= p * q /\ p * b = b * p /\ p * b \in Int /\ p * q \in Int
    BY <1>0, <1>4, <1>5, <2>1
  <2>. QED
    BY <1>4, <1>5, <2>2
<1>8. q % b = q /\ q \in 0..15
  BY <1>0, <1>5, <1>7
<1>9. DigitChar(q, upper) # "0"
  BY <1>6, <1>8, GlyphIs
<1>. QED
  BY <1>3, <1>8, <1>9 DEF l, L

----------------------------------------------------------------------------
(* The buffer, read backwards *)

\* Nothing adds nothing.
LEMMA EmptyJoins ==
    ASSUME NEW S, NEW s \in Seq(S)
    PROVE  <<>> \o s = s /\ s \o <<>> = s
  OBVIOUS

\* A single character reads the same backwards.
LEMMA ShortBackwards ==
    ASSUME NEW S, NEW s \in Seq(S), Len(s) <= 1
    PROVE  Backwards(s) = s
<1>. DEFINE z == Backwards(s)
<1>1. z \in Seq(S) /\ Len(z) = Len(s) /\ \A i \in 1..Len(s) : z[i] = s[Len(s) + 1 - i]
  BY BackwardsIs
<1>. HIDE DEF z
<1>2. \A i \in 1..Len(s) : z[i] = s[i]
  <2>1. \A i \in 1..Len(s) : Len(s) + 1 - i = i
    OBVIOUS
  <2>. QED
    BY <1>1, <2>1
<1>3. z = s
  BY <1>1, <1>2, SameSequence
<1>. QED
  BY <1>3 DEF z

\* Four sequences, one behind the other, read backwards.
LEMMA FourBackwards ==
    \A b, z, pre, sign \in Seq(Glyphs) :
        Backwards(((b \o z) \o pre) \o sign)
          = Backwards(sign) \o (Backwards(pre) \o (Backwards(z) \o Backwards(b)))
<1>. SUFFICES ASSUME NEW b \in Seq(Glyphs), NEW z \in Seq(Glyphs),
                     NEW pre \in Seq(Glyphs), NEW sign \in Seq(Glyphs)
              PROVE  Backwards(((b \o z) \o pre) \o sign)
                       = Backwards(sign) \o (Backwards(pre) \o (Backwards(z) \o Backwards(b)))
  OBVIOUS
<1>. DEFINE u == b \o z
            v == u \o pre
<1>1. u \in Seq(Glyphs) /\ Backwards(u) = Backwards(z) \o Backwards(b)
  <2>1. u \in Seq(Glyphs)
    BY Joined
  <2>2. Backwards(u) = Backwards(z) \o Backwards(b)
    BY BackwardsJoin
  <2>. QED
    BY <2>1, <2>2
<1>. HIDE DEF u
<1>2. v \in Seq(Glyphs) /\ Backwards(v) = Backwards(pre) \o Backwards(u)
  <2>1. v \in Seq(Glyphs)
    BY <1>1, Joined
  <2>2. Backwards(v) = Backwards(pre) \o Backwards(u)
    BY <1>1, BackwardsJoin
  <2>. QED
    BY <2>1, <2>2
<1>. HIDE DEF v
<1>3. Backwards(v \o sign) = Backwards(sign) \o Backwards(v)
  BY <1>2, BackwardsJoin
<1>. QED
  BY <1>1, <1>2, <1>3 DEF u, v

\* A head and a body in a field of w characters, as the flags F say.
Field(head, body, w, F) ==
    LET gap == w - Len(head) - Len(body)
    IN  IF "LEFT" \in F THEN head \o body \o Repeat(" ", gap)
        ELSE IF "ZEROPAD" \in F THEN head \o Repeat("0", gap) \o body
        ELSE Repeat(" ", gap) \o head \o body

\* What the code puts in front of an integer's digits, and the digits.
HeadOf(base, negative, F) ==
    IF base = 10 THEN SignOf(negative, F)
    ELSE IF base # 8 /\ "HASH" \in F THEN Backwards(Prefix(base, F))
    ELSE <<>>

BodyOf(B, base, p, F) ==
    LET digits == Repeat("0", p - Len(B)) \o Backwards(B)
    IN  IF base = 8 /\ "HASH" \in F /\ p <= Len(B) THEN <<"0">> \o digits ELSE digits

\* The digits behind the zeros of a precision: where the first of them comes from.
LEMMA DigitsAre ==
    ASSUME NEW B \in Seq(Glyphs), NEW p \in Nat
    PROVE  LET digits == Repeat("0", p - Len(B)) \o Backwards(B)
           IN  /\ digits \in Seq(Glyphs)
               /\ Len(digits) = IF p >= Len(B) THEN p ELSE Len(B)
               /\ Backwards(B) \in Seq(Glyphs) /\ Len(Backwards(B)) = Len(B)
               /\ p <= Len(B) => digits = Backwards(B)
               /\ p > Len(B) => digits # <<>> /\ digits[1] = "0"
<1>. DEFINE l == Len(B)
            q == Repeat("0", p - l)
            r == Backwards(B)
            d == q \o r
<1>1. l \in Nat
  OBVIOUS
<1>2. r \in Seq(Glyphs) /\ Len(r) = l
  BY BackwardsIs
<1>. HIDE DEF l, r
<1>3. /\ q \in Seq(Glyphs) /\ Len(q) = IF p - l > 0 THEN p - l ELSE 0
      /\ \A i \in 1..Len(q) : q[i] = "0"
      /\ p - l <= 0 => q = <<>>
  <2>. DEFINE n == p - l
  <2>1. n \in Int
    BY <1>1
  <2>2. "0" \in Glyphs
    BY DEF Glyphs
  <2>. HIDE DEF n
  <2>3. Repeat("0", n) \in Seq(Glyphs) /\ Len(Repeat("0", n)) = IF n > 0 THEN n ELSE 0
    BY <2>1, <2>2, RepeatIs
  <2>4. (\A i \in 1..Len(Repeat("0", n)) : Repeat("0", n)[i] = "0")
        /\ (n <= 0 => Repeat("0", n) = <<>>)
    BY <2>1, <2>2, RepeatIs
  <2>. QED
    BY <2>3, <2>4 DEF n
<1>. HIDE DEF q
<1>4. /\ d \in Seq(Glyphs) /\ Len(d) = Len(q) + l
      /\ \A i \in 1..(Len(q) + l) : d[i] = IF i <= Len(q) THEN q[i] ELSE r[i - Len(q)]
  <2>1. /\ d \in Seq(Glyphs) /\ Len(d) = Len(q) + Len(r)
        /\ \A i \in 1..(Len(q) + Len(r)) : d[i] = IF i <= Len(q) THEN q[i] ELSE r[i - Len(q)]
    <3>1. q \in Seq(Glyphs) /\ r \in Seq(Glyphs)
      BY <1>2, <1>3
    <3>. QED
      BY <3>1, Joined
  <2>. HIDE DEF d
  <2>. QED
    BY <1>2, <2>1
<1>5. p <= l => d = r
  <2>1. p <= l => q = <<>>
    BY <1>1, <1>3
  <2>2. <<>> \o r = r
    BY <1>2, EmptyJoins
  <2>. QED
    BY <2>1, <2>2
<1>. HIDE DEF d
<1>6. Len(d) = IF p >= l THEN p ELSE l
  <2>1. p >= l => Len(q) = p - l
    BY <1>1, <1>3
  <2>2. ~(p >= l) => Len(q) = 0
    BY <1>1, <1>3
  <2>. QED
    BY <1>1, <1>4, <2>1, <2>2
<1>7. p > l => d # <<>> /\ d[1] = "0"
  <2>1. p > l => Len(q) > 0 /\ Len(q) \in Nat /\ 1 \in 1..Len(q) /\ 1 \in 1..(Len(q) + l)
    BY <1>1, <1>3
  <2>2. p > l => d[1] = "0"
    BY <1>3, <1>4, <2>1
  <2>3. p > l => Len(d) > 0
    BY <1>1, <1>6
  <2>. QED
    BY <1>4, <2>2, <2>3
<1>. QED
  BY <1>2, <1>4, <1>5, <1>6, <1>7 DEF d, q, r, l

\* The head and the body are text, and the body holds all the digits.
LEMMA HeadAndBody ==
    ASSUME NEW B \in Seq(Glyphs), NEW negative \in BOOLEAN, NEW base \in Bases, NEW p \in Nat, NEW F
    PROVE  /\ HeadOf(base, negative, F) \in Seq(Glyphs)
           /\ BodyOf(B, base, p, F) \in Seq(Glyphs)
           /\ Len(BodyOf(B, base, p, F)) >= p
           /\ Len(BodyOf(B, base, p, F)) >= Len(B)
<1>. DEFINE d == Repeat("0", p - Len(B)) \o Backwards(B)
<1>1. d \in Seq(Glyphs) /\ Len(d) = IF p >= Len(B) THEN p ELSE Len(B)
  BY DigitsAre
<1>2. BodyOf(B, base, p, F) \in {d, <<"0">> \o d}
  BY DEF BodyOf
<1>. HIDE DEF d
<1>3. <<"0">> \o d \in Seq(Glyphs) /\ Len(<<"0">> \o d) = 1 + Len(d)
  <2>1. <<"0">> \in Seq(Glyphs)
    <3>1. "0" \in Glyphs
      BY DEF Glyphs
    <3>. QED
      BY <3>1
  <2>2. Len(<<"0">>) = 1
    OBVIOUS
  <2>. QED
    BY <1>1, <2>1, <2>2, Joined
<1>4. HeadOf(base, negative, F) \in Seq(Glyphs)
  <2>1. CASE base = 10
    BY <2>1, SignIs DEF HeadOf
  <2>2. CASE base # 10
    <3>1. Prefix(base, F) \in Seq(Glyphs)
      BY <2>2, PrefixIs
    <3>2. Backwards(Prefix(base, F)) \in Seq(Glyphs)
      BY <3>1, BackwardsIs
    <3>3. <<>> \in Seq(Glyphs)
      OBVIOUS
    <3>. QED
      BY <2>2, <3>2, <3>3 DEF HeadOf
  <2>. QED
    BY <2>1, <2>2
<1>5. Len(B) \in Nat /\ Len(d) \in Nat
  BY <1>1
<1>. DEFINE body == BodyOf(B, base, p, F)
<1>6. body \in Seq(Glyphs) /\ Len(body) \in {Len(d), 1 + Len(d)}
  BY <1>1, <1>2, <1>3
<1>. HIDE DEF body
<1>7. Len(body) >= p /\ Len(body) >= Len(B)
  BY <1>1, <1>5, <1>6
<1>. QED
  BY <1>4, <1>6, <1>7 DEF body

\* Read backwards, the buffer is the head, the zeros of a field filled with them, and the body.
LEMMA RightWay ==
    ASSUME NEW B \in Seq(Glyphs), NEW negative \in BOOLEAN, NEW base \in Bases,
           NEW p \in Nat, NEW w \in Nat, NEW F, NEW k \in Int,
           k = FillTo(negative, p, w, F) - Len(B),
           base = 10 => "HASH" \notin F,
           "PRECISION" \in F => "ZEROPAD" \notin F,
           "PRECISION" \notin F => p = 0,
           OnlyDecimalSigned(base, negative, F)
    PROVE  LET head == HeadOf(base, negative, F)
               body == BodyOf(B, base, p, F)
               text == Backwards(InReverse(B, negative, base, k, F))
           IN  /\ Zeropad(F) => text = (head \o Repeat("0", w - Len(head) - Len(body))) \o body
               /\ ~Zeropad(F) => text = head \o body
<1>. DEFINE head   == HeadOf(base, negative, F)
            body   == BodyOf(B, base, p, F)
            kept   == ZerosKept(base, k, F)
            with   == WithPrefix(base, k, F)
            post   == IF with THEN Backwards(Prefix(base, F)) ELSE <<>>
            sign   == SignOf(negative, F)
            l      == Len(B)
            r      == Backwards(B)
            z      == Repeat("0", kept)
            q      == Repeat("0", p - l)
            gap    == w - Len(head) - Len(body)
            fill   == Repeat("0", gap)
            nought == <<"0">>
            text   == Backwards(InReverse(B, negative, base, k, F))
            zeropad == Zeropad(F)
            Goal == text = IF zeropad THEN (head \o fill) \o body ELSE head \o body
<1>0. SUFFICES Goal
  OBVIOUS
<1>1. text = sign \o (post \o (z \o r)) /\ kept \in Int
  <2>. DEFINE pre == IF with THEN Prefix(base, F) ELSE <<>>
              t   == InReverse(B, negative, base, k, F)
  <2>1. with => Prefix(base, F) \in Seq(Glyphs) /\ Len(Prefix(base, F)) \in {1, 2}
    BY PrefixIs DEF WithPrefix
  <2>2. kept \in Int
    BY <2>1 DEF ZerosKept
  <2>3. z \in Seq(Glyphs) /\ Backwards(z) = z
    <3>1. "0" \in Glyphs
      BY DEF Glyphs
    <3>. HIDE DEF kept
    <3>. QED
      BY <2>2, <3>1, RepeatIs, RowBackwards
  <2>4. <<>> \in Seq(Glyphs) /\ Backwards(<<>>) = <<>>
    <3>1. <<>> \in Seq(Glyphs) /\ Len(<<>>) <= 1
      OBVIOUS
    <3>. QED
      BY <3>1, ShortBackwards
  <2>5. pre \in Seq(Glyphs) /\ Backwards(pre) = post
    BY <2>1, <2>4
  <2>6. sign \in Seq(Glyphs) /\ Backwards(sign) = sign
    <3>1. sign \in Seq(Glyphs) /\ Len(sign) = IF negative \/ F \cap {"PLUS", "SPACE"} # {} THEN 1 ELSE 0
      BY SignIs
    <3>2. Len(sign) <= 1
      BY <3>1
    <3>. HIDE DEF sign
    <3>. QED
      BY <3>1, <3>2, ShortBackwards
  <2>7. t = ((B \o z) \o pre) \o sign
    BY DEF InReverse
  <2>. HIDE DEF t, sign, pre, z, post, kept, with
  <2>8. Backwards(((B \o z) \o pre) \o sign)
          = Backwards(sign) \o (Backwards(pre) \o (Backwards(z) \o Backwards(B)))
    <3>1. z \in Seq(Glyphs) /\ pre \in Seq(Glyphs) /\ sign \in Seq(Glyphs)
      BY <2>3, <2>5, <2>6
    <3>. QED
      BY <3>1, FourBackwards, Zenon
  <2>. QED
    BY <2>2, <2>3, <2>5, <2>6, <2>7, <2>8 DEF t
<1>2. sign \in Seq(Glyphs) /\ Len(sign) \in Nat /\ (base # 10 => sign = <<>> /\ Len(sign) = 0)
  <2>1. sign \in Seq(Glyphs)
    BY SignIs
  <2>2. base # 10 => sign = <<>>
    BY SignIs DEF OnlyDecimalSigned
  <2>. HIDE DEF sign
  <2>. QED
    BY <2>1, <2>2
<1>3. /\ r \in Seq(Glyphs) /\ Len(r) = l /\ l \in Nat
      /\ q \o r \in Seq(Glyphs) /\ Len(q \o r) \in Nat
      /\ p <= l => q \o r = r
  <2>1. /\ r \in Seq(Glyphs) /\ Len(r) = l
        /\ q \o r \in Seq(Glyphs)
        /\ p <= l => q \o r = r
    BY DigitsAre
  <2>2. l \in Nat
    OBVIOUS
  <2>. DEFINE d == q \o r
  <2>3. d \in Seq(Glyphs)
    BY <2>1
  <2>. HIDE DEF d
  <2>4. Len(d) \in Nat
    BY <2>3
  <2>. HIDE DEF r, q, l
  <2>. QED
    BY <2>1, <2>2, <2>4 DEF d
<1>4. nought \in Seq(Glyphs) /\ Len(nought) = 1
  <2>1. "0" \in Glyphs
    BY DEF Glyphs
  <2>. QED
    BY <2>1
<1>5. head \in Seq(Glyphs) /\ Len(head) \in Nat
  <2>1. head \in Seq(Glyphs)
    BY HeadAndBody
  <2>. HIDE DEF head
  <2>. QED
    BY <2>1
<1>6. /\ zeropad => p = 0 /\ k = (IF w = 0 THEN 0 ELSE w - Len(sign)) - l
      /\ ~zeropad => k = p - l
  <2>1. zeropad => "ZEROPAD" \in F
    BY DEF Zeropad
  <2>2. WidthForZeros(w, negative, F) = IF w = 0 THEN 0 ELSE w - Len(sign)
    BY WidthForZerosIs
  <2>. HIDE DEF sign, l
  <2>. QED
    BY <2>1, <2>2 DEF FillTo, l
<1>7. /\ head = IF base = 10 THEN sign
               ELSE IF base # 8 /\ "HASH" \in F THEN Backwards(Prefix(base, F)) ELSE <<>>
      /\ body = IF base = 8 /\ "HASH" \in F /\ p <= l THEN nought \o (q \o r) ELSE q \o r
  BY DEF HeadOf, BodyOf
<1>8. /\ with <=> "HASH" \in F /\ ~(base = 8 /\ k > 0)
      /\ kept = IF zeropad /\ with THEN k - Len(Prefix(base, F)) ELSE k
  BY DEF WithPrefix, ZerosKept
<1>9. /\ base \in {2, 16} => Len(Prefix(base, F)) = 2 /\ Len(Backwards(Prefix(base, F))) = 2
      /\ base = 8 => Len(Prefix(base, F)) = 1 /\ Backwards(Prefix(base, F)) = nought
  <2>1. CASE base \in {2, 16}
    <3>1. Prefix(base, F) \in Seq(Glyphs) /\ Len(Prefix(base, F)) = 2
      BY <2>1, PrefixIs DEF Bases
    <3>2. Len(Backwards(Prefix(base, F))) = 2
      BY <3>1, BackwardsIs
    <3>. QED
      BY <2>1, <3>1, <3>2
  <2>2. CASE base = 8
    <3>1. BasePrefix(base, F) = <<>>
      BY <2>2 DEF BasePrefix
    <3>2. <<>> \o nought = nought
      BY <1>4, EmptyJoins
    <3>3. Prefix(base, F) = nought
      BY <3>1, <3>2 DEF Prefix
    <3>. HIDE DEF nought
    <3>4. Backwards(nought) = nought
      <4>1. nought \in Seq(Glyphs) /\ Len(nought) <= 1
        BY <1>4
      <4>. QED
        BY <4>1, ShortBackwards
    <3>. QED
      BY <1>4, <2>2, <3>3, <3>4
  <2>. QED
    BY <2>1, <2>2
<1>10. z = Repeat("0", kept) /\ q = Repeat("0", p - l) /\ fill = Repeat("0", gap)
  OBVIOUS
<1>11. /\ \A n \in Int : Repeat("0", n) \in Seq(Glyphs)
       /\ \A n \in Int : n <= 0 => Repeat("0", n) = <<>>
  BY ZerosAre
<1>12. base \in {2, 8, 10, 16}
  BY DEF Bases
<1>. HIDE DEF head, body, kept, with, post, sign, l, r, z, q, fill, nought, text, zeropad
<1>13. body \in Seq(Glyphs) /\ Len(body) \in Nat
  <2>1. body \in Seq(Glyphs)
    BY HeadAndBody DEF body
  <2>. QED
    BY <2>1
<1>14. gap \in Int /\ gap = w - Len(head) - Len(body)
  BY <1>5, <1>13
<1>. HIDE DEF gap
<1>15. z \in Seq(Glyphs) /\ q \in Seq(Glyphs) /\ fill \in Seq(Glyphs)
  <2>1. p - l \in Int
    BY <1>3
  <2>. QED
    BY <1>1, <1>10, <1>11, <1>14, <2>1
<1>16. z \o r \in Seq(Glyphs) /\ <<>> \o (z \o r) = z \o r
  <2>1. z \o r \in Seq(Glyphs)
    BY <1>3, <1>15, Joined
  <2>. QED
    BY <2>1, EmptyJoins
<1>17. CASE ~with /\ head = sign /\ body = q \o r
  <2>1. kept = k /\ post = <<>> /\ text = sign \o (z \o r)
    BY <1>1, <1>8, <1>16, <1>17 DEF post
  <2>2. CASE ~zeropad
    <3>1. z = q
      BY <1>6, <1>10, <2>1, <2>2
    <3>. QED
      BY <1>17, <2>1, <2>2, <3>1
  <2>3. CASE zeropad
    <3>1. p <= l /\ body = r /\ Len(body) = l
      BY <1>3, <1>6, <1>17, <2>3
    <3>2. z = fill
      <4>1. gap = w - Len(sign) - l
        BY <1>14, <1>17, <3>1
      <4>2. CASE w # 0
        <5>1. kept = gap
          BY <1>2, <1>3, <1>6, <2>1, <2>3, <4>1, <4>2
        <5>. QED
          BY <1>10, <5>1
      <4>3. CASE w = 0
        <5>1. kept <= 0 /\ gap <= 0
          BY <1>2, <1>3, <1>6, <2>1, <2>3, <4>1, <4>3
        <5>. QED
          BY <1>1, <1>10, <1>11, <1>14, <5>1
      <4>. QED
        BY <4>2, <4>3
    <3>3. sign \o (z \o r) = (sign \o z) \o r
      <4>1. sign \in Seq(Glyphs) /\ z \in Seq(Glyphs) /\ r \in Seq(Glyphs)
        BY <1>2, <1>3, <1>15
      <4>. QED
        BY <4>1, Regroup, Zenon
    <3>. QED
      BY <1>17, <2>1, <2>3, <3>1, <3>2, <3>3
  <2>. QED
    BY <2>2, <2>3
<1>18. CASE base \in {2, 16} /\ "HASH" \in F
  <2>1. with /\ post = head /\ sign = <<>> /\ body = q \o r /\ Len(head) = 2
    BY <1>2, <1>7, <1>8, <1>9, <1>18 DEF post
  <2>2. text = head \o (z \o r)
    <3>. DEFINE u == head \o (z \o r)
    <3>1. u \in Seq(Glyphs)
      BY <1>5, <1>16, Joined
    <3>2. <<>> \o u = u
      <4>. HIDE DEF u
      <4>. QED
        BY <3>1, EmptyJoins
    <3>. QED
      BY <1>1, <2>1, <3>2
  <2>3. CASE ~zeropad
    <3>1. z = q
      BY <1>6, <1>8, <1>10, <2>1, <2>3
    <3>. QED
      BY <2>1, <2>2, <2>3, <3>1
  <2>4. CASE zeropad
    <3>1. p <= l /\ body = r /\ Len(body) = l
      BY <1>3, <1>6, <2>1, <2>4
    <3>2. kept = k - 2 /\ gap = w - 2 - l
      BY <1>8, <1>9, <1>14, <1>18, <2>1, <2>4, <3>1
    <3>3. k = w - l
      <4>1. Len(sign) = 0
        BY <1>2, <1>18
      <4>. QED
        BY <1>3, <1>6, <2>4, <4>1
    <3>4. kept = gap
      BY <1>3, <3>2, <3>3
    <3>5. z = fill
      BY <1>10, <3>4
    <3>6. head \o (z \o r) = (head \o z) \o r
      <4>1. head \in Seq(Glyphs) /\ z \in Seq(Glyphs) /\ r \in Seq(Glyphs)
        BY <1>3, <1>5, <1>15
      <4>. QED
        BY <4>1, Regroup, Zenon
    <3>. QED
      BY <2>2, <2>4, <3>1, <3>5, <3>6
  <2>. QED
    BY <2>3, <2>4
<1>19. CASE base = 8 /\ "HASH" \in F
  <2>1. head = <<>> /\ sign = <<>> /\ Len(head) = 0 /\ Len(sign) = 0
    <3>1. Len(<<>>) = 0
      OBVIOUS
    <3>. QED
      BY <1>2, <1>7, <1>19, <3>1
  <2>2. <<>> \o body = body /\ <<>> \o fill = fill
    BY <1>13, <1>15, EmptyJoins
  <2>3. text = post \o (z \o r)
    <3>. DEFINE u == post \o (z \o r)
    <3>1. post \in Seq(Glyphs)
      <4>1. post \in {nought, <<>>} /\ <<>> \in Seq(Glyphs)
        BY <1>9, <1>19 DEF post
      <4>. QED
        BY <1>4, <4>1
    <3>2. u \in Seq(Glyphs)
      BY <1>16, <3>1, Joined
    <3>3. <<>> \o u = u
      <4>. HIDE DEF u
      <4>. QED
        BY <3>2, EmptyJoins
    <3>. QED
      BY <1>1, <2>1, <3>3
  <2>4. zeropad => k = w - l /\ p <= l
    BY <1>3, <1>6, <2>1
  <2>5. p <= l => body = nought \o (q \o r)
    BY <1>7, <1>19
  <2>6. zeropad => body = nought \o r /\ Len(body) = l + 1
    <3>1. zeropad => body = nought \o r
      BY <1>3, <2>4, <2>5
    <3>2. Len(nought \o r) = Len(nought) + Len(r)
      <4>1. nought \in Seq(Glyphs) /\ r \in Seq(Glyphs)
        BY <1>3, <1>4
      <4>. QED
        BY <4>1, Lengths, Zenon
    <3>3. l \in Nat /\ Len(nought) = 1 /\ Len(r) = l
      BY <1>3, <1>4
    <3>. QED
      BY <3>1, <3>2, <3>3
  <2>7. zeropad => gap = k - 1
    <3>1. l \in Nat /\ Len(head) = 0
      BY <1>3, <2>1
    <3>2. gap = w - Len(head) - Len(body)
      BY <1>14
    <3>3. zeropad => k = w - l /\ Len(body) = l + 1
      BY <2>4, <2>6
    <3>. DEFINE h == Len(head)
                b == Len(body)
    <3>. HIDE DEF h, b
    <3>4. gap = w - h - b /\ l \in Nat /\ h = 0 /\ (zeropad => k = w - l /\ b = l + 1)
      BY <3>1, <3>2, <3>3 DEF h, b
    <3>. QED
      BY <3>4
  <2>8. CASE k > 0
    <3>1. ~with /\ post = <<>> /\ kept = k /\ text = z \o r
      BY <1>8, <1>16, <1>19, <2>3, <2>8 DEF post
    <3>2. CASE ~zeropad
      <4>1. k = p - l /\ ~(p <= l)
        BY <1>3, <1>6, <2>8, <3>2
      <4>2. body = q \o r /\ z = q
        BY <1>7, <1>10, <3>1, <4>1
      <4>. QED
        BY <2>1, <2>2, <3>1, <3>2, <4>2
    <3>3. CASE zeropad
      <4>1. fill \o nought = z
        <5>. DEFINE one == 1
                    g == k - one
        <5>1. g \in Nat /\ g + 1 = k /\ "0" \in Glyphs /\ 1 \in Nat
          <6>1. "0" \in Glyphs
            BY <1>1, ZerosAre
          <6>. QED
            BY <2>8, <6>1
        <5>. HIDE DEF g
        <5>2. Repeat("0", g) \o Repeat("0", 1) = Repeat("0", g + 1)
          BY <5>1, RowsJoin
        <5>3. Repeat("0", 1) = nought
          <6>1. Max({1, 0}) = 1
            BY MaxOfTwo
          <6>. QED
            BY <6>1 DEF Repeat, nought
        <5>4. gap = g
          BY <2>7, <3>3 DEF g
        <5>. QED
          BY <1>10, <3>1, <5>1, <5>2, <5>3, <5>4
      <4>2. (fill \o nought) \o r = fill \o (nought \o r)
        <5>1. fill \in Seq(Glyphs) /\ nought \in Seq(Glyphs) /\ r \in Seq(Glyphs)
          BY <1>3, <1>4, <1>15
        <5>. QED
          BY <5>1, Regroup, Zenon
      <4>. QED
        BY <2>1, <2>2, <2>6, <3>1, <3>3, <4>1, <4>2
    <3>. QED
      BY <3>2, <3>3
  <2>9. CASE ~(k > 0)
    <3>1. with /\ post = nought /\ text = nought \o (z \o r)
      BY <1>8, <1>9, <1>19, <2>3, <2>9 DEF post
    <3>2. CASE ~zeropad
      <4>1. p <= l /\ z = q
        <5>1. kept = p - l
          BY <1>6, <1>8, <3>2
        <5>2. p <= l
          BY <1>3, <1>6, <2>9, <3>2
        <5>. QED
          BY <1>10, <5>1, <5>2
      <4>. QED
        BY <2>1, <2>2, <2>5, <3>1, <3>2, <4>1
    <3>3. CASE zeropad
      <4>1. kept = k - 1
        BY <1>8, <1>9, <1>19, <3>1, <3>3
      <4>2. z = <<>> /\ fill = <<>>
        BY <1>1, <1>10, <1>11, <1>14, <2>7, <2>9, <3>3, <4>1
      <4>3. <<>> \o r = r
        BY <1>3, EmptyJoins
      <4>4. text = body
        BY <2>6, <3>1, <3>3, <4>2, <4>3
      <4>5. (head \o fill) \o body = body
        BY <2>1, <2>2, <4>2
      <4>. QED
        BY <3>3, <4>4, <4>5
    <3>. QED
      BY <3>2, <3>3
  <2>. QED
    BY <2>8, <2>9
<1>20. Goal
  <2>1. base = 10 => ~with /\ head = sign /\ body = q \o r
    BY <1>7, <1>8
  <2>2. "HASH" \notin F /\ base # 10 => ~with /\ head = sign /\ body = q \o r
    BY <1>2, <1>7, <1>8
  <2>. HIDE DEF Goal
  <2>. QED
    BY <1>12, <1>17, <1>18, <1>19, <2>1, <2>2
<1>. QED
  BY <1>20

\* What the buffer holds is text.
LEMMA InReverseIsText ==
    ASSUME NEW B \in Seq(Glyphs), NEW negative \in BOOLEAN, NEW base \in Bases, NEW k \in Int, NEW F,
           base = 10 => "HASH" \notin F
    PROVE  InReverse(B, negative, base, k, F) \in Seq(Glyphs)
<1>. DEFINE z    == Repeat("0", ZerosKept(base, k, F))
            pre  == IF WithPrefix(base, k, F) THEN Prefix(base, F) ELSE <<>>
            sign == SignOf(negative, F)
<1>1. WithPrefix(base, k, F) => Prefix(base, F) \in Seq(Glyphs) /\ Len(Prefix(base, F)) \in {1, 2}
  BY PrefixIs DEF WithPrefix
<1>2. ZerosKept(base, k, F) \in Int
  BY <1>1 DEF ZerosKept
<1>3. z \in Seq(Glyphs)
  BY <1>2, ZerosAre
<1>4. pre \in Seq(Glyphs)
  <2>1. <<>> \in Seq(Glyphs)
    OBVIOUS
  <2>. QED
    BY <1>1, <2>1
<1>5. sign \in Seq(Glyphs)
  BY SignIs
<1>6. InReverse(B, negative, base, k, F) = ((B \o z) \o pre) \o sign
  BY DEF InReverse
<1>. HIDE DEF z, pre, sign
<1>7. ((B \o z) \o pre) \o sign \in Seq(Glyphs)
  BY <1>3, <1>4, <1>5, Lengths, Zenon
<1>. QED
  BY <1>6, <1>7

\* What the code does with the digits of an integer is to print its head and its body in the
\* field, if both, with the zeros that fill the field, fit the buffer.
LEMMA Matches ==
    ASSUME NEW B \in Seq(Glyphs), NEW negative \in BOOLEAN, NEW base \in Bases,
           NEW p \in Nat, NEW w \in Nat, NEW F,
           "POINTER" \notin F,
           base = 10 => "HASH" \notin F,
           "PRECISION" \in F => "ZEROPAD" \notin F,
           "PRECISION" \notin F => p = 0,
           OnlyDecimalSigned(base, negative, F),
           Len(IF Zeropad(F) THEN Field(HeadOf(base, negative, F), BodyOf(B, base, p, F), w, F)
               ELSE HeadOf(base, negative, F) \o BodyOf(B, base, p, F)) <= IntegerBufferSize
    PROVE  Finalize(B, negative, base, p, w, F)
             = Field(HeadOf(base, negative, F), BodyOf(B, base, p, F), w, F)
<1>. DEFINE head  == HeadOf(base, negative, F)
            body  == BodyOf(B, base, p, F)
            k     == FillTo(negative, p, w, F) - Len(B)
            s     == InReverse(B, negative, base, k, F)
            t     == Backwards(s)
            gap   == w - Len(head) - Len(body)
            fill  == Repeat("0", gap)
            space == " "
            sp    == Repeat(space, gap)
            N     == IntegerBufferSize
            zeropad == Zeropad(F)
            hb    == head \o body
            hfb   == (head \o fill) \o body
            width == IF zeropad THEN WidthForZeros(w, negative, F) ELSE w
            field == Field(head, body, w, F)
<1>1. k \in Int /\ N \in Nat
  <2>1. FillTo(negative, p, w, F) \in Nat
    BY WidthForZerosIs DEF FillTo
  <2>2. Len(B) \in Nat
    OBVIOUS
  <2>. HIDE DEF N
  <2>. QED
    BY <2>1, <2>2, SizesAssumption DEF N
<1>2. s \in Seq(Glyphs)
  <2>. HIDE DEF k
  <2>. QED
    BY <1>1, InReverseIsText
<1>3. t = IF zeropad THEN hfb ELSE hb
  <2>1. k = FillTo(negative, p, w, F) - Len(B)
    OBVIOUS
  <2>. HIDE DEF k
  <2>2. Zeropad(F) => Backwards(InReverse(B, negative, base, k, F))
                        = (HeadOf(base, negative, F)
                             \o Repeat("0", w - Len(HeadOf(base, negative, F)) - Len(BodyOf(B, base, p, F))))
                             \o BodyOf(B, base, p, F)
    BY <1>1, <2>1, RightWay
  <2>3. ~Zeropad(F) => Backwards(InReverse(B, negative, base, k, F))
                         = HeadOf(base, negative, F) \o BodyOf(B, base, p, F)
    BY <1>1, <2>1, RightWay
  <2>. QED
    BY <2>2, <2>3
<1>4. t \in Seq(Glyphs) /\ Len(t) = Len(s)
  <2>. HIDE DEF s
  <2>. QED
    BY <1>2, BackwardsIs
<1>5. /\ head \in Seq(Glyphs) /\ body \in Seq(Glyphs) /\ Len(body) >= p
      /\ Len(head) \in Nat /\ Len(body) \in Nat
  <2>1. head \in Seq(Glyphs) /\ body \in Seq(Glyphs) /\ Len(body) >= p
    BY HeadAndBody
  <2>. HIDE DEF head, body
  <2>2. Len(head) \in Nat /\ Len(body) \in Nat
    BY <2>1
  <2>. QED
    BY <2>1, <2>2
<1>6. field = IF "LEFT" \in F THEN hb \o sp ELSE IF "ZEROPAD" \in F THEN hfb ELSE (sp \o head) \o body
  <2>. HIDE DEF head, body
  <2>. QED
    BY Zenon DEF Field
<1>7. Len(IF zeropad THEN field ELSE hb) <= N
  OBVIOUS
<1>8. zeropad => field = hfb
  BY <1>6, Zenon DEF Zeropad
<1>9. fill \in Seq(Glyphs) /\ sp \in Seq(Glyphs) /\ gap \in Int /\ (gap >= 0 => Len(fill) = gap)
      /\ Len(fill) \in Nat
  <2>. HIDE DEF head, body
  <2>1. gap \in Int
    BY <1>5
  <2>2. space \in Glyphs
    BY Zenon DEF Glyphs
  <2>. HIDE DEF gap, space
  <2>3. sp \in Seq(Glyphs)
    BY <2>1, <2>2, RepeatIs
  <2>4. fill \in Seq(Glyphs) /\ (gap >= 0 => Len(fill) = gap)
    BY <2>1, ZerosAre
  <2>. HIDE DEF fill, sp
  <2>5. Len(fill) \in Nat
    BY <2>4
  <2>. QED
    BY <2>1, <2>3, <2>4, <2>5
<1>. DEFINE final == Finalize(B, negative, base, p, w, F)
            out   == OutRev(s, width, F)
<1>10. FillTo(negative, p, w, F) = (IF zeropad THEN WidthForZeros(w, negative, F) ELSE p)
  BY DEF FillTo
<1>11. WidthForZeros(w, negative, F) \in Nat /\ WidthForZeros(w, negative, F) <= w
  BY WidthForZerosIs
<1>. HIDE DEF head, body, gap, fill, sp, N, zeropad, field, t
<1>12. /\ hb \in Seq(Glyphs) /\ Len(hb) = Len(head) + Len(body)
       /\ hfb \in Seq(Glyphs) /\ Len(hfb) = Len(head) + Len(fill) + Len(body)
  <2>1. head \in Seq(Glyphs) /\ body \in Seq(Glyphs) /\ fill \in Seq(Glyphs)
    BY <1>5, <1>9
  <2>2. hb \in Seq(Glyphs) /\ Len(hb) = Len(head) + Len(body)
    BY <2>1, Lengths, Zenon
  <2>3. head \o fill \in Seq(Glyphs) /\ Len(head \o fill) = Len(head) + Len(fill)
    BY <2>1, Lengths, Zenon
  <2>. DEFINE hf == head \o fill
  <2>. HIDE DEF hf
  <2>4. hf \o body \in Seq(Glyphs) /\ Len(hf \o body) = Len(hf) + Len(body)
    <3>1. hf \in Seq(Glyphs)
      BY <2>3 DEF hf
    <3>. QED
      BY <2>1, <3>1, Lengths, Zenon
  <2>5. hfb \in Seq(Glyphs) /\ Len(hfb) = Len(head) + Len(fill) + Len(body)
    BY <2>3, <2>4 DEF hf
  <2>. QED
    BY <2>2, <2>5
<1>. HIDE DEF hb, hfb
<1>13. FillTo(negative, p, w, F) <= N /\ Len(t) <= N
  <2>. DEFINE a == Len(head)
              b == Len(body)
              c == Len(fill)
              L == Len(hfb)
  <2>1. a \in Nat /\ b \in Nat /\ c \in Nat /\ b >= p
    BY <1>5, <1>9
  <2>2. gap = w - a - b /\ (gap >= 0 => c = gap) /\ gap \in Int
    BY <1>9 DEF gap
  <2>3. L = a + c + b /\ Len(hb) = a + b
    BY <1>12
  <2>. HIDE DEF a, b, c, L
  <2>4. CASE zeropad
    <3>1. L <= N /\ Len(t) <= N
      BY <1>3, <1>7, <1>8, <2>4 DEF L
    <3>2. w <= L
      BY <2>1, <2>2, <2>3
    <3>. QED
      BY <1>1, <1>10, <1>11, <2>1, <2>3, <2>4, <3>1, <3>2
  <2>5. CASE ~zeropad
    <3>1. Len(hb) <= N /\ Len(t) <= N
      BY <1>3, <1>7, <2>5
    <3>. QED
      BY <1>1, <1>10, <2>1, <2>3, <2>5, <3>1
  <2>. QED
    BY <2>4, <2>5
<1>14. final = out
  <2>1. k = FillTo(negative, p, w, F) - Len(B)
    OBVIOUS
  <2>2. Len(s) <= IntegerBufferSize /\ FillTo(negative, p, w, F) <= IntegerBufferSize
    BY <1>4, <1>13 DEF N
  <2>. HIDE DEF k
  <2>. QED
    BY <1>1, <2>1, <2>2, FinalizeIs DEF zeropad
<1>. DEFINE spaces == Repeat(space, width - Len(s))
<1>15. out = ((IF F \cap {"LEFT", "ZEROPAD"} = {} THEN spaces ELSE <<>>) \o t)
               \o (IF "LEFT" \in F THEN spaces ELSE <<>>)
  BY Zenon DEF OutRev, t
<1>16. ~zeropad => spaces = sp
  <2>1. ~zeropad => width - Len(s) = gap
    <3>1. ~zeropad => Len(s) = Len(head) + Len(body)
      BY <1>3, <1>4, <1>12
    <3>2. ~zeropad => width = w
      OBVIOUS
    <3>. QED
      BY <1>5, <3>1, <3>2 DEF gap
  <2>. HIDE DEF width, s
  <2>. QED
    BY <2>1 DEF sp
<1>. HIDE DEF out, final, spaces, width, s
<1>17. \A x \in Seq(Glyphs) : <<>> \o x = x /\ x \o <<>> = x
  BY EmptyJoins
<1>18. out = field
  <2>1. CASE "LEFT" \in F
    <3>1. ~zeropad /\ F \cap {"LEFT", "ZEROPAD"} # {}
      BY <2>1 DEF zeropad, Zeropad
    <3>2. out = (<<>> \o t) \o sp /\ t = hb
      BY <1>3, <1>15, <1>16, <2>1, <3>1
    <3>. QED
      BY <1>6, <1>12, <1>17, <2>1, <3>2
  <2>2. CASE "LEFT" \notin F /\ "ZEROPAD" \in F
    <3>1. zeropad /\ F \cap {"LEFT", "ZEROPAD"} # {}
      BY <2>2 DEF zeropad, Zeropad
    <3>2. out = (<<>> \o t) \o <<>> /\ t = hfb
      BY <1>3, <1>15, <2>2, <3>1
    <3>. QED
      BY <1>6, <1>12, <1>17, <2>2, <3>2
  <2>3. CASE "LEFT" \notin F /\ "ZEROPAD" \notin F
    <3>1. ~zeropad /\ F \cap {"LEFT", "ZEROPAD"} = {}
      BY <2>3 DEF zeropad, Zeropad
    <3>2. out = (sp \o t) \o <<>> /\ t = hb
      BY <1>3, <1>15, <1>16, <2>3, <3>1
    <3>3. sp \in Seq(Glyphs) /\ head \in Seq(Glyphs) /\ body \in Seq(Glyphs)
      BY <1>5, <1>9
    <3>4. sp \o (head \o body) = (sp \o head) \o body
      BY <3>3, Regroup, Zenon
    <3>5. sp \o hb \in Seq(Glyphs)
      BY <1>12, <3>3, Lengths, Zenon
    <3>6. (sp \o hb) \o <<>> = sp \o hb
      BY <1>17, <3>5, Zenon
    <3>. QED
      BY <1>6, <2>3, <3>2, <3>4, <3>6 DEF hb
  <2>. QED
    BY <2>1, <2>2, <2>3
<1>. QED
  BY <1>14, <1>18 DEF final, field, head, body

----------------------------------------------------------------------------
(* The fields of a directive and of its meaning *)

\* The flags that the code converts an integer with
FlagsFor(d, conv) ==
    (d.flags \cup (IF conv = "X" THEN {"UPPERCASE"} ELSE {}))
      \ ((IF Base(conv) = 10 THEN {"HASH"} ELSE {})
         \cup (IF "PRECISION" \in d.flags THEN {"ZEROPAD"} ELSE {})
         \cup (IF conv \in {"d", "i"} THEN {} ELSE {"PLUS", "SPACE"}))

\* Which flags the conversion of an integer has.
LEMMA FlagsAre ==
    ASSUME NEW d, Parsed(d), NEW conv \in IntegerConv
    PROVE  LET F == FlagsFor(d, conv)
           IN  /\ "POINTER" \notin F
               /\ "UPPERCASE" \in F <=> conv = "X"
               /\ "HASH" \in F <=> "HASH" \in d.flags /\ Base(conv) # 10
               /\ "LEFT" \in F <=> "LEFT" \in d.flags
               /\ "PRECISION" \in F <=> "PRECISION" \in d.flags
               /\ "ZEROPAD" \in F <=> "ZEROPAD" \in d.flags /\ "PRECISION" \notin d.flags
               /\ "PLUS" \in F <=> "PLUS" \in d.flags /\ conv \in {"d", "i"}
               /\ "SPACE" \in F <=> "SPACE" \in d.flags /\ conv \in {"d", "i"}
               /\ IntegerType(F) = IntegerType(d.flags)
<1>1. "POINTER" \notin d.flags /\ "UPPERCASE" \notin d.flags
  BY DEF Parsed
<1>. DEFINE F == FlagsFor(d, conv)
<1>2. \A f : f \in F <=>
          /\ f \in d.flags \/ (conv = "X" /\ f = "UPPERCASE")
          /\ ~(Base(conv) = 10 /\ f = "HASH")
          /\ ~("PRECISION" \in d.flags /\ f = "ZEROPAD")
          /\ ~(conv \notin {"d", "i"} /\ f \in {"PLUS", "SPACE"})
  BY DEF FlagsFor
<1>. HIDE DEF F
<1>3. \A f \in {"LEFT", "PRECISION", "LONG_LONG", "LONG", "CHAR", "SHORT"} : f \in F <=> f \in d.flags
  BY <1>2
<1>4. IntegerType(F) = IntegerType(d.flags)
  BY <1>3 DEF IntegerType
<1>5. /\ "POINTER" \notin F
      /\ "HASH" \in F <=> "HASH" \in d.flags /\ Base(conv) # 10
      /\ "ZEROPAD" \in F <=> "ZEROPAD" \in d.flags /\ "PRECISION" \notin d.flags
  BY <1>1, <1>2
<1>6. /\ "PLUS" \in F <=> "PLUS" \in d.flags /\ conv \in {"d", "i"}
      /\ "SPACE" \in F <=> "SPACE" \in d.flags /\ conv \in {"d", "i"}
  BY <1>2
<1>7. "UPPERCASE" \in F <=> conv = "X"
  BY <1>1, <1>2
<1>. QED
  BY <1>3, <1>4, <1>5, <1>6, <1>7 DEF F

\* The base of each specifier.
LEMMA BaseIs ==
    ASSUME NEW conv \in IntegerConv
    PROVE  /\ Base(conv) \in Bases
           /\ Base(conv) = 16 <=> conv \in {"x", "X"}
           /\ Base(conv) = 8 <=> conv = "o"
           /\ Base(conv) = 2 <=> conv = "b"
           /\ Base(conv) = 10 <=> conv \in {"d", "i", "u"}
  BY DEF Base, Bases, IntegerConv

\* The value of the argument in its type
ValueFor(d, conv, x) ==
    IF conv \in {"d", "i"} THEN AsSigned(x, IntegerType(d.flags)) ELSE AsUnsigned(x, IntegerType(d.flags))

\* The argument in its type is a number, and no negative one where the type is unsigned.
LEMMA ValueIs ==
    ASSUME NEW d, NEW conv, NEW x \in Int
    PROVE  ValueFor(d, conv, x) \in Int /\ (conv \notin {"d", "i"} => ValueFor(d, conv, x) >= 0)
<1>. DEFINE t == IntegerType(d.flags)
            n == Bits[t]
            m == Power(2, n)
            h == Power(2, n - 1)
<1>1. t \in {"char", "short", "int", "long", "llong"}
  BY DEF IntegerType
<1>. HIDE DEF t
<1>2. n \in Nat /\ n - 1 \in Nat
  BY <1>1, PrintfAssumption
<1>. HIDE DEF n
<1>3. m \in Nat \ {0} /\ h \in Nat \ {0}
  BY <1>2, PowerIs
<1>4. AsUnsigned(x, t) = x % m /\ AsSigned(x, t) = ((x + h) % (2 * h)) - h
  BY DEF AsUnsigned, AsSigned, n, m, h
<1>. HIDE DEF m, h
<1>5. x % m \in Nat
  BY <1>3
<1>6. ((x + h) % (2 * h)) - h \in Int
  <2>. DEFINE y == x + h
              k == 2 * h
  <2>1. y \in Int /\ k \in Nat \ {0}
    BY <1>3
  <2>. HIDE DEF y, k
  <2>2. y % k \in Nat
    BY <2>1
  <2>. QED
    BY <1>3, <2>2 DEF y, k
<1>7. AsUnsigned(x, t) \in Nat /\ AsSigned(x, t) \in Int
  BY <1>4, <1>5, <1>6
<1>. QED
  BY <1>7 DEF ValueFor, t

\* The fields of a meaning are those of its parse.
LEMMA MeaningIs ==
    ASSUME NEW d, NEW conv, NEW x
    PROVE  LET m == Meaning(d, conv, x)
           IN  /\ "0" \in m.flags <=> "ZEROPAD" \in d.flags
               /\ "-" \in m.flags <=> "LEFT" \in d.flags
               /\ "+" \in m.flags <=> "PLUS" \in d.flags
               /\ "#" \in m.flags <=> "HASH" \in d.flags
               /\ m.width = d.width /\ m.conv = conv
               /\ m.prec = IF "PRECISION" \in d.flags THEN d.precision ELSE -1
               /\ m.value = ValueFor(d, conv, x)
<1>. DEFINE m == Meaning(d, conv, x)
<1>1. /\ {"0", "-", "+", "#"} \subseteq DOMAIN FlagOf
      /\ FlagOf["0"] = "ZEROPAD" /\ FlagOf["-"] = "LEFT" /\ FlagOf["+"] = "PLUS"
      /\ FlagOf["#"] = "HASH"
  BY DEF FlagOf
<1>2. m.flags = {c \in DOMAIN FlagOf : FlagOf[c] \in d.flags}
  BY DEF Meaning
<1>3. /\ m.width = d.width /\ m.conv = conv
      /\ m.prec = IF "PRECISION" \in d.flags THEN d.precision ELSE -1
      /\ m.value = ValueFor(d, conv, x)
  BY DEF Meaning, ValueFor
<1>. HIDE DEF m
<1>. QED
  BY <1>1, <1>2, <1>3 DEF m

\* And so is the flag of a space.
LEMMA MeansSpace ==
    ASSUME NEW d, NEW conv, NEW x, NEW space, space = " "
    PROVE  space \in Meaning(d, conv, x).flags <=> "SPACE" \in d.flags
<1>1. space \in DOMAIN FlagOf /\ FlagOf[space] = "SPACE"
  BY DEF FlagOf
<1>2. Meaning(d, conv, x).flags = {c \in DOMAIN FlagOf : FlagOf[c] \in d.flags}
  BY DEF Meaning
<1>. QED
  BY <1>1, <1>2

\* The digits that print_integer makes, the lowest first, and the flags it goes on with
Made(v, base, F) ==
    IF v = 0 THEN IF "PRECISION" \in F THEN <<>> ELSE <<"0">>
    ELSE LowDigits(v, base, "UPPERCASE" \in F)

FlagsLeft(v, base, F) ==
    IF v = 0 /\ ("PRECISION" \notin F \/ base = 16) THEN F \ {"HASH"} ELSE F

\* Only '#' may be dropped on the way.
LEMMA LeftAre ==
    ASSUME NEW v, NEW base, NEW F
    PROVE  LET G == FlagsLeft(v, base, F)
           IN  /\ "HASH" \in G <=> "HASH" \in F /\ ~(v = 0 /\ ("PRECISION" \notin F \/ base = 16))
               /\ \A f : f # "HASH" => (f \in G <=> f \in F)
               /\ "POINTER" \in G <=> "POINTER" \in F
               /\ "UPPERCASE" \in G <=> "UPPERCASE" \in F
               /\ "LEFT" \in G <=> "LEFT" \in F
               /\ "PRECISION" \in G <=> "PRECISION" \in F
               /\ "ZEROPAD" \in G <=> "ZEROPAD" \in F
               /\ "PLUS" \in G <=> "PLUS" \in F
               /\ "SPACE" \in G <=> "SPACE" \in F
<1>. DEFINE G == FlagsLeft(v, base, F)
<1>1. \A f : f \in G <=> f \in F /\ ~(f = "HASH" /\ v = 0 /\ ("PRECISION" \notin F \/ base = 16))
  BY DEF FlagsLeft
<1>. HIDE DEF G
<1>. QED
  BY <1>1 DEF G

\* The text of one zero.
LEMMA NoughtBackwards == <<"0">> \in Seq(Glyphs) /\ Len(<<"0">>) = 1 /\ Backwards(<<"0">>) = <<"0">>
                         /\ Repeat("0", 1) = <<"0">>
<1>1. "0" \in Glyphs
  BY DEF Glyphs
<1>2. <<"0">> \in Seq(Glyphs) /\ Len(<<"0">>) = 1
  BY <1>1
<1>3. Backwards(<<"0">>) = <<"0">>
  <2>. DEFINE z == <<"0">>
  <2>1. z \in Seq(Glyphs) /\ Len(z) <= 1
    BY <1>2
  <2>. HIDE DEF z
  <2>2. Backwards(z) = z
    BY <2>1, ShortBackwards
  <2>. QED
    BY <2>2 DEF z
<1>4. Max({1, 0}) = 1
  BY MaxOfTwo
<1>. QED
  BY <1>2, <1>3, <1>4 DEF Repeat

\* The text of nothing.
LEMMA NothingBackwards == <<>> \in Seq(Glyphs) /\ Len(<<>>) = 0 /\ Backwards(<<>>) = <<>>
<1>1. <<>> \in Seq(Glyphs) /\ Len(<<>>) = 0
  OBVIOUS
<1>2. Backwards(<<>>) = <<>>
  <2>. DEFINE z == <<>>
  <2>1. z \in Seq(Glyphs) /\ Len(z) <= 1
    BY <1>1
  <2>. HIDE DEF z
  <2>2. Backwards(z) = z
    BY <2>1, ShortBackwards
  <2>. QED
    BY <2>2 DEF z
<1>. QED
  BY <1>1, <1>2

\* The digits made: none of them a leading zero, but the one of a 0 without a precision.
LEMMA MadeIs ==
    ASSUME NEW base \in Bases, NEW v \in Nat, NEW F
    PROVE  LET B == Made(v, base, F)
           IN  /\ B \in Seq(Glyphs) /\ Len(B) \in Nat
               /\ v > 0 => Len(B) > 0 /\ B[Len(B)] # "0"
               /\ v = 0 /\ "PRECISION" \in F => Len(B) = 0
               /\ v = 0 /\ "PRECISION" \notin F => Len(B) = 1
<1>. DEFINE upper == "UPPERCASE" \in F
            L == LowDigits(v, base, upper)
            B == Made(v, base, F)
<1>1. upper \in BOOLEAN
  OBVIOUS
<1>2. L \in Seq(Glyphs)
  BY <1>1, LowDigitsAre
<1>3. ASSUME v > 0 PROVE Len(L) > 0 /\ L[Len(L)] # "0"
  <2>1. v \in Nat \ {0}
    BY <1>3
  <2>. QED
    BY <1>1, <2>1, TopDigit
<1>4. B = IF v = 0 THEN IF "PRECISION" \in F THEN <<>> ELSE <<"0">> ELSE L
  BY DEF Made
<1>. HIDE DEF L, B
<1>5. B \in Seq(Glyphs)
  BY <1>2, <1>4, NoughtBackwards, NothingBackwards
<1>6. Len(B) \in Nat
  BY <1>5
<1>7. v > 0 => Len(B) > 0 /\ B[Len(B)] # "0"
  BY <1>3, <1>4
<1>8. /\ v = 0 /\ "PRECISION" \in F => Len(B) = 0
      /\ v = 0 /\ "PRECISION" \notin F => Len(B) = 1
  BY <1>4, NoughtBackwards, NothingBackwards
<1>. QED
  BY <1>5, <1>6, <1>7, <1>8 DEF B

\* upper: the digits are those in capitals.
SameCase(upper, F) == upper = ("UPPERCASE" \in F)

\* How many digits there are at least
LeastDigits(F, p) == IF "PRECISION" \in F THEN p ELSE 1

\* The digits an integer should have are those made, the highest first, behind zeros up to the
\* precision.
LEMMA DigitsMatch ==
    ASSUME NEW base \in Bases, NEW v \in Nat, NEW F, NEW p \in Nat, NEW upper \in BOOLEAN,
           SameCase(upper, F), "PRECISION" \notin F => p = 0
    PROVE  LET B == Made(v, base, F)
           IN  T!DigitsOf(v, T!Max({T!DigitCount(v, base), LeastDigits(F, p)}), base, upper)
                 = Repeat("0", p - Len(B)) \o Backwards(B)
<1>. DEFINE B == Made(v, base, F)
            L == LowDigits(v, base, upper)
            least == IF "PRECISION" \in F THEN p ELSE 1
            s == T!DigitsOf(v, T!Max({T!DigitCount(v, base), least}), base, upper)
<1>1. L \in Seq(Glyphs)
  BY LowDigitsAre
<1>2. ASSUME v > 0 PROVE Len(L) > 0
  <2>1. v \in Nat \ {0}
    BY <1>2
  <2>. QED
    BY <2>1, TopDigit
<1>3. v = 0 => L = <<>>
  BY LowDigitsStep
<1>4. least \in Nat
  OBVIOUS
<1>5. s = Repeat("0", least - Len(L)) \o Backwards(L)
  BY <1>4, DigitsShown
<1>6. B = IF v = 0 THEN IF "PRECISION" \in F THEN <<>> ELSE <<"0">> ELSE L
  BY DEF Made, SameCase
<1>. DEFINE t == Repeat("0", p - Len(B)) \o Backwards(B)
<1>. HIDE DEF s, L, B
<1>7. Len(L) \in Nat
  BY <1>1
<1>. SUFFICES s = t
  BY Zenon DEF s, B, LeastDigits
<1>8. CASE "PRECISION" \in F
  <2>1. B = L /\ least = p
    BY <1>3, <1>6, <1>8
  <2>. QED
    BY <1>5, <2>1
<1>9. CASE "PRECISION" \notin F /\ v > 0
  <2>1. B = L /\ least - Len(L) <= 0 /\ p - Len(L) <= 0 /\ least - Len(L) \in Int /\ p - Len(L) \in Int
    BY <1>2, <1>6, <1>7, <1>9
  <2>2. Repeat("0", least - Len(L)) = <<>> /\ Repeat("0", p - Len(L)) = <<>>
    BY <2>1, ZerosAre
  <2>. QED
    BY <1>5, <2>1, <2>2
<1>10. CASE "PRECISION" \notin F /\ v = 0
  <2>1. B = <<"0">> /\ L = <<>> /\ least = 1 /\ p = 0
    BY <1>3, <1>6, <1>10
  <2>2. s = <<"0">> \o <<>>
    <3>1. Len(L) = 0 /\ Backwards(L) = <<>> /\ least - 0 = 1
      BY <2>1, NothingBackwards
    <3>2. s = Repeat("0", 1) \o <<>>
      BY <1>5, <3>1
    <3>. QED
      BY <3>2, NoughtBackwards
  <2>3. t = <<>> \o <<"0">>
    <3>1. Repeat("0", 0 - 1) = <<>>
      <4>1. 0 - 1 \in Int /\ 0 - 1 <= 0
        OBVIOUS
      <4>. QED
        BY <4>1, ZerosAre
    <3>2. Len(B) = 1 /\ Backwards(B) = <<"0">>
      BY <2>1, NoughtBackwards
    <3>. QED
      BY <2>1, <3>1, <3>2
  <2>4. <<"0">> \o <<>> = <<"0">> /\ <<>> \o <<"0">> = <<"0">>
    BY NoughtBackwards, EmptyJoins
  <2>. QED
    BY <2>2, <2>3, <2>4
<1>. QED
  BY <1>8, <1>9, <1>10

\* The parts of what an integer should be printed as
LEMMA ShownIs ==
    ASSUME NEW m, m.conv \in IntegerConv
    PROVE  LET v      == IF m.value < 0 THEN -m.value ELSE m.value
               base   == Base(m.conv)
               digits == T!DigitsOf(v, T!Max({T!DigitCount(v, base), IF m.prec < 0 THEN 1 ELSE m.prec}),
                                    base, m.conv = "X")
               alt    == "#" \in m.flags
           IN  /\ T!Shown(m).body = IF alt /\ base = 8 /\ (digits = <<>> \/ digits[1] # "0")
                                    THEN <<"0">> \o digits ELSE digits
               /\ T!Shown(m).head = IF m.conv \in {"d", "i"} THEN T!Sign(m.value < 0, m)
                                    ELSE IF alt /\ v # 0 /\ base = 16 THEN <<"0", m.conv>>
                                    ELSE IF alt /\ v # 0 /\ base = 2 THEN <<"0", "b">>
                                    ELSE <<>>
<1>1. T!Shown(m) = T!IntegerShown(m)
  BY DEF T!Shown, IntegerConv
<1>. DEFINE v      == IF m.value < 0 THEN -m.value ELSE m.value
            base   == Base(m.conv)
            digits == T!DigitsOf(v, T!Max({T!DigitCount(v, base), IF m.prec < 0 THEN 1 ELSE m.prec}),
                                 base, m.conv = "X")
            alt    == "#" \in m.flags
            body   == IF alt /\ base = 8 /\ (digits = <<>> \/ digits[1] # "0")
                      THEN <<"0">> \o digits ELSE digits
            head   == CASE m.conv \in {"d", "i"} -> T!Sign(m.value < 0, m)
                        [] alt /\ v # 0 /\ base = 16 -> <<"0", m.conv>>
                        [] alt /\ v # 0 /\ base = 2  -> <<"0", "b">>
                        [] OTHER -> <<>>
<1>2. T!Shown(m) = [head |-> head, body |-> body]
  BY <1>1 DEF T!IntegerShown, Base
<1>3. /\ m.conv \in {"d", "i"} => base = 10
  BY DEF Base
<1>. HIDE DEF v, base, digits
<1>. QED
  BY <1>2, <1>3 DEF v, base, digits

Magnitude(d, conv, x) == IF ValueFor(d, conv, x) < 0 THEN -ValueFor(d, conv, x) ELSE ValueFor(d, conv, x)

\* What the code makes of a directive: its head, its body, and the flags that lay them out
Flags(d, conv, x) == FlagsLeft(Magnitude(d, conv, x), Base(conv), FlagsFor(d, conv))

HeadMade(d, conv, x) == HeadOf(Base(conv), ValueFor(d, conv, x) < 0, Flags(d, conv, x))

BodyMade(d, conv, x) ==
    BodyOf(Made(Magnitude(d, conv, x), Base(conv), FlagsFor(d, conv)), Base(conv), d.precision,
           Flags(d, conv, x))

\* The body is the one that the directive means: in base 8 under '#' with a zero in front.
LEMMA BodyMatch ==
    ASSUME NEW d, Parsed(d), NEW conv \in IntegerConv, NEW x \in Int
    PROVE  T!Shown(Meaning(d, conv, x)).body = BodyMade(d, conv, x)
<1>. DEFINE m    == Meaning(d, conv, x)
            base == Base(conv)
            v    == Magnitude(d, conv, x)
            F    == FlagsFor(d, conv)
            G    == Flags(d, conv, x)
            B    == Made(v, base, F)
            p    == d.precision
            least == LeastDigits(F, p)
            upper == conv = "X"
            s    == T!DigitsOf(v, T!Max({T!DigitCount(v, base), least}), base, upper)
            extra == <<"0">> \o s
            alt  == "HASH" \in d.flags
            body == T!Shown(m).body
<1>1. v \in Nat /\ p \in Nat /\ base \in Bases /\ upper \in BOOLEAN
  BY ValueIs, BaseIs DEF Magnitude, Parsed
<1>2. /\ upper <=> "UPPERCASE" \in F
      /\ base = 8 => ("HASH" \in F <=> alt)
      /\ "PRECISION" \in F <=> "PRECISION" \in d.flags
      /\ "PRECISION" \notin F => p = 0
  <2>1. "PRECISION" \notin d.flags => p = 0
    BY DEF Parsed
  <2>. QED
    BY <2>1, FlagsAre
<1>3. "HASH" \in G <=> "HASH" \in F /\ ~(v = 0 /\ ("PRECISION" \notin F \/ base = 16))
  BY LeftAre DEF Flags
<1>4. /\ B \in Seq(Glyphs) /\ Len(B) \in Nat
      /\ v > 0 => Len(B) > 0 /\ B[Len(B)] # "0"
      /\ v = 0 /\ "PRECISION" \in F => Len(B) = 0
      /\ v = 0 /\ "PRECISION" \notin F => Len(B) = 1
  BY <1>1, MadeIs
<1>5. body = IF alt /\ base = 8 /\ (s = <<>> \/ s[1] # "0") THEN extra ELSE s
  <2>1. /\ m.conv = conv /\ m.value = ValueFor(d, conv, x) /\ ("#" \in m.flags <=> alt)
        /\ m.prec = IF "PRECISION" \in d.flags THEN p ELSE -1
    BY MeaningIs
  <2>2. (IF m.prec < 0 THEN 1 ELSE m.prec) = least
    <3>1. "PRECISION" \in d.flags => m.prec = p /\ ~(p < 0)
      BY <1>1, <2>1
    <3>2. "PRECISION" \notin d.flags => m.prec = -1
      BY <2>1
    <3>. HIDE DEF m
    <3>. QED
      BY <1>2, <3>1, <3>2 DEF LeastDigits
  <2>3. (IF m.value < 0 THEN -m.value ELSE m.value) = v
    BY <2>1 DEF Magnitude
  <2>. HIDE DEF m, least, v
  <2>4. LET u == IF m.value < 0 THEN -m.value ELSE m.value
            digits == T!DigitsOf(u, T!Max({T!DigitCount(u, Base(m.conv)), IF m.prec < 0 THEN 1 ELSE m.prec}),
                                 Base(m.conv), m.conv = "X")
        IN  T!Shown(m).body = IF "#" \in m.flags /\ Base(m.conv) = 8 /\ (digits = <<>> \/ digits[1] # "0")
                              THEN <<"0">> \o digits ELSE digits
    BY <2>1, ShownIs
  <2>. QED
    BY <2>1, <2>2, <2>3, <2>4, Zenon
<1>. DEFINE digits == Repeat("0", p - Len(B)) \o Backwards(B)
<1>6. s = digits
  <2>1. SameCase(upper, F)
    BY <1>2 DEF SameCase
  <2>2. v \in Nat /\ p \in Nat /\ base \in Bases /\ upper \in BOOLEAN
    BY <1>1
  <2>3. "PRECISION" \notin F => p = 0
    BY <1>2
  <2>. HIDE DEF v, F, base, upper, p
  <2>4. T!DigitsOf(v, T!Max({T!DigitCount(v, base), LeastDigits(F, p)}), base, upper)
          = Repeat("0", p - Len(Made(v, base, F))) \o Backwards(Made(v, base, F))
    BY <2>1, <2>2, <2>3, DigitsMatch
  <2>. QED
    BY <2>4
<1>7. BodyMade(d, conv, x) = IF base = 8 /\ "HASH" \in G /\ p <= Len(B) THEN <<"0">> \o digits ELSE digits
  BY DEF BodyMade, BodyOf
<1>. HIDE DEF B, s, G, F, v, p
<1>8. /\ digits \in Seq(Glyphs)
      /\ Len(digits) = IF p >= Len(B) THEN p ELSE Len(B)
      /\ Backwards(B) \in Seq(Glyphs) /\ Len(Backwards(B)) = Len(B)
      /\ p <= Len(B) => digits = Backwards(B)
      /\ p > Len(B) => digits # <<>> /\ digits[1] = "0"
  BY <1>1, <1>4, DigitsAre
<1>9. Len(B) > 0 => Backwards(B)[1] = B[Len(B)]
  <2>1. \A i \in 1..Len(B) : Backwards(B)[i] = B[Len(B) + 1 - i]
    BY <1>4, BackwardsIs
  <2>2. Len(B) > 0 => 1 \in 1..Len(B) /\ Len(B) + 1 - 1 = Len(B)
    BY <1>4
  <2>. QED
    BY <2>1, <2>2
<1>10. ~(v = 0 /\ "PRECISION" \notin F) => ((digits = <<>> \/ digits[1] # "0") <=> p <= Len(B))
  <2>1. CASE p > Len(B)
    BY <1>1, <1>4, <1>8, <2>1
  <2>2. CASE p <= Len(B) /\ v > 0
    BY <1>4, <1>8, <1>9, <2>2
  <2>3. CASE p <= Len(B) /\ v = 0 /\ "PRECISION" \in F
    <3>1. Len(digits) = 0
      BY <1>1, <1>4, <1>8, <2>3
    <3>2. digits = <<>>
      <4>. HIDE DEF digits
      <4>. QED
        BY <1>8, <3>1
    <3>. QED
      BY <2>3, <3>2
  <2>. QED
    BY <1>1, <1>4, <2>1, <2>2, <2>3
<1>11. v = 0 /\ "PRECISION" \notin F => digits # <<>> /\ digits[1] = "0"
  <2>1. SUFFICES ASSUME v = 0, "PRECISION" \notin F PROVE digits # <<>> /\ digits[1] = "0"
    OBVIOUS
  <2>2. B = <<"0">> /\ p = 0
    BY <1>2, <2>1 DEF B, Made
  <2>3. digits = Backwards(B)
    BY <1>4, <1>8, <2>1, <2>2
  <2>4. digits = <<"0">>
    BY <2>2, <2>3, NoughtBackwards
  <2>. HIDE DEF digits
  <2>. QED
    BY <2>4
<1>. HIDE DEF digits, alt, base, body
<1>. SUFFICES body = BodyMade(d, conv, x)
  BY Zenon DEF body, m
<1>12. CASE base = 8 /\ alt /\ ~(v = 0 /\ "PRECISION" \notin F)
  BY <1>2, <1>3, <1>5, <1>6, <1>7, <1>10, <1>12
<1>13. CASE base = 8 /\ alt /\ v = 0 /\ "PRECISION" \notin F
  BY <1>3, <1>5, <1>6, <1>7, <1>11, <1>13
<1>14. CASE ~(base = 8 /\ alt)
  BY <1>2, <1>3, <1>5, <1>6, <1>7, <1>14
<1>. QED
  BY <1>12, <1>13, <1>14

\* And so is the head, a sign or a prefix, but for a 0 of base 2 that has a precision.
LEMMA HeadMatch ==
    ASSUME NEW d, Parsed(d), NEW conv \in IntegerConv, NEW x \in Int,
           ~(conv = "b" /\ ValueFor(d, conv, x) = 0 /\ "HASH" \in d.flags /\ "PRECISION" \in d.flags)
    PROVE  T!Shown(Meaning(d, conv, x)).head = HeadMade(d, conv, x)
<1>. DEFINE m    == Meaning(d, conv, x)
            base == Base(conv)
            val  == ValueFor(d, conv, x)
            v    == Magnitude(d, conv, x)
            F    == FlagsFor(d, conv)
            G    == Flags(d, conv, x)
            alt  == "HASH" \in d.flags
            head == T!Shown(m).head
            plus == "+"
            minus == "-"
            space == " "
<1>1. val \in Int /\ (conv \notin {"d", "i"} => val >= 0) /\ v = IF val < 0 THEN -val ELSE val
  BY ValueIs DEF Magnitude
<1>2. /\ base = 16 <=> conv \in {"x", "X"}
      /\ base = 8 <=> conv = "o"
      /\ base = 2 <=> conv = "b"
      /\ base = 10 <=> conv \in {"d", "i", "u"}
      /\ base \in {2, 8, 10, 16}
  BY BaseIs DEF Bases
<1>3. /\ base # 10 => ("HASH" \in F <=> alt)
      /\ "PRECISION" \in F <=> "PRECISION" \in d.flags
      /\ "UPPERCASE" \in F <=> conv = "X"
      /\ "PLUS" \in F <=> "PLUS" \in d.flags /\ conv \in {"d", "i"}
      /\ "SPACE" \in F <=> "SPACE" \in d.flags /\ conv \in {"d", "i"}
  BY FlagsAre
<1>4. /\ "HASH" \in G <=> "HASH" \in F /\ ~(v = 0 /\ ("PRECISION" \notin F \/ base = 16))
      /\ "UPPERCASE" \in G <=> "UPPERCASE" \in F
      /\ "PLUS" \in G <=> "PLUS" \in F
      /\ "SPACE" \in G <=> "SPACE" \in F
  BY LeftAre DEF Flags
<1>5. /\ m.conv = conv /\ m.value = val /\ ("#" \in m.flags <=> alt)
      /\ plus \in m.flags <=> "PLUS" \in d.flags
      /\ space \in m.flags <=> "SPACE" \in d.flags
  <2>1. m.conv = conv /\ m.value = val /\ ("#" \in m.flags <=> alt)
    BY MeaningIs
  <2>2. plus \in m.flags <=> "PLUS" \in d.flags
    BY MeaningIs
  <2>3. space \in m.flags <=> "SPACE" \in d.flags
    <3>1. space = " "
      OBVIOUS
    <3>. HIDE DEF space
    <3>. QED
      BY <3>1, MeansSpace
  <2>. QED
    BY <2>1, <2>2, <2>3
<1>6. head = IF conv \in {"d", "i"} THEN T!Sign(val < 0, m)
             ELSE IF alt /\ v # 0 /\ base = 16 THEN <<"0", conv>>
             ELSE IF alt /\ v # 0 /\ base = 2 THEN <<"0", "b">>
             ELSE <<>>
  <2>1. (IF m.value < 0 THEN -m.value ELSE m.value) = v
    BY <1>5 DEF Magnitude
  <2>. HIDE DEF m, v
  <2>2. LET u == IF m.value < 0 THEN -m.value ELSE m.value
        IN  T!Shown(m).head = IF m.conv \in {"d", "i"} THEN T!Sign(m.value < 0, m)
                              ELSE IF "#" \in m.flags /\ u # 0 /\ Base(m.conv) = 16 THEN <<"0", m.conv>>
                              ELSE IF "#" \in m.flags /\ u # 0 /\ Base(m.conv) = 2 THEN <<"0", "b">>
                              ELSE <<>>
    BY <1>5, ShownIs
  <2>. QED
    BY <1>5, <2>1, <2>2, Zenon
<1>7. HeadMade(d, conv, x) = IF base = 10 THEN SignOf(val < 0, G)
                         ELSE IF base # 8 /\ "HASH" \in G THEN Backwards(Prefix(base, G))
                         ELSE <<>>
  BY DEF HeadMade, HeadOf
<1>8. T!Sign(val < 0, m) = IF val < 0 THEN <<minus>> ELSE IF plus \in m.flags THEN <<plus>>
                           ELSE IF space \in m.flags THEN <<space>> ELSE <<>>
  BY Zenon DEF T!Sign
<1>9. SignOf(val < 0, G) = IF val < 0 THEN <<minus>> ELSE IF "PLUS" \in G THEN <<plus>>
                           ELSE IF "SPACE" \in G THEN <<space>> ELSE <<>>
  BY Zenon DEF SignOf
<1>10. /\ base = 16 => Backwards(Prefix(base, G)) = <<"0", conv>>
       /\ base = 2 => Backwards(Prefix(base, G)) = <<"0", "b">>
  <2>1. \A c : Backwards(<<c>> \o <<"0">>) = <<"0", c>>
    BY DEF Backwards
  <2>2. base = 16 => Prefix(base, G) = <<conv>> \o <<"0">>
    BY <1>2, <1>3, <1>4 DEF Prefix, BasePrefix
  <2>3. base = 2 => Prefix(base, G) = <<"b">> \o <<"0">>
    BY DEF Prefix, BasePrefix
  <2>. QED
    BY <2>1, <2>2, <2>3
<1>. HIDE DEF m, base, val, v, F, G, alt, head, plus, minus, space
<1>. SUFFICES head = HeadMade(d, conv, x)
  BY Zenon DEF head, m
<1>11. CASE conv \in {"d", "i"}
  BY <1>2, <1>3, <1>4, <1>5, <1>6, <1>7, <1>8, <1>9, <1>11
<1>12. CASE conv = "u"
  <2>1. head = <<>>
    BY <1>2, <1>6, <1>12
  <2>2. base = 10 /\ "PLUS" \notin G /\ "SPACE" \notin G /\ ~(val < 0)
    BY <1>1, <1>2, <1>3, <1>4, <1>12
  <2>. QED
    BY <1>7, <1>9, <2>1, <2>2
<1>13. CASE conv = "o"
  BY <1>2, <1>6, <1>7, <1>13
<1>14. CASE conv \in {"x", "X"}
  <2>1. base = 16 /\ ("HASH" \in G <=> alt /\ v # 0)
    BY <1>2, <1>3, <1>4, <1>14
  <2>. QED
    BY <1>2, <1>6, <1>7, <1>10, <1>14, <2>1
<1>15. CASE conv = "b"
  <2>1. base = 2 /\ ("HASH" \in G <=> alt /\ v # 0)
    <3>1. v = 0 => val = 0
      BY <1>1
    <3>2. ~(val = 0 /\ alt /\ "PRECISION" \in d.flags)
      BY <1>15 DEF val, alt
    <3>. QED
      BY <1>2, <1>3, <1>4, <1>15, <3>1, <3>2
  <2>. QED
    BY <1>2, <1>6, <1>7, <1>10, <1>15, <2>1
<1>. QED
  BY <1>11, <1>12, <1>13, <1>14, <1>15 DEF IntegerConv

----------------------------------------------------------------------------
(* Integer directives *)

\* A field holds its head and its body.
LEMMA FieldIs ==
    ASSUME NEW h \in Seq(Glyphs), NEW b \in Seq(Glyphs), NEW w \in Nat, NEW F
    PROVE  /\ Field(h, b, w, F) \in Seq(Glyphs)
           /\ Len(Field(h, b, w, F)) \in Nat
           /\ Len(Field(h, b, w, F)) >= Len(b)
           /\ Len(h \o b) \in Nat /\ Len(h \o b) >= Len(b)
<1>. DEFINE gap   == w - Len(h) - Len(b)
            space == " "
            sp    == Repeat(space, gap)
            z     == Repeat("0", gap)
            f     == Field(h, b, w, F)
<1>1. gap \in Int
  OBVIOUS
<1>2. space \in Glyphs /\ "0" \in Glyphs
  BY Zenon DEF Glyphs
<1>3. f \in {(h \o b) \o sp, (h \o z) \o b, (sp \o h) \o b}
  <2>1. f = IF "LEFT" \in F THEN (h \o b) \o sp ELSE IF "ZEROPAD" \in F THEN (h \o z) \o b
            ELSE (sp \o h) \o b
    BY Zenon DEF Field
  <2>. HIDE DEF f, sp, z
  <2>. QED
    BY <2>1
<1>. HIDE DEF gap, space
<1>4. sp \in Seq(Glyphs) /\ z \in Seq(Glyphs)
  BY <1>1, <1>2, RepeatIs
<1>. HIDE DEF sp, z, f
<1>5. ASSUME NEW s \in Seq(Glyphs), NEW t \in Seq(Glyphs), NEW u \in Seq(Glyphs)
      PROVE  /\ (s \o t) \o u \in Seq(Glyphs)
             /\ Len((s \o t) \o u) = Len(s) + Len(t) + Len(u)
  <2>. DEFINE v == s \o t
  <2>1. v \in Seq(Glyphs) /\ Len(v) = Len(s) + Len(t)
    BY Lengths, Zenon
  <2>. HIDE DEF v
  <2>2. v \o u \in Seq(Glyphs) /\ Len(v \o u) = Len(v) + Len(u)
    BY <2>1, Lengths, Zenon
  <2>. QED
    BY <2>1, <2>2 DEF v
<1>6. /\ Len(h) \in Nat /\ Len(b) \in Nat /\ Len(sp) \in Nat /\ Len(z) \in Nat
  BY <1>4
<1>7. Len(h \o b) = Len(h) + Len(b)
  BY Lengths, Zenon
<1>8. /\ f \in Seq(Glyphs)
      /\ Len(f) \in {Len(h) + Len(b) + Len(sp), Len(h) + Len(z) + Len(b), Len(sp) + Len(h) + Len(b)}
  <2>1. CASE f = (h \o b) \o sp
    BY <1>4, <1>5, <2>1
  <2>2. CASE f = (h \o z) \o b
    BY <1>4, <1>5, <2>2
  <2>3. CASE f = (sp \o h) \o b
    BY <1>4, <1>5, <2>3
  <2>. QED
    BY <1>3, <2>1, <2>2, <2>3
<1>. DEFINE lh == Len(h)
            lb == Len(b)
            ls == Len(sp)
            lz == Len(z)
            lf == Len(f)
            lj == Len(h \o b)
<1>9. /\ lf \in {lh + lb + ls, lh + lz + lb, ls + lh + lb} /\ lj = lh + lb
      /\ lh \in Nat /\ lb \in Nat /\ ls \in Nat /\ lz \in Nat
  BY <1>6, <1>7, <1>8
<1>. HIDE DEF lh, lb, ls, lz, lf, lj
<1>10. lf \in Nat /\ lf >= lb /\ lj \in Nat /\ lj >= lb
  BY <1>9
<1>. QED
  BY <1>8, <1>10 DEF lf, lb, lj, f

\* If its digits fit the buffer, print_integer goes on with all of them.
LEMMA PrintsMade ==
    ASSUME NEW base \in Bases, NEW v \in Nat, NEW negative, NEW p, NEW w, NEW F,
           Len(Made(v, base, F)) <= IntegerBufferSize
    PROVE  PrintInteger(v, negative, base, p, w, F)
             = Finalize(Made(v, base, F), negative, base, p, w, FlagsLeft(v, base, F))
<1>. DEFINE L == LowDigits(v, base, "UPPERCASE" \in F)
            N == IntegerBufferSize
            none == <<>>
<1>1. L \in Seq(Glyphs)
  <2>. DEFINE upper == "UPPERCASE" \in F
  <2>1. upper \in BOOLEAN
    OBVIOUS
  <2>. QED
    BY <2>1, LowDigitsAre
<1>2. v # 0 => Made(v, base, F) = L
  BY DEF Made
<1>. HIDE DEF L
<1>3. v # 0 => Push(<<>>, L, N) = L
  <2>1. SUFFICES ASSUME v # 0 PROVE Push(none, L, N) = L
    BY DEF none
  <2>2. none \in Seq(Glyphs) /\ Len(none) + Len(L) <= N /\ N \in Nat
    BY <1>1, <1>2, <2>1, SizesAssumption
  <2>. HIDE DEF none, N
  <2>3. Push(none, L, N) = none \o L
    BY <1>1, <2>2, PushFits
  <2>4. <<>> \o L = L
    BY <1>1, EmptyJoins
  <2>. QED
    BY <2>3, <2>4 DEF none
<1>4. Made(v, base, F)
        = IF v = 0 THEN IF "PRECISION" \in F THEN <<>> ELSE <<"0">> ELSE Push(<<>>, L, N)
  BY <1>3 DEF Made, L
<1>. QED
  BY <1>4 DEF PrintInteger, FlagsLeft, L, N

\* A directive means its head and its body in its field.
LEMMA TextIsField ==
    ASSUME NEW d, Parsed(d), NEW conv \in IntegerConv, NEW x \in Int
    PROVE  LET m == Meaning(d, conv, x)
           IN  /\ T!Text(m) = Field(T!Shown(m).head, T!Shown(m).body, d.width, Flags(d, conv, x))
               /\ Zeros(m) <=> Zeropad(Flags(d, conv, x))
<1>. DEFINE m == Meaning(d, conv, x)
            F == FlagsFor(d, conv)
            G == Flags(d, conv, x)
            zeros == T!FillsWithZeros(m)
            h == T!Shown(m).head
            b == T!Shown(m).body
            gap == d.width - Len(h) - Len(b)
            space == " "
<1>1. /\ "LEFT" \in G <=> "LEFT" \in d.flags
      /\ "ZEROPAD" \in G <=> "ZEROPAD" \in d.flags /\ "PRECISION" \notin d.flags
  <2>1. /\ "LEFT" \in F <=> "LEFT" \in d.flags
        /\ "ZEROPAD" \in F <=> "ZEROPAD" \in d.flags /\ "PRECISION" \notin d.flags
    BY FlagsAre
  <2>2. /\ "LEFT" \in G <=> "LEFT" \in F
        /\ "ZEROPAD" \in G <=> "ZEROPAD" \in F
    BY LeftAre DEF Flags
  <2>. QED
    BY <2>1, <2>2
<1>2. /\ "0" \in m.flags <=> "ZEROPAD" \in d.flags
      /\ "-" \in m.flags <=> "LEFT" \in d.flags
      /\ m.width = d.width /\ m.conv = conv
      /\ m.prec = IF "PRECISION" \in d.flags THEN d.precision ELSE -1
  BY MeaningIs
<1>. HIDE DEF m
<1>3. zeros <=> "PRECISION" \notin d.flags
  <2>1. m.prec < 0 <=> "PRECISION" \notin d.flags
    BY <1>2 DEF Parsed
  <2>2. conv \in {"d", "i", "u", "x", "X", "o", "b"} /\ conv \notin {"f", "F", "e", "E", "g", "G"}
    BY DEF IntegerConv
  <2>. QED
    BY <1>2, <2>1, <2>2 DEF T!FillsWithZeros
<1>4. Zeros(m) <=> Zeropad(G)
  BY <1>1, <1>2, <1>3 DEF Zeros, Zeropad
<1>5. T!Text(m) = T!InField(h, b, m, zeros)
  BY DEF T!Text
<1>6. T!InField(h, b, m, zeros)
        = IF "-" \in m.flags THEN (h \o b) \o T!Fill(space, gap)
          ELSE IF zeros /\ "0" \in m.flags THEN (h \o T!Fill("0", gap)) \o b
          ELSE (T!Fill(space, gap) \o h) \o b
  BY <1>2, Zenon DEF T!InField
<1>7. Field(h, b, d.width, G)
        = IF "LEFT" \in G THEN (h \o b) \o Repeat(space, gap)
          ELSE IF "ZEROPAD" \in G THEN (h \o Repeat("0", gap)) \o b
          ELSE (Repeat(space, gap) \o h) \o b
  BY Zenon DEF Field
<1>. HIDE DEF h, b, gap, space, zeros, G
<1>8. T!Fill(space, gap) = Repeat(space, gap) /\ T!Fill("0", gap) = Repeat("0", gap)
  BY FillIs
<1>9. T!Text(m) = Field(h, b, d.width, G)
  BY <1>1, <1>2, <1>3, <1>5, <1>6, <1>7, <1>8
<1>. QED
  BY <1>4, <1>9 DEF m, h, b, G

\* An integer directive prints what it means, whatever its flags, its width, its precision, its
\* length and its argument: unless its digits, with the zeros, the prefix and the sign, do not
\* fit the buffer on the stack, and but for %#b of 0 with a precision.
THEOREM IntegersRight ==
    ASSUME NEW d, Parsed(d), NEW conv \in IntegerConv, NEW x \in Int,
           ~OddInteger(Meaning(d, conv, x))
    PROVE  IntegerText(d, conv, x) = T!Text(Meaning(d, conv, x))
<1>. DEFINE m    == Meaning(d, conv, x)
            base == Base(conv)
            val  == ValueFor(d, conv, x)
            v    == Magnitude(d, conv, x)
            F    == FlagsFor(d, conv)
            G    == Flags(d, conv, x)
            B    == Made(v, base, F)
            p    == d.precision
            w    == d.width
            h    == HeadMade(d, conv, x)
            b    == BodyMade(d, conv, x)
            N    == IntegerBufferSize
<1>1. /\ v \in Nat /\ p \in Nat /\ w \in Nat /\ base \in Bases
      /\ (conv \notin {"d", "i"} => ~(val < 0)) /\ N \in Nat
  BY ValueIs, BaseIs, SizesAssumption DEF Magnitude, Parsed
<1>2. /\ m.conv = conv /\ m.value = val /\ ("#" \in m.flags <=> "HASH" \in d.flags)
      /\ "PRECISION" \in d.flags => m.prec >= 0
  <2>1. /\ m.conv = conv /\ m.value = val /\ ("#" \in m.flags <=> "HASH" \in d.flags)
        /\ m.prec = IF "PRECISION" \in d.flags THEN p ELSE -1
    BY MeaningIs
  <2>. HIDE DEF m
  <2>. QED
    BY <1>1, <2>1
<1>3. ~(Len(IF Zeros(m) THEN T!Text(m) ELSE T!Shown(m).head \o T!Shown(m).body) > N)
  <2>. HIDE DEF m
  <2>1. ~OddInteger(m)
    BY DEF m
  <2>. QED
    BY <1>2, <2>1 DEF OddInteger
<1>4. T!Shown(m).head = h /\ T!Shown(m).body = b
  <2>1. ~(conv = "b" /\ val = 0 /\ "HASH" \in d.flags /\ "PRECISION" \in d.flags)
    <3>1. ~(m.conv = "b" /\ m.value = 0 /\ "#" \in m.flags /\ m.prec >= 0)
      BY DEF OddInteger
    <3>. HIDE DEF m
    <3>. QED
      BY <1>2, <3>1
  <2>. QED
    BY <2>1, HeadMatch, BodyMatch
<1>5. T!Text(m) = Field(h, b, w, G) /\ (Zeros(m) <=> Zeropad(G))
  BY <1>4, TextIsField
<1>6. B \in Seq(Glyphs) /\ Len(B) \in Nat
  BY <1>1, MadeIs
<1>7. h = HeadOf(base, val < 0, G) /\ b = BodyOf(B, base, p, G)
  BY DEF HeadMade, BodyMade
<1>8. h \in Seq(Glyphs) /\ b \in Seq(Glyphs) /\ Len(b) >= Len(B) /\ Len(b) \in Nat
  <2>1. (val < 0) \in BOOLEAN
    OBVIOUS
  <2>. DEFINE negative == val < 0
  <2>. HIDE DEF B, negative, base, G, p, h, b
  <2>2. HeadOf(base, negative, G) \in Seq(Glyphs) /\ BodyOf(B, base, p, G) \in Seq(Glyphs)
        /\ Len(BodyOf(B, base, p, G)) >= Len(B)
    BY <1>1, <1>6, <2>1, HeadAndBody DEF negative
  <2>3. h \in Seq(Glyphs) /\ b \in Seq(Glyphs) /\ Len(b) >= Len(B)
    BY <1>7, <2>2 DEF negative
  <2>. QED
    BY <2>3
<1>9. Len(IF Zeropad(G) THEN Field(h, b, w, G) ELSE h \o b) <= N /\ Len(B) <= N
  <2>. DEFINE f == Field(h, b, w, G)
              j == h \o b
  <2>. HIDE DEF B, G, w, h, b, N, m
  <2>1. Len(f) \in Nat /\ Len(f) >= Len(b) /\ Len(j) \in Nat /\ Len(j) >= Len(b)
    BY <1>1, <1>8, FieldIs
  <2>2. ~(Len(IF Zeropad(G) THEN f ELSE j) > N)
    BY <1>3, <1>4, <1>5
  <2>. HIDE DEF f, j
  <2>3. Len(IF Zeropad(G) THEN f ELSE j) <= N /\ Len(B) <= N
    <3>1. CASE Zeropad(G)
      BY <1>1, <1>6, <1>8, <2>1, <2>2, <3>1
    <3>2. CASE ~Zeropad(G)
      BY <1>1, <1>6, <1>8, <2>1, <2>2, <3>2
    <3>. QED
      BY <3>1, <3>2
  <2>. QED
    BY <2>3 DEF f, j
<1>10. /\ "POINTER" \notin G
       /\ base = 10 => "HASH" \notin G
       /\ "PRECISION" \in G => "ZEROPAD" \notin G
       /\ "PRECISION" \notin G => p = 0
       /\ conv \notin {"d", "i"} => "PLUS" \notin G /\ "SPACE" \notin G
  <2>1. /\ "POINTER" \notin F
        /\ "HASH" \in F <=> "HASH" \in d.flags /\ base # 10
        /\ "PRECISION" \in F <=> "PRECISION" \in d.flags
        /\ "ZEROPAD" \in F <=> "ZEROPAD" \in d.flags /\ "PRECISION" \notin d.flags
        /\ "PLUS" \in F <=> "PLUS" \in d.flags /\ conv \in {"d", "i"}
        /\ "SPACE" \in F <=> "SPACE" \in d.flags /\ conv \in {"d", "i"}
    BY FlagsAre
  <2>2. /\ "HASH" \in G => "HASH" \in F
        /\ "POINTER" \in G <=> "POINTER" \in F
        /\ "PRECISION" \in G <=> "PRECISION" \in F
        /\ "ZEROPAD" \in G <=> "ZEROPAD" \in F
        /\ "PLUS" \in G <=> "PLUS" \in F
        /\ "SPACE" \in G <=> "SPACE" \in F
    BY LeftAre DEF Flags
  <2>3. "PRECISION" \notin d.flags => p = 0
    BY DEF Parsed
  <2>. HIDE DEF F, G, base
  <2>. QED
    BY <2>1, <2>2, <2>3
<1>11. OnlyDecimalSigned(base, val < 0, G)
  <2>1. base # 10 => conv \notin {"d", "i"}
    BY BaseIs
  <2>. HIDE DEF base, val, G
  <2>. QED
    BY <1>1, <1>10, <2>1 DEF OnlyDecimalSigned
<1>12. Finalize(B, val < 0, base, p, w, G) = Field(h, b, w, G)
  <2>. DEFINE negative == val < 0
  <2>1. negative \in BOOLEAN
    OBVIOUS
  <2>2. OnlyDecimalSigned(base, negative, G)
    BY <1>11
  <2>3. h = HeadOf(base, negative, G) /\ b = BodyOf(B, base, p, G)
    BY <1>7
  <2>. HIDE DEF B, negative, base, G, p, w, h, b
  <2>4. Len(IF Zeropad(G) THEN Field(HeadOf(base, negative, G), BodyOf(B, base, p, G), w, G)
            ELSE HeadOf(base, negative, G) \o BodyOf(B, base, p, G)) <= IntegerBufferSize
    BY <1>9, <2>3
  <2>5. Finalize(B, negative, base, p, w, G)
          = Field(HeadOf(base, negative, G), BodyOf(B, base, p, G), w, G)
    BY <1>1, <1>6, <1>10, <2>1, <2>2, <2>4, Matches
  <2>. QED
    BY <2>3, <2>5 DEF negative
<1>13. PrintInteger(v, val < 0, base, p, w, F) = Finalize(B, val < 0, base, p, w, G)
  BY <1>1, <1>9, PrintsMade DEF Flags
<1>14. IntegerText(d, conv, x) = PrintInteger(v, val < 0, base, p, w, F)
  <2>1. IntegerType(F) = IntegerType(d.flags)
    BY FlagsAre
  <2>. DEFINE u == IF conv \in {"d", "i"} THEN AsSigned(x, IntegerType(F)) ELSE AsUnsigned(x, IntegerType(F))
  <2>2. IntegerText(d, conv, x) = PrintInteger(IF u < 0 THEN -u ELSE u, u < 0, base, p, w, F)
    BY Zenon DEF IntegerText, FlagsFor
  <2>3. u = val
    BY <2>1 DEF ValueFor
  <2>. QED
    BY <2>2, <2>3, Zenon DEF Magnitude
<1>15. IntegerText(d, conv, x) = T!Text(m)
  BY <1>5, <1>12, <1>13, <1>14
<1>. QED
  BY <1>15 DEF m

\* The turn of an integer directive whose stars and whose argument are integers, and that is
\* none of the odd ones, puts out what the directive means.
PrintsMeaning ==
    LET m == Meaning(parse, Specifier, Argument)
    IN  PrintIntegerDirective /\ (\A k \in va..parse.va : call.args[k] \in Int) /\ ~OddInteger(m)
            => gadget' = PutAll(gadget, T!Text(m))

\* The parse is one of IntegersRight.
LEMMA TurnPrintsMeaning == ReadInv => PrintsMeaning
<1>. DEFINE m == Meaning(parse, Specifier, Argument)
<1>. SUFFICES ASSUME ReadInv, PrintIntegerDirective, ~OddInteger(m),
                     \A k \in va..parse.va : call.args[k] \in Int
              PROVE  gadget' = PutAll(gadget, T!Text(m))
  BY DEF PrintsMeaning
<1>1. pc = "convert" /\ Specifier \in IntegerConv
      /\ gadget' = PutAll(gadget, IntegerText(parse, Specifier, Argument))
  BY DEF PrintIntegerDirective, Specified
<1>2. Parsed(parse) /\ Argument \in Int
  <2>1. Read(parse)
    BY <1>1 DEF ReadInv, Position
  <2>2. parse.va \in va..parse.va /\ \A k \in va..(parse.va - 1) : k \in va..parse.va
    BY <2>1 DEF Read
  <2>. QED
    BY <2>1, <2>2 DEF Read, Argument
<1>. DEFINE conv == Specifier
            x    == Argument
<1>3. IntegerText(parse, conv, x) = T!Text(Meaning(parse, conv, x))
  <2>1. conv \in IntegerConv /\ x \in Int /\ ~OddInteger(Meaning(parse, conv, x))
    BY <1>1, <1>2
  <2>. HIDE DEF conv, x
  <2>. QED
    BY <1>2, <2>1, IntegersRight
<1>. QED
  BY <1>1, <1>3

\* So does every such turn of every call, after any directives before it.
THEOREM IntegersPrinted == Spec => [][PrintsMeaning]_vars
<1>1. Init => ReadInv
  BY ReadInit
<1>2. ReadInv /\ [Next]_vars => ReadInv'
  BY ReadNext
<1>3. ReadInv /\ [Next]_vars => [PrintsMeaning]_vars
  BY TurnPrintsMeaning
<1>. QED
  BY <1>1, <1>2, <1>3, PTL DEF Spec
=============================================================================
