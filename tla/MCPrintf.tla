------------------------------ MODULE MCPrintf ------------------------------
(***************************************************************************)
(* Calls for Printf, spelled from directives whose meaning is known, and   *)
(* what the calls should deliver.  All sizes are those of the code scaled  *)
(* down together: an int and a pointer of 8 bits beside an integer buffer  *)
(* of 8 characters (32 and 32), a long long of twice that.                 *)
(***************************************************************************)
EXTENDS Printf

-----------------------------------------------------------------------------
(* A directive [flags, width, star, prec, starPrec, len, conv, arg,        *)
(* value]: arg is passed, value is what arg is in the directive's type.    *)
(* star: the width is an argument, negative for "minus".                   *)

D(flags, width, prec, len, conv, arg) ==
    [flags |-> flags, width |-> width, star |-> "none", prec |-> prec, starPrec |-> FALSE,
     len |-> len, conv |-> conv, arg |-> arg, value |-> arg]

Plain(chars) == D({}, 0, -1, <<>>, "text", chars)

Number(n) == T!DigitsOf(n, Max({1, T!DigitCount(n, 10)}), 10, FALSE)

AllFlags == SUBSET {"0", "-", "+", " ", "#"}

FlagSpelling == [f \in AllFlags |-> SetToSeq(f)]

SpellWidth(d) == IF d.star # "none" THEN <<"*">> ELSE IF d.width = 0 THEN <<>> ELSE Number(d.width)

SpellPrecision(d) ==
    IF d.starPrec THEN <<".", "*">>
    ELSE IF d.prec < -1 THEN <<".", "-">> \o Number(-d.prec)
    ELSE IF d.prec = -1 THEN <<>> ELSE <<".">> \o Number(d.prec)

Spell(d) ==
    IF d.conv = "text" THEN FlattenSeq([i \in 1..Len(d.value) |->
                                 IF d.value[i] = "%" THEN <<"%", "%">> ELSE <<d.value[i]>>])
    ELSE <<"%">> \o FlagSpelling[d.flags] \o SpellWidth(d) \o SpellPrecision(d) \o d.len \o <<d.conv>>

Arguments(d) ==
    (CASE d.star = "none" -> <<>> [] d.star = "plus" -> <<d.width>> [] OTHER -> <<-d.width>>) \o (IF d.starPrec THEN <<d.prec>> ELSE <<>>)
      \o (IF d.conv = "text" THEN <<>> ELSE <<d.arg>>)

CallOf(entry, size, items) ==
    [entry  |-> entry, size |-> size, items |-> items,
     format |-> FlattenSeq([i \in 1..Len(items) |-> Spell(items[i])]),
     args   |-> FlattenSeq([i \in 1..Len(items) |-> Arguments(items[i])])]

\* A call whose format is cut short behind text: nothing is meant by its end.
CutCall(end) == [CallOf("vsnprintf", 8, <<Plain(<<"a">>)>>) EXCEPT !.format = @ \o end, !.args = <<3>>]

-----------------------------------------------------------------------------
(* Directives                                                              *)

Num(neg, n, d) == [kind |-> "num", neg |-> neg, num |-> n, den |-> d]

IntegerArgs ==
    {<<c, x>> : c \in {"u", "x", "X", "o", "b"}, x \in {0, 5, 147}} \cup
    {<<"d", x>> : x \in {0, 5, -5, -128}}

\* Zero, ties, numbers that round up to the next power of ten, and both sides of the bounds
FloatArgs ==
    {<<c, Num(FALSE, x[1], x[2])>> : c \in {"f", "e", "g"},
        x \in {<<0, 1>>, <<1, 2>>, <<5, 2>>, <<1, 8>>, <<39, 4>>, <<199, 2>>, <<95, 1>>,
               <<101, 1>>, <<3500, 1>>, <<1, 64>>, <<1, 1024>>}} \cup
    {<<c, Num(TRUE, x[1], x[2])>> : c \in {"f", "e", "g"}, x \in {<<0, 1>>, <<3, 2>>}}

Fields == {D(f, w, p, <<>>, ca[1], ca[2]) :
              f \in AllFlags, w \in {0, 3, 6, 8, 9}, p \in {-1, 0, 1, 2, 4},
              ca \in IntegerArgs \cup FloatArgs}

Single(items) == {CallOf("vsnprintf", 30, <<d>>) : d \in items}

\* Length modifiers: arg goes through va_arg, and value is its residue in the type.
InType(len, bits, conv, x) ==
    LET least == IF conv \in {"d", "i"} THEN -(2^(bits - 1)) ELSE 0
    IN  [D({}, 0, -1, len, conv, x) EXCEPT
            !.value = CHOOSE v \in least..(least + 2^bits - 1) : (v - x) % 2^bits = 0]

Lengths ==
    {InType(<<"h", "h">>, 3, c, x) : c \in {"d", "u"}, x \in {-5, 3, 4, 100}} \cup
    {InType(<<"h">>, 4, c, x) : c \in {"d", "u"}, x \in {-9, 7, 8, 100}} \cup
    {InType(l, 8, c, x) : l \in {<<>>, <<"l">>, <<"t">>, <<"z">>}, c \in {"d", "u"}, x \in {-128, -1, 127}} \cup
    {InType(l, 16, c, x) : l \in {<<"l", "l">>, <<"j">>}, c \in {"i", "o"}, x \in {-32768, -1, 999}} \cup
    {D({}, 0, 1, <<"L">>, "F", Num(FALSE, 3, 4))}

Words ==
    {D(f, w, p, <<>>, "s", x) : f \in {{}, {"-"}}, w \in {0, 2, 4}, p \in {-1, 0, 2, 5},
                                x \in {<<>>, <<"a", "b", "c">>}} \cup
    {D(f, w, -1, <<>>, "c", "k") : f \in {{}, {"-"}}, w \in {0, 1, 3}} \cup
    {[D(f, 8, -1, <<>>, "s", Null) EXCEPT !.value = <<"(", "n", "u", "l", "l", ")">>] :
        f \in {{}, {"-"}}} \cup
    {D({}, 0, -1, <<>>, "p", x) : x \in {0, 5, 255}} \cup
    {D({}, 0, p, <<>>, c, Num(FALSE, 1, 8)) : p \in {5, 7, 20}, c \in {"f", "E", "G"}} \cup
    {D(f, 6, -1, <<>>, "f", [kind |-> k, neg |-> n, num |-> 0, den |-> 1]) :
        f \in {{}, {"+"}, {"-"}, {"0"}}, k \in {"nan", "inf"}, n \in BOOLEAN} \cup
    {D({"#"}, 0, 3, <<>>, "g", Num(FALSE, 3999, 400))}

Stars ==
    {[D({}, w, p, <<>>, c, 5) EXCEPT !.star = s, !.starPrec = TRUE] :
        w \in {0, 6}, p \in {-3, 0, 3}, c \in {"d", "x"}, s \in {"none", "plus", "minus"}} \cup
    {D({}, 4, -3, <<>>, "x", 5)}

\* Several directives and texts in one call, for every kind of gadget and every room
Mixed ==
    {<<Plain(<<"a", "%">>), D({}, 3, -1, <<>>, "d", 12), D({}, 0, -1, l, "n", "object"),
       D({"-"}, 2, -1, <<>>, "s", <<"b">>)>> :
        l \in {<<>>, <<"h">>, <<"h", "h">>, <<"l">>, <<"l", "l">>, <<"j">>}}

Buffers == {CallOf(e, n, m) : e \in {"vsnprintf"}, n \in 0..9, m \in Mixed} \cup
           {CallOf(e, 0, m) : e \in {"vsnprintf NULL", "vsprintf", "vprintf", "vfctprintf NULL"},
                              m \in Mixed}

\* Formats that end within a directive: where the code looks for the NUL, and where it does not
Cut == {CutCall(<<"%">> \o end) :
           end \in {<<>>, <<"*">>, <<".">>, <<".", "*">>, <<".", "-", "2">>, <<"l">>, <<"h", "h">>,
                    <<"-">>, <<"5">>, <<".", "5">>}}

MCCalls == Single(Fields) \cup Single(Lengths \cup Words \cup Stars) \cup Buffers \cup Cut

MCBits == [t \in {"char", "short", "int", "long", "llong"} |->
              CASE t = "char" -> 3 [] t = "short" -> 4 [] t = "llong" -> 16 [] OTHER -> 8]

-----------------------------------------------------------------------------
Meant(d) == IF d.star = "minus" THEN [d EXCEPT !.flags = @ \cup {"-"}] ELSE d

\* The text of the directives up to the n-th, and of all of them
ExpectedTo(n) == FlattenSeq([i \in 1..n |-> T!Text(Meant(call.items[i]))])

Expected == ExpectedTo(Len(call.items))

\* What reaches the caller: all of the text, or the part of it the buffer has room for
\* with a NUL behind it and the rest of the buffer as it was; and its whole length.
Delivered ==
    LET n == Max({0, Min({Len(Expected), gadget.maxChars - 1})})
    IN  /\ ret = Len(Expected)
        /\ gadget.cells =
              IF gadget.kind = "function" THEN Expected
              ELSE SubSeq(SubSeq(Expected, 1, n) \o <<NUL>> \o Repeat("?", MaxBufferSize),
                          1, gadget.maxChars)

\* What %n has stored; for %lln the code stores a long, see the README.
CountsStored ==
    LET counts == SelectSeq([i \in 1..Len(call.items) |-> i], LAMBDA i : call.items[i].conv = "n")
        type(l) == CASE l = <<"h", "h">> -> "char" [] l = <<"h">> -> "short"
                     [] l \in {<<"l">>, <<"l", "l">>} -> "long" [] l = <<"j">> -> "llong"
                     [] OTHER -> "int"
    IN  written = [k \in 1..Len(counts) |->
                      LET t == type(call.items[counts[k]].len)
                      IN  [type |-> t, value |-> AsSigned(Len(ExpectedTo(counts[k])), t)]]

-----------------------------------------------------------------------------
(* The directives the code does not print as its documents say             *)

Precision(d) == IF d.prec < 0 THEN DefaultPrecision ELSE d.prec

Large(d) == d.conv \in {"f", "F"} /\ IsLarge(d.value)

\* Rounded to one digit, the number is half-way between two.
TieAtOneDigit(d) ==
    LET e == FlooredExp10(d.value) IN e # 0 /\ IsHalf(Less(Scale(d.value, -e), Trunc(Scale(d.value, -e))))

\* %g with more digits than supported, a tie where the exponential notation has no decimals,
\* %#g of a number that rounds up to a power of ten, a large %f without a precision, and the
\* field of a special value under '0'.
OddFloat(d) ==
    \/ d.value.kind # "num" /\ "0" \in d.flags
    \/ d.value.kind = "num" /\
       \/ d.conv \in {"g", "G"} /\ Precision(d) > SupportedPrecision
       \/ d.conv \in {"g", "G"} /\ "#" \in d.flags
          /\ T!Exponent(d.value, Max({Precision(d), 1}) - 1) # FlooredExp10(d.value)
       \/ Precision(d) = 0 /\ (d.conv = "e" \/ Large(d)) /\ TieAtOneDigit(d)
       \/ Precision(d) <= 1 /\ d.conv = "g" /\ TieAtOneDigit(d)
       \/ Large(d) /\ d.prec < 0

Odd(d) == OddInteger(d) \/ (d.conv \in FloatConv /\ OddFloat(d))

-----------------------------------------------------------------------------
(* Properties                                                              *)

HasFloat == \E i \in 1..Len(call.items) : call.items[i].conv \in FloatConv

AllPlain == \A i \in 1..Len(call.items) : ~Odd(call.items[i])

Ended == pc = "done" /\ call.entry # "vfctprintf NULL"

\* A call without floating-point directives delivers what its directives mean, as the tables
\* of ext/printf/README.md say: text, cut to the buffer with its NUL, whole length and counts.
TextRight == Ended /\ ~HasFloat /\ AllPlain => Delivered /\ CountsStored

\* And so does a call with one: rounded half to even, in the notation the directive asks for.
FloatsRight == Ended /\ HasFloat /\ AllPlain => Delivered
=============================================================================
