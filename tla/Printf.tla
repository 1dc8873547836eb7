------------------------------- MODULE Printf -------------------------------
(***************************************************************************)
(* ext/printf (src/printf/printf.c), the formatter behind lib/log: one     *)
(* call of a function of the family at a time.  A character of the format  *)
(* is one step of format_string_loop, a directive two: its parse, and what *)
(* it prints.                                                              *)
(*                                                                         *)
(* A call is [entry, size, format, args].  entry is the function called;   *)
(* the format is a sequence of characters, with a NUL after it; args are   *)
(* the arguments va_arg gives: an integer, a pointer's value (0 is NULL),  *)
(* a character, a string as a sequence of characters or as Null, a number  *)
(* of PrintfNumbers.                                                       *)
(***************************************************************************)
EXTENDS PrintfNumbers, SequencesExt

CONSTANTS
    Calls,               \* the calls the program makes
    Bits,                \* the width in bits of "char", "short", "int", "long", "llong"
    PointerSize,         \* sizeof(void*)
    MaxBufferSize,       \* PRINTF_MAX_POSSIBLE_BUFFER_SIZE
    Null                 \* the NULL that a string argument may be

NUL == "NUL"

ASSUME PrintfAssumption ==
    /\ Bits \in [{"char", "short", "int", "long", "llong"} -> Nat \ {0}]
    /\ PointerSize \in Nat /\ MaxBufferSize \in Nat

\* A C string: its end is the first NUL.
ASSUME FormatsAssumption ==
    \A c \in Calls : c.format \in Seq(Range(c.format) \ {NUL})

VARIABLES
    pc,        \* "idle", "loop" (format_string_loop), "convert" (in it, past a parse),
               \* "end" (after it), "done", or "outside": something was read beyond its end
    call,      \* the call under way
    at,        \* format: the index of the next character
    va,        \* args: the index of the next argument
    parse,     \* the directive parsed: flags, width and precision of format_string_loop
    gadget,    \* output_gadget_t and the characters behind it
    written,   \* what %n stored, as [type, value]
    ret        \* what the call returned

vars == <<pc, call, at, va, parse, gadget, written, ret>>

-----------------------------------------------------------------------------
(* The output gadget: kind says where the characters go, cells is the      *)
(* caller's buffer ("?" as the caller left it) or what the function got.   *)

\* putchar_via_gadget for every character of s: pos counts those without room, too
PutAll(g, s) ==
    LET room == Max({0, Min({Len(s), g.maxChars - g.pos})})
    IN  [g EXCEPT
            !.pos   = @ + Len(s),
            !.cells = IF g.kind = "function" THEN @ \o SubSeq(s, 1, room)
                      ELSE [i \in DOMAIN @ |->
                               IF i \in (g.pos + 1)..(g.pos + room) THEN s[i - g.pos] ELSE @[i]]]

\* append_termination_with_gadget
Terminated(g) ==
    IF g.kind # "buffer" \/ g.maxChars = 0 THEN g
    ELSE [g EXCEPT !.cells[Min({g.pos, g.maxChars - 1}) + 1] = NUL]

\* discarding_gadget, buffer_gadget and function_gadget, as the entry makes them;
\* vsprintf_ takes the buffer to be as large as any.
GadgetOf(c) ==
    LET cells == Repeat("?", IF c.entry = "vsprintf" THEN MaxBufferSize
                             ELSE Min({c.size, MaxBufferSize}))
    IN  CASE c.entry \in {"vsnprintf", "vsprintf"} ->
                 [kind |-> "buffer", cells |-> cells, pos |-> 0, maxChars |-> Len(cells)]
          [] c.entry = "vsnprintf NULL" ->
                 [kind |-> "buffer", cells |-> <<>>, pos |-> 0, maxChars |-> 0]
          [] OTHER ->
                 [kind |-> "function", cells |-> <<>>, pos |-> 0, maxChars |-> MaxBufferSize]

-----------------------------------------------------------------------------
(* Parsing a directive.  A parse is [i, flags, width, precision, va, cut]; *)
(* cut: the format ended at an ADVANCE_IN_FORMAT_STRING, which returns.    *)

Char(i) == IF i <= Len(call.format) THEN call.format[i] ELSE NUL

DecimalDigit == {DigitChar(d, FALSE) : d \in 0..9}

DigitValue(c) == CHOOSE d \in 0..9 : DigitChar(d, FALSE) = c

\* The first index from i on whose character is not in S.
Beyond(i, S) == Min({j \in i..(Len(call.format) + 1) : Char(j) \notin S})

\* atou_
Atou(i) ==
    LET end == Beyond(i, DecimalDigit)
        n[j \in i..end] == IF j = i THEN 0 ELSE 10 * n[j - 1] + DigitValue(Char(j - 1))
    IN  n[end]

\* ADVANCE_IN_FORMAT_STRING
GoesOn(p)  == [p EXCEPT !.i = @ + 1]
Advance(p) == [p EXCEPT !.i = @ + 1, !.cut = Char(p.i + 1) = NUL]

\* The rest of the parse
Then(p, Rest(_)) == IF p.cut THEN p ELSE Rest(p)

FlagOf == [c \in {"0", "-", "+", " ", "#"} |->
              CASE c = "0" -> "ZEROPAD" [] c = "-" -> "LEFT" [] c = "+" -> "PLUS"
                [] c = " " -> "SPACE"   [] c = "#" -> "HASH"]

\* parse_flags
ParseFlags(p) ==
    LET end == Beyond(p.i, DOMAIN FlagOf)
    IN  [p EXCEPT !.i = end, !.flags = {FlagOf[Char(j)] : j \in p.i..(end - 1)}]

ParseWidth(p) ==
    LET w == call.args[p.va]
    IN  CASE Char(p.i) \in DecimalDigit ->
                 [p EXCEPT !.width = Atou(p.i), !.i = Beyond(p.i, DecimalDigit)]
          [] Char(p.i) = "*" ->
                 Advance([p EXCEPT !.va = @ + 1, !.width = IF w < 0 THEN -w ELSE w,
                                   !.flags = @ \cup (IF w < 0 THEN {"LEFT"} ELSE {})])
          [] OTHER -> p

\* After the point: a negative precision is none at all.
ParsePrecisionValue(p) ==
    LET n       == call.args[p.va]
        without == p.flags \ {"PRECISION"}
        beyond  == Beyond(p.i + 1, DecimalDigit)
    IN  CASE Char(p.i) = "-" ->
                 [p EXCEPT !.flags = without, !.i = beyond, !.cut = Char(beyond) = NUL]
          [] Char(p.i) \in DecimalDigit ->
                 [p EXCEPT !.precision = Atou(p.i), !.i = Beyond(p.i, DecimalDigit)]
          [] Char(p.i) = "*" ->
                 Advance([p EXCEPT !.va = @ + 1, !.precision = Max({n, 0}),
                                   !.flags = IF n < 0 THEN without ELSE @])
          [] OTHER -> p

ParsePrecision(p) ==
    IF Char(p.i) # "." THEN p
    ELSE Then(Advance([p EXCEPT !.flags = @ \cup {"PRECISION"}]), ParsePrecisionValue)

\* The length field, with the flag of one letter and that of a second one.
ParseLength(p) ==
    LET c     == Char(p.i)
        one   == CASE c = "l" -> "LONG" [] c = "h" -> "SHORT" [] c = "L" -> "LONG_DOUBLE"
                   [] c = "j" -> IF Bits["llong"] = Bits["long"] THEN "LONG" ELSE "LONG_LONG"
                   [] OTHER -> "INT"
        two   == IF c = "l" THEN "LONG_LONG" ELSE "CHAR"
        first == Advance([p EXCEPT !.flags = @ \cup {one}])
    IN  CASE c \notin {"l", "h", "L", "j", "t", "z"} -> p
          [] c \in {"l", "h"} /\ Char(p.i + 1) = c ->
                 Advance([first EXCEPT !.flags = @ \cup {two}])
          [] OTHER -> first

NotParsed == [i |-> at, flags |-> {}, width |-> 0, precision |-> 0, va |-> va, cut |-> FALSE]

Directive ==
    Then(Then(Then(Advance(NotParsed), LAMBDA p : ParseWidth(ParseFlags(p))),
              ParsePrecision), ParseLength)

-----------------------------------------------------------------------------
(* What a directive prints.  d is its parse, conv its specifier, x its     *)
(* argument.                                                               *)

\* The type va_arg and the casts give an integer argument.
IntegerType(flags) ==
    IF      "LONG_LONG" \in flags THEN "llong"
    ELSE IF "LONG"      \in flags THEN "long"
    ELSE IF "CHAR"      \in flags THEN "char"
    ELSE IF "SHORT"     \in flags THEN "short"
    ELSE "int"

AsUnsigned(x, type) == x % Power(2, Bits[type])

AsSigned(x, type) ==
    LET half == Power(2, Bits[type] - 1) IN ((x + half) % (2 * half)) - half

Base(conv) == CASE conv \in {"x", "X"} -> 16 [] conv = "o" -> 8 [] conv = "b" -> 2 [] OTHER -> 10

\* d, i, u, x, X, o, b
IntegerText(d, conv, x) ==
    LET signed  == conv \in {"d", "i"}
        flags   == (d.flags \cup (IF conv = "X" THEN {"UPPERCASE"} ELSE {}))
                     \ ((IF Base(conv) = 10 THEN {"HASH"} ELSE {})
                        \cup (IF "PRECISION" \in d.flags THEN {"ZEROPAD"} ELSE {})
                        \cup (IF signed THEN {} ELSE {"PLUS", "SPACE"}))
        value   == IF signed THEN AsSigned(x, IntegerType(flags))
                   ELSE AsUnsigned(x, IntegerType(flags))
    IN  PrintInteger(IF value < 0 THEN -value ELSE value, value < 0, Base(conv),
                     d.precision, d.width, flags)

\* f, F, e, E, g, G
FloatText(d, conv, x) ==
    PrintFloatingPoint(x, d.precision, d.width,
        d.flags \cup (IF conv \in {"F", "E", "G"} THEN {"UPPERCASE"} ELSE {})
                \cup (IF conv \in {"g", "G"} THEN {"ADAPT_EXP"} ELSE {}),
        conv \notin {"f", "F"})

\* c and s: spaces on the side the flag says
Padded(text, d) ==
    LET spaces == Repeat(" ", d.width - Len(text))
    IN  IF "LEFT" \in d.flags THEN text \o spaces ELSE spaces \o text

StringText(d, x) ==
    IF x = Null THEN OutRev(<<")", "l", "l", "u", "n", "(">>, d.width, d.flags)
    ELSE Padded(IF "PRECISION" \in d.flags
                THEN SubSeq(x, 1, Min({Len(x), d.precision})) ELSE x, d)

PointerText(d, x) ==
    LET width == 2 * PointerSize + 2
        flags == d.flags \cup {"ZEROPAD", "POINTER"}
    IN  IF x = 0 THEN OutRev(<<")", "l", "i", "n", "(">>, width, flags)
        ELSE PrintInteger(x, FALSE, 16, d.precision, width, flags)

\* The type of the object %n stores to: a long before a long long.
CountType(flags) ==
    IF      "CHAR"      \in flags THEN "char"
    ELSE IF "SHORT"     \in flags THEN "short"
    ELSE IF "LONG"      \in flags THEN "long"
    ELSE IF "LONG_LONG" \in flags THEN "llong"
    ELSE "int"

-----------------------------------------------------------------------------
(* The call *)

NoParse == [i |-> 1, flags |-> {}, width |-> 0, precision |-> 0, va |-> 1, cut |-> FALSE]

Init ==
    /\ pc = "idle"
    /\ call = [entry |-> "none", size |-> 0, format |-> <<>>, args |-> <<>>]
    /\ at = 1 /\ va = 1
    /\ parse = NoParse
    /\ gadget = [kind |-> "buffer", cells |-> <<>>, pos |-> 0, maxChars |-> 0]
    /\ written = <<>>
    /\ ret = 0

\* vsnprintf_, vsprintf_, vprintf_ and vfctprintf, with the variadic functions over them
Enter ==
    /\ pc = "idle"
    /\ \E c \in Calls : c.entry # "vfctprintf NULL" /\ call' = c /\ gadget' = GadgetOf(c)
    /\ pc' = "loop"
    /\ UNCHANGED <<at, va, parse, written, ret>>

\* vfctprintf without a function
EnterWithoutFunction ==
    /\ pc = "idle"
    /\ \E c \in Calls : c.entry = "vfctprintf NULL" /\ call' = c
    /\ ret' = 0
    /\ pc' = "done"
    /\ UNCHANGED <<at, va, parse, gadget, written>>

InLoop == pc = "loop" /\ at <= Len(call.format)

Ordinary ==
    /\ InLoop /\ Char(at) # "%"
    /\ gadget' = PutAll(gadget, <<Char(at)>>)
    /\ at' = at + 1
    /\ UNCHANGED <<pc, call, va, parse, written, ret>>

\* From the % up to the specifier; a directive that is cut short ends the loop.
Parse ==
    /\ InLoop /\ Char(at) = "%"
    /\ parse' = Directive
    /\ pc' = IF parse'.cut THEN "end" ELSE "convert"
    /\ UNCHANGED <<call, at, va, gadget, written, ret>>

Specifier == Char(parse.i)

Argument == call.args[parse.va]

Specified(specifiers) == pc = "convert" /\ Specifier \in specifiers

\* The turn ends behind the specifier, with n arguments taken.
NextTurn(n) == /\ pc' = "loop"
               /\ at' = parse.i + 1
               /\ va' = parse.va + n
               /\ parse' = NoParse
               /\ UNCHANGED <<call, ret>>

IntegerConv == {"d", "i", "u", "x", "X", "o", "b"}

FloatConv == {"f", "F", "e", "E", "g", "G"}

PrintIntegerDirective ==
    /\ Specified(IntegerConv)
    /\ gadget' = PutAll(gadget, IntegerText(parse, Specifier, Argument))
    /\ NextTurn(1)
    /\ UNCHANGED written

PrintFloatDirective ==
    /\ Specified(FloatConv)
    /\ LET r == FloatText(parse, Specifier, Argument)
       IN  \/ r.inside /\ gadget' = PutAll(gadget, r.text) /\ NextTurn(1)
           \/ ~r.inside /\ pc' = "outside" /\ UNCHANGED <<call, at, va, parse, gadget, ret>>
    /\ UNCHANGED written

PrintTextDirective ==
    /\ Specified({"c", "s", "p"})
    /\ gadget' = PutAll(gadget, CASE Specifier = "c" -> Padded(<<Argument>>, parse)
                                  [] Specifier = "s" -> StringText(parse, Argument)
                                  [] OTHER           -> PointerText(parse, Argument))
    /\ NextTurn(1)
    /\ UNCHANGED written

WriteBack ==
    /\ Specified({"n"})
    /\ LET type == CountType(parse.flags)
       IN  written' = Append(written, [type |-> type, value |-> AsSigned(gadget.pos, type)])
    /\ NextTurn(1)
    /\ UNCHANGED gadget

\* '%' and whatever is no specifier prints itself: the NUL of a format that ends in flags,
\* a width or a precision, too, and the loop goes on behind it.
PrintItself ==
    /\ pc = "convert" /\ Specifier \notin IntegerConv \cup FloatConv \cup {"c", "s", "p", "n"}
    /\ gadget' = PutAll(gadget, <<Specifier>>)
    /\ NextTurn(0)
    /\ UNCHANGED written

ReadBehindFormat ==
    /\ pc = "loop" /\ at > Len(call.format) + 1
    /\ pc' = "outside"
    /\ UNCHANGED <<call, at, va, parse, gadget, written, ret>>

LeaveLoop ==
    /\ pc = "loop" /\ at = Len(call.format) + 1
    /\ pc' = "end"
    /\ UNCHANGED <<call, at, va, parse, gadget, written, ret>>

\* vsnprintf_impl after the loop
Terminate ==
    /\ pc = "end"
    /\ gadget' = Terminated(gadget)
    /\ ret' = gadget.pos
    /\ pc' = "done"
    /\ UNCHANGED <<call, at, va, parse, written>>

\* The caller has its result; the next call starts afresh.
Return ==
    /\ pc = "done"
    /\ pc' = "idle"
    /\ call' = [entry |-> "none", size |-> 0, format |-> <<>>, args |-> <<>>]
    /\ at' = 1 /\ va' = 1
    /\ parse' = NoParse
    /\ gadget' = [kind |-> "buffer", cells |-> <<>>, pos |-> 0, maxChars |-> 0]
    /\ written' = <<>>
    /\ ret' = 0

Next ==
    \/ Enter \/ EnterWithoutFunction
    \/ Ordinary \/ Parse \/ PrintItself
    \/ PrintIntegerDirective \/ PrintFloatDirective \/ PrintTextDirective
    \/ WriteBack
    \/ ReadBehindFormat \/ LeaveLoop \/ Terminate \/ Return

Spec == Init /\ [][Next]_vars

-----------------------------------------------------------------------------
(* What a directive means *)

T == INSTANCE PrintfText WITH DefaultPrec <- DefaultPrecision, PointDigits <- IntegralDigits,
                              MostDecimals <- SupportedPrecision,
                              AddressDigits <- 2 * PointerSize

\* What a directive of an integer means: the argument is what it is in the directive's type.
Meaning(d, conv, x) ==
    LET type == IntegerType(d.flags)
    IN  [flags |-> {c \in DOMAIN FlagOf : FlagOf[c] \in d.flags},
         width |-> d.width,
         prec  |-> IF "PRECISION" \in d.flags THEN d.precision ELSE -1,
         conv  |-> conv,
         value |-> IF conv \in {"d", "i"} THEN AsSigned(x, type) ELSE AsUnsigned(x, type)]

Zeros(d) == T!FillsWithZeros(d) /\ "0" \in d.flags /\ "-" \notin d.flags

\* An integer whose digits, zeros, prefix and sign do not fit the buffer; and %#b of 0
\* with a precision, which gets a prefix.
OddInteger(d) ==
    \/ d.conv \in IntegerConv
       /\ LET s == T!Shown(d)
          IN  Len(IF Zeros(d) THEN T!Text(d) ELSE s.head \o s.body) > IntegerBufferSize
    \/ d.conv = "b" /\ d.value = 0 /\ "#" \in d.flags /\ d.prec >= 0

-----------------------------------------------------------------------------
(* What is read *)

\* The arguments of a floating-point directive have their types: an integer for a star, and a
\* number with an exponent of the type's.
IsDouble(x) ==
    /\ x \in [kind : {"nan", "inf", "num"}, neg : BOOLEAN, num : Nat, den : Nat \ {0}]
    /\ FlooredExp10(x) \in -MaxExp10..MaxExp10

Typed == /\ \A k \in va..(parse.va - 1) : call.args[k] \in Int
         /\ IsDouble(Argument)

\* More decimals than powers_of_10 has powers: a large %f, whose precision is never limited,
\* %g of a small number, whose precision grows after it is limited, or more decimals than
\* the limit and the buffer together.
TooPrecise(d, conv, x) ==
    LET precision == IF "PRECISION" \in d.flags THEN d.precision ELSE DefaultPrecision
        digits    == Max({Min({precision, SupportedPrecision}) - 1, 0})
    IN  /\ conv \in FloatConv /\ x.kind = "num"
        /\ \/ conv \in {"f", "F"} /\ IsLarge(x) /\ d.precision > SupportedPrecision
           \/ conv \in {"g", "G"} /\ FlooredExp10(x) >= -5
              /\ digits - FlooredExp10(x) > SupportedPrecision
           \/ precision > SupportedPrecision + DecimalBufferSize

\* Nothing is read behind the end of the format or of powers_of_10, except for a format that
\* ends in the flags, the width or the precision of a directive, which is left behind its
\* NUL, and for TooPrecise directives.
StaysInside ==
    pc = "outside" =>
        \/ /\ at = Len(call.format) + 2
           /\ Last(call.format) \in DOMAIN FlagOf \cup DecimalDigit
        \/ /\ at <= Len(call.format)
           /\ Typed => TooPrecise(parse, Specifier, Argument)
=============================================================================
