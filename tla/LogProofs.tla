------------------------------ MODULE LogProofs ------------------------------
(***************************************************************************)
(* What holds of the log for any tasks, names, texts and dumps.            *)
(***************************************************************************)
EXTENDS Log, TLAPS

\* The mutex is taken while a task is between the lock and the unlock, and only
\* one is.
Holding ==
    late \/ /\ sem \in {0, 1}
            /\ \A t, u \in Tasks : pc[t] \in Busy /\ pc[u] \in Busy => t = u
            /\ \A t \in Tasks : pc[t] \in Busy => sem = 0

\* The line a task sends is the one of its call.
Lines == \A t \in Tasks : pc[t] = "send" => line[t] = Built(t, call[t])

Types ==
    /\ sem \in Nat
    /\ m_log_level \in Levels
    /\ pc \in [Tasks -> States]
    /\ call \in [Tasks -> Calls]
    /\ line \in [Tasks -> [len : Nat, written : Nat]]
    /\ late \in BOOLEAN

Inv == Types /\ Holding /\ Lines

Request == [fn : Functions, level : Levels, text : Nat, args : BOOLEAN,
            value : Nat, eol : BOOLEAN]
Line    == [len : Nat, written : Nat]

----------------------------------------------------------------------------
\* Writing n bytes at an offset that leaves no gap keeps a line without gaps.
LEMMA PutWhole ==
    ASSUME NEW l \in Line, NEW n \in Nat, l.written = l.len
    PROVE  /\ Put(l, l.len, n) \in Line
           /\ Put(l, l.len, n).len = l.len + n
           /\ Put(l, l.len, n).written = l.len + n
BY DEF Put, Most, Line

\* Writing anywhere leaves a line.
LEMMA PutIsLine ==
    ASSUME NEW l \in Line, NEW offset \in Nat, NEW n \in Nat
    PROVE  Put(l, offset, n) \in Line
BY DEF Put, Most, Line

\* So does moving the length without writing.
LEMMA SkipIsLine ==
    ASSUME NEW l \in Line, NEW n \in Nat
    PROVE  Skip(l, n) \in Line
BY DEF Skip, Line

\* The sizes of log_define.h.
LEMMA Sizes ==
    /\ LOG_BUFF_SIZE_MAX = 352
    /\ LOG_CONTENT_SIZE_MAX = 330
    /\ LOG_PREPEND_SIZE_MAX = 20
    /\ LOG_HEX_COUNT_MAX = 100
    /\ LOG_CAPTION_SIZE_MAX = 20
    /\ LOG_BUF_SIZE_OFFSET = 40
BY DEF LOG_BUFF_SIZE_MAX, LOG_CONTENT_SIZE_MAX, LOG_PREPEND_SIZE_MAX, LOG_HEX_COUNT_MAX,
       LOG_CAPTION_SIZE_MAX, LOG_BUF_SIZE_OFFSET

\* Where the content starts: at the end of a prefix that is within its limit.
LEMMA OffsetNat ==
    ASSUME NEW l \in Line
    PROVE  /\ Offset(l) \in Nat
           /\ l.len <= LOG_PREPEND_SIZE_MAX => Offset(l) = l.len
BY Sizes DEF Offset, Least, Line

\* A number takes at most ten characters.
LEMMA NumberLength ==
    ASSUME NEW number \in Nat
    PROVE  log_format_number(number) \in 3 .. 10
BY DEF log_format_number, Digits

\* A dump takes at most 300 characters, whatever it is asked to print.
LEMMA HexLength ==
    ASSUME NEW data_len \in Nat
    PROVE  HexNum(data_len) \in 0 .. 300
BY Sizes DEF HexNum, Least

\* The prefix has no gaps, and a name within the limits leaves it at most
\* LOG_PREPEND_SIZE_MAX long.
LEMMA Prefix ==
    ASSUME NEW n \in Nat
    PROVE  LET l == log_format_prepend_task_name(n) IN
           /\ l \in Line
           /\ l.written = l.len
           /\ n + 2 <= LOG_PREPEND_SIZE_MAX => l.len <= LOG_PREPEND_SIZE_MAX
<1>1. Empty \in Line /\ Empty.len = 0 /\ Empty.written = 0
  BY DEF Empty, Line
<1> DEFINE k == 2 + IF n > 0 THEN n ELSE 1
<1>2. k \in Nat /\ (n + 2 <= 20 => k <= 20)
  OBVIOUS
<1> HIDE DEF k
<1>3. /\ Put(Empty, 0, k) \in Line
      /\ Put(Empty, 0, k).len = k
      /\ Put(Empty, 0, k).written = k
  BY <1>1, <1>2, PutWhole
<1>4. log_format_prepend_task_name(n) = Put(Empty, 0, k)
  BY DEF log_format_prepend_task_name, k
<1> QED
  BY <1>2, <1>3, <1>4, Sizes

----------------------------------------------------------------------------
\* Every print function makes a line of its content.
LEMMA ContentIsLine ==
    ASSUME NEW l \in Line, NEW c \in Request
    PROVE  Content(l, c) \in Line
<1>1. /\ c.fn \in Functions /\ c.text \in Nat /\ c.args \in BOOLEAN /\ c.value \in Nat
      /\ Offset(l) \in Nat /\ Offset(l) + 8 \in Nat
  BY OffsetNat DEF Request
<1>2. CASE c.fn = "format"
  <2> DEFINE fits == IF c.args THEN Least(c.text, LOG_CONTENT_SIZE_MAX - 1) ELSE c.text
  <2>1. fits \in Nat /\ c.text - fits \in Nat
    BY <1>1, Sizes DEF Least
  <2> HIDE DEF fits
  <2>2. Put(l, Offset(l), fits) \in Line
    BY <1>1, <2>1, PutIsLine
  <2>3. Skip(Put(l, Offset(l), fits), c.text - fits) \in Line
    BY <2>1, <2>2, SkipIsLine
  <2> QED
    BY <1>2, <2>3 DEF Content, log_format_string_args, fits
<1>3. CASE c.fn = "number"
  <2>1. c.text + 2 + log_format_number(c.value) \in Nat
    BY <1>1, NumberLength
  <2>2. log_format_string_number(l, c) \in Line
    BY <1>1, <2>1, PutIsLine DEF log_format_string_number
  <2> QED
    BY <1>3, <2>2 DEF Content
<1>4. CASE c.fn = "hex"
  <2>1. HexNum(c.value) \in Nat /\ c.text + 8 + HexNum(c.value) \in Nat
    <3>1. HexNum(c.value) \in 0 .. 300
      BY <1>1, HexLength
    <3> QED
      BY <1>1, <3>1
  <2>2. Put(l, Offset(l), c.text + 8 + HexNum(c.value)) \in Line
    BY <1>1, <2>1, PutIsLine
  <2>3. Skip(l, 8) \in Line
    BY SkipIsLine
  <2>4. Put(Skip(l, 8), Offset(l) + 8, HexNum(c.value)) \in Line
    BY <1>1, <2>1, <2>3, PutIsLine
  <2>5. log_format_hex_array(l, c) \in Line
    BY <2>2, <2>4 DEF log_format_hex_array
  <2> QED
    BY <1>4, <2>5 DEF Content
<1>5. CASE c.fn = "raw"
  <2>1. Empty \in Line
    BY DEF Empty, Line
  <2>2. Put(Empty, 0, c.text) \in Line
    BY <1>1, <2>1, PutIsLine
  <2> QED
    BY <1>5, <2>2 DEF Content
<1> QED
  BY <1>1, <1>2, <1>3, <1>4, <1>5 DEF Functions

\* After a prefix within the limits, a content within the limits has no gaps, and
\* two bytes for the end of the line are left.
LEMMA ContentFits ==
    ASSUME NEW l \in Line, l.written = l.len, l.len <= LOG_PREPEND_SIZE_MAX,
           NEW c \in Request,
           c.fn \in {"format", "number"} => c.text < LOG_CONTENT_SIZE_MAX,
           c.fn = "hex" => c.text \in 1 .. LOG_CAPTION_SIZE_MAX
    PROVE  /\ Content(l, c).written = Content(l, c).len
           /\ c.fn # "raw" => Content(l, c).len + 2 <= 392
<1>1. /\ c.fn \in Functions /\ c.text \in Nat /\ c.args \in BOOLEAN /\ c.value \in Nat
      /\ Offset(l) = l.len /\ l.len \in Nat /\ l.len <= 20
  BY OffsetNat, Sizes DEF Request, Line
<1>2. CASE c.fn = "format"
  <2> DEFINE fits == IF c.args THEN Least(c.text, LOG_CONTENT_SIZE_MAX - 1) ELSE c.text
             put  == Put(l, l.len, fits)
  <2>1. fits = c.text /\ c.text < 330
    BY <1>1, <1>2, Sizes DEF Least
  <2> HIDE DEF fits
  <2>2. put \in Line /\ put.len = l.len + c.text /\ put.written = l.len + c.text
    BY <1>1, <2>1, PutWhole
  <2> HIDE DEF put
  <2>3. Skip(put, c.text - fits).len = put.len /\ Skip(put, c.text - fits).written = put.written
    BY <1>1, <2>1, <2>2 DEF Skip, Line
  <2>4. Content(l, c) = Skip(put, c.text - fits)
    BY <1>1, <1>2 DEF Content, log_format_string_args, fits, put
  <2> QED
    BY <1>1, <2>1, <2>2, <2>3, <2>4
<1>3. CASE c.fn = "number"
  <2> DEFINE n == c.text + 2 + log_format_number(c.value)
  <2>1. n \in Nat /\ n <= 341
    BY <1>1, <1>3, NumberLength, Sizes
  <2>2. Content(l, c) = Put(l, l.len, n)
    BY <1>1, <1>3 DEF Content, log_format_string_number
  <2> HIDE DEF n
  <2>3. Put(l, l.len, n).len = l.len + n /\ Put(l, l.len, n).written = l.len + n
    BY <2>1, PutWhole
  <2> QED
    BY <1>1, <2>1, <2>2, <2>3
<1>4. CASE c.fn = "hex"
  <2> DEFINE n == c.text + 8 + HexNum(c.value)
  <2>1. n \in Nat /\ n <= 328 /\ c.text > 0
    <3>1. HexNum(c.value) \in 0 .. 300
      BY <1>1, HexLength
    <3>2. c.text \in 1 .. 20
      BY <1>4, Sizes
    <3> QED
      BY <3>1, <3>2
  <2>2. Content(l, c) = Put(l, l.len, n)
    BY <1>1, <1>4, <2>1 DEF Content, log_format_hex_array
  <2> HIDE DEF n
  <2>3. Put(l, l.len, n).len = l.len + n /\ Put(l, l.len, n).written = l.len + n
    BY <2>1, PutWhole
  <2> QED
    BY <1>1, <2>1, <2>2, <2>3
<1>5. CASE c.fn = "raw"
  <2>1. Empty \in Line /\ Empty.len = 0 /\ Empty.written = 0
    BY DEF Empty, Line
  <2>2. Content(l, c) = Put(Empty, Empty.len, c.text)
    BY <1>5, <2>1 DEF Content
  <2>3. /\ Put(Empty, Empty.len, c.text).len = Empty.len + c.text
        /\ Put(Empty, Empty.len, c.text).written = Empty.len + c.text
    BY <1>1, <2>1, PutWhole
  <2> QED
    BY <1>5, <2>2, <2>3
<1> QED
  BY <1>1, <1>2, <1>3, <1>4, <1>5 DEF Functions

\* So a call builds a line, prefix and content.
LEMMA BuiltIsLine ==
    ASSUME NEW t \in Tasks, NEW c \in Request
    PROVE  Built(t, c) \in Line
<1> DEFINE l == Content(log_format_prepend_task_name(NameLen[t]), c)
<1>1. l \in Line
  BY LogAssumption, Prefix, ContentIsLine
<1> HIDE DEF l
<1>2. Put(l, l.len, 2) \in Line
  BY <1>1, PutIsLine DEF Line
<1>3. Built(t, c) \in {l, Put(l, l.len, 2)}
  BY DEF Built, log_format_append_eol, l
<1> QED
  BY <1>1, <1>2, <1>3

\* Within the limits it has no gaps and fits the buffer.
LEMMA BuiltFits ==
    ASSUME NEW t \in Tasks, NEW c \in Request, InLimits(t, c)
    PROVE  /\ Built(t, c).written = Built(t, c).len
           /\ c.fn # "raw" => Built(t, c).len <= LOG_BUFF_SIZE_MAX + LOG_BUF_SIZE_OFFSET
<1> DEFINE p == log_format_prepend_task_name(NameLen[t])
           l == Content(p, c)
<1>1. p \in Line /\ p.written = p.len /\ p.len <= LOG_PREPEND_SIZE_MAX
  BY LogAssumption, Prefix DEF InLimits
<1> HIDE DEF p
<1>2. l \in Line
  BY <1>1, ContentIsLine
<1>3. l.written = l.len /\ (c.fn # "raw" => l.len + 2 <= 392)
  BY <1>1, ContentFits DEF InLimits
<1> HIDE DEF l
<1>4. /\ Put(l, l.len, 2).len = l.len + 2
      /\ Put(l, l.len, 2).written = l.len + 2
  BY <1>2, <1>3, PutWhole
<1>5. \/ Built(t, c) = l
      \/ c.fn # "raw" /\ Built(t, c) = Put(l, l.len, 2)
  BY DEF Built, log_format_append_eol, l, p
<1>6. l.len \in Nat
  BY <1>2 DEF Line
<1> QED
  BY <1>3, <1>4, <1>5, <1>6, Sizes

----------------------------------------------------------------------------
\* The log starts in the invariant.
LEMMA InitInv == Init => Inv
<1> SUFFICES ASSUME Init PROVE Inv
  OBVIOUS
<1>1. Types
  BY DEF Init, Types, States, Empty
<1>2. Holding /\ Lines
  BY DEF Init, Holding, Lines, Busy
<1> QED
  BY <1>1, <1>2 DEF Inv

\* What each task prints is one of the requests.
LEMMA CallTypes == Types => \A t \in Tasks : call[t] \in Request
  BY LogAssumption DEF Types, Request

\* Every step keeps the invariant.
LEMMA StepInv == Inv /\ [Next]_vars => Inv'
<1> SUFFICES ASSUME Inv, [Next]_vars PROVE Inv'
  OBVIOUS
<1> USE DEF Inv
<1>1. ASSUME NEW t \in Tasks, log_init(t) PROVE Inv'
  <2>1. /\ sem' = 1 /\ call' = call /\ line' = line /\ m_log_level' \in Levels
        /\ late' = (late \/ \E u \in Tasks : pc[u] \in Busy)
        /\ pc' \in [Tasks -> States]
        /\ \A u \in Tasks : pc'[u] \in {pc[u], "idle", "lost"}
    BY <1>1 DEF log_init, Types, States
  <2>2. Types'
    BY <2>1 DEF Types
  <2>3. \A u \in Tasks : pc'[u] \in Busy => pc[u] \in Busy
    BY <2>1 DEF Busy
  <2>4. Holding'
    BY <2>1, <2>3 DEF Holding
  <2>5. Lines'
    BY <2>1 DEF Lines
  <2> QED
    BY <2>2, <2>4, <2>5
<1>2. ASSUME NEW t \in Tasks, Call(t) PROVE Inv'
  BY <1>2 DEF Call, Goto, Types, Holding, Lines, States, Busy
<1>3. ASSUME NEW t \in Tasks, PEND_MUTEX(t) PROVE Inv'
  <2>1. /\ pc[t] = "lock" /\ pc' = [pc EXCEPT ![t] = "build"] /\ sem > 0 /\ sem' = sem - 1
        /\ UNCHANGED <<m_log_level, call, line, late>>
    BY <1>3 DEF PEND_MUTEX, Goto, Free
  <2>2. Types'
    BY <2>1 DEF Types, States
  <2>3. Holding'
    BY <2>1 DEF Types, Holding, Busy
  <2>4. Lines'
    BY <2>1 DEF Types, Lines
  <2> QED
    BY <2>2, <2>3, <2>4
<1>4. ASSUME NEW t \in Tasks, Build(t) PROVE Inv'
  <2>1. /\ pc[t] = "build" /\ pc' = [pc EXCEPT ![t] = "send"]
        /\ line' = [line EXCEPT ![t] = Built(t, call[t])]
        /\ UNCHANGED <<sem, m_log_level, call, late>>
    BY <1>4 DEF Build, Goto
  <2>2. Built(t, call[t]) \in [len : Nat, written : Nat]
    BY CallTypes, BuiltIsLine DEF Line
  <2>3. Types'
    BY <2>1, <2>2 DEF Types, States
  <2>4. Holding'
    BY <2>1 DEF Types, Holding, Busy
  <2>5. Lines'
    BY <2>1 DEF Types, Lines
  <2> QED
    BY <2>3, <2>4, <2>5
<1>5. ASSUME NEW t \in Tasks, Sent(t) PROVE Inv'
  BY <1>5 DEF Sent, Goto, Types, Holding, Lines, States, Busy
<1>6. ASSUME NEW t \in Tasks, POST_MUTEX(t) PROVE Inv'
  <2>1. /\ pc[t] = "unlock" /\ pc' = [pc EXCEPT ![t] = "idle"] /\ sem' = sem + 1
        /\ line' = [line EXCEPT ![t] = Empty]
        /\ UNCHANGED <<m_log_level, call, late>>
    BY <1>6 DEF POST_MUTEX, Goto
  <2>2. Types'
    BY <2>1 DEF Types, States, Empty
  <2>3. Holding'
    BY <2>1 DEF Types, Holding, Busy
  <2>4. Lines'
    BY <2>1 DEF Types, Lines
  <2> QED
    BY <2>2, <2>3, <2>4
<1>7. ASSUME NEW level \in Levels, log_set_level(level) PROVE Inv'
  BY <1>7 DEF log_set_level, Types, Holding, Lines
<1>8. CASE UNCHANGED vars
  BY <1>8 DEF vars, Types, Holding, Lines
<1> QED
  BY <1>1, <1>2, <1>3, <1>4, <1>5, <1>6, <1>7, <1>8 DEF Next, Step

\* The mutex is held by whoever the invariant says, and a line being sent is the
\* one its call builds: throughout, for any tasks and calls of the log.
THEOREM InvCorrect == Spec => []Inv
  BY InitInv, StepInv, PTL DEF Spec

\* The log's variables keep their types, and the mutex is one: for any tasks and
\* any calls.
THEOREM TypeCorrect == Spec => []TypeOK
<1>1. Inv => TypeOK
  BY DEF Inv, Types, Holding, TypeOK
<1> QED
  BY <1>1, InvCorrect, PTL

\* Lines reach the wire one after the other, however many tasks print, as long as
\* log_init does not run again while a line is under way.
THEOREM OneLineCorrect == Spec => []OneLineAtATime
<1>1. Inv => OneLineAtATime
  BY DEF Inv, Holding, OneLineAtATime, Busy
<1> QED
  BY <1>1, InvCorrect, PTL

\* Every line within the sizes of log_define.h fits its buffer and is handed to
\* the back end with the length that was written, for every such size.
THEOREM SentCorrect == Spec => []SentIsWritten
<1>1. Inv => SentIsWritten
  BY CallTypes, BuiltFits DEF Inv, Lines, SentIsWritten
<1> QED
  BY <1>1, InvCorrect, PTL
=============================================================================
