-------------------------------- MODULE Log --------------------------------
(***************************************************************************)
(* The log of lib/log: every call takes the mutex, builds a line in a      *)
(* buffer on its own stack (log_format.c) and hands it to the back end,    *)
(* the UART.  Of a line the model keeps lengths: what the code counts and  *)
(* how much of that has been written, with the prefix of the default       *)
(* configuration, which is the task's name.                                *)
(***************************************************************************)
EXTENDS Naturals, FiniteSets

CONSTANTS
    Tasks,     \* tasks that print
    Starters,  \* those among them whose entry function calls log_init again
    NameLen,   \* length of each task's name
    Levels,    \* log_level_t
    Calls      \* what the tasks print: see LogAssumption

\* log_define.h and log_format.c.
LOG_BUF_SIZE_OFFSET  == 40
LOG_CAPTION_SIZE_MAX == 20
LOG_HEX_COUNT_MAX    == 100
LOG_PREPEND_SIZE_MAX == 20
LOG_BUFF_SIZE_MAX    == LOG_HEX_COUNT_MAX * 3 + LOG_CAPTION_SIZE_MAX + 12 + LOG_PREPEND_SIZE_MAX
LOG_CONTENT_SIZE_MAX == LOG_BUFF_SIZE_MAX - LOG_PREPEND_SIZE_MAX - 2

\* A call of one of the four functions: its text, format or caption by its
\* length, the bytes to dump or the number, and whether the line shall end.
\* Of format the text is what it comes to, and args says it has a '%'.
Functions == {"format", "number", "hex", "raw"}

ASSUME LogAssumption ==
    /\ IsFiniteSet(Tasks) /\ Starters \subseteq Tasks
    /\ NameLen \in [Tasks -> Nat]
    /\ Levels \subseteq Nat
    /\ Calls \subseteq [fn : Functions, level : Levels, text : Nat, args : BOOLEAN,
                        value : Nat, eol : BOOLEAN]

VARIABLES
    sem,          \* m_log_mutex
    m_log_level,
    pc,           \* by task: where it is
    call,         \* by task: what it prints
    line,         \* by task: its buffer
    late          \* log_init made the mutex anew while a line was under way

vars == <<sem, m_log_level, pc, call, line, late>>

States == {"start", "idle", "lock", "build", "send", "unlock", "lost"}
Busy   == {"build", "send", "unlock"}

\* A buffer: the length the code counts, and how many of the first bytes it has
\* written, up to the first gap.
Empty == [len |-> 0, written |-> 0]

\* main has called log_init before any task runs.
Init ==
    /\ sem = 1
    /\ m_log_level \in Levels
    /\ pc = [t \in Tasks |-> IF t \in Starters THEN "start" ELSE "idle"]
    /\ \E c \in Calls : call = [t \in Tasks |-> c]
    /\ line = [t \in Tasks |-> Empty]
    /\ late = FALSE

----------------------------------------------------------------------------
\* log_format.c.  Each function gives the line as it leaves it.
Least(a, b) == IF a < b THEN a ELSE b
Most(a, b)  == IF a < b THEN b ELSE a

\* n bytes are written at offset and n counted.
Put(l, offset, n) ==
    [len |-> l.len + n, written |-> IF offset <= l.written THEN Most(l.written, offset + n)
                                    ELSE l.written]
\* n bytes counted without being written.
Skip(l, n) == [l EXCEPT !.len = @ + n]

Offset(l) == Least(l.len, LOG_PREPEND_SIZE_MAX)

\* "[name]", or "[@]" for a task without a name.
log_format_prepend_task_name(n) ==
    Put(Empty, 0, 2 + IF n > 0 THEN n ELSE 1)

\* vsnprintf writes what fits and gives the length of the whole.
log_format_string_args(l, c) ==
    LET fits == IF c.args THEN Least(c.text, LOG_CONTENT_SIZE_MAX - 1) ELSE c.text
    IN  Skip(Put(l, Offset(l), fits), c.text - fits)

Digits(number) ==
    IF number = 0 THEN 1
    ELSE IF number <= 255 THEN 2
    ELSE IF number <= 65535 THEN 4
    ELSE 8
log_format_number(number) == 2 + Digits(number)

log_format_string_number(l, c) ==
    Put(l, Offset(l), c.text + 2 + log_format_number(c.value))

\* "caption[0FFh]: " and three characters a byte; without a caption the eight
\* bytes before the dump are counted and left as they are.
HexCounted(data_len) == 3 * data_len
HexNum(data_len)     == 3 * Least(LOG_HEX_COUNT_MAX, data_len)
log_format_hex_array(l, c) ==
    IF c.text > 0
    THEN Put(l, Offset(l), c.text + 8 + HexNum(c.value))
    ELSE Put(Skip(l, 8), Offset(l) + 8, HexNum(c.value))

log_format_append_eol(l) ==
    IF l.len <= LOG_CONTENT_SIZE_MAX THEN Put(l, l.len, 2) ELSE l

\* log_print_raw_string hands on the caller's own string.
Content(l, c) ==
    CASE c.fn = "format" -> log_format_string_args(l, c)
      [] c.fn = "number" -> log_format_string_number(l, c)
      [] c.fn = "hex"    -> log_format_hex_array(l, c)
      [] c.fn = "raw"    -> Put(Empty, 0, c.text)

\* log_print_format and its like, from the prefix to the end of the line.
Built(t, c) ==
    LET content == Content(log_format_prepend_task_name(NameLen[t]), c)
    IN  IF c.eol /\ c.fn # "raw" THEN log_format_append_eol(content) ELSE content

----------------------------------------------------------------------------
Goto(t, from, to) == pc[t] = from /\ pc' = [pc EXCEPT ![t] = to]

\* The runner of the log calls log_init once more: the level, the UART if it is
\* not open, and the mutex.  A task that waits on the old semaphore may wait on.
log_init(t) ==
    /\ pc[t] = "start"
    /\ \E lost \in SUBSET {u \in Tasks : pc[u] = "lock" /\ sem = 0} :
          pc' = [u \in Tasks |-> IF u = t THEN "idle"
                                 ELSE IF u \in lost THEN "lost" ELSE pc[u]]
    /\ sem' = 1
    /\ m_log_level' \in Levels
    /\ late' = (late \/ \E u \in Tasks : pc[u] \in Busy)
    /\ UNCHANGED <<call, line>>

log_set_level(level) ==
    /\ m_log_level' = level
    /\ UNCHANGED <<sem, pc, call, line, late>>

\* The level is tested before the lock.  A NULL string returns at once.
Call(t) ==
    /\ Goto(t, "idle", "lock")
    /\ \E c \in Calls : c.level >= m_log_level /\ call' = [call EXCEPT ![t] = c]
    /\ UNCHANGED <<sem, m_log_level, line, late>>

NoWait == TRUE
Free   == sem > 0
PEND_MUTEX(t) ==
    /\ Goto(t, "lock", "build")
    /\ Free
    /\ sem' = IF sem > 0 THEN sem - 1 ELSE 0
    /\ UNCHANGED <<m_log_level, call, line, late>>

Build(t) ==
    /\ Goto(t, "build", "send")
    /\ line' = [line EXCEPT ![t] = Built(t, call[t])]
    /\ UNCHANGED <<sem, m_log_level, call, late>>

\* log_backend_print has put the last byte on the wire.
Sent(t) ==
    /\ Goto(t, "send", "unlock")
    /\ UNCHANGED <<sem, m_log_level, call, line, late>>

ReturnsFromSend(t) ==
    /\ Goto(t, "unlock", "idle")
    /\ line' = [line EXCEPT ![t] = Empty]
    /\ UNCHANGED <<sem, m_log_level, call, late>>

POST_MUTEX(t) ==
    /\ Goto(t, "unlock", "idle")
    /\ sem' = sem + 1
    /\ line' = [line EXCEPT ![t] = Empty]
    /\ UNCHANGED <<m_log_level, call, late>>

Step(t) == PEND_MUTEX(t) \/ Build(t) \/ Sent(t) \/ POST_MUTEX(t)

Next ==
    \/ \E t \in Tasks : log_init(t) \/ Call(t) \/ Step(t)
    \/ \E level \in Levels : log_set_level(level)

Spec == Init /\ [][Next]_vars

\* A task that is ready runs, and sem_post hands the mutex to the waiters of one
\* priority in turn.
FairSpec == Spec /\ \A t \in Tasks : WF_vars(Step(t)) /\ SF_vars(PEND_MUTEX(t))

----------------------------------------------------------------------------
\* The variables keep their types; the mutex is one, unless log_init ran late.
TypeOK ==
    /\ sem \in Nat /\ (late \/ sem <= 1)
    /\ m_log_level \in Levels
    /\ pc \in [Tasks -> States]
    /\ call \in [Tasks -> Calls]
    /\ line \in [Tasks -> [len : Nat, written : Nat]]
    /\ late \in BOOLEAN

\* Lines reach the wire one after the other: no task starts to send while another
\* one does.  It takes that log_init does not run again while a line is under way.
OneLineAtATime ==
    late \/ \A t, u \in Tasks : pc[t] = "send" /\ pc[u] = "send" => t = u

\* The sizes log_define.h provides for.  A text that is formatted must leave room
\* for its terminator.
InLimits(t, c) ==
    /\ NameLen[t] + 2 <= LOG_PREPEND_SIZE_MAX
    /\ c.fn \in {"format", "number"} => c.text < LOG_CONTENT_SIZE_MAX
    /\ c.fn = "hex" => c.text \in 1 .. LOG_CAPTION_SIZE_MAX

\* What is handed to the back end is what has been written, and lies in the
\* buffer: the lengths the formatting functions add up are those they wrote.
SentIsWritten ==
    \A t \in Tasks : pc[t] = "send" /\ InLimits(t, call[t]) =>
        /\ line[t].written = line[t].len
        /\ call[t].fn # "raw" => line[t].len <= LOG_BUFF_SIZE_MAX + LOG_BUF_SIZE_OFFSET

\* Every call returns, unless log_init made the mutex anew under it: no path of
\* the four functions keeps the mutex.
CallsReturn ==
    \A t \in Tasks : pc[t] \in {"lock", "build", "send", "unlock"} ~> pc[t] = "idle" \/ late
=============================================================================
