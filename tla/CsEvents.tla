------------------------------ MODULE CsEvents ------------------------------
(***************************************************************************)
(* The Channel Sounding event handler, ble_cs_event_handler.c: what the    *)
(* controller reports of the procedures on its connections is passed on to *)
(* the ranging profile (RRSP) of the SDK, which sends it to the peer.  One *)
(* host task handles one event at a time, so an event is a step here, made *)
(* by the controller and handled at once.  A security enable event calls   *)
(* CS_SetDefaultSettings and changes no state: it has no action.           *)
(***************************************************************************)
EXTENDS Naturals, FiniteSets

CONSTANTS
    Conns,       \* connection handles, below MAX_NUM_BLE_CONNS
    NONE,        \* KEY_NODE_INVALID_PROCEDURE_COUNTER, and no procedure
    MaxCount,    \* bound: the largest procedure counter
    MaxResults   \* bound: events with results of one procedure, which
                 \* the profile has room for

ASSUME CsAssumption ==
    /\ IsFiniteSet(Conns)
    /\ MaxCount \in Nat /\ MaxResults \in Nat \ {0}
    /\ NONE \notin 0 .. MaxCount

VARIABLES
    m_proc_counts,      \* by connection: the procedure last passed on
    m_antenna_paths,    \* by connection: the mask last enabled, 0 if never
    m_curr_proc_count,  \* of all connections: continued results may pass
    running,            \* FALSE once a heap error has stopped the program
    registered,         \* RRSP: the peer wants its results
    ranging,            \* RRSP: the procedure, its results, the end it was told
    proc,               \* the controller: the procedure of each connection
    calm                \* nothing outside has disturbed this procedure

handler  == <<m_proc_counts, m_antenna_paths, m_curr_proc_count>>
external == <<registered, ranging, proc, calm>>
vars     == <<handler, running, external>>

Counts  == 0 .. MaxCount
Nothing == [count |-> NONE, has |-> 0, done |-> NONE]
Absent  == [count |-> NONE, sent |-> 0, state |-> "idle"]

\* procedureDoneStatus of an event: partial results, of which "more" says that
\* the rest of this subevent follows as continued results; or the end.
Statuses == {"partial", "more", "done", "aborted"}
Ends(s)  == s \in {"done", "aborted"}

\* The static arrays of the handler start at zero: ble_cs_init fills two arrays
\* of its own with the invalid counter, which nothing reads.
Init ==
    /\ m_proc_counts = [h \in Conns |-> 0]
    /\ m_antenna_paths = [h \in Conns |-> 0]
    /\ m_curr_proc_count = NONE
    /\ running = TRUE
    /\ registered = [h \in Conns |-> FALSE]
    /\ ranging = [h \in Conns |-> Nothing]
    /\ proc = [h \in Conns |-> Absent]
    /\ calm = [h \in Conns |-> FALSE]

----------------------------------------------------------------------------
\* The ranging profile.  A call may be refused; an outcome says whether it was
\* and what the profile has of the connection then.
Outcome(ok, r) == [ok |-> ok, has |-> r]
Answers(h, r)  == {Outcome(TRUE, r), Outcome(FALSE, ranging[h])}

RRSP_ProcedureStarted(h, c) ==
    Answers(h, [count |-> c, has |-> 0, done |-> NONE])
RRSP_Add(o)     ==
    {Outcome(FALSE, o.has)} \cup
    (IF o.has.has < MaxResults THEN {Outcome(TRUE, [o.has EXCEPT !.has = @ + 1])} ELSE {})
RRSP_Done(o, c) == {Outcome(TRUE, [o.has EXCEPT !.done = c]), Outcome(FALSE, o.has)}

\* The peer subscribes to the results and unsubscribes.
Register(h) ==
    /\ running /\ ~registered[h]
    /\ registered' = [registered EXCEPT ![h] = TRUE]
    /\ UNCHANGED <<handler, running, ranging, proc, calm>>

Unregister(h) ==
    /\ running /\ registered[h]
    /\ registered' = [registered EXCEPT ![h] = FALSE]
    /\ ranging' = [ranging EXCEPT ![h] = Nothing]
    /\ calm' = [calm EXCEPT ![h] = FALSE]
    /\ UNCHANGED <<handler, running, proc>>

\* The connection ends; the handle is given out again.  No handler resets the
\* counter and the mask of the handle.
Disconnect(h) ==
    /\ running
    /\ registered' = [registered EXCEPT ![h] = FALSE]
    /\ ranging' = [ranging EXCEPT ![h] = Nothing]
    /\ proc' = [proc EXCEPT ![h] = Absent]
    /\ calm' = [calm EXCEPT ![h] = FALSE]
    /\ UNCHANGED <<handler, running>>

----------------------------------------------------------------------------
\* CS_calcAntPathsMask gives a mask of paths, here 1, and 0 for a configuration it
\* does not know, here 8.
AntennaConfigs == {0, 8}
CS_calcAntPathsMask(ACI) == IF ACI = 8 THEN 0 ELSE 1

StoresConfig(h, ACI) ==
    IF registered[h]
    THEN m_antenna_paths' = [m_antenna_paths EXCEPT ![h] = ACI]
    ELSE UNCHANGED m_antenna_paths

handle_procedure_enable(h, ACI) ==
    IF registered[h] /\ CS_calcAntPathsMask(ACI) # 0
    THEN m_antenna_paths' = [m_antenna_paths EXCEPT ![h] = CS_calcAntPathsMask(ACI)]
    ELSE UNCHANGED m_antenna_paths

\* An enable event with a csStatus other than SUCCESS changes nothing.
ProcedureEnable(h) ==
    /\ running
    /\ \E ACI \in AntennaConfigs : handle_procedure_enable(h, ACI)
    /\ UNCHANGED <<m_proc_counts, m_curr_proc_count, running, external>>

\* A result and, with the last one, the end of the procedure.  Each call is made
\* only if the one before it succeeded.
Passed(starts, c, s) ==
    LET added == UNION {IF o.ok THEN RRSP_Add(o) ELSE {o} : o \in starts}
    IN  UNION {IF o.ok /\ s = "done" THEN RRSP_Done(o, c) ELSE {o} : o \in added}

Started(h, c) ==
    IF m_proc_counts[h] = c THEN {Outcome(TRUE, ranging[h])}
    ELSE IF m_antenna_paths[h] = 0 THEN {Outcome(FALSE, ranging[h])}
    ELSE RRSP_ProcedureStarted(h, c)

Heard(h, s) == registered[h] /\ s # "aborted"

\* The outcomes of handle_sub_event.
handle_sub_event(h, c, s) ==
    IF Heard(h, s) THEN Passed(Started(h, c), c, s) ELSE {Outcome(FALSE, ranging[h])}

\* The counter is kept as soon as a start is tried, also if it is then refused.
NeverKept(h, c, s) == UNCHANGED m_proc_counts
Kept(h, c, s) == m_proc_counts' = IF Heard(h, s) THEN [m_proc_counts EXCEPT ![h] = c]
                                  ELSE m_proc_counts

\* The same without the test of the status before the last call.
EndsAlways(h, c, s) ==
    IF registered[h] THEN Passed({Outcome(TRUE, ranging[h])}, c, IF Ends(s) THEN "done" ELSE s)
    ELSE {Outcome(FALSE, ranging[h])}

handle_sub_continue_event(h, c, s) ==
    IF Heard(h, s) THEN Passed({Outcome(TRUE, ranging[h])}, c, s)
    ELSE {Outcome(FALSE, ranging[h])}

----------------------------------------------------------------------------
\* The controller's side of an event, and what disturbs a procedure: a call the
\* profile refuses, or the end of another connection's procedure between a result
\* and its continuation.
Reports(h, c, s) ==
    LET old == proc[h] IN
    proc' = [proc EXCEPT ![h] =
        [count |-> c,
         sent  |-> IF c = old.count THEN old.sent + 1 ELSE 1,
         state |-> CASE s = "partial" -> "running" [] s = "more" -> "owes" [] OTHER -> s]]

Disturbs(h, s, undisturbed) ==
    calm' = [g \in Conns |-> IF g = h THEN undisturbed
                             ELSE calm[g] /\ ~(Ends(s) /\ proc[g].state = "owes")]

NextCurrent(c, s) == m_curr_proc_count' = IF Ends(s) THEN NONE ELSE c

\* CS_SUBEVENT_RESULT, of a new procedure or of the one the connection runs.
SubeventResult(h, c, s) ==
    LET fresh == c # proc[h].count
        may   == m_antenna_paths[h] # 0 /\ m_proc_counts[h] # c
    IN
    /\ running
    /\ IF fresh THEN proc[h].state \in {"idle", "done", "aborted"}
       ELSE proc[h].state = "running" /\ proc[h].sent < MaxResults
    /\ Reports(h, c, s)
    /\ \E o \in handle_sub_event(h, c, s) :
          /\ ranging' = [ranging EXCEPT ![h] = o.has]
          /\ Disturbs(h, s, o.ok /\ IF fresh THEN may ELSE calm[h])
    /\ Kept(h, c, s)
    /\ NextCurrent(c, s)
    /\ UNCHANGED <<m_antenna_paths, running, registered>>

\* CS_SUBEVENT_CONTINUE_RESULT: of a copy on the heap, which is freed twice.  The
\* heap manager may not notice, or may stop the program.
Copied(h, s) ==
    /\ \E o \in handle_sub_continue_event(h, m_proc_counts[h], s) :
          /\ ranging' = [ranging EXCEPT ![h] = o.has]
          /\ Disturbs(h, s, o.ok /\ calm[h])
    /\ running' \in BOOLEAN

\* The gate is shut, or there is no memory for the copy.
Dropped(h, s) ==
    /\ UNCHANGED <<ranging, running>>
    /\ Disturbs(h, s, calm[h] /\ m_curr_proc_count = NONE)

ContinueResult(h, s) ==
    /\ running
    /\ proc[h].state = "owes" /\ proc[h].sent < MaxResults
    /\ Reports(h, proc[h].count, s)
    /\ \/ m_curr_proc_count # NONE /\ Copied(h, s)
       \/ Dropped(h, s)
    /\ NextCurrent(m_curr_proc_count, s)
    /\ UNCHANGED <<m_proc_counts, m_antenna_paths, registered>>

Next ==
    \E h \in Conns :
        \/ Register(h) \/ Unregister(h) \/ Disconnect(h)
        \/ ProcedureEnable(h)
        \/ \E c \in Counts, s \in Statuses : SubeventResult(h, c, s)
        \/ \E s \in Statuses : ContinueResult(h, s)

Spec == Init /\ [][Next]_vars

----------------------------------------------------------------------------
\* The variables keep their types.
TypeOK ==
    /\ m_proc_counts \in [Conns -> Counts]
    /\ m_antenna_paths \in [Conns -> {0, 1}]
    /\ m_curr_proc_count \in Counts \cup {NONE}
    /\ running \in BOOLEAN
    /\ registered \in [Conns -> BOOLEAN]
    /\ ranging \in [Conns -> [count : Counts \cup {NONE}, has : 0 .. MaxResults, done : Counts \cup {NONE}]]
    /\ proc \in [Conns -> [count : Counts \cup {NONE}, sent : 0 .. MaxResults,
                           state : {"idle", "running", "owes", "done", "aborted"}]]
    /\ calm \in [Conns -> BOOLEAN]

\* The ranging profile has the whole of a procedure: it was told that it started,
\* it has every result the controller sent, continued ones included, and it is
\* told the end with the last of them.  A procedure that started unheard, without
\* antenna paths or with the counter the handle had last is excepted, and so is
\* one that was disturbed (see Disturbs).
WholeProcedure ==
    \A h \in Conns :
        calm[h] /\ proc[h].state \in {"running", "owes", "done"} =>
            ranging[h] = [count |-> proc[h].count, has |-> proc[h].sent,
                          done |-> IF proc[h].state = "done" THEN proc[h].count ELSE NONE]

\* The profile is told the end of a connection's procedure only by the event in
\* which the controller reports that one done: never for one that was aborted,
\* and never by another connection's event.
DoneOnlyWhenDone ==
    [][\A h \in Conns : ranging'[h].done \notin {NONE, ranging[h].done} =>
                            proc'[h].state = "done" /\ proc'[h] # proc[h]]_vars
=============================================================================
