--------------------------- MODULE CsEventsProofs ---------------------------
(***************************************************************************)
(* For any connections, counters and results: an undisturbed procedure     *)
(* reaches the ranging profile whole, and no end is told that was not one. *)
(***************************************************************************)
EXTENDS CsEvents, TLAPS

Held == [count : Counts \cup {NONE}, has : 0 .. MaxResults, done : Counts \cup {NONE}]
Outs == [ok : BOOLEAN, has : Held]

\* What the profile has after a result of procedure c with status s.
After(r, c, s) ==
    [count |-> r.count, has |-> r.has + 1, done |-> IF s = "done" THEN c ELSE r.done]

\* An undisturbed procedure that runs is the one kept for its handle, and its peer
\* still listens; while it owes continued results the gate is open.
Undisturbed ==
    \A h \in Conns :
        calm[h] =>
            /\ proc[h].state \in {"running", "owes", "done"}
            /\ proc[h].state # "done" => registered[h] /\ m_proc_counts[h] = proc[h].count
            /\ proc[h].state = "owes" => m_curr_proc_count # NONE

Inv == TypeOK /\ WholeProcedure /\ Undisturbed

----------------------------------------------------------------------------
\* An outcome of a result comes from one of the starts; if every call succeeded
\* the profile has one result more, and the end if this was the last.
LEMMA AddOutcome ==
    ASSUME NEW b \in Outs, NEW a \in RRSP_Add(b)
    PROVE  /\ a \in Outs
           /\ a.ok => a.has = [b.has EXCEPT !.has = @ + 1]
           /\ a.has.done = b.has.done
<1> DEFINE more == [b.has EXCEPT !.has = @ + 1]
<1>1. \/ a = [ok |-> FALSE, has |-> b.has]
      \/ b.has.has < MaxResults /\ a = [ok |-> TRUE, has |-> more]
  BY DEF RRSP_Add, Outcome
<1>2. b.has \in Held
  BY DEF Outs
<1>3. b.has.has < MaxResults => more \in Held /\ more.done = b.has.done
  BY <1>2, CsAssumption DEF Held
<1>4. CASE a = [ok |-> FALSE, has |-> b.has]
  <2>1. a.ok = FALSE /\ a.has = b.has
    BY <1>4
  <2> QED
    BY <1>2, <1>4, <2>1 DEF Outs
<1>5. CASE b.has.has < MaxResults /\ a = [ok |-> TRUE, has |-> more]
  <2> HIDE DEF more
  <2>1. a.ok = TRUE /\ a.has = more /\ a \in Outs
    BY <1>3, <1>5 DEF Outs
  <2> QED
    BY <1>3, <1>5, <2>1 DEF more
<1> QED
  BY <1>1, <1>4, <1>5

\* The same of RRSP_Done, where a successful call also tells the end of c.
LEMMA DoneOutcome ==
    ASSUME NEW c \in Counts, NEW a \in Outs, NEW o \in RRSP_Done(a, c)
    PROVE  /\ o \in Outs
           /\ o.ok => o.has = [a.has EXCEPT !.done = c]
           /\ o.has.done \in {a.has.done, c}
<1> DEFINE end == [a.has EXCEPT !.done = c]
<1>1. a = [ok |-> a.ok, has |-> a.has] /\ a.has \in Held
  BY DEF Outs
<1>2. \/ o = [ok |-> FALSE, has |-> a.has]
      \/ o = [ok |-> TRUE, has |-> end]
  BY DEF RRSP_Done, Outcome
<1>3. end \in Held /\ end.done = c
  BY <1>1 DEF Held
<1>4. CASE o = [ok |-> FALSE, has |-> a.has]
  <2>1. o.ok = FALSE /\ o.has = a.has
    BY <1>4
  <2> QED
    BY <1>1, <1>4, <2>1 DEF Outs
<1>5. CASE o = [ok |-> TRUE, has |-> end]
  <2> HIDE DEF end
  <2>1. o.ok = TRUE /\ o.has = end /\ o \in Outs
    BY <1>3, <1>5 DEF Outs
  <2> QED
    BY <1>3, <1>5, <2>1 DEF end
<1> QED
  BY <1>2, <1>4, <1>5

\* A successful chain of calls gives the start's record with the result added; an
\* end that was not there is told only by the last result.
LEMMA PassedOutcome ==
    ASSUME NEW starts \in SUBSET Outs, NEW c \in Counts, NEW s, NEW o \in Passed(starts, c, s)
    PROVE  /\ o \in Outs
           /\ \E b \in starts :
                 /\ o.ok => b.ok /\ o.has = After(b.has, c, s)
                 /\ o.has.done # b.has.done => s = "done" /\ o.has.done = c
<1> DEFINE Adds(b) == IF b.ok THEN RRSP_Add(b) ELSE {b}
           Dones(a) == IF a.ok /\ s = "done" THEN RRSP_Done(a, c) ELSE {a}
           added == UNION {Adds(b) : b \in starts}
<1>1. o \in UNION {Dones(a) : a \in added}
  BY DEF Passed
<1>2. PICK a \in added : o \in Dones(a)
  BY <1>1
<1>3. PICK b \in starts : a \in Adds(b)
  BY <1>2
<1>4. /\ a \in Outs
      /\ a.ok => b.ok /\ a.has = [b.has EXCEPT !.has = @ + 1]
      /\ a.has.done = b.has.done
  <2>1. CASE b.ok
    BY <1>3, <2>1, AddOutcome
  <2>2. CASE ~b.ok
    BY <1>3, <2>2
  <2> QED
    BY <2>1, <2>2
<1>5. CASE a.ok /\ s = "done"
  <2>1. /\ o \in Outs
        /\ o.ok => o.has = [a.has EXCEPT !.done = c]
        /\ o.has.done \in {a.has.done, c}
    BY <1>2, <1>4, <1>5, DoneOutcome
  <2>2. o.ok => b.ok /\ o.has = After(b.has, c, s)
    BY <1>4, <1>5, <2>1 DEF After, Outs, Held
  <2> QED
    BY <1>4, <1>5, <2>1, <2>2
<1>6. CASE ~(a.ok /\ s = "done")
  <2>1. o = a
    BY <1>2, <1>6
  <2>2. o.ok => b.ok /\ o.has = After(b.has, c, s)
    BY <1>4, <1>6, <2>1 DEF After, Outs, Held
  <2> QED
    BY <1>4, <2>1, <2>2
<1> QED
  BY <1>5, <1>6

\* The profile right after the start of procedure c.
Begun(c) == [count |-> c, has |-> 0, done |-> NONE]

\* What handle_sub_event returns: the result is added to the procedure kept for
\* the handle, or to the one it has just begun.
LEMMA SubEventOutcome ==
    ASSUME TypeOK, NEW h \in Conns, NEW c \in Counts, NEW s,
           NEW o \in handle_sub_event(h, c, s)
    PROVE  /\ o.ok \in BOOLEAN /\ o.has \in Held
           /\ o.ok => Heard(h, s)
           /\ o.ok /\ m_proc_counts[h] = c => o.has = After(ranging[h], c, s)
           /\ o.ok /\ m_proc_counts[h] # c => o.has = After(Begun(c), c, s)
           /\ o.has.done \notin {NONE, ranging[h].done} => s = "done"
<1>1. ranging[h] \in Held /\ Begun(c) \in Held
  BY CsAssumption DEF TypeOK, Held, Begun
<1> DEFINE kept    == [ok |-> TRUE, has |-> ranging[h]]
           refused == [ok |-> FALSE, has |-> ranging[h]]
           begun   == [ok |-> TRUE, has |-> Begun(c)]
<1>2. kept \in Outs /\ refused \in Outs /\ begun \in Outs
  BY <1>1 DEF Outs
<1>3. CASE Heard(h, s)
  <2>1. /\ Started(h, c) \subseteq {kept, refused, begun}
        /\ m_proc_counts[h] = c => Started(h, c) = {kept}
        /\ m_proc_counts[h] # c => Started(h, c) \subseteq {refused, begun}
    BY DEF Started, RRSP_ProcedureStarted, Answers, Outcome, Begun
  <2>2. Started(h, c) \in SUBSET Outs
    BY <1>2, <2>1
  <2>3. o \in Passed(Started(h, c), c, s)
    BY <1>3 DEF handle_sub_event
  <2>4. PICK b \in Started(h, c) :
           /\ o \in Outs
           /\ o.ok => b.ok /\ o.has = After(b.has, c, s)
           /\ o.has.done # b.has.done => s = "done" /\ o.has.done = c
    BY <2>2, <2>3, PassedOutcome
  <2>5. CASE b = kept
    <3>1. b.has = ranging[h]
      BY <2>5
    <3>2. kept # refused /\ (kept = begun => ranging[h] = Begun(c))
      <4>1. kept.ok = TRUE /\ refused.ok = FALSE /\ kept.has = ranging[h] /\ begun.has = Begun(c)
        OBVIOUS
      <4> QED
        BY <4>1
    <3>3. m_proc_counts[h] # c => Begun(c) = ranging[h]
      BY <2>1, <2>5, <3>2
    <3> QED
      BY <1>3, <2>4, <3>1, <3>3 DEF Outs
  <2>6. CASE b = refused
    <3>1. b.ok = FALSE /\ b.has = ranging[h]
      BY <2>6
    <3> QED
      BY <1>3, <2>4, <3>1 DEF Outs
  <2>7. CASE b = begun
    <3>1. b.has = Begun(c) /\ b.has.done = NONE
      BY <2>7 DEF Begun
    <3>2. m_proc_counts[h] = c => Begun(c) = ranging[h]
      BY <2>1, <2>4, <2>7
    <3> QED
      BY <1>3, <2>4, <3>1, <3>2 DEF Outs
  <2> QED
    BY <2>1, <2>4, <2>5, <2>6, <2>7
<1>4. CASE ~Heard(h, s)
  <2>1. o = refused
    BY <1>4 DEF handle_sub_event, Outcome
  <2>2. o.ok = FALSE /\ o.has = ranging[h]
    BY <2>1
  <2> QED
    BY <1>1, <2>2
<1> QED
  BY <1>3, <1>4

\* What handle_sub_continue_event returns: the result is added to what is there.
LEMMA ContinueOutcome ==
    ASSUME TypeOK, NEW h \in Conns, NEW c \in Counts, NEW s,
           NEW o \in handle_sub_continue_event(h, c, s)
    PROVE  /\ o.ok \in BOOLEAN /\ o.has \in Held
           /\ o.ok => Heard(h, s) /\ o.has = After(ranging[h], c, s)
           /\ o.has.done \notin {NONE, ranging[h].done} => s = "done"
<1>1. ranging[h] \in Held
  BY DEF TypeOK, Held
<1> DEFINE kept    == [ok |-> TRUE, has |-> ranging[h]]
           refused == [ok |-> FALSE, has |-> ranging[h]]
<1>2. CASE Heard(h, s)
  <2> DEFINE starts == {kept}
  <2>1. o \in Passed(starts, c, s)
    BY <1>2 DEF handle_sub_continue_event, Outcome
  <2>2. starts \in SUBSET Outs
    BY <1>1 DEF Outs
  <2> HIDE DEF starts
  <2>3. PICK b \in starts :
           /\ o \in Outs
           /\ o.ok => b.ok /\ o.has = After(b.has, c, s)
           /\ o.has.done # b.has.done => s = "done" /\ o.has.done = c
    BY <2>1, <2>2, PassedOutcome
  <2>4. b.has = ranging[h]
    BY DEF starts
  <2> QED
    BY <1>2, <2>3, <2>4 DEF Outs
<1>3. CASE ~Heard(h, s)
  <2>1. o = refused
    BY <1>3 DEF handle_sub_continue_event, Outcome
  <2>2. o.ok = FALSE /\ o.has = ranging[h]
    BY <2>1
  <2> QED
    BY <1>1, <2>2
<1> QED
  BY <1>2, <1>3

----------------------------------------------------------------------------
\* What Whole and Undisturbed ask of one connection.
Fine(h) ==
    calm[h] =>
        /\ proc[h].state \in {"running", "owes", "done"}
        /\ ranging[h] = [count |-> proc[h].count, has |-> proc[h].sent,
                         done |-> IF proc[h].state = "done" THEN proc[h].count ELSE NONE]
        /\ proc[h].state # "done" => registered[h] /\ m_proc_counts[h] = proc[h].count
        /\ proc[h].state = "owes" => m_curr_proc_count # NONE

\* A step at one connection leaves the others fine: their procedures and what
\* the profile has of them stay, and their gate is shut only with calm gone.
LEMMA OthersFine ==
    ASSUME Inv, NEW h \in Conns,
           NEW s, NEW undisturbed, Disturbs(h, s, undisturbed),
           \A g \in Conns \ {h} :
               /\ ranging'[g] = ranging[g] /\ proc'[g] = proc[g]
               /\ registered'[g] = registered[g] /\ m_proc_counts'[g] = m_proc_counts[g],
           m_curr_proc_count # NONE /\ ~Ends(s) => m_curr_proc_count' # NONE
    PROVE  \A g \in Conns \ {h} : Fine(g)'
<1> SUFFICES ASSUME NEW g \in Conns \ {h}, calm'[g]
             PROVE  /\ proc[g].state \in {"running", "owes", "done"}
                    /\ ranging[g] = [count |-> proc[g].count, has |-> proc[g].sent,
                           done |-> IF proc[g].state = "done" THEN proc[g].count ELSE NONE]
                    /\ proc[g].state # "done" =>
                           registered[g] /\ m_proc_counts[g] = proc[g].count
                    /\ proc[g].state = "owes" => m_curr_proc_count' # NONE
  BY DEF Fine
<1>1. calm[g] /\ ~(Ends(s) /\ proc[g].state = "owes")
  BY DEF Disturbs
<1> QED
  BY <1>1 DEF Inv, Undisturbed, WholeProcedure

\* The state a status leads to.
StateOf(s) == CASE s = "partial" -> "running" [] s = "more" -> "owes" [] OTHER -> s

\* The controller's record of a connection after it reported a result.
LEMMA Reported ==
    ASSUME TypeOK, NEW h \in Conns, NEW c \in Counts \cup {NONE}, NEW s \in Statuses,
           Reports(h, c, s),
           c = proc[h].count => proc[h].sent < MaxResults
    PROVE  /\ proc'[h].count = c
           /\ proc'[h].sent = (IF c = proc[h].count THEN proc[h].sent + 1 ELSE 1)
           /\ proc'[h].state = StateOf(s)
           /\ \A g \in Conns \ {h} : proc'[g] = proc[g]
           /\ proc' \in [Conns -> [count : Counts \cup {NONE}, sent : 0 .. MaxResults,
                                   state : {"idle", "running", "owes", "done", "aborted"}]]
<1> DEFINE new == [count |-> c,
                   sent  |-> IF c = proc[h].count THEN proc[h].sent + 1 ELSE 1,
                   state |-> StateOf(s)]
<1>1. StateOf(s) \in {"running", "owes", "done", "aborted"}
  BY DEF StateOf, Statuses
<1>2. proc' = [proc EXCEPT ![h] = new]
  BY DEF Reports, StateOf
<1>3. proc[h].sent \in 0 .. MaxResults
  BY DEF TypeOK
<1>4. (IF c = proc[h].count THEN proc[h].sent + 1 ELSE 1) \in 0 .. MaxResults
  BY <1>3, CsAssumption
<1>5. new \in [count : Counts \cup {NONE}, sent : 0 .. MaxResults,
               state : {"idle", "running", "owes", "done", "aborted"}]
  BY <1>1, <1>4
<1>6. new.count = c /\ new.state = StateOf(s)
      /\ new.sent = (IF c = proc[h].count THEN proc[h].sent + 1 ELSE 1)
  OBVIOUS
<1> HIDE DEF new
<1>7. proc'[h] = new /\ \A g \in Conns \ {h} : proc'[g] = proc[g]
  BY <1>2 DEF TypeOK
<1> QED
  BY <1>2, <1>5, <1>6, <1>7 DEF TypeOK

\* A subevent result keeps the invariant and tells no end that was not one.
LEMMA SubeventInv ==
    ASSUME Inv, NEW h \in Conns, NEW c \in Counts, NEW s \in Statuses, SubeventResult(h, c, s)
    PROVE  Inv' /\ \A g \in Conns : ranging'[g].done \notin {NONE, ranging[g].done} =>
                       proc'[g].state = "done" /\ proc'[g] # proc[g]
<1> DEFINE fresh == c # proc[h].count
           may   == m_antenna_paths[h] # 0 /\ m_proc_counts[h] # c
<1>1. PICK o \in handle_sub_event(h, c, s) :
         /\ ranging' = [ranging EXCEPT ![h] = o.has]
         /\ Disturbs(h, s, o.ok /\ IF fresh THEN may ELSE calm[h])
  BY DEF SubeventResult
<1>2. /\ Reports(h, c, s) /\ Kept(h, c, s) /\ NextCurrent(c, s)
      /\ UNCHANGED <<m_antenna_paths, running, registered>>
      /\ IF fresh THEN proc[h].state \in {"idle", "done", "aborted"}
         ELSE proc[h].state = "running" /\ proc[h].sent < MaxResults
  BY DEF SubeventResult
<1>3. TypeOK
  BY DEF Inv
<1>4. /\ o.ok \in BOOLEAN /\ o.has \in Held
      /\ o.ok => Heard(h, s)
      /\ o.ok /\ m_proc_counts[h] = c => o.has = After(ranging[h], c, s)
      /\ o.ok /\ m_proc_counts[h] # c => o.has = After(Begun(c), c, s)
      /\ o.has.done \notin {NONE, ranging[h].done} => s = "done"
  BY <1>3, SubEventOutcome
<1>5. /\ proc'[h].count = c
      /\ proc'[h].sent = (IF c = proc[h].count THEN proc[h].sent + 1 ELSE 1)
      /\ proc'[h].state = StateOf(s)
      /\ \A g \in Conns \ {h} : proc'[g] = proc[g]
      /\ proc' \in [Conns -> [count : Counts \cup {NONE}, sent : 0 .. MaxResults,
                              state : {"idle", "running", "owes", "done", "aborted"}]]
  BY <1>2, <1>3, Reported
<1>6. m_curr_proc_count' = (IF Ends(s) THEN NONE ELSE c) /\ c # NONE
  BY <1>2, CsAssumption DEF NextCurrent, Counts
<1>7. /\ m_proc_counts' \in [Conns -> Counts]
      /\ Heard(h, s) => m_proc_counts'[h] = c
      /\ \A g \in Conns \ {h} : m_proc_counts'[g] = m_proc_counts[g]
  BY <1>2, <1>3 DEF Kept, TypeOK
<1>8. /\ ranging'[h] = o.has
      /\ \A g \in Conns \ {h} : ranging'[g] = ranging[g]
      /\ ranging' \in [Conns -> Held]
  BY <1>1, <1>3, <1>4 DEF TypeOK, Held
<1>9. calm' \in [Conns -> BOOLEAN]
  BY <1>1 DEF Disturbs
<1>10. TypeOK'
  BY <1>2, <1>3, <1>5, <1>6, <1>7, <1>8, <1>9 DEF TypeOK, Held
<1>11. \A g \in Conns \ {h} : Fine(g)'
  <2> DEFINE undisturbed == o.ok /\ IF fresh THEN may ELSE calm[h]
  <2>1. Disturbs(h, s, undisturbed)
    BY <1>1
  <2> HIDE DEF undisturbed
  <2> QED
    BY <1>2, <1>5, <1>6, <1>7, <1>8, <2>1, OthersFine
<1>12. Fine(h)'
  <2> SUFFICES ASSUME calm'[h]
               PROVE  /\ StateOf(s) \in {"running", "owes", "done"}
                      /\ o.has = [count |-> c, has |-> proc'[h].sent,
                                  done |-> IF StateOf(s) = "done" THEN c ELSE NONE]
                      /\ StateOf(s) # "done" => registered[h]
                      /\ m_proc_counts'[h] = c
                      /\ StateOf(s) = "owes" => m_curr_proc_count' # NONE
    BY <1>2, <1>5, <1>8 DEF Fine
  <2>1. o.ok /\ IF fresh THEN may ELSE calm[h]
    BY <1>1 DEF Disturbs
  <2>2. registered[h] /\ s # "aborted" /\ m_proc_counts'[h] = c
    BY <1>4, <1>7, <2>1 DEF Heard
  <2>3. /\ StateOf(s) \in {"running", "owes", "done"}
        /\ StateOf(s) = "done" <=> s = "done"
        /\ StateOf(s) = "owes" => ~Ends(s)
    BY <2>2 DEF StateOf, Statuses, Ends
  <2>4. o.has = [count |-> c, has |-> proc'[h].sent, done |-> IF s = "done" THEN c ELSE NONE]
    <3>1. CASE fresh
      BY <1>4, <1>5, <2>1, <3>1 DEF After, Begun
    <3>2. CASE ~fresh
      <4>1. /\ m_proc_counts[h] = c
            /\ ranging[h] = [count |-> c, has |-> proc[h].sent, done |-> NONE]
        BY <1>2, <2>1, <3>2 DEF Inv, Undisturbed, WholeProcedure
      <4>2. ranging[h].count = c /\ ranging[h].has = proc[h].sent /\ ranging[h].done = NONE
        BY <4>1
      <4>3. o.has = After(ranging[h], c, s)
        BY <1>4, <2>1, <4>1
      <4> QED
        BY <1>5, <3>2, <4>2, <4>3 DEF After
    <3> QED
      BY <3>1, <3>2
  <2> QED
    BY <1>6, <2>2, <2>3, <2>4
<1>13. Inv'
  <2>1. \A g \in Conns : Fine(g)'
    BY <1>11, <1>12
  <2>2. (WholeProcedure /\ Undisturbed)'
    BY <2>1 DEF Fine, WholeProcedure, Undisturbed
  <2> QED
    BY <1>10, <2>2 DEF Inv
<1>14. ASSUME ranging'[h].done \notin {NONE, ranging[h].done}
       PROVE  proc'[h].state = "done" /\ proc'[h] # proc[h]
  <2>1. s = "done" /\ proc'[h].state = "done"
    BY <1>4, <1>5, <1>8, <1>14 DEF StateOf
  <2>2. proc'[h].count # proc[h].count \/ proc[h].state = "running"
    BY <1>2, <1>5
  <2> QED
    BY <2>1, <2>2
<1> QED
  BY <1>8, <1>13, <1>14

\* A continued result does too, passed on or dropped.
LEMMA ContinueInv ==
    ASSUME Inv, NEW h \in Conns, NEW s \in Statuses, ContinueResult(h, s)
    PROVE  Inv' /\ \A g \in Conns : ranging'[g].done \notin {NONE, ranging[g].done} =>
                       proc'[g].state = "done" /\ proc'[g] # proc[g]
<1>1. /\ proc[h].state = "owes" /\ proc[h].sent < MaxResults
      /\ Reports(h, proc[h].count, s)
      /\ NextCurrent(m_curr_proc_count, s)
      /\ UNCHANGED <<m_proc_counts, m_antenna_paths, registered>>
      /\ (m_curr_proc_count # NONE /\ Copied(h, s)) \/ Dropped(h, s)
  BY DEF ContinueResult
<1>2. TypeOK
  BY DEF Inv
<1>3. /\ proc'[h].count = proc[h].count
      /\ proc'[h].sent = proc[h].sent + 1
      /\ proc'[h].state = StateOf(s)
      /\ \A g \in Conns \ {h} : proc'[g] = proc[g]
      /\ proc' \in [Conns -> [count : Counts \cup {NONE}, sent : 0 .. MaxResults,
                              state : {"idle", "running", "owes", "done", "aborted"}]]
  <2>1. proc[h].count \in Counts \cup {NONE}
    BY <1>2 DEF TypeOK
  <2> QED
    BY <1>1, <1>2, <2>1, Reported
<1>4. m_curr_proc_count' = (IF Ends(s) THEN NONE ELSE m_curr_proc_count)
  BY <1>1 DEF NextCurrent
<1>5. CASE m_curr_proc_count # NONE /\ Copied(h, s)
  <2>1. PICK o \in handle_sub_continue_event(h, m_proc_counts[h], s) :
           /\ ranging' = [ranging EXCEPT ![h] = o.has]
           /\ Disturbs(h, s, o.ok /\ calm[h])
    BY <1>5 DEF Copied
  <2>2. running' \in BOOLEAN
    BY <1>5 DEF Copied
  <2>3. m_proc_counts[h] \in Counts
    BY <1>2 DEF TypeOK
  <2>4. /\ o.ok \in BOOLEAN /\ o.has \in Held
        /\ o.ok => Heard(h, s) /\ o.has = After(ranging[h], m_proc_counts[h], s)
        /\ o.has.done \notin {NONE, ranging[h].done} => s = "done"
    BY <1>2, <2>1, <2>3, ContinueOutcome
  <2>5. /\ ranging'[h] = o.has
        /\ \A g \in Conns \ {h} : ranging'[g] = ranging[g]
        /\ ranging' \in [Conns -> Held]
    BY <1>2, <2>1, <2>4 DEF TypeOK, Held
  <2>6. calm' \in [Conns -> BOOLEAN]
    BY <2>1 DEF Disturbs
  <2>7. TypeOK'
    BY <1>1, <1>2, <1>3, <1>4, <2>2, <2>5, <2>6 DEF TypeOK, Held
  <2>8. \A g \in Conns \ {h} : Fine(g)'
    <3> DEFINE undisturbed == o.ok /\ calm[h]
    <3>1. Disturbs(h, s, undisturbed)
      BY <2>1
    <3> HIDE DEF undisturbed
    <3> QED
      BY <1>1, <1>3, <1>4, <2>5, <3>1, OthersFine
  <2>9. Fine(h)'
    <3> SUFFICES ASSUME calm'[h]
                 PROVE  /\ StateOf(s) \in {"running", "owes", "done"}
                        /\ o.has = [count |-> proc[h].count, has |-> proc[h].sent + 1,
                               done |-> IF StateOf(s) = "done" THEN proc[h].count ELSE NONE]
                        /\ StateOf(s) # "done" =>
                               registered[h] /\ m_proc_counts[h] = proc[h].count
                        /\ StateOf(s) = "owes" => m_curr_proc_count' # NONE
      BY <1>1, <1>3, <2>5 DEF Fine
    <3>1. o.ok /\ calm[h]
      BY <2>1 DEF Disturbs
    <3>2. registered[h] /\ s # "aborted"
      BY <2>4, <3>1 DEF Heard
    <3>3. /\ StateOf(s) \in {"running", "owes", "done"}
          /\ StateOf(s) = "done" <=> s = "done"
          /\ StateOf(s) = "owes" => ~Ends(s)
      BY <3>2 DEF StateOf, Statuses, Ends
    <3>4. /\ m_proc_counts[h] = proc[h].count
          /\ ranging[h] = [count |-> proc[h].count, has |-> proc[h].sent, done |-> NONE]
      BY <1>1, <3>1 DEF Inv, Undisturbed, WholeProcedure
    <3>5. /\ ranging[h].count = proc[h].count /\ ranging[h].has = proc[h].sent
          /\ ranging[h].done = NONE
      BY <3>4
    <3>6. o.has = [count |-> proc[h].count, has |-> proc[h].sent + 1,
                  done |-> IF s = "done" THEN proc[h].count ELSE NONE]
      BY <2>4, <3>1, <3>4, <3>5 DEF After
    <3> QED
      BY <1>4, <1>5, <3>2, <3>3, <3>4, <3>6
  <2>10. Inv'
    <3>1. \A g \in Conns : Fine(g)'
      BY <2>8, <2>9
    <3>2. (WholeProcedure /\ Undisturbed)'
      BY <3>1 DEF Fine, WholeProcedure, Undisturbed
    <3> QED
      BY <2>7, <3>2 DEF Inv
  <2>11. ranging'[h].done \notin {NONE, ranging[h].done} =>
            proc'[h].state = "done" /\ proc'[h] # proc[h]
    BY <1>1, <1>3, <2>4, <2>5 DEF StateOf
  <2> QED
    BY <2>5, <2>10, <2>11
<1>6. CASE Dropped(h, s)
  <2>1. /\ UNCHANGED <<ranging, running>>
        /\ Disturbs(h, s, calm[h] /\ m_curr_proc_count = NONE)
    BY <1>6 DEF Dropped
  <2>2. calm' \in [Conns -> BOOLEAN]
    BY <2>1 DEF Disturbs
  <2>3. TypeOK'
    BY <1>1, <1>2, <1>3, <1>4, <2>1, <2>2 DEF TypeOK
  <2>4. \A g \in Conns \ {h} : Fine(g)'
    <3> DEFINE undisturbed == calm[h] /\ m_curr_proc_count = NONE
    <3>1. Disturbs(h, s, undisturbed)
      BY <2>1
    <3> HIDE DEF undisturbed
    <3> QED
      BY <1>1, <1>3, <1>4, <2>1, <3>1, OthersFine
  <2>5. Fine(h)'
    <3>1. ~(calm[h] /\ m_curr_proc_count = NONE)
      BY <1>1 DEF Inv, Undisturbed
    <3>2. ~calm'[h]
      BY <2>1, <3>1 DEF Disturbs
    <3> QED
      BY <3>2 DEF Fine
  <2>6. Inv'
    <3>1. \A g \in Conns : Fine(g)'
      BY <2>4, <2>5
    <3>2. (WholeProcedure /\ Undisturbed)'
      BY <3>1 DEF Fine, WholeProcedure, Undisturbed
    <3> QED
      BY <2>3, <3>2 DEF Inv
  <2> QED
    BY <2>1, <2>6
<1> QED
  BY <1>1, <1>5, <1>6

----------------------------------------------------------------------------
\* Nothing runs at first, so nothing is undisturbed.
LEMMA InitInv == Init => Inv
<1> SUFFICES ASSUME Init PROVE Inv
  OBVIOUS
<1>1. TypeOK
  BY CsAssumption DEF Init, TypeOK, Counts, Nothing, Absent
<1>2. WholeProcedure /\ Undisturbed
  BY DEF Init, WholeProcedure, Undisturbed
<1> QED
  BY <1>1, <1>2 DEF Inv

\* The steps outside the handler, and the enable event.
LEMMA OutsideInv ==
    ASSUME Inv, NEW h \in Conns,
           Register(h) \/ Unregister(h) \/ Disconnect(h) \/ ProcedureEnable(h)
    PROVE  Inv' /\ \A g \in Conns : ranging'[g].done \in {NONE, ranging[g].done}
<1>1. CASE Register(h)
  BY <1>1 DEF Register, handler, Inv, TypeOK, WholeProcedure, Undisturbed
<1>2. CASE Unregister(h)
  <2>1. Nothing \in Held /\ Nothing.done = NONE
    BY CsAssumption DEF Nothing, Held
  <2>2. TypeOK'
    BY <1>2, <2>1 DEF Unregister, handler, Inv, TypeOK, Held
  <2>3. (WholeProcedure /\ Undisturbed)'
    BY <1>2 DEF Unregister, handler, Inv, TypeOK, WholeProcedure, Undisturbed
  <2> QED
    BY <1>2, <2>1, <2>2, <2>3 DEF Unregister, Inv, TypeOK
<1>3. CASE Disconnect(h)
  <2>1. Nothing \in Held /\ Nothing.done = NONE
    BY CsAssumption DEF Nothing, Held
  <2>2. TypeOK'
    BY <1>3, <2>1, CsAssumption DEF Disconnect, handler, Inv, TypeOK, Held, Absent
  <2>3. (WholeProcedure /\ Undisturbed)'
    BY <1>3 DEF Disconnect, handler, Inv, TypeOK, WholeProcedure, Undisturbed
  <2> QED
    BY <1>3, <2>1, <2>2, <2>3 DEF Disconnect, Inv, TypeOK
<1>4. CASE ProcedureEnable(h)
  <2>1. UNCHANGED <<m_proc_counts, m_curr_proc_count, running, registered, ranging, proc, calm>>
    BY <1>4 DEF ProcedureEnable, external
  <2>2. m_antenna_paths' \in [Conns -> {0, 1}]
    BY <1>4 DEF ProcedureEnable, handle_procedure_enable, CS_calcAntPathsMask, Inv, TypeOK
  <2>3. TypeOK'
    BY <2>1, <2>2 DEF Inv, TypeOK
  <2>4. (WholeProcedure /\ Undisturbed)'
    BY <2>1 DEF Inv, WholeProcedure, Undisturbed
  <2> QED
    BY <2>1, <2>3, <2>4 DEF Inv
<1> QED
  BY <1>1, <1>2, <1>3, <1>4

\* Every step keeps the invariant and tells no end that was not one.
LEMMA NextInv ==
    ASSUME Inv, [Next]_vars
    PROVE  Inv' /\ \A g \in Conns : ranging'[g].done \notin {NONE, ranging[g].done} =>
                       proc'[g].state = "done" /\ proc'[g] # proc[g]
<1>1. CASE UNCHANGED vars
  BY <1>1 DEF vars, handler, external, Inv, TypeOK, WholeProcedure, Undisturbed
<1>2. ASSUME NEW h \in Conns, NEW c \in Counts, NEW s \in Statuses, SubeventResult(h, c, s)
      PROVE  Inv' /\ \A g \in Conns : ranging'[g].done \notin {NONE, ranging[g].done} =>
                       proc'[g].state = "done" /\ proc'[g] # proc[g]
  BY <1>2, SubeventInv
<1>3. ASSUME NEW h \in Conns, NEW s \in Statuses, ContinueResult(h, s)
      PROVE  Inv' /\ \A g \in Conns : ranging'[g].done \notin {NONE, ranging[g].done} =>
                       proc'[g].state = "done" /\ proc'[g] # proc[g]
  BY <1>3, ContinueInv
<1>4. ASSUME NEW h \in Conns,
             Register(h) \/ Unregister(h) \/ Disconnect(h) \/ ProcedureEnable(h)
      PROVE  Inv' /\ \A g \in Conns : ranging'[g].done \in {NONE, ranging[g].done}
  BY <1>4, OutsideInv
<1> QED
  BY <1>1, <1>2, <1>3, <1>4 DEF Next

\* Throughout, an undisturbed procedure is the one kept for its handle, its peer
\* listens, and the gate is open while it owes results.
THEOREM InvCorrect == Spec => []Inv
<1>1. Inv /\ [Next]_vars => Inv'
  BY NextInv
<1> QED
  BY <1>1, InitInv, PTL DEF Spec

\* The variables of the handler keep their types, for any connections, counters
\* and results.
THEOREM TypeCorrect == Spec => []TypeOK
<1>1. Inv => TypeOK
  BY DEF Inv
<1> QED
  BY <1>1, InvCorrect, PTL

\* However the events of any number of connections interleave, the profile has
\* the whole of a procedure that nothing disturbed.
THEOREM WholeCorrect == Spec => []WholeProcedure
<1>1. Inv => WholeProcedure
  BY DEF Inv
<1> QED
  BY <1>1, InvCorrect, PTL

\* The profile is told an end only by the event that reports it.
THEOREM DoneCorrect == Spec => DoneOnlyWhenDone
<1>1. Inv /\ [Next]_vars =>
        [\A h \in Conns : ranging'[h].done \notin {NONE, ranging[h].done} =>
                             proc'[h].state = "done" /\ proc'[h] # proc[h]]_vars
  BY NextInv
<1> QED
  BY <1>1, InvCorrect, PTL DEF Spec, DoneOnlyWhenDone
=============================================================================
