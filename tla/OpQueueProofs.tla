--------------------------- MODULE OpQueueProofs ---------------------------
(***************************************************************************)
(* For any operations: as long as ble_opq_process is only called while     *)
(* nothing runs, one operation at a time is with the stack, and none that  *)
(* waits is lost to the one that runs.                                     *)
(***************************************************************************)
EXTENDS OpQueue, TLAPS

\* The loop of ble_opq_process only goes on while nothing runs: this is what
\* OneAtATime needs to be inductive.
LoopIdle == caller = "process" => running_op_ptr = NULL

Inv == TypeOK /\ OneAtATime /\ LoopIdle

----------------------------------------------------------------------------
\* What perform_command leaves behind when nothing runs: it waits exactly if
\* it handed the operation to the stack.
LEMMA Performed ==
    ASSUME NEW o \in Ops, NEW w \in BOOLEAN,
           TypeOK, OneAtATime, running_op_ptr = NULL, perform_command(o, w)
    PROVE  /\ current_state' \subseteq States
           /\ running_op_ptr' \in Ops \cup {NULL}
           /\ stack' \subseteq Ops
           /\ stack' = {running_op_ptr'} \ {NULL}
           /\ ~w => running_op_ptr' = NULL
<1>1. stack = {}
  BY DEF OneAtATime
<1>2. CASE Run(o) /\ w = TRUE
  BY <1>1, <1>2, QueueAssumption DEF Run, TypeOK
<1>3. CASE EnterTarget(o) /\ w = FALSE
  BY <1>1, <1>3, QueueAssumption DEF EnterTarget, TypeOK
<1>4. CASE RunnerFails(o) /\ w = FALSE
  BY <1>1, <1>4 DEF RunnerFails, TypeOK
<1>5. CASE Reached(o) /\ NotDone(o) /\ w = FALSE
  BY <1>1, <1>5 DEF NotDone, TypeOK
<1>6. CASE Refuse(o) /\ w = (running_op_ptr # NULL)
  BY <1>1, <1>6 DEF Refuse, NotDone, TypeOK
<1> QED
  BY <1>2, <1>3, <1>4, <1>5, <1>6 DEF perform_command

\* The empty queue is in the invariant.
LEMMA InitInv == Init => Inv
  BY QueueAssumption DEF Init, Inv, TypeOK, OneAtATime, LoopIdle

----------------------------------------------------------------------------
\* An operation started with nothing running is the only one with the stack.
LEMMA StartInv ==
    ASSUME Inv, NEW o \in Ops, Start(o)
    PROVE  Inv'
<1>1. PICK w \in BOOLEAN : perform_command(o, w)
  BY DEF Start
<1>2. running_op_ptr = NULL /\ caller' = "idle"
  BY DEF Start
<1>3. op_list' = op_list /\ heap' = heap
  BY DEF Start
<1>4. /\ current_state' \subseteq States
      /\ running_op_ptr' \in Ops \cup {NULL}
      /\ stack' \subseteq Ops
      /\ stack' = {running_op_ptr'} \ {NULL}
  BY <1>1, <1>2, Performed DEF Inv
<1>5. TypeOK'
  BY <1>2, <1>3, <1>4 DEF Inv, TypeOK
<1>6. OneAtATime'
  BY <1>4 DEF OneAtATime
<1>7. LoopIdle'
  BY <1>2 DEF LoopIdle
<1> QED
  BY <1>5, <1>6, <1>7 DEF Inv

\* An operation that joins the queue, or finds no memory, leaves the running one alone.
LEMMA PushInv ==
    ASSUME Inv, NEW o \in Ops, Push(o)
    PROVE  Inv'
<1>1. TypeOK'
  <2>1. op_list \in Seq(Ops) /\ heap \in 0 .. Heap
    BY DEF Inv, TypeOK
  <2>2. CASE heap < Heap /\ heap' = heap + 1 /\ op_list' = Append(op_list, o)
    <3>1. op_list' \in Seq(Ops)
      BY <2>1, <2>2
    <3>2. heap' \in 0 .. Heap
      BY <2>1, <2>2, QueueAssumption
    <3> QED
      BY <2>2, <3>1, <3>2 DEF Push, Inv, TypeOK
  <2>3. CASE UNCHANGED <<heap, op_list>>
    BY <2>1, <2>3 DEF Push, Inv, TypeOK
  <2> QED
    BY <2>2, <2>3 DEF Push, HasMemory
<1>2. OneAtATime'
  BY DEF Push, Inv, OneAtATime
<1>3. LoopIdle'
  BY DEF Push, Inv, LoopIdle
<1> QED
  BY <1>1, <1>2, <1>3 DEF Inv

\* ble_opq_process is called only while nothing runs.
LEMMA ProcessInv ==
    ASSUME ~Eager, Inv, Process
    PROVE  Inv'
  BY DEF Process, Inv, TypeOK, OneAtATime, LoopIdle

\* Its loop performs operations until one waits, and then stops.
LEMMA PopInv ==
    ASSUME Inv, Pop
    PROVE  Inv'
<1>1. CASE op_list = <<>>
  BY <1>1 DEF Pop, Inv, TypeOK, OneAtATime, LoopIdle
<1>2. CASE op_list # <<>>
  <2>1. Head(op_list) \in Ops /\ Tail(op_list) \in Seq(Ops)
    BY <1>2 DEF Inv, TypeOK
  <2>2. PICK w \in BOOLEAN : /\ perform_command(Head(op_list), w)
                             /\ caller' = IF w THEN "idle" ELSE "process"
    BY <1>2 DEF Pop
  <2>3. running_op_ptr = NULL
    BY DEF Pop, Inv, LoopIdle
  <2>4. /\ current_state' \subseteq States
        /\ running_op_ptr' \in Ops \cup {NULL}
        /\ stack' \subseteq Ops
        /\ stack' = {running_op_ptr'} \ {NULL}
        /\ ~w => running_op_ptr' = NULL
    BY <2>1, <2>2, <2>3, Performed DEF Inv
  <2>5. TypeOK'
    BY <1>2, <2>1, <2>2, <2>4 DEF Pop, Inv, TypeOK
  <2>6. OneAtATime' /\ LoopIdle'
    BY <2>2, <2>4 DEF OneAtATime, LoopIdle
  <2> QED
    BY <2>5, <2>6 DEF Inv
<1> QED
  BY <1>1, <1>2

\* The stack's answer to an operation leaves none running.
LEMMA CompleteInv ==
    ASSUME Inv, NEW o \in Ops, Complete(o)
    PROVE  Inv'
  BY QueueAssumption DEF Complete, NoneRunning, Inv, TypeOK, OneAtATime, LoopIdle

\* A new state leaves the queue and the running operation alone.
LEMMA SetStateInv ==
    ASSUME Inv, NEW s \in States, SetState(s)
    PROVE  Inv'
  BY DEF SetState, Inv, TypeOK, OneAtATime, LoopIdle

----------------------------------------------------------------------------
\* Every step keeps the invariant, if the queue is processed only when idle.
LEMMA StepInv == ASSUME ~Eager PROVE Inv /\ [Next]_vars => Inv'
<1> SUFFICES ASSUME Inv, [Next]_vars PROVE Inv'
  OBVIOUS
<1>1. CASE UNCHANGED vars
  BY <1>1 DEF vars, Inv, TypeOK, OneAtATime, LoopIdle
<1>2. CASE Next
  BY <1>2, StartInv, PushInv, CompleteInv, ProcessInv, PopInv, SetStateInv DEF Next
<1> QED
  BY <1>1, <1>2

\* For every value of the constants: in every state the variables of the queue
\* have their types; no more nodes are in use than the heap has.
THEOREM TypeCorrect == ASSUME ~Eager PROVE Spec => []TypeOK
<1>1. Inv => TypeOK
  BY DEF Inv
<1> QED
  BY InitInv, StepInv, <1>1, PTL DEF Spec

\* For any set of operations: running_op_ptr is the one operation that is with
\* the stack, if any.
THEOREM OneAtATimeCorrect == ASSUME ~Eager PROVE Spec => []OneAtATime
<1>1. Inv => OneAtATime
  BY DEF Inv
<1> QED
  BY InitInv, StepInv, <1>1, PTL DEF Spec

\* Only the loop of ble_opq_process takes an operation out of the queue, and it
\* does not run while another operation does.
LEMMA WaitsStep ==
    ASSUME Inv, Next, NEW o \in Ops, Queued(o), running_op_ptr # NULL
    PROVE  Queued(o)' \/ Reached(o)
<1>1. ~Pop
  BY DEF Pop, Inv, LoopIdle
<1>2. CASE op_list' = op_list
  BY <1>2 DEF Queued
<1>3. CASE \E p \in Ops : Push(p)
  <2>1. PICK p \in Ops : Push(p)
    BY <1>3
  <2>2. PICK i \in DOMAIN op_list : op_list[i] = o
    BY DEF Queued
  <2>3. op_list' = op_list \/ op_list' = Append(op_list, p)
    BY <2>1 DEF Push
  <2>4. op_list \in Seq(Ops)
    BY DEF Inv, TypeOK
  <2>5. i \in DOMAIN op_list' /\ op_list'[i] = o
    BY <2>1, <2>2, <2>3, <2>4
  <2> QED
    BY <2>5 DEF Queued
<1> QED
  BY <1>1, <1>2, <1>3 DEF Next, Start, Complete, Process, SetState

\* For any set of operations: an operation that waits for the one that runs is
\* not dropped (ble_op_queue.c:48).
THEOREM WaitsCorrect == ASSUME ~Eager PROVE Spec => WaitsItsTurn
<1>1. Inv /\ [Next]_vars =>
        [\A o \in Ops : Queued(o) /\ running_op_ptr # NULL => Queued(o)' \/ Reached(o)]_vars
  BY WaitsStep
<1> QED
  BY InitInv, StepInv, <1>1, PTL DEF Spec, WaitsItsTurn
=============================================================================
