------------------------------ MODULE OpQueue ------------------------------
(***************************************************************************)
(* module/ble/adv_scan/ble_op_queue.c: BLE operations that wait for their  *)
(* turn.  One task calls it.  An operation has a state it leads to and the *)
(* states it may start from; its runner asks the stack for it, and the     *)
(* stack reports later, which the task passes on with ble_opq_complete.    *)
(***************************************************************************)
EXTENDS Naturals, FiniteSets, Sequences

CONSTANTS
    Ops,            \* the operations (ble_op_t objects of the caller)
    Target,         \* Target[o]: target_state, a set of state bits
    Precondition,   \* Precondition[o], likewise
    Immediate,      \* the operations whose runner_callback is NULL
    States,         \* the bits of a bit_state_t
    Initial,        \* the current_state given to ble_opq_init
    Heap,           \* the nodes the heap has room for
    Eager,          \* the task calls ble_opq_process while an operation runs
    NULL

ASSUME QueueAssumption ==
    /\ Target \in [Ops -> SUBSET States]
    /\ Precondition \in [Ops -> SUBSET States]
    /\ Immediate \subseteq Ops
    /\ Initial \subseteq States
    /\ Heap \in Nat
    /\ Eager \in BOOLEAN
    /\ NULL \notin Ops

VARIABLES
    op_list,            \* the operations in the list
    heap,               \* the list nodes allocated
    current_state,
    running_op_ptr,
    caller,             \* "idle", "process" (in its loop) or "fault"
    stack               \* the operations the stack has taken and not reported

vars == <<op_list, heap, current_state, running_op_ptr, caller, stack>>

bit_state_match(s, mask) == s \cap mask # {}

Queued(o) == \E i \in DOMAIN op_list : op_list[i] = o

Init ==
    /\ op_list = <<>>
    /\ heap = 0
    /\ current_state = Initial
    /\ running_op_ptr = NULL
    /\ caller = "idle"
    /\ stack = {}

----------------------------------------------------------------------------
\* perform_command: each outcome with the value it returns, wait_event.  The
\* runner's result is the stack's choice, and only RET_OK makes a difference.
Reached(o) == bit_state_match(current_state, Target[o])
Ready(o)   == bit_state_match(current_state, Precondition[o])

Run(o) == /\ ~Reached(o) /\ Ready(o) /\ o \notin Immediate
          /\ running_op_ptr' = o
          /\ stack' = stack \cup {o}
          /\ UNCHANGED current_state

EnterTarget(o) == /\ ~Reached(o) /\ Ready(o) /\ o \in Immediate
                  /\ current_state' = Target[o]
                  /\ UNCHANGED <<running_op_ptr, stack>>

RunnerFails(o) == /\ ~Reached(o) /\ Ready(o) /\ o \notin Immediate
                  /\ UNCHANGED <<current_state, running_op_ptr, stack>>

NotDone(o) == UNCHANGED <<current_state, running_op_ptr, stack>>
Refuse(o)  == ~Reached(o) /\ ~Ready(o) /\ NotDone(o)

NeverWaits(o, wait_event) ==
    \/ Run(o) /\ wait_event = FALSE
    \/ EnterTarget(o) /\ wait_event = FALSE
    \/ RunnerFails(o) /\ wait_event = FALSE
    \/ Reached(o) /\ NotDone(o) /\ wait_event = FALSE
    \/ Refuse(o) /\ wait_event = (running_op_ptr # NULL)
perform_command(o, wait_event) ==
    \/ Run(o) /\ wait_event = TRUE
    \/ EnterTarget(o) /\ wait_event = FALSE
    \/ RunnerFails(o) /\ wait_event = FALSE
    \/ Reached(o) /\ NotDone(o) /\ wait_event = FALSE
    \/ Refuse(o) /\ wait_event = (running_op_ptr # NULL)

----------------------------------------------------------------------------
\* ble_opq_start: at once if nothing runs or waits, or behind the others.  The
\* node is used without a test, so a full heap ends in a write through NULL.
Granted   == TRUE
HasMemory == heap < Heap

Start(o) ==
    /\ caller = "idle" /\ ~Queued(o) /\ o \notin stack
    /\ running_op_ptr = NULL /\ op_list = <<>>
    /\ \E w \in BOOLEAN : perform_command(o, w)
    /\ UNCHANGED <<op_list, heap, caller>>

Push(o) ==
    /\ caller = "idle" /\ ~Queued(o) /\ o \notin stack
    /\ running_op_ptr # NULL \/ op_list # <<>>
    /\ \/ HasMemory /\ heap' = heap + 1 /\ op_list' = Append(op_list, o) /\ UNCHANGED caller
       \/ ~HasMemory /\ caller' = "fault" /\ UNCHANGED <<heap, op_list>>
    /\ UNCHANGED <<current_state, running_op_ptr, stack>>

\* ble_opq_process: pop and perform until one has to wait for its event.  No
\* node is freed: running_op_ptr may point into it.
Process ==
    /\ caller = "idle" /\ caller' = "process"
    /\ Eager \/ running_op_ptr = NULL
    /\ UNCHANGED <<op_list, heap, current_state, running_op_ptr, stack>>

Pop ==
    /\ caller = "process"
    /\ \/ op_list = <<>> /\ caller' = "idle"
          /\ UNCHANGED <<op_list, current_state, running_op_ptr, stack>>
       \/ /\ op_list # <<>> /\ op_list' = Tail(op_list)
          /\ \E w \in BOOLEAN : perform_command(Head(op_list), w)
                                /\ caller' = IF w THEN "idle" ELSE "process"
    /\ UNCHANGED heap

\* ble_opq_complete, when the stack reports an operation.
StillRunning == UNCHANGED running_op_ptr
NoneRunning  == running_op_ptr' = NULL

Complete(o) ==
    /\ caller = "idle" /\ o \in stack
    /\ stack' = stack \ {o}
    /\ current_state' = Target[o]
    /\ NoneRunning
    /\ UNCHANGED <<op_list, heap, caller>>

\* ble_opq_set_state, when the device changes state by itself.
SetState(s) ==
    /\ caller = "idle"
    /\ current_state' = {s}
    /\ UNCHANGED <<op_list, heap, running_op_ptr, caller, stack>>

----------------------------------------------------------------------------
Next == \/ \E o \in Ops : Start(o) \/ Push(o) \/ Complete(o)
        \/ Process \/ Pop
        \/ \E s \in States : SetState(s)

Spec == Init /\ [][Next]_vars

\* The task goes on with a loop it is in, and calls ble_opq_process again when
\* it may; the stack reports every operation.
FairSpec == /\ Spec
            /\ WF_vars(Process) /\ WF_vars(Pop)
            /\ \A o \in Ops : WF_vars(Complete(o))

----------------------------------------------------------------------------
TypeOK ==
    /\ op_list \in Seq(Ops)
    /\ heap \in 0 .. Heap
    /\ current_state \subseteq States
    /\ running_op_ptr \in Ops \cup {NULL}
    /\ caller \in {"idle", "process", "fault"}
    /\ stack \subseteq Ops

\* running_op_ptr is the one operation the stack is working on: the stack is
\* never asked for a second one, and the report of one never ends another.
OneAtATime == stack = {running_op_ptr} \ {NULL}

\* "If another operation is ongoing, wait its event" (ble_op_queue.c:48): while
\* one runs, an operation only leaves the queue when its target is reached.
WaitsItsTurn == [][\A o \in Ops :
    Queued(o) /\ running_op_ptr # NULL => Queued(o)' \/ Reached(o)]_vars

\* An operation does not stay in the queue for ever, whatever runners fail and
\* whatever states come up meanwhile, until the heap has run out of nodes.
QueueDrains == \A o \in Ops : Queued(o) ~> ~Queued(o) \/ caller = "fault"
=============================================================================
