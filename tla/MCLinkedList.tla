---------------------------- MODULE MCLinkedList ---------------------------
(***************************************************************************)
(* Values of LinkedList's constants for TLC.                               *)
(***************************************************************************)
EXTENDS LinkedList

CONSTANTS t1, t2, t3

\* What msg_bus.c and ble_op_queue.c use, and both ends; one task may sort.
QueueCalls == [t \in Tasks |-> Puts \cup Pops \cup {"alloc", "free"}
                                 \cup (IF t = t1 THEN {"sort"} ELSE {})]
NoSort     == [t \in Tasks |-> Ops \ {"sort"}]
=============================================================================
