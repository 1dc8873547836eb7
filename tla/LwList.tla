------------------------------- MODULE LwList -------------------------------
(***************************************************************************)
(* lib/linked_list/lw_list.c, and what looks through a list of either kind *)
(* while other tasks change it.  lw_list runs linked_list's macros on the  *)
(* same fields under the same lock, so LinkedList's actions are its own;   *)
(* its elements are the caller's, and alloc and free stand for the caller  *)
(* taking one into use and giving it up.  linked_list_exist looks under    *)
(* the lock; lw_list_exist, and the loops of LW_LIST_FOR_EACH, of          *)
(* LINKED_LIST_FOR_EACH and of the generated find functions, do not.       *)
(***************************************************************************)
EXTENDS LinkedList

CONSTANT Walks      \* Walks[t]: the functions task t looks with

WalkOps == {"linked_list_exist", "lw_list_exist"}

ASSUME WalkAssumption == Walks \in [Tasks -> SUBSET WalkOps]

VARIABLES
    target,     \* the node t asks for
    p_iter,     \* the local of LIST_NODE_EXISTS
    found,      \* what the call answers
    seen        \* not of the program: what was so at some moment of the call

walk   == <<target, p_iter, found>>
lwVars == <<vars, walk, seen>>

LwInit ==
    /\ Init
    /\ target = [t \in Tasks |-> NULL]
    /\ p_iter = [t \in Tasks |-> NULL]
    /\ found = [t \in Tasks |-> FALSE]
    /\ seen = [t \in Tasks |-> {}]

----------------------------------------------------------------------------
lw_list_insert_head(t) == op[t] = "insert_head" /\ (InsertRead(t) \/ InsertWrite(t))
lw_list_insert_tail(t) == op[t] = "insert_tail" /\ (InsertRead(t) \/ InsertWrite(t))
lw_list_remove_head(t) == op[t] = "remove_head" /\ (RemoveRead(t) \/ RemoveWrite(t))
lw_list_remove_tail(t) == op[t] = "remove_tail" /\ (RemoveRead(t) \/ RemoveWrite(t))
lw_list_remove_node(t) == op[t] = "remove_node" /\ RemoveWrite(t)

Elements(t) == AllocRead(t) \/ AllocWrite(t) \/ FreeArms(t) \/ FreeUsed(t)

Change(t) ==
    /\ \/ Call(t) \/ Lock(t) \/ (Unlock(t) /\ op[t] \notin WalkOps)
       \/ Elements(t)
       \/ lw_list_insert_head(t) \/ lw_list_insert_tail(t)
       \/ lw_list_remove_head(t) \/ lw_list_remove_tail(t) \/ lw_list_remove_node(t)
    /\ UNCHANGED walk

----------------------------------------------------------------------------
\* linked_list_exist and lw_list_exist: any node, the task's own too.
WalkCall(t) ==
    /\ \E o \in Walks[t], n \in Nodes :
        /\ op' = [op EXCEPT ![t] = o]
        /\ target' = [target EXCEPT ![t] = n]
        /\ Goto(t, "idle", IF o = "linked_list_exist" THEN "lock" ELSE "start")
    /\ UNCHANGED <<links, used, last_slot, sem, p_node, p_iter, found>>

\* LIST_NODE_EXISTS, one read of the list at a time
WalkHead(t) ==
    /\ op[t] \in WalkOps
    /\ Goto(t, "read", "walk") \/ Goto(t, "start", "walk")
    /\ p_iter' = [p_iter EXCEPT ![t] = head]
    /\ UNCHANGED <<links, used, last_slot, sem, op, p_node, target, found>>

WalkOn(t) ==
    /\ pc[t] = "walk" /\ p_iter[t] # NULL /\ p_iter[t] # target[t]
    /\ p_iter' = [p_iter EXCEPT ![t] = next[p_iter[t]]]
    /\ UNCHANGED <<vars, target, found>>

WalkEnd(t) ==
    /\ Goto(t, "walk", IF op[t] = "linked_list_exist" THEN "unlock" ELSE "answer")
    /\ \/ p_iter[t] = NULL /\ UNCHANGED found
       \/ p_iter[t] # NULL /\ p_iter[t] = target[t] /\ found' = [found EXCEPT ![t] = TRUE]
    /\ UNCHANGED <<links, used, last_slot, sem, op, p_node, target, p_iter>>

WalkReturn(t) ==
    /\ \/ Unlock(t) /\ op[t] = "linked_list_exist"
       \/ /\ Goto(t, "answer", "idle")
          /\ op' = [op EXCEPT ![t] = "none"]
          /\ UNCHANGED <<links, used, last_slot, sem, p_node>>
    /\ target' = [target EXCEPT ![t] = NULL]
    /\ p_iter' = [p_iter EXCEPT ![t] = NULL]
    /\ found' = [found EXCEPT ![t] = FALSE]

Look(t) == WalkCall(t) \/ WalkHead(t) \/ WalkOn(t) \/ WalkEnd(t) \/ WalkReturn(t)

----------------------------------------------------------------------------
Listed   == {Chain[i] : i \in 1 .. count}
Observed(t) ==
    {IF target[t] \in Listed THEN "there" ELSE "not there"}
      \cup (IF p_iter[t] \in Listed \cup {NULL} THEN {} ELSE {"taken away"})
      \cup (IF WellLinked THEN {} ELSE {"damaged"})

Watch == seen' = [t \in Tasks |-> IF (op[t] \in WalkOps)' THEN seen[t] \cup Observed(t)' ELSE {}]

LwNext == /\ \E t \in Tasks : Change(t) \/ Look(t)
          /\ Watch

LwSpec == LwInit /\ [][LwNext]_lwVars

----------------------------------------------------------------------------
\* A node that exist finds was in the list at some moment of the call; one that
\* it does not find was not, at some moment.  Without the lock this needs that
\* no other task took the node the walk stood on out of the list: its arm is
\* cleared, and the walk ends in the middle.  Nothing is said of a list that
\* linked_list_remove_node has damaged.
ExistRight == \A t \in Tasks :
    /\ op[t] \in WalkOps /\ pc[t] \in {"unlock", "answer"}
    /\ "damaged" \notin seen[t]
    => IF found[t] THEN "there" \in seen[t]
       ELSE \/ "not there" \in seen[t]
            \/ op[t] = "lw_list_exist" /\ "taken away" \in seen[t]
=============================================================================
