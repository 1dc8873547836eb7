---------------------------- MODULE LinkedList -----------------------------
(***************************************************************************)
(* lib/linked_list: a doubly linked list of nodes from an array or the     *)
(* heap, behind a mutex.  An operation is cut at the lock, at what it      *)
(* reads under it, at what it writes from that, and at the unlock;         *)
(* linked_list_free_node takes no lock and is cut between its stores.      *)
(***************************************************************************)
EXTENDS Naturals, FiniteSets, Sequences

CONSTANTS
    Tasks,          \* the tasks that share the list
    Depth,          \* linked_list_t.depth; for a heap list, the nodes the heap has room for
    SizeMax,        \* the largest size_t
    NULL,           \* no node
    ArrayBased,     \* linked_list_t._array_based
    Calls           \* Calls[t]: the functions task t calls

Nodes == 0 .. Depth - 1
Pops  == {"remove_head", "remove_tail"}
Puts  == {"insert_head", "insert_tail"}
Ops   == Pops \cup Puts \cup {"alloc", "free", "remove_node", "sort"}

ASSUME ListAssumption ==
    /\ Depth \in Nat \ {0}
    /\ SizeMax \in Nat /\ Depth < SizeMax
    /\ NULL \notin Nodes
    /\ ArrayBased \in BOOLEAN
    /\ Calls \in [Tasks -> SUBSET Ops]

VARIABLES
    head, tail, count,  \* linked_list_t
    next, prev,         \* list_node_t.next and .prev of each node
    used,               \* the allocated nodes: opt.used, or malloc'ed
    last_slot,          \* linked_list_t._last_slot_index
    sem,                \* linked_list_t.mutex
    pc,                 \* where each task is
    op,                 \* the function it is in
    p_node              \* the node it has been given or is about to take

links == <<head, tail, count, next, prev>>
vars  == <<links, used, last_slot, sem, pc, op, p_node>>

PCs == {"idle", "lock", "read", "write", "unlock", "free_used", "sort_lock"}

Init ==
    /\ head = NULL /\ tail = NULL /\ count = 0
    /\ next = [n \in Nodes |-> NULL]
    /\ prev = [n \in Nodes |-> NULL]
    /\ used = {}
    /\ last_slot = 0
    /\ sem = 1
    /\ pc = [t \in Tasks |-> "idle"]
    /\ op = [t \in Tasks |-> "none"]
    /\ p_node = [t \in Tasks |-> NULL]

Inc(c) == IF c = SizeMax THEN 0 ELSE c + 1
Dec(c) == IF c = 0 THEN SizeMax ELSE c - 1

Goto(t, from, to) == pc[t] = from /\ pc' = [pc EXCEPT ![t] = to]
Hold(t, n)        == p_node' = [p_node EXCEPT ![t] = n]

----------------------------------------------------------------------------
\* A task pushes or frees the node it has, and allocates or pops when it has
\* none.  It names a node of the list to remove_node ("user should check").
InList(n) == n \in used /\ \A t \in Tasks : p_node[t] # n

Call(t) ==
    /\ \E o \in Calls[t] :
        /\ op' = [op EXCEPT ![t] = o]
        /\ Goto(t, "idle", IF o = "free" THEN "write" ELSE "lock")
        /\ \/ o \in Puts \cup {"free"} /\ p_node[t] # NULL /\ UNCHANGED p_node
           \/ o \in Pops \cup {"alloc", "sort"} /\ p_node[t] = NULL /\ UNCHANGED p_node
           \/ o = "remove_node" /\ p_node[t] = NULL /\ \E n \in Nodes : InList(n) /\ Hold(t, n)
    /\ UNCHANGED <<links, used, last_slot, sem>>

\* hal_mutex_lock, hal_mutex_unlock.  linked_list_sort locks, then
\* qsort_array_list locks the same semaphore again: no step leads on from there.
NoWait == TRUE
Free   == sem > 0

Lock(t) ==
    /\ Free
    /\ sem' = sem - 1
    /\ \/ op[t] # "sort" /\ Goto(t, "lock", "read")
       \/ op[t] = "sort" /\ Goto(t, "lock", "sort_lock")
    /\ UNCHANGED <<links, used, last_slot, op, p_node>>

Unlock(t) ==
    /\ Goto(t, "unlock", "idle")
    /\ sem' = sem + 1
    /\ op' = [op EXCEPT ![t] = "none"]
    /\ UNCHANGED <<links, used, last_slot, p_node>>

----------------------------------------------------------------------------
\* alloc_array_node looks for a free node from the last one it gave out, once
\* around; malloc gives any, or none.
Slot(i) == (last_slot + i) % Depth
FirstFreeSlot(n) == \E i \in Nodes : /\ n = Slot(i) /\ n \notin used
                                     /\ \A j \in 0 .. i - 1 : Slot(j) \in used

AllocStopsShort(t) ==
    /\ op[t] = "alloc"
    /\ \/ /\ \E n \in Nodes \ used : (ArrayBased => FirstFreeSlot(n)) /\ Hold(t, n)
          /\ Goto(t, "read", "write")
       \/ /\ ArrayBased => \A i \in 0 .. Depth - 2 : Slot(i) \in used
          /\ Goto(t, "read", "unlock")
          /\ UNCHANGED p_node
    /\ UNCHANGED <<links, used, last_slot, sem, op>>
AllocRead(t) ==
    /\ op[t] = "alloc"
    /\ \/ /\ \E n \in Nodes \ used : (ArrayBased => FirstFreeSlot(n)) /\ Hold(t, n)
          /\ Goto(t, "read", "write")
       \/ /\ ArrayBased => used = Nodes
          /\ Goto(t, "read", "unlock")
          /\ UNCHANGED p_node
    /\ UNCHANGED <<links, used, last_slot, sem, op>>

AllocWrite(t) ==
    /\ op[t] = "alloc" /\ Goto(t, "write", "unlock")
    /\ used' = used \cup {p_node[t]}
    /\ last_slot' = IF ArrayBased THEN p_node[t] ELSE last_slot
    /\ UNCHANGED <<links, sem, op, p_node>>

\* linked_list_free_node: first the arms, then the used flag or free().
FreeArms(t) ==
    /\ op[t] = "free" /\ Goto(t, "write", "free_used")
    /\ next' = [next EXCEPT ![p_node[t]] = NULL]
    /\ prev' = [prev EXCEPT ![p_node[t]] = NULL]
    /\ UNCHANGED <<head, tail, count, used, last_slot, sem, op, p_node>>

FreeUsed(t) ==
    /\ Goto(t, "free_used", "idle")
    /\ used' = used \ {p_node[t]}
    /\ op' = [op EXCEPT ![t] = "none"]
    /\ Hold(t, NULL)
    /\ UNCHANGED <<links, last_slot, sem>>

----------------------------------------------------------------------------
\* LIST_INSERT_HEAD and LIST_INSERT_TAIL: the node's arms, then the list's.
InsertRead(t) ==
    LET n == p_node[t] IN
    /\ op[t] \in Puts /\ Goto(t, "read", "write")
    /\ next' = [next EXCEPT ![n] = IF op[t] = "insert_head" THEN head ELSE NULL]
    /\ prev' = [prev EXCEPT ![n] = IF op[t] = "insert_head" THEN NULL
                                   ELSE IF head = NULL THEN NULL ELSE tail]
    /\ UNCHANGED <<head, tail, count, used, last_slot, sem, op, p_node>>

InsertEmpty(n) == head = NULL /\ head' = n /\ tail' = n /\ UNCHANGED <<next, prev>>

InsertHead(n) == /\ head # NULL
                 /\ prev' = [prev EXCEPT ![head] = n]
                 /\ head' = n
                 /\ UNCHANGED <<tail, next>>

InsertTail(n) == /\ head # NULL /\ tail # NULL
                 /\ next' = [next EXCEPT ![tail] = n]
                 /\ tail' = n
                 /\ UNCHANGED <<head, prev>>

InsertWrite(t) ==
    LET n == p_node[t] IN
    /\ Goto(t, "write", "unlock")
    /\ \/ op[t] \in Puts /\ InsertEmpty(n)
       \/ op[t] = "insert_head" /\ InsertHead(n)
       \/ op[t] = "insert_tail" /\ InsertTail(n)
    /\ count' = Inc(count)
    /\ Hold(t, NULL)
    /\ UNCHANGED <<used, last_slot, sem, op>>

\* linked_list_remove_head, linked_list_remove_tail: NULL on an empty list.
PopLeaksMutex(t) ==
    LET n == IF op[t] = "remove_head" THEN head ELSE tail IN
    /\ op[t] \in Pops
    /\ Goto(t, "read", IF n = NULL THEN "idle" ELSE "write")
    /\ Hold(t, n)
    /\ UNCHANGED <<links, used, last_slot, sem, op>>
RemoveRead(t) ==
    LET n == IF op[t] = "remove_head" THEN head ELSE tail IN
    /\ op[t] \in Pops
    /\ Goto(t, "read", IF n = NULL THEN "unlock" ELSE "write")
    /\ Hold(t, n)
    /\ UNCHANGED <<links, used, last_slot, sem, op>>

RemoveLast == head = tail /\ head' = NULL /\ tail' = NULL /\ UNCHANGED <<next, prev>>

RemoveHead(n) == /\ head' = next[n]
                 /\ prev' = [prev EXCEPT ![next[n]] = NULL]
                 /\ next' = [next EXCEPT ![n] = NULL]
                 /\ UNCHANGED tail

LeavesArm(n)  == /\ tail' = prev[n]
                 /\ prev' = [prev EXCEPT ![n] = NULL]
                 /\ UNCHANGED <<head, next>>
RemoveTail(n) == /\ tail' = prev[n]
                 /\ next' = [next EXCEPT ![prev[n]] = NULL]
                 /\ prev' = [prev EXCEPT ![n] = NULL]
                 /\ UNCHANGED head

\* The neighbour the macro writes through.  Where it is missing, or the tail in
\* InsertTail, the program writes through NULL: no step leads on from there.
Neighbour(t) == IF op[t] = "remove_head" THEN next[p_node[t]] ELSE prev[p_node[t]]

\* LIST_REMOVE_NODE: the only node, the head, the tail, or one in the middle,
\* whose left arm is cut before the right neighbour's is set from it.
RemoveNode(n) ==
    \/ head = n /\ RemoveLast
    \/ head # n /\ head = tail /\ UNCHANGED <<head, tail, next, prev>>
    \/ /\ head # tail /\ head = n
       /\ head' = next[n]
       /\ prev' = [prev EXCEPT ![n] = NULL]
       /\ UNCHANGED <<tail, next>>
    \/ /\ head # tail /\ head # n /\ tail = n
       /\ tail' = prev[n]
       /\ next' = [next EXCEPT ![n] = NULL]
       /\ UNCHANGED <<head, prev>>
    \/ /\ head # tail /\ head # n /\ tail # n
       /\ next' = [m \in Nodes |-> IF m = n THEN NULL
                                   ELSE IF m = prev[n] THEN next[n] ELSE next[m]]
       /\ prev' = [m \in Nodes |-> IF m \in {n, next[n]} THEN NULL ELSE prev[m]]
       /\ UNCHANGED <<head, tail>>

RemoveWrite(t) ==
    /\ \/ op[t] = "remove_node" /\ Goto(t, "read", "unlock") /\ RemoveNode(p_node[t])
       \/ /\ op[t] \in Pops /\ Goto(t, "write", "unlock")
          /\ \/ RemoveLast
             \/ /\ head # tail /\ Neighbour(t) # NULL
                /\ \/ op[t] = "remove_head" /\ RemoveHead(p_node[t])
                   \/ op[t] = "remove_tail" /\ RemoveTail(p_node[t])
    /\ count' = Dec(count)
    /\ UNCHANGED <<used, last_slot, sem, op, p_node>>

----------------------------------------------------------------------------
Step(t) == \/ AllocRead(t) \/ AllocWrite(t) \/ FreeArms(t) \/ FreeUsed(t)
           \/ InsertRead(t) \/ InsertWrite(t) \/ RemoveRead(t) \/ RemoveWrite(t)
           \/ Unlock(t)

Next == \E t \in Tasks : Call(t) \/ Lock(t) \/ Step(t)

Spec == Init /\ [][Next]_vars

\* As for KvList: a ready task runs, and waiters for a mutex get it in turn.
FairSpec == Spec /\ \A t \in Tasks : WF_vars(Step(t)) /\ SF_vars(Lock(t))

----------------------------------------------------------------------------
TypeOK ==
    /\ head \in Nodes \cup {NULL} /\ tail \in Nodes \cup {NULL}
    /\ count \in 0 .. SizeMax
    /\ next \in [Nodes -> Nodes \cup {NULL}]
    /\ prev \in [Nodes -> Nodes \cup {NULL}]
    /\ used \subseteq Nodes
    /\ last_slot \in Nodes
    /\ sem \in {0, 1}
    /\ pc \in [Tasks -> PCs]
    /\ op \in [Tasks -> Ops \cup {"none"}]
    /\ p_node \in [Tasks -> Nodes \cup {NULL}]

Holds(t) == \/ pc[t] \in {"read", "unlock", "sort_lock"}
            \/ pc[t] = "write" /\ op[t] # "free"

\* One task at a time is between a lock and its unlock, and no task that waits
\* for the mutex already holds it, unless it is in linked_list_sort.
MutexExclusive == /\ \A s, t \in Tasks : Holds(s) /\ Holds(t) => s = t
                  /\ sem = 1 <=> \A t \in Tasks : ~Holds(t)

\* The nodes from head on, by the arms, as many as count says.
Chain == LET walk[i \in 1 .. count] == IF i = 1 THEN head
                                       ELSE IF walk[i - 1] = NULL THEN NULL
                                       ELSE next[walk[i - 1]]
         IN walk

\* head, tail, count and both arms of every node of the list describe one and
\* the same sequence, which ends at both ends (linked_list.h: "Pointer of next
\* node", "Pointer of previous node", "Used count of nodes").
WellLinked ==
    IF count = 0 THEN head = NULL /\ tail = NULL
    ELSE /\ \A i \in 1 .. count : Chain[i] \in used
         /\ Chain[count] = tail
         /\ \A i \in 1 .. count - 1 : prev[Chain[i + 1]] = Chain[i]
         /\ next[tail] = NULL /\ prev[head] = NULL

\* An allocated node is in the list once or in the hands of one task, although
\* linked_list_free_node works outside the lock: none is given out twice, and
\* none is lost.
Owned(t) == IF op[t] \in Pops \cup {"alloc"} /\ pc[t] = "write" THEN {} ELSE {p_node[t]} \ {NULL}
NodesAccounted ==
    LET listed == {Chain[i] : i \in 1 .. count} IN
    /\ Cardinality(listed) = count
    /\ used = listed \cup UNION {Owned(t) : t \in Tasks}
    /\ \A t \in Tasks : Owned(t) \cap listed = {}
    /\ \A s, t \in Tasks : s # t => Owned(s) \cap Owned(t) = {}

\* Every call returns, as no path leaves the mutex taken, unless a task sorts.
CallsReturn == \A t \in Tasks :
    pc[t] # "idle" ~> pc[t] = "idle" \/ \E s \in Tasks : pc[s] = "sort_lock"

----------------------------------------------------------------------------
\* Operations take effect on ListSeq where they write.
List == INSTANCE ListSeq WITH
    Bounded <- ArrayBased,
    seq  <- Chain,
    pool <- Nodes \ used,
    hand <- [t \in Tasks |-> IF Owned(t) = {} THEN NULL ELSE p_node[t]],
    told <- [t \in Tasks |-> IF pc[t] # "unlock" \/ p_node[t] # NULL THEN "nothing"
                             ELSE IF op[t] \in Pops THEN "empty"
                             ELSE IF op[t] = "alloc" THEN "no node" ELSE "nothing"]

\* Pushes and pops from several tasks act on one sequence, each at one instant:
\* no node is lost, duplicated or reordered, a pop gets nothing only from an
\* empty list, and an array allocation only when every node is out.
ImplementsListSeq == List!Spec
=============================================================================
