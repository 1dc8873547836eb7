------------------------------- MODULE KvList ------------------------------
(***************************************************************************)
(* lib/kv_list/kv_list.c: an array of nodes behind a mutex, shared by the  *)
(* tasks that call it.  An operation is cut where another task can come    *)
(* between: the tests made before the lock (kv_list_add, kv_list_at,       *)
(* kv_list_remove_node), the lock, what is read under it, what is written  *)
(* from what was read, and the unlock.  A test before the lock reads one   *)
(* word, so where it falls inside another task's locked section can not be *)
(* told from before or after that section's write.                         *)
(***************************************************************************)
EXTENDS Naturals, FiniteSets, Functions

CONSTANTS
    Tasks,          \* the FreeRTOS tasks that share the list
    Keys,           \* the keys its callers use
    Depth,          \* kv_list_t.depth, the number of nodes
    SizeMax,        \* the largest size_t
    NULL,           \* no node
    Calls           \* Calls[t]: the functions task t calls

KV_KEY_INVALID == SizeMax
Slots          == 0 .. Depth - 1

\* "remove" is kv_list_remove; "search_remove" is what ble_link_remove does:
\* search, test the result, then kv_list_remove_node.
Removes     == {"remove", "search_remove"}
Destructive == Removes \cup {"sort", "clear"}
Ops         == Destructive \cup {"add", "search", "walk", "at"}

ASSUME ConstantsAssumption ==
    /\ Depth \in Nat \ {0}
    /\ SizeMax \in Nat /\ Depth < SizeMax
    /\ Keys \subseteq 0 .. SizeMax - 1
    /\ NULL \notin Slots
    /\ Calls \in [Tasks -> SUBSET Ops]

\* At most one task removes, clears or sorts.
SingleManager == \A s, t \in Tasks :
    Calls[s] \cap Destructive # {} /\ Calls[t] \cap Destructive # {} => s = t

VARIABLES
    count,      \* kv_list_t.count
    sorted,     \* kv_list_t._sorted
    node,       \* kv_list_t.node_array: slot -> [valid, key, data_ptr]
    data,       \* kv_list_t.data_array: block -> the key inside the item stored there
    sem,        \* kv_list_t.mutex, a POSIX semaphore
    pc,         \* where each task is
    op,         \* the function it is in
    arg,        \* the key (the index, for "at") it passed
    p_node,     \* its local p_node
    walked      \* the keys kv_list_walk copied out to it, by the slot each came from

list == <<count, sorted, node, data>>
vars == <<list, sem, pc, op, arg, p_node, walked>>

Node    == [valid : BOOLEAN, key : Keys \cup {KV_KEY_INVALID}, data_ptr : Slots]
PCs     == {"idle", "check", "lock", "scan", "body", "find", "search_unlock",
            "node_check", "node_lock", "spin", "unlock", "return", "fault"}
Walks   == UNION {[S -> Keys \cup {KV_KEY_INVALID}] : S \in SUBSET Slots}
NotWalked == [i \in {} |-> KV_KEY_INVALID]
Used    == {i \in Slots : node[i].valid}
Has(i, k) == node[i].valid /\ node[i].key = k

Init ==
    /\ count = 0
    /\ sorted = FALSE
    /\ node = [i \in Slots |-> [valid |-> FALSE, key |-> KV_KEY_INVALID, data_ptr |-> i]]
    /\ data = [i \in Slots |-> KV_KEY_INVALID]
    /\ sem = 1
    /\ pc = [t \in Tasks |-> "idle"]
    /\ op = [t \in Tasks |-> "none"]
    /\ arg = [t \in Tasks |-> KV_KEY_INVALID]
    /\ p_node = [t \in Tasks |-> NULL]
    /\ walked = [t \in Tasks |-> NotWalked]

Goto(t, l)      == pc' = [pc EXCEPT ![t] = l]
GotoFrom(t, l, m) == pc[t] = l /\ Goto(t, m)
Result(t, n)    == p_node' = [p_node EXCEPT ![t] = n]
Reading         == UNCHANGED <<list, sem, op, arg, p_node, walked>>
Private         == UNCHANGED <<sem, op, arg, walked>>

----------------------------------------------------------------------------
\* A task calls a function; kv_list_add and kv_list_at test count before the lock.
Call(t) ==
    /\ pc[t] = "idle"
    /\ \E o \in Calls[t], k \in Keys :
        /\ op' = [op EXCEPT ![t] = o]
        /\ arg' = [arg EXCEPT ![t] = k]
        /\ Goto(t, IF o \in {"add", "at"} THEN "check" ELSE "lock")
    /\ UNCHANGED <<list, sem, p_node, walked>>

Refused(t) == IF op[t] = "add" THEN count >= Depth ELSE arg[t] >= count

Check(t) ==
    /\ GotoFrom(t, "check", IF Refused(t) THEN "return" ELSE "lock")
    /\ Reading

\* hal_mutex_lock, hal_mutex_unlock.
NoWait == TRUE
Free   == sem > 0

Lock(t) ==
    /\ Free
    /\ sem' = sem - 1
    /\ \/ pc[t] = "lock" /\ Goto(t, CASE op[t] = "add" -> "scan"
                                      [] op[t] \in {"search"} \cup Removes -> "find"
                                      [] OTHER -> "body")
       \/ GotoFrom(t, "node_lock", "body")
    /\ UNCHANGED <<list, op, arg, p_node, walked>>

Unlock(t) ==
    /\ \/ GotoFrom(t, "unlock", "return")
       \/ GotoFrom(t, "search_unlock", "node_check")
    /\ sem' = sem + 1
    /\ UNCHANGED <<list, op, arg, p_node, walked>>

\* The caller is done with the node it got, and the call ends.
Return(t) ==
    /\ GotoFrom(t, "return", "idle")
    /\ op' = [op EXCEPT ![t] = "none"]
    /\ arg' = [arg EXCEPT ![t] = KV_KEY_INVALID]
    /\ Result(t, NULL)
    /\ walked' = [walked EXCEPT ![t] = NotWalked]
    /\ UNCHANGED <<list, sem>>

----------------------------------------------------------------------------
\* kv_list_add: the first node that is not valid, then everything written to it.
NodeAtCount(i) == i = count
FirstFree(i)   == ~node[i].valid /\ \A j \in 0 .. i - 1 : node[j].valid

AddScanLeaks(t) ==
    /\ \/ GotoFrom(t, "scan", "body") /\ \E i \in Slots : FirstFree(i) /\ Result(t, i)
       \/ GotoFrom(t, "scan", "return") /\ Used = Slots /\ UNCHANGED p_node
    /\ UNCHANGED list /\ Private

AddScan(t) ==
    /\ \/ GotoFrom(t, "scan", "body") /\ \E i \in Slots : FirstFree(i) /\ Result(t, i)
       \/ GotoFrom(t, "scan", "unlock") /\ Used = Slots /\ UNCHANGED p_node
    /\ UNCHANGED list /\ Private

\* Every change of the keys drops the sorted flag.
KeepsFlag == UNCHANGED sorted
DropsFlag == sorted' = FALSE

Inc(c) == IF c = SizeMax THEN 0 ELSE c + 1
Dec(c) == IF c = 0 THEN SizeMax ELSE c - 1

Fill(n, k) == [valid |-> TRUE, key |-> k, data_ptr |-> n.data_ptr]
Vacate(n)  == [valid |-> FALSE, key |-> KV_KEY_INVALID, data_ptr |-> n.data_ptr]

AddWrite(t) ==
    /\ op[t] = "add"
    /\ GotoFrom(t, "body", "unlock")
    /\ node' = [node EXCEPT ![p_node[t]] = Fill(@, arg[t])]
    /\ data' = [data EXCEPT ![node[p_node[t]].data_ptr] = arg[t]]
    /\ count' = Inc(count)
    /\ DropsFlag
    /\ UNCHANGED p_node /\ Private

Clear(t) ==
    /\ op[t] = "clear"
    /\ GotoFrom(t, "body", "unlock")
    /\ node' = [i \in Slots |-> Vacate(node[i])]
    /\ count' = 0
    /\ DropsFlag
    /\ UNCHANGED <<data, p_node>> /\ Private

----------------------------------------------------------------------------
\* compare_node_key(n, m) > 0: valid nodes come first, then by key.
After(n, m) == \/ m.valid /\ ~n.valid
               \/ m.valid /\ n.valid /\ n.key > m.key
Ordered(a)  == \A i, j \in Slots : i < j => ~After(a[i], a[j])

\* qsort moves whole nodes, data_ptr included, into the comparator's order.
KeysRearranged(p) == [i \in Slots |-> [node[p[i]] EXCEPT !.data_ptr = node[i].data_ptr]]
Rearranged(p)     == [i \in Slots |-> node[p[i]]]

Sort(t) ==
    /\ op[t] = "sort"
    /\ GotoFrom(t, "body", "unlock")
    /\ \E p \in Bijection(Slots, Slots) : node' = Rearranged(p) /\ Ordered(node')
    /\ sorted' = TRUE
    /\ UNCHANGED <<count, data, p_node>> /\ Private

\* general_search stops after count valid nodes.  bsearch returns any match; on
\* an array that is out of order it may miss one.
PrefixSearch(k) ==
    LET hits == {i \in Slots : Has(i, k) /\ i < count}
    IN IF hits = {} THEN {NULL} ELSE {i \in hits : \A j \in hits : i <= j}
GeneralSearch(k) ==
    LET hits == {i \in Slots : Has(i, k) /\ Cardinality({j \in Used : j < i}) < count}
    IN IF hits = {} THEN {NULL} ELSE {i \in hits : \A j \in hits : i <= j}
BinarySearch(k) ==
    LET hits == {i \in Slots : Has(i, k)}
    IN IF hits = {} \/ ~Ordered(node) THEN hits \cup {NULL} ELSE hits

Found(k) == IF sorted THEN BinarySearch(k) ELSE GeneralSearch(k)

Search(t) ==
    /\ GotoFrom(t, "find", IF op[t] = "search" THEN "unlock" ELSE "search_unlock")
    /\ \E n \in Found(arg[t]) : Result(t, n)
    /\ UNCHANGED list /\ Private

Walk(t) ==
    /\ op[t] = "walk"
    /\ GotoFrom(t, "body", "unlock")
    /\ walked' = [walked EXCEPT ![t] = [i \in Used |-> node[i].key]]
    /\ UNCHANGED <<list, sem, op, arg, p_node>>

\* kv_list_at(index) counts up to index by looking at node[index] alone: an
\* unused node there, with index > 0, never lets the loop end.
At(t) ==
    LET i == arg[t] IN
    /\ op[t] = "at"
    /\ pc[t] = "body"
    /\ \/ count > 0 /\ i > 0 /\ ~node[i].valid /\ Goto(t, "spin") /\ UNCHANGED p_node
       \/ /\ i < count /\ (i = 0 <=> ~node[i].valid)
          /\ Goto(t, "unlock") /\ Result(t, i)
       \/ /\ \/ count = 0
             \/ i = 0 /\ node[i].valid
             \/ i >= count /\ node[i].valid
          /\ Goto(t, "unlock") /\ UNCHANGED p_node
    /\ UNCHANGED list /\ Private

Spin(t) == pc[t] = "spin" /\ UNCHANGED vars

----------------------------------------------------------------------------
\* kv_list_remove_node tests the node before it takes the lock.  kv_list_remove
\* passes it what the search returned, NULL too.
NodeCheck(t) ==
    LET n == p_node[t] IN
    /\ \/ n = NULL /\ op[t] = "search_remove" /\ GotoFrom(t, "node_check", "return")
       \/ n = NULL /\ op[t] = "remove" /\ GotoFrom(t, "node_check", "fault")
       \/ n # NULL /\ ~node[n].valid /\ GotoFrom(t, "node_check", "return")
       \/ n # NULL /\ node[n].valid /\ GotoFrom(t, "node_check", "node_lock")
    /\ Reading

RemoveNode(t) ==
    /\ op[t] \in Removes
    /\ GotoFrom(t, "body", "unlock")
    /\ node' = [node EXCEPT ![p_node[t]] = Vacate(@)]
    /\ count' = Dec(count)
    /\ DropsFlag
    /\ UNCHANGED <<data, p_node>> /\ Private

----------------------------------------------------------------------------
Step(t) == \/ Check(t) \/ Unlock(t) \/ Return(t) \/ AddScan(t) \/ AddWrite(t)
           \/ Clear(t) \/ Sort(t) \/ Search(t) \/ Walk(t) \/ At(t)
           \/ NodeCheck(t) \/ RemoveNode(t)

Act(t) == Call(t) \/ Lock(t) \/ Step(t) \/ Spin(t)

Next == \E t \in Tasks : Act(t)

Spec == Init /\ [][Next]_vars

\* A ready task runs, and sem_post hands the mutex to the waiters of one
\* priority in turn.  When to call is the task's own choice.
Fairness == \A t \in Tasks : WF_vars(Step(t)) /\ SF_vars(Lock(t))
FairSpec == Spec /\ Fairness
----------------------------------------------------------------------------
TypeOK ==
    /\ count \in 0 .. SizeMax
    /\ sorted \in BOOLEAN
    /\ node \in [Slots -> Node]
    /\ data \in [Slots -> Keys \cup {KV_KEY_INVALID}]
    /\ sem \in {0, 1}
    /\ pc \in [Tasks -> PCs]
    /\ op \in [Tasks -> Ops \cup {"none"}]
    /\ arg \in [Tasks -> Keys \cup {KV_KEY_INVALID}]
    /\ p_node \in [Tasks -> Slots \cup {NULL}]
    /\ walked \in [Tasks -> Walks]

Locked   == {"scan", "body", "find", "search_unlock", "spin", "unlock"}
Holds(t) == pc[t] \in Locked

\* The semaphore works as a mutex: no lock is released that was not taken, so
\* one task at a time is between a lock and its unlock.
MutexExclusive ==
    /\ \A s, t \in Tasks : Holds(s) /\ Holds(t) => s = t
    /\ sem = 1 <=> \A t \in Tasks : ~Holds(t)

\* count is the number of used nodes (kv_list.h:17), whatever the tests made
\* outside the lock saw: kv_list_add never overfills and kv_list_remove_node
\* never counts a node down twice.
CountMatches == count = Cardinality(Used)

\* bsearch is only ever run on an ordered array, although adds of other tasks
\* fall between a sort and the searches that rely on it.
SortedFlagSound == sorted => Ordered(node)

\* A used node's data_ptr leads to the item stored with its key, after any
\* sequence of adds, removals and sorts, and no two nodes share a block.
DataFollowsKey ==
    /\ \A i \in Used : data[node[i].data_ptr] = node[i].key
    /\ \A i, j \in Slots : node[i].data_ptr = node[j].data_ptr => i = j

\* Between the search and the locked part of kv_list_remove_node the list is
\* open to others; the node that is invalidated is still the one with the key.
RemovesItsItem == \A t \in Tasks :
    /\ op[t] \in Removes
    /\ pc[t] \in {"search_unlock", "node_check", "node_lock", "body"}
    /\ p_node[t] # NULL
    => Has(p_node[t], arg[t])

\* kv_list_add and kv_list_search return a node pointer the caller uses with no
\* lock (ble_link_add, ble_link_get): for the task that does all the removing
\* and sorting, it still leads to the item it asked for.
ManagerUsesItsItem == \A t \in Tasks :
    /\ Calls[t] \cap Destructive # {}
    /\ op[t] \in {"add", "search"} /\ pc[t] = "return" /\ p_node[t] # NULL
    => Has(p_node[t], arg[t]) /\ data[node[p_node[t]].data_ptr] = arg[t]

----------------------------------------------------------------------------
\* Operations take effect on KvMap where they write, or find nothing to do.
Decided(t) ==
    \/ pc[t] \in {"unlock", "return", "fault"}
    \/ pc[t] \in {"search_unlock", "node_check"} /\ p_node[t] = NULL
Succeeds(t) == p_node[t] # NULL \/ op[t] \in {"clear", "sort", "walk"}
BagOf(f)    == [k \in Keys |-> Cardinality({i \in DOMAIN f : f[i] = k})]

\* kv_list_at is not part of that promise (AtGivesNthItem).
Promised(t) == op[t] # "at"

Map == INSTANCE KvMap WITH
    NoKey   <- KV_KEY_INVALID,
    items   <- BagOf([i \in Used |-> node[i].key]),
    request <- [t \in Tasks |-> IF Promised(t) THEN [op |-> op[t], key |-> arg[t]]
                                ELSE [op |-> "none", key |-> KV_KEY_INVALID]],
    answer  <- [t \in Tasks |-> LET done == Promised(t) /\ Decided(t) IN
                                [done |-> done, ok |-> done /\ Succeeds(t), seen |-> BagOf(walked[t])]]

\* With one task managing the list, every function behaves as if it ran at one
\* instant on a bag of keys, in spite of the tests made outside the lock: a
\* full list refuses, a search finds exactly the keys that are there, sorted or
\* not, and a removal takes one item of its key.
ImplementsKvMap == Map!Spec

\* Every call returns, as no path leaves the mutex taken; but kv_list_remove of a
\* missing key stops its task, and a kv_list_at that loops keeps the mutex.
CallsReturn == \A t \in Tasks :
    pc[t] # "idle" ~> pc[t] \in {"idle", "fault"} \/ \E s \in Tasks : pc[s] = "spin"

\* kv_list.md:41-45 reads the items by their position: kv_list_at(index) gives
\* the item with index used nodes before it.
AtGivesNthItem == \A t \in Tasks :
    op[t] = "at" /\ pc[t] = "unlock" =>
        /\ p_node[t] # NULL
        /\ node[p_node[t]].valid
        /\ Cardinality({j \in Used : j < p_node[t]}) = arg[t]
=============================================================================
