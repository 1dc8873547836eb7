---------------------------- MODULE KvListProofs ---------------------------
(***************************************************************************)
(* Proofs about KvList, for any tasks, keys and depth.  Whatever the tasks *)
(* call, the mutex excludes, the flag sorted is sound and an item stays    *)
(* with its key.  When one task does all the removing, clearing and        *)
(* sorting, count is right, nodes stay those of their items, and the list  *)
(* implements KvMap.                                                       *)
(***************************************************************************)
EXTENDS KvList, FiniteSetTheorems, FunctionTheorems, TLAPS

\* TypeOK for any calls: once count has wrapped below zero, kv_list_at may
\* answer with an index that is past the array.
Typed ==
    /\ count \in 0 .. SizeMax
    /\ sorted \in BOOLEAN
    /\ node \in [Slots -> Node]
    /\ data \in [Slots -> Keys \cup {KV_KEY_INVALID}]
    /\ sem \in {0, 1}
    /\ pc \in [Tasks -> PCs]
    /\ op \in [Tasks -> Ops \cup {"none"}]
    /\ arg \in [Tasks -> Keys \cup {KV_KEY_INVALID}]
    /\ p_node \in [Tasks -> Slots \cup {NULL} \cup Keys]
    /\ walked \in [Tasks -> Walks]

\* Which operation a task is in at each place, and when its p_node is set.
Control == \A t \in Tasks :
    /\ pc[t] # "idle" => op[t] \in Calls[t] /\ arg[t] \in Keys
    /\ op[t] # "at" => p_node[t] \in Slots \cup {NULL}
    /\ pc[t] \in {"idle", "check", "lock", "scan", "find"} => p_node[t] = NULL
    /\ pc[t] = "scan" => op[t] = "add"
    /\ pc[t] = "find" => op[t] \in {"search"} \cup Removes
    /\ pc[t] \in {"search_unlock", "node_check", "node_lock"} => op[t] \in Removes
    /\ pc[t] = "node_lock" => p_node[t] \in Slots
    /\ pc[t] = "body" => op[t] # "search"
    /\ pc[t] = "body" /\ op[t] \in Removes \cup {"add"} => p_node[t] \in Slots

\* The node a task is about to fill is still unused.
TargetFree == \A t \in Tasks :
    pc[t] = "body" /\ op[t] = "add" => ~node[p_node[t]].valid

\* What holds whatever the tasks call.
Base == /\ Typed
        /\ Control
        /\ MutexExclusive
        /\ TargetFree
        /\ SortedFlagSound
        /\ DataFollowsKey

\* The part of the invariant about count.
CountInv == /\ TypeOK
            /\ Control
            /\ MutexExclusive
            /\ TargetFree
            /\ CountMatches
            /\ RemovesItsItem

USE DEF ConstantsAssumption, list, vars, Slots, KV_KEY_INVALID

----------------------------------------------------------------------------
\* What the assumption says of the constants, in the form the steps use.
LEMMA ConstantFacts ==
    /\ Depth \in Nat /\ SizeMax \in Nat /\ Depth < SizeMax
    /\ Keys \subseteq Nat /\ KV_KEY_INVALID \notin Keys
    /\ NULL \notin Slots
  BY ConstantsAssumption

\* The used nodes can be counted, and there are at most Depth of them.
LEMMA UsedCounted ==
    ASSUME TypeOK
    PROVE  /\ IsFiniteSet(Used)
           /\ Cardinality(Used) \in Nat
           /\ Cardinality(Used) <= Depth
<1>1. IsFiniteSet(Slots) /\ Cardinality(Slots) = Depth
  BY ConstantsAssumption, FS_Interval
<1>2. Used \subseteq Slots
  BY DEF Used
<1>. QED
  BY <1>1, <1>2, FS_Subset, FS_CardinalityType

\* Rearranging the nodes neither adds nor loses used ones: this is what lets
\* qsort leave count alone.
LEMMA RearrangedUsed ==
    ASSUME TypeOK, NEW p \in Bijection(Slots, Slots)
    PROVE  Cardinality({i \in Slots : Rearranged(p)[i].valid}) = Cardinality(Used)
<1>. DEFINE U == {i \in Slots : Rearranged(p)[i].valid}
            f == [i \in U |-> p[i]]
<1>1. /\ p \in [Slots -> Slots]
      /\ \A i, j \in Slots : p[i] = p[j] => i = j
      /\ \A j \in Slots : \E i \in Slots : p[i] = j
  BY DEF Bijection, Injection, Surjection, IsInjective
<1>2. \A i \in Slots : i \in U <=> p[i] \in Used
  BY <1>1 DEF Rearranged, Used
<1>3. f \in [U -> Used]
  BY <1>2
<1>4. \A i, j \in U : f[i] = f[j] => i = j
  BY <1>1
<1>5. \A j \in Used : \E i \in U : f[i] = j
  BY <1>1, <1>2 DEF Used
<1>6. f \in Bijection(U, Used)
  BY <1>3, <1>4, <1>5 DEF Bijection, Injection, Surjection, IsInjective
<1>7. ExistsBijection(U, Used)
  BY <1>6 DEF ExistsBijection
<1>8. IsFiniteSet(U)
  <2>1. IsFiniteSet(Slots)
    BY FS_Interval, ConstantsAssumption
  <2>. QED
    BY <2>1, FS_Subset
<1>. QED
  BY <1>7, <1>8, UsedCounted, FS_Bijection

----------------------------------------------------------------------------
\* What every action does with the private state of tasks.
LEMMA NodeTyped ==
    ASSUME node \in [Slots -> Node], NEW k \in Keys, NEW i \in Slots
    PROVE  /\ Fill(node[i], k) \in Node /\ Fill(node[i], k).valid
           /\ Fill(node[i], k).key = k
           /\ Fill(node[i], k).data_ptr = node[i].data_ptr
           /\ Vacate(node[i]) \in Node /\ ~Vacate(node[i]).valid
           /\ Vacate(node[i]).data_ptr = node[i].data_ptr
  BY DEF Node, Fill, Vacate

\* A step of any task keeps the types.
LEMMA TypedPreserved ==
    ASSUME Base, NEW t \in Tasks, Act(t)
    PROVE  Typed'
<1>. USE DEF Base, Goto, GotoFrom, Result, Reading, Private, PCs
<1>2. CASE Call(t)
  <2>1. PICK o \in Calls[t], k \in Keys :
          /\ op' = [op EXCEPT ![t] = o]
          /\ arg' = [arg EXCEPT ![t] = k]
          /\ pc' = [pc EXCEPT ![t] = IF o \in {"add", "at"} THEN "check" ELSE "lock"]
    BY <1>2 DEF Call
  <2>2. o \in Ops
    BY ConstantsAssumption
  <2>. QED
    BY <2>1, <2>2, <1>2 DEF Call, Typed
<1>3. CASE Lock(t)
  BY <1>3 DEF Lock, Typed, Free
<1>4. CASE Check(t)
  BY <1>4 DEF Check, Typed
<1>5. CASE Unlock(t)
  <2>1. sem = 0
    BY <1>5 DEF Unlock, Typed, MutexExclusive, Holds, Locked
  <2>. QED
    BY <2>1, <1>5 DEF Unlock, Typed
<1>6. CASE Return(t)
  <2>1. NotWalked \in Walks
    BY DEF NotWalked, Walks
  <2>. QED
    BY <2>1, <1>6 DEF Return, Typed
<1>7. CASE AddScan(t)
  BY <1>7 DEF AddScan, Typed
<1>8. CASE AddWrite(t)
  <2>1. p_node[t] \in Slots /\ arg[t] \in Keys
    BY <1>8 DEF AddWrite, Control
  <2>2. node' \in [Slots -> Node]
    BY <2>1, <1>8, NodeTyped DEF AddWrite, Typed
  <2>3. count' \in 0 .. SizeMax
    BY <1>8, ConstantFacts DEF AddWrite, Typed, Inc
  <2>. QED
    BY <2>1, <2>2, <2>3, <1>8 DEF AddWrite, Typed, DropsFlag
<1>9. CASE Clear(t)
  <2>1. node' \in [Slots -> Node]
    BY <1>9, NodeTyped DEF Clear, Typed, Node, Vacate
  <2>2. count' \in 0 .. SizeMax /\ sorted' \in BOOLEAN /\ pc' \in [Tasks -> PCs]
    <3>1. count' = 0 /\ sorted' = FALSE
      BY <1>9 DEF Clear, DropsFlag
    <3>2. pc' \in [Tasks -> PCs]
      BY <1>9 DEF Clear, Typed
    <3>3. count' \in 0 .. SizeMax
      BY <3>1, ConstantFacts
    <3>4. sorted' \in BOOLEAN
      BY <3>1
    <3>. QED
      BY <3>2, <3>3, <3>4
  <2>3. UNCHANGED <<data, p_node, sem, op, arg, walked>>
    BY <1>9 DEF Clear
  <2>. QED
    BY <2>1, <2>2, <2>3 DEF Typed
<1>10. CASE Sort(t)
  <2>1. PICK p \in Bijection(Slots, Slots) : node' = Rearranged(p)
    BY <1>10 DEF Sort
  <2>2. p \in [Slots -> Slots]
    BY <2>1 DEF Bijection, Injection
  <2>3. node' \in [Slots -> Node]
    BY <2>1, <2>2 DEF Rearranged, Typed
  <2>. QED
    BY <2>3, <1>10 DEF Sort, Typed
<1>11. CASE Search(t)
  <2>1. Found(arg[t]) \subseteq Slots \cup {NULL}
    BY DEF Found, BinarySearch, GeneralSearch
  <2>. QED
    BY <2>1, <1>11 DEF Search, Typed
<1>12. CASE Walk(t)
  <2>. DEFINE f == [i \in Used |-> node[i].key]
  <2>1. f \in [Used -> Keys \cup {KV_KEY_INVALID}]
    BY DEF Used, Typed, Node
  <2>2. f \in Walks
    BY <2>1 DEF Walks, Used
  <2>. QED
    BY <2>2, <1>12 DEF Walk, Typed
<1>13. CASE At(t)
  <2>1. arg[t] \in Keys
    BY <1>13 DEF At, Control
  <2>. QED
    BY <2>1, <1>13 DEF At, Typed
<1>14. CASE NodeCheck(t)
  BY <1>14 DEF NodeCheck, Typed
<1>15. CASE RemoveNode(t)
  <2>1. p_node[t] \in Slots
    BY <1>15 DEF RemoveNode, Control
  <2>2. node' \in [Slots -> Node]
    BY <2>1, <1>15, NodeTyped DEF RemoveNode, Typed, Vacate, Node
  <2>3. count' \in 0 .. SizeMax
    BY <1>15, ConstantFacts DEF RemoveNode, Typed, Dec
  <2>. QED
    BY <2>1, <2>2, <2>3, <1>15 DEF RemoveNode, Typed, DropsFlag
<1>16. CASE Spin(t)
  BY <1>16 DEF Spin, Typed
<1>. QED
  BY <1>2, <1>3, <1>4, <1>5, <1>6, <1>7, <1>8, <1>9, <1>10, <1>11, <1>12, <1>13,
     <1>14, <1>15, <1>16 DEF Act, Step

\* A step keeps each task in a function that its place belongs to.
LEMMA ControlPreserved ==
    ASSUME Base, NEW t \in Tasks, Act(t)
    PROVE  Control'
<1>. USE DEF Base, Typed, Control, Goto, GotoFrom, Result, Reading, Private
<1>1. CASE Call(t)
  <2>1. PICK o \in Calls[t], k \in Keys :
          /\ op' = [op EXCEPT ![t] = o]
          /\ arg' = [arg EXCEPT ![t] = k]
          /\ pc' = [pc EXCEPT ![t] = IF o \in {"add", "at"} THEN "check" ELSE "lock"]
    BY <1>1 DEF Call
  <2>. QED
    BY <2>1, <1>1 DEF Call
<1>2. CASE Lock(t)
  BY <1>2 DEF Lock, Removes
<1>3. CASE Check(t)
  BY <1>3 DEF Check
<1>4. CASE Unlock(t)
  BY <1>4 DEF Unlock
<1>5. CASE Return(t)
  BY <1>5 DEF Return
<1>6. CASE AddScan(t)
  BY <1>6 DEF AddScan
<1>7. CASE AddWrite(t) \/ Clear(t) \/ Sort(t) \/ RemoveNode(t)
  <2>1. /\ pc[t] = "body" /\ pc' = [pc EXCEPT ![t] = "unlock"]
        /\ UNCHANGED <<op, arg, p_node>>
    BY <1>7 DEF AddWrite, Clear, Sort, RemoveNode
  <2>. QED
    BY <2>1
<1>8. CASE Search(t)
  <2>1. Found(arg[t]) \subseteq Slots \cup {NULL}
    BY DEF Found, BinarySearch, GeneralSearch
  <2>. QED
    BY <2>1, <1>8 DEF Search, Removes
<1>9. CASE Walk(t)
  BY <1>9 DEF Walk
<1>10. CASE At(t)
  BY <1>10 DEF At
<1>11. CASE NodeCheck(t)
  BY <1>11 DEF NodeCheck, Removes
<1>12. CASE Spin(t)
  BY <1>12 DEF Spin
<1>. QED
  BY <1>1, <1>2, <1>3, <1>4, <1>5, <1>6, <1>7, <1>8, <1>9, <1>10, <1>11, <1>12
     DEF Act, Step

\* A step leaves at most one task between the lock and the unlock.
LEMMA MutexPreserved ==
    ASSUME Base, NEW t \in Tasks, Act(t)
    PROVE  MutexExclusive'
<1>. USE DEF Base, MutexExclusive, Holds, Locked
<1>1. CASE Lock(t)
  <2>1. sem = 1 /\ sem' = 0
    BY <1>1 DEF Lock, Free, Typed
  <2>2. \A s \in Tasks : ~Holds(s)
    BY <2>1
  <2>3. \A s \in Tasks : Holds(s)' <=> s = t
    BY <1>1, <2>2 DEF Lock, Goto, GotoFrom, Typed, Control
  <2>. QED
    BY <2>1, <2>3
<1>2. CASE Unlock(t)
  <2>1. Holds(t) /\ sem = 0 /\ sem' = 1
    BY <1>2 DEF Unlock, GotoFrom, Typed
  <2>2. \A s \in Tasks : ~Holds(s)'
    BY <1>2, <2>1 DEF Unlock, Goto, GotoFrom, Typed
  <2>. QED
    BY <2>1, <2>2
<1>3. CASE \/ Call(t) \/ Check(t) \/ Return(t) \/ AddScan(t) \/ AddWrite(t) \/ Clear(t)
           \/ Sort(t) \/ Search(t) \/ Walk(t) \/ At(t) \/ NodeCheck(t) \/ RemoveNode(t)
           \/ Spin(t)
  <2>1. sem' = sem
    BY <1>3 DEF Call, Check, Return, AddScan, AddWrite, Clear, Sort, Search, Walk, At,
                NodeCheck, RemoveNode, Spin, Reading, Private
  <2>2. \A s \in Tasks \ {t} : pc'[s] = pc[s]
    BY <1>3 DEF Call, Check, Return, AddScan, AddWrite, Clear, Sort, Search, Walk, At,
                NodeCheck, RemoveNode, Spin, Goto, GotoFrom, Typed
  <2>3. Holds(t)' <=> Holds(t)
    BY <1>3 DEF Call, Check, Return, AddScan, AddWrite, Clear, Sort, Search, Walk, At,
                NodeCheck, RemoveNode, Spin, Goto, GotoFrom, Typed
  <2>. QED
    BY <2>1, <2>2, <2>3
<1>. QED
  BY <1>1, <1>2, <1>3 DEF Act, Step

----------------------------------------------------------------------------
Writes(t) == AddWrite(t) \/ Clear(t) \/ Sort(t) \/ RemoveNode(t)

\* The writer is the one task inside the lock, and is about to unlock.
LEMMA WriterAlone ==
    ASSUME Base, NEW t \in Tasks, Writes(t)
    PROVE  /\ pc[t] = "body" /\ pc'[t] = "unlock"
           /\ \A s \in Tasks \ {t} : pc'[s] = pc[s] /\ ~Holds(s)
           /\ UNCHANGED <<op, arg, p_node>>
<1>1. pc[t] = "body" /\ pc' = [pc EXCEPT ![t] = "unlock"] /\ UNCHANGED <<op, arg, p_node>>
  BY DEF Writes, AddWrite, Clear, Sort, RemoveNode, Goto, GotoFrom, Private
<1>2. Holds(t)
  BY <1>1 DEF Holds, Locked
<1>. QED
  BY <1>1, <1>2 DEF Base, Typed, MutexExclusive

\* A step that is not a write under the lock leaves the list alone.
LEMMA QuietStep ==
    ASSUME NEW t \in Tasks, Act(t), ~Writes(t)
    PROVE  UNCHANGED list
  BY DEF Act, Step, Writes, Call, Lock, Check, Unlock, Return, AddScan, Search, Walk, At,
         NodeCheck, Spin, Reading, Private

\* The node an add chose stays free until it fills it.
LEMMA TargetPreserved ==
    ASSUME Base, NEW t \in Tasks, Act(t)
    PROVE  TargetFree'
<1>1. CASE Writes(t)
  BY <1>1, WriterAlone DEF TargetFree, Holds, Locked
<1>2. CASE AddScan(t)
  <2>1. UNCHANGED <<node, op>>
    BY <1>2 DEF AddScan, Private
  <2>2. \A s \in Tasks \ {t} : pc'[s] = pc[s] /\ p_node'[s] = p_node[s]
    BY <1>2 DEF AddScan, Goto, GotoFrom, Result, Base, Typed
  <2>3. pc'[t] = "body" => ~node[p_node'[t]].valid
    BY <1>2 DEF AddScan, Goto, GotoFrom, Result, FirstFree, Base, Typed
  <2>. QED
    BY <2>1, <2>2, <2>3 DEF Base, TargetFree
<1>3. CASE ~Writes(t) /\ ~AddScan(t)
  <2>1. UNCHANGED node
    BY <1>3, QuietStep
  <2>2. \A s \in Tasks : pc'[s] = "body" /\ op'[s] = "add"
                          => pc[s] = "body" /\ op[s] = "add" /\ p_node'[s] = p_node[s]
    BY <1>3 DEF Act, Step, Writes, Call, Lock, Check, Unlock, Return, Search, Walk, At,
                NodeCheck, Spin, Reading, Private, Goto, GotoFrom, Result, Base, Typed,
                Control, Removes
  <2>. QED
    BY <2>1, <2>2 DEF Base, TargetFree
<1>. QED
  BY <1>1, <1>2, <1>3

\* Each write moves count with the number of used nodes.
LEMMA CountPreserved ==
    ASSUME CountInv, NEW t \in Tasks, Act(t)
    PROVE  CountMatches'
<1>. USE DEF CountInv, CountMatches
<1>1. CASE AddWrite(t)
  <2>. DEFINE n == p_node[t]
  <2>1. n \in Slots /\ n \notin Used /\ arg[t] \in Keys
    BY <1>1 DEF AddWrite, GotoFrom, Control, TargetFree, Used
  <2>2. Used' = Used \cup {n}
    BY <2>1, <1>1, NodeTyped DEF AddWrite, Used, TypeOK
  <2>3. Cardinality(Used') = Cardinality(Used) + 1
    BY <2>1, <2>2, UsedCounted, FS_AddElement
  <2>4. count' = count + 1
    BY <1>1, UsedCounted, ConstantFacts DEF AddWrite, Inc
  <2>. QED
    BY <2>3, <2>4
<1>2. CASE Clear(t)
  <2>1. Used' = {} /\ count' = 0
    BY <1>2, NodeTyped DEF Clear, Used, Vacate
  <2>. QED
    BY <2>1, FS_EmptySet
<1>3. CASE Sort(t)
  <2>1. PICK p \in Bijection(Slots, Slots) : node' = Rearranged(p)
    BY <1>3 DEF Sort
  <2>2. count' = count
    BY <1>3 DEF Sort
  <2>. QED
    BY <2>1, <2>2, RearrangedUsed DEF Used
<1>4. CASE RemoveNode(t)
  <2>. DEFINE n == p_node[t]
  <2>1. n \in Slots /\ n \in Used
    BY <1>4, ConstantFacts DEF RemoveNode, GotoFrom, Control, RemovesItsItem, Has, Used
  <2>2. Used' = Used \ {n}
    BY <2>1, <1>4 DEF RemoveNode, Used, TypeOK, Vacate
  <2>3. Cardinality(Used') = Cardinality(Used) - 1
    BY <2>1, <2>2, UsedCounted, FS_RemoveElement
  <2>4. Cardinality(Used) # 0
    BY <2>1, UsedCounted, FS_EmptySet
  <2>5. count' = count - 1
    BY <2>4, <1>4 DEF RemoveNode, Dec
  <2>. QED
    BY <2>3, <2>5
<1>5. CASE ~Writes(t)
  BY <1>5, QuietStep DEF Used
<1>. QED
  BY <1>1, <1>2, <1>3, <1>4, <1>5 DEF Writes

----------------------------------------------------------------------------
\* A task is between its search and its kv_list_remove_node.
Removing(t) == /\ op[t] \in Removes
               /\ pc[t] \in {"search_unlock", "node_check", "node_lock", "body"}
               /\ p_node[t] # NULL

\* The manager holds the node it has just added or found.
Holding(t) == /\ Calls[t] \cap Destructive # {}
              /\ op[t] \in {"add", "search"} /\ pc[t] \in {"unlock", "return"}
              /\ p_node[t] # NULL

\* An item and its node.
ItemAt(n, k) == n \in Slots /\ Has(n, k) /\ data[node[n].data_ptr] = k

\* The whole invariant.  A task that holds a node is the manager, so the only
\* writes of others it can see are adds, and those fill unused nodes.
Inv == /\ CountInv
       /\ SortedFlagSound
       /\ DataFollowsKey
       /\ \A t \in Tasks : Removing(t) \/ Holding(t) => ItemAt(p_node[t], arg[t])

\* What holds whatever the tasks call is part of it.
LEMMA InvBase == Inv => Base
<1>1. TypeOK => Typed
  BY DEF TypeOK, Typed
<1>. QED
  BY <1>1 DEF Inv, CountInv, Base

\* While count is right, kv_list_at answers with a node of the array.
LEMMA TypePreserved ==
    ASSUME Inv, NEW t \in Tasks, Act(t)
    PROVE  TypeOK'
<1>1. Typed'
  BY InvBase, TypedPreserved
<1>2. p_node' \in [Tasks -> Slots \cup {NULL}]
  <2>. USE DEF Inv, CountInv, TypeOK, Goto, GotoFrom, Result, Reading, Private
  <2>1. CASE At(t)
    <3>1. count <= Depth /\ count \in Nat
      BY UsedCounted DEF CountMatches
    <3>2. arg[t] \in Nat
      BY <2>1, ConstantFacts DEF At, Control
    <3>3. arg[t] < count => arg[t] \in Slots
      BY <3>1, <3>2, ConstantFacts
    <3>. QED
      BY <3>3, <2>1 DEF At
  <2>2. CASE Search(t)
    <3>1. Found(arg[t]) \subseteq Slots \cup {NULL}
      BY DEF Found, BinarySearch, GeneralSearch
    <3>. QED
      BY <3>1, <2>2 DEF Search
  <2>3. CASE AddScan(t) \/ Return(t)
    BY <2>3 DEF AddScan, Return
  <2>4. CASE ~At(t) /\ ~Search(t) /\ ~AddScan(t) /\ ~Return(t)
    BY <2>4 DEF Act, Step, Call, Lock, Check, Unlock, AddWrite, Clear, Sort, Walk, NodeCheck,
                RemoveNode, Spin, vars
  <2>. QED
    BY <2>1, <2>2, <2>3, <2>4
<1>. QED
  BY <1>1, <1>2 DEF Typed, TypeOK

\* A task that holds a node manages the list.
LEMMA HolderManages ==
    ASSUME Inv, NEW t \in Tasks, Removing(t) \/ Holding(t)
    PROVE  Calls[t] \cap Destructive # {}
  BY DEF Inv, CountInv, Control, Removing, Holding, Destructive

\* An add by another task leaves every item where it is.
LEMMA AddKeepsItems ==
    ASSUME Inv, NEW t \in Tasks, AddWrite(t), NEW n, NEW k, ItemAt(n, k)
    PROVE  ItemAt(n, k)'
<1>1. p_node[t] \in Slots /\ ~node[p_node[t]].valid
  BY DEF Inv, CountInv, Control, TargetFree, AddWrite, GotoFrom
<1>2. n \in Slots /\ n # p_node[t]
  BY <1>1 DEF ItemAt, Has
<1>3. node'[n] = node[n]
  BY <1>1, <1>2 DEF AddWrite, Inv, CountInv, TypeOK
<1>4. node[n].data_ptr # node[p_node[t]].data_ptr
  BY <1>1, <1>2 DEF Inv, DataFollowsKey
<1>5. data'[node[n].data_ptr] = data[node[n].data_ptr]
  BY <1>4 DEF AddWrite, Inv, CountInv, TypeOK
<1>. QED
  BY <1>2, <1>3, <1>5 DEF ItemAt, Has

\* The flag sorted is dropped by every write that may disturb the order.
LEMMA SortedPreserved ==
    ASSUME Base, NEW t \in Tasks, Act(t)
    PROVE  SortedFlagSound'
<1>1. CASE Sort(t)
  BY <1>1 DEF Sort, SortedFlagSound, Ordered
<1>2. CASE AddWrite(t) \/ Clear(t) \/ RemoveNode(t)
  BY <1>2 DEF AddWrite, Clear, RemoveNode, DropsFlag, SortedFlagSound
<1>3. CASE ~Writes(t)
  BY <1>3, QuietStep DEF Base, SortedFlagSound, Ordered
<1>. QED
  BY <1>1, <1>2, <1>3 DEF Writes

\* A write leaves with each used node the block its item was stored in.
LEMMA DataPreserved ==
    ASSUME Base, NEW t \in Tasks, Act(t)
    PROVE  DataFollowsKey'
<1>. USE DEF DataFollowsKey, Used
<1>1. CASE AddWrite(t)
  <2>1. /\ p_node[t] \in Slots /\ arg[t] \in Keys
        /\ node' = [node EXCEPT ![p_node[t]] = Fill(@, arg[t])]
        /\ data' = [data EXCEPT ![node[p_node[t]].data_ptr] = arg[t]]
    BY <1>1 DEF AddWrite, GotoFrom, Base, Control
  <2>2. \A i \in Slots : node'[i].data_ptr = node[i].data_ptr
    BY <2>1, NodeTyped DEF Base, Typed
  <2>3. \A i \in Slots \ {p_node[t]} : node'[i] = node[i]
    BY <2>1 DEF Base, Typed
  <2>4. ASSUME NEW i \in Slots, node'[i].valid
        PROVE  data'[node'[i].data_ptr] = node'[i].key
    <3>1. CASE i = p_node[t]
      <4>1. node'[i].key = arg[t] /\ node[i].data_ptr \in Slots
        BY <2>1, <3>1 DEF Base, Typed, Node, Fill
      <4>. QED
        BY <2>1, <2>2, <3>1, <4>1 DEF Base, Typed
    <3>2. CASE i # p_node[t]
      <4>1. ItemAt(i, node[i].key)
        BY <2>3, <2>4, <3>2 DEF ItemAt, Has, Base
      <4>2. ItemAt(i, node[i].key)'
        <5>. DEFINE k == node[i].key
        <5>1. data[node[i].data_ptr] = data'[node[i].data_ptr]
          BY <2>1, <3>2 DEF Base, Typed
        <5>. QED
          BY <4>1, <5>1, <2>3, <3>2 DEF ItemAt, Has
      <4>. QED
        BY <4>2 DEF ItemAt
    <3>. QED
      BY <3>1, <3>2
  <2>. QED
    BY <2>2, <2>4 DEF Base
<1>2. CASE Clear(t)
  BY <1>2, NodeTyped DEF Clear, Vacate, Base
<1>3. CASE Sort(t)
  <2>1. PICK p \in Bijection(Slots, Slots) : node' = Rearranged(p)
    BY <1>3 DEF Sort
  <2>2. /\ p \in [Slots -> Slots]
        /\ \A i, j \in Slots : p[i] = p[j] => i = j
    BY <2>1 DEF Bijection, Injection, IsInjective
  <2>3. \A i \in Slots : node'[i] = node[p[i]] /\ p[i] \in Slots
    BY <2>1, <2>2 DEF Rearranged
  <2>4. data' = data
    BY <1>3 DEF Sort
  <2>. QED
    BY <2>2, <2>3, <2>4 DEF Base
<1>4. CASE RemoveNode(t)
  <2>1. p_node[t] \in Slots
    BY <1>4, ConstantFacts DEF RemoveNode, GotoFrom, Base, Control
  <2>2. /\ \A i \in Slots : node'[i].data_ptr = node[i].data_ptr
        /\ \A i \in Slots \ {p_node[t]} : node'[i] = node[i]
        /\ ~node'[p_node[t]].valid
    BY <2>1, <1>4 DEF RemoveNode, Vacate, Base, Typed
  <2>3. data' = data
    BY <1>4 DEF RemoveNode
  <2>. QED
    BY <2>1, <2>2, <2>3 DEF Base
<1>5. CASE ~Writes(t)
  BY <1>5, QuietStep DEF Base
<1>. QED
  BY <1>1, <1>2, <1>3, <1>4, <1>5 DEF Writes

\* A step of one task does not move another or change what it holds.
LEMMA OthersPrivate ==
    ASSUME Inv, NEW t \in Tasks, Act(t), NEW s \in Tasks \ {t}
    PROVE  /\ pc'[s] = pc[s] /\ op'[s] = op[s]
           /\ arg'[s] = arg[s] /\ p_node'[s] = p_node[s]
<1>. USE DEF Inv, CountInv, TypeOK
<1>1. CASE Writes(t)
  BY <1>1, InvBase, WriterAlone
<1>2. CASE ~Writes(t)
  BY <1>2 DEF Act, Step, Writes, Call, Lock, Check, Unlock, Return, AddScan, Search, Walk, At,
              NodeCheck, Spin, Reading, Private, Goto, GotoFrom, Result
<1>. QED
  BY <1>1, <1>2

\* After its own step, what a task holds or removes is still its item.
LEMMA OwnItemPreserved ==
    ASSUME Inv, NEW t \in Tasks, Act(t), (Removing(t) \/ Holding(t))'
    PROVE  ItemAt(p_node[t], arg[t])'
<1>. USE DEF Removing, Holding, Goto, GotoFrom, Result, Private, Reading
<1>1. CASE AddWrite(t)
  <2>1. /\ p_node[t] \in Slots /\ arg[t] \in Keys
        /\ node' = [node EXCEPT ![p_node[t]] = Fill(@, arg[t])]
        /\ data' = [data EXCEPT ![node[p_node[t]].data_ptr] = arg[t]]
        /\ p_node' = p_node /\ arg' = arg
    BY <1>1 DEF AddWrite, Inv, CountInv, Control
  <2>2. node'[p_node[t]] = Fill(node[p_node[t]], arg[t]) /\ node[p_node[t]].data_ptr \in Slots
    BY <2>1 DEF Inv, CountInv, TypeOK, Node
  <2>. QED
    BY <2>1, <2>2, NodeTyped DEF ItemAt, Has, Inv, CountInv, TypeOK
<1>2. CASE Clear(t) \/ Sort(t) \/ RemoveNode(t)
  BY <1>2, InvBase, WriterAlone DEF Writes, Clear, Sort, RemoveNode, Removes, Inv
<1>3. CASE Search(t)
  <2>1. PICK n \in Found(arg[t]) : p_node' = [p_node EXCEPT ![t] = n]
    BY <1>3 DEF Search
  <2>2. n # NULL /\ p_node'[t] = n /\ arg' = arg
    BY <2>1, <1>3 DEF Search, Inv, CountInv, TypeOK
  <2>3. n \in Slots /\ Has(n, arg[t])
    BY <2>1, <2>2 DEF Found, BinarySearch, GeneralSearch
  <2>. QED
    BY <2>2, <2>3, <1>3 DEF Search, ItemAt, Has, Inv, DataFollowsKey, Used
<1>4. CASE Lock(t) \/ Unlock(t) \/ NodeCheck(t) \/ Spin(t)
  <2>1. UNCHANGED <<op, arg, p_node, list>>
    BY <1>4 DEF Lock, Unlock, NodeCheck, Spin
  <2>2. pc'[t] \in {"search_unlock", "node_check", "node_lock", "unlock", "return"}
        => Removing(t) \/ Holding(t)
    BY <1>4, <2>1 DEF Lock, Unlock, NodeCheck, Spin, Inv, CountInv, TypeOK, Control, Removes
  <2>3. pc'[t] = "body" /\ op[t] \in Removes => Removing(t)
    BY <1>4, <2>1 DEF Lock, Unlock, NodeCheck, Spin, Inv, CountInv, TypeOK, Control, Removes
  <2>. QED
    BY <2>1, <2>2, <2>3 DEF Inv, ItemAt, Has
<1>5. CASE Call(t) \/ Check(t) \/ Return(t) \/ AddScan(t) \/ Walk(t) \/ At(t)
  BY <1>5 DEF Call, Check, Return, AddScan, Walk, At, Inv, CountInv, TypeOK, Control, Removes
<1>. QED
  BY <1>1, <1>2, <1>3, <1>4, <1>5 DEF Act, Step

\* After anyone's step, what a task holds or removes is still its item.
LEMMA ItemPreserved ==
    ASSUME Inv, SingleManager, NEW t \in Tasks, Act(t),
           NEW s \in Tasks, (Removing(s) \/ Holding(s))'
    PROVE  ItemAt(p_node[s], arg[s])'
<1>1. CASE s = t
  BY <1>1, OwnItemPreserved
<1>2. CASE s # t
  <2>1. /\ ItemAt(p_node[s], arg[s]) /\ Calls[s] \cap Destructive # {}
        /\ p_node'[s] = p_node[s] /\ arg'[s] = arg[s]
    BY <1>2, OthersPrivate, HolderManages DEF Inv, Removing, Holding
  <2>2. CASE AddWrite(t)
    BY <2>1, <2>2, AddKeepsItems DEF ItemAt, Has
  <2>3. CASE Clear(t) \/ Sort(t) \/ RemoveNode(t)
    <3>1. Calls[t] \cap Destructive # {}
      BY <2>3 DEF Clear, Sort, RemoveNode, GotoFrom, Inv, CountInv, Control, Destructive
    <3>. QED
      BY <1>2, <2>1, <3>1 DEF SingleManager
  <2>4. CASE ~Writes(t)
    BY <2>1, <2>4, QuietStep DEF ItemAt, Has
  <2>. QED
    BY <2>2, <2>3, <2>4 DEF Writes
<1>. QED
  BY <1>1, <1>2

----------------------------------------------------------------------------
\* The list is initialised into the invariant.
LEMMA InvInit ==
    ASSUME Init
    PROVE  Inv
<1>1. TypeOK
  <2>1. NotWalked \in Walks
    BY DEF NotWalked, Walks
  <2>2. 0 \in 0 .. SizeMax
    BY ConstantFacts
  <2>3. node \in [Slots -> Node]
    BY DEF Init, Node
  <2>. QED
    BY <2>1, <2>2, <2>3 DEF Init, TypeOK, PCs
<1>2. Used = {}
  BY DEF Init, Used
<1>3. CountMatches
  BY <1>2, FS_EmptySet DEF Init, CountMatches
<1>4. MutexExclusive /\ Control /\ TargetFree /\ RemovesItsItem
  BY DEF Init, MutexExclusive, Holds, Locked, Control, TargetFree, RemovesItsItem
<1>5. SortedFlagSound /\ DataFollowsKey
  BY <1>2 DEF Init, SortedFlagSound, DataFollowsKey
<1>6. \A t \in Tasks : ~Removing(t) /\ ~Holding(t)
  BY DEF Init, Removing, Holding
<1>. QED
  BY <1>1, <1>3, <1>4, <1>5, <1>6 DEF Inv, CountInv

\* Every step keeps the invariant, if one task does all the removing.
LEMMA InvNext ==
    ASSUME Inv, SingleManager, [Next]_vars
    PROVE  Inv'
<1>1. CASE UNCHANGED vars
  BY <1>1 DEF Inv, CountInv, TypeOK, Control, MutexExclusive, Holds, TargetFree, CountMatches,
              Used, RemovesItsItem, Has, SortedFlagSound, Ordered, DataFollowsKey, Removing,
              Holding, ItemAt
<1>2. CASE Next
  <2>1. PICK t \in Tasks : Act(t)
    BY <1>2 DEF Next
  <2>2. TypeOK' /\ Control' /\ MutexExclusive' /\ TargetFree' /\ CountMatches'
    BY <2>1, InvBase, TypePreserved, ControlPreserved, MutexPreserved, TargetPreserved,
       CountPreserved DEF Inv
  <2>3. SortedFlagSound' /\ DataFollowsKey'
    BY <2>1, InvBase, SortedPreserved, DataPreserved
  <2>4. \A s \in Tasks : (Removing(s) \/ Holding(s))' => ItemAt(p_node[s], arg[s])'
    BY <2>1, ItemPreserved
  <2>5. RemovesItsItem'
    BY <2>4 DEF RemovesItsItem, Removing, ItemAt, Has
  <2>. QED
    BY <2>2, <2>3, <2>4, <2>5 DEF Inv, CountInv
<1>. QED
  BY <1>1, <1>2

\* What holds whatever the tasks call holds throughout.
LEMMA BaseAlways == Spec => []Base
<1>1. Init => Base
  BY InvInit, InvBase
<1>2. Base /\ [Next]_vars => Base'
  <2>. SUFFICES ASSUME Base, [Next]_vars
                PROVE  Base'
    OBVIOUS
  <2>1. CASE UNCHANGED vars
    BY <2>1 DEF Base, Typed, Control, MutexExclusive, Holds, TargetFree, Used,
                SortedFlagSound, Ordered, DataFollowsKey
  <2>2. CASE Next
    <3>1. PICK t \in Tasks : Act(t)
      BY <2>2 DEF Next
    <3>. QED
      BY <3>1, TypedPreserved, ControlPreserved, MutexPreserved, TargetPreserved,
         SortedPreserved, DataPreserved DEF Base
  <2>. QED
    BY <2>1, <2>2
<1>. QED
  BY <1>1, <1>2, PTL DEF Spec

\* The invariant holds throughout, if one task does all the removing.
LEMMA InvAlways ==
    ASSUME SingleManager
    PROVE  Spec => []Inv
<1>1. Init => Inv
  BY InvInit
<1>2. Inv /\ [Next]_vars => Inv'
  BY InvNext
<1>. QED
  BY <1>1, <1>2, PTL DEF Spec

\* Every variable of kv_list.c's model keeps its type.
THEOREM TypeCorrect ==
    ASSUME SingleManager
    PROVE  Spec => []TypeOK
<1>1. Inv => TypeOK
  BY DEF Inv, CountInv
<1>. QED
  BY <1>1, InvAlways, PTL

\* The semaphore in kv_list_t keeps all but one task out of the locked code,
\* whatever the tasks call.
THEOREM MutexCorrect == Spec => []MutexExclusive
<1>1. Base => MutexExclusive
  BY DEF Base
<1>. QED
  BY <1>1, BaseAlways, PTL

\* kv_list_t.count is the number of used nodes, however the tests before the
\* lock in kv_list_add and kv_list_remove_node interleave with other tasks.
THEOREM CountCorrect ==
    ASSUME SingleManager
    PROVE  Spec => []CountMatches
<1>1. Inv => CountMatches
  BY DEF Inv, CountInv
<1>. QED
  BY <1>1, InvAlways, PTL

\* kv_list_search only uses bsearch on an array that is in order, whatever the
\* tasks call.
THEOREM SortedFlagCorrect == Spec => []SortedFlagSound
<1>1. Base => SortedFlagSound
  BY DEF Base
<1>. QED
  BY <1>1, BaseAlways, PTL

\* Adds, removals and sorts never part a key from its item, whatever the tasks
\* call: not even when a node is removed twice.
THEOREM DataCorrect == Spec => []DataFollowsKey
<1>1. Base => DataFollowsKey
  BY DEF Base
<1>. QED
  BY <1>1, BaseAlways, PTL

\* kv_list_remove_node invalidates the node its caller searched for.
THEOREM RemoveCorrect ==
    ASSUME SingleManager
    PROVE  Spec => []RemovesItsItem
<1>1. Inv => RemovesItsItem
  BY DEF Inv, CountInv
<1>. QED
  BY <1>1, InvAlways, PTL

\* The node pointer the manager got stays its item after the unlock.
THEOREM UseCorrect ==
    ASSUME SingleManager
    PROVE  Spec => []ManagerUsesItsItem
<1>1. Inv => ManagerUsesItsItem
  BY DEF Inv, ManagerUsesItsItem, Holding, ItemAt, Has
<1>. QED
  BY <1>1, InvAlways, PTL
----------------------------------------------------------------------------
(***************************************************************************)
(* KvList implements KvMap.  What the mapping says of the whole list and   *)
(* of one task:                                                            *)
(***************************************************************************)
SlotsOf(k)   == {i \in Slots : Has(i, k)}
Items        == BagOf([i \in Used |-> node[i].key])
RequestOf(t) == IF Promised(t) THEN [op |-> op[t], key |-> arg[t]]
                ELSE [op |-> "none", key |-> KV_KEY_INVALID]
AnswerOf(t)  == LET done == Promised(t) /\ Decided(t) IN
                [done |-> done, ok |-> done /\ Succeeds(t), seen |-> BagOf(walked[t])]
Requests     == [t \in Tasks |-> RequestOf(t)]
Answers      == [t \in Tasks |-> AnswerOf(t)]

\* A used node has a key of a caller, never KV_KEY_INVALID.
UsedKeyed == \A i \in Used : node[i].key \in Keys

\* What a task carries at each place, as far as the mapping reads it.
Carries == \A t \in Tasks :
    /\ pc[t] = "idle" => op[t] = "none" /\ arg[t] = KV_KEY_INVALID
    /\ pc[t] = "check" => op[t] \in {"add", "at"}
    /\ pc[t] = "spin" => op[t] = "at"
    /\ pc[t] = "fault" => op[t] \in Removes /\ p_node[t] = NULL
    /\ walked[t] # NotWalked => op[t] = "walk" /\ pc[t] \in {"unlock", "return"}

MapInv == Inv /\ UsedKeyed /\ Carries

----------------------------------------------------------------------------
\* The nodes of one key can be counted.
LEMMA SlotsCounted ==
    ASSUME NEW k
    PROVE  /\ IsFiniteSet(SlotsOf(k))
           /\ Cardinality(SlotsOf(k)) \in 0 .. Depth
           /\ Cardinality(SlotsOf(k)) = 0 <=> SlotsOf(k) = {}
<1>1. IsFiniteSet(Slots) /\ Cardinality(Slots) = Depth
  BY ConstantsAssumption, FS_Interval
<1>2. SlotsOf(k) \subseteq Slots
  BY DEF SlotsOf
<1>. QED
  BY <1>1, <1>2, FS_Subset, FS_CardinalityType, FS_EmptySet, ConstantFacts

\* The bag counts the nodes of each key.
LEMMA ItemsAre == Items = [k \in Keys |-> Cardinality(SlotsOf(k))]
<1>. DEFINE f == [i \in Used |-> node[i].key]
<1>1. \A k \in Keys : {i \in DOMAIN f : f[i] = k} = SlotsOf(k)
  BY DEF Used, SlotsOf, Has
<1>. QED
  BY <1>1 DEF Items, BagOf

\* The same after a step.
LEMMA ItemsNext == Items' = [k \in Keys |-> Cardinality(SlotsOf(k)')]
<1>1. (Items = [k \in Keys |-> Cardinality(SlotsOf(k))])'
  BY ItemsAre, PTL
<1>. QED
  BY <1>1

\* The bag holds as many items as there are used nodes: number the nodes of
\* each key, and pair the key with the number.
LEMMA SizeIs ==
    ASSUME TypeOK, UsedKeyed
    PROVE  Map!Size = Cardinality(Used)
<1>. DEFINE U == {u \in Keys \X (1 .. Depth) : u[2] <= Items[u[1]]}
            B(k) == Bijection(1 .. Items[k], SlotsOf(k))
            g == [k \in Keys |-> CHOOSE b : b \in B(k)]
            F == [u \in U |-> g[u[1]][u[2]]]
<1>1. Map!Size = Cardinality(U)
  <2>1. Map!Units = U
    BY DEF Map!Units, Items
  <2>. QED
    BY <2>1, Zenon DEF Map!Size, Map!Cardinality, Cardinality
<1>2. ASSUME NEW k \in Keys
      PROVE  Items[k] \in 0 .. Depth /\ g[k] \in B(k)
  <2>1. Items[k] = Cardinality(SlotsOf(k))
    BY ItemsAre
  <2>2. ExistsBijection(1 .. Items[k], SlotsOf(k))
    BY <2>1, SlotsCounted, FS_CardinalityType
  <2>3. \E b : b \in B(k)
    BY <2>2, Fun_ExistsBij
  <2>. HIDE DEF B
  <2>4. g[k] \in B(k)
    BY <2>3
  <2>. QED
    BY <2>1, <2>4, SlotsCounted
<1>. HIDE DEF g
<1>3. ASSUME NEW k \in Keys
      PROVE  /\ g[k] \in [1 .. Items[k] -> SlotsOf(k)]
             /\ \A i, j \in 1 .. Items[k] : g[k][i] = g[k][j] => i = j
             /\ \A n \in SlotsOf(k) : \E i \in 1 .. Items[k] : g[k][i] = n
  BY <1>2, Fun_BijectionProperties
<1>4. ASSUME NEW u \in U
      PROVE  /\ u[1] \in Keys /\ u[2] \in 1 .. Items[u[1]]
             /\ u = <<u[1], u[2]>> /\ F[u] \in SlotsOf(u[1])
  <2>1. u[1] \in Keys /\ u[2] \in 1 .. Depth /\ u[2] <= Items[u[1]] /\ u = <<u[1], u[2]>>
    OBVIOUS
  <2>2. u[2] \in 1 .. Items[u[1]]
    BY <2>1, <1>2, ConstantFacts
  <2>. QED
    BY <2>1, <2>2, <1>3
<1>5. F \in [U -> Used]
  BY <1>4 DEF SlotsOf, Has, Used
<1>6. ASSUME NEW u \in U, NEW v \in U, F[u] = F[v]
      PROVE  u = v
  <2>1. node[F[u]].key = u[1] /\ node[F[v]].key = v[1]
    BY <1>4 DEF SlotsOf, Has
  <2>2. u[1] = v[1]
    BY <2>1, <1>6
  <2>3. u[2] = v[2]
    BY <2>2, <1>3, <1>4, <1>6
  <2>. QED
    BY <2>2, <2>3, <1>4
<1>7. ASSUME NEW n \in Used
      PROVE  \E u \in U : F[u] = n
  <2>. DEFINE k == node[n].key
  <2>1. k \in Keys /\ n \in SlotsOf(k)
    BY DEF UsedKeyed, SlotsOf, Has, Used
  <2>2. PICK i \in 1 .. Items[k] : g[k][i] = n
    BY <2>1, <1>3
  <2>3. i \in 1 .. Depth /\ i <= Items[k]
    <3>1. Items[k] \in 0 .. Depth
      BY <2>1, <1>2
    <3>2. i \in Nat /\ 1 <= i /\ i <= Items[k] /\ Items[k] \in Nat /\ Items[k] <= Depth
      BY <3>1, ConstantFacts
    <3>. QED
      BY <3>2, ConstantFacts
  <2>4. <<k, i>> \in U
    BY <2>1, <2>3
  <2>. QED
    BY <2>2, <2>4
<1>8. F \in Bijection(U, Used)
  BY <1>5, <1>6, <1>7, Fun_IsBij
<1>9. ExistsBijection(Used, U)
  BY <1>8, Fun_ExistsBij, Fun_ExistsBijSymmetric
<1>. QED
  BY <1>1, <1>9, UsedCounted, FS_Bijection

----------------------------------------------------------------------------
\* kv_list_add gives one more item to the key, whose node was free.
LEMMA AddItems ==
    ASSUME Inv, NEW t \in Tasks, AddWrite(t)
    PROVE  /\ arg[t] \in Keys /\ p_node[t] \in Slots \ Used
           /\ Items' = [Items EXCEPT ![arg[t]] = @ + 1]
<1>. DEFINE n == p_node[t]
<1>1. n \in Slots /\ n \notin Used /\ arg[t] \in Keys
  BY DEF AddWrite, GotoFrom, Inv, CountInv, Control, TargetFree, Used
<1>2. /\ node'[n].valid /\ node'[n].key = arg[t]
      /\ \A i \in Slots \ {n} : node'[i] = node[i]
  BY <1>1, NodeTyped DEF AddWrite, Inv, CountInv, TypeOK
<1>3. ASSUME NEW k \in Keys
      PROVE  SlotsOf(k)' = IF k = arg[t] THEN SlotsOf(k) \cup {n} ELSE SlotsOf(k)
  BY <1>1, <1>2 DEF SlotsOf, Has, Used
<1>4. n \notin SlotsOf(arg[t])
  BY <1>1 DEF SlotsOf, Has, Used
<1>5. Cardinality(SlotsOf(arg[t]) \cup {n}) = Cardinality(SlotsOf(arg[t])) + 1
  BY <1>4, SlotsCounted, FS_AddElement
<1>. QED
  BY <1>1, <1>3, <1>5, ItemsAre, ItemsNext

\* kv_list_remove_node takes one item from the key.
LEMMA RemoveItems ==
    ASSUME Inv, NEW t \in Tasks, RemoveNode(t)
    PROVE  /\ arg[t] \in Keys /\ p_node[t] \in Slots /\ Items[arg[t]] > 0
           /\ Items' = [Items EXCEPT ![arg[t]] = @ - 1]
<1>. DEFINE n == p_node[t]
<1>1. n \in Slots /\ Has(n, arg[t]) /\ arg[t] \in Keys
  BY ConstantFacts DEF RemoveNode, GotoFrom, Inv, CountInv, Control, RemovesItsItem
<1>2. /\ ~node'[n].valid
      /\ \A i \in Slots \ {n} : node'[i] = node[i]
  BY <1>1 DEF RemoveNode, Vacate, Inv, CountInv, TypeOK
<1>3. ASSUME NEW k \in Keys
      PROVE  SlotsOf(k)' = IF k = arg[t] THEN SlotsOf(k) \ {n} ELSE SlotsOf(k)
  BY <1>1, <1>2 DEF SlotsOf, Has
<1>4. n \in SlotsOf(arg[t])
  BY <1>1 DEF SlotsOf
<1>5. Cardinality(SlotsOf(arg[t]) \ {n}) = Cardinality(SlotsOf(arg[t])) - 1
  BY <1>4, SlotsCounted, FS_RemoveElement
<1>6. Cardinality(SlotsOf(arg[t])) > 0
  BY <1>4, SlotsCounted, ConstantFacts
<1>. QED
  BY <1>1, <1>3, <1>5, <1>6, ItemsAre, ItemsNext

\* kv_list_clear empties the bag.
LEMMA ClearItems ==
    ASSUME NEW t \in Tasks, Clear(t)
    PROVE  Items' = [k \in Keys |-> 0]
<1>1. \A k \in Keys : SlotsOf(k)' = {}
  BY DEF Clear, Vacate, SlotsOf, Has
<1>. QED
  BY <1>1, ItemsNext, FS_EmptySet

\* qsort rearranges the nodes of each key among themselves.
LEMMA SortItems ==
    ASSUME TypeOK, NEW t \in Tasks, Sort(t)
    PROVE  Items' = Items
<1>1. PICK p \in Bijection(Slots, Slots) : node' = Rearranged(p)
  BY DEF Sort
<1>2. /\ p \in [Slots -> Slots]
      /\ \A i, j \in Slots : p[i] = p[j] => i = j
      /\ \A j \in Slots : \E i \in Slots : p[i] = j
  BY <1>1 DEF Bijection, Injection, Surjection, IsInjective
<1>3. \A i \in Slots : node'[i] = node[p[i]]
  BY <1>1 DEF Rearranged
<1>4. ASSUME NEW k \in Keys
      PROVE  Cardinality(SlotsOf(k)') = Cardinality(SlotsOf(k))
  <2>. DEFINE S == {i \in Slots : p[i] \in SlotsOf(k)}
              f == [i \in S |-> p[i]]
  <2>1. SlotsOf(k)' = S
    BY <1>2, <1>3 DEF SlotsOf, Has
  <2>2. f \in Bijection(S, SlotsOf(k))
    <3>1. f \in [S -> SlotsOf(k)]
      OBVIOUS
    <3>2. \A i, j \in S : f[i] = f[j] => i = j
      BY <1>2
    <3>3. \A j \in SlotsOf(k) : \E i \in S : f[i] = j
      BY <1>2 DEF SlotsOf
    <3>. QED
      BY <3>1, <3>2, <3>3, Fun_IsBij
  <2>3. ExistsBijection(SlotsOf(k), S)
    BY <2>2, Fun_ExistsBij, Fun_ExistsBijSymmetric
  <2>. QED
    BY <2>1, <2>3, SlotsCounted, FS_Bijection
<1>. QED
  BY <1>4, ItemsAre, ItemsNext

\* A step that is not a write leaves the bag alone.
LEMMA SameItems ==
    ASSUME UNCHANGED node
    PROVE  Items' = Items
BY DEF Items, BagOf, Used

\* Sorted or not, kv_list_search finds a node just when there is an item of the
\* key: the flag vouches for bsearch, and count for the other search, which
\* passes fewer than count used nodes before any of them.
LEMMA FoundRight ==
    ASSUME Inv, NEW k \in Keys, NEW n \in Found(k)
    PROVE  n # NULL <=> Items[k] > 0
<1>. DEFINE hits == {i \in Slots : Has(i, k) /\ Cardinality({j \in Used : j < i}) < count}
<1>1. Items[k] > 0 <=> SlotsOf(k) # {}
  BY ItemsAre, SlotsCounted, ConstantFacts
<1>2. NULL \notin SlotsOf(k)
  BY ConstantFacts DEF SlotsOf
<1>3. CASE sorted
  BY <1>1, <1>2, <1>3 DEF Found, BinarySearch, SlotsOf, Inv, SortedFlagSound
<1>4. CASE ~sorted
  <2>1. ASSUME NEW i \in SlotsOf(k)
        PROVE  Cardinality({j \in Used : j < i}) < count
    <3>. DEFINE S == {j \in Used : j < i}
    <3>1. i \in Used /\ i \in Nat
      BY DEF SlotsOf, Has, Used
    <3>2. S \subseteq Used \ {i}
      BY <3>1
    <3>3. /\ IsFiniteSet(Used \ {i}) /\ Cardinality(Used \ {i}) = Cardinality(Used) - 1
          /\ Cardinality(Used) \in Nat /\ count = Cardinality(Used)
      BY <3>1, UsedCounted, FS_RemoveElement DEF Inv, CountInv, CountMatches
    <3>4. Cardinality(S) <= Cardinality(Used \ {i}) /\ Cardinality(S) \in Nat
      BY <3>2, <3>3, FS_Subset, FS_CardinalityType
    <3>. QED
      BY <3>3, <3>4
  <2>2. hits = SlotsOf(k)
    BY <2>1 DEF SlotsOf
  <2>3. n \in IF hits = {} THEN {NULL} ELSE {i \in hits : \A j \in hits : i <= j}
    BY <1>4 DEF Found, GeneralSearch
  <2>. QED
    BY <1>1, <1>2, <2>2, <2>3
<1>. QED
  BY <1>3, <1>4
----------------------------------------------------------------------------
\* Adds give a node one of the callers' keys, sorts move nodes whole.
LEMMA KeyedPreserved ==
    ASSUME MapInv, NEW t \in Tasks, Act(t)
    PROVE  UsedKeyed'
<1>. USE DEF MapInv, UsedKeyed, Used
<1>1. CASE AddWrite(t)
  <2>1. p_node[t] \in Slots /\ arg[t] \in Keys
    BY <1>1 DEF AddWrite, GotoFrom, Inv, CountInv, Control
  <2>. QED
    BY <1>1, <2>1, NodeTyped DEF AddWrite, Inv, CountInv, TypeOK
<1>2. CASE Clear(t)
  BY <1>2, NodeTyped DEF Clear, Vacate
<1>3. CASE Sort(t)
  <2>1. PICK p \in Bijection(Slots, Slots) : node' = Rearranged(p)
    BY <1>3 DEF Sort
  <2>2. p \in [Slots -> Slots]
    BY <2>1 DEF Bijection, Injection
  <2>. QED
    BY <2>1, <2>2 DEF Rearranged
<1>4. CASE RemoveNode(t)
  <2>1. p_node[t] \in Slots
    BY <1>4, ConstantFacts DEF RemoveNode, GotoFrom, Inv, CountInv, Control
  <2>. QED
    BY <1>4, <2>1 DEF RemoveNode, Vacate, Inv, CountInv, TypeOK
<1>5. CASE ~Writes(t)
  BY <1>5, QuietStep
<1>. QED
  BY <1>1, <1>2, <1>3, <1>4, <1>5 DEF Writes

\* Nor does a step change what another task has copied out.
LEMMA OthersWalked ==
    ASSUME Inv, NEW t \in Tasks, Act(t), NEW s \in Tasks \ {t}
    PROVE  walked'[s] = walked[s]
BY DEF Act, Step, Call, Lock, Check, Unlock, Return, AddScan, AddWrite, Clear, Sort, Search,
       Walk, At, NodeCheck, RemoveNode, Spin, Reading, Private, Inv, CountInv, TypeOK

\* What a task carries fits its place, after its own step.
LEMMA OwnCarries ==
    ASSUME MapInv, NEW t \in Tasks, Act(t)
    PROVE  /\ pc'[t] = "idle" => op'[t] = "none" /\ arg'[t] = KV_KEY_INVALID
           /\ pc'[t] = "check" => op'[t] \in {"add", "at"}
           /\ pc'[t] = "spin" => op'[t] = "at"
           /\ pc'[t] = "fault" => op'[t] \in Removes /\ p_node'[t] = NULL
           /\ walked'[t] # NotWalked => op'[t] = "walk" /\ pc'[t] \in {"unlock", "return"}
<1>. USE DEF MapInv, Inv, CountInv, TypeOK, Control, Carries, Goto, GotoFrom, Result,
             Reading, Private, Removes
<1>1. CASE Call(t)
  BY <1>1 DEF Call
<1>2. CASE Lock(t)
  BY <1>2 DEF Lock
<1>3. CASE Check(t) \/ Unlock(t) \/ Return(t) \/ AddScan(t)
  BY <1>3 DEF Check, Unlock, Return, AddScan
<1>4. CASE Writes(t)
  BY <1>4 DEF Writes, AddWrite, Clear, Sort, RemoveNode
<1>5. CASE Search(t) \/ Walk(t) \/ At(t)
  BY <1>5 DEF Search, Walk, At
<1>6. CASE NodeCheck(t)
  BY <1>6 DEF NodeCheck
<1>7. CASE Spin(t)
  BY <1>7 DEF Spin
<1>. QED
  BY <1>1, <1>2, <1>3, <1>4, <1>5, <1>6, <1>7 DEF Act, Step, Writes

\* Every step keeps the mapping's invariant.
LEMMA MapInvNext ==
    ASSUME MapInv, SingleManager, [Next]_vars
    PROVE  MapInv'
<1>1. Inv'
  BY InvNext DEF MapInv
<1>2. CASE UNCHANGED vars
  BY <1>1, <1>2 DEF MapInv, UsedKeyed, Used, Carries
<1>3. CASE Next
  <2>1. PICK t \in Tasks : Act(t)
    BY <1>3 DEF Next
  <2>2. UsedKeyed'
    BY <2>1, KeyedPreserved
  <2>3. Carries'
    <3>1. \A s \in Tasks \ {t} : /\ pc'[s] = pc[s] /\ op'[s] = op[s] /\ arg'[s] = arg[s]
                                 /\ p_node'[s] = p_node[s] /\ walked'[s] = walked[s]
      BY <2>1, OthersPrivate, OthersWalked DEF MapInv
    <3>. QED
      BY <2>1, <3>1, OwnCarries DEF MapInv, Carries
  <2>. QED
    BY <1>1, <2>2, <2>3 DEF MapInv
<1>. QED
  BY <1>2, <1>3

\* The list is initialised into it.
LEMMA MapInvInit == Init => MapInv
<1>. SUFFICES ASSUME Init PROVE MapInv
  OBVIOUS
<1>1. Used = {}
  BY DEF Init, Used
<1>. QED
  BY <1>1, InvInit DEF Init, MapInv, UsedKeyed, Carries

----------------------------------------------------------------------------
\* A step of t changes t's request and answer, and no other's.
LEMMA Moves ==
    ASSUME MapInv, NEW t \in Tasks, Act(t)
    PROVE  /\ Requests' = [Requests EXCEPT ![t] = RequestOf(t)']
           /\ Answers' = [Answers EXCEPT ![t] = AnswerOf(t)']
<1>1. ASSUME NEW s \in Tasks \ {t}
      PROVE  RequestOf(s)' = RequestOf(s) /\ AnswerOf(s)' = AnswerOf(s)
  <2>1. /\ pc'[s] = pc[s] /\ op'[s] = op[s] /\ arg'[s] = arg[s]
        /\ p_node'[s] = p_node[s] /\ walked'[s] = walked[s]
    BY OthersPrivate, OthersWalked DEF MapInv
  <2>2. BagOf(walked[s])' = BagOf(walked[s])
    BY <2>1 DEF BagOf
  <2>. QED
    BY <2>1, <2>2 DEF RequestOf, AnswerOf, Promised, Decided, Succeeds
<1>. QED
  BY <1>1 DEF Requests, Answers

\* A step that changes neither the bag nor what t asked and was told is no step of
\* KvMap.
LEMMA Stutters ==
    ASSUME MapInv, NEW t \in Tasks, Act(t), Items' = Items,
           RequestOf(t)' = RequestOf(t), AnswerOf(t)' = AnswerOf(t)
    PROVE  UNCHANGED Map!vars
<1>1. Requests' = Requests /\ Answers' = Answers
  BY Moves DEF Requests, Answers
<1>. QED
  BY <1>1 DEF Map!vars, Items, Requests, Answers, RequestOf, AnswerOf
\* A task that has walked nothing has been shown no keys.
LEMMA NothingSeen ==
    /\ BagOf(NotWalked) = [k \in Keys |-> 0]
    /\ BagOf(NotWalked)' = [k \in Keys |-> 0]
<1>1. \A k \in Keys : {i \in DOMAIN NotWalked : NotWalked[i] = k} = {}
  BY DEF NotWalked
<1>2. BagOf(NotWalked) = [k \in Keys |-> 0]
  BY <1>1, FS_EmptySet DEF BagOf
<1>. QED
  BY <1>2 DEF BagOf

\* A step that decides a call, and tells a.
LEMMA Answered ==
    ASSUME MapInv, NEW t \in Tasks, Act(t), NEW ops, NEW a, op[t] \in ops, op[t] # "at",
           ~Decided(t), op' = op, arg' = arg, AnswerOf(t)' = a
    PROVE  Map!Answer(t, ops, a)
<1>1. RequestOf(t)' = RequestOf(t) /\ RequestOf(t).op = op[t] /\ ~AnswerOf(t).done
  BY DEF RequestOf, AnswerOf, Promised
<1>2. Requests' = Requests /\ Answers' = [Answers EXCEPT ![t] = a]
  BY <1>1, Moves DEF Requests
<1>3. Requests[t].op \in ops /\ ~Answers[t].done
  BY <1>1 DEF Requests, Answers
<1>. QED
  BY <1>2, <1>3 DEF Map!Answer, Requests, Answers, RequestOf, AnswerOf

\* The key of a promised call.
LEMMA RequestKey ==
    ASSUME NEW t \in Tasks, op[t] # "at"
    PROVE  Requests[t].key = arg[t]
BY DEF Requests, RequestOf, Promised

\* kv_list_at is no step of KvMap: not its call, its tests, its result.
LEMMA AtStep ==
    ASSUME MapInv, MapInv', NEW t \in Tasks, Act(t),
           op[t] = "at" \/ (op[t] = "none" /\ op'[t] = "at")
    PROVE  UNCHANGED Map!vars
<1>. USE DEF MapInv, Carries
<1>1. ~Writes(t)
  BY DEF Writes, AddWrite, Clear, Sort, RemoveNode, Removes
<1>2. Items' = Items
  BY <1>1, QuietStep, SameItems
<1>3. op'[t] \in {"at", "none"} /\ (op'[t] = "none" => op[t] = "at" /\ pc'[t] = "idle")
  BY DEF Act, Step, Call, Lock, Check, Unlock, Return, AddScan, AddWrite, Clear, Sort, Search,
         Walk, At, NodeCheck, RemoveNode, Spin, Reading, Private, Goto, GotoFrom, Inv, CountInv,
         TypeOK, Control, Writes
<1>4. (op[t] = "none" => pc[t] = "idle" /\ arg[t] = KV_KEY_INVALID)
  BY ConstantsAssumption DEF Inv, CountInv, Control, Ops, Destructive, Removes
<1>5. op'[t] = "none" => pc'[t] = "idle" /\ arg'[t] = KV_KEY_INVALID
  BY <1>3
<1>6. walked[t] = NotWalked /\ walked'[t] = NotWalked
  BY <1>3, <1>4
<1>7. RequestOf(t)' = RequestOf(t)
  BY <1>3, <1>4, <1>5 DEF RequestOf, Promised
<1>8. /\ AnswerOf(t) = [done |-> FALSE, ok |-> FALSE, seen |-> BagOf(NotWalked)]
      /\ AnswerOf(t)' = [done |-> FALSE, ok |-> FALSE, seen |-> BagOf(NotWalked)]
  <2>1. BagOf(walked[t]) = BagOf(NotWalked) /\ BagOf(walked[t])' = BagOf(NotWalked)
    BY <1>6 DEF BagOf
  <2>2. ~(Promised(t) /\ Decided(t)) /\ ~(Promised(t) /\ Decided(t))'
    BY <1>3, <1>4, <1>5 DEF Promised, Decided
  <2>. QED
    BY <2>1, <2>2 DEF AnswerOf
<1>. QED
  BY <1>2, <1>7, <1>8, Stutters

\* Nor are the locks, the unlocks and kv_list_remove_node's test.
LEMMA LockStep ==
    ASSUME MapInv, NEW t \in Tasks, Lock(t) \/ Unlock(t) \/ NodeCheck(t) \/ Spin(t)
    PROVE  UNCHANGED Map!vars
<1>1. Act(t) /\ UNCHANGED <<node, op, arg, p_node, walked>>
  BY DEF Act, Step, Lock, Unlock, NodeCheck, Spin, Reading
<1>2. p_node[t] # NULL /\ pc[t] = "node_check" => node[p_node[t]].valid
  BY DEF MapInv, Inv, CountInv, Control, RemovesItsItem, Has
<1>3. Decided(t)' <=> Decided(t)
  BY <1>1, <1>2 DEF Decided, Lock, Unlock, NodeCheck, Spin, Goto, GotoFrom, MapInv, Inv, CountInv, TypeOK
<1>4. BagOf(walked[t])' = BagOf(walked[t])
  BY <1>1 DEF BagOf
<1>. QED
  BY <1>1, <1>3, <1>4, SameItems, Stutters DEF RequestOf, AnswerOf, Promised, Succeeds

\* The call itself.
LEMMA CallStep ==
    ASSUME MapInv, MapInv', NEW t \in Tasks, Call(t)
    PROVE  Map!Next \/ UNCHANGED Map!vars
<1>1. PICK o \in Calls[t], k \in Keys :
        /\ op' = [op EXCEPT ![t] = o]
        /\ arg' = [arg EXCEPT ![t] = k]
        /\ pc' = [pc EXCEPT ![t] = IF o \in {"add", "at"} THEN "check" ELSE "lock"]
  BY DEF Call, Goto
<1>2. /\ Act(t) /\ pc[t] = "idle" /\ op[t] = "none" /\ arg[t] = KV_KEY_INVALID
      /\ op'[t] = o /\ arg'[t] = k /\ pc'[t] \in {"check", "lock"}
      /\ UNCHANGED <<node, walked>>
  BY <1>1 DEF Call, Act, MapInv, Inv, CountInv, TypeOK, Carries
<1>3. CASE o = "at"
  BY <1>2, <1>3, AtStep
<1>4. CASE o # "at"
  <2>1. /\ RequestOf(t) = [op |-> "none", key |-> KV_KEY_INVALID]
        /\ RequestOf(t)' = [op |-> o, key |-> k]
    BY <1>2, <1>4 DEF RequestOf, Promised
  <2>2. AnswerOf(t)' = AnswerOf(t)
    <3>1. BagOf(walked[t])' = BagOf(walked[t])
      BY <1>2 DEF BagOf
    <3>2. ~Decided(t) /\ ~Decided(t)'
      BY <1>2 DEF Decided
    <3>. QED
      BY <3>1, <3>2 DEF AnswerOf
  <2>3. /\ Requests' = [Requests EXCEPT ![t] = [op |-> o, key |-> k]]
        /\ Requests[t] = [op |-> "none", key |-> KV_KEY_INVALID]
        /\ Answers' = Answers /\ Items' = Items
    BY <1>2, <2>1, <2>2, Moves, SameItems DEF Requests, Answers
  <2>4. Map!Call(t)
    BY <2>3 DEF Map!Call, Map!NoRequest, Requests, Answers, Items, RequestOf, AnswerOf
  <2>. QED
    BY <2>4 DEF Map!Next
<1>. QED
  BY <1>3, <1>4

\* The return.
LEMMA ReturnStep ==
    ASSUME MapInv, MapInv', NEW t \in Tasks, Return(t)
    PROVE  Map!Next \/ UNCHANGED Map!vars
<1>1. /\ Act(t) /\ pc[t] = "return" /\ pc'[t] = "idle" /\ op'[t] = "none"
      /\ arg'[t] = KV_KEY_INVALID /\ walked'[t] = NotWalked /\ UNCHANGED node
  BY DEF Return, Act, Step, Goto, GotoFrom, MapInv, Inv, CountInv, TypeOK
<1>2. CASE op[t] = "at"
  BY <1>1, <1>2, AtStep
<1>3. CASE op[t] # "at"
  <2>1. RequestOf(t)' = [op |-> "none", key |-> KV_KEY_INVALID]
    BY <1>1 DEF RequestOf, Promised
  <2>2. AnswerOf(t)' = [done |-> FALSE, ok |-> FALSE, seen |-> [k \in Keys |-> 0]]
    <3>1. BagOf(walked[t])' = BagOf(NotWalked)
      BY <1>1 DEF BagOf
    <3>2. ~Decided(t)'
      BY <1>1 DEF Decided
    <3>. QED
      BY <3>1, <3>2, NothingSeen DEF AnswerOf
  <2>3. AnswerOf(t).done
    BY <1>1, <1>3 DEF AnswerOf, Promised, Decided
  <2>4. /\ Requests' = [Requests EXCEPT ![t] = [op |-> "none", key |-> KV_KEY_INVALID]]
        /\ Answers' = [Answers EXCEPT ![t] =
                         [done |-> FALSE, ok |-> FALSE, seen |-> [k \in Keys |-> 0]]]
        /\ Answers[t].done /\ Items' = Items
    BY <1>1, <2>1, <2>2, <2>3, Moves, SameItems DEF Answers
  <2>5. Map!Return(t)
    BY <2>4 DEF Map!Return, Map!NoRequest, Map!Pending, Map!Empty, Requests, Answers, Items,
                RequestOf, AnswerOf
  <2>. QED
    BY <2>5 DEF Map!Next
<1>. QED
  BY <1>2, <1>3
\* What an add, a search, a removal, a clear, a sort and a walk tell when they
\* decide: only a walk brings keys.
LEMMA Tells ==
    ASSUME MapInv, MapInv', NEW t \in Tasks, op'[t] \notin {"at", "walk"}, Decided(t)'
    PROVE  AnswerOf(t)' = Map!Found(p_node'[t] # NULL \/ op'[t] \in {"clear", "sort"})
<1>1. walked'[t] = NotWalked
  BY DEF MapInv, Carries
<1>2. BagOf(walked[t])' = [k \in Keys |-> 0]
  BY <1>1, NothingSeen DEF BagOf
<1>. QED
  BY <1>2 DEF AnswerOf, Map!Found, Map!Empty, Promised, Succeeds

\* An add is refused before the lock, where count has reached depth, or after
\* it, where no free node was found: both when the bag is full.
LEMMA RefuseStep ==
    ASSUME MapInv, MapInv', NEW t \in Tasks, op[t] = "add", Check(t) \/ AddScan(t)
    PROVE  Map!Next \/ UNCHANGED Map!vars
<1>1. /\ Act(t) /\ UNCHANGED <<node, op, arg, walked>> /\ ~Decided(t)
      /\ Items' = Items /\ p_node[t] = NULL
  BY SameItems DEF Act, Step, Check, AddScan, Reading, Private, GotoFrom, Decided, MapInv, Inv,
                   CountInv, Control
<1>2. CASE Decided(t)'
  <2>1. p_node'[t] = NULL
    BY <1>1, <1>2 DEF Check, AddScan, Reading, Goto, GotoFrom, Result, MapInv, Inv, CountInv,
                      TypeOK, Decided
  <2>2. Cardinality(Used) = Depth
    <3>1. CASE Check(t)
      <4>1. count >= Depth
        BY <1>1, <1>2, <3>1 DEF Check, Goto, GotoFrom, MapInv, Inv, CountInv, TypeOK, Decided,
                                Refused
      <4>. QED
        BY <4>1, UsedCounted, ConstantFacts DEF MapInv, Inv, CountInv, CountMatches
    <3>2. CASE AddScan(t)
      <4>1. Used = Slots
        BY <1>1, <1>2, <3>2 DEF AddScan, Goto, GotoFrom, MapInv, Inv, CountInv, TypeOK, Decided
      <4>. QED
        BY <4>1, FS_Interval, ConstantsAssumption
    <3>. QED
      BY <3>1, <3>2
  <2>3. Map!Size = Depth
    BY <2>2, SizeIs DEF MapInv, Inv, CountInv
  <2>4. AnswerOf(t)' = Map!Found(FALSE)
    BY <1>1, <1>2, <2>1, Tells
  <2>5. Map!Answer(t, {"add"}, Map!Found(FALSE))
    <3>. DEFINE a == Map!Found(FALSE)
    <3>1. AnswerOf(t)' = a
      BY <2>4
    <3>. HIDE DEF a
    <3>2. Map!Answer(t, {"add"}, a)
      BY <1>1, <3>1, Answered
    <3>. QED
      BY <3>2 DEF a
  <2>6. Map!Add(t)
    BY <1>1, <2>3, <2>5 DEF Map!Add, Items
  <2>. QED
    BY <2>6 DEF Map!Next
<1>3. CASE ~Decided(t)'
  <2>1. BagOf(walked[t])' = BagOf(walked[t])
    BY <1>1 DEF BagOf
  <2>. QED
    BY <1>1, <1>3, <2>1, Stutters DEF RequestOf, AnswerOf, Promised
<1>. QED
  BY <1>2, <1>3

\* kv_list_add, where it fills the node.
LEMMA AddStep ==
    ASSUME MapInv, MapInv', NEW t \in Tasks, AddWrite(t)
    PROVE  Map!Next
<1>1. /\ Act(t) /\ op[t] = "add" /\ ~Decided(t) /\ Decided(t)' /\ UNCHANGED <<op, arg, p_node>>
  BY DEF Act, Step, AddWrite, Goto, GotoFrom, Private, Decided, MapInv, Inv, CountInv, TypeOK
<1>2. /\ arg[t] \in Keys /\ p_node[t] \in Slots \ Used
      /\ Items' = [Items EXCEPT ![arg[t]] = @ + 1]
  BY AddItems DEF MapInv
<1>3. AnswerOf(t)' = Map!Found(TRUE)
  BY <1>1, <1>2, Tells, ConstantFacts
<1>4. Map!Answer(t, {"add"}, Map!Found(TRUE))
  <2>. DEFINE a == Map!Found(TRUE)
  <2>1. AnswerOf(t)' = a
    BY <1>3
  <2>. HIDE DEF a
  <2>2. Map!Answer(t, {"add"}, a)
    BY <1>1, <2>1, Answered
  <2>. QED
    BY <2>2 DEF a
<1>5. Map!Size < Depth
  <2>1. IsFiniteSet(Slots) /\ Cardinality(Slots) = Depth
    BY FS_Interval, ConstantsAssumption
  <2>2. Used \subseteq Slots /\ Used # Slots
    BY <1>2 DEF Used
  <2>3. Cardinality(Used) # Depth
    BY <2>1, <2>2, FS_Subset
  <2>. QED
    BY <2>3, UsedCounted, SizeIs, ConstantFacts DEF MapInv, Inv, CountInv
<1>6. Requests[t].key = arg[t]
  BY <1>1, RequestKey
<1>7. Items' = [Items EXCEPT ![Requests[t].key] = @ + 1]
  BY <1>2, <1>6
<1>8. Map!Add(t)
  BY <1>4, <1>5, <1>7 DEF Map!Add, Items, Requests, RequestOf
<1>. QED
  BY <1>8 DEF Map!Next

\* kv_list_search, and a removal that finds nothing to remove.
LEMMA SearchStep ==
    ASSUME MapInv, MapInv', NEW t \in Tasks, Search(t)
    PROVE  Map!Next \/ UNCHANGED Map!vars
<1>1. /\ Act(t) /\ op[t] \in {"search"} \cup Removes /\ pc[t] = "find" /\ arg[t] \in Keys
      /\ ~Decided(t) /\ UNCHANGED <<node, op, arg, walked>> /\ Items' = Items
      /\ pc'[t] = IF op[t] = "search" THEN "unlock" ELSE "search_unlock"
  BY SameItems DEF Act, Step, Search, Goto, GotoFrom, Private, Decided, MapInv, Inv, CountInv,
                   Control, TypeOK
<1>2. PICK n \in Found(arg[t]) : p_node' = [p_node EXCEPT ![t] = n]
  BY DEF Search, Result
<1>3. p_node'[t] = n /\ (n # NULL <=> Items[arg[t]] > 0)
  BY <1>1, <1>2, FoundRight DEF MapInv, Inv, CountInv, TypeOK
<1>4. Requests[t].key = arg[t]
  BY <1>1, RequestKey DEF Removes
<1>5. CASE op[t] = "search"
  <2>1. AnswerOf(t)' = Map!Found(Items[arg[t]] > 0)
    BY <1>1, <1>3, <1>5, Tells DEF Decided
  <2>2. Map!Answer(t, {"search"}, Map!Found(Items[arg[t]] > 0))
    BY <1>1, <1>5, <2>1, Answered
  <2>3. Map!Answer(t, {"search"}, Map!Found(Items[Requests[t].key] > 0))
    BY <1>4, <2>2
  <2>4. Map!Search(t)
    BY <1>1, <2>3 DEF Map!Search, Items, Requests, RequestOf
  <2>. QED
    BY <2>4 DEF Map!Next
<1>6. CASE op[t] \in Removes /\ n = NULL
  <2>1. AnswerOf(t)' = Map!Found(Items[arg[t]] > 0)
    BY <1>1, <1>3, <1>6, Tells DEF Decided, Removes
  <2>2. Map!Answer(t, {"remove", "search_remove"}, Map!Found(Items[arg[t]] > 0))
    BY <1>1, <1>6, <2>1, Answered DEF Removes
  <2>3. Map!Answer(t, {"remove", "search_remove"}, Map!Found(Items[Requests[t].key] > 0))
    BY <1>4, <2>2
  <2>4. Items' = [Items EXCEPT ![Requests[t].key] = IF @ > 0 THEN @ - 1 ELSE 0]
    <3>1. Items[arg[t]] = 0
      BY <1>1, <1>3, <1>6, ItemsAre, SlotsCounted, ConstantFacts
    <3>. QED
      BY <1>1, <1>4, <3>1, ItemsAre
  <2>5. Map!Remove(t)
    BY <2>3, <2>4 DEF Map!Remove, Items, Requests, RequestOf
  <2>. QED
    BY <2>5 DEF Map!Next
<1>7. CASE op[t] \in Removes /\ n # NULL
  <2>1. ~Decided(t)' /\ BagOf(walked[t])' = BagOf(walked[t])
    BY <1>1, <1>3, <1>7 DEF Decided, Removes, BagOf
  <2>. QED
    BY <1>1, <2>1, Stutters DEF RequestOf, AnswerOf, Promised
<1>. QED
  BY <1>1, <1>5, <1>6, <1>7

\* kv_list_remove_node, where it invalidates the node.
LEMMA RemoveStep ==
    ASSUME MapInv, MapInv', NEW t \in Tasks, RemoveNode(t)
    PROVE  Map!Next
<1>1. /\ Act(t) /\ op[t] \in Removes /\ ~Decided(t) /\ Decided(t)'
      /\ UNCHANGED <<op, arg, p_node>>
  BY DEF Act, Step, RemoveNode, Goto, GotoFrom, Private, Decided, MapInv, Inv, CountInv, TypeOK
<1>2. /\ arg[t] \in Keys /\ p_node[t] \in Slots /\ Items[arg[t]] > 0
      /\ Items' = [Items EXCEPT ![arg[t]] = @ - 1]
  BY RemoveItems DEF MapInv
<1>3. Requests[t].key = arg[t]
  BY <1>1, RequestKey DEF Removes
<1>4. AnswerOf(t)' = Map!Found(Items[arg[t]] > 0)
  BY <1>1, <1>2, Tells, ConstantFacts DEF Removes
<1>5. Map!Answer(t, {"remove", "search_remove"}, Map!Found(Items[arg[t]] > 0))
  BY <1>1, <1>4, Answered DEF Removes
<1>6. Map!Answer(t, {"remove", "search_remove"}, Map!Found(Items[Requests[t].key] > 0))
  BY <1>3, <1>5
<1>7. Items' = [Items EXCEPT ![Requests[t].key] = IF @ > 0 THEN @ - 1 ELSE 0]
  BY <1>2, <1>3
<1>8. Map!Remove(t)
  BY <1>6, <1>7 DEF Map!Remove, Items, Requests, RequestOf
<1>. QED
  BY <1>8 DEF Map!Next

\* kv_list_clear and kv_list_sort.
LEMMA ClearSortStep ==
    ASSUME MapInv, MapInv', NEW t \in Tasks, Clear(t) \/ Sort(t)
    PROVE  Map!Next
<1>1. /\ Act(t) /\ op[t] \in {"clear", "sort"} /\ ~Decided(t) /\ Decided(t)'
      /\ UNCHANGED <<op, arg>>
  BY DEF Act, Step, Clear, Sort, Goto, GotoFrom, Private, Decided, MapInv, Inv, CountInv, TypeOK
<1>. DEFINE a == Map!Found(TRUE)
<1>2. AnswerOf(t)' = a
  BY <1>1, Tells
<1>3. CASE Clear(t)
  <2>. HIDE DEF a
  <2>1. Map!Answer(t, {"clear"}, a)
    BY <1>1, <1>2, <1>3, Answered DEF Clear
  <2>. USE DEF a
  <2>2. Map!Clear(t)
    BY <1>3, <2>1, ClearItems DEF Map!Clear, Map!Empty, Items
  <2>. QED
    BY <2>2 DEF Map!Next
<1>4. CASE Sort(t)
  <2>. HIDE DEF a
  <2>1. Map!Answer(t, {"sort"}, a)
    BY <1>1, <1>2, <1>4, Answered DEF Sort
  <2>. USE DEF a
  <2>2. Map!Sort(t)
    BY <1>4, <2>1, SortItems DEF Map!Sort, Items, MapInv, Inv, CountInv
  <2>. QED
    BY <2>2 DEF Map!Next
<1>. QED
  BY <1>3, <1>4

\* kv_list_walk copies out the whole bag.
LEMMA WalkStep ==
    ASSUME MapInv, MapInv', NEW t \in Tasks, Walk(t)
    PROVE  Map!Next
<1>1. /\ Act(t) /\ op[t] = "walk" /\ ~Decided(t) /\ Decided(t)' /\ UNCHANGED <<node, op, arg>>
      /\ Items' = Items
  BY SameItems DEF Act, Step, Walk, Goto, GotoFrom, Decided, MapInv, Inv, CountInv, TypeOK
<1>2. walked'[t] = [i \in Used |-> node[i].key]
  BY DEF Walk, MapInv, Inv, CountInv, TypeOK
<1>3. BagOf(walked[t])' = Items
  BY <1>2 DEF BagOf, Items
<1>. DEFINE a == [done |-> TRUE, ok |-> TRUE, seen |-> Items]
<1>4. AnswerOf(t)' = a
  BY <1>1, <1>3 DEF AnswerOf, Promised, Succeeds
<1>. HIDE DEF a
<1>5. Map!Answer(t, {"walk"}, a)
  BY <1>1, <1>4, Answered
<1>. USE DEF a
<1>6. Map!Walk(t)
  BY <1>1, <1>5 DEF Map!Walk, Items
<1>. QED
  BY <1>6 DEF Map!Next

----------------------------------------------------------------------------
\* The list starts as an empty bag, nothing asked.
LEMMA MapInit == Init => Map!Init
<1>. SUFFICES ASSUME Init PROVE Map!Init
  OBVIOUS
<1>1. Items = [k \in Keys |-> 0]
  <2>1. \A k \in Keys : SlotsOf(k) = {}
    BY DEF Init, SlotsOf, Has
  <2>. QED
    BY <2>1, ItemsAre, FS_EmptySet
<1>2. \A t \in Tasks : /\ RequestOf(t) = [op |-> "none", key |-> KV_KEY_INVALID]
                       /\ AnswerOf(t) = [done |-> FALSE, ok |-> FALSE, seen |-> [k \in Keys |-> 0]]
  BY NothingSeen DEF Init, RequestOf, AnswerOf, Promised, Decided
<1>. QED
  BY <1>1, <1>2 DEF Map!Init, Map!Empty, Map!NoRequest, Map!Pending, Items, RequestOf, AnswerOf

\* Adds, searches, removals, clears, sorts and walks of any tasks, over any keys
\* and at any depth, act on one bag of keys, each at one instant of its call, as
\* long as one task does the removing, the clearing and the sorting.
THEOREM RefinesKvMap ==
    ASSUME SingleManager
    PROVE  Spec => ImplementsKvMap
<1>1. Init => MapInv /\ Map!Init
  BY MapInvInit, MapInit
<1>2. MapInv /\ [Next]_vars => MapInv'
  BY MapInvNext
<1>3. MapInv /\ MapInv' /\ [Next]_vars => [Map!Next]_(Map!vars)
  <2>. SUFFICES ASSUME MapInv, MapInv', [Next]_vars PROVE Map!Next \/ UNCHANGED Map!vars
    OBVIOUS
  <2>1. CASE UNCHANGED vars
    BY <2>1 DEF Map!vars, BagOf, Used, Promised, Decided, Succeeds
  <2>2. ASSUME NEW t \in Tasks, Act(t)
        PROVE  Map!Next \/ UNCHANGED Map!vars
    <3>1. op[t] = "at" => ~AddScan(t)
      BY DEF AddScan, GotoFrom, MapInv, Inv, CountInv, Control
    <3>2. Check(t) \/ AddScan(t) => op[t] \in {"add", "at"}
      BY DEF Check, AddScan, GotoFrom, MapInv, Inv, CountInv, Control, Carries
    <3>3. At(t) => op[t] = "at"
      BY DEF At
    <3>. QED
      BY <2>2, <3>1, <3>2, <3>3, AtStep, LockStep, CallStep, ReturnStep, RefuseStep, AddStep,
         SearchStep, RemoveStep, ClearSortStep, WalkStep DEF Act, Step
  <2>. QED
    BY <2>1, <2>2 DEF Next
<1>. QED
  BY <1>1, <1>2, <1>3, PTL DEF Spec, ImplementsKvMap, Map!Spec
=============================================================================
