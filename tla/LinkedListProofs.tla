-------------------------- MODULE LinkedListProofs -------------------------
(***************************************************************************)
(* Proofs about LinkedList, for any tasks and depth: the mutex excludes,   *)
(* and while no task calls linked_list_remove_node the arms describe one   *)
(* sequence and no node is lost or given out twice, although               *)
(* linked_list_free_node works outside the lock.  Then, from "LwList" on,  *)
(* proofs about the walks that LwList adds to it.                          *)
(***************************************************************************)
EXTENDS LwList, FiniteSetTheorems, SequenceTheorems, WellFoundedInduction, TLAPS

USE DEF ListAssumption, Nodes, Pops, Puts, Ops, PCs, links, vars

\* Which functions a task can be in at each place, and where it has a node.
Control == \A t \in Tasks :
    /\ pc[t] = "idle" => op[t] = "none"
    /\ pc[t] = "lock" => op[t] \in Ops \ {"free"}
    /\ pc[t] \in {"read", "unlock"} => op[t] \in Ops \ {"free", "sort"}
    /\ pc[t] = "write" => op[t] \in Puts \cup Pops \cup {"alloc", "free"}
    /\ pc[t] = "free_used" => op[t] = "free"
    /\ pc[t] = "sort_lock" => op[t] = "sort"
    /\ op[t] = "remove_node" => p_node[t] \in Nodes
    /\ op[t] \in Pops \cup {"alloc"} /\ pc[t] = "write" => p_node[t] \in Nodes

TypeInv == TypeOK /\ Control /\ MutexExclusive

----------------------------------------------------------------------------
\* The empty list is in the invariant.
LEMMA TypeInit == Init => TypeInv
  BY ListAssumption DEF Init, TypeInv, TypeOK, Control, MutexExclusive, Holds

\* A call takes no lock yet, and a task that frees never does.
LEMMA CallTypes ==
    ASSUME TypeInv, NEW t \in Tasks, Call(t)
    PROVE  TypeInv'
<1>. USE ListAssumption DEF TypeInv
<1>1. TypeOK'
  BY DEF Call, Goto, Hold, TypeOK
<1>2. Control'
  BY DEF Call, Goto, Hold, TypeOK, Control
<1>3. MutexExclusive'
  BY DEF Call, Goto, Hold, TypeOK, Control, MutexExclusive, Holds
<1>. QED
  BY <1>1, <1>2, <1>3

\* Only a free semaphore is taken.
LEMMA LockTypes ==
    ASSUME TypeInv, NEW t \in Tasks, Lock(t)
    PROVE  TypeInv'
<1>. USE ListAssumption DEF TypeInv
<1>1. TypeOK'
  BY DEF Lock, Free, Goto, TypeOK
<1>2. Control'
  BY DEF Lock, Goto, TypeOK, Control
<1>3. MutexExclusive'
  BY DEF Lock, Free, Goto, TypeOK, Control, MutexExclusive, Holds
<1>. QED
  BY <1>1, <1>2, <1>3

\* The task that unlocks is the one that held the mutex.
LEMMA UnlockTypes ==
    ASSUME TypeInv, NEW t \in Tasks, Unlock(t)
    PROVE  TypeInv'
<1>. USE ListAssumption DEF TypeInv
<1>1. TypeOK'
  BY DEF Unlock, Goto, TypeOK, MutexExclusive, Holds
<1>2. Control'
  BY DEF Unlock, Goto, TypeOK, Control
<1>3. MutexExclusive'
  BY DEF Unlock, Goto, TypeOK, Control, MutexExclusive, Holds
<1>. QED
  BY <1>1, <1>2, <1>3

\* linked_list_alloc_node stays under its lock.
LEMMA AllocTypes ==
    ASSUME TypeInv, NEW t \in Tasks, AllocRead(t) \/ AllocWrite(t)
    PROVE  TypeInv'
<1>. USE ListAssumption DEF TypeInv
<1>1. CASE AllocRead(t)
  <2>1. TypeOK'
    <3>1. p_node' \in [Tasks -> Nodes \cup {NULL}]
      BY <1>1 DEF AllocRead, Hold, TypeOK
    <3>2. pc' \in [Tasks -> PCs]
      BY <1>1 DEF AllocRead, Goto, TypeOK
    <3>. QED
      BY <1>1, <3>1, <3>2 DEF AllocRead, TypeOK
  <2>2. Control'
    BY <1>1 DEF AllocRead, Goto, Hold, TypeOK, Control
  <2>3. MutexExclusive'
    BY <1>1 DEF AllocRead, Goto, TypeOK, MutexExclusive, Holds
  <2>. QED
    BY <2>1, <2>2, <2>3
<1>2. CASE AllocWrite(t)
  <2>1. TypeOK'
    BY <1>2 DEF AllocWrite, Goto, TypeOK, Control
  <2>2. Control'
    BY <1>2 DEF AllocWrite, Goto, TypeOK, Control
  <2>3. MutexExclusive'
    BY <1>2 DEF AllocWrite, Goto, TypeOK, MutexExclusive, Holds
  <2>. QED
    BY <2>1, <2>2, <2>3
<1>. QED
  BY <1>1, <1>2

\* linked_list_free_node is at no time under the lock.
LEMMA FreeTypes ==
    ASSUME TypeInv, NEW t \in Tasks, FreeArms(t) \/ FreeUsed(t)
    PROVE  TypeInv'
<1>. USE ListAssumption DEF TypeInv
<1>1. CASE FreeArms(t)
  <2>1. TypeOK'
    BY <1>1 DEF FreeArms, Goto, TypeOK
  <2>2. Control'
    BY <1>1 DEF FreeArms, Goto, TypeOK, Control
  <2>3. MutexExclusive'
    BY <1>1 DEF FreeArms, Goto, TypeOK, MutexExclusive, Holds
  <2>. QED
    BY <2>1, <2>2, <2>3
<1>2. CASE FreeUsed(t)
  <2>1. TypeOK'
    BY <1>2 DEF FreeUsed, Goto, Hold, TypeOK
  <2>2. Control'
    BY <1>2 DEF FreeUsed, Goto, Hold, TypeOK, Control
  <2>3. MutexExclusive'
    BY <1>2 DEF FreeUsed, Goto, TypeOK, MutexExclusive, Holds
  <2>. QED
    BY <2>1, <2>2, <2>3
<1>. QED
  BY <1>1, <1>2

\* So does an insertion.
LEMMA InsertTypes ==
    ASSUME TypeInv, NEW t \in Tasks, InsertRead(t) \/ InsertWrite(t)
    PROVE  TypeInv'
<1>. USE ListAssumption DEF TypeInv
<1>1. CASE InsertRead(t)
  <2>1. TypeOK'
    BY <1>1 DEF InsertRead, Goto, TypeOK
  <2>2. Control'
    BY <1>1 DEF InsertRead, Goto, TypeOK, Control
  <2>3. MutexExclusive'
    BY <1>1 DEF InsertRead, Goto, TypeOK, MutexExclusive, Holds
  <2>. QED
    BY <2>1, <2>2, <2>3
<1>2. CASE InsertWrite(t)
  <2>1. TypeOK'
    <3>1. count' \in 0 .. SizeMax
      BY <1>2 DEF InsertWrite, Inc, TypeOK
    <3>2. p_node[t] \in Nodes \cup {NULL}
      BY DEF TypeOK
    <3>3. /\ head' \in Nodes \cup {NULL} /\ tail' \in Nodes \cup {NULL}
          /\ next' \in [Nodes -> Nodes \cup {NULL}]
          /\ prev' \in [Nodes -> Nodes \cup {NULL}]
      BY <1>2, <3>2 DEF InsertWrite, InsertEmpty, InsertHead, InsertTail, TypeOK
    <3>4. /\ pc' \in [Tasks -> PCs]
          /\ p_node' \in [Tasks -> Nodes \cup {NULL}]
      BY <1>2 DEF InsertWrite, Goto, Hold, TypeOK
    <3>. QED
      BY <1>2, <3>1, <3>3, <3>4 DEF InsertWrite, TypeOK
  <2>2. Control'
    BY <1>2 DEF InsertWrite, Goto, Hold, TypeOK, Control
  <2>3. MutexExclusive'
    BY <1>2 DEF InsertWrite, Goto, TypeOK, MutexExclusive, Holds
  <2>. QED
    BY <2>1, <2>2, <2>3
<1>. QED
  BY <1>1, <1>2

\* And a removal, on the path of an empty list, too.
LEMMA RemoveTypes ==
    ASSUME TypeInv, NEW t \in Tasks, RemoveRead(t) \/ RemoveWrite(t)
    PROVE  TypeInv'
<1>. USE ListAssumption DEF TypeInv
<1>1. CASE RemoveRead(t)
  <2>1. TypeOK'
    BY <1>1 DEF RemoveRead, Goto, Hold, TypeOK
  <2>2. Control'
    BY <1>1 DEF RemoveRead, Goto, Hold, TypeOK, Control
  <2>3. MutexExclusive'
    BY <1>1 DEF RemoveRead, Goto, TypeOK, MutexExclusive, Holds
  <2>. QED
    BY <2>1, <2>2, <2>3
<1>2. CASE RemoveWrite(t)
  <2>0. p_node[t] \in Nodes
    BY <1>2 DEF RemoveWrite, Goto, TypeOK, Control
  <2>1. TypeOK'
    <3>1. count' \in 0 .. SizeMax
      BY <1>2 DEF RemoveWrite, Dec, TypeOK
    <3>2. /\ head' \in Nodes \cup {NULL} /\ tail' \in Nodes \cup {NULL}
          /\ next' \in [Nodes -> Nodes \cup {NULL}]
          /\ prev' \in [Nodes -> Nodes \cup {NULL}]
      <4>1. CASE op[t] = "remove_node" /\ RemoveNode(p_node[t])
        BY <2>0, <4>1 DEF RemoveNode, RemoveLast, TypeOK
      <4>2. CASE RemoveLast
        BY <4>2 DEF RemoveLast, TypeOK
      <4>3. CASE RemoveHead(p_node[t])
        BY <2>0, <4>3, <1>2 DEF RemoveHead, RemoveWrite, TypeOK
      <4>4. CASE RemoveTail(p_node[t])
        BY <2>0, <4>4, <1>2 DEF RemoveTail, RemoveWrite, TypeOK
      <4>. QED
        BY <1>2, <4>1, <4>2, <4>3, <4>4 DEF RemoveWrite
    <3>. QED
      BY <1>2, <3>1, <3>2 DEF RemoveWrite, Goto, TypeOK
  <2>2. Control'
    BY <1>2 DEF RemoveWrite, Goto, TypeOK, Control
  <2>3. MutexExclusive'
    BY <1>2 DEF RemoveWrite, Goto, TypeOK, MutexExclusive, Holds
  <2>. QED
    BY <2>1, <2>2, <2>3
<1>. QED
  BY <1>1, <1>2

\* Types, control and the mutex, whatever the tasks call.
LEMMA TypeNext == TypeInv /\ [Next]_vars => TypeInv'
<1>. SUFFICES ASSUME TypeInv, [Next]_vars PROVE TypeInv'
  OBVIOUS
<1>1. CASE UNCHANGED vars
  BY <1>1 DEF TypeInv, TypeOK, Control, MutexExclusive, Holds
<1>2. ASSUME NEW t \in Tasks, Call(t) \/ Lock(t) \/ Step(t) PROVE TypeInv'
  BY <1>2, CallTypes, LockTypes, UnlockTypes, AllocTypes, FreeTypes, InsertTypes, RemoveTypes
     DEF Step
<1>. QED
  BY <1>1, <1>2 DEF Next

\* They hold in every behaviour.
LEMMA TypesAlways == Spec => []TypeInv
  BY TypeInit, TypeNext, PTL DEF Spec

\* Every variable of linked_list.c's model keeps its type: no function follows
\* an arm of a node that is not there.
THEOREM TypeCorrect == Spec => []TypeOK
<1>1. TypeInv => TypeOK
  BY DEF TypeInv
<1>. QED
  BY <1>1, TypesAlways, PTL

\* linked_list_t.mutex keeps all but one task out of the locked code, on every
\* path, whatever the tasks call.
THEOREM MutexCorrect == Spec => []MutexExclusive
<1>1. TypeInv => MutexExclusive
  BY DEF TypeInv
<1>. QED
  BY <1>1, TypesAlways, PTL

----------------------------------------------------------------------------
\* linked_list_remove_node leaves arms wrong; what follows is about tasks that
\* use the other functions.
NoRemoveNode == \A t \in Tasks : "remove_node" \notin Calls[t]

\* What a task knows of its node at each place.
Stage(t) ==
    LET n == p_node[t] IN
    /\ op[t] # "remove_node"
    /\ op[t] \in Puts /\ pc[t] \in {"lock", "read", "write"} => n \in Nodes
    /\ op[t] \in Puts /\ pc[t] = "unlock" => n = NULL
    /\ op[t] \in Pops \cup {"alloc"} /\ pc[t] \in {"lock", "read"} => n = NULL
    /\ op[t] = "free" => n \in Nodes
    /\ op[t] = "alloc" /\ pc[t] = "write" => n \notin used
    /\ op[t] = "remove_head" /\ pc[t] = "write" => n = head /\ n # NULL
    /\ op[t] = "remove_tail" /\ pc[t] = "write" => n = tail /\ n # NULL
    /\ op[t] = "insert_head" /\ pc[t] = "write" => next[n] = head /\ prev[n] = NULL
    /\ op[t] = "insert_tail" /\ pc[t] = "write" =>
           next[n] = NULL /\ prev[n] = IF head = NULL THEN NULL ELSE tail

\* The list is the sequence s of distinct nodes: its ends, its length and both
\* arms of every node say so.
Ordered(s) ==
    /\ s \in [1 .. count -> Nodes]
    /\ \A i, j \in 1 .. count : s[i] = s[j] => i = j
    /\ count = 0 => head = NULL /\ tail = NULL
    /\ count > 0 => /\ head = s[1] /\ tail = s[count]
                    /\ next[tail] = NULL /\ prev[head] = NULL
    /\ \A i \in 1 .. count - 1 : next[s[i]] = s[i + 1] /\ prev[s[i + 1]] = s[i]

In(n, s) == \E i \in 1 .. count : s[i] = n

\* Each allocated node is in one place.
Placed(s) ==
    /\ \A n \in Nodes : n \in used <=> In(n, s) \/ \E t \in Tasks : n \in Owned(t)
    /\ \A t \in Tasks : \A n \in Owned(t) : ~In(n, s)
    /\ \A t, u \in Tasks : t # u => Owned(t) \cap Owned(u) = {}

Inv == /\ TypeInv
       /\ \A t \in Tasks : Stage(t)
       /\ \E s : Ordered(s) /\ Placed(s)

----------------------------------------------------------------------------
\* A list has at most as many nodes as there are, so count never wraps.
LEMMA CountBound ==
    ASSUME TypeInv, NEW s, Ordered(s)
    PROVE  count \in Nat /\ count <= Depth
<1>1. count \in Nat
  BY ListAssumption DEF TypeInv, TypeOK
<1>2. s \in Injection(1 .. count, Nodes)
  BY DEF Ordered, Injection, IsInjective
<1>3. IsFiniteSet(Nodes) /\ Cardinality(Nodes) = Depth /\ Cardinality(1 .. count) = count
  BY <1>1, ListAssumption, FS_Interval
<1>. QED
  BY <1>1, <1>2, <1>3, FS_Injection

\* The list stays as it is when only arms of other nodes change.
LEMMA SameList ==
    ASSUME TypeInv, NEW s, Ordered(s), UNCHANGED <<head, tail, count>>,
           \A n \in Nodes : In(n, s) => next'[n] = next[n] /\ prev'[n] = prev[n]
    PROVE  Ordered(s)'
<1>1. count \in Nat
  BY CountBound
<1>2. \A i \in 1 .. count : next'[s[i]] = next[s[i]] /\ prev'[s[i]] = prev[s[i]]
  BY DEF Ordered, In
<1>3. count > 0 => 1 \in 1 .. count /\ count \in 1 .. count
  BY <1>1
<1>4. \A i \in 1 .. count - 1 : i \in 1 .. count /\ i + 1 \in 1 .. count
  BY <1>1
<1>. QED
  BY <1>1, <1>2, <1>3, <1>4 DEF Ordered

\* While one task holds the mutex, what the others know of their nodes is their own.
LEMMA OthersStage ==
    ASSUME TypeInv, NEW t \in Tasks, NEW u \in Tasks, u # t, Holds(t), Stage(u),
           pc'[u] = pc[u], op'[u] = op[u], p_node'[u] = p_node[u]
    PROVE  Stage(u)'
<1>1. ~Holds(u)
  BY DEF TypeInv, MutexExclusive
<1>. QED
  BY <1>1 DEF Stage, Holds

\* A node a task owns is one, and allocated.
LEMMA OwnedNode ==
    ASSUME TypeInv, NEW s, Placed(s), NEW t \in Tasks, NEW n \in Owned(t)
    PROVE  n \in Nodes /\ n = p_node[t] /\ n \in used /\ ~In(n, s)
<1>1. n \in Nodes /\ n = p_node[t]
  BY DEF Owned, TypeInv, TypeOK
<1>. QED
  BY <1>1 DEF Placed

\* At first there is no node at all.
LEMMA InitInv == Init => Inv
<1>. SUFFICES ASSUME Init PROVE Inv
  OBVIOUS
<1>1. TypeInv
  BY TypeInit
<1>2. \A t \in Tasks : Stage(t)
  BY DEF Init, Stage
<1>3. Ordered([i \in 1 .. 0 |-> NULL])
  BY DEF Init, Ordered
<1>4. Placed([i \in 1 .. 0 |-> NULL])
  BY DEF Init, Placed, In, Owned
<1>. QED
  BY <1>1, <1>2, <1>3, <1>4 DEF Inv

\* A call, a lock and an unlock change neither the list nor who has what.
LEMMA OutsideInv ==
    ASSUME NoRemoveNode, Inv, NEW t \in Tasks, Call(t) \/ Lock(t) \/ Unlock(t)
    PROVE  Inv'
<1>1. TypeInv'
  BY CallTypes, LockTypes, UnlockTypes DEF Inv
<1>2. UNCHANGED <<links, used, p_node>>
  BY ListAssumption DEF Call, Lock, Unlock, NoRemoveNode
<1>3. /\ pc \in [Tasks -> PCs] /\ op \in [Tasks -> Ops \cup {"none"}]
      /\ p_node \in [Tasks -> Nodes \cup {NULL}]
  BY DEF Inv, TypeInv, TypeOK
<1>4. \A u \in Tasks : Stage(u)'
  <2>1. TAKE u \in Tasks
  <2>2. Stage(u)
    BY DEF Inv
  <2>3. CASE Call(t)
    BY <1>2, <1>3, <2>2, <2>3, ListAssumption DEF Call, Goto, Stage, NoRemoveNode
  <2>4. CASE Lock(t)
    BY <1>2, <1>3, <2>2, <2>4 DEF Lock, Goto, Stage
  <2>5. CASE Unlock(t)
    BY <1>2, <1>3, <2>2, <2>5 DEF Unlock, Goto, Stage
  <2>. QED
    BY <2>3, <2>4, <2>5
<1>5. \A u \in Tasks : Owned(u)' = Owned(u)
  <2>1. TAKE u \in Tasks
  <2>2. CASE Call(t)
    BY <1>2, <1>3, <2>2 DEF Call, Goto, Owned, Inv, TypeInv, Control
  <2>3. CASE Lock(t)
    BY <1>2, <1>3, <2>3 DEF Lock, Goto, Owned
  <2>4. CASE Unlock(t)
    BY <1>2, <1>3, <2>4 DEF Unlock, Goto, Owned
  <2>. QED
    BY <2>2, <2>3, <2>4
<1>6. PICK s : Ordered(s) /\ Placed(s)
  BY DEF Inv
<1>7. Ordered(s)'
  BY <1>2, <1>6 DEF Ordered
<1>8. Placed(s)'
  BY <1>2, <1>5, <1>6 DEF Placed, In
<1>. QED
  BY <1>1, <1>4, <1>7, <1>8 DEF Inv

\* An allocation changes no arm; the node it gives out was nobody's.
LEMMA AllocInv ==
    ASSUME Inv, NEW t \in Tasks, AllocRead(t) \/ AllocWrite(t)
    PROVE  Inv'
<1>1. TypeInv /\ TypeInv'
  BY AllocTypes DEF Inv
<1>2. /\ pc \in [Tasks -> PCs] /\ op \in [Tasks -> Ops \cup {"none"}]
      /\ p_node \in [Tasks -> Nodes \cup {NULL}]
  BY <1>1 DEF TypeInv, TypeOK
<1>3. Stage(t) /\ Holds(t) /\ op[t] = "alloc"
  BY DEF AllocRead, AllocWrite, Goto, Holds, Inv
<1>4. \A u \in Tasks : u # t => pc'[u] = pc[u] /\ op'[u] = op[u] /\ p_node'[u] = p_node[u]
  BY <1>2 DEF AllocRead, AllocWrite, Goto, Hold
<1>5. \A u \in Tasks : u # t => Stage(u)' /\ Owned(u)' = Owned(u)
  BY <1>1, <1>3, <1>4, OthersStage DEF Inv, Owned
<1>6. PICK s : Ordered(s) /\ Placed(s)
  BY DEF Inv
<1>7. Ordered(s)'
  BY <1>6 DEF AllocRead, AllocWrite, Ordered
<1>8. CASE AllocRead(t)
  <2>1. Stage(t)'
    BY <1>2, <1>3, <1>8, ListAssumption DEF AllocRead, Goto, Hold, Stage
  <2>2. Owned(t) = {} /\ Owned(t)' = {}
    BY <1>2, <1>3, <1>8 DEF AllocRead, Goto, Hold, Owned, Stage
  <2>3. Placed(s)'
    BY <1>5, <1>6, <1>8, <2>2 DEF AllocRead, Placed, In
  <2>. QED
    BY <1>1, <1>5, <1>7, <2>1, <2>3 DEF Inv
<1>9. CASE AllocWrite(t)
  <2>1. p_node[t] \in Nodes \ used
    BY <1>1, <1>3, <1>9 DEF AllocWrite, Goto, Stage, TypeInv, Control
  <2>2. Stage(t)'
    BY <1>2, <1>3, <1>9 DEF AllocWrite, Goto, Stage
  <2>3. Owned(t) = {} /\ Owned(t)' = {p_node[t]}
    BY <1>2, <1>3, <1>9, <2>1, ListAssumption DEF AllocWrite, Goto, Owned
  <2>4. ~In(p_node[t], s) /\ \A u \in Tasks : p_node[t] \notin Owned(u)
    BY <1>6, <2>1 DEF Placed
  <2>5. \A n : In(n, s)' <=> In(n, s)
    BY <1>9 DEF AllocWrite, In
  <2>6. used' = used \cup {p_node[t]}
    BY <1>9 DEF AllocWrite
  <2>7. Placed(s)'
    <3>1. \A n \in Nodes : n \in used' <=> In(n, s)' \/ \E u \in Tasks : n \in Owned(u)'
      BY <1>5, <1>6, <2>1, <2>3, <2>4, <2>5, <2>6 DEF Placed
    <3>2. \A u \in Tasks : \A n \in Owned(u)' : ~In(n, s)'
      BY <1>5, <1>6, <2>3, <2>4, <2>5 DEF Placed
    <3>3. \A u, v \in Tasks : u # v => Owned(u)' \cap Owned(v)' = {}
      BY <1>5, <1>6, <2>3, <2>4 DEF Placed
    <3>. QED
      BY <3>1, <3>2, <3>3 DEF Placed
  <2>. QED
    BY <1>1, <1>5, <1>7, <2>2, <2>7 DEF Inv
<1>. QED
  BY <1>8, <1>9

\* linked_list_free_node writes the arms of a node that is nobody else's and in
\* no list, and then gives it up: that needs no lock.
LEMMA FreeInv ==
    ASSUME Inv, NEW t \in Tasks, FreeArms(t) \/ FreeUsed(t)
    PROVE  Inv'
<1>1. TypeInv /\ TypeInv'
  BY FreeTypes DEF Inv
<1>2. /\ pc \in [Tasks -> PCs] /\ op \in [Tasks -> Ops \cup {"none"}]
      /\ p_node \in [Tasks -> Nodes \cup {NULL}]
      /\ next \in [Nodes -> Nodes \cup {NULL}] /\ prev \in [Nodes -> Nodes \cup {NULL}]
  BY <1>1 DEF TypeInv, TypeOK
<1>3. op[t] = "free" /\ Stage(t) /\ p_node[t] \in Nodes
  BY <1>1 DEF FreeArms, FreeUsed, Goto, Inv, TypeInv, Control, Stage
<1>4. \A u \in Tasks : u # t => pc'[u] = pc[u] /\ op'[u] = op[u] /\ p_node'[u] = p_node[u]
  BY <1>2 DEF FreeArms, FreeUsed, Goto, Hold
<1>5. \A u \in Tasks : u # t => Owned(u)' = Owned(u)
  BY <1>4 DEF Owned
<1>6. Owned(t) = {p_node[t]}
  BY <1>3, ListAssumption DEF Owned
<1>7. PICK s : Ordered(s) /\ Placed(s)
  BY DEF Inv
<1>8. ~In(p_node[t], s) /\ \A u \in Tasks : u # t => p_node[t] \notin Owned(u)
  BY <1>6, <1>7 DEF Placed
<1>9. CASE FreeArms(t)
  <2>1. \A n \in Nodes : n # p_node[t] => next'[n] = next[n] /\ prev'[n] = prev[n]
    BY <1>2, <1>9 DEF FreeArms
  <2>2. Ordered(s)'
    BY <1>1, <1>7, <1>8, <1>9, <2>1, SameList DEF FreeArms
  <2>3. Owned(t)' = Owned(t)
    BY <1>2, <1>3, <1>9 DEF FreeArms, Goto, Owned
  <2>4. Placed(s)'
    BY <1>5, <1>7, <1>9, <2>3 DEF FreeArms, Placed, In
  <2>5. \A u \in Tasks : Stage(u)'
    <3>1. TAKE u \in Tasks
    <3>2. CASE u = t
      BY <1>2, <1>3, <1>9, <3>2 DEF FreeArms, Goto, Stage
    <3>3. CASE u # t /\ op[u] \in Puts /\ pc[u] = "write"
      <4>1. p_node[u] \in Nodes /\ p_node[u] # p_node[t]
        BY <1>8, <3>3, ListAssumption DEF Inv, Stage, Owned
      <4>. QED
        BY <1>4, <1>9, <2>1, <3>3, <4>1 DEF FreeArms, Inv, Stage
    <3>4. CASE u # t /\ ~(op[u] \in Puts /\ pc[u] = "write")
      BY <1>4, <1>9, <3>4 DEF FreeArms, Inv, Stage
    <3>. QED
      BY <3>2, <3>3, <3>4
  <2>. QED
    BY <1>1, <2>2, <2>4, <2>5 DEF Inv
<1>10. CASE FreeUsed(t)
  <2>1. Ordered(s)'
    BY <1>7, <1>10 DEF FreeUsed, Ordered
  <2>2. Owned(t)' = {}
    BY <1>2, <1>10 DEF FreeUsed, Goto, Hold, Owned
  <2>3. \A n : In(n, s)' <=> In(n, s)
    BY <1>10 DEF FreeUsed, In
  <2>4. used' = used \ {p_node[t]}
    BY <1>10 DEF FreeUsed
  <2>5. Placed(s)'
    <3>1. \A n \in Nodes : n \in used' <=> In(n, s)' \/ \E u \in Tasks : n \in Owned(u)'
      BY <1>5, <1>6, <1>7, <1>8, <2>2, <2>3, <2>4 DEF Placed
    <3>2. \A u \in Tasks : \A n \in Owned(u)' : ~In(n, s)'
      BY <1>5, <1>7, <2>2, <2>3 DEF Placed
    <3>3. \A u, v \in Tasks : u # v => Owned(u)' \cap Owned(v)' = {}
      BY <1>5, <1>7, <2>2 DEF Placed
    <3>. QED
      BY <3>1, <3>2, <3>3 DEF Placed
  <2>6. \A u \in Tasks : Stage(u)'
    <3>1. TAKE u \in Tasks
    <3>2. CASE u = t
      BY <1>2, <1>10, <3>2 DEF FreeUsed, Goto, Hold, Stage
    <3>3. CASE u # t
      BY <1>4, <1>10, <2>4, <3>3 DEF FreeUsed, Inv, Stage
    <3>. QED
      BY <3>2, <3>3
  <2>. QED
    BY <1>1, <2>1, <2>5, <2>6 DEF Inv
<1>. QED
  BY <1>9, <1>10

\* What every step of an insertion or removal leaves to the other tasks.
LEMMA OthersKeep ==
    ASSUME Inv, NEW t \in Tasks, Holds(t), TypeInv',
           \A u \in Tasks : u # t => pc'[u] = pc[u] /\ op'[u] = op[u] /\ p_node'[u] = p_node[u]
    PROVE  \A u \in Tasks : u # t => Stage(u)' /\ Owned(u)' = Owned(u)
  BY OthersStage DEF Inv, Owned

----------------------------------------------------------------------------
\* The first half of an insertion sets the arms of a node not yet in the list.
LEMMA InsertReadInv ==
    ASSUME Inv, NEW t \in Tasks, InsertRead(t)
    PROVE  Inv'
<1>1. TypeInv /\ TypeInv'
  BY InsertTypes DEF Inv
<1>2. /\ pc \in [Tasks -> PCs] /\ op \in [Tasks -> Ops \cup {"none"}]
      /\ p_node \in [Tasks -> Nodes \cup {NULL}]
      /\ next \in [Nodes -> Nodes \cup {NULL}] /\ prev \in [Nodes -> Nodes \cup {NULL}]
  BY <1>1 DEF TypeInv, TypeOK
<1>3. Stage(t) /\ Holds(t) /\ op[t] \in Puts /\ p_node[t] \in Nodes
  BY DEF InsertRead, Goto, Holds, Inv, Stage
<1>4. \A u \in Tasks : u # t => pc'[u] = pc[u] /\ op'[u] = op[u] /\ p_node'[u] = p_node[u]
  BY <1>2 DEF InsertRead, Goto
<1>5. \A u \in Tasks : u # t => Stage(u)' /\ Owned(u)' = Owned(u)
  BY <1>1, <1>3, <1>4, OthersKeep
<1>6. PICK s : Ordered(s) /\ Placed(s)
  BY DEF Inv
<1>7. Owned(t) = {p_node[t]} /\ Owned(t)' = Owned(t)
  BY <1>2, <1>3, ListAssumption DEF InsertRead, Goto, Owned
<1>8. ~In(p_node[t], s)
  BY <1>6, <1>7 DEF Placed
<1>9. \A n \in Nodes : n # p_node[t] => next'[n] = next[n] /\ prev'[n] = prev[n]
  BY <1>2 DEF InsertRead
<1>10. Ordered(s)'
  BY <1>1, <1>6, <1>8, <1>9, SameList DEF InsertRead
<1>11. Placed(s)'
  BY <1>5, <1>6, <1>7 DEF InsertRead, Placed, In
<1>12. Stage(t)'
  BY <1>2, <1>3, ListAssumption DEF InsertRead, Goto, Stage
<1>. QED
  BY <1>1, <1>5, <1>10, <1>11, <1>12 DEF Inv

\* A node set before all others.
LEMMA HeadOrdered ==
    ASSUME Inv, NEW t \in Tasks, op[t] = "insert_head", pc[t] = "write",
           NEW s, Ordered(s), ~In(p_node[t], s), InsertHead(p_node[t]), count' = count + 1,
           NEW r, r = [i \in 1 .. count + 1 |-> IF i = 1 THEN p_node[t] ELSE s[i - 1]]
    PROVE  Ordered(r)' /\ \A m : In(m, r)' <=> In(m, s) \/ m = p_node[t]
<1>. DEFINE n == p_node[t]
<1>1. count \in Nat /\ count # 0 /\ next \in [Nodes -> Nodes \cup {NULL}]
      /\ prev \in [Nodes -> Nodes \cup {NULL}] /\ n \in Nodes /\ next[n] = head /\ prev[n] = NULL
  BY CountBound DEF Inv, InsertHead, Stage, Ordered, TypeInv, TypeOK
<1>2. head = s[1] /\ \A i \in 1 .. count : s[i] \in Nodes /\ s[i] # n
  BY <1>1 DEF Ordered, In
<1>3. /\ r[1] = n
      /\ \A i \in 1 .. count : r[i + 1] = s[i]
      /\ \A i \in 2 .. count + 1 : r[i] = s[i - 1] /\ i - 1 \in 1 .. count
  BY <1>1
<1>4. r \in [1 .. count' -> Nodes]
  BY <1>1, <1>2, <1>3
<1>5. \A i, j \in 1 .. count' : r[i] = r[j] => i = j
  <2>1. SUFFICES ASSUME NEW i \in 1 .. count + 1, NEW j \in 1 .. count + 1, r[i] = r[j]
        PROVE  i = j
    OBVIOUS
  <2>2. CASE i = 1
    BY <1>1, <1>2, <1>3, <2>1, <2>2
  <2>3. CASE j = 1
    BY <1>1, <1>2, <1>3, <2>1, <2>3
  <2>4. CASE i # 1 /\ j # 1
    <3>1. /\ i \in 2 .. count + 1 /\ j \in 2 .. count + 1
          /\ i - 1 \in 1 .. count /\ j - 1 \in 1 .. count
      BY <1>1, <2>4
    <3>2. s[i - 1] = s[j - 1]
      BY <1>3, <2>1, <3>1
    <3>3. i - 1 = j - 1
      BY <3>1, <3>2 DEF Ordered
    <3>. QED
      BY <3>1, <3>3
  <2>. QED
    BY <2>2, <2>3, <2>4
<1>6. head' = r[1] /\ tail' = r[count'] /\ next' = next /\ prev' = [prev EXCEPT ![s[1]] = n]
  BY <1>1, <1>2, <1>3 DEF InsertHead, Ordered
<1>7. next'[tail'] = NULL /\ prev'[head'] = NULL
  BY <1>1, <1>2, <1>3, <1>6 DEF InsertHead, Ordered
<1>8. ASSUME NEW i \in 1 .. count' - 1
      PROVE  next'[r[i]] = r[i + 1] /\ prev'[r[i + 1]] = r[i]
  <2>1. CASE i = 1
    BY <1>1, <1>2, <1>3, <1>6, <2>1
  <2>2. CASE i # 1
    <3>1. i - 1 \in 1 .. count - 1 /\ i \in 1 .. count /\ r[i] = s[i - 1] /\ r[i + 1] = s[i]
      BY <1>1, <1>3, <2>2
    <3>2. s[i] # s[1]
      BY <1>1, <2>2, <3>1 DEF Ordered
    <3>3. next[s[i - 1]] = s[i] /\ prev[s[i]] = s[i - 1]
      BY <1>1, <3>1 DEF Ordered
    <3>. QED
      BY <1>1, <1>2, <1>6, <3>1, <3>2, <3>3
  <2>. QED
    BY <2>1, <2>2
<1>9. Ordered(r)'
  <2>1. count' # 0
    BY <1>1
  <2>. QED
    BY <1>4, <1>5, <1>6, <1>7, <1>8, <2>1 DEF Ordered
<1>10. ASSUME NEW m PROVE In(m, r)' <=> In(m, s) \/ m = n
  <2>1. In(m, r)' <=> \E i \in 1 .. count + 1 : r[i] = m
    BY DEF In
  <2>2. \A i \in 1 .. count : i + 1 \in 1 .. count + 1
    BY <1>1
  <2>3. \A i \in 1 .. count + 1 : i = 1 \/ i \in 2 .. count + 1
    BY <1>1
  <2>4. 1 \in 1 .. count + 1
    BY <1>1
  <2>5. In(m, r)' => In(m, s) \/ m = n
    BY <1>3, <2>1, <2>3 DEF In
  <2>6. In(m, s) => In(m, r)'
    BY <1>3, <2>1, <2>2 DEF In
  <2>7. m = n => In(m, r)'
    BY <1>3, <2>1, <2>4
  <2>. QED
    BY <2>5, <2>6, <2>7
<1>. QED
  BY <1>9, <1>10

\* A node set behind all others.
LEMMA TailOrdered ==
    ASSUME Inv, NEW t \in Tasks, op[t] = "insert_tail", pc[t] = "write",
           NEW s, Ordered(s), ~In(p_node[t], s), InsertTail(p_node[t]), count' = count + 1,
           NEW r, r = [i \in 1 .. count + 1 |-> IF i = count + 1 THEN p_node[t] ELSE s[i]]
    PROVE  Ordered(r)' /\ \A m : In(m, r)' <=> In(m, s) \/ m = p_node[t]
<1>. DEFINE n == p_node[t]
<1>1. count \in Nat /\ count # 0 /\ next \in [Nodes -> Nodes \cup {NULL}]
      /\ prev \in [Nodes -> Nodes \cup {NULL}] /\ n \in Nodes /\ next[n] = NULL /\ prev[n] = tail
  BY CountBound DEF Inv, InsertTail, Stage, Ordered, TypeInv, TypeOK
<1>2. tail = s[count] /\ \A i \in 1 .. count : s[i] \in Nodes /\ s[i] # n
  BY <1>1 DEF Ordered, In
<1>3. r[count + 1] = n /\ \A i \in 1 .. count : r[i] = s[i]
  BY <1>1
<1>4. r \in [1 .. count' -> Nodes]
  BY <1>1, <1>2, <1>3
<1>5. \A i, j \in 1 .. count' : r[i] = r[j] => i = j
  <2>1. SUFFICES ASSUME NEW i \in 1 .. count + 1, NEW j \in 1 .. count + 1, r[i] = r[j]
        PROVE  i = j
    OBVIOUS
  <2>2. i \in 1 .. count \/ i = count + 1
    BY <1>1
  <2>3. j \in 1 .. count \/ j = count + 1
    BY <1>1
  <2>4. CASE i \in 1 .. count /\ j \in 1 .. count
    <3>1. s[i] = s[j]
      BY <1>3, <2>1, <2>4
    <3>. QED
      BY <2>4, <3>1 DEF Ordered
  <2>5. CASE i = count + 1 \/ j = count + 1
    BY <1>2, <1>3, <2>1, <2>2, <2>3, <2>5
  <2>. QED
    BY <2>2, <2>3, <2>4, <2>5
<1>6. head' = r[1] /\ tail' = r[count'] /\ prev' = prev /\ next' = [next EXCEPT ![s[count]] = n]
  BY <1>1, <1>2, <1>3 DEF InsertTail, Ordered
<1>7. next'[tail'] = NULL /\ prev'[head'] = NULL
  <2>1. tail' = n /\ head' = head /\ prev[head] = NULL /\ s[count] # n
    BY <1>1, <1>2 DEF InsertTail, Ordered
  <2>. QED
    BY <1>1, <1>6, <2>1
<1>8. ASSUME NEW i \in 1 .. count' - 1
      PROVE  next'[r[i]] = r[i + 1] /\ prev'[r[i + 1]] = r[i]
  <2>1. CASE i = count
    BY <1>1, <1>2, <1>3, <1>6, <2>1
  <2>2. CASE i # count
    <3>1. i \in 1 .. count - 1 /\ i + 1 \in 1 .. count /\ r[i] = s[i] /\ r[i + 1] = s[i + 1]
      BY <1>1, <1>3, <2>2
    <3>2. s[i] # s[count]
      BY <1>1, <2>2, <3>1 DEF Ordered
    <3>3. next[s[i]] = s[i + 1] /\ prev[s[i + 1]] = s[i]
      BY <1>1, <3>1 DEF Ordered
    <3>. QED
      BY <1>1, <1>2, <1>6, <3>1, <3>2, <3>3
  <2>. QED
    BY <2>1, <2>2
<1>9. Ordered(r)'
  <2>1. count' # 0
    BY <1>1
  <2>. QED
    BY <1>4, <1>5, <1>6, <1>7, <1>8, <2>1 DEF Ordered
<1>10. ASSUME NEW m PROVE In(m, r)' <=> In(m, s) \/ m = n
  <2>1. In(m, r)' <=> \E i \in 1 .. count + 1 : r[i] = m
    BY DEF In
  <2>2. \A i : i \in 1 .. count + 1 <=> i \in 1 .. count \/ i = count + 1
    BY <1>1
  <2>. QED
    BY <1>3, <2>1, <2>2 DEF In
<1>. QED
  BY <1>9, <1>10

\* The second half of an insertion sets the task's node before or behind all others.
LEMMA InsertWriteList ==
    ASSUME Inv, NEW t \in Tasks, InsertWrite(t), NEW s, Ordered(s), Placed(s)
    PROVE  \E r :
             /\ Ordered(r)' /\ \A m : In(m, r)' <=> In(m, s) \/ m = p_node[t]
             /\ \/ r = [i \in 1 .. count + 1 |-> IF i = 1 THEN p_node[t] ELSE s[i - 1]]
                \/ r = [i \in 1 .. count + 1 |-> IF i = count + 1 THEN p_node[t] ELSE s[i]]
<1>. DEFINE n == p_node[t]
<1>1. TypeInv
  BY DEF Inv
<1>2. /\ pc \in [Tasks -> PCs] /\ op \in [Tasks -> Ops \cup {"none"}]
      /\ p_node \in [Tasks -> Nodes \cup {NULL}]
  BY <1>1 DEF TypeInv, TypeOK
<1>3. Stage(t) /\ op[t] \in Puts /\ n \in Nodes /\ pc[t] = "write"
  BY DEF InsertWrite, Goto, Inv, Stage
<1>4. ~In(n, s)
  <2>1. n \in Owned(t)
    BY <1>3, ListAssumption DEF Owned, Puts, Pops
  <2>. QED
    BY <2>1 DEF Placed
<1>5. count \in Nat /\ count' = count + 1
  BY <1>1, CountBound, ListAssumption DEF InsertWrite, Inc
<1>6. CASE InsertEmpty(n)
  <2>1. PICK r : r = [i \in 1 .. 1 |-> n]
    OBVIOUS
  <2>2. count = 0 /\ head = NULL
    <3>1. count > 0 => s[1] \in Nodes
      BY <1>5 DEF Ordered
    <3>. QED
      BY <1>5, <1>6, <3>1, ListAssumption DEF InsertEmpty, Ordered
  <2>3. next[n] = NULL /\ prev[n] = NULL
    BY <1>3, <2>2 DEF Stage
  <2>4. count' = 1 /\ r[1] = n /\ \A i : i \in 1 .. 1 <=> i = 1
    BY <1>5, <2>1, <2>2
  <2>5. head' = n /\ tail' = n /\ next'[n] = NULL /\ prev'[n] = NULL
    BY <1>6, <2>3 DEF InsertEmpty
  <2>6. Ordered(r)'
    BY <1>3, <2>1, <2>4, <2>5 DEF Ordered
  <2>7. ASSUME NEW m PROVE In(m, r)' <=> In(m, s) \/ m = n
    BY <2>2, <2>4 DEF In
  <2>8. r = [i \in 1 .. count + 1 |-> IF i = 1 THEN n ELSE s[i - 1]]
    BY <2>1, <2>2
  <2>. QED
    BY <2>6, <2>7, <2>8
<1>7. CASE op[t] = "insert_head" /\ InsertHead(n)
  <2>1. PICK r : r = [i \in 1 .. count + 1 |-> IF i = 1 THEN n ELSE s[i - 1]]
    OBVIOUS
  <2>. QED
    BY <1>3, <1>4, <1>5, <1>7, <2>1, HeadOrdered
<1>8. CASE op[t] = "insert_tail" /\ InsertTail(n)
  <2>1. PICK r : r = [i \in 1 .. count + 1 |-> IF i = count + 1 THEN n ELSE s[i]]
    OBVIOUS
  <2>. QED
    BY <1>3, <1>4, <1>5, <1>8, <2>1, TailOrdered
<1>. QED
  BY <1>6, <1>7, <1>8 DEF InsertWrite

\* The second half of an insertion makes the list longer by the task's node.
LEMMA InsertWriteInv ==
    ASSUME Inv, NEW t \in Tasks, InsertWrite(t)
    PROVE  Inv'
<1>. DEFINE n == p_node[t]
<1>1. TypeInv /\ TypeInv'
  BY InsertTypes DEF Inv
<1>2. /\ pc \in [Tasks -> PCs] /\ op \in [Tasks -> Ops \cup {"none"}]
      /\ p_node \in [Tasks -> Nodes \cup {NULL}]
  BY <1>1 DEF TypeInv, TypeOK
<1>3. Stage(t) /\ Holds(t) /\ op[t] \in Puts /\ n \in Nodes /\ pc[t] = "write"
  BY DEF InsertWrite, Goto, Holds, Inv, Stage
<1>4. \A u \in Tasks : u # t => pc'[u] = pc[u] /\ op'[u] = op[u] /\ p_node'[u] = p_node[u]
  BY <1>2 DEF InsertWrite, Goto, Hold
<1>5. \A u \in Tasks : u # t => Stage(u)' /\ Owned(u)' = Owned(u)
  BY <1>1, <1>3, <1>4, OthersKeep
<1>6. PICK s : Ordered(s) /\ Placed(s)
  BY DEF Inv
<1>7. Owned(t) = {n} /\ Owned(t)' = {}
  BY <1>2, <1>3, ListAssumption DEF InsertWrite, Goto, Hold, Owned
<1>8. ~In(n, s)
  BY <1>6, <1>7 DEF Placed
<1>9. count \in Nat /\ count' = count + 1
  BY <1>1, <1>6, CountBound, ListAssumption DEF InsertWrite, Inc
<1>10. Stage(t)'
  BY <1>2, <1>3 DEF InsertWrite, Goto, Hold, Stage
<1>11. \E r : Ordered(r)' /\ \A m : In(m, r)' <=> In(m, s) \/ m = n
  BY <1>6, InsertWriteList
<1>12. PICK r : Ordered(r)' /\ \A m : In(m, r)' <=> In(m, s) \/ m = n
  BY <1>11
<1>13. Placed(r)'
  <2>1. used' = used
    BY DEF InsertWrite
  <2>2. \A m \in Nodes : m \in used' <=> In(m, r)' \/ \E u \in Tasks : m \in Owned(u)'
    BY <1>5, <1>6, <1>7, <1>12, <2>1 DEF Placed
  <2>3. \A u \in Tasks : \A m \in Owned(u)' : ~In(m, r)'
    BY <1>5, <1>6, <1>7, <1>12 DEF Placed
  <2>4. \A u, v \in Tasks : u # v => Owned(u)' \cap Owned(v)' = {}
    BY <1>5, <1>6, <1>7 DEF Placed
  <2>. QED
    BY <2>2, <2>3, <2>4 DEF Placed
<1>. QED
  BY <1>1, <1>5, <1>10, <1>12, <1>13 DEF Inv

----------------------------------------------------------------------------
\* The first half of a removal looks at an end of the list.
LEMMA RemoveReadInv ==
    ASSUME Inv, NEW t \in Tasks, RemoveRead(t)
    PROVE  Inv'
<1>1. TypeInv /\ TypeInv'
  BY RemoveTypes DEF Inv
<1>2. /\ pc \in [Tasks -> PCs] /\ op \in [Tasks -> Ops \cup {"none"}]
      /\ p_node \in [Tasks -> Nodes \cup {NULL}]
  BY <1>1 DEF TypeInv, TypeOK
<1>3. Stage(t) /\ Holds(t) /\ op[t] \in Pops /\ p_node[t] = NULL
  BY DEF RemoveRead, Goto, Holds, Inv, Stage
<1>4. \A u \in Tasks : u # t => pc'[u] = pc[u] /\ op'[u] = op[u] /\ p_node'[u] = p_node[u]
  BY <1>2 DEF RemoveRead, Goto, Hold
<1>5. \A u \in Tasks : u # t => Stage(u)' /\ Owned(u)' = Owned(u)
  BY <1>1, <1>3, <1>4, OthersKeep
<1>6. PICK s : Ordered(s) /\ Placed(s)
  BY DEF Inv
<1>7. Owned(t) = {} /\ Owned(t)' = {}
  BY <1>2, <1>3 DEF RemoveRead, Goto, Hold, Owned
<1>8. Ordered(s)'
  BY <1>6 DEF RemoveRead, Ordered
<1>9. Placed(s)'
  BY <1>5, <1>6, <1>7 DEF RemoveRead, Placed, In
<1>10. Stage(t)'
  BY <1>2, <1>3 DEF RemoveRead, Goto, Hold, Stage
<1>. QED
  BY <1>1, <1>5, <1>8, <1>9, <1>10 DEF Inv

\* The list without its first node.
LEMMA HeadRemoved ==
    ASSUME Inv, NEW s, Ordered(s), count > 1, NEW n, n = head, RemoveHead(n),
           count' = count - 1,
           NEW r, r = [i \in 1 .. count - 1 |-> s[i + 1]]
    PROVE  Ordered(r)' /\ \A m : In(m, s) <=> In(m, r)' \/ m = n
<1>1. count \in Nat /\ next \in [Nodes -> Nodes \cup {NULL}] /\ prev \in [Nodes -> Nodes \cup {NULL}]
  BY CountBound DEF Inv, TypeInv, TypeOK
<1>2. n = s[1] /\ next[n] = s[2] /\ \A i \in 1 .. count : s[i] \in Nodes
  BY <1>1 DEF Ordered
<1>3. \A i \in 1 .. count - 1 : r[i] = s[i + 1] /\ i + 1 \in 1 .. count
  BY <1>1
<1>4. r \in [1 .. count' -> Nodes]
  BY <1>1, <1>2, <1>3
<1>5. \A i, j \in 1 .. count' : r[i] = r[j] => i = j
  <2>1. SUFFICES ASSUME NEW i \in 1 .. count - 1, NEW j \in 1 .. count - 1, r[i] = r[j]
        PROVE  i = j
    OBVIOUS
  <2>2. i + 1 = j + 1
    BY <1>3, <2>1 DEF Ordered
  <2>. QED
    BY <1>1, <2>2
<1>6. /\ head' = r[1] /\ tail' = r[count']
      /\ next' = [next EXCEPT ![n] = NULL] /\ prev' = [prev EXCEPT ![s[2]] = NULL]
  BY <1>1, <1>2, <1>3 DEF RemoveHead, Ordered
<1>7. next'[tail'] = NULL /\ prev'[head'] = NULL
  <2>1. 2 \in 1 .. count /\ count \in 1 .. count /\ s[count] # s[1] /\ tail' = s[count]
    BY <1>1, <1>2 DEF RemoveHead, Ordered
  <2>2. head' = s[2]
    BY <1>2 DEF RemoveHead
  <2>. QED
    BY <1>1, <1>2, <1>6, <2>1, <2>2 DEF Ordered
<1>8. ASSUME NEW i \in 1 .. count' - 1
      PROVE  next'[r[i]] = r[i + 1] /\ prev'[r[i + 1]] = r[i]
  <2>1. i + 1 \in 1 .. count - 1 /\ i + 1 \in 1 .. count /\ i + 2 \in 1 .. count
        /\ r[i] = s[i + 1] /\ r[i + 1] = s[i + 2]
    BY <1>1, <1>3
  <2>2. s[i + 1] # s[1] /\ s[i + 2] # s[2]
    BY <1>1, <2>1 DEF Ordered
  <2>3. next[s[i + 1]] = s[i + 2] /\ prev[s[i + 2]] = s[i + 1]
    BY <1>1, <2>1 DEF Ordered
  <2>. QED
    BY <1>1, <1>2, <1>6, <2>1, <2>2, <2>3
<1>9. Ordered(r)'
  <2>1. count' # 0
    BY <1>1
  <2>. QED
    BY <1>4, <1>5, <1>6, <1>7, <1>8, <2>1 DEF Ordered
<1>10. ASSUME NEW m PROVE In(m, s) <=> In(m, r)' \/ m = n
  <2>1. In(m, r)' <=> \E i \in 1 .. count - 1 : s[i + 1] = m
    BY <1>3 DEF In
  <2>2. \A i \in 1 .. count : i = 1 \/ (i - 1 \in 1 .. count - 1 /\ s[(i - 1) + 1] = s[i])
    BY <1>1
  <2>3. 1 \in 1 .. count
    BY <1>1
  <2>4. In(m, s) => In(m, r)' \/ m = n
    BY <1>2, <2>1, <2>2 DEF In
  <2>5. In(m, r)' => In(m, s)
    BY <1>3, <2>1 DEF In
  <2>6. m = n => In(m, s)
    BY <1>2, <2>3 DEF In
  <2>. QED
    BY <2>4, <2>5, <2>6
<1>. QED
  BY <1>9, <1>10

\* The list without its last node.
LEMMA TailRemoved ==
    ASSUME Inv, NEW s, Ordered(s), count > 1, NEW n, n = tail, RemoveTail(n),
           count' = count - 1,
           NEW r, r = [i \in 1 .. count - 1 |-> s[i]]
    PROVE  Ordered(r)' /\ \A m : In(m, s) <=> In(m, r)' \/ m = n
<1>1. count \in Nat /\ next \in [Nodes -> Nodes \cup {NULL}] /\ prev \in [Nodes -> Nodes \cup {NULL}]
  BY CountBound DEF Inv, TypeInv, TypeOK
<1>2. n = s[count] /\ \A i \in 1 .. count : s[i] \in Nodes
  BY <1>1 DEF Ordered
<1>3. \A i \in 1 .. count - 1 : r[i] = s[i] /\ i \in 1 .. count
  BY <1>1
<1>4. prev[n] = s[count - 1]
  <2>1. count - 1 \in 1 .. count - 1 /\ (count - 1) + 1 = count
    BY <1>1
  <2>. QED
    BY <1>2, <2>1 DEF Ordered
<1>5. r \in [1 .. count' -> Nodes]
  BY <1>1, <1>2, <1>3
<1>6. \A i, j \in 1 .. count' : r[i] = r[j] => i = j
  BY <1>3 DEF Ordered
<1>7. /\ head' = r[1] /\ tail' = r[count'] /\ tail' = s[count - 1]
      /\ prev' = [prev EXCEPT ![n] = NULL] /\ next' = [next EXCEPT ![s[count - 1]] = NULL]
  BY <1>1, <1>2, <1>3, <1>4 DEF RemoveTail, Ordered
<1>8. next'[tail'] = NULL /\ prev'[head'] = NULL
  <2>1. 1 \in 1 .. count /\ count \in 1 .. count /\ count - 1 \in 1 .. count
        /\ s[count] # s[1] /\ head' = s[1] /\ prev[s[1]] = NULL
    BY <1>1, <1>2 DEF RemoveTail, Ordered
  <2>. QED
    BY <1>1, <1>2, <1>7, <2>1
<1>9. ASSUME NEW i \in 1 .. count' - 1
      PROVE  next'[r[i]] = r[i + 1] /\ prev'[r[i + 1]] = r[i]
  <2>1. i \in 1 .. count - 1 /\ i + 1 \in 1 .. count - 1 /\ i \in 1 .. count /\ i + 1 \in 1 .. count
        /\ r[i] = s[i] /\ r[i + 1] = s[i + 1] /\ i # count - 1 /\ i + 1 # count
    BY <1>1, <1>3
  <2>2. s[i] # s[count - 1] /\ s[i + 1] # s[count]
    <3>1. count - 1 \in 1 .. count /\ count \in 1 .. count
      BY <1>1
    <3>. QED
      BY <2>1, <3>1 DEF Ordered
  <2>3. next[s[i]] = s[i + 1] /\ prev[s[i + 1]] = s[i]
    BY <2>1 DEF Ordered
  <2>. QED
    BY <1>1, <1>2, <1>7, <2>1, <2>2, <2>3
<1>10. Ordered(r)'
  <2>1. count' # 0
    BY <1>1
  <2>. QED
    BY <1>5, <1>6, <1>7, <1>8, <1>9, <2>1 DEF Ordered
<1>11. ASSUME NEW m PROVE In(m, s) <=> In(m, r)' \/ m = n
  <2>1. In(m, r)' <=> \E i \in 1 .. count - 1 : s[i] = m
    BY <1>3 DEF In
  <2>2. \A i : i \in 1 .. count <=> i \in 1 .. count - 1 \/ i = count
    BY <1>1
  <2>. QED
    BY <1>2, <2>1, <2>2 DEF In
<1>. QED
  BY <1>10, <1>11

\* The second half of a removal leaves the list without its first or last node.
LEMMA RemoveWriteList ==
    ASSUME Inv, NEW t \in Tasks, RemoveWrite(t), NEW s, Ordered(s), Placed(s)
    PROVE  /\ count \in Nat /\ count > 0 /\ count' = count - 1
           /\ p_node[t] \in Nodes /\ pc[t] = "write" /\ op[t] \in Pops
           /\ \E r :
                /\ Ordered(r)' /\ \A m : In(m, s) <=> In(m, r)' \/ m = p_node[t]
                /\ ~In(p_node[t], r)'
                /\ \/ p_node[t] = s[1] /\ r = [i \in 1 .. count - 1 |-> s[i + 1]]
                   \/ p_node[t] = s[count] /\ r = [i \in 1 .. count - 1 |-> s[i]]
<1>. DEFINE n == p_node[t]
<1>1. TypeInv
  BY DEF Inv
<1>2. Stage(t) /\ op[t] \in Pops /\ pc[t] = "write"
  BY DEF RemoveWrite, Goto, Inv, Stage
<1>3. n \in Nodes /\ n # NULL /\ (op[t] = "remove_head" => n = head) /\ (op[t] = "remove_tail" => n = tail)
  BY <1>1, <1>2, ListAssumption DEF Stage, TypeInv, Control
<1>4. count \in Nat /\ count > 0 /\ count' = count - 1 /\ p_node' = p_node
  <2>1. count \in Nat /\ count <= Depth
    BY <1>1, CountBound
  <2>2. count # 0
    BY <1>2, <1>3 DEF Ordered, Pops
  <2>. QED
    BY <2>1, <2>2 DEF RemoveWrite, Dec
<1>5. CASE RemoveLast
  <2>1. count = 1 /\ s[1] = n
    <3>1. 1 \in 1 .. count /\ count \in 1 .. count /\ s[1] = s[count] /\ s[1] = n
      BY <1>2, <1>3, <1>4, <1>5 DEF RemoveLast, Ordered, Pops
    <3>. QED
      BY <3>1 DEF Ordered
  <2>2. PICK r : r = [i \in 1 .. 0 |-> s[i + 1]]
    OBVIOUS
  <2>3. count' = 0 /\ ~\E i \in 1 .. 0 : TRUE
    BY <1>4, <2>1
  <2>4. Ordered(r)'
    BY <1>5, <2>2, <2>3 DEF RemoveLast, Ordered
  <2>5. \A m : ~In(m, r)'
    BY <2>3 DEF In
  <2>6. ASSUME NEW m PROVE In(m, s) <=> m = n
    BY <2>1 DEF In
  <2>7. r = [i \in 1 .. count - 1 |-> s[i + 1]]
    BY <2>1, <2>2
  <2>8. ~In(n, r)'
    BY <2>3 DEF In
  <2>. QED
    BY <1>2, <1>3, <1>4, <2>1, <2>4, <2>5, <2>6, <2>7, <2>8
<1>6. CASE head # tail
  <2>1. count > 1
    BY <1>4, <1>6 DEF Ordered
  <2>2. CASE op[t] = "remove_head"
    <3>1. PICK r : r = [i \in 1 .. count - 1 |-> s[i + 1]]
      OBVIOUS
    <3>2. RemoveHead(n) /\ n = head
      BY <1>3, <1>6, <2>2 DEF RemoveWrite, RemoveLast
    <3>3. Ordered(r)' /\ \A m : In(m, s) <=> In(m, r)' \/ m = n
      BY <1>4, <2>1, <3>1, <3>2, HeadRemoved
    <3>4. ASSUME NEW i \in 1 .. count - 1 PROVE r[i] # n
      <4>1. r[i] = s[i + 1] /\ i + 1 \in 1 .. count /\ 1 \in 1 .. count /\ i + 1 # 1 /\ n = s[1]
        BY <1>4, <3>1, <3>2 DEF Ordered
      <4>. QED
        BY <4>1 DEF Ordered
    <3>5. ~In(n, r)'
      BY <1>4, <3>4 DEF In
    <3>6. n = s[1]
      BY <1>4, <3>2 DEF Ordered
    <3>. QED
      BY <1>2, <1>3, <1>4, <3>1, <3>3, <3>5, <3>6
  <2>3. CASE op[t] = "remove_tail"
    <3>1. PICK r : r = [i \in 1 .. count - 1 |-> s[i]]
      OBVIOUS
    <3>2. RemoveTail(n) /\ n = tail
      BY <1>3, <1>6, <2>3 DEF RemoveWrite, RemoveLast
    <3>3. Ordered(r)' /\ \A m : In(m, s) <=> In(m, r)' \/ m = n
      BY <1>4, <2>1, <3>1, <3>2, TailRemoved
    <3>4. ASSUME NEW i \in 1 .. count - 1 PROVE r[i] # n
      <4>1. r[i] = s[i] /\ i \in 1 .. count /\ count \in 1 .. count /\ i # count /\ n = s[count]
        BY <1>4, <3>1, <3>2 DEF Ordered
      <4>. QED
        BY <4>1 DEF Ordered
    <3>5. ~In(n, r)'
      BY <1>4, <3>4 DEF In
    <3>6. n = s[count]
      BY <1>4, <3>2 DEF Ordered
    <3>. QED
      BY <1>2, <1>3, <1>4, <3>1, <3>3, <3>5, <3>6
  <2>. QED
    BY <1>2, <2>2, <2>3 DEF Pops
<1>. QED
  BY <1>2, <1>5, <1>6 DEF RemoveWrite, Pops

\* The second half of a removal takes that end out; it is then the task's.
LEMMA RemoveWriteInv ==
    ASSUME Inv, NEW t \in Tasks, RemoveWrite(t)
    PROVE  Inv'
<1>. DEFINE n == p_node[t]
<1>1. TypeInv /\ TypeInv'
  BY RemoveTypes DEF Inv
<1>2. /\ pc \in [Tasks -> PCs] /\ op \in [Tasks -> Ops \cup {"none"}]
      /\ p_node \in [Tasks -> Nodes \cup {NULL}]
  BY <1>1 DEF TypeInv, TypeOK
<1>3. Stage(t) /\ op[t] \in Pops /\ pc[t] = "write" /\ Holds(t)
  BY DEF RemoveWrite, Goto, Holds, Inv, Stage
<1>4. \A u \in Tasks : u # t => pc'[u] = pc[u] /\ op'[u] = op[u] /\ p_node'[u] = p_node[u]
  BY <1>2 DEF RemoveWrite, Goto
<1>5. \A u \in Tasks : u # t => Stage(u)' /\ Owned(u)' = Owned(u)
  BY <1>1, <1>3, <1>4, OthersKeep
<1>6. PICK s : Ordered(s) /\ Placed(s)
  BY DEF Inv
<1>7. n \in Nodes /\ n # NULL /\ (op[t] = "remove_head" => n = head) /\ (op[t] = "remove_tail" => n = tail)
  BY <1>1, <1>3, ListAssumption DEF Stage, TypeInv, Control
<1>8. count \in Nat /\ count > 0 /\ count' = count - 1
  <2>1. count \in Nat /\ count <= Depth
    BY <1>1, <1>6, CountBound
  <2>2. count # 0
    BY <1>3, <1>6, <1>7 DEF Ordered
  <2>. QED
    BY <2>1, <2>2 DEF RemoveWrite, Dec
<1>9. Owned(t) = {} /\ Owned(t)' = {n}
  BY <1>2, <1>3, <1>7 DEF RemoveWrite, Goto, Owned
<1>10. Stage(t)'
  BY <1>2, <1>3 DEF RemoveWrite, Goto, Stage
<1>11. \E r : Ordered(r)' /\ (\A m : In(m, s) <=> In(m, r)' \/ m = n) /\ ~In(n, r)'
  BY <1>6, RemoveWriteList
<1>12. PICK r : Ordered(r)' /\ (\A m : In(m, s) <=> In(m, r)' \/ m = n) /\ ~In(n, r)'
  BY <1>11
<1>13. Placed(r)'
  <2>1. used' = used /\ n' = n
    BY DEF RemoveWrite
  <2>2. \A m \in Nodes : m \in used' <=> In(m, r)' \/ \E u \in Tasks : m \in Owned(u)'
    BY <1>5, <1>6, <1>9, <1>12, <2>1 DEF Placed
  <2>3. \A u \in Tasks : \A m \in Owned(u)' : ~In(m, r)'
    BY <1>5, <1>6, <1>9, <1>12, <2>1 DEF Placed
  <2>4. \A u \in Tasks : u # t => n \notin Owned(u)
    BY <1>6, <1>12 DEF Placed
  <2>5. \A u, v \in Tasks : u # v => Owned(u)' \cap Owned(v)' = {}
    BY <1>5, <1>6, <1>9, <2>4 DEF Placed
  <2>. QED
    BY <2>2, <2>3, <2>5 DEF Placed
<1>. QED
  BY <1>1, <1>5, <1>10, <1>12, <1>13 DEF Inv

----------------------------------------------------------------------------
\* Every step of every task keeps the invariant.
LEMMA InvNext ==
    ASSUME NoRemoveNode
    PROVE  Inv /\ [Next]_vars => Inv'
<1>. SUFFICES ASSUME Inv, [Next]_vars PROVE Inv'
  OBVIOUS
<1>1. CASE UNCHANGED vars
  <2>1. TypeInv'
    BY <1>1, TypeNext DEF Inv
  <2>2. \A t \in Tasks : Stage(t)' /\ Owned(t)' = Owned(t)
    BY <1>1 DEF Inv, Stage, Owned
  <2>3. PICK s : Ordered(s) /\ Placed(s)
    BY DEF Inv
  <2>4. Ordered(s)' /\ Placed(s)'
    BY <1>1, <2>2, <2>3 DEF Ordered, Placed, In
  <2>. QED
    BY <2>1, <2>2, <2>4 DEF Inv
<1>2. ASSUME NEW t \in Tasks, Call(t) \/ Lock(t) \/ Step(t) PROVE Inv'
  BY <1>2, OutsideInv, AllocInv, FreeInv, InsertReadInv, InsertWriteInv, RemoveReadInv,
     RemoveWriteInv DEF Step
<1>. QED
  BY <1>1, <1>2 DEF Next

\* The invariant holds in every behaviour.
LEMMA InvAlways ==
    ASSUME NoRemoveNode
    PROVE  Spec => []Inv
<1>1. Init => Inv
  BY InitInv
<1>2. Inv /\ [Next]_vars => Inv'
  BY InvNext
<1>. QED
  BY <1>1, <1>2, PTL DEF Spec

----------------------------------------------------------------------------
\* A set of numbers that is not empty has a least one: the induction over the
\* places of a list.
LEMMA Least ==
    ASSUME NEW S \in SUBSET Nat, S # {}
    PROVE  \E m \in S : \A k \in S : m <= k
<1>1. PICK m \in S : \A k \in S : ~(<<k, m>> \in OpToRel(<, Nat))
  BY NatLessThanWellFounded, WFMin
<1>2. \A k \in S : k < m => <<k, m>> \in OpToRel(<, Nat)
  BY DEF OpToRel
<1>3. ASSUME NEW k \in S PROVE m <= k
  <2>1. k \in Nat /\ m \in Nat /\ ~(k < m)
    BY <1>1, <1>2
  <2>. QED
    BY <2>1
<1>. QED
  BY <1>3

\* Walking along the arms from the head gives the sequence the list is.
LEMMA ChainIs ==
    ASSUME TypeInv, NEW s, Ordered(s)
    PROVE  Chain = s
<1>. DEFINE Walked(g) == [i \in 1 .. count |-> IF i = 1 THEN head
                                              ELSE IF g[i - 1] = NULL THEN NULL
                                              ELSE next[g[i - 1]]]
<1>1. count \in Nat
  BY CountBound
<1>2. s = Walked(s)
  <2>1. ASSUME NEW i \in 1 .. count
        PROVE  s[i] = IF i = 1 THEN head
                      ELSE IF s[i - 1] = NULL THEN NULL ELSE next[s[i - 1]]
    <3>1. CASE i = 1
      BY <1>1, <3>1 DEF Ordered
    <3>2. CASE i # 1
      <4>1. i - 1 \in 1 .. count - 1 /\ i - 1 \in 1 .. count /\ (i - 1) + 1 = i
        BY <1>1, <3>2
      <4>2. s[i - 1] # NULL /\ next[s[i - 1]] = s[i]
        BY <4>1, ListAssumption DEF Ordered
      <4>. QED
        BY <3>2, <4>2
    <3>. QED
      BY <3>1, <3>2
  <2>. QED
    BY <2>1 DEF Ordered
<1>3. Chain = CHOOSE g : g = Walked(g)
  BY DEF Chain
<1>4. Chain = Walked(Chain)
  BY <1>2, <1>3
<1>5. \A i \in 1 .. count : Chain[i] = s[i]
  <2>. DEFINE Wrong == {i \in 1 .. count : Chain[i] # s[i]}
  <2>1. SUFFICES ASSUME Wrong # {} PROVE FALSE
    OBVIOUS
  <2>2. Wrong \in SUBSET Nat
    BY <1>1
  <2>3. PICK m \in Wrong : \A k \in Wrong : m <= k
    <3>. HIDE DEF Wrong
    <3>. QED
      BY <2>1, <2>2, Least
  <2>4. m \in 1 .. count /\ Chain[m] # s[m]
    BY <2>3
  <2>5. m = 1 \/ Chain[m - 1] = s[m - 1]
    <3>1. m = 1 \/ m - 1 \in 1 .. count
      BY <1>1, <2>4
    <3>2. m - 1 \notin Wrong
      BY <1>1, <2>3, <2>4
    <3>. QED
      BY <3>1, <3>2
  <2>6. Chain[m] = Walked(Chain)[m] /\ s[m] = Walked(s)[m]
    BY <1>2, <1>4
  <2>. QED
    BY <2>4, <2>5, <2>6
<1>. QED
  BY <1>4, <1>5 DEF Ordered

\* Of any tasks, at any depth, that push, pop, allocate and free at both ends:
\* head, tail, count and both arms of every node describe one sequence.
THEOREM LinksCorrect ==
    ASSUME NoRemoveNode
    PROVE  Spec => []WellLinked
<1>1. ASSUME Inv PROVE WellLinked
  <2>1. PICK s : Ordered(s) /\ Placed(s)
    BY <1>1 DEF Inv
  <2>2. Chain = s /\ count \in Nat
    BY <1>1, <2>1, ChainIs, CountBound DEF Inv
  <2>3. \A i \in 1 .. count : s[i] \in used
    BY <2>1 DEF Ordered, Placed, In
  <2>4. count # 0 => count \in 1 .. count
    BY <2>2
  <2>. QED
    BY <2>1, <2>2, <2>3, <2>4 DEF WellLinked, Ordered
<1>2. Inv => WellLinked
  BY <1>1
<1>. QED
  BY <1>2, InvAlways, PTL

\* Among the same tasks no node is lost, given out twice, or in the list and a
\* task's at once, although linked_list_free_node takes no lock.
THEOREM NodesCorrect ==
    ASSUME NoRemoveNode
    PROVE  Spec => []NodesAccounted
<1>1. ASSUME Inv PROVE NodesAccounted
  <2>1. PICK s : Ordered(s) /\ Placed(s)
    BY <1>1 DEF Inv
  <2>2. Chain = s /\ count \in Nat
    BY <1>1, <2>1, ChainIs, CountBound DEF Inv
  <2>. DEFINE listed == {s[i] : i \in 1 .. count}
  <2>3. \A n : n \in listed <=> In(n, s)
    BY DEF In
  <2>4. Cardinality(listed) = count
    <3>1. s \in Bijection(1 .. count, listed)
      BY <2>1 DEF Ordered, Bijection, Injection, IsInjective, Surjection
    <3>2. IsFiniteSet(1 .. count) /\ Cardinality(1 .. count) = count
      BY <2>2, FS_Interval
    <3>3. ExistsBijection(1 .. count, listed)
      BY <3>1 DEF ExistsBijection
    <3>. HIDE DEF listed
    <3>. QED
      BY <3>2, <3>3, FS_Bijection
  <2>5. used = listed \cup UNION {Owned(t) : t \in Tasks}
    <3>1. used \subseteq Nodes /\ listed \subseteq Nodes
      BY <1>1, <2>1 DEF Inv, TypeInv, TypeOK, Ordered
    <3>2. \A t \in Tasks : Owned(t) \subseteq Nodes
      BY <1>1, <2>1, OwnedNode DEF Inv
    <3>3. \A n \in Nodes :
            n \in used <=> n \in listed \/ \E t \in Tasks : n \in Owned(t)
      BY <2>1, <2>3 DEF Placed
    <3>. HIDE DEF listed
    <3>4. \A n : n \in UNION {Owned(t) : t \in Tasks}
                 <=> \E t \in Tasks : n \in Owned(t)
      BY Zenon
    <3>5. ASSUME NEW n
          PROVE  n \in used <=> n \in listed \cup UNION {Owned(t) : t \in Tasks}
      BY <3>1, <3>2, <3>3, <3>4, Zenon
    <3>. QED
      BY <3>5, Zenon
  <2>6. \A t \in Tasks : Owned(t) \cap listed = {}
    BY <2>1, <2>3 DEF Placed
  <2>. QED
    BY <2>1, <2>2, <2>4, <2>5, <2>6 DEF NodesAccounted, Placed
<1>2. Inv => NodesAccounted
  BY <1>1
<1>. QED
  BY <1>2, InvAlways, PTL
----------------------------------------------------------------------------
(***************************************************************************)
(* LinkedList implements ListSeq when nobody calls linked_list_remove_node:*)
(* every step is one step of ListSeq under the mapping of LinkedList's     *)
(* List, or none.  From here on only the definitions cited are visible.    *)
(***************************************************************************)
HIDE DEF Nodes, Pops, Puts, Ops, PCs, links, vars

\* What the mapping says of one task.
HandOf(t) == IF Owned(t) = {} THEN NULL ELSE p_node[t]
ToldOf(t) == IF pc[t] # "unlock" \/ p_node[t] # NULL THEN "nothing"
             ELSE IF op[t] \in Pops THEN "empty"
             ELSE IF op[t] = "alloc" THEN "no node" ELSE "nothing"
Hand == [t \in Tasks |-> HandOf(t)]
Told == [t \in Tasks |-> ToldOf(t)]

\* The rest of what a step of t may change.
Alone(t) == \A u \in Tasks : u # t =>
                pc'[u] = pc[u] /\ op'[u] = op[u] /\ p_node'[u] = p_node[u]

----------------------------------------------------------------------------
\* The sequence is the one the list is, before a step and after it.
LEMMA ChainFact == TypeInv => \A s : Ordered(s) => Chain = s
BY ChainIs

\* The same after a step.
LEMMA ChainNext == TypeInv' => \A s : Ordered(s)' => Chain' = s
<1>1. (TypeInv => \A s : Ordered(s) => Chain = s)'
  BY ChainFact, PTL
<1>. QED
  BY <1>1

\* A sequence of nodes with count places.
LEMMA ChainSeq ==
    ASSUME TypeInv, NEW s, Ordered(s)
    PROVE  /\ Chain = s /\ Chain \in Seq(Nodes) /\ Len(Chain) = count /\ count \in Nat
           /\ count = 0 <=> Chain = <<>>
<1>1. count \in Nat /\ Chain = s
  BY CountBound, ChainFact
<1>2. s \in [1 .. count -> Nodes]
  BY DEF Ordered
<1>3. s \in Seq(Nodes) /\ Len(s) = count
  BY <1>1, <1>2
<1>. QED
  BY <1>1, <1>3, EmptySeq

\* A step of one task changes that task's hand and what it was told.
LEMMA Moves ==
    ASSUME NEW t \in Tasks, Alone(t)
    PROVE  /\ Hand' = [Hand EXCEPT ![t] = HandOf(t)']
           /\ Told' = [Told EXCEPT ![t] = ToldOf(t)']
<1>1. \A u \in Tasks : u # t => HandOf(u)' = HandOf(u) /\ ToldOf(u)' = ToldOf(u)
  BY DEF HandOf, ToldOf, Owned, Alone
<1>. QED
  BY <1>1 DEF Hand, Told

\* A step that leaves everything of this alone is no step of ListSeq.
LEMMA Stutters ==
    ASSUME NEW t \in Tasks, Alone(t), Chain' = Chain, used' = used,
           HandOf(t)' = HandOf(t), ToldOf(t)' = ToldOf(t)
    PROVE  UNCHANGED List!vars
<1>1. Hand' = Hand /\ Told' = Told
  BY Moves DEF Hand, Told
<1>. QED
  BY <1>1 DEF List!vars, Hand, Told, HandOf, ToldOf

\* Every action is one task's.
LEMMA StepAlone ==
    ASSUME TypeInv, NEW t \in Tasks, Call(t) \/ Lock(t) \/ Step(t)
    PROVE  Alone(t)
BY DEF TypeInv, TypeOK, Alone, Call, Lock, Step, AllocRead, AllocWrite, FreeArms, FreeUsed,
       InsertRead, InsertWrite, RemoveRead, RemoveWrite, Unlock, Goto, Hold

\* Arms and ends untouched, the sequence is.
LEMMA SameChain ==
    ASSUME UNCHANGED links
    PROVE  Chain' = Chain
BY DEF links, Chain

----------------------------------------------------------------------------
\* A call and a lock are no steps of ListSeq; an unlock ends a refused call.
LEMMA OutsideStep ==
    ASSUME NoRemoveNode, Inv, NEW t \in Tasks, Call(t) \/ Lock(t) \/ Unlock(t)
    PROVE  List!Next \/ UNCHANGED List!vars
<1>1. TypeInv /\ Alone(t)
  BY StepAlone DEF Inv, Step
<1>2. Chain' = Chain /\ used' = used
  BY SameChain DEF Call, Lock, Unlock
<1>3. /\ pc \in [Tasks -> PCs] /\ op \in [Tasks -> Ops \cup {"none"}]
      /\ p_node \in [Tasks -> Nodes \cup {NULL}]
  BY <1>1 DEF TypeInv, TypeOK
<1>4. p_node' = p_node
  BY <1>3 DEF Call, Lock, Unlock, NoRemoveNode
<1>5. CASE Call(t) \/ Lock(t)
  <2>1. HandOf(t)' = HandOf(t) /\ ToldOf(t)' = ToldOf(t)
    BY <1>3, <1>4, <1>5 DEF Call, Lock, Goto, HandOf, ToldOf, Owned, Puts, Pops
  <2>. QED
    BY <1>1, <1>2, <2>1, Stutters
<1>6. CASE Unlock(t)
  <2>1. HandOf(t)' = HandOf(t) /\ ToldOf(t)' = "nothing"
    BY <1>3, <1>4, <1>6 DEF Unlock, Goto, HandOf, ToldOf, Owned
  <2>2. Hand' = Hand /\ Told' = [Told EXCEPT ![t] = "nothing"]
    BY <1>1, <2>1, Moves DEF Hand
  <2>3. List!Return(t)
    BY <1>2, <2>2 DEF List!Return, Hand, Told, HandOf, ToldOf
  <2>. QED
    BY <2>3 DEF List!Next
<1>. QED
  BY <1>5, <1>6

\* An allocation takes a node of the pool, or is refused when an array is full.
LEMMA AllocStep ==
    ASSUME Inv, NEW t \in Tasks, AllocRead(t) \/ AllocWrite(t)
    PROVE  List!Next \/ UNCHANGED List!vars
<1>1. TypeInv /\ Alone(t) /\ Stage(t) /\ op[t] = "alloc"
  BY StepAlone DEF Inv, Step, AllocRead, AllocWrite
<1>2. Chain' = Chain /\ op' = op
  BY SameChain DEF AllocRead, AllocWrite
<1>3. /\ pc \in [Tasks -> PCs] /\ used \subseteq Nodes /\ NULL \notin Nodes
      /\ p_node \in [Tasks -> Nodes \cup {NULL}]
  BY <1>1, ListAssumption DEF TypeInv, TypeOK
<1>4. CASE AllocRead(t)
  <2>1. p_node[t] = NULL /\ used' = used /\ pc[t] = "read"
    BY <1>1, <1>4 DEF Stage, AllocRead, Goto, Pops
  <2>2. HandOf(t) = NULL /\ ToldOf(t) = "nothing"
    BY <2>1 DEF HandOf, ToldOf
  <2>3. CASE pc'[t] = "write"
    <3>1. HandOf(t)' = NULL /\ ToldOf(t)' = "nothing"
      BY <1>1, <1>2, <2>3 DEF HandOf, ToldOf, Owned
    <3>. QED
      BY <1>1, <1>2, <2>1, <2>2, <3>1, Stutters
  <2>4. CASE pc'[t] # "write"
    <3>1. pc'[t] = "unlock" /\ p_node' = p_node /\ (ArrayBased => used = Nodes)
      BY <1>3, <1>4, <2>4 DEF AllocRead, Goto
    <3>2. HandOf(t)' = NULL /\ ToldOf(t)' = "no node"
      BY <1>1, <1>2, <2>1, <3>1 DEF HandOf, ToldOf, Pops
    <3>3. Hand' = Hand /\ Told' = [Told EXCEPT ![t] = "no node"] /\ Told[t] = "nothing"
      BY <1>1, <2>2, <3>2, Moves DEF Hand, Told
    <3>4. ArrayBased => Nodes \ used = {}
      BY <3>1
    <3>5. List!Refuse(t)
      BY <1>2, <2>1, <3>3, <3>4 DEF List!Refuse, Hand, Told, HandOf, ToldOf
    <3>. QED
      BY <3>5 DEF List!Next
  <2>. QED
    BY <2>3, <2>4
<1>5. CASE AllocWrite(t)
  <2>. DEFINE n == p_node[t]
  <2>1. /\ pc[t] = "write" /\ pc'[t] = "unlock" /\ p_node' = p_node /\ used' = used \cup {n}
        /\ n \in Nodes \ used
    <3>1. pc[t] = "write" /\ pc'[t] = "unlock" /\ p_node' = p_node /\ used' = used \cup {n}
      BY <1>3, <1>5 DEF AllocWrite, Goto
    <3>2. n \notin used
      BY <1>1, <3>1 DEF Stage
    <3>3. n \in Nodes
      BY <1>1, <3>1 DEF TypeInv, Control
    <3>. QED
      BY <3>1, <3>2, <3>3
  <2>2. HandOf(t) = NULL /\ ToldOf(t) = "nothing"
    BY <1>1, <2>1 DEF HandOf, ToldOf, Owned
  <2>3. HandOf(t)' = n /\ ToldOf(t)' = "nothing"
    BY <1>1, <1>2, <1>3, <2>1 DEF HandOf, ToldOf, Owned
  <2>4. Hand' = [Hand EXCEPT ![t] = n] /\ Hand[t] = NULL /\ Told' = Told
    BY <1>1, <2>2, <2>3, Moves DEF Hand, Told
  <2>5. Nodes \ used' = (Nodes \ used) \ {n} /\ n \in Nodes \ used
    BY <2>1
  <2>. HIDE DEF n
  <2>6. List!Alloc(t)
    BY <1>2, <2>4, <2>5 DEF List!Alloc, List!Take, Hand, Told, HandOf, ToldOf
  <2>. QED
    BY <2>6 DEF List!Next
<1>. QED
  BY <1>4, <1>5

\* A node comes back to the pool when its flag falls, not when its arms do.
LEMMA FreeStep ==
    ASSUME Inv, Inv', NEW t \in Tasks, FreeArms(t) \/ FreeUsed(t)
    PROVE  List!Next \/ UNCHANGED List!vars
<1>1. TypeInv /\ TypeInv' /\ Alone(t) /\ Stage(t) /\ op[t] = "free"
  <2>1. op[t] = "free"
    BY DEF Inv, TypeInv, Control, FreeArms, FreeUsed, Goto
  <2>. QED
    BY <2>1, StepAlone DEF Inv, Step
<1>2. /\ pc \in [Tasks -> PCs] /\ used \subseteq Nodes /\ NULL \notin Nodes
      /\ op \in [Tasks -> Ops \cup {"none"}]
      /\ p_node \in [Tasks -> Nodes \cup {NULL}]
      /\ next \in [Nodes -> Nodes \cup {NULL}] /\ prev \in [Nodes -> Nodes \cup {NULL}]
  BY <1>1, ListAssumption DEF TypeInv, TypeOK
<1>. DEFINE n == p_node[t]
<1>3. n \in Nodes /\ Owned(t) = {n} /\ HandOf(t) = n /\ ToldOf(t) = "nothing"
  BY <1>1, <1>2 DEF Stage, Owned, HandOf, ToldOf, Pops
<1>4. PICK s : Ordered(s) /\ Placed(s)
  BY DEF Inv
<1>5. CASE FreeArms(t)
  <2>1. \A m \in Nodes : In(m, s) => next'[m] = next[m] /\ prev'[m] = prev[m]
    BY <1>2, <1>3, <1>4, <1>5 DEF FreeArms, Placed
  <2>2. Ordered(s)'
    BY <1>1, <1>4, <1>5, <2>1, SameList DEF FreeArms
  <2>3. Chain' = Chain
    BY <1>1, <1>4, <2>2, ChainFact, ChainNext
  <2>4. HandOf(t)' = HandOf(t) /\ ToldOf(t)' = ToldOf(t) /\ used' = used
    BY <1>1, <1>2, <1>5 DEF FreeArms, Goto, HandOf, ToldOf, Owned, Pops
  <2>. QED
    BY <1>1, <2>3, <2>4, Stutters
<1>6. CASE FreeUsed(t)
  <2>1. Chain' = Chain /\ used' = used \ {n}
    BY <1>6, SameChain DEF FreeUsed
  <2>2. HandOf(t)' = NULL /\ ToldOf(t)' = "nothing"
    BY <1>2, <1>6 DEF FreeUsed, Goto, Hold, HandOf, ToldOf
  <2>3. Hand' = [Hand EXCEPT ![t] = NULL] /\ Hand[t] = n /\ n # NULL /\ Told' = Told
    BY <1>1, <1>2, <1>3, <2>2, Moves DEF Hand, Told
  <2>4. Nodes \ used' = (Nodes \ used) \cup {n}
    BY <1>2, <1>3, <2>1
  <2>. HIDE DEF n
  <2>5. List!Free(t)
    BY <2>1, <2>3, <2>4 DEF List!Free, List!Give, Hand, Told, HandOf, ToldOf
  <2>. QED
    BY <2>5 DEF List!Next
<1>. QED
  BY <1>5, <1>6

----------------------------------------------------------------------------
\* The first half of an insertion touches no arm of the list.
LEMMA InsertReadStep ==
    ASSUME Inv, Inv', NEW t \in Tasks, InsertRead(t)
    PROVE  UNCHANGED List!vars
<1>1. TypeInv /\ TypeInv' /\ Alone(t) /\ Stage(t)
  BY StepAlone DEF Inv, Step
<1>2. /\ pc \in [Tasks -> PCs] /\ NULL \notin Nodes
      /\ p_node \in [Tasks -> Nodes \cup {NULL}]
      /\ next \in [Nodes -> Nodes \cup {NULL}] /\ prev \in [Nodes -> Nodes \cup {NULL}]
  BY <1>1, ListAssumption DEF TypeInv, TypeOK
<1>3. p_node[t] \in Nodes /\ Owned(t) = {p_node[t]}
  BY <1>1, <1>2 DEF InsertRead, Goto, Stage, Owned
<1>4. PICK s : Ordered(s) /\ Placed(s)
  BY DEF Inv
<1>5. \A m \in Nodes : In(m, s) => next'[m] = next[m] /\ prev'[m] = prev[m]
  BY <1>2, <1>3, <1>4 DEF InsertRead, Placed
<1>6. Ordered(s)'
  BY <1>1, <1>4, <1>5, SameList DEF InsertRead
<1>7. Chain' = Chain
  BY <1>1, <1>4, <1>6, ChainFact, ChainNext
<1>8. HandOf(t)' = HandOf(t) /\ ToldOf(t)' = ToldOf(t) /\ used' = used
  BY <1>1, <1>2 DEF InsertRead, Goto, HandOf, ToldOf, Owned, Puts, Pops
<1>. QED
  BY <1>1, <1>7, <1>8, Stutters

\* What a push of t's node is to ListSeq once the sequence is known.
LEMMA PushStep ==
    ASSUME NEW t \in Tasks, Alone(t), used' = used,
           HandOf(t) # NULL, HandOf(t)' = NULL, ToldOf(t)' = ToldOf(t),
           Chain' = <<HandOf(t)>> \o Chain \/ Chain' = Append(Chain, HandOf(t))
    PROVE  List!Next
<1>1. Hand' = [Hand EXCEPT ![t] = NULL] /\ Told' = Told
      /\ Hand[t] = HandOf(t) /\ Hand[t] # NULL
  BY Moves DEF Hand, Told
<1>2. List!Give(t) /\ UNCHANGED <<Nodes \ used, Told>>
  BY <1>1 DEF List!Give, Hand, HandOf
<1>3. List!PushHead(t) \/ List!PushTail(t)
  BY <1>1, <1>2 DEF List!PushHead, List!PushTail, Hand, Told, HandOf, ToldOf
<1>. QED
  BY <1>3 DEF List!Next

\* The places of a sequence with a node before the first, or after the last.
LEMMA OneMore ==
    ASSUME NEW S, NEW s \in Seq(S), NEW n \in S, NEW c, c = Len(s), NEW r
    PROVE  /\ r = [i \in 1 .. c + 1 |-> IF i = 1 THEN n ELSE s[i - 1]] => r = <<n>> \o s
           /\ r = [i \in 1 .. c + 1 |-> IF i = c + 1 THEN n ELSE s[i]] => r = Append(s, n)
<1>1. c \in Nat /\ \A i \in 1 .. c : s[i] \in S
  OBVIOUS
<1>2. CASE r = [i \in 1 .. c + 1 |-> IF i = 1 THEN n ELSE s[i - 1]]
  <2>1. \A i \in 1 .. c + 1 : i = 1 \/ i - 1 \in 1 .. c
    BY <1>1
  <2>2. r \in Seq(S) /\ Len(r) = c + 1
    BY <1>1, <1>2, <2>1
  <2>3. <<n>> \in Seq(S) /\ Len(<<n>>) = 1 /\ <<n>>[1] = n
    OBVIOUS
  <2>4. /\ <<n>> \o s \in Seq(S) /\ Len(<<n>> \o s) = 1 + c
        /\ \A i \in 1 .. 1 + c : (<<n>> \o s)[i] = IF i <= 1 THEN <<n>>[i] ELSE s[i - 1]
    BY <2>3, ConcatProperties
  <2>5. \A i \in 1 .. Len(r) : r[i] = (<<n>> \o s)[i]
    BY <1>1, <1>2, <2>2, <2>3, <2>4
  <2>6. r = <<n>> \o s
    BY <1>1, <2>2, <2>4, <2>5, SeqEqual
  <2>7. r = [i \in 1 .. c + 1 |-> IF i = c + 1 THEN n ELSE s[i]] => r = Append(s, n)
    <3>1. SUFFICES ASSUME r = [i \in 1 .. c + 1 |-> IF i = c + 1 THEN n ELSE s[i]]
                   PROVE  r = Append(s, n)
      OBVIOUS
    <3>2. \A i \in 1 .. Len(r) : r[i] = Append(s, n)[i]
      BY <1>1, <2>2, <3>1, AppendProperties
    <3>. QED
      BY <1>1, <2>2, <3>2, AppendProperties, SeqEqual
  <2>. QED
    BY <2>6, <2>7
<1>3. CASE r # [i \in 1 .. c + 1 |-> IF i = 1 THEN n ELSE s[i - 1]]
  <2>1. SUFFICES ASSUME r = [i \in 1 .. c + 1 |-> IF i = c + 1 THEN n ELSE s[i]]
                 PROVE  r = Append(s, n)
    BY <1>3
  <2>2. r \in Seq(S) /\ Len(r) = c + 1
    BY <1>1, <2>1
  <2>3. \A i \in 1 .. Len(r) : r[i] = Append(s, n)[i]
    BY <1>1, <2>1, <2>2, AppendProperties
  <2>. QED
    BY <1>1, <2>2, <2>3, AppendProperties, SeqEqual
<1>. QED
  BY <1>2, <1>3

\* The places of a sequence without the first, or without the last.
LEMMA OneLess ==
    ASSUME NEW S, NEW s \in Seq(S), s # <<>>, NEW c, c = Len(s), NEW r
    PROVE  /\ r = [i \in 1 .. c - 1 |-> s[i + 1]] => r = Tail(s)
           /\ r = [i \in 1 .. c - 1 |-> s[i]] => r = List!Front(s)
           /\ Head(s) = s[1]
<1>1. c \in Nat /\ c > 0 /\ \A i \in 1 .. c : s[i] \in S
  BY EmptySeq
<1>2. ASSUME r = [i \in 1 .. c - 1 |-> s[i + 1]] PROVE r = Tail(s)
  <2>1. \A i \in 1 .. c - 1 : i + 1 \in 1 .. c
    BY <1>1
  <2>2. r \in Seq(S) /\ Len(r) = c - 1
    BY <1>1, <1>2, <2>1
  <2>3. /\ Tail(s) \in Seq(S) /\ Len(Tail(s)) = c - 1
        /\ \A i \in 1 .. Len(Tail(s)) : Tail(s)[i] = s[i + 1]
    BY HeadTailProperties
  <2>4. \A i \in 1 .. Len(r) : r[i] = Tail(s)[i]
    BY <1>2, <2>2, <2>3
  <2>. QED
    BY <2>2, <2>3, <2>4, SeqEqual
<1>3. ASSUME r = [i \in 1 .. c - 1 |-> s[i]] PROVE r = List!Front(s)
  <2>1. \A i \in 1 .. c - 1 : i \in 1 .. c
    BY <1>1
  <2>2. r \in Seq(S) /\ Len(r) = c - 1
    BY <1>1, <1>3, <2>1
  <2>3. /\ SubSeq(s, 1, c - 1) \in Seq(S) /\ Len(SubSeq(s, 1, c - 1)) = c - 1
        /\ \A i \in 1 .. c - 1 : SubSeq(s, 1, c - 1)[i] = s[i]
    <3>1. 1 \in Int /\ c - 1 \in Int /\ \A i \in 1 .. c - 1 : s[i] \in S
      BY <1>1
    <3>2. /\ SubSeq(s, 1, c - 1) \in Seq(S)
          /\ Len(SubSeq(s, 1, c - 1)) = IF 1 <= c - 1 THEN (c - 1) - 1 + 1 ELSE 0
          /\ \A i \in 1 .. (c - 1) - 1 + 1 : SubSeq(s, 1, c - 1)[i] = s[1 + i - 1]
      BY <3>1, SubSeqProperties
    <3>3. (c - 1) - 1 + 1 = c - 1 /\ \A i \in 1 .. c - 1 : 1 + i - 1 = i
      BY <1>1
    <3>4. Len(SubSeq(s, 1, c - 1)) = c - 1
      BY <1>1, <3>2
    <3>. QED
      BY <3>2, <3>3, <3>4
  <2>4. \A i \in 1 .. Len(r) : r[i] = SubSeq(s, 1, c - 1)[i]
    BY <1>3, <2>2, <2>3
  <2>5. r = SubSeq(s, 1, c - 1)
    BY <2>2, <2>3, <2>4, SeqEqual
  <2>. QED
    BY <2>5 DEF List!Front
<1>. QED
  BY <1>2, <1>3

\* The second half of an insertion is a push, at the instant it writes.
LEMMA InsertWriteStep ==
    ASSUME Inv, Inv', NEW t \in Tasks, InsertWrite(t)
    PROVE  List!Next
<1>1. TypeInv /\ TypeInv' /\ Alone(t) /\ Stage(t)
  BY StepAlone DEF Inv, Step
<1>2. /\ pc \in [Tasks -> PCs] /\ NULL \notin Nodes
      /\ op \in [Tasks -> Ops \cup {"none"}]
      /\ p_node \in [Tasks -> Nodes \cup {NULL}]
  BY <1>1, ListAssumption DEF TypeInv, TypeOK
<1>. DEFINE n == p_node[t]
<1>3. n \in Nodes /\ op[t] \in Puts /\ pc[t] = "write"
  BY <1>1 DEF InsertWrite, Goto, Stage, Puts
<1>4. HandOf(t) = n /\ ToldOf(t) = "nothing" /\ HandOf(t)' = NULL /\ ToldOf(t)' = "nothing"
  BY <1>2, <1>3 DEF InsertWrite, Goto, Hold, HandOf, ToldOf, Owned, Puts, Pops
<1>5. PICK s : Ordered(s) /\ Placed(s)
  BY DEF Inv
<1>6. Chain = s /\ s \in Seq(Nodes) /\ Len(s) = count
  BY <1>1, <1>5, ChainSeq
<1>7. PICK r : /\ Ordered(r)'
               /\ \/ r = [i \in 1 .. count + 1 |-> IF i = 1 THEN n ELSE s[i - 1]]
                  \/ r = [i \in 1 .. count + 1 |-> IF i = count + 1 THEN n ELSE s[i]]
  BY <1>5, InsertWriteList
<1>8. Chain' = r
  BY <1>1, <1>7, ChainNext
<1>. HIDE DEF n
<1>9. r = <<n>> \o s \/ r = Append(s, n)
  BY <1>3, <1>6, <1>7, OneMore
<1>10. used' = used /\ n # NULL
  BY <1>2, <1>3 DEF InsertWrite
<1>. QED
  BY <1>1, <1>4, <1>6, <1>8, <1>9, <1>10, PushStep

\* A pop looks at its end first, and is refused there when the list is empty.
LEMMA RemoveReadStep ==
    ASSUME Inv, NEW t \in Tasks, RemoveRead(t)
    PROVE  List!Next \/ UNCHANGED List!vars
<1>1. TypeInv /\ Alone(t) /\ Stage(t)
  BY StepAlone DEF Inv, Step
<1>2. /\ pc \in [Tasks -> PCs] /\ NULL \notin Nodes
      /\ op \in [Tasks -> Ops \cup {"none"}]
      /\ p_node \in [Tasks -> Nodes \cup {NULL}]
  BY <1>1, ListAssumption DEF TypeInv, TypeOK
<1>3. op[t] \in Pops /\ pc[t] = "read" /\ p_node[t] = NULL /\ op' = op /\ used' = used
  BY <1>1 DEF RemoveRead, Goto, Stage
<1>4. Chain' = Chain
  BY SameChain DEF RemoveRead
<1>5. HandOf(t) = NULL /\ ToldOf(t) = "nothing"
  BY <1>3 DEF HandOf, ToldOf, Owned
<1>6. CASE pc'[t] = "write"
  <2>1. HandOf(t)' = NULL /\ ToldOf(t)' = "nothing"
    BY <1>3, <1>6 DEF HandOf, ToldOf, Owned
  <2>. QED
    BY <1>1, <1>3, <1>4, <1>5, <2>1, Stutters
<1>7. CASE pc'[t] # "write"
  <2>1. pc'[t] = "unlock" /\ p_node'[t] = NULL /\ (head = NULL \/ tail = NULL)
    BY <1>2, <1>7 DEF RemoveRead, Goto, Hold
  <2>2. Chain = <<>>
    <3>1. PICK s : Ordered(s) /\ Placed(s)
      BY DEF Inv
    <3>2. count \in Nat /\ (count = 0 <=> Chain = <<>>)
      BY <1>1, <3>1, ChainSeq
    <3>3. count = 0
      <4>1. SUFFICES ASSUME count > 0 PROVE FALSE
        BY <3>2
      <4>2. 1 \in 1 .. count /\ count \in 1 .. count
        BY <3>2, <4>1
      <4>. QED
        BY <1>2, <2>1, <3>1, <4>1, <4>2 DEF Ordered
    <3>. QED
      BY <3>2, <3>3
  <2>3. HandOf(t)' = NULL /\ ToldOf(t)' = "empty"
    BY <1>3, <2>1 DEF HandOf, ToldOf, Owned
  <2>4. Hand' = Hand /\ Told' = [Told EXCEPT ![t] = "empty"] /\ Told[t] = "nothing"
    BY <1>1, <1>5, <2>3, Moves DEF Hand, Told
  <2>5. List!Refuse(t)
    BY <1>3, <1>4, <2>2, <2>4 DEF List!Refuse, Hand, Told, HandOf, ToldOf
  <2>. QED
    BY <2>5 DEF List!Next
<1>. QED
  BY <1>6, <1>7

\* The second half of a pop takes the node at one end.
LEMMA RemoveWriteStep ==
    ASSUME Inv, Inv', NEW t \in Tasks, RemoveWrite(t)
    PROVE  List!Next
<1>1. TypeInv /\ TypeInv' /\ Alone(t)
  BY StepAlone DEF Inv, Step
<1>2. /\ pc \in [Tasks -> PCs] /\ NULL \notin Nodes
      /\ op \in [Tasks -> Ops \cup {"none"}]
      /\ p_node \in [Tasks -> Nodes \cup {NULL}]
  BY <1>1, ListAssumption DEF TypeInv, TypeOK
<1>. DEFINE n == p_node[t]
<1>3. PICK s : Ordered(s) /\ Placed(s)
  BY DEF Inv
<1>4. /\ n \in Nodes /\ op[t] \in Pops /\ pc[t] = "write" /\ count > 0
      /\ \E r : /\ Ordered(r)'
                /\ \/ n = s[1] /\ r = [i \in 1 .. count - 1 |-> s[i + 1]]
                   \/ n = s[count] /\ r = [i \in 1 .. count - 1 |-> s[i]]
  BY <1>3, RemoveWriteList
<1>5. PICK r : /\ Ordered(r)'
               /\ \/ n = s[1] /\ r = [i \in 1 .. count - 1 |-> s[i + 1]]
                  \/ n = s[count] /\ r = [i \in 1 .. count - 1 |-> s[i]]
  BY <1>4
<1>6. HandOf(t) = NULL /\ ToldOf(t) = "nothing" /\ HandOf(t)' = n /\ ToldOf(t)' = "nothing"
  BY <1>2, <1>4 DEF RemoveWrite, Goto, HandOf, ToldOf, Owned
<1>7. used' = used /\ Hand' = [Hand EXCEPT ![t] = n] /\ Hand[t] = NULL /\ Told' = Told
  BY <1>1, <1>6, Moves DEF RemoveWrite, Hand, Told
<1>8. /\ Chain = s /\ s \in Seq(Nodes) /\ Len(s) = count
      /\ Chain' = r /\ s # <<>>
  BY <1>1, <1>3, <1>4, <1>5, ChainSeq, ChainNext
<1>. HIDE DEF n
<1>9. (n = Head(s) /\ r = Tail(s)) \/ (n = s[Len(s)] /\ r = List!Front(s))
  BY <1>5, <1>8, OneLess
<1>10. Chain # <<>> /\ Hand[t] = NULL
  BY <1>7, <1>8
<1>11. UNCHANGED <<Nodes \ used, Told>>
  BY <1>7
<1>12. CASE n = Head(s) /\ r = Tail(s)
  <2>1. Hand' = [Hand EXCEPT ![t] = Head(Chain)] /\ Chain' = Tail(Chain)
    BY <1>7, <1>8, <1>12
  <2>2. List!PopHead(t)
    BY <1>10, <1>11, <2>1 DEF List!PopHead, List!Take, Hand, Told, HandOf, ToldOf
  <2>. QED
    BY <2>2 DEF List!Next
<1>13. CASE n = s[Len(s)] /\ r = List!Front(s)
  <2>1. Hand' = [Hand EXCEPT ![t] = Chain[Len(Chain)]] /\ Chain' = List!Front(Chain)
    BY <1>7, <1>8, <1>13
  <2>2. List!PopTail(t)
    BY <1>10, <1>11, <2>1 DEF List!PopTail, List!Take, Hand, Told, HandOf, ToldOf
  <2>. QED
    BY <2>2 DEF List!Next
<1>. QED
  BY <1>9, <1>12, <1>13

----------------------------------------------------------------------------
\* The list starts as an empty sequence, all nodes in the pool.
LEMMA InitStep == Init => List!Init
<1>. SUFFICES ASSUME Init PROVE List!Init
  OBVIOUS
<1>1. Chain = <<>>
  <2>1. PICK s : s = [i \in 1 .. 0 |-> 0]
    OBVIOUS
  <2>2. Ordered(s)
    BY <2>1 DEF Init, Ordered
  <2>. QED
    BY <2>2, TypeInit, ChainSeq DEF Init
<1>2. \A t \in Tasks : HandOf(t) = NULL /\ ToldOf(t) = "nothing"
  BY DEF Init, HandOf, ToldOf, Owned
<1>. QED
  BY <1>1, <1>2 DEF Init, List!Init, HandOf, ToldOf

\* Pushes and pops of any tasks, at any depth, act on one sequence, each at one
\* instant: a pop gets nothing only from an empty list, and an array allocation
\* only when every node is out.
THEOREM RefinesListSeq ==
    ASSUME NoRemoveNode
    PROVE  Spec => ImplementsListSeq
<1>1. Init => List!Init
  BY InitStep
<1>2. Inv /\ Inv' /\ [Next]_vars => [List!Next]_(List!vars)
  <2>. SUFFICES ASSUME Inv, Inv', [Next]_vars PROVE List!Next \/ UNCHANGED List!vars
    OBVIOUS
  <2>1. CASE UNCHANGED vars
    <3>1. Chain' = Chain
      BY <2>1, SameChain DEF vars
    <3>. QED
      BY <2>1, <3>1 DEF vars, List!vars, Owned
  <2>2. ASSUME NEW t \in Tasks, Call(t) \/ Lock(t) \/ Step(t)
        PROVE  List!Next \/ UNCHANGED List!vars
    BY <2>2, OutsideStep, AllocStep, FreeStep, InsertReadStep, InsertWriteStep,
       RemoveReadStep, RemoveWriteStep DEF Step
  <2>. QED
    BY <2>1, <2>2 DEF Next
<1>. QED
  BY <1>1, <1>2, InvAlways, PTL DEF Spec, ImplementsListSeq, List!Spec

----------------------------------------------------------------------------
(***************************************************************************)
(* LwList, for any calls, linked_list_remove_node too: what                *)
(* linked_list_exist and lw_list_exist answer is right.  The walk of one   *)
(* task is followed through the changes of all others: a change that       *)
(* leaves the list well linked leaves the nodes that stay in it in their   *)
(* order, so the node looked for stays ahead of the walk; and what the     *)
(* walk steps to is in the list, or it ends.                               *)
(***************************************************************************)
LwPCs == PCs \cup {"start", "walk", "answer"}
LwOps == Ops \cup {"none"} \cup WalkOps

LwTypeOK ==
    /\ head \in Nodes \cup {NULL} /\ tail \in Nodes \cup {NULL}
    /\ count \in 0 .. SizeMax
    /\ next \in [Nodes -> Nodes \cup {NULL}]
    /\ prev \in [Nodes -> Nodes \cup {NULL}]
    /\ used \subseteq Nodes
    /\ sem \in {0, 1}
    /\ pc \in [Tasks -> LwPCs]
    /\ op \in [Tasks -> LwOps]
    /\ p_node \in [Tasks -> Nodes \cup {NULL}]
    /\ target \in [Tasks -> Nodes \cup {NULL}]
    /\ p_iter \in [Tasks -> Nodes \cup {NULL}]
    /\ found \in [Tasks -> BOOLEAN]

\* Which functions a task can be in at each place, and what it has there.
LwControl == \A t \in Tasks :
    /\ pc[t] = "idle" => op[t] = "none"
    /\ pc[t] = "lock" => op[t] \in (Ops \ {"free"}) \cup {"linked_list_exist"}
    /\ pc[t] \in {"read", "unlock"} => op[t] \in (Ops \ {"free", "sort"}) \cup {"linked_list_exist"}
    /\ pc[t] = "write" => op[t] \in Puts \cup Pops \cup {"alloc", "free"}
    /\ pc[t] = "free_used" => op[t] = "free"
    /\ pc[t] = "sort_lock" => op[t] = "sort"
    /\ pc[t] \in {"start", "answer"} => op[t] = "lw_list_exist"
    /\ pc[t] = "walk" => op[t] \in WalkOps
    /\ op[t] = "remove_node" => p_node[t] \in Nodes
    /\ op[t] \in Pops \cup {"alloc"} /\ pc[t] = "write" => p_node[t] \in Nodes
    /\ op[t] \in Puts /\ pc[t] \in {"lock", "read", "write"} => p_node[t] \in Nodes
    /\ op[t] \in WalkOps => target[t] \in Nodes
    /\ found[t] => op[t] \in WalkOps /\ pc[t] \in {"unlock", "answer"}

\* One task is between a lock and its unlock, the walk of linked_list_exist too.
LwHolds(t) == Holds(t) \/ (pc[t] = "walk" /\ op[t] = "linked_list_exist")
LwMutex    == /\ \A s, t \in Tasks : LwHolds(s) /\ LwHolds(t) => s = t
              /\ sem = 1 <=> \A t \in Tasks : ~LwHolds(t)

\* What a task is about to take off an end is still at that end.
EndsKept == \A t \in Tasks : pc[t] = "write" =>
    /\ op[t] = "remove_head" => p_node[t] = head
    /\ op[t] = "remove_tail" => p_node[t] = tail

LwTypes == LwTypeOK /\ LwControl /\ LwMutex /\ EndsKept

----------------------------------------------------------------------------
\* What a task has observed holds at every moment of its call.
SeenAll == \A t \in Tasks : op[t] \in WalkOps => Observed(t) \subseteq seen[t]

Undamaged(t) == op[t] \in WalkOps /\ pc[t] = "walk" /\ "damaged" \notin seen[t]

\* u has set the arm of node n, and is about to put it before the head.
Inserting(u, n) == pc[u] = "write" /\ op[u] = "insert_head" /\ p_node[u] = n

\* From where the walk stands, an arm leads into the list or nowhere.
LeadsAt(t) ==
    \/ p_iter[t] \in Listed \cup {NULL}
    \/ next[p_iter[t]] = NULL
    \/ next[p_iter[t]] = head /\ \E u \in Tasks : Inserting(u, p_iter[t])
Leads == \A t \in Tasks : Undamaged(t) => LeadsAt(t)

\* A walk that stands on the node it looks for has seen it in the list.
ArrivedAt(t) == p_iter[t] = target[t] => "there" \in seen[t]
Arrived      == \A t \in Tasks : Undamaged(t) => ArrivedAt(t)

\* The node looked for is still ahead, if it and the walk's node never left.
NoneLeft(t) == /\ "not there" \notin seen[t]
               /\ op[t] = "linked_list_exist" \/ "taken away" \notin seen[t]
AheadAt(t)  == NoneLeft(t) =>
    \E i, j \in 1 .. count : i <= j /\ Chain[i] = p_iter[t] /\ Chain[j] = target[t]
Ahead       == \A t \in Tasks : Undamaged(t) => AheadAt(t)

LwInv == LwTypes /\ SeenAll /\ Leads /\ Arrived /\ Ahead /\ ExistRight
----------------------------------------------------------------------------
(***************************************************************************)
(* The list as a row of places.  Laid is what WellLinked says of it once   *)
(* the walk that defines Chain is known to exist: ends h and t, n nodes,   *)
(* C[i] the one in place i, N and P the arms.                              *)
(***************************************************************************)
Row(h, t, n, C, N, P) ==
    /\ n \in Nat
    /\ n = 0 => h = NULL /\ t = NULL
    /\ n > 0 => /\ h \in Nodes /\ t \in Nodes
                /\ C[1] = h /\ C[n] = t
                /\ N[t] = NULL /\ P[h] = NULL
    /\ \A i \in 1 .. n : C[i] \in Nodes
    /\ \A i \in 1 .. n - 1 : N[C[i]] = C[i + 1] /\ P[C[i + 1]] = C[i]
    /\ \A i, j \in 1 .. n : C[i] = C[j] => i = j

Laid == Row(head, tail, count, Chain, next, prev)

\* A walk along the arms goes on for any number of steps: at NULL it stays.
LEMMA WalkExists ==
    ASSUME LwTypeOK, NEW n \in Nat
    PROVE  \E f \in [1 .. n -> Nodes \cup {NULL}] :
             \A i \in 1 .. n : f[i] = IF i = 1 THEN head
                                      ELSE IF f[i - 1] = NULL THEN NULL ELSE next[f[i - 1]]
<1>. DEFINE IsWalk(f, m) ==
              \A i \in 1 .. m : f[i] = IF i = 1 THEN head
                                       ELSE IF f[i - 1] = NULL THEN NULL ELSE next[f[i - 1]]
            Short == {m \in Nat : ~\E f \in [1 .. m -> Nodes \cup {NULL}] : IsWalk(f, m)}
<1>1. SUFFICES ASSUME Short # {} PROVE FALSE
  OBVIOUS
<1>2. PICK m \in Short : \A k \in Short : m <= k
  <2>. HIDE DEF Short
  <2>1. Short \in SUBSET Nat
    BY DEF Short
  <2>. QED
    BY <1>1, <2>1, Least
<1>3. m \in Nat /\ m # 0
  <2>1. m \in Nat
    OBVIOUS
  <2>2. ASSUME m = 0 PROVE FALSE
    <3>1. [i \in 1 .. 0 |-> NULL] \in [1 .. m -> Nodes \cup {NULL}]
      BY <2>2
    <3>2. IsWalk([i \in 1 .. 0 |-> NULL], m)
      BY <2>2
    <3>. QED
      BY <3>1, <3>2
  <2>. QED
    BY <2>1, <2>2
<1>4. m - 1 \in Nat /\ m - 1 \notin Short
  <2>1. m - 1 \in Nat /\ ~(m <= m - 1)
    BY <1>3
  <2>. HIDE DEF Short
  <2>. QED
    BY <1>2, <2>1
<1>5. PICK f \in [1 .. m - 1 -> Nodes \cup {NULL}] : IsWalk(f, m - 1)
  BY <1>4
<1>. DEFINE x == IF m = 1 THEN head ELSE IF f[m - 1] = NULL THEN NULL ELSE next[f[m - 1]]
            g == [i \in 1 .. m |-> IF i = m THEN x ELSE f[i]]
<1>6. x \in Nodes \cup {NULL}
  <2>1. CASE m = 1
    BY <2>1 DEF LwTypeOK
  <2>2. CASE m # 1
    <3>1. m - 1 \in 1 .. m - 1
      BY <1>3, <2>2
    <3>2. f[m - 1] \in Nodes \cup {NULL}
      BY <3>1
    <3>. QED
      BY <2>2, <3>2 DEF LwTypeOK
  <2>. QED
    BY <2>1, <2>2
<1>7. \A i \in 1 .. m : i = m \/ i \in 1 .. m - 1
  BY <1>3
<1>. HIDE DEF x
<1>8. g \in [1 .. m -> Nodes \cup {NULL}]
  BY <1>6, <1>7
<1>9. IsWalk(g, m)
  <2>1. ASSUME NEW i \in 1 .. m
        PROVE  g[i] = IF i = 1 THEN head ELSE IF g[i - 1] = NULL THEN NULL ELSE next[g[i - 1]]
    <3>1. i = 1 \/ (i - 1 \in 1 .. m - 1 /\ g[i - 1] = f[i - 1])
      BY <1>3
    <3>2. CASE i = m
      BY <3>1, <3>2 DEF x
    <3>3. CASE i # m
      <4>1. i \in 1 .. m - 1
        BY <1>7, <3>3
      <4>. QED
        BY <1>5, <3>1, <3>3, <4>1
    <3>. QED
      BY <3>2, <3>3
  <2>. QED
    BY <2>1
<1>. QED
  BY <1>2, <1>8, <1>9

\* So Chain is the walk from the head.
LEMMA ChainWalks ==
    ASSUME LwTypeOK
    PROVE  /\ count \in Nat
           /\ \A i \in 1 .. count :
                Chain[i] = IF i = 1 THEN head
                           ELSE IF Chain[i - 1] = NULL THEN NULL ELSE next[Chain[i - 1]]
<1>. DEFINE Walked(g) == [i \in 1 .. count |-> IF i = 1 THEN head
                                              ELSE IF g[i - 1] = NULL THEN NULL
                                              ELSE next[g[i - 1]]]
<1>1. count \in Nat
  BY ListAssumption DEF LwTypeOK
<1>2. PICK f \in [1 .. count -> Nodes \cup {NULL}] :
        \A i \in 1 .. count : f[i] = IF i = 1 THEN head
                                     ELSE IF f[i - 1] = NULL THEN NULL ELSE next[f[i - 1]]
  BY <1>1, WalkExists
<1>3. f = Walked(f)
  BY <1>2
<1>4. Chain = CHOOSE g : g = Walked(g)
  BY DEF Chain
<1>5. Chain = Walked(Chain)
  BY <1>3, <1>4
<1>. QED
  BY <1>1, <1>5

\* A list whose arms agree visits no node twice: one that came back would, by
\* the left arms, have come back to the head, and nothing is left of it.
LEMMA LinkedIsLaid ==
    ASSUME LwTypeOK, WellLinked
    PROVE  Laid
<1>. USE ChainWalks
<1>1. CASE count = 0
  BY <1>1 DEF Laid, Row, WellLinked
<1>2. CASE count # 0
  <2>1. /\ count \in Nat /\ count > 0 /\ used \subseteq Nodes /\ NULL \notin Nodes
        /\ 1 \in 1 .. count /\ count \in 1 .. count
    BY <1>2, ListAssumption DEF LwTypeOK
  <2>2. /\ \A i \in 1 .. count : Chain[i] \in Nodes /\ Chain[i] # NULL
        /\ Chain[count] = tail /\ next[tail] = NULL /\ prev[head] = NULL
        /\ \A i \in 1 .. count - 1 : prev[Chain[i + 1]] = Chain[i]
    BY <1>2, <2>1 DEF WellLinked
  <2>3. Chain[1] = head /\ head \in Nodes /\ tail \in Nodes
    BY <2>1, <2>2
  <2>4. ASSUME NEW i \in 1 .. count - 1 PROVE next[Chain[i]] = Chain[i + 1]
    <3>1. i + 1 \in 1 .. count /\ i + 1 # 1 /\ (i + 1) - 1 = i /\ i \in 1 .. count
      BY <2>1
    <3>. QED
      BY <2>2, <3>1
  <2>5. \A i, j \in 1 .. count : Chain[i] = Chain[j] => i = j
    <3>. DEFINE Back == {i \in 1 .. count : \E j \in 1 .. count : j > i /\ Chain[i] = Chain[j]}
    <3>1. SUFFICES ASSUME Back # {} PROVE FALSE
      <4>1. ASSUME NEW i \in 1 .. count, NEW j \in 1 .. count, Chain[i] = Chain[j], i # j
            PROVE  FALSE
        <5>1. j > i \/ i > j
          BY <2>1, <4>1
        <5>2. i \in Back \/ j \in Back
          BY <4>1, <5>1
        <5>. QED
          BY <3>1, <5>2
      <4>. QED
        BY <4>1
    <3>2. PICK m \in Back : \A k \in Back : m <= k
      <4>1. Back \in SUBSET Nat
        BY <2>1
      <4>. HIDE DEF Back
      <4>. QED
        BY <3>1, <4>1, Least
    <3>3. PICK j \in 1 .. count : j > m /\ Chain[m] = Chain[j]
      BY <3>2
    <3>4. m \in 1 .. count
      BY <3>2
    <3>5. j - 1 \in 1 .. count - 1 /\ (j - 1) + 1 = j
      BY <2>1, <3>3, <3>4
    <3>6. prev[Chain[j]] = Chain[j - 1] /\ Chain[j - 1] # NULL
      <4>1. j - 1 \in 1 .. count
        BY <2>1, <3>5
      <4>2. prev[Chain[(j - 1) + 1]] = Chain[j - 1]
        BY <2>2, <3>5
      <4>. QED
        BY <2>2, <3>5, <4>1, <4>2
    <3>7. m # 1
      BY <2>2, <2>3, <3>3, <3>6
    <3>8. /\ m - 1 \in 1 .. count /\ m - 1 \in 1 .. count - 1 /\ (m - 1) + 1 = m
          /\ j - 1 \in 1 .. count /\ j - 1 > m - 1 /\ ~(m <= m - 1)
      BY <2>1, <3>3, <3>4, <3>5, <3>7
    <3>9. prev[Chain[m]] = Chain[m - 1]
      <4>1. prev[Chain[(m - 1) + 1]] = Chain[m - 1]
        BY <2>2, <3>8
      <4>. QED
        BY <3>8, <4>1
    <3>10. Chain[m - 1] = Chain[j - 1]
      BY <3>3, <3>6, <3>9
    <3>11. m - 1 \in Back
      BY <3>8, <3>10
    <3>. QED
      BY <3>2, <3>8, <3>11
  <2>. QED
    BY <2>1, <2>2, <2>3, <2>4, <2>5 DEF Laid, Row
<1>. QED
  BY <1>1, <1>2

\* The same after a step.
LEMMA LinkedNext == LwTypeOK' /\ WellLinked' => Laid'
<1>1. LwTypeOK /\ WellLinked => Laid
  BY LinkedIsLaid
<1>2. (LwTypeOK /\ WellLinked => Laid)'
  BY <1>1, LinkedIsLaid, PTL
<1>. QED
  BY <1>2
----------------------------------------------------------------------------
(***************************************************************************)
(* What a change that leaves the list laid out does to the places.  Read   *)
(* from an end it leaves alone, the row stays the same: an arm cut on the  *)
(* way would end it there.                                                 *)
(***************************************************************************)
\* The head is the same, and what changes in the right arms is cut, save at the tail.
FrontKept(h, t, N, h2, M) ==
    h2 = h /\ \A x \in Nodes : x # t => M[x] \in {N[x], NULL}

\* The same from the tail.
BackKept(h, t, P, t2, Q) ==
    t2 = t /\ \A x \in Nodes : x # h => Q[x] \in {P[x], NULL}

\* From the head on, place by place.
LEMMA FrontPlaces ==
    ASSUME NEW h, NEW t, NEW m \in Nat, NEW C, NEW N, NEW P, Row(h, t, m, C, N, P),
           NEW h2, NEW t2, NEW n \in Nat, NEW D, NEW M, NEW Q, Row(h2, t2, n, D, M, Q),
           FrontKept(h, t, N, h2, M), NEW k \in 1 .. m, k \in 1 .. n
    PROVE  D[k] = C[k]
<1>. DEFINE Wrong == {i \in 1 .. m : i \in 1 .. n /\ D[i] # C[i]}
<1>1. SUFFICES ASSUME Wrong # {} PROVE FALSE
  OBVIOUS
<1>2. PICK f \in Wrong : \A i \in Wrong : f <= i
  <2>1. Wrong \in SUBSET Nat
    OBVIOUS
  <2>. HIDE DEF Wrong
  <2>. QED
    BY <1>1, <2>1, Least
<1>3. f \in 1 .. m /\ f \in 1 .. n /\ D[f] # C[f]
  BY <1>2
<1>4. f # 1
  BY <1>3 DEF Row, FrontKept
<1>. DEFINE l == f - 1
<1>5. /\ l \in 1 .. m - 1 /\ l \in 1 .. n - 1 /\ l \in 1 .. m /\ l \in 1 .. n
      /\ l + 1 = f /\ l # m /\ m \in 1 .. m /\ ~(f <= l)
  BY <1>3, <1>4
<1>. HIDE DEF l
<1>6. D[l] = C[l]
  <2>1. l \notin Wrong
    <3>. HIDE DEF Wrong
    <3>. QED
      BY <1>2, <1>5
  <2>. QED
    BY <1>5, <2>1
<1>7. C[l] \in Nodes /\ C[l] # t
  BY <1>5 DEF Row
<1>8. N[C[l]] = C[f] /\ M[C[l]] = D[f] /\ D[f] \in Nodes
  <2>1. N[C[l]] = C[l + 1] /\ M[D[l]] = D[l + 1] /\ D[f] \in Nodes
    BY <1>3, <1>5 DEF Row
  <2>. QED
    BY <1>5, <1>6, <2>1
<1>9. NULL \notin Nodes
  BY ListAssumption
<1>. QED
  BY <1>3, <1>7, <1>8, <1>9 DEF FrontKept

\* From the tail on, place by place.
LEMMA BackPlaces ==
    ASSUME NEW h, NEW t, NEW m \in Nat, NEW C, NEW N, NEW P, Row(h, t, m, C, N, P),
           NEW h2, NEW t2, NEW n \in Nat, NEW D, NEW M, NEW Q, Row(h2, t2, n, D, M, Q),
           BackKept(h, t, P, t2, Q), NEW k \in 0 .. m - 1, k \in 0 .. n - 1
    PROVE  D[n - k] = C[m - k]
<1>. DEFINE Wrong == {i \in 0 .. m - 1 : i \in 0 .. n - 1 /\ D[n - i] # C[m - i]}
<1>1. SUFFICES ASSUME Wrong # {} PROVE FALSE
  OBVIOUS
<1>2. PICK f \in Wrong : \A i \in Wrong : f <= i
  <2>1. Wrong \in SUBSET Nat
    OBVIOUS
  <2>. HIDE DEF Wrong
  <2>. QED
    BY <1>1, <2>1, Least
<1>3. f \in 0 .. m - 1 /\ f \in 0 .. n - 1 /\ D[n - f] # C[m - f]
  BY <1>2
<1>4. f # 0
  <2>1. m > 0 /\ n > 0
    BY <1>3
  <2>2. C[m] = t /\ D[n] = t2 /\ t2 = t
    BY <2>1 DEF Row, BackKept
  <2>. QED
    BY <1>3, <2>2
<1>. DEFINE i == m - f
            j == n - f
            l == f - 1
<1>5. /\ i \in 1 .. m - 1 /\ i + 1 \in 1 .. m /\ i + 1 # 1 /\ i + 1 = m - l
      /\ j \in 1 .. n - 1 /\ j \in 1 .. n /\ j + 1 = n - l /\ 1 \in 1 .. m
      /\ l \in 0 .. m - 1 /\ l \in 0 .. n - 1 /\ ~(f <= l)
  BY <1>3, <1>4
<1>6. D[j] # C[i]
  BY <1>3
<1>7. D[j + 1] = C[i + 1]
  <2>1. l \notin Wrong
    <3>. HIDE DEF Wrong, l
    <3>. QED
      BY <1>2, <1>5
  <2>2. D[n - l] = C[m - l]
    <3>. HIDE DEF i, j
    <3>. QED
      BY <1>5, <2>1
  <2>. HIDE DEF i, j, l
  <2>. QED
    BY <1>5, <2>2
<1>. HIDE DEF i, j, l, Wrong
<1>8. C[i + 1] \in Nodes /\ C[i + 1] # h
  BY <1>5 DEF Row
<1>9. P[C[i + 1]] = C[i] /\ Q[C[i + 1]] = D[j] /\ D[j] \in Nodes
  <2>1. P[C[i + 1]] = C[i] /\ Q[D[j + 1]] = D[j] /\ D[j] \in Nodes
    BY <1>5 DEF Row
  <2>. QED
    BY <1>7, <2>1
<1>10. NULL \notin Nodes
  BY ListAssumption
<1>. QED
  BY <1>6, <1>8, <1>9, <1>10 DEF BackKept

\* A node that stays in the list stays in its place from the head.
LEMMA FrontPlace ==
    ASSUME NEW h, NEW t, NEW m \in Nat, NEW C, NEW N, NEW P, Row(h, t, m, C, N, P),
           NEW h2, NEW t2, NEW n \in Nat, NEW D, NEW M, NEW Q, Row(h2, t2, n, D, M, Q),
           FrontKept(h, t, N, h2, M), NEW a \in 1 .. m, NEW c \in 1 .. n, C[a] = D[c]
    PROVE  a = c
<1>1. CASE a <= n
  <2>1. a \in 1 .. n
    BY <1>1
  <2>2. D[a] = D[c]
    BY <2>1, FrontPlaces
  <2>. QED
    BY <2>1, <2>2 DEF Row
<1>2. CASE ~(a <= n)
  <2>1. c \in 1 .. m
    BY <1>2
  <2>2. C[a] = C[c]
    BY <2>1, FrontPlaces
  <2>. QED
    BY <2>1, <2>2 DEF Row
<1>. QED
  BY <1>1, <1>2

\* Or in its place from the tail.
LEMMA BackPlace ==
    ASSUME NEW h, NEW t, NEW m \in Nat, NEW C, NEW N, NEW P, Row(h, t, m, C, N, P),
           NEW h2, NEW t2, NEW n \in Nat, NEW D, NEW M, NEW Q, Row(h2, t2, n, D, M, Q),
           BackKept(h, t, P, t2, Q), NEW a \in 1 .. m, NEW c \in 1 .. n, C[a] = D[c]
    PROVE  m - a = n - c
<1>. DEFINE k == m - a
            l == n - c
<1>1. k \in 0 .. m - 1 /\ m - k = a /\ l \in 0 .. n - 1 /\ n - l = c
  OBVIOUS
<1>4. \A e \in 0 .. m - 1 : e \in 0 .. n - 1 => D[n - e] = C[m - e]
  BY BackPlaces
<1>. HIDE DEF k, l
<1>2. CASE k < n
  <2>1. k \in 0 .. n - 1 /\ n - k \in 1 .. n
    BY <1>1, <1>2
  <2>2. D[n - k] = C[a]
    BY <1>1, <1>4, <2>1
  <2>3. n - k = c
    BY <2>1, <2>2 DEF Row
  <2>4. k = l
    BY <1>1, <2>3
  <2>. QED
    BY <2>4 DEF k, l
<1>3. CASE ~(k < n)
  <2>1. l \in 0 .. m - 1 /\ m - l \in 1 .. m
    BY <1>1, <1>3
  <2>2. C[m - l] = D[c]
    BY <1>1, <1>4, <2>1
  <2>3. m - l = a
    BY <2>1, <2>2 DEF Row
  <2>4. k = l
    BY <1>1, <2>3
  <2>. QED
    BY <2>4 DEF k, l
<1>. QED
  BY <1>2, <1>3
\* So the nodes that stay keep their order.
LEMMA RowOrder ==
    ASSUME NEW h, NEW t, NEW m \in Nat, NEW C, NEW N, NEW P, Row(h, t, m, C, N, P),
           NEW h2, NEW t2, NEW n \in Nat, NEW D, NEW M, NEW Q, Row(h2, t2, n, D, M, Q),
           FrontKept(h, t, N, h2, M) \/ BackKept(h, t, P, t2, Q),
           NEW a \in 1 .. m, NEW b \in 1 .. m, a <= b,
           NEW c \in 1 .. n, NEW d \in 1 .. n, C[a] = D[c], C[b] = D[d]
    PROVE  c <= d
<1>1. CASE FrontKept(h, t, N, h2, M)
  <2>1. a = c /\ b = d
    BY <1>1, FrontPlace
  <2>. QED
    BY <2>1
<1>2. CASE BackKept(h, t, P, t2, Q)
  <2>1. m - a = n - c /\ m - b = n - d
    BY <1>2, BackPlace
  <2>. QED
    BY <2>1
<1>. QED
  BY <1>1, <1>2

\* When one node fewer is left and the back is kept, the second is the head now.
LEMMA SecondLeads ==
    ASSUME NEW h, NEW t, NEW m \in Nat, NEW C, NEW N, NEW P, Row(h, t, m, C, N, P),
           NEW h2, NEW t2, NEW n \in Nat, NEW D, NEW M, NEW Q, Row(h2, t2, n, D, M, Q),
           BackKept(h, t, P, t2, Q)
    PROVE  m = n + 1 /\ n > 0 => h2 # h /\ h2 \in Nodes /\ P[h2] = h /\ Q[h2] = NULL
<1>1. \A k \in 0 .. m - 1 : k \in 0 .. n - 1 => D[n - k] = C[m - k]
  BY BackPlaces
<1>. HAVE m = n + 1 /\ n > 0
<1>2. n - 1 \in 0 .. m - 1 /\ n - 1 \in 0 .. n - 1 /\ n - (n - 1) = 1 /\ m - (n - 1) = 2
  OBVIOUS
<1>3. D[1] = C[2]
  <2>1. D[n - (n - 1)] = C[m - (n - 1)]
    BY <1>1, <1>2
  <2>. QED
    BY <1>2, <2>1
<1>4. 1 \in 1 .. m - 1 /\ 1 \in 1 .. m /\ 2 \in 1 .. m /\ m > 0 /\ 1 + 1 = 2
  OBVIOUS
<1>5. P[C[2]] = C[1] /\ C[1] = h /\ C[2] # C[1]
  <2>1. P[C[1 + 1]] = C[1] /\ C[1] = h
    BY <1>4 DEF Row
  <2>2. C[2] # C[1]
    BY <1>4 DEF Row
  <2>. QED
    BY <2>1, <2>2
<1>6. D[1] = h2 /\ h2 \in Nodes /\ Q[h2] = NULL
  BY DEF Row
<1>. QED
  BY <1>3, <1>5, <1>6

\* When one node fewer is left and the front is kept, the last but one is the tail now.
LEMMA SecondTrails ==
    ASSUME NEW h, NEW t, NEW m \in Nat, NEW C, NEW N, NEW P, Row(h, t, m, C, N, P),
           NEW h2, NEW t2, NEW n \in Nat, NEW D, NEW M, NEW Q, Row(h2, t2, n, D, M, Q),
           FrontKept(h, t, N, h2, M)
    PROVE  m = n + 1 /\ n > 0 => t2 # t /\ t2 \in Nodes /\ N[t2] = t /\ M[t2] = NULL
<1>1. \A k \in 1 .. m : k \in 1 .. n => D[k] = C[k]
  BY FrontPlaces
<1>. HAVE m = n + 1 /\ n > 0
<1>2. n \in 1 .. n /\ n \in 1 .. m /\ m \in 1 .. m /\ n \in 1 .. m - 1 /\ n # m /\ n + 1 = m
  OBVIOUS
<1>3. D[n] = C[n]
  BY <1>1, <1>2
<1>4. C[m] = t /\ C[n] # C[m]
  BY <1>2 DEF Row
<1>5. N[C[n]] = C[n + 1]
  BY <1>2 DEF Row
<1>6. D[n] = t2 /\ t2 \in Nodes /\ M[t2] = NULL
  BY DEF Row
<1>. QED
  BY <1>2, <1>3, <1>4, <1>5, <1>6

----------------------------------------------------------------------------
\* The places before a step, and after it.
LEMMA RowNow == Laid => Row(head, tail, count, Chain, next, prev)
BY DEF Laid

LEMMA RowNext == Laid' => Row(head', tail', count', Chain', next', prev')
BY DEF Laid, Row

\* Arms and ends untouched, the row is.
LEMMA SameRow ==
    ASSUME UNCHANGED links
    PROVE  Chain' = Chain /\ Listed' = Listed
<1>1. Chain' = Chain
  BY DEF links, Chain
<1>. QED
  BY <1>1 DEF Listed, links

\* The ends of a list.
LEMMA RowEnds ==
    ASSUME Laid
    PROVE  /\ count \in Nat /\ Listed \subseteq Nodes
           /\ head = NULL <=> count = 0
           /\ head # NULL => /\ head \in Listed /\ tail \in Listed /\ next[tail] = NULL
                             /\ head \in Nodes /\ tail \in Nodes /\ Chain[1] = head
           /\ head # tail => count > 1
           /\ head = tail => count = 0 \/ (count = 1 /\ Listed = {head})
<1>1. NULL \notin Nodes
  BY ListAssumption
<1>2. count \in Nat
  BY DEF Laid, Row
<1>3. Listed \subseteq Nodes
  BY DEF Laid, Row, Listed
<1>4. CASE count = 0
  BY <1>1, <1>2, <1>3, <1>4 DEF Laid, Row
<1>5. CASE count > 0
  <2>1. /\ head \in Nodes /\ tail \in Nodes /\ Chain[1] = head /\ Chain[count] = tail
        /\ next[tail] = NULL
    BY <1>2, <1>5 DEF Laid, Row
  <2>2. 1 \in 1 .. count /\ count \in 1 .. count
    BY <1>2, <1>5
  <2>3. head \in Listed /\ tail \in Listed
    BY <2>1, <2>2 DEF Listed
  <2>4. head # tail => count # 1
    BY <2>1
  <2>5. head = tail => count = 1
    BY <2>1, <2>2 DEF Laid, Row
  <2>6. count = 1 => Listed = {head}
    BY <2>1 DEF Listed
  <2>. QED
    BY <1>1, <1>2, <1>3, <1>5, <2>1, <2>3, <2>4, <2>5, <2>6
<1>. QED
  BY <1>2, <1>4, <1>5
----------------------------------------------------------------------------
(***************************************************************************)
(* Who holds the lock, with the walk of linked_list_exist among them, and  *)
(* so that what a task is about to take off an end stays there.            *)
(***************************************************************************)
USE DEF Nodes, Pops, Puts, Ops, PCs, WalkOps, LwOps, LwPCs, links, walk, vars

\* The empty list, and no task in a call.
LEMMA LwTypesInit == LwInit => LwTypes
  BY ListAssumption DEF LwInit, Init, LwTypes, LwTypeOK, LwControl, LwMutex, LwHolds, Holds, EndsKept

\* A call takes no lock yet.
LEMMA CallHeld ==
    ASSUME LwTypes, NEW u \in Tasks, Call(u), UNCHANGED walk
    PROVE  LwTypes'
<1>. USE ListAssumption DEF LwTypes
<1>1. LwTypeOK'
  <2>1. p_node' \in [Tasks -> Nodes \cup {NULL}]
    BY DEF Call, Hold, LwTypeOK
  <2>2. pc' \in [Tasks -> LwPCs] /\ op' \in [Tasks -> LwOps]
    BY DEF Call, Goto, LwTypeOK
  <2>. QED
    BY <2>1, <2>2 DEF Call, LwTypeOK
<1>2. LwControl'
  BY DEF Call, Goto, Hold, LwTypeOK, LwControl
<1>3. LwMutex'
  BY DEF Call, Goto, Hold, LwTypeOK, LwControl, LwMutex, LwHolds, Holds
<1>4. EndsKept'
  BY DEF Call, Goto, Hold, LwTypeOK, LwControl, LwMutex, LwHolds, Holds, EndsKept
<1>. QED
  BY <1>1, <1>2, <1>3, <1>4

\* Only a free semaphore is taken.
LEMMA LockHeld ==
    ASSUME LwTypes, NEW u \in Tasks, Lock(u), UNCHANGED walk
    PROVE  LwTypes'
<1>. USE ListAssumption DEF LwTypes
<1>1. LwTypeOK'
  BY DEF Lock, Free, Goto, LwTypeOK, LwControl, LwMutex, LwHolds, Holds
<1>2. LwControl'
  BY DEF Lock, Free, Goto, LwTypeOK, LwControl
<1>3. LwMutex'
  BY DEF Lock, Free, Goto, LwTypeOK, LwControl, LwMutex, LwHolds, Holds
<1>4. EndsKept'
  BY DEF Lock, Free, Goto, LwTypeOK, LwControl, LwMutex, LwHolds, Holds, EndsKept
<1>. QED
  BY <1>1, <1>2, <1>3, <1>4

\* The task that unlocks is the one that held it.
LEMMA UnlockHeld ==
    ASSUME LwTypes, NEW u \in Tasks, Unlock(u), op[u] \notin WalkOps, UNCHANGED walk
    PROVE  LwTypes'
<1>. USE ListAssumption DEF LwTypes
<1>1. LwTypeOK'
  BY DEF Unlock, Goto, LwTypeOK, LwControl, LwMutex, LwHolds, Holds
<1>2. LwControl'
  BY DEF Unlock, Goto, LwTypeOK, LwControl
<1>3. LwMutex'
  BY DEF Unlock, Goto, LwTypeOK, LwControl, LwMutex, LwHolds, Holds
<1>4. EndsKept'
  BY DEF Unlock, Goto, LwTypeOK, LwControl, LwMutex, LwHolds, Holds, EndsKept
<1>. QED
  BY <1>1, <1>2, <1>3, <1>4

\* linked_list_alloc_node stays under its lock.
LEMMA AllocReadHeld ==
    ASSUME LwTypes, NEW u \in Tasks, AllocRead(u), UNCHANGED walk
    PROVE  LwTypes'
<1>. USE ListAssumption DEF LwTypes
<1>1. LwTypeOK'
  <2>1. p_node' \in [Tasks -> Nodes \cup {NULL}]
    BY DEF AllocRead, Hold, LwTypeOK
  <2>2. pc' \in [Tasks -> LwPCs]
    BY DEF AllocRead, Goto, LwTypeOK
  <2>. QED
    BY <2>1, <2>2 DEF AllocRead, LwTypeOK
<1>2. LwControl'
  BY DEF AllocRead, Goto, Hold, LwTypeOK, LwControl
<1>3. LwMutex'
  BY DEF AllocRead, Goto, LwTypeOK, LwMutex, LwHolds, Holds
<1>4. EndsKept'
  BY DEF AllocRead, Goto, Hold, LwTypeOK, LwControl, LwMutex, LwHolds, Holds, EndsKept
<1>. QED
  BY <1>1, <1>2, <1>3, <1>4

\* To where it marks the node.
LEMMA AllocWriteHeld ==
    ASSUME LwTypes, NEW u \in Tasks, AllocWrite(u), UNCHANGED walk
    PROVE  LwTypes'
<1>. USE ListAssumption DEF LwTypes
<1>1. LwTypeOK'
  BY DEF AllocWrite, Goto, LwTypeOK, LwControl, LwMutex, LwHolds, Holds
<1>2. LwControl'
  BY DEF AllocWrite, Goto, LwTypeOK, LwControl
<1>3. LwMutex'
  BY DEF AllocWrite, Goto, LwTypeOK, LwControl, LwMutex, LwHolds, Holds
<1>4. EndsKept'
  BY DEF AllocWrite, Goto, LwTypeOK, LwControl, LwMutex, LwHolds, Holds, EndsKept
<1>. QED
  BY <1>1, <1>2, <1>3, <1>4

\* linked_list_free_node is at no time under the lock.
LEMMA FreeArmsHeld ==
    ASSUME LwTypes, NEW u \in Tasks, FreeArms(u), UNCHANGED walk
    PROVE  LwTypes'
<1>. USE ListAssumption DEF LwTypes
<1>1. LwTypeOK'
  BY DEF FreeArms, Goto, LwTypeOK, LwControl, LwMutex, LwHolds, Holds
<1>2. LwControl'
  BY DEF FreeArms, Goto, LwTypeOK, LwControl
<1>3. LwMutex'
  BY DEF FreeArms, Goto, LwTypeOK, LwControl, LwMutex, LwHolds, Holds
<1>4. EndsKept'
  BY DEF FreeArms, Goto, LwTypeOK, LwControl, LwMutex, LwHolds, Holds, EndsKept
<1>. QED
  BY <1>1, <1>2, <1>3, <1>4

\* Not when it gives the node back either.
LEMMA FreeUsedHeld ==
    ASSUME LwTypes, NEW u \in Tasks, FreeUsed(u), UNCHANGED walk
    PROVE  LwTypes'
<1>. USE ListAssumption DEF LwTypes
<1>1. LwTypeOK'
  BY DEF FreeUsed, Goto, Hold, LwTypeOK, LwControl, LwMutex, LwHolds, Holds
<1>2. LwControl'
  BY DEF FreeUsed, Goto, Hold, LwTypeOK, LwControl
<1>3. LwMutex'
  BY DEF FreeUsed, Goto, Hold, LwTypeOK, LwControl, LwMutex, LwHolds, Holds
<1>4. EndsKept'
  BY DEF FreeUsed, Goto, Hold, LwTypeOK, LwControl, LwMutex, LwHolds, Holds, EndsKept
<1>. QED
  BY <1>1, <1>2, <1>3, <1>4

\* An insertion stays under its lock.
LEMMA InsertReadHeld ==
    ASSUME LwTypes, NEW u \in Tasks, InsertRead(u), UNCHANGED walk
    PROVE  LwTypes'
<1>. USE ListAssumption DEF LwTypes
<1>1. LwTypeOK'
  BY DEF InsertRead, Goto, LwTypeOK, LwControl, LwMutex, LwHolds, Holds
<1>2. LwControl'
  BY DEF InsertRead, Goto, LwTypeOK, LwControl
<1>3. LwMutex'
  BY DEF InsertRead, Goto, LwTypeOK, LwControl, LwMutex, LwHolds, Holds
<1>4. EndsKept'
  BY DEF InsertRead, Goto, LwTypeOK, LwControl, LwMutex, LwHolds, Holds, EndsKept
<1>. QED
  BY <1>1, <1>2, <1>3, <1>4

\* To where it changes the ends.
LEMMA InsertWriteHeld ==
    ASSUME LwTypes, NEW u \in Tasks, InsertWrite(u), UNCHANGED walk
    PROVE  LwTypes'
<1>. USE ListAssumption DEF LwTypes
<1>1. LwTypeOK'
  BY DEF InsertWrite, InsertEmpty, InsertHead, InsertTail, Inc, Goto, Hold, LwTypeOK, LwControl, LwMutex, LwHolds, Holds
<1>2. LwControl'
  BY DEF InsertWrite, InsertEmpty, InsertHead, InsertTail, Inc, Goto, Hold, LwTypeOK, LwControl
<1>3. LwMutex'
  BY DEF InsertWrite, InsertEmpty, InsertHead, InsertTail, Inc, Goto, Hold, LwTypeOK, LwControl, LwMutex, LwHolds, Holds
<1>4. EndsKept'
  BY DEF InsertWrite, InsertEmpty, InsertHead, InsertTail, Inc, Goto, Hold, LwTypeOK, LwControl, LwMutex, LwHolds, Holds, EndsKept
<1>. QED
  BY <1>1, <1>2, <1>3, <1>4

\* A removal takes the end it has read.
LEMMA RemoveReadHeld ==
    ASSUME LwTypes, NEW u \in Tasks, RemoveRead(u), UNCHANGED walk
    PROVE  LwTypes'
<1>. USE ListAssumption DEF LwTypes
<1>1. LwTypeOK'
  BY DEF RemoveRead, Goto, Hold, LwTypeOK, LwControl, LwMutex, LwHolds, Holds
<1>2. LwControl'
  BY DEF RemoveRead, Goto, Hold, LwTypeOK, LwControl
<1>3. LwMutex'
  BY DEF RemoveRead, Goto, Hold, LwTypeOK, LwControl, LwMutex, LwHolds, Holds
<1>4. EndsKept'
  BY DEF RemoveRead, Goto, Hold, LwTypeOK, LwControl, LwMutex, LwHolds, Holds, EndsKept
<1>. QED
  BY <1>1, <1>2, <1>3, <1>4

\* And a removal.
LEMMA RemoveWriteHeld ==
    ASSUME LwTypes, NEW u \in Tasks, RemoveWrite(u), UNCHANGED walk
    PROVE  LwTypes'
<1>. USE ListAssumption DEF LwTypes
<1>1. LwTypeOK'
  <2>1. p_node[u] \in Nodes
    BY DEF RemoveWrite, Goto, LwTypeOK, LwControl
  <2>2. count' \in 0 .. SizeMax /\ pc' \in [Tasks -> LwPCs]
    BY DEF RemoveWrite, Dec, Goto, LwTypeOK
  <2>3. /\ head' \in Nodes \cup {NULL} /\ tail' \in Nodes \cup {NULL}
        /\ next' \in [Nodes -> Nodes \cup {NULL}]
        /\ prev' \in [Nodes -> Nodes \cup {NULL}]
    <3>1. CASE op[u] = "remove_node" /\ RemoveNode(p_node[u])
      <4>. DEFINE n == p_node[u]
      <4>1. CASE \/ RemoveLast
                 \/ UNCHANGED <<head, tail, next, prev>>
                 \/ head' = next[n] /\ prev' = [prev EXCEPT ![n] = NULL] /\ UNCHANGED <<tail, next>>
                 \/ tail' = prev[n] /\ next' = [next EXCEPT ![n] = NULL] /\ UNCHANGED <<head, prev>>
        BY <2>1, <4>1 DEF RemoveLast, LwTypeOK
      <4>2. CASE /\ next' = [m \in Nodes |-> IF m = n THEN NULL
                                             ELSE IF m = prev[n] THEN next[n] ELSE next[m]]
                 /\ prev' = [m \in Nodes |-> IF m \in {n, next[n]} THEN NULL ELSE prev[m]]
                 /\ UNCHANGED <<head, tail>>
        BY <2>1, <4>2 DEF LwTypeOK
      <4>. QED
        BY <3>1, <4>1, <4>2 DEF RemoveNode
    <3>2. CASE RemoveLast
      BY <3>2 DEF RemoveLast, LwTypeOK
    <3>3. CASE RemoveHead(p_node[u])
      BY <2>1, <3>3 DEF RemoveHead, RemoveWrite, LwTypeOK
    <3>4. CASE RemoveTail(p_node[u])
      BY <2>1, <3>4 DEF RemoveTail, RemoveWrite, LwTypeOK
    <3>. QED
      BY <3>1, <3>2, <3>3, <3>4 DEF RemoveWrite
  <2>. QED
    BY <2>2, <2>3 DEF RemoveWrite, LwTypeOK
<1>2. LwControl'
  BY DEF RemoveWrite, RemoveNode, RemoveLast, RemoveHead, RemoveTail, Dec, Goto, LwTypeOK, LwControl
<1>3. LwMutex'
  BY DEF RemoveWrite, RemoveNode, RemoveLast, RemoveHead, RemoveTail, Dec, Goto, LwTypeOK, LwControl, LwMutex, LwHolds, Holds
<1>4. EndsKept'
  BY DEF RemoveWrite, RemoveNode, RemoveLast, RemoveHead, RemoveTail, Dec, Goto, LwTypeOK, LwControl, LwMutex, LwHolds, Holds, EndsKept
<1>. QED
  BY <1>1, <1>2, <1>3, <1>4

\* A search takes no lock yet.
LEMMA WalkCallHeld ==
    ASSUME LwTypes, NEW u \in Tasks, WalkCall(u)
    PROVE  LwTypes'
<1>. USE ListAssumption DEF LwTypes
<1>0. PICK o \in WalkOps, n \in Nodes :
        /\ op' = [op EXCEPT ![u] = o]
        /\ target' = [target EXCEPT ![u] = n]
        /\ Goto(u, "idle", IF o = "linked_list_exist" THEN "lock" ELSE "start")
  BY WalkAssumption DEF WalkCall
<1>1. LwTypeOK'
  <2>1. /\ pc' \in [Tasks -> LwPCs] /\ op' \in [Tasks -> LwOps]
        /\ target' \in [Tasks -> Nodes \cup {NULL}]
    BY <1>0 DEF Goto, LwTypeOK
  <2>. QED
    BY <2>1 DEF WalkCall, LwTypeOK
<1>2. LwControl'
  BY <1>0 DEF WalkCall, Goto, LwTypeOK, LwControl
<1>3. LwMutex'
  BY DEF WalkCall, Goto, LwTypeOK, LwControl, LwMutex, LwHolds, Holds
<1>4. EndsKept'
  BY DEF WalkCall, Goto, LwTypeOK, LwControl, LwMutex, LwHolds, Holds, EndsKept
<1>. QED
  BY <1>1, <1>2, <1>3, <1>4

\* linked_list_exist walks under its lock, lw_list_exist under none.
LEMMA WalkHeadHeld ==
    ASSUME LwTypes, NEW u \in Tasks, WalkHead(u)
    PROVE  LwTypes'
<1>. USE ListAssumption DEF LwTypes
<1>1. LwTypeOK'
  BY DEF WalkHead, Goto, LwTypeOK, LwControl, LwMutex, LwHolds, Holds
<1>2. LwControl'
  BY DEF WalkHead, Goto, LwTypeOK, LwControl
<1>3. LwMutex'
  BY DEF WalkHead, Goto, LwTypeOK, LwControl, LwMutex, LwHolds, Holds
<1>4. EndsKept'
  BY DEF WalkHead, Goto, LwTypeOK, LwControl, LwMutex, LwHolds, Holds, EndsKept
<1>. QED
  BY <1>1, <1>2, <1>3, <1>4

\* Step by step.
LEMMA WalkOnHeld ==
    ASSUME LwTypes, NEW u \in Tasks, WalkOn(u)
    PROVE  LwTypes'
<1>. USE ListAssumption DEF LwTypes
<1>1. LwTypeOK'
  BY DEF WalkOn, LwTypeOK, LwControl, LwMutex, LwHolds, Holds
<1>2. LwControl'
  BY DEF WalkOn, LwTypeOK, LwControl
<1>3. LwMutex'
  BY DEF WalkOn, LwTypeOK, LwControl, LwMutex, LwHolds, Holds
<1>4. EndsKept'
  BY DEF WalkOn, LwTypeOK, LwControl, LwMutex, LwHolds, Holds, EndsKept
<1>. QED
  BY <1>1, <1>2, <1>3, <1>4

\* To its end.
LEMMA WalkEndHeld ==
    ASSUME LwTypes, NEW u \in Tasks, WalkEnd(u)
    PROVE  LwTypes'
<1>. USE ListAssumption DEF LwTypes
<1>1. LwTypeOK'
  BY DEF WalkEnd, Goto, LwTypeOK, LwControl, LwMutex, LwHolds, Holds
<1>2. LwControl'
  BY DEF WalkEnd, Goto, LwTypeOK, LwControl
<1>3. LwMutex'
  BY DEF WalkEnd, Goto, LwTypeOK, LwControl, LwMutex, LwHolds, Holds
<1>4. EndsKept'
  BY DEF WalkEnd, Goto, LwTypeOK, LwControl, LwMutex, LwHolds, Holds, EndsKept
<1>. QED
  BY <1>1, <1>2, <1>3, <1>4

\* The one that had it gives it back.
LEMMA WalkReturnHeld ==
    ASSUME LwTypes, NEW u \in Tasks, WalkReturn(u)
    PROVE  LwTypes'
<1>. USE ListAssumption DEF LwTypes
<1>1. LwTypeOK'
  <2>1. /\ target' \in [Tasks -> Nodes \cup {NULL}]
        /\ p_iter' \in [Tasks -> Nodes \cup {NULL}]
        /\ found' \in [Tasks -> BOOLEAN]
    BY DEF WalkReturn, LwTypeOK
  <2>2. /\ pc' \in [Tasks -> LwPCs] /\ op' \in [Tasks -> LwOps]
        /\ UNCHANGED <<links, used, p_node>>
    BY DEF WalkReturn, Unlock, Goto, LwTypeOK
  <2>3. sem' \in {0, 1}
    BY DEF WalkReturn, Unlock, Goto, LwTypeOK, LwMutex, LwHolds, Holds
  <2>. QED
    BY <2>1, <2>2, <2>3 DEF LwTypeOK
<1>2. LwControl'
  BY DEF WalkReturn, Unlock, Goto, LwTypeOK, LwControl
<1>3. LwMutex'
  <2>1. CASE Unlock(u)
    BY <2>1 DEF Unlock, Goto, LwTypeOK, LwMutex, LwHolds, Holds
  <2>2. CASE Goto(u, "answer", "idle") /\ UNCHANGED sem /\ op' = [op EXCEPT ![u] = "none"]
    BY <2>2 DEF Goto, LwTypeOK, LwControl, LwMutex, LwHolds, Holds
  <2>. QED
    BY <2>1, <2>2 DEF WalkReturn
<1>4. EndsKept'
  BY DEF WalkReturn, Unlock, Goto, LwTypeOK, LwControl, LwMutex, LwHolds, Holds, EndsKept
<1>. QED
  BY <1>1, <1>2, <1>3, <1>4
----------------------------------------------------------------------------
(***************************************************************************)
(* What a step of a task does to the row, when the list is laid out before *)
(* and after it.                                                           *)
(***************************************************************************)
\* The nodes in the places of a row.
Row_of(C, n) == {C[i] : i \in 1 .. n}

\* When the front is kept, at most the last node leaves.
LEMMA FrontStays ==
    ASSUME NEW h, NEW t, NEW m \in Nat, NEW C, NEW N, NEW P, Row(h, t, m, C, N, P),
           NEW h2, NEW t2, NEW n \in Nat, NEW D, NEW M, NEW Q, Row(h2, t2, n, D, M, Q),
           FrontKept(h, t, N, h2, M)
    PROVE  /\ n = m \/ n = m + 1 => Row_of(C, m) \subseteq Row_of(D, n)
           /\ m = n + 1 => \A x \in Row_of(C, m) : x \in Row_of(D, n) \/ x = t
<1>1. \A k \in 1 .. m : k \in 1 .. n => D[k] = C[k]
  BY FrontPlaces
<1>2. m > 0 => C[m] = t
  BY DEF Row
<1>3. ASSUME NEW x \in Row_of(C, m), x \notin Row_of(D, n), m <= n + 1
      PROVE  m = n + 1 /\ x = t
  <2>1. PICK a \in 1 .. m : C[a] = x
    BY DEF Row_of
  <2>2. a \notin 1 .. n
    BY <1>1, <1>3, <2>1 DEF Row_of
  <2>3. a = m /\ m = n + 1 /\ m > 0
    BY <1>3, <2>2
  <2>. QED
    BY <1>2, <2>1, <2>3
<1>4. n = m \/ n = m + 1 => m <= n + 1 /\ m # n + 1
  OBVIOUS
<1>5. m = n + 1 => m <= n + 1
  OBVIOUS
<1>. QED
  BY <1>3, <1>4, <1>5

\* When the back is kept, at most the first.
LEMMA BackStays ==
    ASSUME NEW h, NEW t, NEW m \in Nat, NEW C, NEW N, NEW P, Row(h, t, m, C, N, P),
           NEW h2, NEW t2, NEW n \in Nat, NEW D, NEW M, NEW Q, Row(h2, t2, n, D, M, Q),
           BackKept(h, t, P, t2, Q)
    PROVE  /\ n = m \/ n = m + 1 => Row_of(C, m) \subseteq Row_of(D, n)
           /\ m = n + 1 => \A x \in Row_of(C, m) : x \in Row_of(D, n) \/ x = h
<1>1. \A k \in 0 .. m - 1 : k \in 0 .. n - 1 => D[n - k] = C[m - k]
  BY BackPlaces
<1>2. m > 0 => C[1] = h
  BY DEF Row
<1>3. ASSUME NEW x \in Row_of(C, m), x \notin Row_of(D, n), m <= n + 1
      PROVE  m = n + 1 /\ x = h
  <2>1. PICK a \in 1 .. m : C[a] = x
    BY DEF Row_of
  <2>. DEFINE k == m - a
  <2>2. k \in 0 .. m - 1 /\ m - k = a
    BY <2>1
  <2>. HIDE DEF k
  <2>3. k \notin 0 .. n - 1
    <3>1. ASSUME k \in 0 .. n - 1 PROVE FALSE
      <4>1. n - k \in 1 .. n /\ D[n - k] = x
        BY <1>1, <2>1, <2>2, <3>1
      <4>. QED
        BY <1>3, <4>1 DEF Row_of
    <3>. QED
      BY <3>1
  <2>4. a = 1 /\ m = n + 1 /\ m > 0
    BY <1>3, <2>1, <2>2, <2>3
  <2>. QED
    BY <1>2, <2>1, <2>4
<1>4. n = m \/ n = m + 1 => m <= n + 1 /\ m # n + 1
  OBVIOUS
<1>5. m = n + 1 => m <= n + 1
  OBVIOUS
<1>. QED
  BY <1>3, <1>4, <1>5

\* The list before a step and after it, as such rows.
LEMMA BothRows ==
    ASSUME Laid, Laid'
    PROVE  /\ count \in Nat /\ Row(head, tail, count, Chain, next, prev)
           /\ count' \in Nat /\ Row(head', tail', count', Chain', next', prev')
           /\ Listed = Row_of(Chain, count) /\ Listed' = Row_of(Chain', count')
<1>1. count \in Nat
  BY DEF Laid, Row
<1>2. count' \in Nat
  BY DEF Laid, Row
<1>3. Listed = Row_of(Chain, count) /\ Listed' = Row_of(Chain', count')
  BY DEF Listed, Row_of
<1>. QED
  BY <1>1, <1>2, <1>3, RowNow, RowNext

\* Who stays in the list in a step that keeps the front of it.
LEMMA FrontStep ==
    ASSUME Laid, Laid', FrontKept(head, tail, next, head', next')
    PROVE  /\ count' = count \/ count' = count + 1 => Listed \subseteq Listed'
           /\ count = count' + 1 => \A x \in Listed \ Listed' : x = tail
           /\ count = count' + 1 /\ count' > 0 =>
                tail' # tail /\ tail' \in Nodes /\ next[tail'] = tail /\ next'[tail'] = NULL
<1>1. count = count' + 1 /\ count' > 0 =>
        tail' # tail /\ tail' \in Nodes /\ next[tail'] = tail /\ next'[tail'] = NULL
  BY BothRows, SecondTrails
<1>. QED
  BY <1>1, BothRows, FrontStays

\* And in one that keeps the back.
LEMMA BackStep ==
    ASSUME Laid, Laid', BackKept(head, tail, prev, tail', prev')
    PROVE  /\ count' = count \/ count' = count + 1 => Listed \subseteq Listed'
           /\ count = count' + 1 => \A x \in Listed \ Listed' : x = head
           /\ count = count' + 1 /\ count' > 0 =>
                head' # head /\ head' \in Nodes /\ prev[head'] = head /\ prev'[head'] = NULL
<1>1. count = count' + 1 /\ count' > 0 =>
        head' # head /\ head' \in Nodes /\ prev[head'] = head /\ prev'[head'] = NULL
  BY BothRows, SecondLeads
<1>. QED
  BY <1>1, BothRows, BackStays

\* The nodes that stay keep their order, what leaves has its arm cut, and what
\* is not in the list gets no arm but from a task that puts it before the head.
Steady(u) ==
    /\ \/ count = 0 \/ count' = 0
       \/ FrontKept(head, tail, next, head', next')
       \/ BackKept(head, tail, prev, tail', prev')
    /\ \A x \in Listed \ Listed' : next'[x] = NULL
    /\ \A x \in Nodes \ Listed : next[x] = NULL =>
         next'[x] = NULL \/ (next'[x] = head' /\ Inserting(u, x)')

\* A step that leaves the links alone.
LEMMA QuietSteady ==
    ASSUME UNCHANGED links, NEW u PROVE Steady(u)
  BY SameRow DEF Steady, FrontKept

\* linked_list_free_node cuts arms only, and takes nothing out.
LEMMA FreeSteady ==
    ASSUME LwTypes, Laid, Laid', NEW u \in Tasks, FreeArms(u)
    PROVE  Steady(u) /\ Listed \subseteq Listed'
<1>1. /\ next' = [next EXCEPT ![p_node[u]] = NULL] /\ next \in [Nodes -> Nodes \cup {NULL}]
      /\ head' = head /\ count' = count
  BY DEF FreeArms, LwTypes, LwTypeOK
<1>2. \A x \in Nodes : next'[x] \in {next[x], NULL}
  BY <1>1
<1>3. FrontKept(head, tail, next, head', next')
  BY <1>1, <1>2 DEF FrontKept
<1>4. count \in Nat
  BY DEF Laid, Row
<1>5. Listed \subseteq Listed'
  BY <1>1, <1>3, <1>4, FrontStep
<1>. QED
  BY <1>2, <1>3, <1>5 DEF Steady

\* The node to insert has its arms set: toward the head, or cut.
LEMMA InsertReadSteady ==
    ASSUME LwTypes, LwTypes', Laid, Laid', NEW u \in Tasks, InsertRead(u)
    PROVE  Steady(u)
<1>. DEFINE n == p_node[u]
<1>0. n \in Nodes /\ op[u] \in Puts /\ count \in Nat /\ count' = count
  BY DEF InsertRead, Goto, LwTypes, LwControl, Laid, Row
<1>1. /\ next' = [next EXCEPT ![n] = IF op[u] = "insert_head" THEN head ELSE NULL]
      /\ prev' = [prev EXCEPT ![n] = IF op[u] = "insert_head" THEN NULL
                                     ELSE IF head = NULL THEN NULL ELSE tail]
      /\ next \in [Nodes -> Nodes \cup {NULL}] /\ prev \in [Nodes -> Nodes \cup {NULL}]
      /\ head' = head /\ tail' = tail
  BY DEF InsertRead, LwTypes, LwTypeOK
<1>2. CASE op[u] = "insert_head"
  <2>1. BackKept(head, tail, prev, tail', prev')
    BY <1>1, <1>2 DEF BackKept
  <2>2. Listed \subseteq Listed'
    BY <1>0, <2>1, BackStep
  <2>3. \A x \in Nodes : x = n => Inserting(u, x)'
    BY <1>2 DEF InsertRead, Goto, Inserting, LwTypes, LwTypeOK
  <2>4. \A x \in Nodes : x # n => next'[x] = next[x]
    BY <1>1
  <2>5. next'[n] = head'
    BY <1>0, <1>1, <1>2
  <2>. QED
    BY <2>1, <2>2, <2>3, <2>4, <2>5 DEF Steady
<1>3. CASE op[u] # "insert_head"
  <2>1. \A x \in Nodes : next'[x] \in {next[x], NULL}
    BY <1>1, <1>3
  <2>2. FrontKept(head, tail, next, head', next')
    BY <1>1, <2>1 DEF FrontKept
  <2>3. Listed \subseteq Listed'
    BY <1>0, <2>2, FrontStep
  <2>. QED
    BY <2>1, <2>2, <2>3 DEF Steady
<1>. QED
  BY <1>2, <1>3
\* The node is put at one end, and the other end and the arms stay.
LEMMA InsertWriteSteady ==
    ASSUME LwTypes, LwTypes', Laid, Laid', NEW u \in Tasks, InsertWrite(u)
    PROVE  Steady(u) /\ (op[u] = "insert_head" => p_node[u] \in Listed')
<1>. DEFINE n == p_node[u]
<1>0. /\ n \in Nodes /\ NULL \notin Nodes /\ op[u] \in Puts
      /\ next \in [Nodes -> Nodes \cup {NULL}] /\ prev \in [Nodes -> Nodes \cup {NULL}]
  BY ListAssumption DEF InsertWrite, Goto, LwTypes, LwControl, LwTypeOK
<1>1. head' \in Nodes
  BY <1>0 DEF InsertWrite, InsertEmpty, InsertHead, InsertTail, LwTypes, LwTypeOK
<1>2. count' = count + 1
  <2>1. count' # 0
    BY <1>0, <1>1 DEF Laid, Row
  <2>. QED
    BY <2>1 DEF InsertWrite, Inc
<1>3. head' \in Listed'
  <2>1. (head # NULL => head \in Listed)'
    <3>1. Laid => (head # NULL => head \in Listed)
      BY RowEnds
    <3>. QED
      BY <3>1, RowEnds, PTL
  <2>. QED
    BY <1>0, <1>1, <2>1
<1>4. op[u] = "insert_head" => head' = n
  BY DEF InsertWrite, InsertEmpty, InsertHead, InsertTail
<1>5. Steady(u)
  <2>1. CASE InsertEmpty(n)
    <3>1. count = 0 /\ Listed = {}
      <4>1. count = 0
        BY <2>1, RowEnds DEF InsertEmpty
      <4>. QED
        BY <4>1 DEF Listed
    <3>. QED
      BY <2>1, <3>1 DEF InsertEmpty, Steady
  <2>2. CASE InsertHead(n)
    <3>1. BackKept(head, tail, prev, tail', prev')
      BY <1>0, <2>2 DEF InsertHead, BackKept
    <3>2. Listed \subseteq Listed'
      BY <1>2, <3>1, BackStep
    <3>. QED
      BY <2>2, <3>1, <3>2 DEF InsertHead, Steady
  <2>3. CASE InsertTail(n)
    <3>1. FrontKept(head, tail, next, head', next')
      BY <1>0, <2>3 DEF InsertTail, FrontKept
    <3>2. Listed \subseteq Listed'
      BY <1>2, <3>1, FrontStep
    <3>3. tail \in Listed
      BY <2>3, RowEnds DEF InsertTail
    <3>4. \A x \in Nodes : x # tail => next'[x] = next[x]
      BY <1>0, <2>3 DEF InsertTail
    <3>. QED
      BY <3>1, <3>2, <3>3, <3>4 DEF Steady
  <2>. QED
    BY <2>1, <2>2, <2>3 DEF InsertWrite
<1>. QED
  BY <1>3, <1>4, <1>5

\* The only node leaves: nothing is left of the list.
LEMMA LastSteady ==
    ASSUME LwTypes, LwTypes', Laid, Laid', NEW u \in Tasks, RemoveLast
    PROVE  Steady(u)
<1>1. count' = 0 /\ UNCHANGED next
  <2>1. Laid => (head = NULL <=> count = 0)
    BY RowEnds
  <2>2. (head = NULL <=> count = 0)'
    BY <2>1, RowEnds, PTL
  <2>. QED
    BY <2>2 DEF RemoveLast
<1>2. \A x \in Listed : next[x] = NULL
  <2>1. CASE count = 0
    BY <2>1, RowEnds DEF Listed
  <2>2. CASE count # 0
    BY <2>2, RowEnds DEF RemoveLast
  <2>. QED
    BY <2>1, <2>2
<1>. QED
  BY <1>1, <1>2 DEF Steady

\* A list of two or more, one fewer after the step.
LEMMA OneFewer ==
    ASSUME Laid, Laid', head # tail, count' = Dec(count)
    PROVE  count = count' + 1 /\ count' > 0
<1>1. count \in Nat /\ count > 1
  BY RowEnds
<1>. QED
  BY <1>1 DEF Dec

\* linked_list_remove_head and linked_list_remove_tail take what they read.
LEMMA PopSteady ==
    ASSUME LwTypes, LwTypes', Laid, Laid', NEW u \in Tasks, RemoveWrite(u), op[u] \in Pops
    PROVE  Steady(u)
<1>. DEFINE n == p_node[u]
<1>0. /\ n \in Nodes /\ Neighbour(u) \in Nodes \cup {NULL} /\ pc[u] = "write"
      /\ next \in [Nodes -> Nodes \cup {NULL}] /\ prev \in [Nodes -> Nodes \cup {NULL}]
  BY DEF RemoveWrite, Goto, Neighbour, LwTypes, LwControl, LwTypeOK
<1>1. CASE RemoveLast
  BY <1>1, LastSteady
<1>2. CASE head # tail /\ op[u] = "remove_head" /\ RemoveHead(n)
  <2>1. n = head
    BY <1>0, <1>2 DEF LwTypes, EndsKept
  <2>2. count = count' + 1
    BY <1>2, OneFewer DEF RemoveWrite
  <2>3. BackKept(head, tail, prev, tail', prev')
    BY <1>0, <1>2 DEF RemoveHead, BackKept
  <2>4. \A x \in Listed \ Listed' : x = n
    BY <2>1, <2>2, <2>3, BackStep
  <2>5. next'[n] = NULL /\ \A x \in Nodes : next'[x] \in {next[x], NULL}
    BY <1>0, <1>2 DEF RemoveHead
  <2>. QED
    BY <2>3, <2>4, <2>5 DEF Steady
<1>3. CASE head # tail /\ op[u] = "remove_tail" /\ RemoveTail(n)
  <2>1. n = tail /\ next[tail] = NULL
    <3>1. n = tail
      BY <1>0, <1>3 DEF LwTypes, EndsKept
    <3>2. head # NULL
      BY <1>3, RowEnds
    <3>. QED
      BY <3>1, <3>2, RowEnds
  <2>2. count = count' + 1
    BY <1>3, OneFewer DEF RemoveWrite
  <2>3. \A x \in Nodes : next'[x] \in {next[x], NULL}
    BY <1>0, <1>3 DEF RemoveTail
  <2>4. FrontKept(head, tail, next, head', next')
    BY <1>3, <2>3 DEF RemoveTail, FrontKept
  <2>5. \A x \in Listed \ Listed' : x = n
    BY <2>1, <2>2, <2>4, FrontStep
  <2>6. next'[n] = NULL
    BY <1>0, <2>1, <2>3
  <2>. QED
    BY <2>3, <2>4, <2>5, <2>6 DEF Steady
<1>. QED
  BY <1>1, <1>2, <1>3 DEF RemoveWrite

\* linked_list_remove_node leaves the list laid out only where it takes the
\* only node: the arm back to the head it takes stays, and so does the arm on
\* to the tail it takes; in the middle it cuts the way back to the head.
LEMMA RemoveNodeAlone ==
    ASSUME LwTypes, LwTypes', Laid, Laid', NEW u \in Tasks, RemoveWrite(u), op[u] = "remove_node"
    PROVE  RemoveLast /\ head = p_node[u]
<1>. DEFINE n == p_node[u]
<1>0. /\ n \in Nodes /\ NULL \notin Nodes /\ RemoveNode(n) /\ count' = Dec(count)
      /\ next \in [Nodes -> Nodes \cup {NULL}] /\ prev \in [Nodes -> Nodes \cup {NULL}]
  BY ListAssumption DEF RemoveWrite, Goto, LwTypes, LwControl, LwTypeOK
<1>1. CASE RemoveLast /\ head = n
  BY <1>1
<1>2. CASE head # n /\ head = tail /\ UNCHANGED <<head, tail, next, prev>>
  <2>1. (head = NULL <=> count = 0) /\ (count = 0 \/ count = 1)
    BY <1>2, RowEnds
  <2>2. (head = NULL <=> count = 0)'
    <3>1. Laid => (head = NULL <=> count = 0)
      BY RowEnds
    <3>. QED
      BY <3>1, RowEnds, PTL
  <2>3. SizeMax # 0
    BY ListAssumption
  <2>. QED
    BY <1>0, <1>2, <2>1, <2>2, <2>3 DEF Dec
<1>3. CASE head # tail /\ head = n /\ head' = next[n]
           /\ prev' = [prev EXCEPT ![n] = NULL] /\ UNCHANGED <<tail, next>>
  <2>1. BackKept(head, tail, prev, tail', prev')
    BY <1>0, <1>3 DEF BackKept
  <2>2. head' # head /\ head' \in Nodes /\ prev[head'] = head /\ prev'[head'] = NULL
    BY <1>0, <1>3, <2>1, OneFewer, BackStep
  <2>3. head \in Nodes /\ prev'[head'] = prev[head']
    BY <1>0, <1>3, <2>2
  <2>. QED
    BY <1>0, <2>2, <2>3
<1>4. CASE head # tail /\ tail = n /\ tail' = prev[n]
           /\ next' = [next EXCEPT ![n] = NULL] /\ UNCHANGED <<head, prev>>
  <2>1. FrontKept(head, tail, next, head', next')
    BY <1>0, <1>4 DEF FrontKept
  <2>2. tail' # tail /\ tail' \in Nodes /\ next[tail'] = tail /\ next'[tail'] = NULL
    BY <1>0, <1>4, <2>1, OneFewer, FrontStep
  <2>3. tail \in Nodes /\ next'[tail'] = next[tail']
    BY <1>0, <1>4, <2>2
  <2>. QED
    BY <1>0, <2>2, <2>3
<1>5. CASE head # tail /\ prev' = [m \in Nodes |-> IF m \in {n, next[n]} THEN NULL ELSE prev[m]]
           /\ UNCHANGED <<head, tail>>
  <2>1. BackKept(head, tail, prev, tail', prev')
    BY <1>0, <1>5 DEF BackKept
  <2>2. head' # head
    BY <1>0, <1>5, <2>1, OneFewer, BackStep
  <2>. QED
    BY <1>5, <2>2
<1>. QED
  BY <1>0, <1>1, <1>2, <1>3, <1>4, <1>5 DEF RemoveNode
----------------------------------------------------------------------------
(***************************************************************************)
(* Together: a step of any task, seen from a task that looks.              *)
(***************************************************************************)
\* The steps that touch the links are four, and looking is none of them.
LEMMA Touches ==
    ASSUME NEW u \in Tasks, Change(u) \/ Look(u)
    PROVE  \/ UNCHANGED links
           \/ FreeArms(u) /\ UNCHANGED walk
           \/ InsertRead(u) /\ UNCHANGED walk
           \/ InsertWrite(u) /\ UNCHANGED walk
           \/ RemoveWrite(u) /\ UNCHANGED walk
<1>1. CASE Look(u)
  BY <1>1 DEF Look, WalkCall, WalkHead, WalkOn, WalkEnd, WalkReturn, Unlock
<1>2. CASE Change(u)
  <2>. HIDE DEF walk
  <2>1. Call(u) \/ Lock(u) \/ Unlock(u) \/ AllocRead(u) \/ AllocWrite(u) \/ FreeUsed(u)
          \/ RemoveRead(u) => UNCHANGED links
    BY DEF Call, Lock, Unlock, AllocRead, AllocWrite, FreeUsed, RemoveRead
  <2>. QED
    BY <1>2, <2>1 DEF Change, Elements, lw_list_insert_head, lw_list_insert_tail,
                      lw_list_remove_head, lw_list_remove_tail, lw_list_remove_node
<1>. QED
  BY <1>1, <1>2

\* Any step is steady.
LEMMA StepSteady ==
    ASSUME LwTypes, LwTypes', Laid, Laid', NEW u \in Tasks, Change(u) \/ Look(u)
    PROVE  Steady(u)
<1>1. RemoveWrite(u) => op[u] \in Pops \/ op[u] = "remove_node"
  BY DEF RemoveWrite
<1>. QED
  BY <1>1, Touches, QuietSteady, FreeSteady, InsertReadSteady, InsertWriteSteady,
     PopSteady, RemoveNodeAlone, LastSteady

\* A task between its two writes of an insertion goes on with the second.
LEMMA InsertGoesOn ==
    ASSUME LwTypes, NEW u \in Tasks, NEW x, Change(u) \/ Look(u), Inserting(u, x)
    PROVE  InsertWrite(u)
<1>1. pc[u] = "write" /\ op[u] = "insert_head"
  BY DEF Inserting
<1>2. ~Look(u)
  BY <1>1 DEF Look, WalkCall, WalkHead, WalkOn, WalkEnd, WalkReturn, Unlock, Goto
<1>3. ~Call(u) /\ ~Lock(u) /\ ~Unlock(u) /\ ~Elements(u) /\ ~InsertRead(u)
  BY <1>1 DEF Call, Lock, Unlock, Elements, AllocRead, AllocWrite, FreeArms, FreeUsed,
              InsertRead, Goto
<1>. QED
  BY <1>1, <1>2, <1>3 DEF Change, lw_list_insert_head, lw_list_insert_tail,
     lw_list_remove_head, lw_list_remove_tail, lw_list_remove_node

\* A step of a task is of no other's place, call or node.
LEMMA OthersStay ==
    ASSUME LwTypes, NEW u \in Tasks, NEW t \in Tasks, t # u, Change(u) \/ Look(u)
    PROVE  /\ pc'[t] = pc[t] /\ op'[t] = op[t] /\ p_node'[t] = p_node[t]
           /\ p_iter'[t] = p_iter[t] /\ target'[t] = target[t] /\ found'[t] = found[t]
<1>. USE DEF LwTypes, LwTypeOK
<1>1. pc'[t] = pc[t]
  BY DEF Change, Look, Elements, lw_list_insert_head, lw_list_insert_tail,
         lw_list_remove_head, lw_list_remove_tail, lw_list_remove_node, Goto,
         Call, Lock, Unlock, AllocRead, AllocWrite, FreeArms, FreeUsed, InsertRead,
         InsertWrite, RemoveRead, RemoveWrite, WalkCall, WalkHead, WalkOn, WalkEnd, WalkReturn
<1>2. op'[t] = op[t]
  BY DEF Change, Look, Elements, lw_list_insert_head, lw_list_insert_tail,
         lw_list_remove_head, lw_list_remove_tail, lw_list_remove_node,
         Call, Lock, Unlock, AllocRead, AllocWrite, FreeArms, FreeUsed, InsertRead,
         InsertWrite, RemoveRead, RemoveWrite, WalkCall, WalkHead, WalkOn, WalkEnd, WalkReturn
<1>3. p_node'[t] = p_node[t]
  BY DEF Change, Look, Elements, lw_list_insert_head, lw_list_insert_tail,
         lw_list_remove_head, lw_list_remove_tail, lw_list_remove_node, Hold,
         Call, Lock, Unlock, AllocRead, AllocWrite, FreeArms, FreeUsed, InsertRead,
         InsertWrite, RemoveRead, RemoveWrite, WalkCall, WalkHead, WalkOn, WalkEnd, WalkReturn
<1>4. p_iter'[t] = p_iter[t] /\ target'[t] = target[t] /\ found'[t] = found[t]
  BY DEF Change, Look, WalkCall, WalkHead, WalkOn, WalkEnd, WalkReturn
<1>. QED
  BY <1>1, <1>2, <1>3, <1>4

\* Under the lock of one task, others touch the links by FreeArms only.
LEMMA LockedTouches ==
    ASSUME LwTypes, NEW u \in Tasks, NEW t \in Tasks, t # u, LwHolds(t),
           Change(u) \/ Look(u)
    PROVE  UNCHANGED links \/ FreeArms(u)
<1>1. ~LwHolds(u)
  BY DEF LwTypes, LwMutex
<1>2. ~InsertRead(u) /\ ~InsertWrite(u) /\ ~RemoveWrite(u)
  BY <1>1 DEF InsertRead, InsertWrite, RemoveWrite, Goto, LwHolds, Holds
<1>. QED
  BY <1>2, Touches

\* What a task sets before the head comes into the list, or is cut, or waits.
LEMMA InsertKept ==
    ASSUME LwTypes, LwTypes', Laid, Laid', NEW u \in Tasks, Change(u) \/ Look(u),
           NEW v \in Tasks, NEW x \in Nodes, Inserting(v, x), next[x] = head
    PROVE  x \in Listed' \/ next'[x] = NULL \/ (next'[x] = head' /\ Inserting(v, x)')
<1>1. CASE u = v
  BY <1>1, InsertGoesOn, InsertWriteSteady DEF Inserting
<1>2. CASE u # v
  <2>1. Inserting(v, x)'
    BY <1>2, OthersStay DEF Inserting
  <2>2. LwHolds(v)
    BY DEF Inserting, LwHolds, Holds
  <2>3. CASE UNCHANGED links
    BY <2>1, <2>3
  <2>4. CASE FreeArms(u)
    <3>1. next'[x] \in {next[x], NULL} /\ head' = head
      BY <2>4 DEF FreeArms, LwTypes, LwTypeOK
    <3>. QED
      BY <2>1, <3>1
  <2>. QED
    BY <1>2, <2>2, <2>3, <2>4, LockedTouches
<1>. QED
  BY <1>1, <1>2

\* Nothing leaves the list under the walk of linked_list_exist.
LEMMA LockedStays ==
    ASSUME LwTypes, Laid, Laid', NEW u \in Tasks, NEW t \in Tasks,
           Change(u) \/ Look(u), pc[t] = "walk", op[t] = "linked_list_exist"
    PROVE  Listed \subseteq Listed'
<1>1. CASE u = t
  <2>1. ~FreeArms(t) /\ ~InsertRead(t) /\ ~InsertWrite(t) /\ ~RemoveWrite(t)
    BY DEF FreeArms, InsertRead, InsertWrite, RemoveWrite, Goto
  <2>. QED
    BY <1>1, <2>1, Touches, SameRow
<1>2. CASE u # t
  <2>1. LwHolds(t)
    BY DEF LwHolds
  <2>. QED
    BY <1>2, <2>1, LockedTouches, FreeSteady, SameRow
<1>. QED
  BY <1>1, <1>2
----------------------------------------------------------------------------
(***************************************************************************)
(* What a task that looks has seen.                                        *)
(***************************************************************************)
\* What it has not seen was not so at any moment of the call.
Sees == \A t \in Tasks : op[t] \in WalkOps =>
    /\ target[t] \in Listed => "there" \in seen[t]
    /\ "not there" \notin seen[t] => target[t] \in Listed
    /\ "taken away" \notin seen[t] => p_iter[t] \in Listed \cup {NULL}
    /\ "damaged" \notin seen[t] => WellLinked

\* The words of Observed are those.
LEMMA SeenSees == SeenAll => Sees
  BY DEF SeenAll, Sees, Observed

\* A step adds to what is seen in a call that goes on.
LEMMA SeenStep ==
    ASSUME SeenAll, Watch, LwTypeOK'
    PROVE  /\ SeenAll' /\ Sees /\ Sees'
           /\ \A t \in Tasks : op'[t] \in WalkOps => seen[t] \subseteq seen'[t]
<1>1. \A t \in Tasks : op'[t] \in WalkOps => seen'[t] = seen[t] \cup Observed(t)'
  BY DEF Watch
<1>2. SeenAll'
  BY <1>1 DEF SeenAll
<1>3. SeenAll => Sees
  BY SeenSees
<1>4. Sees'
  BY <1>2, <1>3, SeenSees, PTL
<1>. QED
  BY <1>1, <1>2, <1>3, <1>4

\* A walk that has seen no damage had a row to walk before the step, too.
LEMMA UndamagedStep ==
    ASSUME LwTypes, LwTypes', SeenAll, Watch, NEW t \in Tasks,
           Undamaged(t)', pc[t] = "walk", op[t] \in WalkOps
    PROVE  Undamaged(t) /\ Laid /\ Laid' /\ seen[t] \subseteq seen'[t]
<1>1. /\ op'[t] \in WalkOps /\ "damaged" \notin seen'[t]
  BY DEF Undamaged
<1>2. seen[t] \subseteq seen'[t] /\ Sees /\ Sees'
  BY <1>1, SeenStep DEF LwTypes
<1>3. WellLinked /\ WellLinked'
  BY <1>1, <1>2 DEF Sees
<1>4. Laid /\ Laid'
  BY <1>3, LinkedIsLaid, LinkedNext DEF LwTypes
<1>. QED
  BY <1>1, <1>2, <1>4 DEF Undamaged

\* A walk that goes on after a step of the task was begun or led on by it.
LEMMA OwnWalk ==
    ASSUME LwTypes, NEW t \in Tasks, Change(t) \/ Look(t), pc'[t] = "walk"
    PROVE  WalkHead(t) \/ WalkOn(t)
<1>1. ~Change(t)
  BY DEF LwTypes, LwTypeOK, LwControl, Change, Elements, lw_list_insert_head,
         lw_list_insert_tail, lw_list_remove_head, lw_list_remove_tail, lw_list_remove_node,
         Goto, Call, Lock, Unlock, AllocRead, AllocWrite, FreeArms, FreeUsed, InsertRead,
         InsertWrite, RemoveRead, RemoveWrite
<1>2. ~WalkCall(t) /\ ~WalkEnd(t) /\ ~WalkReturn(t)
  BY DEF LwTypes, LwTypeOK, WalkCall, WalkEnd, WalkReturn, Unlock, Goto
<1>. QED
  BY <1>1, <1>2 DEF Look

\* Where a walk may step to from where it stands.
LEMMA StillLeads ==
    ASSUME LwTypes, LwTypes', Laid, Laid', NEW u \in Tasks, Change(u) \/ Look(u),
           NEW t \in Tasks, LeadsAt(t), p_iter'[t] = p_iter[t]
    PROVE  LeadsAt(t)'
<1>. DEFINE p == p_iter[t]
<1>0. p \in Nodes \cup {NULL} /\ Listed \subseteq Nodes
  BY RowEnds DEF LwTypes, LwTypeOK
<1>1. Steady(u)
  BY StepSteady
<1>2. \/ p = NULL \/ p \in Listed' \/ next'[p] = NULL
      \/ next'[p] = head' /\ \E v \in Tasks : Inserting(v, p)'
  <2>1. CASE p \in Listed
    BY <1>1, <2>1 DEF Steady
  <2>2. CASE p \in Nodes \ Listed /\ next[p] = NULL
    BY <1>1, <2>2 DEF Steady
  <2>3. CASE p \in Nodes /\ next[p] = head /\ \E v \in Tasks : Inserting(v, p)
    BY <2>3, InsertKept
  <2>. QED
    BY <1>0, <2>1, <2>2, <2>3 DEF LeadsAt
<1>. QED
  BY <1>2 DEF LeadsAt, Inserting

\* The places of two nodes that stay keep their order.
LEMMA StillOrdered ==
    ASSUME Laid, Laid', NEW u, Steady(u), NEW i \in 1 .. count, NEW j \in 1 .. count, i <= j,
           Chain[i] \in Listed', Chain[j] \in Listed'
    PROVE  \E c, d \in 1 .. count' : c <= d /\ Chain'[c] = Chain[i] /\ Chain'[d] = Chain[j]
<1>1. PICK c \in 1 .. count' : Chain'[c] = Chain[i]
  BY DEF Listed
<1>2. PICK d \in 1 .. count' : Chain'[d] = Chain[j]
  BY DEF Listed
<1>3. \/ FrontKept(head, tail, next, head', next')
      \/ BackKept(head, tail, prev, tail', prev')
  <2>1. count # 0
    OBVIOUS
  <2>2. count' # 0
    BY <1>1
  <2>. QED
    BY <2>1, <2>2 DEF Steady
<1>4. c <= d
  BY <1>1, <1>2, <1>3, BothRows, RowOrder
<1>. QED
  BY <1>1, <1>2, <1>4

\* What is ahead stays ahead.
LEMMA StillAhead ==
    ASSUME LwTypes, LwTypes', Laid, Laid', NEW u \in Tasks, Change(u) \/ Look(u),
           NEW t \in Tasks, Sees', pc[t] = "walk", op[t] \in WalkOps, AheadAt(t),
           seen[t] \subseteq seen'[t], op'[t] = op[t],
           p_iter'[t] = p_iter[t], target'[t] = target[t]
    PROVE  AheadAt(t)'
<1>1. SUFFICES ASSUME NoneLeft(t)'
               PROVE  \E c, d \in 1 .. count' :
                        c <= d /\ Chain'[c] = p_iter'[t] /\ Chain'[d] = target'[t]
  BY DEF AheadAt
<1>2. NoneLeft(t)
  BY <1>1 DEF NoneLeft
<1>3. PICK i, j \in 1 .. count : i <= j /\ Chain[i] = p_iter[t] /\ Chain[j] = target[t]
  BY <1>2 DEF AheadAt
<1>4. Chain[j] \in Listed'
  BY <1>1, <1>3 DEF Sees, NoneLeft
<1>5. Chain[i] \in Listed /\ Chain[i] # NULL
  BY <1>3, ListAssumption DEF Listed, Laid, Row
<1>6. Chain[i] \in Listed'
  <2>1. CASE op[t] = "linked_list_exist"
    BY <1>5, <2>1, LockedStays
  <2>2. CASE op[t] # "linked_list_exist"
    BY <1>1, <1>3, <1>5, <2>2 DEF Sees, NoneLeft
  <2>. QED
    BY <2>1, <2>2
<1>7. Steady(u)
  BY StepSteady
<1>8. \E c, d \in 1 .. count' : c <= d /\ Chain'[c] = Chain[i] /\ Chain'[d] = Chain[j]
  BY <1>3, <1>4, <1>6, <1>7, StillOrdered
<1>. QED
  BY <1>3, <1>8
----------------------------------------------------------------------------
(***************************************************************************)
(* The steps of the walk itself.                                           *)
(***************************************************************************)
\* The places after a step that leaves the links alone.
LEMMA LinksStay ==
    ASSUME UNCHANGED links
    PROVE  /\ Listed' = Listed /\ Chain' = Chain /\ count' = count
           /\ head' = head /\ next' = next
  BY SameRow

\* The arm of a node of the list leads to the next one; of the last, nowhere.
LEMMA ArmLeads ==
    ASSUME Laid, NEW i \in 1 .. count
    PROVE  /\ next[Chain[i]] \in Listed \cup {NULL}
           /\ i # count => i + 1 \in 1 .. count /\ next[Chain[i]] = Chain[i + 1]
<1>1. count \in Nat
  BY DEF Laid, Row
<1>2. CASE i = count
  BY <1>1, <1>2 DEF Laid, Row
<1>3. CASE i # count
  <2>1. i \in 1 .. count - 1 /\ i + 1 \in 1 .. count
    BY <1>1, <1>3
  <2>2. next[Chain[i]] = Chain[i + 1]
    BY <2>1 DEF Laid, Row
  <2>. QED
    BY <2>1, <2>2 DEF Listed
<1>. QED
  BY <1>2, <1>3

\* A walk that steps into the list has seen there what it stands on.
LEMMA StandsListed ==
    ASSUME LwTypes', Sees', NEW t \in Tasks, op'[t] \in WalkOps, p_iter'[t] \in Listed' \cup {NULL}
    PROVE  LeadsAt(t)' /\ ArrivedAt(t)'
<1>1. target'[t] \in Nodes /\ NULL \notin Nodes
  BY ListAssumption DEF LwTypes, LwControl
<1>2. LeadsAt(t)'
  BY DEF LeadsAt
<1>3. ArrivedAt(t)'
  BY <1>1 DEF ArrivedAt, Sees
<1>. QED
  BY <1>2, <1>3

\* At the head everything is ahead.
LEMMA HeadWalk ==
    ASSUME LwTypes, LwTypes', SeenAll, Watch, NEW t \in Tasks, WalkHead(t), Undamaged(t)'
    PROVE  LeadsAt(t)' /\ ArrivedAt(t)' /\ AheadAt(t)'
<1>1. /\ op'[t] \in WalkOps /\ "damaged" \notin seen'[t]
      /\ Sees' /\ p_iter'[t] = head /\ UNCHANGED links
  BY SeenStep DEF Undamaged, WalkHead, LwTypes, LwTypeOK
<1>2. Laid'
  BY <1>1, LinkedNext DEF Sees, LwTypes
<1>3. p_iter'[t] = head'
  BY <1>1
<1>4. (/\ head = NULL <=> count = 0
       /\ head # NULL => head \in Listed /\ Chain[1] = head
       /\ count \in Nat)'
  <2>1. Laid => /\ head = NULL <=> count = 0
                /\ head # NULL => head \in Listed /\ Chain[1] = head
                /\ count \in Nat
    BY RowEnds
  <2>. QED
    BY <1>2, <2>1, RowEnds, PTL
<1>5. LeadsAt(t)' /\ ArrivedAt(t)'
  BY <1>1, <1>3, <1>4, StandsListed
<1>6. ASSUME NoneLeft(t)'
      PROVE  \E i, j \in 1 .. count' : i <= j /\ Chain'[i] = p_iter'[t] /\ Chain'[j] = target'[t]
  <2>1. target'[t] \in Listed'
    BY <1>1, <1>6 DEF Sees, NoneLeft
  <2>2. PICK j \in 1 .. count' : Chain'[j] = target'[t]
    BY <2>1 DEF Listed
  <2>3. count' # 0 /\ 1 \in 1 .. count' /\ 1 <= j
    BY <1>4, <2>2
  <2>4. Chain'[1] = p_iter'[t]
    BY <1>3, <1>4, <2>3
  <2>. QED
    BY <2>2, <2>3, <2>4
<1>. QED
  BY <1>5, <1>6 DEF AheadAt

\* One step on, what is ahead and is not where the walk stood is still ahead.
LEMMA OnWalk ==
    ASSUME LwTypes, LwTypes', SeenAll, Watch, NEW t \in Tasks, WalkOn(t), Undamaged(t)',
           Leads, Ahead
    PROVE  LeadsAt(t)' /\ ArrivedAt(t)' /\ AheadAt(t)'
<1>. DEFINE p == p_iter[t]
<1>1. /\ pc[t] = "walk" /\ op[t] \in WalkOps /\ p # NULL /\ p # target[t]
      /\ p_iter'[t] = next[p] /\ op' = op /\ target' = target /\ UNCHANGED links
  BY DEF WalkOn, LwTypes, LwTypeOK, LwControl
<1>2. Undamaged(t) /\ Laid /\ Laid' /\ seen[t] \subseteq seen'[t]
  BY <1>1, UndamagedStep
<1>3. Sees'
  BY SeenStep DEF LwTypes
<1>4. Listed' = Listed /\ Chain' = Chain /\ count' = count
  BY <1>1, LinksStay
<1>5. next[p] \in Listed \cup {NULL}
  <2>1. LeadsAt(t)
    BY <1>2 DEF Leads
  <2>2. CASE p \in Listed
    <3>1. PICK i \in 1 .. count : Chain[i] = p
      BY <2>2 DEF Listed
    <3>. QED
      BY <1>2, <3>1, ArmLeads
  <2>3. CASE next[p] = NULL \/ next[p] = head
    BY <1>2, <2>3, RowEnds
  <2>. QED
    BY <1>1, <2>1, <2>2, <2>3 DEF LeadsAt
<1>6. LeadsAt(t)' /\ ArrivedAt(t)'
  BY <1>1, <1>3, <1>4, <1>5, StandsListed
<1>7. ASSUME NoneLeft(t)'
      PROVE  \E i, j \in 1 .. count : i <= j /\ Chain[i] = next[p] /\ Chain[j] = target[t]
  <2>1. NoneLeft(t)
    BY <1>1, <1>2, <1>7 DEF NoneLeft
  <2>2. PICK i, j \in 1 .. count : i <= j /\ Chain[i] = p /\ Chain[j] = target[t]
    BY <1>2, <2>1 DEF Ahead, AheadAt
  <2>3. count \in Nat /\ i # j
    BY <1>1, <1>2, <2>2 DEF Laid, Row
  <2>4. i # count /\ i + 1 <= j
    BY <2>2, <2>3
  <2>5. i + 1 \in 1 .. count /\ Chain[i + 1] = next[p]
    BY <1>2, <2>2, <2>4, ArmLeads
  <2>. QED
    BY <2>2, <2>4, <2>5
<1>8. AheadAt(t)'
  BY <1>1, <1>4, <1>7 DEF AheadAt
<1>. QED
  BY <1>6, <1>8

\* What the search answers is right where the walk ends, and stays so.
LEMMA EndWalk ==
    ASSUME LwTypes, LwTypes', SeenAll, Watch, NEW t \in Tasks, WalkEnd(t),
           Arrived, Ahead, "damaged" \notin seen'[t]
    PROVE  IF found'[t] THEN "there" \in seen'[t]
           ELSE \/ "not there" \in seen'[t]
                \/ op'[t] = "lw_list_exist" /\ "taken away" \in seen'[t]
<1>1. /\ pc[t] = "walk" /\ op[t] \in WalkOps /\ op' = op /\ ~found[t]
      /\ \/ p_iter[t] = NULL /\ ~found'[t]
         \/ p_iter[t] # NULL /\ p_iter[t] = target[t] /\ found'[t]
  BY DEF WalkEnd, Goto, LwTypes, LwTypeOK, LwControl
<1>2. seen[t] \subseteq seen'[t] /\ Sees
  BY <1>1, SeenStep DEF LwTypes
<1>3. Undamaged(t) /\ Laid
  BY <1>1, <1>2, LinkedIsLaid DEF Undamaged, Sees, LwTypes
<1>4. CASE p_iter[t] # NULL
  <2>1. found'[t] /\ "there" \in seen[t]
    BY <1>1, <1>3, <1>4 DEF Arrived, ArrivedAt
  <2>. QED
    BY <1>2, <2>1
<1>5. CASE p_iter[t] = NULL
  <2>1. ~(\E i \in 1 .. count : Chain[i] = p_iter[t])
    BY <1>3, <1>5, ListAssumption DEF Laid, Row
  <2>2. ~NoneLeft(t)
    BY <1>3, <2>1 DEF Ahead, AheadAt
  <2>3. "not there" \in seen[t] \/ (op[t] # "linked_list_exist" /\ "taken away" \in seen[t])
    BY <2>2 DEF NoneLeft
  <2>4. ~found'[t] /\ op'[t] \in WalkOps /\ op'[t] = op[t]
    BY <1>1, <1>5
  <2>. QED
    BY <1>2, <2>3, <2>4
<1>. QED
  BY <1>4, <1>5

----------------------------------------------------------------------------
(***************************************************************************)
(* The invariant, and the theorems.                                        *)
(***************************************************************************)
\* No task looks at first.
LEMMA LwInvInit == LwInit => LwInv
<1>. SUFFICES ASSUME LwInit PROVE LwInv
  OBVIOUS
<1>1. \A t \in Tasks : op[t] \notin WalkOps
  BY DEF LwInit, Init
<1>. QED
  BY <1>1, LwTypesInit
     DEF LwInv, SeenAll, Leads, Arrived, Ahead, ExistRight, Undamaged

\* Any step keeps types, places, the lock and the ends.
LEMMA HeldNext ==
    ASSUME LwTypes, NEW u \in Tasks, Change(u) \/ Look(u)
    PROVE  LwTypes'
<1>1. CASE Look(u)
  BY <1>1, WalkCallHeld, WalkHeadHeld, WalkOnHeld, WalkEndHeld, WalkReturnHeld DEF Look
<1>2. CASE Change(u)
  BY <1>2, CallHeld, LockHeld, UnlockHeld, AllocReadHeld, AllocWriteHeld, FreeArmsHeld,
     FreeUsedHeld, InsertReadHeld, InsertWriteHeld, RemoveReadHeld, RemoveWriteHeld
     DEF Change, Elements, lw_list_insert_head, lw_list_insert_tail,
         lw_list_remove_head, lw_list_remove_tail, lw_list_remove_node
<1>. QED
  BY <1>1, <1>2

\* A walk stays on its way, through its own steps and those of others.
LEMMA WalksNext ==
    ASSUME LwInv, LwTypes', NEW u \in Tasks, Change(u) \/ Look(u), Watch
    PROVE  Leads' /\ Arrived' /\ Ahead'
<1>1. SUFFICES ASSUME NEW t \in Tasks, Undamaged(t)'
               PROVE  LeadsAt(t)' /\ ArrivedAt(t)' /\ AheadAt(t)'
  BY DEF Leads, Arrived, Ahead
<1>2. pc'[t] = "walk" /\ op'[t] \in WalkOps
  BY <1>1 DEF Undamaged
<1>3. CASE u = t
  BY <1>1, <1>2, <1>3, OwnWalk, HeadWalk, OnWalk DEF LwInv
<1>4. CASE u # t
  <2>1. /\ pc[t] = "walk" /\ op[t] \in WalkOps /\ op'[t] = op[t]
        /\ p_iter'[t] = p_iter[t] /\ target'[t] = target[t]
    BY <1>2, <1>4, OthersStay DEF LwInv
  <2>2. Undamaged(t) /\ Laid /\ Laid' /\ seen[t] \subseteq seen'[t]
    BY <1>1, <2>1, UndamagedStep DEF LwInv
  <2>3. LeadsAt(t) /\ ArrivedAt(t) /\ AheadAt(t)
    BY <2>2 DEF LwInv, Leads, Arrived, Ahead
  <2>4. LeadsAt(t)'
    BY <2>1, <2>2, <2>3, StillLeads DEF LwInv
  <2>5. ArrivedAt(t)'
    BY <2>1, <2>2, <2>3 DEF ArrivedAt
  <2>6. Sees'
    BY SeenStep DEF LwInv, LwTypes
  <2>7. AheadAt(t)'
    BY <2>1, <2>2, <2>3, <2>6, StillAhead DEF LwInv
  <2>. QED
    BY <2>4, <2>5, <2>7
<1>. QED
  BY <1>3, <1>4

\* An answer is right when the walk ends, and is not changed before it is given.
LEMMA RightNext ==
    ASSUME LwInv, LwTypes', NEW u \in Tasks, Change(u) \/ Look(u), Watch
    PROVE  ExistRight'
<1>1. SUFFICES ASSUME NEW t \in Tasks, op'[t] \in WalkOps, pc'[t] \in {"unlock", "answer"},
                      "damaged" \notin seen'[t]
               PROVE  IF found'[t] THEN "there" \in seen'[t]
                      ELSE \/ "not there" \in seen'[t]
                           \/ op'[t] = "lw_list_exist" /\ "taken away" \in seen'[t]
  BY DEF ExistRight
<1>2. CASE u = t
  <2>1. WalkEnd(t)
    <3>1. ~WalkCall(t) /\ ~WalkHead(t) /\ ~WalkOn(t) /\ ~WalkReturn(t)
      BY <1>1 DEF LwInv, LwTypes, LwTypeOK, WalkCall, WalkHead, WalkOn, WalkReturn, Unlock, Goto
    <3>2. op[t] \notin WalkOps => ~Change(t)
      BY <1>1 DEF LwInv, LwTypes, LwTypeOK, Change, Elements, Call, Lock, Unlock, AllocRead,
         AllocWrite, FreeArms, FreeUsed, InsertRead, InsertWrite, RemoveRead, RemoveWrite, Goto,
         lw_list_insert_head, lw_list_insert_tail, lw_list_remove_head, lw_list_remove_tail,
         lw_list_remove_node
    <3>3. op[t] \in WalkOps => ~Change(t)
      BY <1>1 DEF LwInv, LwTypes, LwTypeOK, LwControl, Change, Elements, Call, Lock, Unlock,
         AllocRead, AllocWrite, FreeArms, FreeUsed, InsertRead, InsertWrite, RemoveRead,
         RemoveWrite, Goto, lw_list_insert_head, lw_list_insert_tail, lw_list_remove_head,
         lw_list_remove_tail, lw_list_remove_node
    <3>. QED
      BY <1>2, <3>1, <3>2, <3>3 DEF Look
  <2>. QED
    BY <1>1, <2>1, EndWalk DEF LwInv
<1>3. CASE u # t
  <2>1. pc'[t] = pc[t] /\ op'[t] = op[t] /\ found'[t] = found[t]
    BY <1>3, OthersStay DEF LwInv
  <2>2. seen[t] \subseteq seen'[t]
    BY <1>1, SeenStep DEF LwInv, LwTypes
  <2>. QED
    BY <1>1, <2>1, <2>2 DEF LwInv, ExistRight
<1>. QED
  BY <1>2, <1>3

\* The invariant is kept by every step.
LEMMA LwInvNext == LwInv /\ [LwNext]_lwVars => LwInv'
<1>. SUFFICES ASSUME LwInv, [LwNext]_lwVars PROVE LwInv'
  OBVIOUS
<1>1. CASE UNCHANGED lwVars
  <2>1. Chain' = Chain /\ Listed' = Listed
    BY <1>1, SameRow DEF lwVars
  <2>2. WellLinked' = WellLinked
    BY <1>1, <2>1 DEF lwVars, WellLinked
  <2>3. LwTypes'
    BY <1>1 DEF lwVars, LwInv, LwTypes, LwTypeOK, LwControl, LwMutex, LwHolds, Holds, EndsKept
  <2>4. SeenAll' /\ ExistRight'
    BY <1>1, <2>1, <2>2 DEF lwVars, LwInv, SeenAll, Observed, ExistRight
  <2>5. Leads' /\ Arrived' /\ Ahead'
    <3>1. UNCHANGED <<count, head, next, pc, op, p_node, target, p_iter, seen>>
      BY <1>1 DEF lwVars
    <3>2. \A t \in Tasks : /\ Undamaged(t)' = Undamaged(t) /\ LeadsAt(t)' = LeadsAt(t)
                           /\ ArrivedAt(t)' = ArrivedAt(t) /\ AheadAt(t)' = AheadAt(t)
      BY <2>1, <3>1 DEF Undamaged, LeadsAt, ArrivedAt, AheadAt, NoneLeft, Inserting
    <3>. QED
      BY <3>2 DEF LwInv, Leads, Arrived, Ahead
  <2>. QED
    BY <2>3, <2>4, <2>5 DEF LwInv
<1>2. ASSUME NEW u \in Tasks, Change(u) \/ Look(u), Watch PROVE LwInv'
  <2>1. LwTypes'
    BY <1>2, HeldNext DEF LwInv
  <2>2. SeenAll'
    BY <1>2, <2>1, SeenStep DEF LwInv, LwTypes
  <2>3. Leads' /\ Arrived' /\ Ahead'
    BY <1>2, <2>1, WalksNext
  <2>4. ExistRight'
    BY <1>2, <2>1, RightNext
  <2>. QED
    BY <2>1, <2>2, <2>3, <2>4 DEF LwInv
<1>. QED
  BY <1>1, <1>2 DEF LwNext

\* linked_list_exist and lw_list_exist answer rightly, for any tasks, depth and
\* calls, and whatever the other tasks do to the list meanwhile, as long as it is
\* well linked: a node found was in the list at some moment of the call, and one
\* not found was out of it, or without the lock the walk's own node was taken.
THEOREM ExistCorrect == LwSpec => []ExistRight
<1>1. LwInv => ExistRight
  BY DEF LwInv
<1>. QED
  BY <1>1, LwInvInit, LwInvNext, PTL DEF LwSpec

\* The walk of linked_list_exist excludes, and is excluded by, every operation
\* that takes the lock; lw_list_exist and linked_list_free_node take none.
THEOREM WalkExcludes == LwSpec => []LwMutex
<1>1. LwInv => LwMutex
  BY DEF LwInv, LwTypes
<1>. QED
  BY <1>1, LwInvInit, LwInvNext, PTL DEF LwSpec

\* linked_list_remove_node leaves a well linked list well linked only where it
\* takes its only node: in a list of two or more it always leaves an arm wrong,
\* whichever node it takes.
OnlyNodeRemoved == \A u \in Tasks :
    op[u] = "remove_node" /\ RemoveWrite(u) /\ WellLinked /\ WellLinked'
    => count = 1 /\ head = p_node[u]

THEOREM RemoveNodeDamages == LwSpec => [][OnlyNodeRemoved]_lwVars
<1>1. LwInv /\ LwInv' => OnlyNodeRemoved
  <2>. SUFFICES ASSUME LwTypes, LwTypes', NEW u \in Tasks,
                       op[u] = "remove_node", RemoveWrite(u), WellLinked, WellLinked'
                PROVE  count = 1 /\ head = p_node[u]
    BY DEF LwInv, OnlyNodeRemoved
  <2>1. Laid /\ Laid'
    BY LinkedIsLaid, LinkedNext DEF LwTypes
  <2>2. RemoveLast /\ head = p_node[u]
    BY <2>1, RemoveNodeAlone
  <2>3. p_node[u] \in Nodes /\ NULL \notin Nodes
    BY ListAssumption DEF LwTypes, LwControl
  <2>. QED
    BY <2>1, <2>2, <2>3, RowEnds DEF RemoveLast
<1>2. LwSpec => []LwInv
  BY LwInvInit, LwInvNext, PTL DEF LwSpec
<1>. QED
  BY <1>1, <1>2, PTL
=============================================================================
