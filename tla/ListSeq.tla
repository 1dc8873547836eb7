------------------------------ MODULE ListSeq ------------------------------
(***************************************************************************)
(* What lib/linked_list promises: a sequence of nodes that tasks push to   *)
(* and pop from at both ends, each operation at one instant, and a pool    *)
(* the nodes come from.  A node is in the pool, in the sequence, or in the *)
(* hands of one task.  LinkedList implements it.                           *)
(***************************************************************************)
EXTENDS Naturals, Sequences

CONSTANTS
    Tasks,
    Nodes,
    NULL,
    Bounded     \* the pool is an array: an allocation fails only when it is empty

VARIABLES
    seq,        \* the list
    pool,       \* the nodes that are free
    hand,       \* hand[t]: the node task t has, or NULL
    told        \* told[t]: what t was refused in the call it is in

vars == <<seq, pool, hand, told>>

Init == /\ seq = <<>>
        /\ pool = Nodes
        /\ hand = [t \in Tasks |-> NULL]
        /\ told = [t \in Tasks |-> "nothing"]

Front(s)   == SubSeq(s, 1, Len(s) - 1)
Take(t, n) == hand[t] = NULL /\ hand' = [hand EXCEPT ![t] = n]
Give(t)    == hand[t] # NULL /\ hand' = [hand EXCEPT ![t] = NULL]

Alloc(t) == /\ \E n \in pool : Take(t, n) /\ pool' = pool \ {n}
            /\ UNCHANGED <<seq, told>>

Free(t) == Give(t) /\ pool' = pool \cup {hand[t]} /\ UNCHANGED <<seq, told>>

PushHead(t) == Give(t) /\ seq' = <<hand[t]>> \o seq /\ UNCHANGED <<pool, told>>
PushTail(t) == Give(t) /\ seq' = Append(seq, hand[t]) /\ UNCHANGED <<pool, told>>

PopHead(t) == /\ seq # <<>>
              /\ Take(t, Head(seq)) /\ seq' = Tail(seq)
              /\ UNCHANGED <<pool, told>>
PopTail(t) == /\ seq # <<>>
              /\ Take(t, seq[Len(seq)]) /\ seq' = Front(seq)
              /\ UNCHANGED <<pool, told>>

Refuse(t) == /\ told[t] = "nothing"
             /\ \/ seq = <<>> /\ told' = [told EXCEPT ![t] = "empty"]
                \/ (Bounded => pool = {}) /\ told' = [told EXCEPT ![t] = "no node"]
             /\ UNCHANGED <<seq, pool, hand>>

Return(t) == told' = [told EXCEPT ![t] = "nothing"] /\ UNCHANGED <<seq, pool, hand>>

Next == \E t \in Tasks : \/ Alloc(t) \/ Free(t) \/ PushHead(t) \/ PushTail(t)
                         \/ PopHead(t) \/ PopTail(t) \/ Refuse(t) \/ Return(t)

Spec == Init /\ [][Next]_vars
=============================================================================
