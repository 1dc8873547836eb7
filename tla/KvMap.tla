------------------------------- MODULE KvMap -------------------------------
(***************************************************************************)
(* What the key-value list of lib/kv_list promises the tasks that share    *)
(* it: a bag of keys of bounded size on which every operation acts at one  *)
(* instant between its call and its return.  KvList implements it.         *)
(***************************************************************************)
EXTENDS Naturals, FiniteSets

CONSTANTS
    Tasks,      \* the tasks that share the list
    Keys,       \* the keys of its items
    Depth,      \* how many items it holds
    NoKey,      \* the key of no item
    Calls       \* Calls[t]: the operations task t makes

VARIABLES
    items,      \* items[k]: how many items have key k
    request,    \* request[t]: the operation t is in, and its key
    answer      \* answer[t]: what the operation has decided so far

vars == <<items, request, answer>>

NoRequest == [op |-> "none", key |-> NoKey]
Empty     == [k \in Keys |-> 0]
Pending   == [done |-> FALSE, ok |-> FALSE, seen |-> Empty]
Found(b)  == [done |-> TRUE, ok |-> b, seen |-> Empty]

\* One pair for each item.
Units == {u \in Keys \X (1 .. Depth) : u[2] <= items[u[1]]}
Size  == Cardinality(Units)

Init == /\ items = Empty
        /\ request = [t \in Tasks |-> NoRequest]
        /\ answer = [t \in Tasks |-> Pending]

Call(t) ==
    /\ request[t] = NoRequest
    /\ \E o \in Calls[t], k \in Keys : request' = [request EXCEPT ![t] = [op |-> o, key |-> k]]
    /\ UNCHANGED <<items, answer>>

Answer(t, ops, a) ==
    /\ request[t].op \in ops
    /\ ~answer[t].done
    /\ answer' = [answer EXCEPT ![t] = a]
    /\ UNCHANGED request

\* A full list refuses the item; keys may repeat.
Add(t) == 
    \/ /\ Size < Depth
       /\ items' = [items EXCEPT ![request[t].key] = @ + 1]
       /\ Answer(t, {"add"}, Found(TRUE))
    \/ /\ Size = Depth
       /\ Answer(t, {"add"}, Found(FALSE))
       /\ UNCHANGED items

Search(t) == /\ Answer(t, {"search"}, Found(items[request[t].key] > 0))
             /\ UNCHANGED items

Remove(t) == 
    LET k == request[t].key IN
    /\ Answer(t, {"remove", "search_remove"}, Found(items[k] > 0))
    /\ items' = [items EXCEPT ![k] = IF @ > 0 THEN @ - 1 ELSE 0]

Clear(t) == Answer(t, {"clear"}, Found(TRUE)) /\ items' = Empty

Sort(t) == Answer(t, {"sort"}, Found(TRUE)) /\ UNCHANGED items

Walk(t) == /\ Answer(t, {"walk"}, [done |-> TRUE, ok |-> TRUE, seen |-> items])
           /\ UNCHANGED items

Return(t) == /\ answer[t].done
             /\ request' = [request EXCEPT ![t] = NoRequest]
             /\ answer' = [answer EXCEPT ![t] = Pending]
             /\ UNCHANGED items

Next == \E t \in Tasks : \/ Call(t) \/ Add(t) \/ Search(t) \/ Remove(t) \/ Clear(t)
                         \/ Sort(t) \/ Walk(t) \/ Return(t)

Spec == Init /\ [][Next]_vars
=============================================================================
