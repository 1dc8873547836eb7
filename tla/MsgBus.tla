------------------------------- MODULE MsgBus ------------------------------
(***************************************************************************)
(* lib/msg_bus: any task produces messages, one task consumes them and     *)
(* calls the callback of each one's topic.  The queue is a heap list and a *)
(* channel's topics a key-value list.  LinkedList and KvList show that     *)
(* their calls act at one instant, so each is one step here, and tasks     *)
(* interleave between the calls.  hal_event_post and hal_event_wait are    *)
(* empty: the consumer polls.                                              *)
(***************************************************************************)
EXTENDS Naturals, FiniteSets, Functions, Sequences, TLC

CONSTANTS
    Producers,      \* the tasks that produce
    Channels,       \* the indices of chann_array
    Topics,         \* topic ids, which kv_list_sort compares
    Depth,          \* the depth of each channel's topic_list
    Heap,           \* the nodes the heap has room for
    MaxSent,        \* bound: the messages each producer allocates
    CallGroup,      \* MBUS_CALL_GROUP_ID, the channel of mbus_produce_call
    None            \* no message

ASSUME BusAssumption ==
    /\ IsFiniteSet(Producers)
    /\ Topics \subseteq Nat
    /\ Depth \in Nat /\ Heap \in Nat /\ MaxSent \in Nat
    /\ CallGroup \notin Channels

Messages == [from : Producers, number : 1 .. MaxSent,
             chann_id : Channels \cup {CallGroup}, topic_id : Topics]

ASSUME NoneAssumption == None \notin Messages

VARIABLES
    topic_list,     \* the topics in each channel's used nodes, in node order
    msg_queue,
    allocated,      \* the number of heap nodes in use
    producer,       \* the message each producer has in a node it has not pushed
    sent,           \* how many each producer has allocated
    consumer,       \* where the consumer is
    p_msg,          \* the message it is handling
    p_node,         \* the node kv_list_search gave it
    called          \* the last callback: the message, and the topic it belongs to

vars == <<topic_list, msg_queue, allocated, producer, sent, consumer, p_msg, p_node, called>>

Init ==
    /\ topic_list = [c \in Channels |-> <<>>]
    /\ msg_queue = <<>>
    /\ allocated = 0
    /\ producer = [p \in Producers |-> None]
    /\ sent = [p \in Producers |-> 0]
    /\ consumer = "pop"
    /\ p_msg = None
    /\ p_node = 0
    /\ called = None

----------------------------------------------------------------------------
\* mbus_produce_message, mbus_produce_call: with no memory the message is
\* dropped and nothing changes.  topic_id and callback share one field.
Granted   == TRUE
HasMemory == allocated < Heap

Produce(p) ==
    /\ producer[p] = None
    /\ sent[p] < MaxSent
    /\ HasMemory
    /\ \E c \in Channels \cup {CallGroup}, i \in Topics :
         producer' = [producer EXCEPT ![p] =
             [from |-> p, number |-> sent[p] + 1, chann_id |-> c, topic_id |-> i]]
    /\ allocated' = allocated + 1
    /\ sent' = [sent EXCEPT ![p] = @ + 1]
    /\ UNCHANGED <<topic_list, msg_queue, consumer, p_msg, p_node, called>>

AtHead(m) == <<m>> \o msg_queue
AtTail(m) == Append(msg_queue, m)

Push(p) ==
    /\ producer[p] # None
    /\ msg_queue' = AtTail(producer[p])
    /\ producer' = [producer EXCEPT ![p] = None]
    /\ UNCHANGED <<topic_list, allocated, sent, consumer, p_msg, p_node, called>>

----------------------------------------------------------------------------
\* mbus_register_topic, by any task: kv_list_add fills the first free node, and
\* a full list is left as it is.
Inserted(list, i) == SortSeq(Append(list, i), <)
Filled(list, i)   == Append(list, i)

Register(c, i) ==
    /\ Len(topic_list[c]) < Depth
    /\ topic_list' = [topic_list EXCEPT ![c] = Filled(@, i)]
    /\ UNCHANGED <<msg_queue, allocated, producer, sent, consumer, p_msg, p_node, called>>

\* What kv_list_sort makes of a list: the same topics in order.
Sorted(list) ==
    {s \in {[i \in DOMAIN list |-> list[perm[i]]] : perm \in Injection(DOMAIN list, DOMAIN list)} :
        \A i, j \in DOMAIN s : i <= j => s[i] <= s[j]}

\* mbus_sort_topic moves nodes.  Only the consumer calls it, from a callback or
\* between two messages.
Sort ==
    /\ consumer \in {"pop", "free"}
    /\ \E lists \in [Channels -> UNION {Sorted(topic_list[c]) : c \in Channels}] :
         /\ \A c \in Channels : lists[c] \in Sorted(topic_list[c])
         /\ topic_list' = lists
    /\ UNCHANGED <<msg_queue, allocated, producer, sent, consumer, p_msg, p_node, called>>

\* mbus_consume_call, mbus_consume_message: pop, look the topic up, read the
\* topic through the node and call it, free the message.
Pop ==
    /\ consumer = "pop" /\ msg_queue # <<>>
    /\ msg_queue' = Tail(msg_queue)
    /\ p_msg' = Head(msg_queue)
    /\ consumer' = IF p_msg'.chann_id = CallGroup THEN "call" ELSE "search"
    /\ UNCHANGED <<topic_list, allocated, producer, sent, p_node, called>>

Retries  == consumer' = "search"
NotFound == consumer' = "free"

Search ==
    LET list == topic_list[p_msg.chann_id]
        hits == {n \in 1 .. Len(list) : list[n] = p_msg.topic_id}
    IN /\ consumer = "search"
       /\ \/ hits = {} /\ NotFound /\ UNCHANGED p_node
          \/ consumer' = "call" /\ p_node' \in hits
       /\ UNCHANGED <<topic_list, msg_queue, allocated, producer, sent, p_msg, called>>

Callback ==
    /\ consumer = "call" /\ consumer' = "free"
    /\ called' = [msg   |-> p_msg,
                  topic |-> IF p_msg.chann_id = CallGroup THEN p_msg.topic_id
                            ELSE topic_list[p_msg.chann_id][p_node]]
    /\ p_node' = 0
    /\ UNCHANGED <<topic_list, msg_queue, allocated, producer, sent, p_msg>>

FreeSkipped ==
    /\ consumer = "free" /\ consumer' = "pop"
    /\ allocated' = IF called # None /\ called.msg = p_msg THEN allocated - 1 ELSE allocated
    /\ p_msg' = None
    /\ UNCHANGED <<topic_list, msg_queue, producer, sent, p_node, called>>
Free ==
    /\ consumer = "free" /\ consumer' = "pop"
    /\ allocated' = allocated - 1
    /\ p_msg' = None
    /\ UNCHANGED <<topic_list, msg_queue, producer, sent, p_node, called>>

----------------------------------------------------------------------------
Consume == Pop \/ Search \/ Callback \/ Free

Next == \/ \E p \in Producers : Produce(p) \/ Push(p)
        \/ \E c \in Channels, i \in Topics : Register(c, i)
        \/ Sort \/ Consume

Spec == Init /\ [][Next]_vars

\* A task that is in a call goes on.
FairSpec == Spec /\ WF_vars(Consume) /\ \A p \in Producers : WF_vars(Push(p))

----------------------------------------------------------------------------
InConsumer == IF p_msg = None THEN {} ELSE {p_msg}
Queued     == {msg_queue[i] : i \in DOMAIN msg_queue}

TypeOK ==
    /\ topic_list \in [Channels -> Seq(Topics)]
    /\ msg_queue \in Seq(Messages)
    /\ allocated \in 0 .. Heap
    /\ producer \in [Producers -> Messages \cup {None}]
    /\ sent \in [Producers -> 0 .. MaxSent]
    /\ consumer \in {"pop", "search", "call", "free"}
    /\ p_msg \in Messages \cup {None}
    /\ p_node \in 0 .. Depth
    /\ called \in [msg : Messages, topic : Topics] \cup {None}

\* Every allocated node is on its way into the queue, in it, or with the
\* consumer, and comes back to the heap whether or not its message found a
\* topic: a bus that runs for long keeps its memory.
NothingLeaks ==
    allocated = Len(msg_queue) + Cardinality(InConsumer)
                + Cardinality({p \in Producers : producer[p] # None})

\* The consumer gets what one producer queued in the order it queued it, each
\* message once, however the producers and the consumer interleave: along the
\* path of its messages (handled, queued, about to be pushed) the numbers rise,
\* and none is missing up to the last one the producer allocated.
Path(p) == [i \in 0 .. Len(msg_queue) + 1 |->
              CASE i = 0                  -> p_msg
                [] i \in DOMAIN msg_queue -> msg_queue[i]
                [] OTHER                  -> producer[p]]
Own(p)  == {i \in DOMAIN Path(p) : Path(p)[i] # None /\ Path(p)[i].from = p}
InOrder == \A p \in Producers :
    LET number == [i \in Own(p) |-> Path(p)[i].number]
    IN /\ \A i, j \in Own(p) : i < j => number[i] < number[j]
       /\ \A i \in Own(p) : \/ number[i] = sent[p]
                            \/ \E j \in Own(p) : number[j] = number[i] + 1

\* "Find topic and perform callback" (msg_bus.c:89): the callback is that of the
\* message's own topic, although the consumer reads it through a node it looked
\* up before, with no lock, while other tasks register topics.
OwnTopic == called # None => called.topic = called.msg.topic_id

\* A message that is produced is handled.
AllHandled == \A p \in Producers, n \in 1 .. MaxSent :
    producer[p] # None /\ producer[p].number = n ~>
        sent[p] >= n /\ \A i \in Own(p) : Path(p)[i].number > n
=============================================================================
