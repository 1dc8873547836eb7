---------------------------- MODULE MsgBusProofs ----------------------------
(***************************************************************************)
(* What holds of the message bus for any producers, channels, topics and   *)
(* sizes of the heap.                                                      *)
(***************************************************************************)
EXTENDS MsgBus, FiniteSetTheorems, SequenceTheorems, TLAPS

Producing == {p \in Producers : producer[p] # None}

Types ==
    /\ topic_list \in [Channels -> Seq(Topics)]
    /\ \A c \in Channels : Len(topic_list[c]) <= Depth
    /\ msg_queue \in Seq(Messages)
    /\ allocated \in Nat
    /\ producer \in [Producers -> Messages \cup {None}]
    /\ sent \in [Producers -> 0 .. MaxSent]
    /\ consumer \in {"pop", "search", "call", "free"}
    /\ p_msg \in Messages \cup {None}
    /\ p_node \in 0 .. Depth
    /\ called \in [msg : Messages, topic : Topics] \cup {None}

\* What the consumer has in hand at each place of mbus_consume_message.
Consuming ==
    /\ consumer = "pop" <=> p_msg = None
    /\ consumer = "search" => p_msg.chann_id \in Channels
    /\ consumer = "call" /\ p_msg.chann_id # CallGroup =>
         /\ p_node \in DOMAIN topic_list[p_msg.chann_id]
         /\ topic_list[p_msg.chann_id][p_node] = p_msg.topic_id

\* The memory of the heap is accounted for.
Memory == allocated <= Heap /\ NothingLeaks

Inv == Types /\ Consuming /\ Memory /\ OwnTopic

----------------------------------------------------------------------------
\* What a sort leaves is a list of the same length, of topics.
LEMMA SortedType ==
    ASSUME NEW list \in Seq(Topics), NEW s \in Sorted(list)
    PROVE  s \in Seq(Topics) /\ Len(s) = Len(list)
<1>1. PICK perm \in Injection(DOMAIN list, DOMAIN list) :
        s = [i \in DOMAIN list |-> list[perm[i]]]
  BY DEF Sorted
<1>2. perm \in [1 .. Len(list) -> 1 .. Len(list)] /\ Len(list) \in Nat
  BY <1>1, LenProperties DEF Injection
<1>3. s = [i \in 1 .. Len(list) |-> list[perm[i]]]
  BY <1>1
<1>4. \A i \in 1 .. Len(list) : list[perm[i]] \in Topics
  BY <1>2, ElementOfSeq
<1>5. s \in [1 .. Len(list) -> Topics]
  BY <1>3, <1>4
<1>. QED
  BY <1>2, <1>5

\* At the start the bus is empty.
LEMMA InitInv == Init => Inv
<1>. USE BusAssumption DEF Init
<1>1. Init => Types
  BY DEF Types
<1>2. Init => Consuming /\ OwnTopic
  BY DEF Consuming, OwnTopic
<1>3. ASSUME Init PROVE Memory
  <2>1. {p \in Producers : producer[p] # None} = {} /\ InConsumer = {}
    BY <1>3 DEF InConsumer
  <2>2. Len(msg_queue) = 0 /\ allocated = 0
    BY <1>3
  <2>3. Cardinality({p \in Producers : producer[p] # None}) = 0 /\ Cardinality(InConsumer) = 0
    BY <2>1, FS_EmptySet
  <2>. QED
    BY <2>2, <2>3 DEF Memory, NothingLeaks
<1>. QED
  BY <1>1, <1>2, <1>3 DEF Inv
----------------------------------------------------------------------------
\* The number of producers with a message in hand, and with the consumer, is one.
LEMMA Counts ==
    ASSUME Types
    PROVE  /\ IsFiniteSet(Producing) /\ Cardinality(Producing) \in Nat
           /\ Cardinality(InConsumer) = IF p_msg = None THEN 0 ELSE 1
<1>1. IsFiniteSet(Producing) /\ Cardinality(Producing) \in Nat
  <2>1. IsFiniteSet(Producers) /\ Producing \in SUBSET Producers
    BY BusAssumption DEF Producing
  <2>. QED
    BY <2>1, FS_Subset, FS_CardinalityType
<1>2. Cardinality(InConsumer) = IF p_msg = None THEN 0 ELSE 1
  BY FS_EmptySet, FS_Singleton DEF InConsumer
<1>. QED
  BY <1>1, <1>2

\* An allocation puts one node into one producer's hands.
LEMMA ProduceInv ==
    ASSUME Inv, NEW q \in Producers, Produce(q)
    PROVE  Inv'
<1>. USE BusAssumption DEF Inv
<1>1. PICK c \in Channels \cup {CallGroup}, i \in Topics :
        producer' = [producer EXCEPT ![q] =
            [from |-> q, number |-> sent[q] + 1, chann_id |-> c, topic_id |-> i]]
  BY DEF Produce
<1>. DEFINE m == [from |-> q, number |-> sent[q] + 1, chann_id |-> c, topic_id |-> i]
<1>2. m \in Messages /\ sent[q] + 1 \in 1 .. MaxSent
  BY DEF Produce, Types, Messages
<1>3. Types' /\ Consuming' /\ OwnTopic'
  <2>1. Types'
    BY <1>1, <1>2 DEF Produce, Types
  <2>2. Consuming' /\ OwnTopic'
    BY DEF Produce, Consuming, OwnTopic
  <2>. QED
    BY <2>1, <2>2
<1>4. Memory'
  <2>1. Producing' = Producing \cup {q} /\ q \notin Producing
    <3>1. m # None
      BY <1>2, NoneAssumption
    <3>2. producer' = [producer EXCEPT ![q] = m]
      BY <1>1
    <3>3. producer \in [Producers -> Messages \cup {None}]
      BY DEF Types
    <3>. HIDE DEF m
    <3>. QED
      BY <3>1, <3>2, <3>3 DEF Producing, Produce
  <2>2. Cardinality(Producing') = Cardinality(Producing) + 1
    BY <2>1, Counts, FS_AddElement
  <2>3. InConsumer' = InConsumer /\ msg_queue' = msg_queue /\ allocated' = allocated + 1
    BY DEF Produce, InConsumer
  <2>4. Len(msg_queue) \in Nat /\ allocated < Heap
    BY LenProperties DEF Types, Produce, HasMemory
  <2>. QED
    BY <2>2, <2>3, <2>4, Counts DEF Memory, NothingLeaks, Producing, Types
<1>. QED
  BY <1>3, <1>4

\* A push moves it on into the queue.
LEMMA PushInv ==
    ASSUME Inv, NEW q \in Producers, Push(q)
    PROVE  Inv'
<1>. USE BusAssumption DEF Inv
<1>1. /\ producer[q] \in Messages
      /\ msg_queue' \in Seq(Messages)
      /\ Len(msg_queue') = Len(msg_queue) + 1
      /\ Len(msg_queue) \in Nat
  BY AppendProperties, LenProperties DEF Push, AtTail, Types
<1>2. Types'
  BY <1>1 DEF Push, Types
<1>3. Consuming' /\ OwnTopic'
  BY DEF Push, Consuming, OwnTopic
<1>4. Memory'
  <2>1. Producing' = Producing \ {q} /\ q \in Producing
    BY DEF Producing, Push, Types
  <2>2. Cardinality(Producing') = Cardinality(Producing) - 1
    BY <2>1, Counts, FS_RemoveElement
  <2>3. InConsumer' = InConsumer /\ allocated' = allocated
    BY DEF Push, InConsumer
  <2>. QED
    BY <1>1, <2>2, <2>3, Counts DEF Memory, NothingLeaks, Producing, Types
<1>. QED
  BY <1>2, <1>3, <1>4

\* A topic is added behind the others, so the consumer's node stays its own.
LEMMA RegisterInv ==
    ASSUME Inv, NEW c \in Channels, NEW i \in Topics, Register(c, i)
    PROVE  Inv'
<1>. USE BusAssumption DEF Inv
<1>1. topic_list[c] \in Seq(Topics)
  BY DEF Types
<1>. DEFINE list == Append(topic_list[c], i)
<1>2. /\ list \in Seq(Topics)
      /\ Len(list) = Len(topic_list[c]) + 1
      /\ \A n \in 1 .. Len(topic_list[c]) : list[n] = topic_list[c][n]
      /\ DOMAIN topic_list[c] = 1 .. Len(topic_list[c]) /\ Len(topic_list[c]) \in Nat
      /\ DOMAIN list = 1 .. Len(list)
  BY <1>1, AppendProperties, LenProperties
<1>3. topic_list' = [topic_list EXCEPT ![c] = list] /\ Len(topic_list[c]) < Depth
  BY DEF Register, Filled
<1>. HIDE DEF list
<1>4. Types'
  BY <1>2, <1>3 DEF Register, Types
<1>5. Consuming' /\ OwnTopic'
  <2>1. \A d \in Channels : \A n : n \in DOMAIN topic_list[d] =>
          n \in DOMAIN topic_list'[d] /\ topic_list'[d][n] = topic_list[d][n]
    BY <1>2, <1>3 DEF Types
  <2>2. consumer = "call" /\ p_msg.chann_id # CallGroup => p_msg.chann_id \in Channels
    BY DEF Consuming, Types, Messages
  <2>. QED
    BY <2>1, <2>2 DEF Consuming, OwnTopic, Register
<1>6. Memory'
  BY DEF Register, Memory, NothingLeaks, InConsumer
<1>. QED
  BY <1>4, <1>5, <1>6

\* A sort comes when the consumer has no node in hand.
LEMMA SortInv ==
    ASSUME Inv, Sort
    PROVE  Inv'
<1>. USE BusAssumption DEF Inv
<1>1. /\ topic_list' \in [Channels -> UNION {Sorted(topic_list[c]) : c \in Channels}]
      /\ \A c \in Channels : topic_list'[c] \in Sorted(topic_list[c])
  BY DEF Sort
<1>2. \A c \in Channels : topic_list'[c] \in Seq(Topics)
                           /\ Len(topic_list'[c]) = Len(topic_list[c])
  BY <1>1, SortedType DEF Types
<1>3. Types'
  <2>1. topic_list' \in [Channels -> Seq(Topics)]
    BY <1>1, <1>2
  <2>. QED
    BY <1>2, <2>1 DEF Types, Sort
<1>4. Consuming' /\ OwnTopic' /\ Memory'
  BY DEF Consuming, OwnTopic, Memory, NothingLeaks, InConsumer, Sort
<1>. QED
  BY <1>3, <1>4

\* A pop takes one node out of the queue into the consumer's hands.
LEMMA PopInv ==
    ASSUME Inv, Pop
    PROVE  Inv'
<1>. USE BusAssumption DEF Inv
<1>1. /\ Head(msg_queue) \in Messages
      /\ Tail(msg_queue) \in Seq(Messages)
      /\ Len(Tail(msg_queue)) = Len(msg_queue) - 1
      /\ Len(msg_queue) \in Nat
  BY HeadTailProperties, LenProperties DEF Pop, Types
<1>2. p_msg = None /\ p_msg' = Head(msg_queue) /\ p_msg' # None
  BY <1>1, NoneAssumption DEF Pop, Consuming
<1>3. Types'
  BY <1>1, <1>2 DEF Pop, Types
<1>4. Consuming' /\ OwnTopic'
  BY <1>1, <1>2 DEF Pop, Consuming, OwnTopic, Messages
<1>5. Memory'
  <2>1. Cardinality(InConsumer)' = 1 /\ Cardinality(InConsumer) = 0
    BY <1>2, FS_Singleton, FS_EmptySet DEF InConsumer
  <2>2. producer' = producer /\ allocated' = allocated /\ msg_queue' = Tail(msg_queue)
    BY DEF Pop
  <2>. QED
    BY <1>1, <2>1, <2>2, Counts DEF Memory, NothingLeaks, Types, Producing
<1>. QED
  BY <1>3, <1>4, <1>5

\* A search finds a node of the message's topic, or none.
LEMMA SearchInv ==
    ASSUME Inv, Search
    PROVE  Inv'
<1>. USE BusAssumption DEF Inv
<1>1. p_msg # None /\ p_msg \in Messages /\ p_msg.chann_id \in Channels
  BY DEF Search, Consuming, Types
<1>2. topic_list[p_msg.chann_id] \in Seq(Topics) /\ Len(topic_list[p_msg.chann_id]) <= Depth
  BY <1>1 DEF Types
<1>3. /\ DOMAIN topic_list[p_msg.chann_id] = 1 .. Len(topic_list[p_msg.chann_id])
      /\ Len(topic_list[p_msg.chann_id]) \in Nat
  BY <1>2, LenProperties
<1>4. \/ consumer' = "free" /\ p_node' = p_node
      \/ /\ consumer' = "call" /\ p_node' \in 1 .. Len(topic_list[p_msg.chann_id])
         /\ topic_list[p_msg.chann_id][p_node'] = p_msg.topic_id
  BY DEF Search, NotFound
<1>5. Types'
  BY <1>2, <1>3, <1>4 DEF Search, Types
<1>6. Consuming' /\ OwnTopic' /\ Memory'
  BY <1>1, <1>3, <1>4 DEF Search, Consuming, OwnTopic, Memory, NothingLeaks, InConsumer
<1>. QED
  BY <1>5, <1>6

\* A callback is that of the message's topic.
LEMMA CallbackInv ==
    ASSUME Inv, Callback
    PROVE  Inv'
<1>. USE BusAssumption DEF Inv
<1>1. p_msg # None /\ p_msg \in Messages
  BY DEF Callback, Consuming, Types
<1>2. called' = [msg |-> p_msg, topic |-> p_msg.topic_id]
  BY DEF Callback, Consuming
<1>3. called' \in [msg : Messages, topic : Topics]
  BY <1>1, <1>2 DEF Messages
<1>4. Types'
  BY <1>3 DEF Callback, Types
<1>5. Consuming' /\ Memory'
  BY <1>1 DEF Callback, Consuming, Memory, NothingLeaks, InConsumer
<1>6. OwnTopic'
  BY <1>2 DEF OwnTopic
<1>. QED
  BY <1>4, <1>5, <1>6

\* linked_list_free_node gives the node back, whether a topic was found or not.
LEMMA FreeInv ==
    ASSUME Inv, Free
    PROVE  Inv'
<1>. USE BusAssumption DEF Inv
<1>1. p_msg # None /\ p_msg' = None
  BY DEF Free, Consuming
<1>2. Cardinality(InConsumer)' = 0 /\ Cardinality(InConsumer) = 1
  BY <1>1, FS_Singleton, FS_EmptySet DEF InConsumer
<1>3. Len(msg_queue) \in Nat
  BY LenProperties DEF Types
<1>4. /\ producer' = producer /\ allocated' = allocated - 1 /\ msg_queue' = msg_queue
      /\ allocated - 1 \in Nat
  BY <1>2, <1>3, Counts DEF Free, Memory, NothingLeaks, Types, Producing
<1>5. Types'
  BY <1>4 DEF Free, Types
<1>6. Consuming' /\ OwnTopic'
  BY <1>1 DEF Free, Consuming, OwnTopic
<1>7. Memory'
  BY <1>2, <1>3, <1>4, Counts DEF Memory, NothingLeaks, Types, Producing
<1>. QED
  BY <1>5, <1>6, <1>7

\* A step that changes nothing changes nothing of this.
LEMMA StutterInv ==
    ASSUME Inv, UNCHANGED vars
    PROVE  Inv'
BY DEF vars, Inv, Types, Consuming, Memory, NothingLeaks, InConsumer, OwnTopic

\* Every step keeps the invariant.
LEMMA InvStep == Inv /\ [Next]_vars => Inv'
<1>. SUFFICES ASSUME Inv, [Next]_vars PROVE Inv'
  OBVIOUS
<1>1. CASE \E q \in Producers : Produce(q)
  BY <1>1, ProduceInv
<1>2. CASE \E q \in Producers : Push(q)
  BY <1>2, PushInv
<1>3. CASE \E c \in Channels, i \in Topics : Register(c, i)
  BY <1>3, RegisterInv
<1>4. CASE Sort
  BY <1>4, SortInv
<1>5. CASE Consume
  BY <1>5, PopInv, SearchInv, CallbackInv, FreeInv DEF Consume
<1>6. CASE UNCHANGED vars
  BY <1>6, StutterInv
<1>. QED
  BY <1>1, <1>2, <1>3, <1>4, <1>5, <1>6 DEF Next

\* So every reachable state has it.
LEMMA InvAlways == Spec => []Inv
BY InitInv, InvStep, PTL DEF Spec

\* The variables keep their types: a list of topics never grows beyond its
\* depth, nor the number of allocated nodes beyond the heap or below zero.
THEOREM TypeCorrect == Spec => []TypeOK
<1>1. Inv => TypeOK
  BY BusAssumption DEF Inv, Types, Memory, TypeOK
<1>. QED
  BY <1>1, InvAlways, PTL

\* However many producers there are, every allocated node is with a producer, in
\* the queue or with the consumer, whether its message has a topic or not.
THEOREM MemoryCorrect == Spec => []NothingLeaks
<1>1. Inv => NothingLeaks
  BY DEF Inv, Memory
<1>. QED
  BY <1>1, InvAlways, PTL

\* A message reaches the callback of its own topic, whatever any tasks register
\* while it is handled.
THEOREM TopicCorrect == Spec => []OwnTopic
<1>1. Inv => OwnTopic
  BY DEF Inv
<1>. QED
  BY <1>1, InvAlways, PTL
----------------------------------------------------------------------------
\* The places of a path: the consumer, the queue, the producer.
LEMMA Places ==
    ASSUME Types, NEW p \in Producers
    PROVE  /\ DOMAIN Path(p) = 0 .. Len(msg_queue) + 1
           /\ Len(msg_queue) \in Nat
           /\ Path(p)[0] = p_msg
           /\ \A i \in 1 .. Len(msg_queue) : Path(p)[i] = msg_queue[i]
           /\ Path(p)[Len(msg_queue) + 1] = producer[p]
           /\ \A i \in Own(p) : Path(p)[i].number \in Nat
<1>1. Len(msg_queue) \in Nat /\ DOMAIN msg_queue = 1 .. Len(msg_queue)
  BY LenProperties DEF Types
<1>2. /\ DOMAIN Path(p) = 0 .. Len(msg_queue) + 1
      /\ Path(p)[0] = p_msg
      /\ \A i \in 1 .. Len(msg_queue) : Path(p)[i] = msg_queue[i]
      /\ Path(p)[Len(msg_queue) + 1] = producer[p]
  BY <1>1 DEF Path
<1>3. \A i \in Own(p) : Path(p)[i] \in Messages
  <2>1. \A i \in 1 .. Len(msg_queue) : msg_queue[i] \in Messages
    BY ElementOfSeq DEF Types
  <2>. QED
    BY <1>1, <1>2, <2>1 DEF Own, Types
<1>. QED
  BY <1>1, <1>2, <1>3 DEF Messages

\* The property without its abbreviation, for one producer.
Rises(p) ==
    /\ \A i, j \in Own(p) : i < j => Path(p)[i].number < Path(p)[j].number
    /\ \A i \in Own(p) : \/ Path(p)[i].number = sent[p]
                         \/ \E j \in Own(p) : Path(p)[j].number = Path(p)[i].number + 1

\* It says the same.
LEMMA RisesIsInOrder == InOrder <=> \A p \in Producers : Rises(p)
BY DEF InOrder, Rises

\* No number is used before it is allocated.
Below == \A p \in Producers : \A i \in Own(p) : Path(p)[i].number <= sent[p]

\* A producer's hands hold its own messages.
Hands == \A p \in Producers : producer[p] # None =>
             producer[p].from = p /\ producer[p].number = sent[p]

Ordering == Inv /\ Below /\ Hands /\ \A p \in Producers : Rises(p)

\* At the start nothing has been sent.
LEMMA InitOrdering == Init => Ordering
<1>. SUFFICES ASSUME Init PROVE Ordering
  OBVIOUS
<1>1. Inv
  BY InitInv
<1>2. \A p \in Producers : Own(p) = {}
  BY <1>1, Places DEF Inv, Own, Init
<1>. QED
  BY <1>1, <1>2 DEF Ordering, Below, Hands, Rises, Init

\* What keeps each message of a path at its place keeps the order.
LEMMA SamePath ==
    ASSUME Ordering, NEW p \in Producers,
           Path(p)' = Path(p), sent'[p] = sent[p]
    PROVE  Rises(p)' /\ \A i \in Own(p)' : Path(p)'[i].number <= sent'[p]
BY DEF Ordering, Below, Rises, Own

\* A new message has a number above the others of its producer.
LEMMA ProduceOrdering ==
    ASSUME Ordering, NEW q \in Producers, Produce(q), Inv'
    PROVE  Ordering'
<1>. USE DEF Ordering
<1>1. PICK m \in Messages :
        /\ producer' = [producer EXCEPT ![q] = m]
        /\ m.from = q /\ m.number = sent[q] + 1
  <2>1. PICK c \in Channels \cup {CallGroup}, i \in Topics :
          producer' = [producer EXCEPT ![q] =
              [from |-> q, number |-> sent[q] + 1, chann_id |-> c, topic_id |-> i]]
    BY DEF Produce
  <2>2. sent[q] + 1 \in 1 .. MaxSent
    BY BusAssumption DEF Produce, Inv, Types
  <2>. DEFINE new == [from |-> q, number |-> sent[q] + 1, chann_id |-> c, topic_id |-> i]
  <2>3. new \in Messages /\ new.from = q /\ new.number = sent[q] + 1
    BY <2>2 DEF Messages
  <2>4. producer' = [producer EXCEPT ![q] = new]
    BY <2>1
  <2>. HIDE DEF new
  <2>. QED
    BY <2>3, <2>4
<1>2. /\ msg_queue' = msg_queue /\ p_msg' = p_msg /\ producer[q] = None
      /\ sent' = [sent EXCEPT ![q] = sent[q] + 1]
      /\ sent \in [Producers -> Nat] /\ producer \in [Producers -> Messages \cup {None}]
      /\ m # None
  BY BusAssumption, NoneAssumption DEF Produce, Inv, Types
<1>3. Hands'
  BY <1>1, <1>2 DEF Hands
<1>4. ASSUME NEW p \in Producers, p # q
      PROVE  Rises(p)' /\ \A i \in Own(p)' : Path(p)'[i].number <= sent'[p]
  <2>1. Path(p)' = Path(p)
    BY <1>1, <1>2, <1>4 DEF Path
  <2>. QED
    BY <1>2, <1>4, <2>1, SamePath
<1>. DEFINE last == Len(msg_queue) + 1
<1>5. /\ \A i \in 0 .. last - 1 : Path(q)'[i] = Path(q)[i]
      /\ Path(q)[last] = None /\ Path(q)'[last] = m
      /\ DOMAIN Path(q)' = 0 .. last /\ DOMAIN Path(q) = 0 .. last
      /\ last \in Nat \ {0}
  <2>1. /\ Path(q)[0] = p_msg /\ Path(q)[last] = producer[q]
        /\ \A i \in 1 .. last - 1 : Path(q)[i] = msg_queue[i]
        /\ DOMAIN Path(q) = 0 .. last /\ last \in Nat \ {0}
    BY Places DEF Inv
  <2>2. producer'[q] = m /\ DOMAIN msg_queue = 1 .. last - 1
    BY <1>1, <1>2, LenProperties DEF Inv, Types
  <2>3. /\ Path(q)'[0] = p_msg /\ Path(q)'[last] = m
        /\ \A i \in 1 .. last - 1 : Path(q)'[i] = msg_queue[i]
        /\ DOMAIN Path(q)' = 0 .. last
    BY <1>2, <2>1, <2>2 DEF Path
  <2>. QED
    BY <1>2, <2>1, <2>3
<1>. HIDE DEF last
<1>6. Own(q)' = Own(q) \cup {last} /\ last \notin Own(q)
  BY <1>1, <1>2, <1>5 DEF Own
<1>7. \A i \in Own(q) : /\ i < last /\ i \in 0 .. last - 1
                       /\ Path(q)[i].number \in Nat /\ Path(q)[i].number <= sent[q]
  <2>1. \A i \in Own(q) : i \in 0 .. last
    BY <1>5 DEF Own
  <2>. QED
    BY <1>5, <1>6, <2>1, Places DEF Below, Inv
<1>8. Rises(q)'
  <2>1. ASSUME NEW i \in Own(q)', NEW j \in Own(q)', i < j
        PROVE  Path(q)'[i].number < Path(q)'[j].number
    <3>1. i \in Own(q) /\ Path(q)'[i] = Path(q)[i]
      BY <1>5, <1>6, <1>7, <2>1
    <3>2. CASE j = last
      BY <1>1, <1>2, <1>5, <1>7, <3>1, <3>2
    <3>3. CASE j \in Own(q)
      <4>1. Path(q)[i].number < Path(q)[j].number
        BY <2>1, <3>1, <3>3 DEF Rises
      <4>2. Path(q)'[j] = Path(q)[j]
        BY <1>5, <1>7, <3>3
      <4>. QED
        BY <3>1, <4>1, <4>2
    <3>. QED
      BY <1>6, <3>2, <3>3
  <2>2. ASSUME NEW i \in Own(q)'
        PROVE  \/ Path(q)'[i].number = sent'[q]
               \/ \E j \in Own(q)' : Path(q)'[j].number = Path(q)'[i].number + 1
    <3>1. sent'[q] = sent[q] + 1 /\ Path(q)'[last].number = sent[q] + 1
      BY <1>1, <1>2, <1>5
    <3>2. CASE i = last
      BY <3>1, <3>2
    <3>3. CASE i \in Own(q)
      <4>1. Path(q)'[i] = Path(q)[i]
        BY <1>5, <1>7, <3>3
      <4>2. CASE Path(q)[i].number = sent[q]
        BY <1>6, <3>1, <4>1, <4>2
      <4>3. ASSUME NEW j \in Own(q), Path(q)[j].number = Path(q)[i].number + 1
            PROVE  j \in Own(q)' /\ Path(q)'[j].number = Path(q)'[i].number + 1
        BY <1>5, <1>6, <1>7, <4>1, <4>3
      <4>. QED
        BY <3>3, <4>2, <4>3 DEF Rises
    <3>. QED
      BY <1>6, <3>2, <3>3
  <2>. QED
    BY <2>1, <2>2 DEF Rises
<1>9. \A i \in Own(q)' : Path(q)'[i].number <= sent'[q]
  BY <1>1, <1>2, <1>5, <1>6, <1>7
<1>. QED
  BY <1>3, <1>4, <1>8, <1>9 DEF Below

\* A push moves a message from the end of its producer's path to the end of the
\* queue, which is the same place, and shifts the hands of the others.
LEMMA PushOrdering ==
    ASSUME Ordering, NEW q \in Producers, Push(q), Inv'
    PROVE  Ordering'
<1>. USE DEF Ordering
<1>. DEFINE last == Len(msg_queue) + 1
<1>1. /\ producer[q] \in Messages /\ producer[q] # None /\ producer[q].from = q
      /\ msg_queue' = Append(msg_queue, producer[q])
      /\ producer' = [producer EXCEPT ![q] = None] /\ sent' = sent /\ p_msg' = p_msg
      /\ producer \in [Producers -> Messages \cup {None}]
      /\ msg_queue \in Seq(Messages)
  BY DEF Push, AtTail, Inv, Types, Hands
<1>2. /\ Len(msg_queue') = last /\ last \in Nat \ {0}
      /\ \A i \in 1 .. last - 1 : msg_queue'[i] = msg_queue[i]
      /\ msg_queue'[last] = producer[q]
  BY <1>1, AppendProperties, LenProperties
<1>3. ASSUME NEW p \in Producers
      PROVE  /\ \A i \in 0 .. last - 1 : Path(p)'[i] = Path(p)[i]
             /\ Path(p)'[last] = producer[q] /\ Path(p)'[last + 1] = producer'[p]
             /\ Path(p)[last] = producer[p]
             /\ DOMAIN Path(p) = 0 .. last /\ DOMAIN Path(p)' = 0 .. last + 1
  <2>1. /\ DOMAIN Path(p) = 0 .. last /\ Path(p)[0] = p_msg
        /\ \A i \in 1 .. last - 1 : Path(p)[i] = msg_queue[i]
        /\ Path(p)[last] = producer[p]
    BY <1>2, Places DEF Inv
  <2>2. /\ DOMAIN Path(p)' = 0 .. last + 1 /\ Path(p)'[0] = p_msg'
        /\ \A i \in 1 .. last : Path(p)'[i] = msg_queue'[i]
        /\ Path(p)'[last + 1] = producer'[p]
    <3>1. DOMAIN msg_queue' = 1 .. last
      BY <1>2, LenProperties DEF Inv, Types
    <3>. QED
      BY <1>2, <3>1 DEF Path
  <2>3. \A i \in 0 .. last - 1 : Path(p)'[i] = Path(p)[i]
    BY <1>1, <1>2, <2>1, <2>2
  <2>. QED
    BY <1>1, <1>2, <2>1, <2>2, <2>3
<1>. HIDE DEF last
<1>4. Hands'
  BY <1>1 DEF Hands
<1>5. Rises(q)' /\ \A i \in Own(q)' : Path(q)'[i].number <= sent'[q]
  <2>1. producer'[q] = None
    BY <1>1
  <2>2. \A i \in 0 .. last : Path(q)'[i] = Path(q)[i]
    BY <1>2, <1>3
  <2>3. Own(q)' = Own(q) /\ \A i \in Own(q) : Path(q)'[i] = Path(q)[i]
    BY <1>2, <1>3, <2>1, <2>2 DEF Own
  <2>. QED
    BY <1>1, <2>3 DEF Rises, Below
<1>6. ASSUME NEW p \in Producers, p # q
      PROVE  Rises(p)' /\ \A i \in Own(p)' : Path(p)'[i].number <= sent'[p]
  <2>1. \A i \in Own(p)' : i \in 0 .. last - 1 \/ i = last + 1
    BY <1>1, <1>2, <1>3, <1>6 DEF Own
  <2>2. \A i \in Own(p) : i \in 0 .. last
    BY <1>3 DEF Own
  <2>3. /\ \A i \in 0 .. last - 1 : i \in Own(p)' <=> i \in Own(p)
        /\ last + 1 \in Own(p)' <=> last \in Own(p)
    <3>1. producer'[p] = producer[p]
      BY <1>1, <1>6
    <3>. QED
      BY <1>2, <1>3, <3>1 DEF Own
  <2>4. Path(p)'[last + 1] = Path(p)[last]
    BY <1>1, <1>3, <1>6
  <2>5. /\ \A i, j \in Own(p) : i < j => Path(p)[i].number < Path(p)[j].number
        /\ \A i \in Own(p) : Path(p)[i].number <= sent[p]
        /\ \A i \in Own(p) : \/ Path(p)[i].number = sent[p]
                             \/ \E j \in Own(p) : Path(p)[j].number = Path(p)[i].number + 1
    BY DEF Rises, Below
  <2>. DEFINE was(i) == IF i = last + 1 THEN last ELSE i
  <2>. HIDE DEF last
  <2>6. ASSUME NEW i \in Own(p)'
        PROVE  was(i) \in Own(p) /\ Path(p)'[i] = Path(p)[was(i)]
    BY <1>2, <1>3, <2>1, <2>3, <2>4, <2>6
  <2>7. ASSUME NEW i \in Own(p)', NEW j \in Own(p)', i < j
        PROVE  Path(p)'[i].number < Path(p)'[j].number
    <3>1. was(i) < was(j)
      BY <1>2, <2>1, <2>7
    <3>. QED
      BY <2>5, <2>7, <2>6, <3>1
  <2>8. ASSUME NEW i \in Own(p)'
        PROVE  \/ Path(p)'[i].number = sent'[p]
               \/ \E j \in Own(p)' : Path(p)'[j].number = Path(p)'[i].number + 1
    <3>1. PICK k \in Own(p) : Path(p)'[i] = Path(p)[k]
      BY <1>2, <1>3, <2>1, <2>3, <2>4, <2>8
    <3>2. ASSUME NEW j \in Own(p) PROVE \E l \in Own(p)' : Path(p)'[l] = Path(p)[j]
      BY <1>2, <1>3, <2>2, <2>3, <2>4, <3>2
    <3>. QED
      BY <1>1, <2>5, <3>1, <3>2
  <2>9. \A i \in Own(p)' : Path(p)'[i].number <= sent'[p]
    BY <1>1, <2>5, <2>6
  <2>. QED
    BY <2>7, <2>8, <2>9 DEF Rises
<1>. QED
  BY <1>4, <1>5, <1>6 DEF Below
\* A pop moves every message of a path one place on.
LEMMA PopOrdering ==
    ASSUME Ordering, Pop, Inv'
    PROVE  Ordering'
<1>. USE DEF Ordering
<1>. DEFINE len == Len(msg_queue)
<1>1. /\ p_msg = None /\ p_msg' = Head(msg_queue) /\ msg_queue' = Tail(msg_queue)
      /\ msg_queue \in Seq(Messages) /\ msg_queue # <<>>
      /\ producer' = producer /\ sent' = sent
  BY DEF Pop, Inv, Types, Consuming
<1>2. /\ len \in Nat \ {0} /\ Len(msg_queue') = len - 1
      /\ DOMAIN msg_queue' = 1 .. len - 1
      /\ \A i \in 1 .. len - 1 : msg_queue'[i] = msg_queue[i + 1]
      /\ p_msg' = msg_queue[1]
  BY <1>1, HeadTailProperties, LenProperties, EmptySeq
<1>3. Hands'
  BY <1>1 DEF Hands
<1>4. ASSUME NEW p \in Producers
      PROVE  /\ DOMAIN Path(p) = 0 .. len + 1 /\ DOMAIN Path(p)' = 0 .. len
             /\ \A i \in 0 .. len : Path(p)'[i] = Path(p)[i + 1]
             /\ Path(p)[0] = None
  <2>1. /\ DOMAIN Path(p) = 0 .. len + 1 /\ Path(p)[0] = p_msg
        /\ \A i \in 1 .. len : Path(p)[i] = msg_queue[i]
        /\ Path(p)[len + 1] = producer[p]
    BY Places DEF Inv
  <2>2. /\ DOMAIN Path(p)' = 0 .. len /\ Path(p)'[0] = p_msg'
        /\ \A i \in 1 .. len - 1 : Path(p)'[i] = msg_queue'[i]
        /\ Path(p)'[len] = producer'[p]
    BY <1>2 DEF Path
  <2>. QED
    BY <1>1, <1>2, <2>1, <2>2
<1>. HIDE DEF len
<1>5. ASSUME NEW p \in Producers
      PROVE  Rises(p)' /\ \A i \in Own(p)' : Path(p)'[i].number <= sent'[p]
  <2>1. \A i \in Own(p)' : i \in 0 .. len /\ i + 1 \in Own(p) /\ Path(p)'[i] = Path(p)[i + 1]
    BY <1>2, <1>4 DEF Own
  <2>2. \A i \in Own(p) : i - 1 \in Own(p)' /\ Path(p)'[i - 1] = Path(p)[i]
    <3>1. ASSUME NEW i \in Own(p) PROVE i \in 1 .. len + 1
      BY <1>2, <1>4, <3>1 DEF Own
    <3>2. ASSUME NEW i \in Own(p) PROVE Path(p)'[i - 1] = Path(p)[i] /\ i - 1 \in 0 .. len
      <4>1. i - 1 \in 0 .. len /\ (i - 1) + 1 = i
        BY <1>2, <3>1
      <4>. QED
        BY <1>4, <4>1
    <3>. QED
      BY <1>4, <3>2 DEF Own
  <2>3. /\ \A i, j \in Own(p) : i < j => Path(p)[i].number < Path(p)[j].number
        /\ \A i \in Own(p) : Path(p)[i].number <= sent[p]
        /\ \A i \in Own(p) : \/ Path(p)[i].number = sent[p]
                             \/ \E j \in Own(p) : Path(p)[j].number = Path(p)[i].number + 1
    BY DEF Rises, Below
  <2>4. ASSUME NEW i \in Own(p)', NEW j \in Own(p)', i < j
        PROVE  Path(p)'[i].number < Path(p)'[j].number
    <3>1. i + 1 < j + 1
      BY <1>2, <2>1, <2>4
    <3>. QED
      BY <2>1, <2>3, <2>4, <3>1
  <2>5. ASSUME NEW i \in Own(p)'
        PROVE  \/ Path(p)'[i].number = sent'[p]
               \/ \E j \in Own(p)' : Path(p)'[j].number = Path(p)'[i].number + 1
    <3>1. i + 1 \in Own(p) /\ Path(p)'[i] = Path(p)[i + 1]
      BY <2>1
    <3>2. CASE Path(p)[i + 1].number = sent[p]
      BY <1>1, <3>1, <3>2
    <3>3. ASSUME NEW j \in Own(p), Path(p)[j].number = Path(p)[i + 1].number + 1
          PROVE  j - 1 \in Own(p)' /\ Path(p)'[j - 1].number = Path(p)'[i].number + 1
      BY <2>2, <3>1, <3>3
    <3>. QED
      BY <2>3, <3>1, <3>2, <3>3
  <2>6. \A i \in Own(p)' : Path(p)'[i].number <= sent'[p]
    BY <1>1, <2>1, <2>3
  <2>. QED
    BY <2>4, <2>5, <2>6 DEF Rises
<1>. QED
  BY <1>3, <1>5 DEF Below

\* The message that is freed is the first of its path, and no other leads to it.
LEMMA FreeOrdering ==
    ASSUME Ordering, Free, Inv'
    PROVE  Ordering'
<1>. USE DEF Ordering
<1>1. /\ p_msg' = None /\ msg_queue' = msg_queue /\ producer' = producer /\ sent' = sent
  BY DEF Free
<1>2. Hands'
  BY <1>1 DEF Hands
<1>3. ASSUME NEW p \in Producers
      PROVE  Rises(p)' /\ \A i \in Own(p)' : Path(p)'[i].number <= sent'[p]
  <2>. DEFINE last == Len(msg_queue) + 1
  <2>1. DOMAIN Path(p) = 0 .. last /\ last \in Nat \ {0}
    BY Places DEF Inv
  <2>2. /\ DOMAIN Path(p)' = 0 .. last /\ Path(p)'[0] = None
        /\ \A i \in 1 .. last : Path(p)'[i] = Path(p)[i]
    BY <1>1, <2>1 DEF Path
  <2>. HIDE DEF last
  <2>3. \A i : i \in Own(p)' <=> i \in Own(p) /\ i # 0
    BY <2>1, <2>2 DEF Own
  <2>4. \A i \in Own(p)' : i \in 1 .. last /\ Path(p)'[i] = Path(p)[i]
    BY <2>1, <2>2, <2>3 DEF Own
  <2>5. /\ \A i, j \in Own(p) : i < j => Path(p)[i].number < Path(p)[j].number
        /\ \A i \in Own(p) : Path(p)[i].number <= sent[p]
        /\ \A i \in Own(p) : \/ Path(p)[i].number = sent[p]
                             \/ \E j \in Own(p) : Path(p)[j].number = Path(p)[i].number + 1
        /\ \A i \in Own(p) : Path(p)[i].number \in Nat
    BY Places DEF Rises, Below, Inv
  <2>6. ASSUME NEW i \in Own(p)', NEW j \in Own(p), Path(p)[j].number = Path(p)[i].number + 1
        PROVE  j \in Own(p)'
    <3>1. CASE j = 0
      <4>1. Path(p)[j].number < Path(p)[i].number
        BY <2>3, <2>4, <2>5, <3>1
      <4>. QED
        BY <2>3, <2>5, <2>6, <4>1
    <3>. QED
      BY <2>3, <3>1
  <2>7. Rises(p)'
    <3>1. \A i, j \in Own(p)' : i < j => Path(p)'[i].number < Path(p)'[j].number
      BY <2>3, <2>4, <2>5
    <3>2. \A i \in Own(p)' : \/ Path(p)'[i].number = sent'[p]
                            \/ \E j \in Own(p)' : Path(p)'[j].number = Path(p)'[i].number + 1
      BY <1>1, <2>3, <2>4, <2>5, <2>6
    <3>. QED
      BY <3>1, <3>2 DEF Rises
  <2>8. \A i \in Own(p)' : Path(p)'[i].number <= sent'[p]
    BY <1>1, <2>3, <2>4, <2>5
  <2>. QED
    BY <2>7, <2>8
<1>. QED
  BY <1>2, <1>3 DEF Below

\* The other steps leave every path as it is.
LEMMA OtherOrdering ==
    ASSUME Ordering, Inv', UNCHANGED <<msg_queue, p_msg, producer, sent>>
    PROVE  Ordering'
<1>1. \A p \in Producers : Path(p)' = Path(p) /\ sent'[p] = sent[p]
  BY DEF Path
<1>2. Hands'
  BY DEF Hands, Ordering
<1>. QED
  BY <1>1, <1>2, SamePath DEF Ordering, Below

\* The consumer handles what each producer sent in the order it sent it, with no
\* message missing and none twice, for any number of producers.
THEOREM OrderCorrect == Spec => []InOrder
<1>1. Ordering /\ [Next]_vars => Ordering'
  <2>. SUFFICES ASSUME Ordering, [Next]_vars PROVE Ordering'
    OBVIOUS
  <2>1. Inv'
    BY InvStep DEF Ordering
  <2>2. CASE \E q \in Producers : Produce(q)
    BY <2>1, <2>2, ProduceOrdering
  <2>3. CASE \E q \in Producers : Push(q)
    BY <2>1, <2>3, PushOrdering
  <2>4. CASE \E c \in Channels, i \in Topics : Register(c, i)
    BY <2>1, <2>4, OtherOrdering DEF Register
  <2>5. CASE Sort
    BY <2>1, <2>5, OtherOrdering DEF Sort
  <2>6. CASE Pop \/ Free
    BY <2>1, <2>6, PopOrdering, FreeOrdering
  <2>7. CASE Search \/ Callback
    BY <2>1, <2>7, OtherOrdering DEF Search, Callback
  <2>8. CASE UNCHANGED vars
    BY <2>1, <2>8, OtherOrdering DEF vars
  <2>. QED
    BY <2>2, <2>3, <2>4, <2>5, <2>6, <2>7, <2>8 DEF Next, Consume
<1>2. Ordering => InOrder
  BY RisesIsInOrder DEF Ordering
<1>. QED
  BY <1>1, <1>2, InitOrdering, PTL DEF Spec
=============================================================================
