---------------------------- MODULE BleHostProofs ---------------------------
(***************************************************************************)
(* What holds of the host task for any handles, connections and length of  *)
(* the event queue.                                                        *)
(***************************************************************************)
EXTENDS BleHost, FunctionTheorems, FiniteSetTheorems, SequenceTheorems, TLAPS

Events == [event : EventKinds, handle : Handles]

\* An event of this kind waits.
Waits(e) == \E i \in DOMAIN events : events[i].event = e

----------------------------------------------------------------------------
\* A queued event is the last one.
LEMMA Queued ==
    ASSUME TypeOK, NEW e \in EventKinds, NEW h \in Handles, Queue(e, h)
    PROVE  /\ events' \in Seq(Events) /\ events \in Seq(Events)
           /\ DOMAIN events = 1 .. Len(events) /\ Len(events) \in Nat
           /\ DOMAIN events' = 1 .. Len(events) + 1
           /\ \A i \in DOMAIN events : events'[i] = events[i]
           /\ events'[Len(events) + 1] = Event(e, h)
           /\ events'[Len(events) + 1].event = e
<1>1. events \in Seq(Events) /\ Event(e, h) \in Events
  BY DEF TypeOK, Events, Event
<1>. QED
  BY <1>1, AppendProperties, LenProperties DEF Queue, Event

\* A handled event was the first, and the others move one place on.
LEMMA Handled ==
    ASSUME TypeOK, NEW e, Handle(e)
    PROVE  /\ events' \in Seq(Events) /\ events \in Seq(Events)
           /\ DOMAIN events = 1 .. Len(events) /\ Len(events) \in Nat \ {0}
           /\ DOMAIN events' = 1 .. Len(events) - 1
           /\ \A i \in 1 .. Len(events) - 1 : events'[i] = events[i + 1]
           /\ events[1].event = e /\ This = events[1].handle /\ This \in Handles
<1>1. events \in Seq(Events) /\ events # <<>>
  BY DEF TypeOK, Events, Handle
<1>2. events[1] \in Events /\ Head(events) = events[1] /\ Len(events) \in Nat \ {0}
  BY <1>1, EmptySeq, ElementOfSeq
<1>3. /\ events' \in Seq(Events)
      /\ Len(events') = Len(events) - 1
      /\ \A i \in 1 .. Len(events') : events'[i] = events[i + 1]
  BY <1>1, HeadTailProperties DEF Handle
<1>. QED
  BY <1>1, <1>2, <1>3, LenProperties DEF Handle, This, Events

\* At the start the stack is being initialised.
LEMMA InitType == Init => TypeOK
<1>. SUFFICES ASSUME Init PROVE TypeOK
  OBVIOUS
<1>1. events \in Seq([event : EventKinds, handle : Handles])
  BY EmptySeq DEF Init
<1>2. links \in [Nodes -> Handles \cup {NULL}]
  BY DEF Init
<1>. QED
  BY <1>1, <1>2 DEF Init, TypeOK, HostStates

\* The variables keep their types.
LEMMA TypeStep == TypeOK /\ [Next]_vars => TypeOK'
<1>. SUFFICES ASSUME TypeOK, [Next]_vars PROVE TypeOK'
  OBVIOUS
<1>. USE DEF HostStates
<1>1. CASE Stack
  <2>1. PICK h \in Handles : Connect(h) \/ Disconnect(h) \/ Report(h)
    BY <1>1 DEF Stack
  <2>2. PICK e \in EventKinds : Queue(e, h)
    BY <2>1 DEF Connect, Disconnect, Report, EventKinds
  <2>3. events' \in Seq(Events)
    BY <2>2, Queued
  <2>. QED
    BY <2>1, <2>3 DEF TypeOK, Connect, Disconnect, Report, Events
<1>2. CASE StackInitDone \/ AdvStart \/ AdvStop
  BY <1>2 DEF TypeOK, StackInitDone, AdvStart, AdvStop
<1>3. ASSUME NEW e, Handle(e),
             Established \/ Terminated \/ ParamUpdateReq \/ PairState
      PROVE  TypeOK'
  <2>1. events' \in Seq(Events) /\ This \in Handles
    BY <1>3, Handled
  <2>2. links' \in [Nodes -> Handles \cup {NULL}]
    BY <1>3, <2>1 DEF TypeOK, Established, Terminated, ParamUpdateReq, PairState,
                      ble_link_add, ble_link_remove
  <2>3. host' \in HostStates
    BY <1>3 DEF TypeOK, Established, Terminated, ParamUpdateReq, PairState
  <2>. QED
    BY <1>3, <2>1, <2>2, <2>3 DEF TypeOK, Handle, Events
<1>4. CASE Established \/ Terminated \/ ParamUpdateReq \/ PairState
  BY <1>3, <1>4 DEF Established, Terminated, ParamUpdateReq, PairState
<1>5. CASE UNCHANGED vars
  BY <1>5 DEF TypeOK, vars
<1>. QED
  BY <1>1, <1>2, <1>4, <1>5 DEF Next, HostStep

\* The variables keep their types, for any table and queue.
THEOREM TypeCorrect == Spec => []TypeOK
BY InitType, TypeStep, PTL DEF Spec

----------------------------------------------------------------------------
\* The stack has at most as many connections as it allows.
Bounded == IsFiniteSet(active) /\ Cardinality(active) <= NumConns

\* With no connection left, an established event waits behind every terminated
\* one, and before a command to advertise.
Stopping ==
    ~Room =>
        /\ \A i \in DOMAIN events : events[i].event = "terminated" =>
             \E j \in DOMAIN events : i < j /\ events[j].event = "established"
        /\ host = "adv_start" => Waits("established")
        /\ adv => Waits("established") \/ host = "adv_stop"

\* With a connection left, something will make the host task advertise.
Starting ==
    Room =>
        /\ host = "adv_stop" => Waits("terminated")
        /\ ~adv => \/ Waits("terminated") \/ Waits("established")
                   \/ host \in {"init", "adv_start", "fault"}

\* Nothing connects before the first ble_adv_start.
Early == host = "init" => ~adv /\ Room

AdvInv == TypeOK /\ Bounded /\ Early /\ Stopping /\ Starting

\* Room, after a connection comes or goes.
LEMMA RoomAfter ==
    ASSUME Bounded, NEW h
    PROVE  /\ h \notin active /\ Room =>
                /\ IsFiniteSet(active \cup {h})
                /\ Cardinality(active \cup {h}) <= NumConns
           /\ h \in active =>
                /\ IsFiniteSet(active \ {h})
                /\ Cardinality(active \ {h}) < NumConns
<1>1. Cardinality(active) \in Nat /\ NumConns \in Nat
  BY FS_CardinalityType, HostAssumption DEF Bounded
<1>2. IsFiniteSet(active \cup {h}) /\ IsFiniteSet(active \ {h})
  BY FS_AddElement, FS_RemoveElement DEF Bounded
<1>3. h \notin active => Cardinality(active \cup {h}) = Cardinality(active) + 1
  BY FS_AddElement DEF Bounded
<1>4. h \in active => Cardinality(active \ {h}) = Cardinality(active) - 1
  BY FS_RemoveElement DEF Bounded
<1>. QED
  BY <1>1, <1>2, <1>3, <1>4 DEF Bounded, Room

\* At the start there is room and nothing to handle.
LEMMA InitAdv == Init => AdvInv
<1>. SUFFICES ASSUME Init PROVE AdvInv
  OBVIOUS
<1>1. Cardinality(active) = 0 /\ IsFiniteSet(active)
  BY FS_EmptySet DEF Init
<1>2. Bounded /\ Room
  BY <1>1, HostAssumption DEF Bounded, Room
<1>. QED
  BY <1>2, InitType DEF AdvInv, Early, Stopping, Starting, Init

\* A connection ends the advertising and queues its event behind the others.
LEMMA ConnectAdv ==
    ASSUME AdvInv, TypeOK', NEW h \in Handles, Connect(h)
    PROVE  AdvInv'
<1>. USE DEF AdvInv
<1>1. /\ DOMAIN events = 1 .. Len(events) /\ Len(events) \in Nat
      /\ DOMAIN events' = 1 .. Len(events) + 1
      /\ \A i \in DOMAIN events : events'[i] = events[i]
      /\ events'[Len(events) + 1].event = "established"
  <2>1. "established" \in EventKinds /\ Queue("established", h)
    BY DEF EventKinds, Connect
  <2>. QED
    BY <2>1, Queued
<1>2. Bounded'
  BY RoomAfter DEF Connect, Bounded
<1>3. Waits("established")' /\ adv' = FALSE /\ host' = host
  BY <1>1 DEF Waits, Connect
<1>4. Stopping'
  <2>1. ASSUME NEW i \in DOMAIN events', events'[i].event = "terminated"
        PROVE  \E j \in DOMAIN events' : i < j /\ events'[j].event = "established"
    <3>1. i # Len(events) + 1
      BY <1>1, <2>1
    <3>. QED
      BY <1>1, <3>1
  <2>. QED
    BY <1>3, <2>1 DEF Stopping
<1>5. Starting'
  <2>1. Room /\ (Waits("terminated") => Waits("terminated")')
    BY <1>1 DEF Connect, Waits
  <2>. QED
    BY <1>3, <2>1 DEF Starting
<1>6. Early'
  BY DEF Early, Connect
<1>. QED
  BY <1>2, <1>4, <1>5, <1>6

\* A connection that ends leaves room and queues its event.
LEMMA DisconnectAdv ==
    ASSUME AdvInv, TypeOK', NEW h \in Handles, Disconnect(h)
    PROVE  AdvInv'
<1>. USE DEF AdvInv
<1>1. /\ Len(events) \in Nat /\ DOMAIN events' = 1 .. Len(events) + 1
      /\ events'[Len(events) + 1].event = "terminated"
  <2>1. "terminated" \in EventKinds /\ Queue("terminated", h)
    BY DEF EventKinds, Disconnect
  <2>. QED
    BY <2>1, Queued
<1>2. IsFiniteSet(active') /\ Cardinality(active') < NumConns
  BY RoomAfter DEF Disconnect
<1>3. Bounded' /\ Room'
  <2>1. Cardinality(active') \in Nat /\ NumConns \in Nat
    BY <1>2, FS_CardinalityType, HostAssumption
  <2>. QED
    BY <1>2, <2>1 DEF Bounded, Room
<1>4. Waits("terminated")'
  BY <1>1 DEF Waits
<1>. QED
  BY <1>3, <1>4 DEF Stopping, Starting, Early, Disconnect

\* A report changes no connection.
LEMMA ReportAdv ==
    ASSUME AdvInv, TypeOK', NEW h \in Handles, Report(h)
    PROVE  AdvInv'
<1>. USE DEF AdvInv
<1>1. PICK e \in {"paired", "param_update_req"} : Queue(e, h)
  BY DEF Report
<1>2. /\ DOMAIN events = 1 .. Len(events) /\ Len(events) \in Nat
      /\ DOMAIN events' = 1 .. Len(events) + 1
      /\ \A i \in DOMAIN events : events'[i] = events[i]
      /\ events'[Len(events) + 1].event = e
  <2>1. e \in EventKinds
    BY DEF EventKinds
  <2>. QED
    BY <1>1, <2>1, Queued
<1>3. Bounded' /\ Room' = Room /\ adv' = adv /\ host' = host
  BY DEF Bounded, Room, Report
<1>4. \A k : Waits(k) => Waits(k)'
  BY <1>2 DEF Waits
<1>5. Stopping'
  <2>1. ASSUME NEW i \in DOMAIN events', events'[i].event = "terminated", ~Room
        PROVE  \E j \in DOMAIN events' : i < j /\ events'[j].event = "established"
    <3>1. i \in DOMAIN events
      BY <1>2, <2>1
    <3>. QED
      BY <1>2, <2>1, <3>1 DEF Stopping
  <2>. QED
    BY <1>3, <1>4, <2>1 DEF Stopping
<1>6. Starting'
  BY <1>3, <1>4 DEF Starting
<1>7. Early'
  BY <1>3 DEF Early
<1>. QED
  BY <1>3, <1>5, <1>6, <1>7

\* The host task decides by the connections of the moment it handles an event.
LEMMA HandleAdv ==
    ASSUME AdvInv, TypeOK', NEW e \in EventKinds, Handle(e),
           \/ e = "established" /\ Established
           \/ e = "terminated" /\ Terminated
           \/ e \in {"param_update_req", "paired"} /\ (ParamUpdateReq \/ PairState)
    PROVE  AdvInv'
<1>1. TypeOK
  BY DEF AdvInv
<1>. USE DEF AdvInv
<1>2. /\ DOMAIN events = 1 .. Len(events) /\ Len(events) \in Nat \ {0}
      /\ DOMAIN events' = 1 .. Len(events) - 1
      /\ \A i \in 1 .. Len(events) - 1 : events'[i] = events[i + 1]
      /\ events[1].event = e
  BY <1>1, Handled
<1>3. Bounded' /\ (Room' <=> Room) /\ adv' = adv /\ host = "idle"
  BY DEF Bounded, Room, Handle
<1>4. ASSUME NEW k, NEW i \in DOMAIN events, events[i].event = k, i # 1
      PROVE  i - 1 \in DOMAIN events' /\ events'[i - 1].event = k
  <2>1. i - 1 \in 1 .. Len(events) - 1 /\ (i - 1) + 1 = i
    BY <1>2, <1>4
  <2>. QED
    BY <1>2, <1>4, <2>1
<1>5. \A k : Waits(k) /\ k # e => Waits(k)'
  BY <1>2, <1>4 DEF Waits
<1>6. ~Room => \A i \in DOMAIN events' : events'[i].event = "terminated" =>
               \E j \in DOMAIN events' : i < j /\ events'[j].event = "established"
  <2>. SUFFICES ASSUME ~Room, NEW i \in DOMAIN events', events'[i].event = "terminated"
                PROVE  \E j \in DOMAIN events' : i < j /\ events'[j].event = "established"
    OBVIOUS
  <2>1. i + 1 \in DOMAIN events /\ events[i + 1].event = "terminated"
    BY <1>2
  <2>2. PICK j \in DOMAIN events : i + 1 < j /\ events[j].event = "established"
    BY <2>1 DEF Stopping
  <2>3. j - 1 \in DOMAIN events' /\ events'[j - 1].event = "established" /\ i < j - 1
    <3>1. j # 1 /\ i < j - 1
      BY <1>2, <2>2
    <3>. QED
      BY <1>4, <2>2, <3>1
  <2>. QED
    BY <2>3
<1>7. CASE e = "established" /\ Established
  <2>1. /\ Room => host' = "adv_start"
        /\ ~Room => host' = "adv_stop"
    BY <1>7 DEF Established
  <2>2. Stopping'
    BY <1>3, <1>6, <2>1 DEF Stopping
  <2>3. Starting'
    BY <1>3, <2>1 DEF Starting
  <2>. QED
    BY <1>3, <2>1, <2>2, <2>3 DEF Early
<1>8. CASE e = "terminated" /\ Terminated
  <2>1. host' = "adv_start"
    BY <1>8 DEF Terminated
  <2>2. ~Room => Waits("established")'
    <3>1. ~Room => \E j \in DOMAIN events : 1 < j /\ events[j].event = "established"
      BY <1>2, <1>8 DEF Stopping
    <3>. QED
      BY <1>2, <1>4, <3>1 DEF Waits
  <2>. QED
    BY <1>3, <1>6, <2>1, <2>2 DEF Stopping, Starting, Early
<1>9. CASE e \in {"param_update_req", "paired"} /\ (ParamUpdateReq \/ PairState)
  <2>1. host' \in {"idle", "fault"}
    BY <1>3, <1>9 DEF ParamUpdateReq, PairState
  <2>. QED
    BY <1>3, <1>5, <1>6, <1>9, <2>1 DEF Stopping, Starting, Early
<1>. QED
  BY <1>7, <1>8, <1>9

\* The commands to the advertiser come when the stack may have moved on.
LEMMA CommandAdv ==
    ASSUME AdvInv, TypeOK', StackInitDone \/ AdvStart \/ AdvStop
    PROVE  AdvInv'
<1>. USE DEF AdvInv
<1>1. events' = events /\ active' = active
  BY DEF StackInitDone, AdvStart, AdvStop
<1>2. Bounded' /\ (Room' <=> Room) /\ \A k : Waits(k)' <=> Waits(k)
  BY <1>1 DEF Bounded, Room, Waits
<1>3. ~Room => \A i \in DOMAIN events' : events'[i].event = "terminated" =>
               \E j \in DOMAIN events' : i < j /\ events'[j].event = "established"
  BY <1>1 DEF Stopping
<1>4. CASE StackInitDone
  BY <1>2, <1>3, <1>4 DEF StackInitDone, Stopping, Starting, Early
<1>5. CASE AdvStart
  BY <1>2, <1>3, <1>5 DEF AdvStart, Stopping, Starting, Early
<1>6. CASE AdvStop
  BY <1>2, <1>3, <1>6 DEF AdvStop, Stopping, Starting, Early
<1>. QED
  BY <1>4, <1>5, <1>6

\* Every step keeps this.
LEMMA AdvStep == AdvInv /\ [Next]_vars => AdvInv'
<1>. SUFFICES ASSUME AdvInv, [Next]_vars PROVE AdvInv'
  OBVIOUS
<1>1. TypeOK'
  BY TypeStep DEF AdvInv
<1>2. CASE Stack
  BY <1>1, <1>2, ConnectAdv, DisconnectAdv, ReportAdv DEF Stack
<1>3. CASE Established \/ Terminated \/ ParamUpdateReq \/ PairState
  <2>1. PICK e \in EventKinds :
          /\ Handle(e)
          /\ \/ e = "established" /\ Established
             \/ e = "terminated" /\ Terminated
             \/ e \in {"param_update_req", "paired"} /\ (ParamUpdateReq \/ PairState)
    BY <1>3 DEF Established, Terminated, ParamUpdateReq, PairState, EventKinds
  <2>. QED
    BY <1>1, <2>1, HandleAdv
<1>5. CASE StackInitDone \/ AdvStart \/ AdvStop
  BY <1>1, <1>5, CommandAdv
<1>4. CASE UNCHANGED vars
  BY <1>1, <1>4 DEF vars, AdvInv, Bounded, Early, Stopping, Starting, Room, Waits
<1>. QED
  BY <1>2, <1>3, <1>4, <1>5 DEF Next, HostStep

\* Once every event is handled the device advertises if and only if it has a
\* connection left, however the stack moves between an event and its command.
THEOREM AdvCorrect == Spec => []AdvMatchesRoom
<1>1. AdvInv => AdvMatchesRoom
  BY DEF AdvInv, Stopping, Starting, Waits, AdvMatchesRoom, Settled, TypeOK
<1>. QED
  BY <1>1, InitAdv, AdvStep, PTL DEF Spec
----------------------------------------------------------------------------
\* The link table has a node for each connection the stack allows.
RoomForLinks == NumConns <= LinkCount

\* The handles in the table, and each of them once.
Held     == {h \in Handles : Linked(h)}
Distinct == \A i, j \in Nodes : links[i] = links[j] /\ links[i] # NULL => i = j

\* What handling an event does to the connections the host task knows.
Follows(e, before, after) ==
    \/ e.event = "established" /\ e.handle \notin before /\ after = before \cup {e.handle}
    \/ e.event = "terminated" /\ e.handle \in before /\ after = before \ {e.handle}
    \/ e.event \in {"paired", "param_update_req"} /\ e.handle \in before /\ after = before

\* The connections of the stack after each event that waits, from those the
\* table holds to those the stack has.
History(H) ==
    /\ H \in [0 .. Len(events) -> SUBSET Handles]
    /\ H[0] = Held /\ H[Len(events)] = active
    /\ \A i \in 1 .. Len(events) : Follows(events[i], H[i - 1], H[i])
    /\ \A i \in 0 .. Len(events) : IsFiniteSet(H[i]) /\ Cardinality(H[i]) <= NumConns

TableInv == TypeOK /\ Bounded /\ NoFault /\ Distinct /\ \E H : History(H)

\* A table without a free node holds as many handles as it has nodes.
LEMMA FreeNode ==
    ASSUME TypeOK, Distinct, ~Linked(NULL)
    PROVE  Cardinality(Held) = LinkCount
<1>1. links \in [Nodes -> Handles] /\ \A i, j \in Nodes : links[i] = links[j] => i = j
  BY DEF TypeOK, Linked, Distinct
<1>2. links \in Bijection(Nodes, Held)
  <2>1. links \in [Nodes -> Held] /\ \A h \in Held : \E i \in Nodes : links[i] = h
    BY <1>1 DEF Held, Linked
  <2>. QED
    BY <1>1, <2>1 DEF Bijection, Injection, IsInjective, Surjection
<1>3. IsFiniteSet(Nodes) /\ Cardinality(Nodes) = LinkCount
  BY FS_Interval, HostAssumption DEF Nodes
<1>4. ExistsBijection(Nodes, Held)
  BY <1>2 DEF ExistsBijection
<1>. QED
  BY <1>3, <1>4, FS_Bijection

\* At the start there are no connections.
LEMMA InitTable == Init => TableInv
<1>. SUFFICES ASSUME Init PROVE TableInv
  OBVIOUS
<1>1. Held = {} /\ active = {} /\ Len(events) = 0
  BY HostAssumption DEF Init, Held, Linked
<1>. DEFINE H == [i \in 0 .. 0 |-> {}]
<1>2. IsFiniteSet({}) /\ Cardinality({}) <= NumConns
  BY FS_EmptySet, HostAssumption
<1>3. History(H)
  BY <1>1, <1>2 DEF History
<1>4. NoFault /\ Distinct /\ Bounded
  BY <1>1, <1>2 DEF Init, NoFault, Distinct, Bounded
<1>. QED
  BY <1>3, <1>4, InitType DEF TableInv

\* An event that is queued makes the history longer at its end.
LEMMA QueueTable ==
    ASSUME TableInv, TypeOK', Bounded',
           NEW e \in EventKinds, NEW h \in Handles, Queue(e, h),
           links' = links, host' = host, Follows(Event(e, h), active, active')
    PROVE  TableInv'
<1>. DEFINE len == Len(events)
<1>1. PICK H : History(H)
  BY DEF TableInv
<1>2. /\ len \in Nat /\ Len(events') = len + 1
      /\ \A i \in 1 .. len : events'[i] = events[i]
      /\ events'[len + 1] = Event(e, h)
  <2>1. TypeOK
    BY DEF TableInv
  <2>2. /\ events' \in Seq(Events) /\ DOMAIN events = 1 .. len /\ len \in Nat
        /\ DOMAIN events' = 1 .. len + 1
        /\ \A i \in DOMAIN events : events'[i] = events[i]
        /\ events'[len + 1] = Event(e, h)
    BY <2>1, Queued
  <2>3. Len(events') \in Nat /\ DOMAIN events' = 1 .. Len(events')
    BY <2>2, LenProperties
  <2>4. Len(events') = len + 1
    BY <2>2, <2>3
  <2>. QED
    BY <2>2, <2>4
<1>3. Held' = Held
  BY DEF Held, Linked
<1>4. active' \in SUBSET Handles /\ IsFiniteSet(active') /\ Cardinality(active') <= NumConns
  BY DEF TypeOK, Bounded
<1>5. /\ \A i \in 0 .. len : H[i] \in SUBSET Handles /\ IsFiniteSet(H[i])
                          /\ Cardinality(H[i]) <= NumConns
      /\ H[0] = Held /\ H[len] = active
      /\ \A i \in 1 .. len : Follows(events[i], H[i - 1], H[i])
  BY <1>1 DEF History
<1>. HIDE DEF len
<1>6. PICK G : G = [i \in 0 .. len + 1 |-> IF i = len + 1 THEN active' ELSE H[i]]
  OBVIOUS
<1>7. (\A i \in 0 .. len : G[i] = H[i]) /\ G[len + 1] = active'
  BY <1>2, <1>6
<1>8. G \in [0 .. len + 1 -> SUBSET Handles]
  <2>1. \A i \in 0 .. len + 1 : i \in 0 .. len \/ i = len + 1
    BY <1>2
  <2>2. \A i \in 0 .. len + 1 : G[i] \in SUBSET Handles
    BY <1>4, <1>5, <1>7, <2>1
  <2>3. DOMAIN G = 0 .. len + 1 /\ G = [i \in 0 .. len + 1 |-> G[i]]
    BY <1>6
  <2>. QED
    BY <2>2, <2>3
<1>9. ASSUME NEW i \in 1 .. len + 1 PROVE Follows(events'[i], G[i - 1], G[i])
  <2>1. CASE i = len + 1
    <3>1. G[i - 1] = active /\ G[i] = active'
      BY <1>2, <1>5, <1>7, <2>1
    <3>. QED
      BY <1>2, <2>1, <3>1
  <2>2. CASE i \in 1 .. len
    <3>1. i - 1 \in 0 .. len /\ i \in 0 .. len
      BY <1>2, <2>2
    <3>2. G[i - 1] = H[i - 1] /\ G[i] = H[i] /\ events'[i] = events[i]
      BY <1>2, <1>7, <2>2, <3>1
    <3>. QED
      BY <1>5, <2>2, <3>2
  <2>. QED
    BY <1>2, <1>9, <2>1, <2>2
<1>10. \A i \in 0 .. len + 1 : IsFiniteSet(G[i]) /\ Cardinality(G[i]) <= NumConns
  BY <1>2, <1>4, <1>5, <1>7
<1>11. History(G)'
  BY <1>2, <1>3, <1>5, <1>8, <1>9, <1>10, <1>7 DEF History
<1>12. NoFault' /\ Distinct'
  BY DEF TableInv, NoFault, Distinct
<1>. QED
  BY <1>11, <1>12 DEF TableInv

\* An event that is handled takes the first step off the history.
LEMMA HandleTable ==
    ASSUME TableInv, TypeOK', Bounded', NEW e, Handle(e), NoFault', Distinct',
           \A after : /\ Follows(events[1], Held, after)
                     /\ IsFiniteSet(after) /\ Cardinality(after) <= NumConns
                     => Held' = after
    PROVE  TableInv'
<1>. DEFINE len == Len(events)
<1>1. PICK H : History(H)
  BY DEF TableInv
<1>2. /\ len \in Nat \ {0} /\ Len(events') = len - 1
      /\ \A i \in 1 .. len - 1 : events'[i] = events[i + 1]
  <2>1. TypeOK
    BY DEF TableInv
  <2>2. /\ events' \in Seq(Events) /\ len \in Nat \ {0}
        /\ DOMAIN events' = 1 .. len - 1
        /\ \A i \in 1 .. len - 1 : events'[i] = events[i + 1]
    BY <2>1, Handled
  <2>3. Len(events') \in Nat /\ DOMAIN events' = 1 .. Len(events')
    BY <2>2, LenProperties
  <2>4. Len(events') = len - 1
    BY <2>2, <2>3
  <2>. QED
    BY <2>2, <2>4
<1>3. /\ \A i \in 0 .. len : H[i] \in SUBSET Handles /\ IsFiniteSet(H[i])
                          /\ Cardinality(H[i]) <= NumConns
      /\ H[0] = Held /\ H[len] = active
      /\ \A i \in 1 .. len : Follows(events[i], H[i - 1], H[i])
  BY <1>1 DEF History
<1>. HIDE DEF len
<1>4. Held' = H[1]
  <2>1. 1 \in 1 .. len /\ 1 \in 0 .. len /\ 1 - 1 = 0
    BY <1>2
  <2>2. Follows(events[1], H[0], H[1])
    BY <1>3, <2>1
  <2>. QED
    BY <1>3, <2>1, <2>2
<1>5. PICK G : G = [i \in 0 .. len - 1 |-> H[i + 1]]
  OBVIOUS
<1>6. \A i \in 0 .. len - 1 : G[i] = H[i + 1] /\ i + 1 \in 0 .. len
  BY <1>2, <1>5
<1>7. G \in [0 .. len - 1 -> SUBSET Handles]
  BY <1>3, <1>5, <1>6
<1>8. ASSUME NEW i \in 1 .. len - 1 PROVE Follows(events'[i], G[i - 1], G[i])
  <2>1. i + 1 \in 1 .. len /\ i - 1 \in 0 .. len - 1 /\ i \in 0 .. len - 1
        /\ (i - 1) + 1 = i /\ (i + 1) - 1 = i
    BY <1>2, <1>8
  <2>2. Follows(events[i + 1], H[i], H[i + 1])
    BY <1>3, <2>1
  <2>3. G[i - 1] = H[i] /\ G[i] = H[i + 1] /\ events'[i] = events[i + 1]
    BY <1>2, <1>6, <1>8, <2>1
  <2>. QED
    BY <2>2, <2>3
<1>9. G[0] = Held' /\ G[len - 1] = active'
  <2>1. active' = active /\ 0 \in 0 .. len - 1 /\ len - 1 \in 0 .. len - 1
        /\ 0 + 1 = 1 /\ (len - 1) + 1 = len
    BY <1>2 DEF Handle
  <2>2. G[0] = H[1] /\ G[len - 1] = H[len]
    BY <1>6, <2>1
  <2>. QED
    BY <1>3, <1>4, <2>1, <2>2
<1>10. \A i \in 0 .. len - 1 : IsFiniteSet(G[i]) /\ Cardinality(G[i]) <= NumConns
  BY <1>3, <1>6
<1>11. History(G)'
  BY <1>2, <1>7, <1>8, <1>9, <1>10 DEF History
<1>. QED
  BY <1>11 DEF TableInv
\* The first event that waits can follow what the table holds.
LEMMA FirstFollows ==
    ASSUME TableInv, NEW e, Handle(e)
    PROVE  \E after : /\ Follows(events[1], Held, after)
                      /\ IsFiniteSet(after) /\ Cardinality(after) <= NumConns
<1>1. PICK H : History(H)
  BY DEF TableInv
<1>2. Len(events) \in Nat \ {0}
  BY Handled DEF TableInv
<1>3. 1 \in 1 .. Len(events) /\ 1 \in 0 .. Len(events) /\ 1 - 1 = 0
  BY <1>2
<1>. QED
  BY <1>1, <1>3 DEF History

\* An established event finds a free node and its handle not in the table.
LEMMA EstablishedTable ==
    ASSUME RoomForLinks, TableInv, TypeOK', Bounded', Established
    PROVE  TableInv'
<1>. DEFINE h == events[1].handle
<1>1. events[1].event = "established" /\ This = h /\ h \in Handles /\ TypeOK
  <2>1. Handle("established") /\ TypeOK
    BY DEF Established, TableInv
  <2>. QED
    BY <2>1, Handled
<1>. HIDE DEF h
<1>2. PICK after : /\ Follows(events[1], Held, after)
                   /\ IsFiniteSet(after) /\ Cardinality(after) <= NumConns
  BY FirstFollows DEF Established
<1>3. h \notin Held /\ after = Held \cup {h}
  BY <1>1, <1>2 DEF Follows, h
<1>4. Cardinality(Held) < LinkCount
  <2>1. Held \in SUBSET after
    BY <1>3
  <2>2. IsFiniteSet(Held)
    BY <1>2, <2>1, FS_Subset
  <2>3. Cardinality(after) = Cardinality(Held) + 1 /\ Cardinality(Held) \in Nat
    BY <1>3, <2>2, FS_AddElement, FS_CardinalityType
  <2>. QED
    BY <1>2, <2>3, HostAssumption DEF RoomForLinks
<1>5. Linked(NULL)
  BY <1>1, <1>4, FreeNode, HostAssumption DEF TableInv
<1>6. PICK i \in Nodes : links[i] = NULL /\ links' = [links EXCEPT ![i] = h]
  BY <1>1, <1>5 DEF Established, ble_link_add
<1>7. Held' = Held \cup {h} /\ Distinct'
  <2>1. \A j \in Nodes : links[j] # h
    BY <1>1, <1>3 DEF Held, Linked
  <2>2. Distinct'
    BY <1>1, <1>6, <2>1 DEF Distinct, TypeOK, TableInv
  <2>3. \A g \in Handles : Linked(g)' <=> Linked(g) \/ g = h
    <3>1. /\ links' [i] = h /\ links[i] = NULL /\ NULL \notin Handles
          /\ \A j \in Nodes : j # i => links'[j] = links[j]
      BY <1>1, <1>6, HostAssumption DEF TypeOK
    <3>. QED
      BY <3>1 DEF Linked
  <2>. QED
    BY <1>1, <2>2, <2>3 DEF Held
<1>8. \A set : Follows(events[1], Held, set) => Held' = set
  BY <1>1, <1>7 DEF Follows, h
<1>9. NoFault'
  BY DEF Established, NoFault
<1>. QED
  BY <1>7, <1>8, <1>9, HandleTable DEF Established

\* A terminated event finds its handle in the table, once.
LEMMA TerminatedTable ==
    ASSUME TableInv, TypeOK', Bounded', Terminated
    PROVE  TableInv'
<1>. DEFINE h == events[1].handle
<1>1. events[1].event = "terminated" /\ This = h /\ h \in Handles /\ TypeOK
  <2>1. Handle("terminated") /\ TypeOK
    BY DEF Terminated, TableInv
  <2>. QED
    BY <2>1, Handled
<1>. HIDE DEF h
<1>2. h \in Held
  <2>1. PICK after : Follows(events[1], Held, after)
    BY FirstFollows DEF Terminated
  <2>. QED
    BY <1>1, <2>1 DEF Follows, h
<1>3. PICK i \in Nodes : links[i] = h /\ links' = [links EXCEPT ![i] = NULL]
  BY <1>1, <1>2 DEF Terminated, ble_link_remove, Held
<1>4. /\ links'[i] = NULL /\ NULL \notin Handles
      /\ \A j \in Nodes : j # i => links'[j] = links[j] /\ links[j] # h
  <2>1. \A j \in Nodes : links[j] = h => j = i
    BY <1>1, <1>3, HostAssumption DEF TableInv, Distinct
  <2>. QED
    BY <1>1, <1>3, <2>1, HostAssumption DEF TypeOK
<1>5. Held' = Held \ {h}
  <2>1. \A g \in Handles : Linked(g)' <=> Linked(g) /\ g # h
    BY <1>3, <1>4 DEF Linked
  <2>. QED
    BY <2>1 DEF Held
<1>6. Distinct'
  BY <1>4 DEF Distinct, TableInv
<1>7. \A set : Follows(events[1], Held, set) => Held' = set
  BY <1>1, <1>5 DEF Follows, h
<1>8. NoFault'
  BY DEF Terminated, NoFault, TableInv
<1>. QED
  BY <1>6, <1>7, <1>8, HandleTable DEF Terminated

\* A pairing event finds its link; a request for parameters needs none.
LEMMA PairTable ==
    ASSUME TableInv, TypeOK', Bounded', NEW e \in {"paired", "param_update_req"}, Handle(e),
           PairState \/ ParamUpdateReq
    PROVE  TableInv'
<1>1. events[1].event = e /\ This = events[1].handle /\ This \in Handles
  BY Handled DEF TableInv
<1>2. This \in Held
  <2>1. PICK after : Follows(events[1], Held, after)
    BY FirstFollows
  <2>. QED
    BY <1>1, <2>1 DEF Follows
<1>3. links' = links /\ host' = host
  BY <1>2 DEF PairState, ParamUpdateReq, Held
<1>4. Held' = Held /\ Distinct' /\ NoFault'
  BY <1>3 DEF Held, Linked, Distinct, NoFault, TableInv
<1>5. \A set : Follows(events[1], Held, set) => Held' = set
  BY <1>1, <1>4 DEF Follows
<1>. QED
  BY <1>4, <1>5, HandleTable

\* The stack's own steps queue an event that follows.
LEMMA StackTable ==
    ASSUME TableInv, TypeOK', Bounded', Stack
    PROVE  TableInv'
<1>1. PICK h \in Handles : Connect(h) \/ Disconnect(h) \/ Report(h)
  BY DEF Stack
<1>2. /\ Event("established", h).handle = h /\ Event("established", h).event = "established"
      /\ Event("terminated", h).handle = h /\ Event("terminated", h).event = "terminated"
      /\ \A e : Event(e, h).handle = h /\ Event(e, h).event = e
  BY DEF Event
<1>3. PICK e \in EventKinds :
        Queue(e, h) /\ Follows(Event(e, h), active, active') /\ links' = links /\ host' = host
  <2>1. CASE Connect(h)
    <3>1. /\ Queue("established", h) /\ "established" \in EventKinds
          /\ Follows(Event("established", h), active, active')
          /\ links' = links /\ host' = host
      BY <1>2, <2>1 DEF Connect, Follows, EventKinds
    <3>. QED
      BY <3>1
  <2>2. CASE Disconnect(h)
    <3>1. /\ Queue("terminated", h) /\ "terminated" \in EventKinds
          /\ Follows(Event("terminated", h), active, active')
          /\ links' = links /\ host' = host
      BY <1>2, <2>2 DEF Disconnect, Follows, EventKinds
    <3>. QED
      BY <3>1
  <2>3. CASE Report(h)
    <3>1. PICK e \in {"paired", "param_update_req"} : Queue(e, h)
      BY <2>3 DEF Report
    <3>2. e \in EventKinds /\ Follows(Event(e, h), active, active')
      BY <1>2, <2>3 DEF Report, Follows, EventKinds
    <3>. QED
      BY <2>3, <3>1, <3>2 DEF Report
  <2>. QED
    BY <1>1, <2>1, <2>2, <2>3
<1>. QED
  BY <1>3, QueueTable

\* What changes neither the queue, the table nor the connections keeps the rest.
LEMMA QuietTable ==
    ASSUME TableInv, TypeOK', Bounded', UNCHANGED <<active, events, links>>, NoFault'
    PROVE  TableInv'
<1>1. PICK H : History(H)
  BY DEF TableInv
<1>2. History(H)' /\ Distinct'
  BY <1>1 DEF History, Held, Linked, Distinct, TableInv
<1>. QED
  BY <1>2 DEF TableInv

\* Every step keeps what is said of the table.
LEMMA TableStep ==
    ASSUME RoomForLinks, AdvInv, TableInv, [Next]_vars
    PROVE  TableInv'
<1>1. TypeOK' /\ Bounded'
  BY AdvStep DEF AdvInv
<1>2. CASE Stack
  BY <1>1, <1>2, StackTable
<1>3. CASE Established
  BY <1>1, <1>3, EstablishedTable
<1>4. CASE Terminated
  BY <1>1, <1>4, TerminatedTable
<1>5. CASE PairState \/ ParamUpdateReq
  BY <1>1, <1>5, PairTable DEF PairState, ParamUpdateReq
<1>6. CASE StackInitDone \/ AdvStart \/ AdvStop \/ UNCHANGED vars
  <2>1. UNCHANGED <<active, events, links>> /\ NoFault'
    BY <1>6 DEF StackInitDone, AdvStart, AdvStop, vars, NoFault, TableInv
  <2>. QED
    BY <1>1, <2>1, QuietTable
<1>. QED
  BY <1>2, <1>3, <1>4, <1>5, <1>6 DEF Next, HostStep

\* So every reachable state has it, if the table has a node per connection.
LEMMA TableAlways ==
    ASSUME RoomForLinks
    PROVE  Spec => []TableInv
<1>1. AdvInv /\ TableInv /\ [Next]_vars => (AdvInv /\ TableInv)'
  BY AdvStep, TableStep
<1>. QED
  BY <1>1, InitAdv, InitTable, PTL DEF Spec

\* The pairing handler finds the link it reads without a test, for any number of
\* connections that the table has nodes for.
THEOREM PairingCorrect ==
    ASSUME RoomForLinks
    PROVE  Spec => []NoFault
<1>1. TableInv => NoFault
  BY DEF TableInv
<1>. QED
  BY <1>1, TableAlways, PTL

\* Once every event is handled the table holds the connections of the stack,
\* each once, whatever came and went while the events waited.
THEOREM TableCorrect ==
    ASSUME RoomForLinks
    PROVE  Spec => []TableMatchesStack
<1>1. TableInv => TableMatchesStack
  <2>. SUFFICES ASSUME TableInv, Settled PROVE Held = active /\ Distinct
    BY DEF TableMatchesStack, Held, Distinct, TypeOK, TableInv
  <2>1. Len(events) = 0
    BY DEF Settled
  <2>. QED
    BY <2>1 DEF TableInv, History
<1>. QED
  BY <1>1, TableAlways, PTL
=============================================================================
