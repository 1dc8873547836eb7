------------------------------ MODULE BleHost ------------------------------
(***************************************************************************)
(* The BLE host task: module/ble/host's event handlers, the link table of  *)
(* module/ble/lib/ble_link.c and the advertising of ble_adv.c.  The stack  *)
(* runs in a task of its own: it takes and drops connections by itself and *)
(* queues an event for each, which the host task handles later, in order.  *)
(* The link table belongs to the host task alone, so a call of kv_list is  *)
(* one step here.                                                          *)
(***************************************************************************)
EXTENDS Naturals, FiniteSets, Sequences

CONSTANTS
    Handles,    \* connection handles the stack gives out
    NumConns,   \* linkDB_NumConns(): the connections the stack allows
    NULL,       \* no handle: an unused node
    LinkCount,  \* CFG_BLE_LINK_COUNT: the depth of m_link_list
    MaxEvents   \* bound: events waiting for the host task

ASSUME HostAssumption ==
    /\ IsFiniteSet(Handles)
    /\ NumConns \in Nat \ {0} /\ NumConns <= Cardinality(Handles)
    /\ LinkCount \in Nat
    /\ NULL \notin Handles
    /\ MaxEvents \in Nat \ {0}

VARIABLES
    active,     \* the stack's connections (linkDB)
    adv,        \* the stack is advertising, so a peer can connect
    events,     \* what the stack has queued for the host task
    links,      \* m_link_list: the handle in each node, NULL where not valid
    host        \* where the host task is: idle, or about to call ble_adv_*

vars == <<active, adv, events, links, host>>

Nodes      == 1 .. LinkCount
EventKinds == {"established", "terminated", "param_update_req", "paired"}
HostStates == {"init", "idle", "adv_start", "adv_stop", "fault"}
Event(e, h) == [event |-> e, handle |-> h]
Room       == Cardinality(active) < NumConns

Init ==
    /\ active = {}
    /\ adv = FALSE
    /\ events = <<>>
    /\ links = [i \in Nodes |-> NULL]
    /\ host = "init"

----------------------------------------------------------------------------
\* The stack.  A connection ends the advertising that led to it.
Queue(e, h) == /\ Len(events) < MaxEvents
               /\ events' = Append(events, Event(e, h))

Connect(h) ==
    /\ adv /\ Room /\ h \notin active
    /\ active' = active \cup {h}
    /\ adv' = FALSE
    /\ Queue("established", h)
    /\ UNCHANGED <<links, host>>

Disconnect(h) ==
    /\ h \in active
    /\ active' = active \ {h}
    /\ Queue("terminated", h)
    /\ UNCHANGED <<adv, links, host>>

\* Pairing complete, link encrypted, or a request for other parameters.
Report(h) ==
    /\ h \in active
    /\ \E e \in {"paired", "param_update_req"} : Queue(e, h)
    /\ UNCHANGED <<active, adv, links, host>>

----------------------------------------------------------------------------
\* ble_link_add takes the first free node; a full table drops the link, and the
\* handler does not look.  ble_link_remove frees a node with the handle, if any.
Linked(h) == \E i \in Nodes : links[i] = h

ble_link_add(h) ==
    \/ ~Linked(NULL) /\ UNCHANGED links
    \/ \E i \in Nodes : /\ links[i] = NULL
                        /\ \A j \in 1 .. i - 1 : links[j] # NULL
                        /\ links' = [links EXCEPT ![i] = h]

RemovesAnyLink(h) ==
    \/ Nodes = {} /\ UNCHANGED links
    \/ \E i \in Nodes : links' = [links EXCEPT ![i] = NULL]
KeepsNodeUsed(h) ==
    \/ ~Linked(h) /\ UNCHANGED links
    \/ \E i \in Nodes : links[i] = h /\ links' = [links EXCEPT ![i] = "KV_KEY_INVALID"]
ble_link_remove(h) ==
    \/ ~Linked(h) /\ UNCHANGED links
    \/ \E i \in Nodes : links[i] = h /\ links' = [links EXCEPT ![i] = NULL]

\* stack_init_done: everything registered, then ble_adv_start.
StackInitDone ==
    /\ host = "init"
    /\ host' = "adv_start"
    /\ UNCHANGED <<active, adv, events, links>>

\* The host task takes the next event; linkDB is read while handling it.
Handle(e) ==
    /\ host = "idle"
    /\ events # <<>> /\ Head(events).event = e
    /\ events' = Tail(events)
    /\ UNCHANGED <<active, adv>>

This == Head(events).handle

EstablishedNeverStops ==
    /\ Handle("established")
    /\ ble_link_add(This)
    /\ host' = IF Room THEN "adv_start" ELSE "idle"

Established ==
    /\ Handle("established")
    /\ ble_link_add(This)
    /\ host' = IF Room THEN "adv_start" ELSE "adv_stop"

TerminatedWithoutAdv ==
    /\ Handle("terminated")
    /\ ble_link_remove(This)
    /\ UNCHANGED host

Terminated ==
    /\ Handle("terminated")
    /\ ble_link_remove(This)
    /\ host' = "adv_start"

\* BLEAppUtil_paramUpdateRsp touches no state of the host.
ParamUpdateReq ==
    /\ Handle("param_update_req")
    /\ UNCHANGED <<links, host>>

\* The pairing handler reads the link it looks up without a test for NULL; the
\* CS_SecurityEnable it then sends touches no state of the host.
PairState ==
    /\ Handle("paired")
    /\ \/ Linked(This) /\ UNCHANGED host
       \/ ~Linked(This) /\ host' = "fault"
    /\ UNCHANGED links

\* ble_adv_start and ble_adv_stop reach the stack after the handler read
\* linkDB.  The stack may take or refuse a start while it has no connection left.
AdvStart ==
    /\ host = "adv_start" /\ host' = "idle"
    /\ \/ adv' = TRUE
       \/ ~Room /\ UNCHANGED adv
    /\ UNCHANGED <<active, events, links>>

AdvStop ==
    /\ host = "adv_stop" /\ host' = "idle"
    /\ adv' = FALSE
    /\ UNCHANGED <<active, events, links>>

----------------------------------------------------------------------------
HostStep == \/ StackInitDone \/ Established \/ Terminated \/ ParamUpdateReq
            \/ PairState \/ AdvStart \/ AdvStop

Stack == \E h \in Handles : Connect(h) \/ Disconnect(h) \/ Report(h)

Next == Stack \/ HostStep

Spec == Init /\ [][Next]_vars

\* The host task is woken for every event; the radio owes nothing.
FairSpec == Spec /\ WF_vars(HostStep)

----------------------------------------------------------------------------
TypeOK ==
    /\ active \subseteq Handles
    /\ adv \in BOOLEAN
    /\ events \in Seq([event : EventKinds, handle : Handles])
    /\ links \in [Nodes -> Handles \cup {NULL}]
    /\ host \in HostStates

Settled == events = <<>> /\ host = "idle"

\* Each event found the link table in the state its connection needs: a pairing
\* event always finds its link (the handler reads it without a test).
NoFault == host # "fault"

\* Once every event is handled, the table holds exactly the connections of the
\* stack, each once, whatever came and went while events were waiting.
TableMatchesStack ==
    Settled => /\ \A h \in Handles : Linked(h) <=> h \in active
               /\ \A i, j \in Nodes : links[i] = links[j] /\ links[i] # NULL => i = j

\* Once every event is handled, the device advertises if and only if the stack
\* has a connection left, although the handlers decide on a linkDB that is
\* newer than their event and older than their command.
AdvMatchesRoom == Settled => (adv <=> Room)

\* A device that has a connection left is not lost to its peers: it advertises
\* again, or the last connection is taken meanwhile.
RoomLeadsToAdv == Room ~> adv \/ ~Room
=============================================================================
