# A verification of the CC2745 application framework

The program is a Bluetooth LE peripheral with Channel Sounding for the TI
CC2745, on FreeRTOS: containers that tasks share, a message bus, an operation
queue and the handlers of the BLE stack's events. These modules model its
state machines and the places where tasks interleave. TLC checks them on small
instances, and TLAPS proves the main results for every instance.

Paths below are relative to `ccs_project/src/`, those of `ext/printf` to
`src/`; `printf.c` is `ext/printf/src/printf/printf.c`.

## The system

| component | state | operations | called by |
|---|---|---|---|
| `lib/kv_list` | node array, data array, count, sorted flag, mutex | add, clear, at, sort, search, walk, remove_node, remove | ble_link, msg_bus; any task |
| `lib/linked_list` | head, tail, count, arms of each node, used flags or heap, last slot, mutex | alloc, free, insert and remove at both ends, remove_node, exist, count, search, sort | msg_bus, ble_op_queue; any task |
| `lib/linked_list/lw_list` | the same without nodes of its own | the same without alloc and free | nobody yet |
| `lib/msg_bus` | queue, topics of each channel | init, register, sort, produce message or call, consume | producers in any task, one consumer |
| `module/ble/adv_scan/ble_op_queue` | queue, current state, running operation | start, process, complete, set/get state | one BLE task |
| `module/ble/lib/ble_link` | the table of links | add, get, remove, search by address | host event handlers |
| `module/ble/host` | none of its own | stack_init_done and one handler per event type | the stack's event queue |
| `module/ble/adv_scan/ble_adv` | advertising handles | start, stop, update | host event handlers |
| `module/ble/cs` | procedure counter and antenna paths per connection, one current counter | enable, result, continued result | the stack's event queue |
| `lib/log` | level, backend, mutex | init, four print functions | any task |
| `hal` | none | mutex (a POSIX semaphore of one), empty event functions, timers, UART, GPIO | everything |
| `runner` | a semaphore (UART) | UART echo, log and GPIO tasks | FreeRTOS |
| `ext/printf` | none between calls | printf, sprintf, snprintf, fctprintf and their `v` forms | `lib/log` |

How they interact: calls; the mutexes inside the containers; node pointers that
leave the containers and are used without the mutex; and the stack's event
queue, which separates what the stack has done from what the host task knows.

What is hard in it:

- **tests and pointers outside the lock**: `kv_list_add` tests the count and
  `kv_list_remove_node` the valid flag before the mutex; searches return
  pointers used after it; `linked_list_free_node` takes no mutex at all;
- **structure over long sequences**: a sort moves nodes away from the data
  blocks of their index, a sorted flag must fall with every change, both arms of
  every node must agree;
- **late events**: connections come and go while their events wait;
- **operations in turn**: one runs, others wait, runners fail, states change by
  themselves;
- **one variable for many connections**: the Channel Sounding handler lets
  continued results pass by a counter that all connections share, and keeps what
  it knows of a handle when the connection is gone;
- **lengths added up apart from the bytes**: a line of the log is built by
  functions that each return what they claim to have written;
- **looking without the lock**: `lw_list_exist` and the `FOR_EACH` loops follow
  arms that other tasks change under them;
- **numbers at their bounds**: the formatter fills fields, prefixes, signs and
  decimals into buffers of fixed size, and decides rounding and notation at
  different places.

There is no persistence and no retry in this code, so no crash recovery. The
hazards are listed one by one, at their lines, in `PROJECT.json`.

## Modules

| module | what it is |
|---|---|
| `KvMap` | abstract: a bounded bag of keys, every operation at one instant |
| `KvList` | `kv_list.c`, cut at the lock; implements `KvMap` |
| `KvListProofs` | its seven safety invariants, three of them for any calls, and that it implements `KvMap`, for any tasks, keys and depth |
| `ListSeq` | abstract: a sequence of nodes, the free pool, and the nodes in tasks' hands |
| `LinkedList` | `linked_list.c` and the macros of `list_algo_macro.h`; implements `ListSeq` |
| `LwList` | `lw_list.c` on `LinkedList`'s actions, and the searches that follow the arms |
| `LinkedListProofs` | types and mutex for any calls; links, ownership and that `LinkedList` implements `ListSeq`; what a search of `LwList` answers and what `linked_list_remove_node` leaves; for any tasks and depth |
| `MsgBus`, `MsgBusProofs` | `msg_bus.c` over what `ListSeq` and `KvMap` promise, and its invariants for any producers, topics and heap |
| `OpQueue`, `OpQueueProofs` | `ble_op_queue.c`, and its invariants for any operations |
| `BleHost`, `BleHostProofs` | the host event handlers, `ble_link` and `ble_adv` over an external stack, and its invariants for any handles and queue |
| `CsEvents`, `CsEventsProofs` | the Channel Sounding handler between the controller and the ranging profile, and its invariants for any connections |
| `Log`, `LogProofs` | `lib/log`: the mutex and the length of a line, and its invariants for any lengths |
| `Powers` | powers as a recursive function, for `PrintfNumbers`, `Printf` and `PrintfText` |
| `PrintfNumbers` | `printf.c`: integers and floating point to characters |
| `Printf` | `printf.c`: the format loop, the output gadgets, the entry functions |
| `PrintfProofs` | what a call reads, and what an integer directive prints, for any calls and sizes |
| `PrintfText` | abstract: what each directive should print |
| `MC*` | the values of constants that a `.cfg` can not write |

A definition whose body differs from the one after it by one plausible slip
(`NoWait` before `Free`, `KeepsFlag` before `DropsFlag`, ...) is its mutant.
`PROJECT.json` names for each property a mutant that TLC must find violating it.

### KvList

State: the fields of `kv_list_t`; `node` is `node_array` and `data` the key
inside the item in each block of `data_array`. A task has a `pc`, the function
it is in, its key and its local `p_node`. `Check` and `NodeCheck` are the tests
before the lock; `Lock`, `Unlock` the mutex; `AddScan`/`AddWrite` the two halves
of the locked part of `kv_list_add`; `Search`, `Walk`, `At`, `Sort`, `Clear`,
`RemoveNode` the locked part of the others. A locked part that is read by
nothing outside is one step. `remove` is `kv_list_remove`; `search_remove` is
what `ble_link_remove` does. Sort takes any permutation that the comparator
accepts, and a binary search returns any match, or misses on an unordered array.

`SizeMax` stands for the largest `size_t`; it is larger than the depth, so that
a count that falls below 0 shows.

With **one task that removes, clears and sorts** (`SingleManager`) and any
number that add, search and walk, all of this is right. With two that remove it
is not: `kv_two_managers` shows one node counted down twice. What needs no such
discipline is the mutex, the sorted flag and that an item stays with its key: the
proofs show these three whatever the tasks call. `kv_at` shows that
`kv_list_at` does not give the item at its index, and can loop for ever.

### LinkedList

`next`, `prev` are functions on nodes, `used` is `opt.used` of an array list or
"malloc'ed" in a heap list. `alloc` gives the first free slot from `last_slot`
in an array, any node or none from the heap. Locked operations are cut between
what they read and what they write; `linked_list_free_node` between clearing
the arms and clearing the flag. The model takes these two stores in program
order; nothing but that order in the source keeps the compiler from exchanging
them. A caller frees and pushes only the nodes it has been given.

`linked_list_sort` ends in `sort_lock`, from which no step leads on: it holds
the semaphore that it waits for, and from then on every other call waits too.
`CallsReturn` excepts that and nothing else. A write through a NULL neighbour or
tail has no step either, so that `CallsReturn` would fail if one could happen.
`linked_list_remove_node` leaves the neighbour's arm wrong; hence
`linked_list` checks the functions msg_bus and ble_op_queue use, and both ends,
and `linked_list_remove_node` shows the damage.

### LwList

`lw_list.c` runs the macros of `linked_list.c` on the same fields under the same
kind of lock, so `LwList` extends `LinkedList` and names for each `lw_list`
function the actions that are its own. `alloc` and `free` stand for a caller who
takes an element into use and gives it up. New are `linked_list_exist`, which
looks under the lock, and `lw_list_exist`, which does not and reads the head and
each arm in a step of its own (`WalkHead`, `WalkOn`, `WalkEnd`), as the loops of
`LW_LIST_FOR_EACH` and `LINKED_LIST_FOR_EACH` do.

`ExistRight` is what an answer means: a node that was found was in the list at
some moment of the call, and one that was not found was out of it at some moment.
`seen` remembers those moments. Without the lock the second half needs an
exception: a pop clears the arm of the node on which the walk stands, and the
walk ends there although the node it asks for is further on (TLC shows it when
the exception is dropped). Nothing is said of a list that
`linked_list_remove_node` has damaged.

### MsgBus

One step per call into the lists, since those act at one instant. `Produce` is
the allocation (a full heap drops the message, which changes nothing), `Push`
the push; `Pop`, `Search`, `Callback`, `Free` the consumer. Any task may register
topics at any time; only the consumer sorts, between lookups. A sort by another
task between `Search` and `Callback` would send the message to another topic.
`hal_event_wait` is an empty function, so the consumer has no step that waits.

`InOrder` follows a producer's own messages along their `Path`: in the
consumer's hands, in the queue, in the producer's. Numbers rise along it and
none is missing up to the last one allocated.

### OpQueue

`perform_command` is an operator with the value it returns as a parameter. The
stack (`stack`) holds what a runner started until it is reported. `Eager` says
whether the task calls `ble_opq_process` while an operation runs; nothing in the
code forbids it. Without it, one operation runs at a time and none that waits is
lost. With `Eager = TRUE` TLC finds `WaitsItsTurn` violated: the operation has been
popped when `perform_command` finds that it must wait (`ble_op_queue.c:70`). `heap` only grows,
because nothing frees the nodes; when it is full the next push writes through
NULL (`fault`), and `QueueDrains` holds up to there.

### BleHost

`active`, `adv` and `events` belong to the stack, which connects, disconnects and
reports on its own. The host task handles one event per step; the command to
the advertiser is a step after it, because the stack may move in between. The
link table is used by the host task alone, so a call into it is one step.
Assumed of the stack, from how the handlers use it: a connection ends the
advertising that led to it, events come in order, one for each change, and
reports are only made of connections that exist at that moment.

### CsEvents

State: the three static variables of `ble_cs_event_handler.c`. An event is one
step, made by the controller (`proc`: the procedure of each connection, and
whether it owes continued results) and handled at once. The ranging profile
(`ranging`, `registered`) is the SDK's; a call of it may be refused, and what
`handle_sub_event` and `handle_sub_continue_event` do is the set of outcomes of
their calls, each made only if the one before succeeded. `calm` remembers
whether anything outside has disturbed the procedure. `running` becomes FALSE
when the second free of a copy (`ble_cs_event_handler.c:190`) stops the program.

`WholeProcedure` is what the handler gets right. Its exceptions are the model's
account of what it does not, and TLC shows each when the exception is dropped:

- the counters start at 0, since `ble_cs_init` fills two other arrays with the
  invalid counter, and stay when a connection ends: a procedure with the
  counter its handle had last is not started, only added to and ended;
- a start that is refused, or has no antenna paths, is not tried again, and the
  results that follow go into whatever the profile had before;
- the end of one connection's procedure drops the continued results another one
  still owes.

### Log

A call is `Call` (the level, before the lock), `PEND_MUTEX`, `Build`, `Sent`,
`POST_MUTEX`. A line is the length that the code counts and the number of bytes
written up to the first gap; each function of `log_format.c` is an operator on
it. `log_init(t)` is the log runner's second initialisation, which makes the
mutex anew; `late` says it came while a line was under way. After that two lines
may mix and a waiting task may wait for ever, so the properties except it. No
one starts the log runner in `main.c`.

`InLimits` are the sizes that `log_define.h` provides for. Beyond them the
length sent and the bytes written differ: a formatted text of 330 or more
(`vsnprintf` returns what it would have written), a prefix of more than 20, a
dump without a caption (eight bytes are counted and not written). Within them a
line of more than 330 bytes, such as a full dump with a long caption, goes out
without its end of line, as `log_format_append_eol` compares the whole length
with the size of the content.

### Printf

A call of any function of the family: `Enter` makes the output gadget, each
ordinary character is one step, each directive two: `Parse` (flags, width,
precision, length, up to the specifier) and the action of its specifier.
`Terminate` writes the NUL and gives the length. `pc = "outside"` says that the
format was read behind its end or `powers_of_10` outside its bounds. Whatever a
conversion prints is an operator of `PrintfNumbers` that builds its buffer in
reverse, as the code does, and drops what does not fit.

A floating-point value is a fraction, not a double. The code's order of scaling
matters only for how doubles round, so the model keeps what is decided (the
exponent, the digit that is carried, the tie, the notation) and computes exactly.
What the rounding of doubles itself does to a last digit is not in the model.

`PrintfText` says in its own way what each directive should print, from the
tables of `ext/printf/README.md` and the C standard they summarise. `MCPrintf`
spells formats from directives whose meaning it knows, and `TextRight` and
`FloatsRight` compare: the text, the part of it the buffer has room for, its NUL,
the untouched rest, the returned length, and what `%n` stored. `Meaning` in
`Printf` gives a parsed directive its meaning as `PrintfText` has it. `OddInteger`
there, and `OddFloat` in `MCPrintf`, name what comes out otherwise. `StaysInside` is stated on the parse, so
that it says the same of a format nobody spelled: `TooPrecise` names the
directives for which `powers_of_10` is read beyond its end, and it asks nothing
of an argument that is not of its directive's type (`Typed`). See Deviations.

## Deviations

What the code does and its documents, or a reader, would not expect, as the
models show it. The first three are runs that TLC ends with a violation; the
others are the exceptions the properties name.

`lib`:

- `kv_list_remove_node` counts one node down twice when two tasks remove it
  (`kv_two_managers`);
- `kv_list_at` tests the wrong node (`kv_at`);
- `LIST_REMOVE_NODE` leaves a neighbour's arm wrong (`linked_list_remove_node`);
- `linked_list_sort` waits for itself; `lw_list_exist` may miss a node that is
  in the list; `log_init` under a line makes the mutex anew.

`printf.c`, integers and formats:

- an integer with more characters than the 32 of its buffer loses its sign, its
  prefix or its first digits (`%033d` of a negative number has no `-`);
- `%#b` of 0 with a precision prints the prefix; `README.md:219` of `ext/printf`
  gives the prefix to values other than zero;
- `%lln` stores a `long`, as 1546 is tried before 1548;
- a format that ends in the flags, the width or the digits of a precision prints
  its NUL and the loop goes on behind the format, although
  `PRINTF_CHECK_FOR_NUL_IN_FORMAT_SPECIFIER` (147-154) is there to check for it:
  only `ADVANCE_IN_FORMAT_STRING` does;
- `(null)`, `(nil)`, `nan` and `inf` under `0` are not padded on the left at all.

`printf.c`, floating point:

- `powers_of_10` is read beyond its end by `%.20f` of more than 1e9 (1169-1180
  returns before the limit at 1188), by `%.17g` of 0.01 (1090 makes the limited
  precision larger), and by a precision of more than 49;
- `%.20g` prints zeros for the digits it does not compute before the others
  (1 becomes `1000`...);
- a tie at one digit (`%.0e`, `%.1g`, `%.0f` of a large number) is rounded by the
  decimals of the mantissa, and goes down (804-808);
- a large `%f` without a precision prints no decimals instead of six;
- `%#g` of a number that rounds up to a power of ten has a decimal less (1094-1098).

## Runs

| run | bounds | shows |
|---|---|---|
| `kv_list` | 2 tasks, 2 keys, depth 2 | seven invariants, all functions; `KvList` implements `KvMap`; every call returns |
| `kv_two_managers` | 2 tasks, depth 2 | violation: `CountMatches` |
| `kv_at` | 1 task, depth 2 | violation: `AtGivesNthItem` |
| `linked_list` | 3 tasks, depth 3, array; one may sort | the mutex, links, ownership, `ListSeq`, every call returns unless one sorts |
| `lw_list` | 1 task looks, 1 changes, 3 nodes, heap, all functions | what the answer of a search is worth, with the lock and without |
| `linked_list_remove_node` | 1 task, depth 3 | violation: `WellLinked` |
| `msg_bus` | 2 producers of 2 messages, 2 topics, heap of 3 | no leak, order, own topic, all handled |
| `op_queue` | 4 operations, heap of 5 | one at a time, none lost, queue drains |
| `cs_events` | 2 connections, 2 counters, 3 results | an undisturbed procedure reaches the profile whole; no false end |
| `log` | 2 tasks, texts, dumps and numbers at the bounds | one line at a time, length sent is length written, every call returns |
| `ble_host` | 3 handles, 2 connections, 4 waiting events | table and advertising follow the stack |
| `printf` | every flag set, 5 widths, 5 precisions and 9 conversions of bounds and ties; lengths, texts and stars; 6 formats of several directives at 10 buffer sizes; 10 formats cut short | text, length, NUL and counts are what the directives mean; nothing is read outside |

Why these bounds are enough to be interesting: depth 2 of `kv_list` has a hole
before a used node, a full and an empty list and an order to sort (the proofs
hold for any depth); the depth 3 of the linked lists has a first, a middle and
a last node; two keys are ordered both ways and can repeat; two tasks give every race of a test and a lock, a
third (in `linked_list`) gives a waiter that others could overtake for ever; a heap of 3 runs out
with 4 messages to send; two connections with three handles let a handle be used
again while another link is up, and four events cover a connection that ends
and comes back before the first event is handled; two counters suffice because
the handler only compares a counter with the last, and three results are a first
one, a continuation and a last; the texts of `log` lie at and on both sides of
329, the last that fits, and its dumps at 100 bytes, the last that is not cut.
The two connections of `cs_events` are symmetric; its properties are safety.
`lw_list` needs three nodes so that a walk can stand on a middle one.

`printf` scales the sizes of the code down together, so that short texts reach
all of them: an `int`, a `long` and a pointer have 8 bits beside an integer buffer
of 8 characters (32 and 32 in the program), a `long long` 16, a `char` 3 and a
`short` 4; the decimal buffer has 12 characters, the default precision is 2, more
than 2 digits before the point are large, 3 decimals are supported, the exponents
end at 9, and the largest buffer is 40. Widths lie below, at and beyond the
integer buffer, precisions below, at and beyond what is supported, and the
numbers are zeros, ties, numbers that round up to a power of ten, and both sides
of the bounds.

Deadlock is checked where the system runs for ever. It is not in
`linked_list` (a sort stops for ever), `lw_list` (the same, and a task that writes
through the arm `linked_list_remove_node` left wrong), `msg_bus` (all messages
sent), `op_queue` (fault), `cs_events` (a heap error stops the program) and
`printf` (a call that read outside has no next step).

**Fairness.** `KvList`, `LinkedList`, `Log`: a ready task runs (weak fairness of its
steps) and the semaphore is handed to its waiters in turn (strong fairness of
`Lock` or `PEND_MUTEX`), as FreeRTOS does among tasks of one priority; when to call is the
task's own choice. `MsgBus`: the consumer is called in a loop and a producer
finishes its call. `OpQueue`: the task finishes its loop, processes again when it
may, and the stack reports every operation. `BleHost`: the host task is woken for
each event. The peers of the radio owe nothing. `LwList` and `Printf` state
safety only: a walk over a list that others change need not end, since a node
pushed again can lead it around for ever, and a call of printf is a finite loop.

## Proofs

`KvListProofs`, assuming `ConstantsAssumption`, for any number of tasks, keys and
nodes. Two inductive invariants:

`Base` holds whatever the tasks call, and gives `MutexCorrect`,
`SortedFlagCorrect` and `DataCorrect`:

- which functions a task can be in at each `pc` (`Control`), and mutual exclusion;
- the node an add is about to fill is still free (`TargetFree`): it is chosen and
  filled under one lock;
- the flag, and `DataFollowsKey` with the fact that no two nodes share a block,
  which sorts keep because they move whole nodes;
- the types, but for what `kv_list_at` answers (`Typed`): when two tasks have
  counted one node down twice, its test against count no longer keeps the index
  inside the array.

`Inv` assumes `SingleManager` besides, and gives `TypeCorrect`, `CountCorrect`,
`RemoveCorrect` and `UseCorrect`. It contains `Base` (`InvBase`) and

- `RemovesItsItem`: between the test of `kv_list_remove_node` and its lock, only
  the manager could vacate or move the node, and it is the one waiting. This
  makes the decrement right, so `CountMatches` is inductive only together with it;
- that a node which the manager holds or removes leads to its item (`ItemAt`),
  which adds by others keep, as they fill another node and another block.

There is one lemma per action and the count part is separate from the others,
since it alone needs cardinalities.

From `SingleManager` too, `RefinesKvMap` proves that `KvList` implements `KvMap`.
Besides the invariant the mapping needs what a task carries at each place
(`Carries`: no request when idle, a walk's copy only until its return) and that
a used node has a caller's key (`UsedKeyed`), so that the bag of keys holds as
many items as there are used nodes. That last count pairs each item with a node
(`SizeIs`) and makes the refusal of a full list the refusal of a full bag. Then
there is one lemma per action: the locked half that writes is the operation on
the bag, the test that answers before the lock is an operation that finds nothing
to do, and every other step is a stutter.

`OpQueueProofs`, assuming `~Eager`, for any operations: `TypeCorrect`,
`OneAtATimeCorrect`, `WaitsCorrect`. `OneAtATime` needs that the loop of
`ble_opq_process` goes on only while nothing runs (`LoopIdle`).

`LogProofs`, for any tasks, names, texts and dumps: `TypeCorrect`,
`OneLineCorrect`, `SentCorrect`. The invariant says who holds the mutex unless
`late` (`Holding`), and that a line being sent is the one its call builds
(`Lines`). `SentCorrect` then rests on lemmas about the formatting functions:
writing at the end of a line without gaps leaves none (`PutWhole`), the prefix
and each content within the limits keep that and leave two bytes
(`Prefix`, `ContentFits`, `BuiltFits`).

`CsEventsProofs`, assuming `CsAssumption`, for any connections, counters and
results: `TypeCorrect`, `WholeCorrect`, `DoneCorrect`. `WholeProcedure` is not
inductive: it says nothing of why the next result will be added to the same
procedure. `Undisturbed` does: while a procedure that nothing disturbed runs, its
counter is the one kept for its handle and its peer is registered, and the gate
that all connections share is open while it owes continued results. What each
chain of calls into the profile may return is stated once, in lemmas
(`PassedOutcome`, `SubEventOutcome`, `ContinueOutcome`); another connection's
event then either leaves the invariant of a handle alone or disturbs it
(`OthersFine`).

`LinkedListProofs`, for any tasks, depth and calls, array or heap:
`TypeCorrect` and `MutexCorrect`. When nobody calls `linked_list_remove_node`
(`NoRemoveNode`, which `linked_list_remove_node` shows to be needed) also
`LinksCorrect` and `NodesCorrect`. Their invariant has

- `Control`, which functions a task can be in at each `pc`, and the mutex;
- `Stage`, what a task knows of its node between the half of an operation that
  reads and the half that writes: the arms it set still name the present head or
  tail, the end it is about to take is still the end, a slot it found is still
  free. This is where the lock matters;
- a sequence `s`, which exists, of distinct nodes, that head, tail, count and
  both arms describe (`Ordered`);
- each allocated node is in `s` or in one task's hands, and in one place only
  (`Placed`). A task that frees without the lock touches only the arms of its
  own node, which is not in `s`.

The properties speak of the walk along the arms (`Chain`), which is a recursive
function. `ChainIs` shows that the walk is `s`: of the places where they differ
one would be the first (`Least`), and there the arm leads on to the next node of
`s`.

`RefinesListSeq` follows from that invariant, one lemma per
action: a push or pop takes effect where it writes the ends, a refusal where it
reads them, an allocation and a release where the used flag changes, and every
other step leaves the sequence, the pool, hands and refusals alone.

The part of `LinkedListProofs` about `LwList`, for any tasks, depth, calls and
searches, and without `NoRemoveNode`: `ExistCorrect`, `WalkExcludes` and `RemoveNodeDamages`. The invariant follows a walk
that has seen no damage:

- `LwTypes`, which functions a task can be in at each place, the mutex with the
  walk of `linked_list_exist` under it, and that what a pop is about to take is
  still at its end;
- `SeenAll`, that `seen` has what holds now;
- `Leads`, that the arm from where the walk stands leads into the list or
  nowhere. A node that was taken out has its arm cut, and stays so until a task
  is about to put it before the head;
- `Arrived` and `Ahead`, that a walk at the node it looks for has seen it in the
  list, and that otherwise the node is ahead of it, unless one of the two left.

`Ahead` needs that no step exchanges two nodes of the list. A list that is well
linked is a row of places (`Row`), none of them taken twice, since a walk that
came back to a node would by the left arms have come back to the head
(`LinkedIsLaid`). A step between two such lists keeps either the front of the row
(the head, and every arm it does not cut) or the back of it, so that each node
that stays keeps its distance from that end (`FrontPlaces`, `BackPlaces`,
`RowOrder`), and at most the node at the other end leaves. Of
`linked_list_remove_node` this says more, for every list and not only the one the
run `linked_list_remove_node` finds: the list it leaves is well linked only where
it took the only node (`RemoveNodeAlone`, `RemoveNodeDamages`). Taking an end
leaves the new end's arm to it, and taking a node in the middle clears the way
back that it should have redirected.

`MsgBusProofs`, for any finite set of producers, any channels, topics and heap:
`TypeCorrect`, `MemoryCorrect`, `TopicCorrect`, `OrderCorrect`. The first three
need what the consumer has in hand at each place (`Consuming`): between the
lookup and the call the node still leads to the topic that was looked up, since
only the consumer sorts and a registration only appends. `InOrder` needs that no
number is used before it is allocated (`Below`) and that a producer's hands
hold its own last message (`Hands`).

`BleHostProofs`, for any handles, table and queue: `TypeCorrect` and
`AdvCorrect`, and, if the table has a node for each connection the stack allows
(`RoomForLinks`), `PairingCorrect` and `TableCorrect`. `AdvMatchesRoom` says
nothing while events wait. `Stopping` and `Starting` say what must still be
waiting whenever advertising does not match: with no connection left, an
established event behind every terminated one; with one left, a command, a
terminated or an established event. For the table, `TableInv` says there is a
history of connection sets along the queue, from those the table holds to those
the stack has, each following from the one before by the event between them;
handling an event drops its first member, a new event adds a last.

`PrintfProofs`, for any calls, formats, arguments, widths of the types and sizes
of the buffers: `ReadsStayInside`. It assumes `PrintfAssumption`,
`SizesAssumption`, and that a format is a C string, without a NUL before its end
(`FormatsAssumption`). The invariant says where the parser stands (`Position`):
in the loop `at` is at most one behind the NUL, and behind it only if the format
ends in a flag or a digit; past a parse the specifier is in the format, or it is
its NUL and the format ends so (`Read`). One lemma for each part of the parse
shows that it keeps this (`ParseFlagsReads` to `DirectiveReads`): a part that
advances is cut at the NUL, one that skips flags or digits is not. That is where
the code looks for the NUL and where it does not. For `powers_of_10` a chain of
lemmas follows the precision from the directive to the index
(`ZerosLeave`, `ExponentialInside`, `NormalizedInside`, `MantissaInside`,
`ComponentsInside`): every path on which nothing limits it again is `TooPrecise`.

`IntegersRight` says what a conversion of an integer prints, for every flag,
width, precision, length and argument, every width of the types and every size
of the buffer: what `PrintfText` says the directive means, unless it is one of
`OddInteger`, whose digits with zeros, prefix and sign do not fit the buffer, or
`%#b` of 0 with a precision. `IntegersPrinted` says it of the calls: whatever
came before it, an integer directive whose stars and argument are integers puts
out its meaning; for that the invariant of `ReadsStayInside` also says what the
parse makes of width, precision and flags (`Parsed`). The two sides know nothing
of each other: the code divides its digits off, lowest first, fills, takes zeros
back for the prefix, and reads the buffer backwards; the reference counts the
digits, computes each from its power of the base, and lays out head, zeros and
body. `LowDigitsAre` and `DigitsShown` identify the digits, `FinalizeIs` says
what the buffer holds when nothing is dropped, `RightWay` what that is backwards
(a zero in front of an octal number is a prefix in the code and a digit in the
reference), `Matches` that the field is the same, and `BodyMatch`, `HeadMatch`
and `TextIsField` that its parts are those of the reference. For the bounded
calls of the run TLC finds the same (`TextRight`).

The digits of a width, a precision and a number are recursive functions; that
they are defined at all is shown once, for any such function (`Recursion`), by
the least number at which two attempts would differ, and what they compute by
the least number for which it would not hold (`Induction`).

Model-checked only: liveness (`CallsReturn` of `KvList`, `LinkedList` and `Log`,
`AllHandled`, `QueueDrains`, `RoomLeadsToAdv`), which is out of the prover's reach, as is
ENABLED; `TextRight` beyond its integer directives, for it goes through formats
that `MCPrintf` spells and texts that come one behind the other; and
`FloatsRight`: what the floating-point operators of `PrintfNumbers` compute with
fractions, carries and ties, for every number, is not proved. No recursive
operator is used.

## Not modelled

The UART runner: planned below. The GATT
profiles (not started), `ble_scan`, `hal_drv`, framework and main: calls into the
SDK in sequence. The time tick, level symbol and ITM back end of the log: off in
the default configuration. Of `ext/printf`: the options that are off (bit lengths in the style of MSVC, weak
functions), the rounding of doubles itself, and `strnlen_s_`, which reads one
character beyond the precision. The contents of items, messages and
links; `result_callback` (never called); `kv_list_init` on a list in use.

## Plan

Done, in this order: `KvList` with `KvMap` and its proofs, `BleHost`,
`LinkedList` with `ListSeq`, `MsgBus`, `OpQueue` and its proofs, `CsEvents` and
its proofs, `Log` and its proofs, `LwList`, `Printf`, the proofs of
`LinkedList`, `MsgBus`, `BleHost` and `LwList`, the proof that `KvList`
implements `KvMap`, the proofs of what `Printf` reads and of what its integer
directives print.

1. `UartEcho` for the semaphore that starts at one.
