# TLA+ models of the ASNeG-Demo server

ASNeG-Demo is an OPC UA server application. The protocol, the sessions, the
address space and the threads belong to the OPC UA stack (OpcUaStack, not part of
this repository). The repository's own program is a shared library of about 5000
lines of C++ (`src/ASNeG-Demo/Library`) that the stack loads: it simulates values,
raises an alarm, fires events, checks users, serves historical reads and methods.

This directory specifies the stateful parts of that library in TLA+, model-checks
them with TLC, and proves the properties that matter most with TLAPS. Paths below
are relative to the repository's root. `PROJECT.json` maps every definition to the
lines it models and lists runs, mutants, findings, hazards and theorems.

## 1. Inventory

### 1.1 Threads and interfaces

Three kinds of threads run the library's code, and the models keep them apart.

| thread | what it runs | in the models |
|---|---|---|
| the main thread | `DemoLibrary::startup`, which calls the `startup` of each component in a fixed order and ignores the results (`DemoLibrary.cpp:53-62`) | `main`, `Main`, the `Startup` actions |
| server threads of the stack | read, write, method, authentication and history callbacks | `Workers`; actions with a parameter `w`, `s` or `c` |
| the I/O thread `ioThread_`, with one slot timer | `timerLoop` of TestFolderLib, TestStatusCode, Event and Alarm, one after the other | `Timer`, or the variables `at` and `phase` |

The stack documents no limit on server threads in this repository, and the library
takes no lock anywhere. Hence the models let server threads interleave with each
other, with the I/O thread and with startup at every access to shared state.
`applicationServiceIf_->sendSync`, `getValueSync` and `setValueSync` are synchronous:
each is one step of the thread that calls it.

A component registers its callbacks in the middle of its startup, so requests may
reach it before its startup is over, and keep reaching it after a startup that has
failed: nothing is ever unregistered. The repository does not say whether the stack
opens its endpoints before or after `startup`, so the models let requests arrive as
soon as a callback is registered. Where a property holds only if they do not, it
says so with a history variable (`early` in `Alarm`, `overlap` in `LoopTimer`).

### 1.2 Components

For each: state, operations, what is hard, what makes it correct.

**Alarm** (`Alarm.cpp`). State: thirteen weak references to nodes of the address
space, which hold the condition's state: Acked, Confirmed, Active and Enabled, each
as a text node and as a Boolean `_Id` node, and a comment. Operations: `startup`
(look up the namespace, the node identifiers and the references, register seven
method callbacks, write default values, start the timer), the methods
`acknowledge`, `confirm`, `enabled`, `disable`, `conditionRefresh`, and the
activation `timerLoop`, every 60 s. Each of them ends in `sendAlarmEvent`, which reads
eight nodes and fires an event. Hard: a handler is a sequence of up to fifteen
accesses to single nodes, interleaved with those of other handlers; the check of
`enabledState_Id` is separated from what it guards. Correct: disabling stops
activations; text and `_Id` agree; an event reports what its handler has done;
an enabled alarm is activated again and again.

**TestFolderLib** (`TestFolderLib.cpp`). State: `valueMap_`, a data value for each of
some forty nodes; `baseNodeClassWMap_`, references to the same nodes in the address
space; `loopTime_`, the update period; `slotTimerElement_`, the timer. Operations:
`readValue` and `writeValue` (clients, on `valueMap_`), `readLoopTimeValue`,
`writeLoopTimeValue` (which replaces the timer), `timerLoop` (computes the next value of every
node, stores it in `valueMap_` and publishes it to the address space). Hard: the map
is read and written field by field by several threads; a value exists twice; the
timer is replaced through a shared pointer; numbers are converted between types.
Correct: readers are never behind subscribers and agree with them in the end; writes
are not lost except to the update in progress; numbers stay in their ranges; exactly one timer
runs, with the period that the node shows, and it never stops for good.

**TestStatusCode** (`TestStatusCode.cpp`). State: as TestFolderLib, and `statusCode_`, which toggles
between Success and BadNotConnected when a round finds that five seconds have passed since
`switchTime_`. Operations: as TestFolderLib; `timerLoop` updates arrays in place, one
`get` and one `set` per element (`updateArray`), and publishes every value with `statusCode_`. Hard: an array is
updated while clients read and replace it; rounds may be late or doubled; nodes 221 and 222
of the map share one data value; a client may write any type, and the round passes over a node whose type its
switches do not list. Correct: all nodes that are published show the status of one round, and both come again and again; the
elements that a client sees belong together.

**Authentication** (`Authentication.cpp`). State: `userProfileMap_`, six users with the
one service each is denied and on which nodes; five protected values; per session, kept by the stack,
the user context that the callback has returned. Operations: `startup` (namespace,
callbacks, values, users, in this order), `authenticationCallback`,
`autorizationCallback`, `closeSessionCallback`. Hard: the callbacks are in force before
values and users exist; sessions change users; the denied nodes are named twice, in
the profile and in the information model. Correct: no named user before the protected values are set;
each user is denied exactly what the profile says.

**HistoricalAccess** (`HistoricalAccess.cpp`). State: none between requests; the
continuation point travels through the client. Operations: `readHValue` (a page of a
constant history), `readHEvent` (five constant events). Hard: the index is text
that comes back, page sizes change from request to request, indices are `uint32_t`.
Correct: a client that follows the points has every entry once, in order.

**Event** (`Event.cpp`). State: `counter_`, a timer (5 s). Operations: `startup`,
`timerLoop`, which fires three events from three nodes, each with the next number.
Hard: the request that fires an event may fail, its number is used up all the same.
Correct: an event's number tells its node.

**DemoLibrary** (`DemoLibrary.cpp`). State: the I/O thread `ioThread_` and the ten components.
Operations: `startup` and `shutdown`. Hard: startups fail halfway and nobody asks; the
components' shutdowns do nothing, so callbacks stay registered and timers armed until the
I/O thread ends; one thread runs the rounds of four components. Correct: no component
keeps another from being started; every armed timer gets its turn; no round runs after the shutdown.

**Function**, **ServiceFunction**, **Discovery** (`Function.cpp`, `ServiceFunction.cpp`, `Discovery.cpp`):
a startup that registers callbacks; the callbacks compute their answer from the request
(`ServiceFunction` hands `Service.Reload` to the stack) and keep nothing.
**CameraAnimation**: its `startup` returns at line 61 before it does anything.
**CustomerEventType**: accessors of an event type.

### 1.3 How components interact

Components do not call each other. They share the I/O thread, whose slot timer
runs their `timerLoop`s one at a time, and the stack's address space, where each has its own
nodes. Two `timerLoop`s hence never overlap, and models of single components lose
nothing: the other components only take time on the I/O thread, and
the one thing that depends on time, the toggle of TestStatusCode, may in its model come at any time. The module `DemoLibrary`
composes them: it runs all startups in their order, the rounds on their one thread, and the
shutdown, and shows what these statements rest on (*ComponentsIndependent*, *RoundsShareThread*).

## 2. Modules

| module | models | EXTENDS / INSTANCE |
|---|---|---|
| `AlarmCondition` | abstract: what the alarm promises | - |
| `Alarm` | `Alarm.cpp` | instance of `AlarmCondition` with a refinement mapping |
| `ValueStore` | abstract: versions of values, what readers and subscribers may see of them | - |
| `TestFolderLib` | startup, `writeValue`, the update round and its publication | instance of `ValueStore` with a refinement mapping |
| `TestStatusCode` | `TestStatusCode.cpp`: the toggled status, arrays updated in place, the shared data value | - |
| `ValueWalk` | the arithmetic of one update (`updateSingle`) | - |
| `LoopTimer` | `startTimerLoop`, `writeLoopTimeValue` and the timer element | - |
| `Authentication` | `Authentication.cpp` | - |
| `HistoricalAccess` | `readHValue` and its clients | - |
| `Event` | `timerLoop` of `Event.cpp`: the numbers of events, and lost events | - |
| `DemoLibrary` | the life cycle: startups of all components, the I/O thread, shutdown | instance of `Event` |
| `MC*` | the module TLC runs on, with sets too long for a `.cfg` | the module of that name |
| `AlarmProofs`, `TestFolderLibProofs`, `TestStatusCodeProofs`, `DemoLibraryProofs`, `ValueWalkProofs`, `HistoricalAccessProofs`, `LoopTimerProofs`, `AuthenticationProofs` | theorems | the module of that name, TLAPS |

Comments that begin with "Mutant" mark definitions that no module uses: plausible
bugs, each a variation of the definition below it, with which TLC must
find the property violated that `PROJECT.json` names. They keep the properties honest.

### 2.1 Alarm

`node[n]` is the value of a node, `op[t]` and `step[t]` say where thread `t` stands in
its handler. `Writes[o]` lists what handler `o` writes in the order of the code, and
`Reads` what `sendAlarmEvent` reads; `WriteNode`, `ReadNode` and `FireEvent` are one call of
a setter, of a getter, and of `sendSync`. `Expire` is the entry of `timerLoop` with its check;
an expiry while the alarm is disabled returns at once and is a stutter. `Call` is a method
call; a method is callable once one of its registrations is in force. `Lookup` and
`registerCallback` may fail and then leave everything as it is, as the code does.

A text is abstracted to the state it names. `Null` is a node that nobody has
set: the text getter then returns an empty text and the Boolean getter its uninitialised local
variable, so an event that carries `Null` carries an arbitrary Boolean; for `Expire`, which would branch on it,
the case cannot arise, because the timer starts after the defaults are
written (the proofs carry this in their invariant). A node that has been deleted from the address space (`lock` fails) is left out: the demo
deletes none.

History variables: `late` (activation events since the last disable), `serial` (no two
handlers have overlapped), `early` (a client has called before startup was over). No
guard reads them.

`AlarmCondition` is the promise: the four variables, each with two fields; a handler
brings exactly its own variables to its own states, treating each field once before
it returns, in any order. `Alarm` implements it under the mapping
`field <- node`, `running <- op`, `todo <- ` the nodes the handler has still to write;
the reads and the event are stutters, up to the return.

### 2.2 TestFolderLib, ValueWalk, LoopTimer

The component is cut along three concerns that share little state.

`TestFolderLib` knows a value by the client write it stems from (`by`), by its type and by whether
the simulation has computed it (`form`). A read or a write of a variant, and of the remaining fields of a data
value, is one step each: `WriteVariant` and `WriteStatus` are the two halves of
`copyTo` in `writeValue`; `Select`, `GetValue`, `SetValue`, `Stamp`, `CopyVariant`,
`Publish` are the accesses of one update, from the `switch` to
`setValueSync`. Readers are not modelled: `readValue` changes nothing, and the properties speak of
what it would return.

`ValueStore` is what the component promises, without threads, types and status codes: each node has a current and a
published version; one updater takes the current version of a node in hand, and puts it back or publishes it.
`TestFolderLib` implements it under the mapping `current <- value[n].by`, `published <- node[n].variant.by`,
`last <- writes`, `hand <- InHand`, which is `got` before `setValue`, `copied` before `setValueSync`, and else empty.
`GetValue` and `CopyVariant` take, `SetValue` puts back, `Publish` publishes; startup, statuses and timers are stutters.

`ValueWalk` has one row for each numeric case that is clamped. Sums are in hundredths, so
`myPercent()` is exact. A conversion that C++ leaves undefined (a negative or too large
double to an integer) may wrap, saturate or give the processor's indefinite value.
A float is sampled at whole numbers, and NaN is a value of its own. The other
cases (a counter that wraps, a Boolean that flips, random texts) have no range to keep.

`LoopTimer` breaks both handlers into their accesses of `slotTimerElement_`.
`member` is the pointer, `started` the elements that the slot timer runs, `overlap` the
history of what has overlapped what. Using
the pointer while it is null ends the process (`UseNull`, `main = "crashed"`). The
test `timerInterval_ == 0` (line 559) never succeeds, because the period has been
raised to 100 by then; `Bounded` says so.

Concurrent access to a `std::map` and to a `shared_ptr` is a data race, whose
outcomes C++ does not bound. The models take each single access as atomic.
They say what holds if the individual accesses do no harm; the races are listed under "hazards".

### 2.3 TestStatusCode

An element is known by the write it stems from (`by`) and how often it has been updated since (`count`,
modulo `Width`, since counters wrap and Booleans flip) and its type: one of two that the update reads and sets, DateTime, which it only sets, or one of the `default` of its switches. A
variant is a scalar or an array, which may be empty, and carries the write that has put it there. `Select` finds the reference and asks
`isArray()`, which decides between `updateSingle` and `updateArray`; `Switch` asks for the type. A type of the `default` case (lines
816-820 and 1007-1011) ends the update of the node there: it is neither stamped nor published, and the round goes on (`Skip`), as
it does past a node without a reference. `TestSize`, `GetElement` and
`SetElement` are one turn of a loop of `updateArray`: `size()`, `get(pos)`, `set(pos, ..)`; in `updateSingle`, `GetElement` and
`SetSingle` are `get()` and `set(..)`, and the latter makes the variant a scalar whatever a client has put there. A DateTime is set without
a `get` (`FirstAccess`); it counts as an update of the element it replaces (`Dated`), also where a client has put an array of another type in place.
`Stamp`, `CopyVariant`, `Publish` end the update as in `TestFolderLib`. The status `Written` is any status a client may send.
Where the new element does not depend on the old one (random texts) the count is the number of renewals.
A client's write may be of any type and shape, and may land between any two of these steps, so an array may
come to hold elements of two types.

`due` says that the clock is five seconds past `switchTime_`; `ClockAdvances` sets it at any
time and `Expire`, the entry of `timerLoop`, reads and resets it. `DataOf` maps node 222
to the data value of node 221 (lines 286-290). `AccessFails` is a `get` or `set` behind the end of an array that a
client has shortened since `size()`, or the `get` of an element that is no longer of the type of the `switch`; what the stack's
variant does then is not defined here, and the behaviour ends.

Three assumptions about the stack are in the model: a variant's type is that of its first element, and an
empty array has none that the switches list (`TypeOf`); `copyTo` copies a whole variant in one step, and the status code and the
timestamps in another; a `get` or `set` of one element is one step.

Left out: node 227, whose three elements point to the text of node 226, and that elements with a `shared_ptr` (texts, GUIDs, node identifiers) are changed through the pointer before
`set` stores it again. Whether a copy of the variant shares the object is up to the stack; the properties
speak of elements that are copied.

### 2.4 Authentication

The five variables, and the five objects, of the namespace have equal permissions
and are merged. `context[s]` is the user context of session `s`; anonymous and X509 sessions have none.
That a refused login leaves a session as it was, and that a closed session has no context,
is how the code's callbacks use the stack, not something the repository defines.

### 2.5 HistoricalAccess

`ReadPage` and `Release` are a request and its answer, `Restart` a client that begins again, `AllocationFails`
the failure of `resize` when a wrapped sum puts the end before the start. The
continuation point is the index itself: `lexical_cast` gives back the number the
stream has printed. Clients send only points that the server gave them. `turn` flips with every answer, so that an
answer without progress is a step that liveness can see.

### 2.6 DemoLibrary, Event

`pos[c]` counts the steps that component `c`'s startup has done; `Steps` lists them, from the ten `startup` functions. A step is a
request that may fail, for the components in `Failing`; the last step of a timed component arms its timer. `at` is the place of the component that is
started or shut down. `writeLoopTimeValue` arms a timer, too, from the registration of the loop time node on and through the shutdown. `Expire`
begins a round when none is in progress, for the slot timer runs on one thread; what a round does is in the components' own modules, except the
three events of `Event`. `IOThread` belongs to the stack: that its shutdown begins no further round and waits for the one in
progress is taken from the order of `DemoLibrary::shutdown`, which relies on it, since the library may be unloaded afterwards.

`Event` knows an event by its node and number. `SendEvent` merges `sendEvent11`, `sendEvent12` and `sendEvent21`, which
differ in the node and in constants. A number is used up whether or not the request succeeds.

## 3. Runs

Each run takes about half a minute or less with two workers on a current machine. Deadlock is not checked where the system may
really stop: a startup that has failed leaves nothing to do but to wait for calls,
bounded writes run out, a crashed process stays crashed, and a library that is shut down stays so.
`ValueWalk` has no such state, and deadlock is checked there.

| run | instance | distinct states | question |
|---|---|---|---|
| `alarm` | one worker, all five methods, calls from the first registration on | 353913 | state fields and events; refinement of `AlarmCondition`; re-activation |
| `history` | two clients, ten entries, 4-bit indices, every page size | 24954 | does paging give the whole history? |
| `value_walk` | all values; 32- and 64-bit types narrowed to 10 and 13 bits | 166001 | do numbers keep their ranges? |
| `loop_timer` | two workers and the main thread, periods 0 and 5000, four elements | 232278 | which timers run? |
| `values` | one worker, two nodes, two writes | 238462 | what do readers and subscribers see? refinement of `ValueStore` |
| `status_code` | one worker, one node, a scalar or an array of up to three elements of four types, one write | 478560 | what do clients see of an array and of the status? |
| `authentication` | one session, six users | 2044 | who may do what, and when? |
| `life_cycle` | ten components, three of which may fail at any request; event numbers modulo 7 | 39212 | does the library start, share its thread and stop as it should? |
| `history_release`, `values_range`, `authentication_events` | the same instances | - | section 5 |
| `status_own` | two nodes that share a data value | - | section 5 |

What they show:

`alarm`. *AtMostOneLateActivation*: after a disable at most one more activation event,
that of an activation that had passed its check. *ActivePairAgrees*: the text and the `_Id` of
ActiveState agree outside the two writes. *SerialAlarmCoherent*: as long as handlers have not
overlapped, an idle alarm shows four pairs that agree, is not confirmed without
being acknowledged, and does not wait for a confirmation without having been active.
(With overlaps this is false: two workers in `enabled` and `disable`, or a worker in `confirm` and the timer, can
leave a pair that disagrees.) *EventsDefined*: an event carries undefined fields only after an early call or a failed startup.
*ActivationReportsActive*: the event of an activation reports an active alarm, whatever clients call meanwhile. *ImplementsCondition*: the
refinement. *ReactivatesWhileEnabled*: an alarm that stays enabled is activated again and again.

`history`. *CollectsPrefix*, *CompleteMeansAll*, *EventuallyComplete*: a client that follows
its continuation points gets every entry once and in order, and gets to the end, whatever page sizes it
mixes, until a sum wraps. Ten entries and indices modulo 16 give pages that end before,
at and after the end of the history, and sums on both sides of the wrap.

`value_walk`. *TickInRange*: one update brings any number into the range of its type,
even from a conversion that C++ leaves undefined. *StaysNear*: inside the range a value moves by 4 percent
of the span or lands at an end. *NotStuck*: no value is a dead end. NaN stays NaN and is excluded. The
narrowed widths keep every range (at most 3000) and both ends of each type representable.

`loop_timer`. *TimerMatchesNode*: as long as writes have not overlapped or come early, exactly one
element runs, with the period that the node shows. *AtMostTwoOrphans*: early writes
leave at most two elements that no write can stop (one is possible with a single early write, two occur in the run).
*LoopSurvives*: however writers overlap, when all are through some element runs; *RoundsGoOn*: and it expires again and again. That
overlapping writers may use a null pointer is part of the model (`UseNull`); it ends the behaviour.

`values`. *ReadNotBehind*: a read never returns something older than what subscribers were sent.
*SubscribersInSync*: a
linked node that the round is not at, and that no client has written since its update, shows
subscribers what a read returns. *ImplementsStore*: the refinement of `ValueStore`; a write is lost only to the update that has read the value before it, and
subscribers never see an older write after a newer one. *StatusRecovers*: when clients stop writing, each simulated node
comes to show readers and subscribers the same value with a good status, so the last write that was not lost reaches subscribers. Two nodes are enough for a
round to be elsewhere, two writes for one to overtake the other.

`status_code`. *StatusShown*: a node that the round is past shows the status of this round, or one that a client has put there, unless the round has
skipped it: a node without a reference, or one to which a client has written a type the switch does not list, keeps what it showed before and does lag
behind a toggle. *OneForeignElement*: a client never sees an array with more than
one element that is not of the latest write or an update of it, although a write may land between any `get` and `set`. *ElementsKeepPace*: elements of
one write are never more than one update apart, in the map, in what is published, and in
the data value that is updated twice per round. *SubscribersSeeBoth*: once clients have stopped writing, a linked node whose value is of a type the switch lists is published with either
status again and again, as long as rounds go on. Both conditions are needed: a node of another type is not published any more,
and writes that never end may put their own status in between whenever a round publishes. One node is enough for a pass over an array, one write to land between any two accesses of it and to shorten the
array or to change its type (`AccessFails`); with three elements there are such accesses before and behind the write. More nodes, the data value that two of them share, and
further writes are covered by the proofs, for any number of them (`Shared` names the node that shares; 0 stands for none); `status_own` runs with a shared value.
Counts modulo 4 tell three successive ones apart, which is what *ElementsKeepPace* needs.

`authentication`. *NamedUserSeesDefaults*: a session has a named user only when the protected values are set, however early requests come.
*VariablesProtected*: a named user is denied exactly the service of the comment in `createUserProfiles`,
and Read only for the attribute Value.

`life_cycle`. *ComponentsIndependent*: a component whose own requests do not fail is started in full, whatever
becomes of the others. *RoundsShareThread*: a component that has been started gets its turn on the I/O thread again and again. *QuietAfterShutdown*, *ShutdownEnds*:
the shutdown ends although no component disarms its timer and clients may arm one at any time, no round runs afterwards, and none is cut short: the three events of a round of `Event` are sent all or not at all. *NumberTellsSource*: an
event's number tells its node, although events get lost. One component with a timer of its own, one whose timer clients may arm as well, and one without a timer may fail; numbers modulo
7 wrap at the same remainder modulo 3 as numbers modulo 2^32.

**Bounds.** `MaxWrites` bounds the writes of clients and `MaxElements` the timer elements
that exist at a time; both appear in the guard of the client's action only, so neither stops a thread
in the middle of a handler. `MaxLength` bounds the
arrays that clients write. `Half32`, `Half64`, `Huge`, `UInt32` and `Width` are the widths of the numbers.

**Fairness.** Weak fairness of every thread's steps: an operating system thread that can run
does run, and no handler waits for anything. Weak fairness of `Expire`: a started slot
timer element expires periodically. Weak fairness of `ClockAdvances`: a clock that is set back again and again would freeze
the status, which the code does nothing against. In `life_cycle`
strong fairness of `Expire`: an expiry that becomes due during another component's round waits in the slot timer's queue for the end of the round, and is not forgotten;
`Stop` and requests of clients are under no fairness. Clients owe nothing, with one exception: in `history`
a client that has begun to read goes on reading, since nothing else drives a read. `FairSpec` is used for all
runs with a liveness property.

## 4. Proofs

The theorems hold for every value of the constants, under the named assumptions of the modules
(threads are distinct, `numberEntries` is positive, widths are at least those of the small instance, and so on).
Every invariant and action property that a passing run checks is also proved, and so are both refinements; each inductive invariant below was first checked
by TLC on the instance of its component.

`AlarmProofs`. `Typed` strengthens `TypeOK` by which handler can run on which thread: an
activation only on the I/O thread and only once startup is over, the defaults only on the main thread. **TypeCorrect** follows.
**DisableStopsActivations** (`AtMostOneLateActivation`) needs `LateInv`: when the alarm is not disabled, `late` is 0;
and while the timer is in an activation, `late` is still 0. The second is what makes it inductive: the event that raises `late` to 1 ends the
activation, and the next one does not begin before an `enabled` has reset `late`.
**ActivePairAlwaysAgrees** and **ActivationAlwaysReportsActive** come from `ActiveInv`, which says, step by
step of the defaults and of the activation, what the two nodes hold and what the
activation has read; no worker writes either node (`ActiveWrites`).
**AlarmImplementsCondition** is the refinement `Spec => ImplementsCondition`. `Rest(o, i)` is the set of fields that handler `o` has
still to write at its step `i`, defined from the list of its setters; `TodoIs` shows that, in a typed state, it is what the mapping calls `todo`. Lemmas say how a setter
shrinks it (`RestAfterWrite`: by the one field it writes, because no list writes a node twice; `RestAfterComment`: not at all), and what it is when a handler begins
and returns. `NextMaps` then has one case per action: a call, an expiry or the defaults map to `Begin`, a setter to `Treat` or, for the comment,
to a stutter, the event and the start of the timer to `Return`, and the rest to a stutter.
**EventsAlwaysDefined** (`EventsDefined`) needs `DefinedInv`: without an early call or a failure no event is on its way before startup is over, by then the defaults
have been written one by one, and what a handler has read so far was defined when it read it.
**SerialAlarmStaysCoherent** (`SerialAlarmCoherent`) speaks of an idle alarm, and in the middle of a handler the alarm is not coherent. `SerialInv` therefore says where the
handler is going: what the fields come to be (`Brought`) once those that are left in `Todo` have been brought to the handler's states is coherent. A setter leaves that end as it is (`TreatKeepsEnd`), a handler
that returns has arrived (`NothingLeft`), and each handler that starts from a coherent alarm aims at a coherent one (`HandlersCoherent`, where `confirm` acknowledges too and the
activation is the only one to clear a confirmation). The proof reuses the mapping of the refinement.

`TestFolderLibProofs`. `OrderInv` orders the copies of a value by the write they stem from: the published one is not newer than the one
being copied, that one not newer than the one in `valueMap_`, nor is the one the update has read older than what was published. **ReadsNeverBehind** and
**PublicationNeverGoesBack** follow. `SyncInv` adds that the copy about to be published is
current, that nodes the round has not touched are in sync, and that a node without a reference has never been updated; **SubscribersAgreeWithReaders** follows.
**TestFolderLibImplementsStore** (`ImplementsStore`) maps the initial state and each action to `ValueStore`, one case per action; it needs of the invariant only that
a round works on a linked node, so that what it has in hand is of a node of the store.

`DemoLibraryProofs`. `LibInv` adds to the types that startup begins with the first component, so that there always is a current one, that the I/O thread is off
from the end of the shutdown on, and that events are numbered only within a round of `Event`; **LibraryTypeCorrect** and **LibraryQuiet** follow, for every set `Failing`. `StepsTable` and `ComponentNames`
unfold the tables. `CounterPlace` says that each round uses up three numbers, so the counter modulo 3 is the place in the round, as long as it has not wrapped;
**EventNumbersTellSource** follows for every `Width`. `StartedInv` is about startups that fail halfway: whatever startup is through with is started in full or may fail by itself, the last step
of a component with a timer arms it, and only a shutdown that follows a startup stops the I/O thread. **FailuresStayLocal** is what *ComponentsIndependent* adds to fairness,
**StartedTimersStayArmed** what *RoundsShareThread* does.

`TestStatusCodeProofs`. `StatusInv` adds that from `Stamp` to `Publish` the data value carries `statusCode_` or a client's status.
**PublishedStatusCurrent** follows: when the round goes on from a node it has either published it or skipped it (`SkipShows`). `ArrayInv` is the argument about arrays. In the middle of a pass the elements in front of
`pos` may be one update ahead of those behind it; within each of the two parts, a later element is level with an
earlier one or one ahead of it, namely where a client has put a new array in place during a pass (`Stepped`, split at `Split(d)`). `GotCurrent` says of the element
about to be stored that it is either the next value of the one in its place or older than the whole array, which then nobody has
updated yet: that is why one foreign element is the most there can be. `StepSound` and
`StepForeign` are the two cases of `SetElement`, `PassEnds` closes the pass; what `SetSingle` leaves is one element (`ScalarSound`). **OneForeignAtMost** and **PaceKept** hold for every
length, every `Width` above 3, every number of nodes, threads and writes.

`ValueWalkProofs`. `ClampInRange` and `OutcomesInRange` bound the result of an update for
each row; `WalkInv` is typing and range. **UpdateInRange** holds for the true widths, for which TLC is out of reach.
**WalkStaysNear** takes each conversion apart: one that fits moves a number by its percentage and less than one more (`TruncatedNear`); one that wraps, wraps once
(`WrapsOnce`) and lands outside of the range, to be clamped, because every range is far from the ends of its type (`RowsWide`). **WalkNeverStuck** names the percentage that
moves a value: 4 percent up from anywhere but the upper end of the range, 4 percent down from there (`SomeTickMoves`); from outside the range any update moves it.

`HistoricalAccessProofs`. `HistoryInv` adds to the properties that a client that reads holds exactly the entries before
the one its continuation point names, and none without a point (`HoldsStart`); `PageIsRun` says that a page is the run of entries from its start to its end, and `AnswerExtends` that it extends a
prefix. **PagesCollectPrefix**, **NoPointMeansAll** hold for every length of the history, every number of clients and every set of page sizes.
**EveryReadAdvances** is the ranking argument of *EventuallyComplete*: an answer to a client that reads on brings at least one entry, so that it needs at most `numberEntries` answers.

`LoopTimerProofs`. **LoopAlwaysSurvives** needs that, once startup is over, an element runs or some thread is between its `reset` and its `start` (`SurvivesInv`).
It holds although overlapping writers stop elements of each other: a `stop` is followed by a `start` of the same thread. **TimerAlwaysMatches** comes from `SerialInv`, which says what
a handler that nobody disturbs finds at each of its accesses (`Undisturbed`): in front of `stop` the member's element alone runs, after it none, and before
`start` the new element has the period the node shows. **AtMostTwoOrphansEver** counts. `OrphanInv` bounds the orphans by how far startup has come (`Bound`): none before
`startTimerLoop` has constructed its element, one after that, two when it has returned. A worker replaces the member by a `reset`, and an element it has
stopped is none; so while a worker is between `stop` and `construct`, all elements that run count as orphans (`Orphans`), and it never adds one (`WorkerKeepsOrphans`);
the main thread, which does not stop what it replaces, adds one at a time (`MainAddsOne`). The set of workers need not be finite.

`AuthenticationProofs`. **NamedUsersSeeDefaults** is not inductive by itself: `AuthInv` adds that a profile exists only in the last step of startup and after it, where nothing can fail any more, and that all values are set by then.
**VariablesAlwaysProtected** needs that a kept answer was given for the context the session still has (`Answered`): login and close drop the answer.

Model-checked only: the liveness properties (`ReactivatesWhileEnabled`, `RoundsGoOn`, `StatusRecovers`,
`SubscribersSeeBoth`, `EventuallyComplete`, `ComponentsIndependent`, `RoundsShareThread`, `ShutdownEnds`). They rest on fairness, which the provers cannot reason about
because it is defined by `ENABLED`; for three of them the theorems named above prove what the code, rather than the scheduler, contributes. The four disagreements of section 5 are counterexamples, which TLC finds.

## 5. What the code does otherwise than it says

Four disagreements are runs that TLC must find violated:

* `values_range`: the ranges of the comments ("// 0 - 64", `TestFolderLib.cpp:638`) hold for what
  `updateSingle` computes, but `setValueSync` (798) publishes the shared data value, in which a
  client's write may have landed since.
* `history_release`: the branch "check if user wants to remove order" (`HistoricalAccess.cpp:216`)
  is taken when the continuation point is empty. A client that releases the point it holds is sent another page.
* `authentication_events`: "user4 cannot receive events from objects" (`Authentication.cpp:278`), but the denied nodes are
  called `AuthObject01` ... and the objects of the information model `Auth.Object01` ...
* `status_own`: node 221 is described as "Boolean array test value" (`TestStatusCode.OpcUaNodeSet.xml:349`), but for node 222 ("// String",
  `TestStatusCode.cpp:286`) `createValueMap` creates no data value and overwrites that of node 221. Both nodes show the string, and a
  write to either changes both.

Others need no run to be seen: every event of the alarm has the same identifier (`Alarm.cpp:741`, marked FIXME), and
`acknowledge` and `confirm` read neither the identifier nor the comment they are given; a NaN
written to a Float or Double is never brought back into the range (`TestFolderLib.cpp:712-714`); the lower clamp of
Int64 sends the value to the upper end (693); the array of node 227
is filled with three pointers to the text of node 226 (`TestStatusCode.cpp:331-334`); ServiceFunction looks up one namespace and reports another as missing (`ServiceFunction.cpp:102`, 111).

## 6. Not modelled

* `CustomerEventType`: accessors of an event type and their registration with the stack; no behaviour of its own.
* The method callbacks of `Function` and `ServiceFunction`, `Discovery::findServer`, `readHEvent`, and the event item
  callbacks of `Event` (empty): they keep no state, and an answer computed from the request alone gives an interleaving nothing to disturb.
* Log lines, event texts, timestamps and the contents of texts and identifiers: no property depends on them.
* The stack, external to this repository: it appears only as what the library's code uses of it.
* `example/ValueBasedInterface`: sample clients, each a straight line of synchronous calls.
* `Config/*.xml`, the packaging, and everything under `ftest/freeopcua`. The latter is most of the repository by size: a vendored
  copy of the FreeOpcUa Python stack for the functional tests, nearly all of it generated (the standard address space, the
  protocol classes and the object identifiers). It is neither part of the server nor written here, the tests that import it connect under each security policy and disconnect,
  and it has its own home. Hence the lines these models map are nearly all of `src/ASNeG-Demo/Library` that changes
  state, and a small share of the repository's lines.

## 7. Plan

Done: the modules of section 2, and a proof of every safety property the runs check. What is left:

1. The safety halves of the other liveness properties: that a status, once toggled, reaches each node of a listed type in the same round
   (`SubscribersSeeBoth`), that a round brings a node back in sync (`StatusRecovers`), and that an armed element of `LoopTimer` is the one that ticks (`RoundsGoOn`).
2. Progress without deadlock: that each thread in the middle of a handler has an enabled step, stated without `ENABLED` as a
   disjunction of guards, for `Alarm`, `LoopTimer` and `TestFolderLib`.

An abstract specification of a historical read, a cursor that moves forward, has been considered and left out: *CollectsPrefix* with
**EveryReadAdvances** says the same, and says when it stops being true.
