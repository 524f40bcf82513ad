# FNCS: specifications, model checking and proofs

FNCS couples several *power simulators* (called tick simulators in the code)
and one *network simulator* into one simulation of a power grid together with
its communication network. Each simulator links the FNCS library; all talk to
one process, `fncsbroker`. This directory models the protocols of the library
and the broker in TLA+, checks them with TLC on small instances and proves the
core with TLAPS for all instances. Paths are relative to the repository root.

## 1. Inventory

### The parts and how they interact

    application loop             tests/zimmer.cpp, simmer.cpp, simmerTransmission.cpp
      | timeStepStart(t), getNextTime(t, t'), send, hasMoreMessages ...
    Integrator (singleton)       integrator.cpp        units, registration, life cycle
      |                    \
    AbsSyncAlgorithm        ObjectCommInterface        objectcomminterface.cpp
      syncalgorithms/         inbox and outbox of one object
      |                    /
    AbsCommManager           commmanager/              counters, time-outs, sendAll
      |
    ZmqNetworkInterface      zmqnetworkinterface.cpp   one call = request, wait, reply
      |  req (DEALER)    |  async (DEALER)     ^ die (SUB)
    fncsbroker             fncsbroker.cpp      | killer (PUB)
      broker (ROUTER)     async_broker (ROUTER)

The broker is one thread: it polls two sockets and runs one handler per request.
A simulator is one thread too, but every wait for a reply (`i_recv`) also takes
asynchronous messages and published ones, so *anything can arrive inside any
call that waits*. That is where the interleavings of this system are.

| component | state | operations | hard part |
|---|---|---|---|
| Broker collectives (`fncsbroker.cpp`) | per context: barrier set, send/receive maps and totals, minimum map, world size | BARRIER, REDUCE_SEND_RECV, REDUCE_MIN_TIME, SLEEP, ALL_GATHER, REDUCE_MIN_TIME_SLEEP | rounds overlap; two operations share one map |
| Broker routing | object owners | DELAY, ROUTE | peers that have gone |
| Broker session | connections, finalized, finished | HELLO, REGISTER_OBJECT, FINALIZE_REGISTRATIONS, FINISHED, DIE | ordering over several sockets |
| Broker contexts | parents, children, valid contexts | PARENT_REINIT, CHILD_INIT, CHILD_FAILED, CHILD_SUCCESS, REDUCE_FAIL_TIME | forked simulators |
| Grace-period algorithms | granted time, estimate, needToRespond, busywait | timeStepStart, GetNextTime | agreement on time while messages travel |
| Active-set and sleeping algorithms | the same, who sleeps | GetNextTime, sleep | simulators that skip collectives |
| Optimistic algorithms | child process, shared memory, fail time | GetNextTime, fork, die | two generations of processes |
| Speculation strategies | length of a speculation | failed, succeeded | unsigned arithmetic |
| Communication managers | send and receive counters, copies, time-out table | sendAll, messageReceived, reduceTotalSendReceive, packetLostCalculator | counts taken while messages arrive |
| Object interface | inbox, positions of an iteration | newMessage, hasMoreMessages, getNextInboxMessage, getAllInboxMessages | stale positions |
| Integrator | instance, units | construction, conversions, stopIntegrator | ends |
| Configuration (`config_parser/`) | what a simulator's file says | createIntegrator, the factories | where in the start an error shows |

What makes them correct: the simulators agree on one virtual time and nobody is
granted a time before all agree; a simulator that concludes "no message is under
way" is right; the broker never meets an inconsistent request; every call
returns; every message reaches its client once; when one ends, all end.

`PROJECT.json` lists every component, those not modelled with the reason, and
every hazard with the line where it bites and the properties that watch it.

## 2. Plan

1. **GracePeriodSync** (done): the default conservative algorithms with the
   communication managers and the broker's collectives. Abstract specification
   **LockStepTime**. Proofs: types, request discipline, agreement on time,
   refinement, counting, quiescence.
2. **Inbox** (done): the receiving side of an object.
3. **Session** (done): start, registration and end.
4. **ActiveSet** (done): `ActiveSetConservativeTick/Com` over REDUCE_MIN_TIME_SLEEP;
   it implements LockStepTime with the simulators that are awake.
5. **SleepingTick** (done): `ConservativeSleepingTickAlgo` with SLEEP and ALL_GATHER.
6. **Broadcast** (done): broadcasts through the network simulator, the counts of
   `globalObjectCount - 1`, the copies' time stamps, the packet-lost table.
7. **Speculation** (done): fork, contexts and shared memory of
   `OptimisticTickSyncAlgo`, with the speculation time strategies.
8. The reactive estimate in GracePeriodSync; the failed connections of a
   speculation (a child killed before it has connected); the three unbuilt
   algorithms, if they are ever built.

Proved are all the safety invariants that the passing runs check,
three action properties (SendersWake, NoneGoesOn, BackOnlyToAnswer) and two refinements (section 5).

## 3. Modules

### GracePeriodSync

One tick simulator runs `AbsSyncAlgorithm::timeStepStart` and
`GracePeriodSyncAlgo::GetNextTime`, the network simulator the same
`timeStepStart` and `CommunicatorSimulatorSyncalgo::GetNextTime`. `pc` is the
place in that code:

    idle --StepStart--> barrier --BarrierDone--> work --GetNextTime--> sr
     ^ \---StepStartEarly (granted already)-----^ |                    | TickDiff / NetDiff
     |     <--------------GetNextTimeEarly--------/                    v
     +--TickGranted / NetGranted-- min <--DelayDone-- delay <----------+
     TickEnded / NetEnded -> finished;  BusyWait: min -> barrier -BusyBarrierDone-> sr

| variable | code |
|---|---|
| `cur`, `granted`, `asked`, `base`, `est`, `respond`, `busy` | the application's time; `grantedTime`; `nextTime`, `currentTime`, `nextEstTime`, `needToRespond`, `busywait` of GetNextTime |
| `sendCount`, `receiveCount`, `sendCopy`, `recvCopy` | counters of AbsCommManager and the copies `reduceTotalSendReceive` takes |
| `packets` | `CommunicationComManager::packets`: which messages still have their time-out entry |
| `barrier`, `reduceSent`, `sentTotal`, `recvTotal`, `reduceMin`, `broker` | the broker's context |
| `req`, `rep` | requests and replies in transit (one per simulator, every call waits) |
| `loc`, `mtime` | where a message is: outbox, DELAY on its way, in the simulated network, ROUTE on its way, delivered, dropped, discarded |
| `now`, `copied`, `sentIn`, `recvIn` | history: only properties read them |

One action per step between two waits, one per broker handler. What a message says
is left out; it has a sender, a receiver, a time stamp and a route.
`FloorTo` is the round trip through a simulator's unit, a real rounding. Not
modelled here: broadcasts (module Broadcast), buffer strategies, the profiling hooks. Registration
is done when the model starts. Arithmetic is unbounded: no time of the models
nears 2^64, and `Infinity` is never added to.

### LockStepTime

The promise to applications: one virtual time, a set of simulators that may
proceed to it, none of which is left behind when it moves on. GracePeriodSync
implements it with `clock <- cur` and `owed <-` the simulators whose call is
about to return (`OneVirtualTime`).

### ActiveSet

Extends GracePeriodSync with the broker's REDUCE_MIN_TIME_SLEEP and the two
algorithms over it. The application, the messages, the counters and the requests
are reused action by action; what differs is written anew: the counters are reset after a
zero difference (`Resets`), the loop goes round without a barrier (`Reiterate`),
and every collective completes with `world` requests and answers those that sent
one. `incoming`, `sleepState`, `sleepingSim`, `world` are the broker's
`reduce_min_time_sleep_incoming`, `..._state`, `sleepingSim` and `world_sizes`;
a simulator sleeps (`Asleep`) when the broker has answered others and not it. The network
simulator is in framework time. The early returns are therefore not taken, and are left
out.

### SleepingTick

Extends GracePeriodSync with SLEEP and ALL_GATHER_NEXT_TIME. While the network is
quiet, a power simulator that must wait for an earlier one sleeps outside the
collectives; those awake gather the next times of all, remember them
(`otherTimes` is the code's `powersimgrantedTime`, `mightSleep` its flag) and wake the
sleepers, by sleeping themselves, before they would leave one behind. timeStepStart sends
nothing: messages leave with GetNextTime.
`asleep` are the simulators the broker has taken out of `contexts`, `nextTimes` its
`all_gather`. The array's slots are uninitialised in the code and start with a
small or a large value. A sleeper takes no messages; `TakeAll` is what it takes when
it wakes, after reduceTotalSendReceive has copied the counters, so that it is reported
a round later. The end signal and a network simulator behind its grant are left out.

### Speculation

`OptimisticTickSyncAlgo` and `OptimisticCommSyncAlgo`. A process is a pair of a
context and a simulator, with its memory as a record that fork copies; `shm` is the
shared memory between a parent and its child. A collective call is collected in
`in` and answered at once: what is interesting here happens between calls, where
processes fork, look into the shared memory, are killed and connect again.
`childIni`, `reinit`, `parent` and `initDone` are the broker's maps. An assertion of the
broker that fails makes `broker` "dead" (the children of a fork have one parent context) or
"aborted" (a message can be sent): one that was killed, or made way for its child, stays a
member of its context and its call stays in the broker's maps, so that the last one to
make that call has the broker answer a process that has gone. As in Session, ROUTER_MANDATORY
makes the send fail unless ZeroMQ has not noticed yet (`Unreachable`, and the second
disjuncts of `Collect`, `Reconnect` and `Deliver`). Times are unsigned (`% Wrap`), with the
four strategies as operators. Of the messages of a context only matters whether
one is under way. Each of the simulations in `Settings` fixes when
applications send, since what a forked application does is what its parent does.

### Broadcast

The counting that broadcasts and the packet-lost table do, on one common time. A message
is one envelope up to the network simulator and a *copy* for every receiver
after that; `packets` counts, per time stamp, what the simulated network holds, as the
code's map does: two messages with one stamp are not told apart. A copy of a
broadcast has a stamp of its own, because its constructor converts the time again.
`sent` and `received` are the totals the collectives would build; GracePeriodSync has
how they are built. Assumed: the sender's object is registered at the network
simulator, and broadcasts go through the network (a direct one has no owner the
broker knows).

### Inbox

The vector `inbox`, with `Gone` for the null pointer that
`getNextInboxMessage` leaves, and the positions `found` an iteration works on.
Messages arrive and time advances whenever the client waits, amid an iteration
too, as in `tests/simmerTransmission.cpp`, which takes one message per step.
`Batch` bounds what one getAllInboxMessages may find: with one message it is
correct, with several it is not (section 4).
Erasing beyond the end of the vector or reading a null pointer is undefined in
C++: the model takes the outcomes a build can show (`EraseEach`, `crashed`).
The loops of the code are recursive functions of how far they have come, so that theorems
can be proved about them.

### Session

`pc` runs from `start` over `hello`, `registering`, `finalizing` and
`run`/`calling` to one of five ends: `stopped` (FINISHED sent), `left` (the
main loop ended by isFinished, nothing sent), `interrupted` (a signal; FINISHED
sent), `failed` (DIE taken), `misconfigured`. `config[s]` says what may be wrong with
a configuration file: wrong *parameters* end the process before it says hello, and
the others wait for it for ever; an unknown *algorithm* only ends it
after HELLO, and the others wait in finalize; a second simulator of the *type* of the
network simulator makes the broker end all. `chan[s]` is the FIFO of requests of `s`, whose
order matters because registrations are not answered. The run itself is a
sequence of minimum collectives. `ReplyAll` and `Forward` contain what the
broker's sockets do about a process that has gone: with ROUTER_MANDATORY the
send fails and the assertion in `zmqx_send` aborts the broker, unless ZeroMQ has not
noticed yet. ZeroMQ is external: assumed are FIFO order per connection, no
order between connections, no loss, and that a simulator's sockets are
connected when its HELLO is answered (SUB included).

## 4. Runs

| run | question | result | states |
|---|---|---|---|
| sync_fine | two ticks of different steps and units, two crossing messages, one direct and one that may be lost in the network: types, request discipline, agreement on time, refinement of LockStepTime, quiet when stable, totals never contradict, every GetNextTime returns | holds | 530 000 |
| sync_coarse | a network simulator with a coarser unit takes the early returns: requests stay unique, quiet when stable | holds | 86 000 |
| sync_coarse_stops | the same instance, does every call return? | violated | |
| inbox_read | reading one by one: nothing lost, nothing twice, positions valid | holds | 710 |
| active_set | the same algorithms with sleeping simulators: the awake in step, sleepers never passed, messages wake, counting, refinement, every call returns | holds | 360 000 |
| sleeping | two power simulators that sleep instead of waiting, one message that may reach a sleeper: next times gathered together, nobody left behind, nothing uncounted, time goes back only for one that answers a message, every call returns | holds | 288 000 |
| session | registration complete, no run with a wrong configuration, nobody goes on alone, no false failure, all end together; late messages, end signals, signals to any process and one wrong configuration enabled | holds | 126 000 |
| session_late_mail | do all end together, with a message under way and nothing else wrong? | violated | |
| speculation | four simulations: one whose speculation succeeds, two that a message ends, in one of them while the child waits for another's, one without an end of the speculation: parents and children each at one time, one child per simulator, nothing leaves a child, the parents get on unless the broker has aborted | holds | 395 000 |
| speculation_trust | is the fail time a child left behind kept to: does a parent send nothing before the time it was granted? | violated | |
| speculation_succeeds | does the child go on when its speculation succeeds? | violated | |
| broadcast | two broadcasts and a message, a fine and a coarser network simulator: the totals differ by what is under way, nothing is both sent on and reported lost, in the end only what was dropped is missing | holds | 110 000 |

The violated runs are disagreements between the code and its own comments,
quoted under `findings` in PROJECT.json:

* *sync_coarse_stops*: the network simulator rounds its grant down to its unit,
  is behind its own granted time, returns early and skips a barrier: deadlock.
* *session_late_mail*: forwarding to a finished simulator aborts the broker.
* *speculation_succeeds*: a parent that makes way for its child runs the destructor
  of the algorithm on its way out, and that kills the child.
* *speculation_trust*: the fail time that a child left is trusted after its parent has gone
  off the path the child went. The comment at `optimisticticksyncalgo.cpp:311` says "since we
  know the spec will fail until this time", and a parent is granted time up to the fail
  time its child told; the comment at line 429, "we ignore what the child has reported as
  fail time", takes that back when a message is under way, but line 426 asks for
  `diff>0 && hasChild()`, and the child may be gone by then. p takes steps of 4 and q of 2, and
  both fork at 0. p's child stops at 4, where p sends a message; q's child has come
  to 8 when it is killed for that, and leaves q the fail time 8. When p itself sends that message
  q has no child any more: it keeps the fail time, makes a step of one to 5 in answer to
  the message, wants to go on to 7, is granted 8 on its child's word, and sends its message of 7
  before the time it was granted.

Six things the models show are not among these runs. For three of them no text of the
repository says otherwise. After an end signal those that isFinished ends tell nobody
(`integrator.cpp:120`), so the others may wait for ever: `EndsInOrder` exempts them, and
a simulator that says hello to a broker that has ended. A message taken in the
busy-wait barrier is in the counters before they are copied, so the difference
is zero and nobody responds to it in that call
(`graceperiodpesimisticsyncalgo.cpp:64`). A message dropped for its age is never
counted again, and from then on no round finds the network quiet
(`abscommmanager.cpp:116`): in broadcast, `Settles` says that exactly this remains.

The fourth is what becomes of a collective in which a killed child waited. When p's child
waits in the barrier and p sends its message and kills it, q's child may still come to that barrier; it
completes it, the broker answers p's child, which is gone, and aborts, and the parents wait for
ever. `fncsbroker.cpp:200` says what the broker does about one it cannot reach, and
session_late_mail shows the same abort for a message. One of the four simulations of the run speculation
is this one; ParentsGoOn therefore says that the parents get on *or the broker has aborted*, and
what it claims is that nothing else stops them: no wait for a connection that never comes,
no mix of actions and times, no fork that one of them does not take part in. Safety is not touched by the abort.

The fifth is getAllInboxMessages (`objectcomminterface.cpp:130`), which erases
positions without correcting them for what it erased before them: of two messages it returns, the
second stays in the inbox and is returned again, though the header (line 138) says the client owns
it, and another is dropped. With `Batch = 3` in InboxRead.cfg TLC finds GivenOnce violated at once. A
plain unit test finds it too, so it has no run of its own.

The sixth is a defect of the sleeping algorithm that takes three power simulators. The loop at
`conservativesleepingtickalgo.cpp:91` calls sleep once for each slot that holds an earlier
time; its comment only expects "unnecessary sleeps". The first sleep wakes everyone,
so the second puts the waker to sleep alone, together with the message it has just sent
and counted. Suppose q asks at time 2 for time 4, the two others sleep until 3 and 4, and
q sends p a message: p and r go through the next reductions without q. They
conclude that the network is quiet while q's message is under way (SleepersHoldNothing); or
p has taken the message before it reports, in a barrier it waits in, the broker finds more received than
sent and ends the whole federation (GatherTogether, the check at `fncsbroker.cpp:1182`);
or p takes the message after the reduction and then resets a count that nobody
was told (ForgetsNothing). TLC finds each of the three with three power simulators, among several
million states, which is more than a run here is given; NotLeftBehind and BackOnlyToAnswer were not
found violated as far as it came (15 million states) and nothing is claimed of them.
So the properties of this module are claimed for two power simulators only.

### Bounds, and why they are enough

Two tick simulators and the network simulator: the collectives treat all
simulators alike, and two ticks give every case of one being ahead, behind or
equal. A step (and unit) of 1 beside one of 3 lets one run several rounds while the other busy-waits;
`Horizon` 2 or 3 leaves room for a message to be sent, held, timed out and
delivered; one or two messages, because the counters add up per message and two
already cross. `Infinity` is any number above the times of the run (a unit that
does not divide it included). `Strides` are the times applications may ask for, besides Infinity: whole steps, in sync_fine one step, in active_set one or more;
`NeverPastAsked` is only claimed for such: one that asks for less than its step may be
moved past it. The network simulator in sync_coarse may ask for its present time, as its grant
lags. Inbox has three messages with stamps before, at and after the frame, in
all orders of arrival. Session has one object per power simulator, both also
known to the network simulator, one message, one round, at most one wrong
configuration (two of them only end more simulators at the same places).
SleepingTick has two power simulators, one asking for two steps at a time and the other
for one or two, and one direct message to the one that sleeps; one that comes through
the network is queued for the sleeper in the same way, a round later, and is left to
active_set and sync_fine. With two ticks there is one slot, and the loop that wakes the
others sleeps once: what is lost with three is told above. Speculation
has one context for the parents and one for the children: a second generation begins as
the first one did. Broadcast has three objects, so that a broadcast
has two copies, and two broadcasts that may share a time stamp.
CHECK_DEADLOCK is off where applications stop (all runs of the protocols)
or a client may stop reading (Inbox with an undefined outcome).

### Fairness

Liveness assumes weak fairness of each simulator's own steps, of the broker's
handler for each simulator and of the delivery of each message (the same in GracePeriodSync,
ActiveSet, SleepingTick and Session): processes are
scheduled, the broker's poll loop serves both sockets each time round, TCP
delivers. It does not assume that applications ask for particular times, send
messages, or that any process gets a signal. Speculation
needs less: that *some* step is taken while one can be (WF of Next). Broadcast
assumes it of the delivery of each message and copy and of the network simulator's step. GetNextTimeReturns speaks of calls for
times within the horizon: a simulator that asks for Infinity waits for the
others by design.

## 5. Proofs

`GracePeriodSync_proofs` and `GracePeriodCounting_proofs` hold for any finite or
infinite set of ticks with positive units and steps not below the unit, any set
of finitely many messages, any loss period (`SimsAssumption`, `TimeAssumption`). `FineNet` is the
extra hypothesis that the network simulator's unit is one framework unit; sync_coarse_stops shows that
agreement is really lost without it.

* `TypeCorrect`: Spec => []TypeOK. That counters stay natural numbers needs
  that a copy never exceeds its counter while it is out, so the invariant adds that.
* `NoDuplicateRequest`: Spec => []OneRequest. Inductive with the types: every
  waiting simulator's request is in transit, collected or answered, exactly once.
* `Synchronised`, `SameInstant`: FineNet => (Spec => []InStep, []OneInstant). A
  simulator is in one of four phases, a reply counting for the next; all phases
  are equal because a collective answers all at once and nobody can return early
  (that is what `OneInstant` gives: outside the call `cur = granted = now`). So
  both are one induction.
* `Implements`: FineNet => (Spec => OneVirtualTime), step by step: the broker's last
  reply of a minimum is Advance, TickGranted and NetGranted are Grant, all
  others stutter.
* `AskedIsKept`: WholeSteps => (Spec => []NeverPastAsked), whatever the metrics. `WholeSteps`
  says that a power simulator's step is one unit of its metric and that its application
  asks for times whole steps ahead; sync_fine is such an instance. It is needed: an estimate
  is the present time rounded down to the unit plus a step, and only of two different whole
  numbers of the unit is the one a step on not past the other. `AskInv` keeps local times,
  times asked and grants whole.
* `BrokerNeverDies`: Spec => []BrokerUp. `CountInv` says what the numbers count:
  a simulator's counter is the cardinality of the messages it sent (received)
  and that are not in the broker's total or in its copy; the total is the
  cardinality of the history set `sentIn` (`recvIn`); and whoever is received
  has been sent *and reported before the receiver's report*, hence
  `recvIn \subseteq sentIn` whenever totals are compared.
* `QuietWhenStable`: FineNet => (Spec => []StableMeansQuiet). `QuietInv` carries the
  zero difference from the broker's comparison to the simulators that hold its
  reply: equal totals and inclusion give equal sets, so every message sent by the
  time of the report has been received or given up, and no one sends before the
  minimum is agreed.

`Session_proofs` holds for any set of power simulators, any finite set of objects,
any messages, calls, configurations and signals (`SessionAssumption`: objects of
two power simulators differ, the network simulator's own configuration does not call it
something else). The invariant `IInv` has one part per phase:

* `QueueInv` says what a queued request tells of its sender: no two of a kind,
  no registration behind the request to finalize, a CALL only of one that waits
  or has gone. The lemmas SendQ and TakeQ carry it through every queue operation.
* `HelloInv` and `FinalInv`: nobody passes HELLO (finalize) before the last one is in.
* `OwnersInv`: the broker's maps are what was registered minus what is still queued.
* `EndInv`: without a signal, the first to end stops in its run, and one that has
  stopped has no proposal in the collective and none queued.
* `CleanInv`: so no handler meets what it dies of.

From it: `RunsResolved` (Resolved: at the answer to finalize nothing is queued any
more), `RunsComplete` (BeginsComplete), `EndsClean` (CleanExit) and `StopsTogether`
(NoneGoesOn: the collective lacks the one that stopped).

`ActiveSet_proofs` holds for any finite set of power simulators
and any messages, with the network simulator in framework time and steps of whole units
(`ActiveAssumption`). The idea is that *who is awake is whom the broker waits for*: the world it counts is the number
of simulators that have not been left asleep by the last answer of REDUCE_MIN_TIME_SLEEP, so
the awake ones are in one phase as all are in GracePeriodSync, and a sleeper is one whose
proposal the broker keeps.

* `SleepersAreAhead` (SleepersAhead): what the broker keeps of a sleeper is what it
  proposed, which is ahead of the instant; the lemma MinGathers says what one answer of
  the broker does to those that proposed the minimum, and to the others.
* `SendersAreHeard` (SendersWake): `SenderInv` says that the sender of a message of the
  present instant whose receiver sleeps is awake and has its flag set.
* `ActiveImplements`: Spec => ActiveVirtualTime, the refinement of LockStepTime, step by step.
* `AwakeTogether` (AwakeInStep): world size, phases and `broker = "up"` together.
* `CountersKeep` (NothingForgotten): counters, copies and totals count sets of messages, as in
  GracePeriodCounting_proofs, with the reset after a zero difference.
* `AwakeAreRight` (AwakeMeansQuiet): `SettledInv` says that whoever has learned of, or is
  about to learn of, a difference of zero knows that all that was sent is in the totals of
  both sides, the sleepers' included.

`Broadcast_proofs` holds for any finite sets of objects and messages, any metrics with a
greatest one, any loss period (`BroadcastAssumption`). The sum of the counts in a
table (`Total`) is the cardinality of a set of pairs, because bijections between sets of pairs
are easier to reason about than a sum over a recursion: TotalSum adds two tables, TotalCount
counts the elements of a set by a key.

* `SentIsAccounted`: Spec => []Balanced, inductive with the types and with `NoCopyYet`
  (a message the network simulator has not taken has no copies): one lemma per action, each
  saying which set of copies moves. NetStepDone puts the choice and the arithmetic of
  GetNextTime into the one fact that what leaves the table is sent on or reported.
* `LostCopiesAreReported`: Spec => []LostOrSent, per time stamp. What is thrown away in a
  step either was sent on in full or leaves no entry in the table, so that its share
  has been reported.

`Inbox_proofs` holds for any set of messages, any stamps and times, and inboxes of any
length. The loops of the code are functions by recursion over the natural numbers, and what such a
function computes is an induction over data, for which the library's theorems cannot be used
here (they take a predicate as a parameter). `Least` stands in for them: a nonempty set of
natural numbers has a least element, since strict inclusion of finite sets is well-founded.
`Iterates` derives from it what a loop with an invariant returns. The invariant of the
component says who has which message: null pointers are exactly at the positions the client has
taken since the iteration began, each message is in the inbox once, given, or not yet sent, and
the positions of the iteration are increasing.

* `InboxKeeps`, `GivesOnce` (GivenOnce), `LosesNothing` (NothingLost), `PositionsStay`
  (PositionsValid), all under the hypothesis Batch <= 1, that getAllInboxMessages never finds two
  messages at once. It is needed: with two the code gives one twice (section 4). Reading one by one (all that the iteration does) is free of it.

`Speculation_proofs` holds for any finite set of power simulators, any simulations with any of
the four strategies, any width of the times and any number of generations: a child
that takes over forks again, and `MaxContext` only bounds how often (`SpeculationAssumption`).
The invariant (`IInv`) is a predicate of the processes' memories and the broker's maps (`Good`),
so that the lemmas about one step of one process can be applied to the memory between two
parts of an action:

* `Alike`: the processes of a context are in the same part of the loop (`Phase`, as divided
  by the answers of the collectives), are granted the same time (`Due`) and have children
  in the same context (`Heir`: the child once what the process has been answered is done). The shared
  memory does not matter for this: what a child told decides what its parent proposes,
  and all that the parents do follows from what the broker answers all of them.
* `GrowUp`: the children of a context take over together, and none has sent before.
* `Forking`, `Unused`, `Tree`: a context that is about to be forked is new, and the
  contexts are a tree.
* `Births`, `Connected`: while some child has not connected, its parents wait for it and for
  nothing else, and a context has at most one such birth under way. The broker's maps of
  those who have connected say the same.

Move, Kills, Joins, Completes, Forks1, Attaches, Connects, Reconnects and Starts are the
lemmas about one such step, and there is one lemma for each action. MinIn, that the minimum
the broker takes is one of the proposals, is shown as `Least` is.

* `SpeculationKeeps`: Spec => []IInv. TLC checked IInv on the instance of the run
  with three contexts (1.5 million states) before it was proved.
* `GrantsAgree` (OneGrant), `ChildrenAgree` (OneChild), `SpeculationIsolated` (Isolated).

None of the three needs that the broker lives: an abort only ends the steps.

`SleepingTick_proofs` holds for two power simulators (`Pair`) with any messages, metrics,
steps, strides and times, as long as a stride is not shorter than the step and no time one can ask
for is beyond the largest TIME. Two is not a convenience: the loop that wakes the others sleeps
once per slot, and with three simulators a second sleep finds nobody to wake and leaves the
sleeper's messages out of the next reduction, so that GatherTogether, ForgetsNothing and
SleepersHoldNothing are lost (TLC finds it with three, section 4). The invariant (`SleepInv`) has these parts:

* `Beside`: for everything one can be doing (asleep outside the collectives, waking the
  other, just back, waiting for an instant that is not its own, reducing, told the minimum,
  gathering, knowing the next times, free) what the other can be doing meanwhile. A sleeper
  is beside one that stays before the sleeper's time (`Goes`), one that hears of the sleep
  just now, or one that sleeps to wake it. This is where the slots matter: one that believes
  that another may be asleep (`mightSleep`) has filled its slot, whatever it held before.
* `Together`: the simulators that are awake are in one phase, as all are in GracePeriodSync,
  and `RequestOf`: who has a request under way waits for its answer, exactly once.
* `CountInv`, that of GracePeriodCounting_proofs, stated there for any places in the code
  so that both modules use its lemmas.
* `SettledInv`: whoever has learned, or is about to learn, of a difference of zero knows
  that all that was sent is in both totals; what a sleeper has sent is in them before it sleeps.

From it: `GatheringTogether` (GatherTogether), `SleepersNotPassed` (NotLeftBehind),
`ResetsForgetNothing` (ForgetsNothing), `SleepersReportAll` (SleepersHoldNothing) and
`OnlyAnswersGoBack` (BackOnlyToAnswer). TLC checked SleepInv on the instance of the run
before it was proved.

Only model-checked: SleepReturns of SleepingTick; ParentsGoOn of Speculation; EndsInOrder of Session and
liveness everywhere (fairness and ENABLED are outside the proof system's reach here).

## 6. Not modelled

* `ReactiveConservative*`: GracePeriodSyncAlgo with another estimate, no collective of
  its own. Epochs, the low-overhead optimistic algorithm and the grace-period
  speculative one are not in the build.
* The broker's CHILD_FAILED, CHILD_SUCCESS and REDUCE_FAIL_TIME, and the actions
  DIE_PARENT and NOT_VALID of a speculation: no simulator sends them.
* In Speculation, the answers that a broker which aborts amid a collective has sent before it
  aborts: those who got them go as far as their next call and no further. A process whose
  death ZeroMQ has not noticed is answered as if it were there.
* In SleepingTick, the end signal and a network simulator behind its grant.
* The MPI back end (no broker; most operations are stubs), the byte layout of
  messages, JSON parsing, the C wrapper, file exchange with GridLAB-D, logging
  and profiling, the inbox's buffer strategies (their size getter returns
  nothing, which is undefined).
* Vendored code: jsoncpp and `util/callback.h`. They are a large part of the
  source tree and nothing of FNCS's behaviour is in them, so the
  share of the tree the models cover stays low whatever is modelled of FNCS:
  they map 3300 lines, of some 9000 in FNCS's own .cpp files, the unbuilt and
  alternative ones included.
