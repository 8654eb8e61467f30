# TLA+ models of modm

modm is a C++ library generator for microcontrollers. Most of the repository is
hardware access, device drivers and sequential utilities. The logic that is hard
to test, because several flows of control meet in it, is in the cooperative
fibers and their synchronisation (`src/modm/processing/fiber`), the containers
shared with interrupts (`src/modm/architecture/driver/atomic`), the software
timers (`src/modm/processing/timer`) and the bus protocols
(`src/modm/communication`). This project models that logic, checks it with TLC
on small instances, and proves the central invariants with TLAPS for every
value of the constants.

Paths below are relative to `src/modm/processing/fiber` of the repository where
they have no directory.

## Inventory

| Component | State it keeps | Operations | Interacts through | Hard behaviours | What makes it correct |
|---|---|---|---|---|---|
| Scheduler and tasks (`scheduler.hpp.in`, `task.hpp`, `task_impl.hpp`, `stop_token.hpp`) | ring of `Task::next`, `last`, `current`, `options`; per task its context, `scheduler`, stop flag | `run`, `yield`, `unschedule`, `start`, `join`, `request_stop`, `~Task` | context switches; flags set by interrupts | any order of starts, ends, restarts, joins and destructions | the pointers stay one ring, round-robin, no stack or Task reused while in use, waits end |
| Waiting functions (`architecture/interface/fiber.hpp`) | none | `poll`, `poll_for`, `poll_until`, `sleep_*` | `yield()` | condition against timeout | the condition wins over the timeout |
| Mutexes (`mutex.hpp`, `shared_mutex.hpp`) | lock flag; owner and count; owner word | `try_lock`, `lock`, `try_lock_for`, `unlock`, shared variants | shared words, interrupts | interrupts between load and exchange, nesting, races of waiters | mutual exclusion, ownership, `lock` returns |
| Condition variable (`condition_variable.hpp`) | 16 bit sequence | `wait*`, `notify_*` | a mutex, interrupts | notification between unlock and wait, wrap-around, stop | no lost notification, the mutex is held on return |
| Semaphore, latch, barrier | 8/16 bit counters | `acquire`, `release`, `count_down`, `arrive`, ... | shared words, interrupts | load against exchange, wrap-around, completion that yields | permits are conserved, nobody passes early |
| Context switch (`context_*.cpp`) | stacks and registers | `modm_context_*` | scheduler | assembly | resumes where it was saved |
| Atomic queue (`architecture/driver/atomic`) | ring buffer with two indices | `push`, `get`, `pop`, `isFull`, `isEmpty`, `getSize` | interrupt against main | an index read by the side that does not write it | a bounded FIFO, sizes on the safe side |
| Timers (`processing/timer`) | start, interval, state | `restart`, `stop`, `state`, `remaining`, `execute` | the clock | time stamps that wrap around, late calls | fire once and on time, keep their phase |
| XPCC dispatcher (`communication/xpcc`) | list of entries with state, tries and callback | `update`, `callAction`, `publishEvent`, `sendResponse` | a lossy bus, handlers and callbacks that call back | loss, retransmission, late answers, entries added while the list is walked | a callback is called at most once, executions are bounded, sending ends |
| AMNB node (`communication/amnb`) | flag and counter of `send()`, transmit queue, the request that waits | `broadcast`, `request`, `update_transmit`, `update_receive` | a half-duplex bus with collisions; three fibers | collisions, retries, timeouts, late answers, calls that are refused or lose their result, fibers that share `send()` | one sender at a time, bounded tries, answers tell the truth about a request, waits end |
| SAB, SAB2, RPR, ROS | as above | | | | |
| Protothreads, resumable functions, tick scheduler, RTOS wrappers | | | | | |
| Containers, math, io, debug, UI | sequential | | | | |
| Platform, boards, drivers, `ext/` | registers of chips; vendored code | | | | |

`PROJECT.json` lists the same components with their sources and status, and the
hazards at the lines where they bite.

## Modules

| Module | Role |
|---|---|
| `RoundRobin` | what the scheduler promises: a run queue in round-robin order |
| `FiberScheduler` | scheduler and tasks; implements `RoundRobin` |
| `FiberRecursiveMutex` | `recursive_mutex`, `recursive_timed_mutex`, with `get_id()` of interrupts |
| `FiberSharedMutex` | `shared_mutex`, `shared_timed_mutex` |
| `FiberConditionVariable` | `condition_variable_any` composed with `mutex` and its users |
| `FiberCounting` | `counting_semaphore` and `latch`, with interrupts between load and exchange |
| `FiberBarrier` | `barrier`, with a completion function that may yield |
| `BoundedFifo` | what the atomic queue promises |
| `AtomicQueue` | `atomic::Queue` between a producer and a consumer, access by access; implements `BoundedFifo` |
| `IdealTimer` | what timers promise, on a clock that never wraps around |
| `SoftwareTimer` | `GenericTimeout` and `GenericPeriodicTimer`; implements `IdealTimer` |
| `AmnbNode` | the nodes of an AMNB bus |
| `XpccDispatcher` | dispatchers, postmen and communicators of several boards on a bus |
| `MC...` | model values for TLC |
| `..._proofs` | theorems and proofs about the module of that name |
| `Wraparound_proofs` | theorems and proofs about `AtomicQueue` and `SoftwareTimer`, which count in integers that wrap around |
| `Communication_proofs` | theorems and proofs about `AmnbNode` and `XpccDispatcher` |

Operators named as mutants in a comment are not part of a specification: each is
a wrong version of the operator that it precedes, kept so that every property
can be seen to fail for it.

### FiberScheduler

A step of a fiber is everything from one context switch to the next, because
fibers are not pre-empted: `Yield` (`Scheduler::yield`), `Return`
(`unschedule`, with `removeCurrent`), `JoinCall` and `JoinPoll` (the test and the
loop of `join`), `Destroy` (`~Task`), `StartTask` (`Task::start` with `add`).
`Run` and `RunEmpty` are `Scheduler::run` by the main context, `RequestStop` may
come at any moment. The variables carry the names of the code; `Task::scheduler`
is the set `attached`, the saved context is abstracted to what may be done with
it (`ctx`), and an uninitialised `Task::next` is the value `Wild`.

Preconditions that the code leaves to its caller, and the model states as
guards: a Task is used only before its destructor begins; nobody else waits in
its `join()` when it is destroyed, and its own fiber does not destroy it.
`start()` is not marked as callable from interrupts and is not called from one.
A `server` is a task whose closure runs until its stop token is set, the shape
that `module.md` shows; the other tasks may return at any time. The main context
calls `start`, `request_stop`, `run`, and the destructor of a task that is not
attached: `join()` of an attached task would spin there for ever, which
`fiber.hpp:39-42` says. The step in which `Return` of the last fiber goes back to
`start()` and clears the options is one step, since nothing runs in between but
interrupts that do not look at them.

### FiberRecursiveMutex, FiberSharedMutex

The scheduler appears as what `FiberScheduler` establishes: a turn that passes
along a fixed ring (`Successor`). Interrupts act at any moment and run to their
end; nested interrupts are the same actors in another order. `try_lock()` and
`unlock()` of the recursive mutex disable interrupts and are one step;
`try_lock_shared()` is a load (`LoadOwner`) and the compare-exchange loop
(`Exchange`). A spurious failure of `compare_exchange_weak` loads what it had and
is a stutter. `poll_for()` tries the lock again before it looks at the clock,
so `GiveUp`, and `Fail` of a timed call, come after a failed attempt. History
variables record who is inside (`depth`, `holds`).

`CountMax` stands for 65535. The identity of an interrupt is a constant: `Irqs`
are those with an IPSR of 16 and more, which have their own; all others have the
identity of the fiber that they interrupt.

### FiberConditionVariable

The mutex of `mutex.hpp`, the sequence, and users as the interface intends: the
condition is read and changed under the mutex. `Check` is the head of the loops
with a predicate, `Release` the unlock in `wait`, `Capture` the load of the
sequence in `wait_on_sequence`, `Poll` the condition inside `poll`/`poll_for`,
`Lock` the loop of `mutex::lock`. Capture and unlock are separate steps because an
interrupt may come between them. An interrupt establishes the condition and
notifies at any moment (`IsrPost`). The history `notified` has the waiters that must
wake: all that had released the mutex when a fiber notified, and those in `poll`
when an interrupt did. Who has released the mutex and not yet loaded the sequence
when an interrupt notifies is in `missed`: the load already contains that
notification, and the waiter sleeps on. A variable of a call is reset when the call has
ended. The timed overloads with a stop token, which combine two loops that are
modelled, and `call_once` are left out.

### FiberCounting, FiberBarrier

`try_acquire()` and `count_down()` are a load (`LoadCount`, `CountDown`) and a loop
around a compare-exchange (`ExchangeCount`, `ExchangeLatch`), and interrupts may
call `release()`, `try_acquire()` and `count_down()` in between. An interrupt runs
to its end, so its own call is one step. `permits` and `remaining` are histories
of the calls: what was released and not acquired, and how many arrivals are
missing. The argument of `count_down()` is in `Steps`, which has values greater
than what may be left. `release()` keeps the precondition of
`std::counting_semaphore`: the count does not exceed `max()`.

The barrier "is not interrupt-safe" (`barrier.hpp:21`) and only fibers use it. Each
arrives at most once in a phase, `arrive(n)` with other `n` is not modelled, and a
token is used for the phase of its arrival or after it, until the fiber arrives
again; these are the preconditions of `std::barrier`. The completion function
may yield: `Arrive` then leaves the fiber in `completing`, with the new count and
the new sequence already stored, and `EndCompletion` returns from it. A fiber
inside the function has not arrived in the new phase, so no second one enters it,
unless the first has dropped out: then the calls may overlap. `members` and
`arrived` are histories of who has dropped out and who has arrived.

### AtomicQueue, BoundedFifo

Each access to an index that the other side writes is a step of its own:
`TestFull`, `StoreValue`, `StoreHead` are `push()`, `TestEmpty`, `Get`, `Pop` the
calls of the consumer, `LoadHead` and `LoadTail` the two loads of `getSize()`,
which `isNearlyFull()` and `isNearlyEmpty()` call. Interleaving the two sides
freely covers an interrupt on either side. The consumer pops only after it has
found the queue not empty, and copies what `get()` refers to before `pop()`.
`head` and `tail` are volatile, the buffer is not: that a compiler keeps the value
before its index is assumed. The refinement maps the slots from `tail` to `head` to
the abstract queue; the sides' own progress is hidden, so a value enters at
`StoreHead` and leaves at `Pop`.

### SoftwareTimer, IdealTimer

`time` is the true age of the clock and `began` the true time of `_start`; the code
sees both modulo `Ticks`. One timer of either class, with every operation at every
moment. The guard `LookedAtInTime` is what `timeout.hpp:142-152` asks of the
caller: the timer is looked at, and a periodic one executed, before its start is
as old as the time stamps reach. The loop of the periodic `execute()` is the
smallest number of rounds after which less than an interval is left (`Loops`),
with the count of those rounds that the code counts (`Count`). `IdealTimer` is the
same on a clock that does not wrap around.

### AmnbNode

A step is what a fiber does between two yields. Each node has one fiber that calls
`request()`, `update_transmit()` and `update_receive()`; the first two poll
`is_sending` and enter `send()` without a yield in between (`Claim`). `Attempt` is the
test of the medium and the start of `transmit()`, `Reschedule` and `TryAgain` the
back-off, `Transmitted` and `Failed` the end of `transmit()`, `Return` the end of
`request()`, `ReceiveHeader` and `ReceiveData` the two halves of `update_receive()`
with the two calls of `handleRxMessage()`. `Act` is `Action::call()`: `Execute` where
the callback is called and returns a response, an `ErrorResponse()` (`UserError`), or
either without the memory for it (`Outcomes`), `Refuse` where it is not called because
the argument does not fit. `RequestUnallocated` is the `request()` that finds no memory
for its argument.

A payload is one of a few values: an argument that the action takes or does not
take, a result, or an error code. `call` in a message is not on the wire and nothing
reads it but the properties; with the histories `asked`, `requests` and `executed` it
tells which call a message came from.

The bus is external. Any set of listeners may receive a message whole, only its
header, or not at all. A node may find the medium free while another transmits.
Of the transmissions that overlap, all are garbled or one survives; two nodes that
transmit the same bytes at once, both of which would succeed, are left out. A
`transmit()` may fail although others have received the message. The model lets a
node whose own transmission has just been lost receive the survivor's, which
needs luck on the wire. Failed receptions that leave no trace are messages that
nobody received; so is a payload that its receiver cannot allocate
(`receiveData()` fails, the header has been seen). Timers expire at any time
(`TryAgain`, `Return`). The contents of payloads, checksums and `setAddress()` are left
out.

`AnswersAreReal` says what an answer is worth: it tells the truth about a request that
was sent to the node and for the command that were asked. That it is the caller's own
request cannot be said (see Known limits).

### XpccDispatcher

`update()` is cut into a step for each packet (`UpdateOnceRx`) and for each entry of
the list that the pass of `handleWaitingMessages()` changes; `cursor` is where the
pass is. The applications may call between any two of these steps, which covers
handlers and callbacks that call actions or respond while the list is walked: a
response goes to the front and moves the cursor on, a request to the end. An entry
in `WaitForACK` may be found expired whenever the pass looks at it. Skipped
entries take no step of their own (`LooksAt`, `GoOnAt`).

The bus keeps the order of packets for each board and loses any of them. Packets
carry, besides what the code compares, the number of the message they are for; no
action reads it, only the histories. A negative response is handled as a response
is. Handlers keep their `ResponseHandle` (`handles`) and answer once, later or never;
the executions of a repeated call share one handle as long as it is not used, and a
later execution can answer again.
Payloads, event listeners (which keep no state) and the copies of inner messages
that the code also sends to the bus are left out; those copies fit nothing on
another board. Entries that wait for a response stay in the list for ever when none
comes (`dispatcher.cpp:279-285` says so), in the model too.

## Runs

| Run | Shows | Bounds |
|---|---|---|
| `sched` | `RingInv`, `ContextInv`, `NoDanglingTask`, `WatermarkInv`, `StacksAreKept`, the refinement `RoundRobinSpec`, and the liveness `EveryFiberExecutes`, `JoinReturns`, `DestructorEnds` | 3 tasks, one a server: a ring of three distinguishes predecessor, successor and self, and a third fiber can act while one waits for another |
| `recursive` | mutual exclusion, the counter is the owner's depth, who waits for whom, `lock()` returns | 3 fibers, 1 interrupt, counter limit 3 (below, at and beyond the middle of the nesting) |
| `shared` | a writer is alone, `lock()` and `lock_shared()` return | 3 fibers and 1 interrupt that may all write; one of them, a fiber or the interrupt, also reads |
| `shared_readers` | violation: readers are not counted | 2 readers |
| `condvar` | the mutex is held where it must be, no notification is lost (of an interrupt: none after the load of the sequence), notified waiters return | 2 waiters, 1 producer, 1 interrupt that notifies at any moment, sequence modulo 4, at most one notification between two yields |
| `counting` | permits are neither lost nor made up, nobody passes the latch early, `acquire()` and `wait()` return | 3 fibers, 1 interrupt, semaphore with 4 values, latch of 3 lowered by 1 or 2: an interrupt can change the count in either direction, twice before an exchange, and a count-down can ask for more than is left |
| `barrier` | the counters tell who is missing, nobody passes early, everyone passes | 3 fibers, sequence modulo 4: the last, a middle and the first arrival differ, each of them may drop out, the sequence wraps around |
| `queue` | `FifoSpec`, the refinement of `BoundedFifo`, and `SizesAreBounds` | capacity 3 and 2 values: the indices wrap around inside, at the start and at the end of the buffer, and a repeated or reordered value shows |
| `amnb` | `SendersExclude`, `TriesBounded`, `AnswersAreReal`, and the liveness `RequestReturns`, `QueueDrains` | 2 nodes; one makes two calls, of an action with an argument that it takes or does not take, of one that does not exist, or a broadcast, so that a second request can meet the answer to the first; the other answers, so both transmit and all collisions of two occur; 2 tries, a counter of 4 values, one message in a receive buffer; queues of 2 |
| `xpcc` | `CallbackOnce`, `ExecutionsBounded`, `AckedIsDelivered`, `AnswerEndsWaiting`, the liveness `SendingEnds`, and `XpccTypeOK`, by which the cursor stays inside the list | 2 boards, 3 components, one of which calls another on its own board; 3 messages in all, so a call, its response and a call or event in between; 3 transmissions of each, as in the code |
| `timers` | `TimerIsIdeal`, the refinement of `IdealTimer`, and `StatusIsTrue` | time stamps modulo 8, intervals 0, 1, 2, 3 and 7 (none, the smallest, dividing and not dividing the range, the largest), 24 ticks: three times around |
| `timers_remaining` | violation: `remaining()` after the clock has wrapped around | as `timers` |

No run has a state constraint; all are finite by themselves. Deadlock is checked
except in `amnb`, `xpcc` and the timers, where the system rests when the bounded
number of calls has been made or the bounded time is over.

The other type invariants are not part of the runs, but of the proofs, which show
`TypeOK` of every module; a timer's is part of `TimerIInv`. So are `OwnerHolds` of
`FiberSharedMutex` and `LatchCounts`.

`Burst` and `Sequences`: a waiter compares the sequence once per round of the
ring, so it misses a notification only if a multiple of 2^16 of them come within
a round. The model assumes fewer (`Burst * Cardinality(Fibers) < Sequences`), and
the modulus 4 makes the counter wrap around many times.

### Fairness

`yield()` is the only way to give up the processor, and the documentation makes
each fiber responsible for reaching it (`fiber.hpp:44-47`). Hence weak fairness
of "the executing fiber reaches its next switch", and none for starting tasks,
stopping them or notifying. In `FiberSharedMutex` and `FiberConditionVariable`,
where a fiber can do other things between two yields for ever, the same
assumption is strong fairness of passing the turn (`TurnPasses`).

The properties of `FiberCounting` assume besides that interrupts cease at some
time to change the count in the middle of an attempt (`Undisturbed`), as they
would otherwise make the exchange fail for ever, and `AcquireReturns` that from
some time on there is a permit: `release()` hands none over to a fiber that waits.

In `AmnbNode`, every fiber of a node has its turn, every timer expires and every
transmission ends, so each of their steps is weakly fair; calls of the application
are not. In `XpccDispatcher` every board calls `update()` again and again, which
makes the reception of packets and the pass over the list weakly fair; nothing is
assumed of the bus, which may lose everything. `AtomicQueue` and `SoftwareTimer`
state safety only.

The liveness of `lock()` needs premises about its users, which the properties
state: critical sections end; interrupts stop taking the mutex at some time; and
no fiber unlocks and locks again without a yield in between (`greedy`). Without
the last one a waiting fiber starves, since `unlock()` hands the mutex to nobody
and the fiber that unlocks is the one that executes.

## Findings

Each is shown by a run that TLC ends with a violation.

* `WriterIsAlone` with two readers (`shared_readers`, `shared_mutex.hpp:61-84`): the
  shared mode has no counter, so the first `unlock_shared()` frees the mutex.
* `RemainingIsTrue` (`timers_remaining`, `timeout_impl.hpp:84-86`): `remaining()`
  widens the time stamps before it subtracts them, so it is wrong by the whole
  range of the clock once the clock has wrapped around since `restart()`. `state()`
  and `execute()` subtract in the width of the time stamps and are right.

## Known limits

What else the code does not promise although one might expect it, with the
configuration under which TLC shows it (`tlc -config <cfg> <module>`). The
properties of the runs are stated so that they hold beside these.

| Where | What | Shown by |
|---|---|---|
| `task.hpp:99-105` | `join()` looks once per turn and misses the end of a task that another fiber starts again before; `JoinReturns` is what does hold | `FiberSchedulerJoin.cfg`, `MCFiberScheduler` |
| `scheduler.hpp.in:60-68` | interrupts with IPSR below 16, and all of other cores, have the identity of the fiber they interrupt, and recurse into its critical section | `FiberRecursiveMutexIrq.cfg`, `MCFiberRecursiveMutex` |
| `condition_variable.hpp:64-71` | the sequence is captured after the unlock: a notification by an interrupt in between is lost (`NoLostInterrupt`). A fiber cannot come in between, and what the interrupt notifies after the capture is not lost | `FiberConditionVariableIrq.cfg`, `MCFiberConditionVariable` |
| `condition_variable.hpp:81-92` | `request_stop()` sets a flag that a fiber inside `poll` does not read: `wait(lock, token, predicate)` ends only after a further notification | `FiberConditionVariableStop.cfg`, `MCFiberConditionVariable` |
| `barrier.hpp:56-57` | a completion function that yields lets the waiting fibers pass before it has ended | `FiberBarrierCompletion.cfg`, `MCFiberBarrier` |
| `node.hpp:250-258` | a response that arrives while `send()` still has the request to transmit again overwrites it: the node then transmits the response of another node | `AmnbNodeResponse.cfg`, `MCAmnbNode` |
| `node.hpp:253-255` | an answer carries the address of the node that gives it and the command, nothing of the request: a late answer to an earlier request, or to one of another node, to the same node and command is returned (`AnswersAreOwn`) | `AmnbNodeLate.cfg`, `MCAmnbNode` |
| `communication/amnb/handler.hpp:138` | an action that does not take its argument is not called, but `Response(Error::WrongArgumentSize)` picks the template `Response(T)` (lines 96-98), so the error is the payload of a `Type::Response`, "Positive Response with a custom user payload" (`message.hpp.in:27`), and not of a `Type::Error`, "Negative Response with a system error code" (line 28), as a missing action is. `node_test.cpp:175-185` names it a system error and expects this type on the wire. A `request<>()` without a result then reports no error for a call that never happened (`PositiveMeansExecuted`) | `AmnbNodeRefused.cfg`, `MCAmnbNode` |
| `node.hpp:109` | `RequestAllocationFailed` is the payload of a `Response` for the same reason, although `module.md:195-197` announces an error | `NotAllocated` |
| `node.hpp:168,181` | commands below 4 start with a counter of 0 and have 256 tries | premise of `TriesBounded` |
| `dispatcher.cpp:100-106` | `headerFits()` compares neither type nor message: an acknowledge confirms a repeated call that has not arrived | `XpccDispatcherAck.cfg`, `MCXpccDispatcher` |
| `periodic_timer.hpp:63` | at a look exactly on a multiple of the interval beyond the first, `execute()` returns one period less than it moves the start | `IdealTimer` (`Ended`), as the unit test expects |

## Proofs

All are machine-checked by TLAPS, for every value of the constants under the
named assumptions of the modules.

* `FiberScheduler_proofs`: `RingCorrect`, `ContextCorrect`, `StacksCorrect`,
  `WatermarkCorrect`, `DestructionCorrect`, `RingIsRoundRobin`. `TypeOK` alone is not inductive,
  because `yield()` copies a pointer into `current` that is a task only if the
  ring is closed; `RingIInv == TypeOK /\ RingInv` is. That there is one ring and
  not several is stated without induction: no proper non-empty subset of the
  attached tasks is closed under `next`. `AddKeepsRing` and `ReturnKeepsRing` take
  such a set of the new ring to one of the old ring. The contexts are inductive
  relative to the ring (`ContextIInv`), the watermark and the lifetimes too.
  `RingIsRoundRobin` is the refinement of `RoundRobin` without its fairness, for every
  set of tasks. `QueueInv` says that some sequence `q` reads the ring (`Reads`: it
  lists each attached task once, from `last->next` to `last`, along `next`); each
  step is shown to turn such a `q` into `q` itself, its rotation, its tail or `q` with
  the new task behind (`Moves`); and `QueueIsRead` shows that `RingAsQueue`, which TLC
  computes with the recursive function `Position`, is that `q`. The two inductions
  that this takes, that the recursive function exists (`Iteration`) and that it
  agrees with `q`, are by least counterexamples (`LeastExists`), because the induction
  theorems of the library cannot be instantiated.
* `FiberRecursiveMutex_proofs`: `MutexCorrect` (types, `OwnerHolds` and
  `MutualExclusion`, the conjunction is inductive once it says that only the owner
  has a depth) and `WaitsCorrect`, under the assumption that interrupts have
  identities of their own.
* `FiberSharedMutex_proofs`: `SharedMutexCorrect`, under the assumption that at
  most one actor uses the shared mode.
* `FiberConditionVariable_proofs`: `ConditionVariableCorrect`, the types and
  `LockInv`, and `NotificationsCorrect` (`NoLostNotification`), for every set of
  interrupts, which may notify at any moment. The scheduler passes the turn along one
  ring (`RingAssumption`, which `FiberScheduler` shows of the code); `Turns` counts
  the turns since a waiter's own, and `Noticed` bounds the notifications that it
  has not seen by `(Turns - 1) * Burst + burst`, which is less than the values of
  the sequence, so the sequence does not come back to the captured one.
* `FiberCounting_proofs`: `CountingCorrect` (types, `PermitsConserved`,
  `LatchCounts`) and `PassingCorrect`. The conjunction is inductive with
  `SeenOpen`: who has loaded zero from the latch ends its loop without an
  exchange, which is right because an open latch stays open.
* `FiberBarrier_proofs`: `BarrierCorrect` (types, `CountsMissing`) and
  `PassingCorrect`. `Tokens` is what makes the second inductive: a fiber that has
  arrived holds the token of this phase, and one that has not does not, whatever
  the modulus of the sequence (greater than 1). `CompletesIffLast` takes the
  comparison of `arrive()` to "no other member is missing".
* `Wraparound_proofs`, of `AtomicQueue`: `TypeCorrect`, `SizesCorrect` and `QueueIsFifo`, the
  refinement itself. The inductive invariant `IInv` adds to the types what each
  side may rely on between its accesses: after its test the producer has a free
  slot and the consumer a value, because the other side can only make more of it;
  the slot at `head` holds the argument before `head` moves; what has been read is
  still the oldest value; and what one side has loaded bounds what is inside. The
  lemmas about `NextIndex` and `Slot` replace the modulus by cases.
* `Wraparound_proofs`, of `SoftwareTimer`: `StatusCorrect` and `TimerCorrect`, the
  refinement of `IdealTimer`, for every range of the time stamps and all intervals
  that fit into it. `TimerIInv` says that the start is the true start modulo the
  range and that, while a timer waits for its time, less than a whole range has passed
  since (which the assumption `LookedAtInTime` on the caller preserves), so that the
  modular difference is the true one. The lemmas about the loop of the periodic timer find the least multiple of the
  interval that is not below the elapsed time, and show that `Count` periods bring
  `began` there.
* `Communication_proofs`, of `AmnbNode`: `TypeCorrect`, `SendingCorrect`, `TriesCorrect`,
  `AnswersCorrect`. `TriesLeft` relates the tries made to the counter in each place;
  `AllGenuine` says that whatever is on its way, in a queue, a receive buffer or the
  answer of a request, is a request that was made or tells the truth about one
  (`Genuine`, `Told`); that this stays true needs that what was executed stays so
  (`ToldGrows`) and that no action is called with an argument that it does not take
  (`ExecutedFits`), so that a refused request was never executed. `Returned` carries
  the answer of a request over until the next call, and `OutgoingExists` says that a
  request that waits still asks what the application asked, also after a response has
  overwritten it. These hold for any outcome of the bus.
* `Communication_proofs`, of `XpccDispatcher`: `XpccTypeCorrect`, `CallbackCorrect`,
  `ExecutionsCorrect`, `AcknowledgeCorrect`, `AnswerCorrect`, for every set of boards
  and components, every table of actions and every number of messages. Their
  inductive invariant `XpccIInv` was checked by TLC before it was proved. Its parts:
  every entry, handle and packet is of a message that was made (`Logged`, `Entered`,
  `Handled`, `Received`), and what has not been made has left no trace (`Fresh`);
  a message has at most one entry, in the list of its sender (`OneEntry`), and in a
  list the responses stand before the requests (`ResponsesFirst`); whoever had its
  callback called with an outcome has no entry any more (`Answering`), which is
  `CallbackOnce`; and the deliveries of a message and its copies on the way are at
  most as many as its transmissions (`Counted`), which is `ExecutionsBounded`.
  `AckedIsDelivered` is inductive given that an acknowledge is of a message that was
  delivered, and `AnswerEndsWaiting` given `OneEntry` and `ResponsesFirst`, by which the
  search behind the cursor finds the request. The lemmas about `RemoveAt` and the
  insertion of an entry follow each entry from its old index to its new one.

Only model-checked: all liveness properties, and with them the fairness that
`RoundRobinSpec` demands of the scheduler beyond its steps; ENABLED and fairness are
out of the prover's reach.

## Not modelled

Several cores (each has a scheduler of its own), the registers and stack words of
a context switch, the ready-made wrappers of the standard library
(`lock_guard`, ...), the timed waits with a stop token, `call_once`, the clock
inside the waiting functions, and the components that the inventory lists without
a module. Of the communication stack: the bytes, escapes and checksums of AMNB, the
frames of the XPCC CAN connector, and the protocols SAB, SAB2 and RPR. Drivers,
boards and generated code, by far the most of the repository, are register
protocols of chips that are not in it, and the containers, the mathematics and the
formatting are sequential code that the unit tests reach.

## Plan

1. Fibers: `FiberScheduler` with `RoundRobin`, the mutexes, the condition variable,
   `FiberCounting`, `FiberBarrier`: done. Left: `call_once`, the timed waits with a
   stop token.
2. `AtomicQueue` against `BoundedFifo`, `SoftwareTimer` against `IdealTimer`: done.
3. `XpccDispatcher` and `AmnbNode` on their buses: done. Left: the CAN connector of
   XPCC, which puts messages together from frames that carry a short counter, so
   that frames of an earlier message may complete a later one.
4. Proofs: every safety property of the runs, and the steps of all three refinements:
   done. New components bring their own.
