# A TLA+ model of the WineGDK game runtime

WineGDK is Wine with an implementation of Microsoft's game runtime,
`src/dlls/xgameruntime`. The rest of the repository is upstream Wine. This
directory specifies the runtime's own core logic: the task queues that run every
callback of a title, with the lock-free list under them; the asynchronous operations
built on them; and the requests the runtime sends to the Xodus service.

Paths below are relative to `src/dlls/xgameruntime/`; `Threading/` is
`GDKComponent/System/Threading/`.

## The system

| Component | State | Operations | What is hard |
|---|---|---|---|
| Task queue port, `Threading/XTaskQueue.cpp` (`TaskQueuePortImpl`, `TaskQueuePortContextImpl`) | ready list, delayed list, timer due time, two lists of terminations, counters of running callbacks; per attached context a status and a suspend count | `QueueItem`, `Dispatch`, `Wait`, `DrainOneItem`, timer callback, `PrepareTerminate`, `CancelTermination`, `Terminate`, `SuspendTermination`, `ResumeTermination`, `RegisterWaitHandle` | lock-free: submitters, pool threads, the timer and terminators move the same entries; termination must come after the callbacks and wait for suspensions |
| Task queue, same file (`TaskQueueImpl`) | two ports, their contexts, `m_termination` | `Terminate` (Work port first, then Completion), handles, process default queue | termination cascade, waiting for it |
| Submission monitor (`SubmitCallback`, `AtomicVector.h`) | two buffers of registrations | register, unregister, invoke | unregistering while another thread invokes |
| XAsync, `Threading/XAsync.cpp` | per operation: signature, status, state pointer in two copies of the block; reference count, cleanup location, wait flag | `XAsyncBegin`, `Schedule`, `Complete`, `Cancel`, `GetStatus`, `GetResult`, worker and completion callbacks | who completes, who cleans the provider up and who frees the state is decided by races |
| Lock-free list, `Threading/LocklessQueue.h` | nodes linked by tagged pointers, free list | `push_back`, `pop_front`, `remove_if` | ABA, node recycling |
| Wait timer and thread pool, `Threading/WaitTimer.cpp`, `ThreadPool.cpp` | armed due time; outstanding calls | `Start`, `Cancel`, callback; `Submit`, `Terminate` | start racing a callback that is running |
| Async info, `WineCoreUAP/Foundation/IWineAsync.cpp`, `.hpp` | status, result, handler, awaiter's event | `Create`, pool callback, `Cancel`, `Close`, `put_Completed`, await | handler set while the operation ends |
| Vectors, `WineCoreUAP/Foundation/IWineVector.cpp` | an array | insert, remove, index, get many | boundaries |
| Xodus IPC, `GDKComponent/Xodus/IPCLayer.cpp`, `Unix/socket.c` | one socket, a list of response handlers | send and wait, pump, add and remove handler | responses without identity, late responses, the list has no lock |
| XUser, XNetworking, XSystem, XGame, entry points | tokens, tables | XAsync providers around network calls; queries | mostly I/O; their use of XAsync is modelled |

How they interact: an application calls `XAsyncBegin` with a block that names a
task queue; the provider's `Begin` schedules a worker callback on the queue's
Work port; a thread of the pool, or one that calls `Dispatch`, runs it; the
provider completes the operation; a completion callback is submitted to the
Completion port. Every operation suspends the termination of its queue from
beginning to the end of its completion callback. `XTaskQueueTerminate` cancels
what is queued (canceled callbacks still run, with a flag) and calls the
application back when all is done, first on the Work port, then on Completion.

`XodusService` does not use the task queues: a call is an `AsyncInfo` on the OS
thread pool, which sends a packet through `IPCLayer` and waits for a response
that a pump thread reads from the socket.

## Modules

| Module | Models |
|---|---|
| `TaskQueuePort` | one port and the contexts attached to it, one atomic access per step |
| `PortPromise` | what a port promises its queues; `TaskQueuePort` implements it, `TaskQueue` is built on it |
| `TaskQueue` | one queue with its two ports, its terminations, references and handles |
| `LocklessQueue` | the lock-free list with its node heap, one atomic access per step |
| `FifoQueue` | what the list promises; `LocklessQueue` implements it |
| `XAsync` | one asynchronous operation, its provider and its threads |
| `AsyncInfo` | the operations of the internal services, and who awaits them |
| `XodusIPC` | calls of the Xodus service over `AsyncInfo`: senders, handler list, socket, pump |
| `TaskQueuePortProofs` | proofs: types of the port; suspension holds termination; no resurrection |
| `TaskQueueCallbackProofs` | proofs: termination after callbacks, delays, one callback at a time, exactly once |
| `TaskQueueRestProofs` | proofs: nothing left behind, no stranded delay |
| `TaskQueuePromiseProofs` | proof: the port implements `PortPromise` |
| `TaskQueueProofs` | proofs: references of a queue, its two ports, its terminations; nothing stuck |
| `LocklessQueueProofs` | proofs: no stray dereference; `pop_front` misses only an empty queue |
| `XAsyncProofs` | proofs: completion, reference count and cleanup of an operation |
| `XodusProofs` | proofs: async info objects, stream, responses, handler list; nobody waits for ever |
| `MCTaskQueuePort`, `MCTaskQueue`, `MCLocklessQueue`, `MCXAsync`, `MCXodusIPC` | their instances, with symmetry |

### TaskQueuePort

Variables carry the names in the code (`status` is `m_status` of each context,
`suspends` its `m_suspendCount`, `queue` `m_queueList`, `pending`
`m_pendingList`, `termList` and `pendTerms` the two termination lists,
`processing`, `serial`, `timerDue`). Each thread has a place in the API call it
executes (`pc`), one in the `NotifyItemQueued` or `DrainOneItem` that call has
entered (`inner`), and its local variables (`loc`).

* A step is one access to shared memory: a list operation, a compare-exchange, a
  counter, a critical section, an OS call. `if (m_queueList->empty() &&
  m_processingCallback.load() == 0)` is two steps.
* A retry loop around a compare-exchange whose value is not kept is the exchange
  that succeeds.
* The delayed list and the termination lists are sets; the ready list is a
  sequence. List operations are atomic: `LocklessQueue` shows what that leaves out.
* `mode` is `m_dispatchMode`, chosen from `DispatchModes` when the port is created.
* Callbacks are opaque and return; a callback of a canceled context runs too.
* `raced` and `overlap` are history variables for two windows of the code, see
  *Observations*.

### PortPromise and TaskQueue

`PortPromise` keeps, per port, sets of callbacks (accepted, ready, running) and of
terminations (prepared, under way, signaled), a status and a number of suspensions
per context. Its actions say when each may move on: a termination is signaled only
when nothing of its context is ready or running and nobody suspends it. The two
exceptions of the code (`late`, `weak`) are variables of the promise.
`KeepsPromise` maps the port's lists and the threads' places to these sets.

`TaskQueue` extends `PortPromise` with two contexts, `"Work"` and `"Completion"`. A
step is at most one step of a port together with what `TaskQueueImpl` does in it.
`refs` is `m_refs`: handles, submissions (three references, one of which the entry
inherits), terminations and waiters count. `stage` is the place of each
`Terminate`, `level` that of its termination callback; `terminated` and `LockFree`
are the flag and the lock of `m_termination`. The application is assumed to call only
through a handle it has open, and to keep one while it suspends.

### LocklessQueue and FifoQueue

`next`, `data`, `head`, `tail` are the fields of nodes and lists; an address is a
node and its 16-bit ABA counter. `push_back` pops a node from the heap's free list,
itself a list of the same kind, and pushes it on the queue; `pop_front` does the
opposite; `remove_if` pops all and pushes what it keeps through a retain list on the
same heap. Each load and each compare-exchange is a step, except that a load and the
check that `m_head` or `m_tail` has not changed since are one (counters do not come
round within the bounds). `FifoQueue` is a sequence with a put at the end and a take
at the front; while `remove_if` has its lock the front may go. A push that went astray
(`stray`) ends its promise.

### XAsync

`sig`, `status` and `attached` stand for the three fields of `AsyncBlockInternal`.
The caller's block and the copy in the state change together under both locks,
so one variable stands for the pair. `refs`, `cleanup`, `scheduled`, `valid` and
`satisfied` are the fields of `AsyncState`; `held` counts the suspensions of the
queue; `workQ` and `complQ` count callbacks waiting on the ports. `mine[t]` is how
many references thread `t` is responsible for, which makes the count checkable.

* Calls nest (a canceled worker calls `XAsyncCancel`, which calls the provider,
  which calls `XAsyncComplete`), so each thread has a stack of return places.
* A guard on the caller's block is two steps, `Peek` and the critical section: in
  between, the state is kept alive only by a temporary reference.
* The last release and the destructor are one step: nobody can reach the state.
* The provider is external. It behaves as those in `XUser.c`, `XNetworking.cpp` and
  `XAsyncRunProvider` do, and a little more freely: `Begin` schedules or fails;
  `DoWork` completes, fails, returns without completing, or schedules itself
  again; `Cancel` completes with `E_ABORT` or does nothing.
* The task queue is what `TaskQueue` shows (`CompletionOpen`, `TerminatedMeansOver`).
  `queue` is how far its termination has come: `Canceled` (callbacks run with the flag
  set), `Terminating` (the Work port refuses callbacks and suspensions), `Closed` (the Work
  port has ended and the Completion port refuses too). `QueueItem` looks at the status in
  one step (`SubmitWork`) and appends in a later one (`AppendWork`).
* `other` is the suspension of another operation begun on the same queue before
  (`Shared`). Its `ResumeTermination` is two steps, and the second may collect a
  termination that was parked for the sake of this operation (observation 1).
* When the Completion port refuses the completion callback the process fails fast
  (`aborted`) and does nothing more.

### AsyncInfo and XodusIPC

`AsyncInfo` has one action per critical section of `AsyncInfo::mutex`. `XodusIPC`
extends it: each call of the service (`Calls`) is one operation, whose callback is
`SendRequest`. (The operation inside, awaited without a limit, adds no behaviour of its
own.) The handler list is `links`, the `next` and `prev` of `wine/list.h`; adding and
removing read pointers in one step and write them in the next (`snap`). The stream
is a sequence of half frames; `Cap` is the poll buffer, and a read takes any number
of halves that fit. The Xodus service and the kernel are external: the service
answers a request, answers late, never, or sends a frame unasked; the connection may
close. The service may also stop reading until the socket's send buffer is full (`full`):
`write` then blocks, for the socket is a blocking one and has no send limit. The pump may
return on an error of its own, when `poll` or `read` fails or there is no buffer for a
packet (`broken`); nobody is told. `entered`, `torn`, `disturbed`, `handed` and others are history variables.

## Runs

| Run | What happens in it | Distinct states |
|---|---|---|
| `port_pool` | ThreadPool and SerializedThreadPool: two submitters that suspend, two pool threads, one termination | 890 000 |
| `port_timer` | Manual: a submitter of three delayed callbacks, two timer threads, one termination | 1 600 000 |
| `port_manual` | a dispatcher, two terminations, allocations that fail; liveness too | 130 000 |
| `port_live` | liveness in ThreadPool and Immediate mode, with a suspension, a delay and pushes that fail | 190 000 |
| `task_queue` | two calls of `Terminate`, submissions at once and delayed, two suspenders, two handles, allocations that fail | 1 300 000 |
| `list_queue` | two producers, a consumer, a remover, five nodes that run out | 1 260 000 |
| `list_lost` | two producers and a remover; **violated**, see *Findings* | |
| `async_outcomes` | an operation with or without a callback on a queue with another operation; cancel, collect, queue termination and failing submissions race | 410 000 |
| `async_race` | two workers, two cancelers, an operation that schedules itself again | 560 000 |
| `async_live` | liveness of an operation, waiters included | 63 000 |
| `xodus` | two calls, the pump, the handler list, one unusual event | 2 440 000 |
| `xodus_live` | liveness of a call, with up to three unusual events | 110 000 |

The properties checked on the port:

* `ExactlyOnce`: every accepted callback is in one place until it is invoked, and
  is invoked once.
* `TerminationAfterCallbacks`: a termination callback runs after the callbacks of
  its context have returned.
* `SuspendHoldsTermination`: no termination of a suspended context is run or
  queued to run.
* `NothingLeftBehind`: when all is quiet, nothing waits on the port for want of a
  thread to run it.
* `NotEarly`, `NoStrandedDelay`: a delayed callback is neither promoted early nor
  left without a timer.
* `SerializedOneAtATime`, `NoResurrection`.
* `KeepsPromise`: the port implements `PortPromise`.
* `EveryCallbackRuns`, `TerminationCompletes`: liveness.

on a queue:

* `NoUseAfterRundown`: `m_refs` reaches zero only when no handle, call, callback or
  termination uses the queue any more.
* `CompletionOpen`: the Completion port takes callbacks while a Work callback may
  still run or the termination is suspended.
* `TerminatedMeansOver`: what the termination callback, and the return of
  `Terminate(wait)`, tell the application.
* `NothingStuck`: where no part is `Busy`, every callback has run, every `Terminate` has
  returned and been called back, and an unused queue is gone.

on the list:

* `FifoOrder`: it implements `FifoQueue`, as long as no push went astray.
* `Conserved`: no value and no node is lost or doubled, however exchanges fail and
  nodes are recycled.
* `DereferencesNodes`: no thread follows `m_end`.
* `MissesOnlyEmpty`: `pop_front` fails only if the queue was empty during the call.

on calls of the Xodus service:

* `InvokedOnce`, `OverStaysOver`: completion, `put_Completed`, `Cancel` and `Close` race.
* `ListIntact`, `StrayExplained`: the handler list is right unless two threads changed it
  at once, and a handler outlives its request in the pump only in three stated ways.
* `ResponseNotReplayed`: what one request was handed is not handed to a later one.
* `FramesInOrder`: framing of the stream, and why the pump stops when it stops without an
  error of its own.
* `NothingStuck`: where nobody is `Busy`, every call has completed and every awaiter was woken
  or gave up, whatever is lost, but for a request whose write the service blocks.
* `CallsEnd`: liveness of a call, if the service does not stop reading for good with the
  connection open.

and on an operation of XAsync:

* `RefsExact`: the reference count is exact, calls leave nothing behind, and the
  state is deleted exactly at zero.
* `CleanupAlone`: the provider's `Cleanup` runs with nobody inside the provider.
* `CompletesOnce`: an operation is completed, called back and cleaned up once, and
  its state outlives what is owed to waiters, the callback and the queue.
* `Settled`: the first of the racing completions wins, for good.
* `CompletionAccepted`: the fail-fast of `XAsyncComplete` is reached only when another
  operation, resuming its own suspension, collected the termination (observation 1).
* `CallbackBeforeWaiters`: when waiters are woken.
* `WaitersReturn` (with a final status), `StateFreed`, `QueueTerminationCompletes`:
  liveness.

Each property is checked in the runs where it is hardest to keep, not in all.
`TypeOK` is checked in `port_pool` and `async_outcomes`; in the other modules it is
a conjunct of `DereferencesNodes`, `NoUseAfterRundown` and `ListIntact`.

### Bounds

Port: `MaxItems` 1 to 3, `MaxTerms` 1 to 2, `Horizon` 0 to 3. The races are between two
entries or terminations and two threads that handle them: two submitters and two
draining threads are in `port_pool`; three delayed callbacks (one due sooner, one later, one
submitted while the timer is re-armed), two timer callbacks and a terminator over them in
`port_timer`; a timer callback, a submitter that finds its context canceled and a
terminator over one delayed entry, with pushes that fail, in `port_live`, where the entry is
then invoked; two terminations,
one of which is rolled back, in `port_manual`. `ExactlyOnce` is checked in both runs with
delays. The port's runs have one context; the theorems of the port hold for any number of
them. Task queue: `MaxCalls` 3 in any mix of at most two
terminations, two callbacks and two suspensions, which lets a second `Terminate(wait)`
overlap the first and a suspension. List: `Size` 5 is the fewest nodes with which two
producers, a retain list and a queue of two have nodes to recycle, and they run out;
`MaxCalls` 5, where a `remove_if` weighs 3. Xodus: two calls, for the races on the list
are between two changes and the pump; `Cap` 2 (the buffer holds the longest frame, as
0x10008 bytes do); `MaxFaults` 1 unusual event (`Unusual`) on top of timeouts and late
answers, which are free, and 3 in `xodus_live`, where one call suffices: a service that stops
reading, a pump that fails and a cancellation can then meet. XAsync: one thread of each role
(waiters only in the liveness run), one other operation on the queue in `async_outcomes`, two
workers and two cancelers in `async_race`; `Reschedules` is at most 1, which suffices for two `DoWork` to overlap. Symmetry is used only in safety runs.
Deadlock is not checked in the runs without fairness: when the bounds are used up
the system rests, and `NothingLeftBehind` and `NothingStuck` say in which states it may.

### Fairness

Port (`FairSpec`): a thread inside an API call or an OS callback goes on, pool and
timer threads run what was submitted to them, the clock ticks, a thread that
suspended termination resumes it, and a dispatcher keeps dispatching. None of the
library's loops waits for another thread, so weak fairness of each thread is what
the OS scheduler gives. XAsync: threads inside the library, pool threads and
`XAsyncBegin` go on, a provider's `DoWork` ends, and the application collects a
result that is there: the contract of the API, without which the state is kept.
No strong fairness is assumed.

`XodusIPC`: weak fairness of the pump, of each request, of who awaits a call and of the pool
thread that invokes its handler. Nothing is assumed of the Xodus service; `CallsEnd` has as
its hypothesis that the socket is again and again not full, or closed.

`NothingStuck` of both modules states progress without a temporal formula, so that it can be
proved: `Busy` says from the state alone who has something left to do, and `NothingStuck`
what holds wherever nobody is `Busy`.

## Proofs

Every theorem holds for all values of the constants that satisfy the assumptions named in
the modules: sets of threads and calls are finite, bounds are natural numbers, the roles of a
port's threads are disjoint (callbacks are opaque: what one submits counts as a call of another
thread), and the buffer of the Xodus stream holds a frame (`Cap > 1`). No bound of a run is
used. None of the invariants is inductive as it stands. Each inductive invariant was checked
with TLC, on the instances of the runs or smaller ones, before it was proved.

### The port

| Theorem | Property | Inductive invariant |
|---|---|---|
| `TypeCorrect` | `TypeOK` | `TypeInv` |
| `SuspensionHolds` | `SuspendHoldsTermination` | `SuspInv` |
| `NeverResurrected` | `NoResurrection` | `TypeInv` |
| `TerminationLast` | `TerminationAfterCallbacks` | `DrainInv` |
| `DelayHonoured` | `NotEarly` | `EarlyInv` |
| `OneAtATime` | `SerializedOneAtATime` | `SerialInv` |
| `CallbackOnce` | `ExactlyOnce` | `OnceInv` |
| `AllDone` | `NothingLeftBehind` | `CoveredInv`, `OweInv`, `ParkedInv`, with `TypeInv`, `SuspInv` |
| `DelaysGoOn` | `NoStrandedDelay` | `DelayInv`, with `TypeInv`, `EarlyInv` |
| `PromiseKept` | `KeepsPromise` | `PromiseInv`, `TypeInv`, `SuspInv`, `DrainInv`, `OnceInv` |

* `TypeInv` adds `CarriesEntry` to `TypeOK`: the entry a submitter is about to push is a real
  one, not the null entry of a thread that has none.
* `SuspInv`: a context's suspend count is the number of threads holding a suspension of it
  plus the number of threads inside a call that owns one (`CountInv`); while a thread is
  about to collect the parked terminations of a context nobody has suspended it, `overlap`
  excepted (`CollectInv`); where nested routines return to (`RetInv`); a termination is in
  a list only once its context is Terminating (`TermsInv`); the property, context by context
  (`HeldInv`). The count is why a resumer that reaches zero, or a `Terminate` that finds
  zero, may conclude that nobody suspends the context.
* `NoResurrection`: of all steps four change a status, and each leaves a terminating context
  terminating; `CancelTermination` does so by the status it expects.
* `DrainInv`: `m_processingCallback` is the number of threads between its increment and its
  decrement (`CountedInv`). So a thread that read zero after it saw the list empty knows that
  no callback was running, and what entered the list since is in `raced` (`EmptyInv`,
  `IdleInv`); only such a thread has terminations to signal (`SignalInv`).
* `EarlyInv`: an entry a thread carries from the delayed list to the ready list was due
  (`CarryInv`), or its context has been terminated (`TouchedInv`).
* `SerialInv`: `m_processingSerializedTbCallback` is the number of pool callbacks between its
  increment and its decrement, only the one that raised it from zero drains, and nobody
  drains outside a pool callback. `OneAtATime` has the hypothesis `Dispatchers = {}`:
  `Dispatch` drains a port of any mode without looking at the counter, so a title that calls
  it on a serialized port gets no such promise.
* `OnceInv`: an identifier not yet used is nowhere, a used one is in one place: a list, the
  batch of a thread, or the hands of one thread (`PlacedInv`, `BatchInv`), and what was
  invoked is nowhere (`HistoryInv`). Places are counted, and each step moves one copy.
* `AllDone` accounts for who is still to come. In the modes in which the port runs callbacks
  itself, the list is no longer than the pool calls submitted plus the threads bound to pop
  once more (`CoveredInv`); while a termination is scheduled, somebody is left who will look
  at it (`OweInv`); a parked one has a suspension, or a thread about to collect it
  (`ParkedInv`).
* `DelayInv`: as long as nobody has begun to terminate a context, a delayed callback has a
  due time or a thread that will set one (`NextInv`), and a due time has the timer armed or a
  thread that will start it (`ArmedInv`), though `m_timerDue` and the timer are set in
  separate steps by submitters and timer callbacks at once. What is delayed for a terminating
  context has a thread that will flush it (`FlushedInv`), and a canceled context has one that
  will terminate it or roll back (`CanceledInv`).
* `PromiseInv` is what the refinement needs beyond these: no two threads run the same
  callback (`EntryInv`), and a termination is in one place from `PrepareTerminate` to its
  callback (`TokenInv`). The proof takes the actions of the port one by one and names the
  step of `PortPromise` each is, or shows that the mapped sets, statuses and suspensions
  stay as they are.

### The queue

`TaskQueue` is built on `PortPromise`: what these proofs use of the two ports is what
`PromiseKept` shows of one.

| Theorem | Property |
|---|---|
| `LastRelease` | `NoUseAfterRundown` |
| `ResultsAccepted` | `CompletionOpen` |
| `CalledBackLast` | `TerminatedMeansOver` |
| `ComesToRest` | `NothingStuck` |

`QueueInv` has five parts: which states of a callback (`ItemInv`) and of a termination
(`CallInv`) go together on the queue and on its two ports; the Work port's suspensions are
those of the suspenders, taken through an open handle (`HoldInv`); once a port has signaled a
termination nothing of it is left, and Completion closes after Work (`SignalInv`); and
`Balance`: `m_refs` is the number of handles plus a sum of cardinalities,
one for each kind of reference a callback or a `Terminate` holds at each stage.
`ComesToRest` adds `GoesOnInv`: what a callback or a `Terminate` waits for exists and is on
its way, its termination on a port or the level of its termination callback. The lock and the
suspensions are then never held by somebody who waits in turn for the termination.

### The list

| Theorem | Property | Inductive invariant |
|---|---|---|
| `FollowsNodes` | `DereferencesNodes` | `ListInv` |
| `MissIsEmpty` | `MissesOnlyEmpty` | `ListInv` |

What is inductive cannot be said of the memory alone: which of two nodes with the same fields
is in which list depends on how it got there. `ListInv` says that a labelling exists (`Shaped`):
each node has an owner (a list, the chain of a push that has not linked it yet, or a thread),
a rank in the owner's chain and a version, and each push in progress a number. `Graph` says of
the labels that each chain is linked by rank and ends in the list's end, head and tail are in
it, and what a thread has read of a head or tail is a version the node had and, if it still
has it, no further on than the present one. The numbers order the pushes: a push may have read
as its tail a node that another push has yet to link, because the missing counter at
`LocklessQueue.h:310` lets an exchange succeed late (see *Findings*), and only the order
excludes that two wait to be linked behind each other. Each step's proof gives the labels
after it. `MissInv`: while the queue is empty every `pop_front` in progress has seen it so.

The hypothesis `NoWrap`: where `push` bumps a 16-bit counter it does not come round, that is,
no node has been recycled 65535 times. Without it a stale exchange could succeed. The crossing
of the first finding is not excluded: it loses a value, and still no thread follows `m_end`.

### XAsync

| Theorem | Property | Inductive invariant |
|---|---|---|
| `PortAccepts` | `CompletionAccepted` | `CtlInv` |
| `WaitersLast` | `CallbackBeforeWaiters` | `CtlInv` |
| `StaysSettled` | `Settled` | `CtlInv` |
| `CountExact` | `RefsExact` | `RefInv` |
| `CleanedUpAlone` | `CleanupAlone` | `CleanInv`, `AloneInv` |
| `CompletedOnce` | `CompletesOnce` | the above and `DoneInv` |
| `TypesOk` | `TypeOK` | the above |

* `CtlInv`: signature, status and attached state of the block go together (`BlockInv`);
  completion is one token, held by the thread that settled the status, then by the
  Completion port or the thread that runs the callback, and the queue is suspended as long as
  it exists (`TokenInv`). Hence the Completion port is closed under it only if the other
  operation collected the termination (`other = "collected"`).
* `RefInv`: the count is what threads, queued callbacks and the block hold (`Balance`), the
  places of a call say how many are its own (`ThreadOk`), and the state is deleted exactly
  at zero (`FreedInv`).
* `AloneInv`: one thread at a time is in the provider's `Cancel`, and then nobody else may
  clean up; the work of an operation that does not schedule itself again is one token too
  (`OneWork`).

The last four have the hypothesis `OneGetter`, at most one thread in `XAsyncGetResult`: two
release the block's reference twice (observation 7), and the count is wrong from then on. The
first three need no hypothesis.

### Async info and Xodus

| Theorem | Property | Inductive invariant |
|---|---|---|
| `HandlerOnce` | `InvokedOnce` | `OpsInv` |
| `OverIsOver` | `OverStaysOver` | `OpsInv` |
| `DispatchedInOrder` | `FramesInOrder` | `StreamInv` |
| `NeverReplayed` | `ResponseNotReplayed` | `RegInv` |
| `ListWhole` | `ListIntact` | `ShapeInv`, `WalkInv` |
| `StrayOnlyThere` | `StrayExplained` | `WalkInv` |
| `NobodyWaits` | `NothingStuck` | `AwaitInv` |

* `RegInv`: an answer is sent once (`SentInv`); the pointers, those in the list and those a
  thread has read to change it, lead from later to earlier entries even when two threads
  tear the list (`PointInv`), so a walk does not come to an entry registered after the
  frame was handed out (`ReplayInv`).
* `ShapeInv`: unless torn, forward and backward links describe one sequence of entries, the
  handlers added and not removed (`Intact`). The property follows the links with the
  recursive function `Forward`; that it gives that sequence is proved from the
  well-foundedness of the natural numbers, by a least counterexample.
* `StreamInv`: the units in the buffer past the offset and those in the socket are the frames
  due, cut one after the other. An error of the pump leaves them where they are, and
  `FramesInOrder` then says only that what was dispatched was in order.
* `WalkInv`: unless torn, the pump stands on a registered entry or was disturbed.
* `AwaitInv`: an awaiter that waits has its event set, a thread that has taken the handler, or
  a request that will complete and find the handler.

### Only model-checked

* Liveness, out of the prover's reach: `EveryCallbackRuns`, `TerminationCompletes`,
  `WaitersReturn`, `StateFreed`, `QueueTerminationCompletes`, `CallsEnd`.
* `Conserved` and `FifoOrder` of `LocklessQueue`. They compare the whole contents of the list,
  which `Chain` collects by a walk over the nodes, before and after a step; what that recursive
  function returns for a list of any length needs an induction over data.

## Findings

`list_lost`: an accepted value can be lost from a `LocklessQueue`. The header says of the
queue "popping data copies that same data out to your variable" (`LocklessQueue.h:29`), and
that `push_back` returns false when there is no memory. `push` sets `node->next = m_end`
without a counter (`:310`), where Michael and Scott's algorithm, on which the list is based
(`:63`), keeps one in every pointer, and every list but the free list has the same `m_end`.
So the exchange at `:327` cannot tell a node that is still the tail from one that was popped
and pushed again elsewhere. In the run one producer has read the dummy as its tail;
meanwhile another push succeeds, and `remove_if` pops all and moves the dummy's node to its
retain list; the exchange of the first producer now succeeds there. Its entry is not put
back, or is freed with the retain list. `XTaskQueue.cpp` exposes it: `QueueItem` pushes on
`m_pendingList` (`:283`) while the timer (`:875`) or a termination (`:781`) is in
`remove_if`. `Conserved` excepts this case (`Crossed`). `FifoOrder` excepts more: every push
that went astray, since a stale push may also link its node behind one that another push has
popped from the free list and not linked yet, without any `remove_if`; the value is not lost,
but comes after the other's. The port's model takes the list to be right.

## Observations

The following is what the code does, seen in counterexamples while the
properties were made precise; where a property has an exception, this is it.

1. A suspension taken between the last `RemoveSuspend` of a resumer and its walk over the
   parked terminations does not hold (`XTaskQueue.cpp:665`): `overlap` of the port, `weak` of
   the promise, `other = "collected"` of XAsync. Two operations of XAsync on one queue get
   there: the `ResumeTermination` of one that ends counts the suspensions down to zero and
   stops before it collects (`:671`); `XAsyncBegin` of the other suspends (`XAsync.cpp:390`); a
   `Terminate` finds that suspension and parks (`:460`); the first thread goes on and collects
   it, and the Work port, with no callback yet, ends, and the Completion port closes. The
   other operation's work is now refused (`:264`), `XAsyncBegin` completes it with the error,
   the Completion port refuses the completion callback, and the `FAIL_FAST_IF_FAILED` of
   `XAsyncComplete` (`XAsync.cpp:852`) is reached. `CompletionAccepted` shows that this is the
   only way there.
2. A callback appended between the two reads of `XTaskQueue.cpp:556` is overtaken by the
   termination callback: `raced`.
3. `PromoteReadyPendingCallbacks` returns early when the next delayed callback belongs to a
   context that is not Active (`XTaskQueue.cpp:932`): other contexts of the port wait for the
   next delayed submission, and so does that one when its termination is rolled back
   (`CancelTermination`). `NoStrandedDelay` therefore excepts ports on which somebody once
   began to terminate a context; what belongs to a terminated context is never left.
4. A SerializedThreadPool port can leave a callback waiting for the next submission: the
   draining thread has seen the empty list and not yet left when another gives way to it
   (`XTaskQueue.cpp:1015`). No liveness is claimed for this mode.
5. Two dispatchers blocked on the auto-reset event can lose a wake-up (`XTaskQueue.cpp:565`);
   the liveness run has one.
6. When `DoWork` schedules itself again, two of them overlap, and `Cleanup` may run under the
   one that completed (`XAsync.cpp:439`): `CleanupAlone` excepts it.
7. Two threads in `XAsyncGetResult` at once release the block's reference twice
   (`XAsync.cpp:936`): `RefsExact` is checked with one.
8. `XAsyncSchedule` traces `state->queue` after `Detach` (`XAsync.cpp:810`), and leaves
   `workScheduled` set when the submission fails.
9. A canceled `WorkerCallback` uses the caller's block after an unlocked read of `valid`
   (`XAsync.cpp:528`); the model does not reuse or free the block.
10. A second `Terminate(wait)` may return before its own termination callback was called:
    `m_termination.terminated` is never reset (`XTaskQueue.cpp:1447`).
11. `WaitForUnwind` waits until a time point just after the clock's epoch, that is, not at
    all: a busy loop (`XTaskQueue.cpp:642`).
12. Requests to Xodus carry no identity: every waiting request takes the same response, and
    a late one is taken by another request (`IPCLayer.cpp:383`).
13. Two senders that change the handler list at once can lose an entry or keep a removed
    one; a pump that stands on a removed entry, or finds one left by a failed write
    (`IPCLayer.cpp:244`), invokes a handler that is gone. `StrayExplained` names these.
14. A frame that is not XML blocks the pump for good (`IPCLayer.cpp:340`); once the buffer is
    full, the pump takes it for a disconnect.
15. A completion overwrites a cancellation (`IWineAsync.cpp:346`).
16. The pump returns for good, with the connection open and nobody told, when it gets no buffer
    for a packet (`IPCLayer.cpp:363-371`) or `poll` fails (`socket.c:188`): every later request
    waits for its whole time limit.
17. `write` has no limit (`socket.c:221`): a service that stops reading keeps a request, and who
    awaits it without a limit, for as long as the connection is open.
18. `compare_exchange_weak` at `XTaskQueue.cpp:916` is taken as a strong one. Where it can fail
    spuriously (targets with load-linked and store-conditional) it reloads the same due time and
    leaves the loop at `:922-926` without arming the timer.

## Not modelled

Wait registrations (`RegisterWaitHandle`), `SuspendPort` and `ResumePort`, composite queues and
the process default queue, submission monitors (sequential under one mutex); an `AsyncInfo`
that could not be created (`IWineAsync.cpp:315-320`); the lifetime of
the port object; blocks of nodes beyond the first, and the ready and delayed list as two lists
on one heap; out-of-memory at fail-fast places; a block used for a second XAsync operation;
operations completed by a thread the provider owns; pumping waits
(`s_AsyncLibEnablePumpingWait` is always false); `GDKComponent/System/XUser.cpp` and
`User/UserImpl.cpp`, which the build does not compile; connecting the Xodus socket; the XML and
HTTP of Xodus and XUser (formatting and I/O); vectors (sequential); queries without state;
upstream Wine. `PROJECT.json` lists every component with the reason.

## Plan

1. `XAsync` extended to a block that is used again and to two collectors, each with its
   precondition; `RegisterWaitHandle`.
2. The value part of `Conserved` as a theorem, from the labelling of `ListInv` with the
   multiset of values instead of the walk.
