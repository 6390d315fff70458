--------------------------- MODULE TaskQueuePort ---------------------------
(***************************************************************************)
(* One port of an XTaskQueue (TaskQueuePortImpl): the list of callbacks    *)
(* ready to run, the list of delayed callbacks with the timer that promotes*)
(* them, and the termination protocol of the contexts attached to the port.*)
(* A context is one half of a task queue; a composite queue attaches its   *)
(* contexts to ports that other queues use too.                            *)
(*                                                                         *)
(* A step of this module is one atomic access to shared state: an operation*)
(* of a lock-free list, a compare-exchange, an atomic counter, a lock's    *)
(* critical section, or one call of the operating system.  A retry loop    *)
(* around a compare-exchange whose loaded value is not kept is one step,   *)
(* the exchange that succeeds.  pc is a thread's place in the API call or  *)
(* OS callback it executes; inner is its place in the NotifyItemQueued or  *)
(* DrainOneItem that call has entered, and outer steps wait for inner to be*)
(* done.  The lists of delayed callbacks and of terminations are sets:     *)
(* nothing below depends on their order.                                   *)
(***************************************************************************)
EXTENDS Integers, Sequences, FiniteSets

CONSTANTS
    Contexts,     \* the ITaskQueuePortContexts attached to the port
    Apps,         \* threads that call the API
    Suspenders,   \* those of them that suspend termination
    Pool,         \* thread pool threads (m_threadPool)
    Dispatchers,  \* threads that call Dispatch
    Timers,       \* threads that run the callback of m_timer
    DispatchModes,\* the XTaskQueueDispatchModes a port may be created with
    Delays,       \* delays a caller may ask for, 0 = no delay
    Oom,          \* TRUE: allocations of list nodes may fail
    MaxItems,     \* bound: calls of QueueItem
    MaxTerms,     \* bound: calls of PrepareTerminate
    Horizon       \* bound: the clock stops here

Threads == Apps \cup Pool \cup Dispatchers \cup Timers

Modes == {"Manual", "ThreadPool", "Serialized", "Immediate"}

ASSUME ModeAssumption == DispatchModes \subseteq Modes
ASSUME BoundsAssumption ==
    /\ MaxItems \in Nat /\ MaxTerms \in Nat /\ Horizon \in Nat
    /\ Delays \subseteq Nat
    /\ Oom \in BOOLEAN
ASSUME ContextsAssumption == Contexts # {}
ASSUME ThreadsAssumption ==
    /\ IsFiniteSet(Threads)
    /\ Suspenders \subseteq Apps
    /\ Apps \cap (Pool \cup Dispatchers \cup Timers) = {}
    /\ Pool \cap (Dispatchers \cup Timers) = {}
    /\ Dispatchers \cap Timers = {}

VARIABLES
    mode,        \* m_dispatchMode, fixed when the port is created
    status,      \* TaskQueuePortContextImpl::m_status of each context
    suspends,    \* TaskQueuePortContextImpl::m_suspendCount
    queue,       \* m_queueList
    pending,     \* m_pendingList
    termList,    \* m_terminationList
    pendTerms,   \* m_pendingTerminationList
    processing,  \* m_processingCallback
    serial,      \* m_processingSerializedTbCallback
    poolWork,    \* callbacks submitted to m_threadPool and not yet started
    event,       \* m_events[0], an auto-reset event
    timerDue,    \* m_timerDue
    timer,       \* the due time m_timer is armed for, or Unarmed
    now,         \* the monotonic clock of m_timer
    pc, inner,   \* control of each thread
    loc,         \* local variables of each thread
    nextId,      \* m_nextId
    nextTerm,    \* names the termination entries
    holders,     \* who holds a successful SuspendTermination of which context
    calls,       \* history: how often each callback has been invoked
    failed,      \* history: callbacks QueueItem refused with E_OUTOFMEMORY
    touched,     \* history: contexts some PrepareTerminate has canceled
    raced,       \* history: callbacks appended while a thread was about to signal
    overlap,     \* history: contexts suspended while a resumer was about to collect
    termDone     \* history: terminations whose callback was invoked, or rolled back

ctxVars   == <<status, suspends>>
listVars  == <<queue, pending>>
termVars  == <<termList, pendTerms>>
drainVars == <<processing, serial>>
wakeVars  == <<poolWork, event>>
timeVars  == <<timerDue, timer, now>>
histVars  == <<calls, failed, touched, raced, overlap, termDone>>
vars == <<mode, ctxVars, listVars, termVars, drainVars, wakeVars, timeVars,
          pc, inner, loc, nextId, nextTerm, holders, histVars>>

\* What most steps leave alone: all shared state, or all but one group of it
\* (and the history that goes with it).
base    == <<nextId, nextTerm, holders, calls, failed, touched, overlap, termDone>>
exCtx   == <<listVars, termVars, drainVars, wakeVars, timeVars, raced>>
exList  == <<ctxVars, termVars, drainVars, wakeVars, timeVars, base>>
exTerm  == <<ctxVars, listVars, drainVars, wakeVars, timeVars, raced, base>>
exDrain == <<ctxVars, listVars, termVars, wakeVars, timeVars, raced, base>>
exWake  == <<ctxVars, listVars, termVars, drainVars, timeVars, raced, base>>
exTime  == <<ctxVars, listVars, termVars, drainVars, wakeVars, raced, base>>
shared  == <<exTime, timeVars>>

-----------------------------------------------------------------------------

Statuses == {"Active", "Canceled", "Terminating", "Terminated"}

\* GetStatus() > Canceled
Terminal == {"Terminating", "Terminated"}

\* UINT64_MAX as a due time, and a timer that is not armed: no clock gets there.
NoDue   == Horizon + 1
Unarmed == Horizon + 1

\* QueueEntry, and the null one of a thread that has none
Entry   == [id : Nat, ctx : Contexts, when : Nat]
NoEntry == [id |-> 0, when |-> 0]

\* TerminationEntry
Term == [id : Nat, ctx : Contexts]

PCs == {"idle", "append", "delay", "arm", "start", "queued", "cancel", "flush",
        "prepared", "suspend", "park", "verify", "resume", "collect", "schedule",
        "pool", "unserial", "dispatch", "wait", "blocked",
        "load", "restart", "recheck", "promote", "rearm", "cas", "startnext", "clear"}

Inners == {"none", "notify", "drain", "pop", "invoke", "leave", "check", "check2",
           "signal", "terms"}

\* Where a call of CancelPendingEntries or of ScheduleTermination returns to.
Returns == {"idle", "suspend", "resume", "rearm"}

Locals ==
    [ret    : Returns,
     ctx    : Contexts,                \* the portContext argument
     entry  : Entry \cup {NoEntry},    \* QueueItem's entry
     item   : Entry \cup {NoEntry},    \* DrainOneItem's entry
     next   : Entry \cup {NoEntry},    \* nextItem
     batch  : SUBSET Entry,            \* entriesToAppend, readyEntries
     due    : Nat,                     \* dueTime
     at     : Nat,                     \* the now of SubmitPendingCallbacks
     popped : BOOLEAN,                 \* DrainOneItem's result
     term   : Nat,                     \* the token of PrepareTerminate
     sched  : SUBSET Term,             \* entries_to_schedule
     signal : SUBSET Term]             \* entries_to_process

\* The locals of a thread that is in no call.
Fresh ==
    [ret |-> "idle", ctx |-> CHOOSE c \in Contexts : TRUE,
     entry |-> NoEntry, item |-> NoEntry, next |-> NoEntry,
     batch |-> {}, due |-> NoDue, at |-> 0, popped |-> FALSE,
     term |-> 0, sched |-> {}, signal |-> {}]

Init ==
    /\ mode \in DispatchModes
    /\ status = [c \in Contexts |-> "Active"]
    /\ suspends = [c \in Contexts |-> 0]
    /\ queue = <<>> /\ pending = {}
    /\ termList = {} /\ pendTerms = {}
    /\ processing = 0 /\ serial = 0
    /\ poolWork = 0 /\ event = FALSE
    /\ timerDue = NoDue /\ timer = Unarmed /\ now = 0
    /\ pc = [t \in Threads |-> "idle"]
    /\ inner = [t \in Threads |-> "none"]
    /\ loc = [t \in Threads |-> Fresh]
    /\ nextId = 1 /\ nextTerm = 1
    /\ holders = {}
    /\ calls = [i \in 1 .. MaxItems |-> 0]
    /\ failed = {} /\ touched = {} /\ raced = {} /\ overlap = {} /\ termDone = {}

\* Thread t is at label l of its API call and in no nested call.
At(t, l) == pc[t] = l /\ inner[t] = "none"

\* t goes on at label l, nested label n, with locals r.
Go(t, l, n, r) ==
    /\ UNCHANGED mode
    /\ pc' = [pc EXCEPT ![t] = l]
    /\ inner' = [inner EXCEPT ![t] = n]
    /\ loc' = [loc EXCEPT ![t] = r]

\* A call that returns drops its locals.
Goto(t, l)  == Go(t, l, "none", IF l = "idle" THEN Fresh ELSE loc[t])
Enter(t, n) == Go(t, pc[t], n, loc[t])

-----------------------------------------------------------------------------
(* QueueItem: submit a callback, at once or delayed.                       *)

\* VerifyNotTerminated; the mutant refuses only what has terminated.
NotTerminatedYet(c) == status[c] # "Terminated"
NotTerminated(c) == status[c] \notin Terminal

\* E_ABORT changes nothing; otherwise the entry is built, still the caller's own.
QueueItem(t, c, w) ==
    /\ t \in Apps /\ At(t, "idle")
    /\ nextId <= MaxItems /\ now + w <= Horizon
    /\ NotTerminated(c)
    /\ nextId' = nextId + 1
    /\ LET e == [id |-> nextId, ctx |-> c, when |-> IF w = 0 THEN 0 ELSE now + w]
       IN Go(t, IF w = 0 THEN "append" ELSE "delay", "none",
             [Fresh EXCEPT !.ctx = c, !.entry = e])
    /\ UNCHANGED <<ctxVars, exCtx, nextTerm, holders, calls, failed, touched, overlap, termDone>>

\* push_back could not allocate a node: E_OUTOFMEMORY, and nothing is queued.
QueueItemFails(t) ==
    /\ Oom /\ (At(t, "append") \/ At(t, "delay"))
    /\ failed' = failed \cup {loc[t].entry.id}
    /\ Goto(t, "idle")
    /\ UNCHANGED <<ctxVars, exCtx, nextId, nextTerm, holders, calls, touched, overlap, termDone>>

\* push_back on m_queueList; history notes an entry that arrives when a thread
\* has found the list empty and is about to signal terminations.
PushQueue(e) ==
    /\ queue' = Append(queue, e)
    /\ raced' = IF \E u \in Threads : inner[u] \in {"check2", "signal", "terms"}
                THEN raced \cup {e.id} ELSE raced

\* AppendEntry pushes, then signals and notifies.
AppendEntry(t) ==
    /\ At(t, "append")
    /\ PushQueue(loc[t].entry)
    /\ Go(t, "queued", "notify", loc[t])
    /\ UNCHANGED <<pending, exList>>

DelayEntry(t) ==
    /\ At(t, "delay")
    /\ pending' = pending \cup {loc[t].entry}
    /\ Goto(t, "arm")
    /\ UNCHANGED <<queue, raced, exList>>

SoonerThanDue(e) == e.when < timerDue

\* Lower m_timerDue to the new entry's time, or leave it if it is sooner.
LowerTimerDue(t) ==
    /\ At(t, "arm")
    /\ IF SoonerThanDue(loc[t].entry)
       THEN timerDue' = loc[t].entry.when /\ Goto(t, "start")
       ELSE UNCHANGED timerDue /\ Goto(t, "queued")
    /\ UNCHANGED <<timer, now, exTime>>

StartTimer(t) ==
    /\ At(t, "start")
    /\ timer' = loc[t].entry.when
    /\ Goto(t, "queued")
    /\ UNCHANGED <<timerDue, now, exTime>>

\* The status is read again: an entry that missed Terminate's flush is flushed here.
QueueItemReturns(t) ==
    /\ At(t, "queued")
    /\ IF status[loc[t].ctx] # "Active"
       THEN Go(t, "cancel", "none", [loc[t] EXCEPT !.ret = "idle"])
       ELSE Goto(t, "idle")
    /\ UNCHANGED shared

\* LocklessQueue::remove_if, under the list's spin lock.  The mutant leaves what it has
\* handed to the callback on the list.
RemoveIfKeeps(list, gone) == list
RemoveIf(list, gone) == list \ gone

(* CancelPendingEntries(portContext, true): the delayed callbacks of a     *)
(* context leave m_pendingList in one remove_if and are appended one by one*)
CancelPendingEntries(t) ==
    /\ At(t, "cancel")
    /\ LET mine == {e \in pending : e.ctx = loc[t].ctx}
       IN /\ pending' = RemoveIf(pending, mine)
          /\ Go(t, "flush", "none", [loc[t] EXCEPT !.batch = mine])
    /\ UNCHANGED <<queue, raced, exList>>

FlushEntry(t, e) ==
    /\ At(t, "flush")
    /\ e \in loc[t].batch
    /\ PushQueue(e)
    /\ Go(t, "flush", "notify", [loc[t] EXCEPT !.batch = @ \ {e}])
    /\ UNCHANGED <<pending, exList>>

FlushDone(t) ==
    /\ At(t, "flush")
    /\ loc[t].batch = {}
    /\ Goto(t, loc[t].ret)
    /\ UNCHANGED shared

-----------------------------------------------------------------------------
(* Termination of a context: PrepareTerminate, then Terminate or           *)
(* CancelTermination with the token it returned.                           *)

PrepareTerminate(t, c) ==
    /\ t \in Apps /\ At(t, "idle")
    /\ nextTerm <= MaxTerms
    /\ nextTerm' = nextTerm + 1
    /\ status' = [status EXCEPT ![c] = IF @ = "Active" THEN "Canceled" ELSE @]
    /\ touched' = touched \cup {c}
    /\ Go(t, "prepared", "none", [Fresh EXCEPT !.ctx = c, !.term = nextTerm])
    /\ UNCHANGED <<suspends, exCtx, nextId, holders, calls, failed, overlap, termDone>>

RolledBackAlways(st) == "Active"
RolledBack(st) == IF st = "Canceled" THEN "Active" ELSE st

\* The other port of the queue could not prepare: roll back.
CancelTermination(t) ==
    /\ Oom /\ At(t, "prepared")
    /\ status' = [status EXCEPT ![loc[t].ctx] = RolledBack(@)]
    /\ termDone' = termDone \cup {loc[t].term}
    /\ Goto(t, "idle")
    /\ UNCHANGED <<suspends, exCtx, nextId, nextTerm, holders, calls, failed, touched, overlap>>

Terminate(t) ==
    /\ At(t, "prepared")
    /\ status' = [status EXCEPT ![loc[t].ctx] = "Terminating"]
    /\ Go(t, "cancel", "none", [loc[t] EXCEPT !.ret = "suspend"])
    /\ UNCHANGED <<suspends, exCtx, base>>

\* AddSuspend's answer
FirstSuspendAlways(c) == TRUE
FirstSuspend(c) == suspends[c] = 0

MyTerm(t) == [id |-> loc[t].term, ctx |-> loc[t].ctx]

\* Terminate takes a suspension of its own, so that the last one out schedules.
TerminateAddSuspend(t) ==
    /\ At(t, "suspend")
    /\ suspends' = [suspends EXCEPT ![loc[t].ctx] = @ + 1]
    /\ IF FirstSuspend(loc[t].ctx)
       THEN Go(t, "schedule", "none", [loc[t] EXCEPT !.sched = {MyTerm(t)}, !.ret = "resume"])
       ELSE Goto(t, "park")
    /\ UNCHANGED <<status, exCtx, base>>

ParkTermination(t) ==
    /\ At(t, "park")
    /\ pendTerms' = pendTerms \cup {MyTerm(t)}
    /\ Goto(t, "resume")
    /\ UNCHANGED <<termList, exTerm>>

\* SuspendTermination counts first and verifies afterwards.
SuspendTermination(t, c) ==
    /\ t \in Suspenders /\ At(t, "idle")
    /\ <<t, c>> \notin holders
    /\ suspends' = [suspends EXCEPT ![c] = @ + 1]
    /\ Go(t, "verify", "none", [Fresh EXCEPT !.ctx = c])
    /\ overlap' = IF \E u \in Threads : pc[u] = "collect" /\ loc[u].ctx = c
                  THEN overlap \cup {c} ELSE overlap
    /\ UNCHANGED <<status, exCtx, nextId, nextTerm, holders, calls, failed, touched, termDone>>

SuspendVerify(t) ==
    /\ At(t, "verify")
    /\ IF NotTerminated(loc[t].ctx)
       THEN holders' = holders \cup {<<t, loc[t].ctx>>} /\ Goto(t, "idle")
       ELSE UNCHANGED holders /\ Goto(t, "resume")
    /\ UNCHANGED <<ctxVars, exCtx, nextId, nextTerm, calls, failed, touched, overlap, termDone>>

ResumeTermination(t, c) ==
    /\ At(t, "idle")
    /\ <<t, c>> \in holders
    /\ holders' = holders \ {<<t, c>>}
    /\ Go(t, "resume", "none", [Fresh EXCEPT !.ctx = c])
    /\ UNCHANGED <<ctxVars, exCtx, nextId, nextTerm, calls, failed, touched, overlap, termDone>>

\* The compare-exchange of RemoveSuspend; at zero it asserts and answers TRUE.
OneLessTwice(n) == n - 2
OneLess(n) == IF n = 0 THEN 0 ELSE n - 1
LastOutNever(n) == n = 0
LastOut(n) == n <= 1

RemoveSuspend(t) ==
    /\ At(t, "resume")
    /\ suspends' = [suspends EXCEPT ![loc[t].ctx] = OneLess(@)]
    /\ Goto(t, IF LastOut(suspends[loc[t].ctx]) THEN "collect" ELSE "idle")
    /\ UNCHANGED <<status, exCtx, base>>

CollectTerminations(t) ==
    /\ At(t, "collect")
    /\ LET mine == {x \in pendTerms : x.ctx = loc[t].ctx}
       IN /\ pendTerms' = RemoveIf(pendTerms, mine)
          /\ Go(t, "schedule", "none", [loc[t] EXCEPT !.sched = mine, !.ret = "idle"])
    /\ UNCHANGED <<termList, exTerm>>

ScheduleTermination(t, x) ==
    /\ At(t, "schedule")
    /\ x \in loc[t].sched
    /\ termList' = termList \cup {x}
    /\ Go(t, "schedule", "notify", [loc[t] EXCEPT !.sched = @ \ {x}])
    /\ UNCHANGED <<pendTerms, exTerm>>

ScheduleDone(t) ==
    /\ At(t, "schedule")
    /\ loc[t].sched = {}
    /\ Goto(t, loc[t].ret)
    /\ UNCHANGED shared

-----------------------------------------------------------------------------
(* SignalQueue and NotifyItemQueued, after every append to a list.         *)

PoolSubmitsNone == 0
PoolSubmits == IF mode \in {"ThreadPool", "Serialized"} THEN 1 ELSE 0

AfterNotify == IF mode = "Immediate" THEN "drain" ELSE "none"

NotifyItemQueued(t) ==
    /\ inner[t] = "notify"
    /\ event' = TRUE
    /\ poolWork' = poolWork + PoolSubmits
    /\ Enter(t, AfterNotify)
    /\ UNCHANGED exWake

(* DrainOneItem.                                                           *)
DrainOneItem(t) ==
    /\ inner[t] = "drain"
    /\ processing' = processing + 1
    /\ Enter(t, "pop")
    /\ UNCHANGED <<serial, exDrain>>

PopFront(t) ==
    /\ inner[t] = "pop"
    /\ \/ /\ queue # <<>>
          /\ queue' = Tail(queue)
          /\ Go(t, pc[t], "invoke", [loc[t] EXCEPT !.item = Head(queue), !.popped = TRUE])
       \/ /\ queue = <<>>
          /\ UNCHANGED queue
          /\ Go(t, pc[t], "leave", [loc[t] EXCEPT !.popped = FALSE])
    /\ UNCHANGED <<pending, raced, exList>>

\* The callback starts here and runs until the thread leaves.
InvokeCallback(t) ==
    /\ inner[t] = "invoke"
    /\ calls' = [calls EXCEPT ![loc[t].item.id] = @ + 1]
    /\ Enter(t, "leave")
    /\ UNCHANGED <<ctxVars, exCtx, nextId, nextTerm, holders, failed, touched, overlap, termDone>>

LeaveCallback(t) ==
    /\ inner[t] = "leave"
    /\ processing' = processing - 1
    /\ Go(t, pc[t], "check", [loc[t] EXCEPT !.item = NoEntry])
    /\ UNCHANGED <<serial, exDrain>>

\* m_queueList->empty() && m_processingCallback.load() == 0: two reads, in this order
SeesEmptyIfPopped(t) == queue = <<>> /\ loc[t].popped
SeesEmpty(t) == queue = <<>>
SeesIdleAlways == TRUE
SeesIdle == processing = 0

CheckQueueEmpty(t) ==
    /\ inner[t] = "check"
    /\ Enter(t, IF SeesEmpty(t) THEN "check2" ELSE "none")
    /\ UNCHANGED shared

CheckNotProcessing(t) ==
    /\ inner[t] = "check2"
    /\ Enter(t, IF SeesIdle THEN "signal" ELSE "none")
    /\ UNCHANGED shared

SignalTerminations(t) ==
    /\ inner[t] = "signal"
    /\ LET hit == {x \in termList : status[x.ctx] \in Terminal}
       IN /\ termList' = RemoveIf(termList, hit)
          /\ status' = [c \in Contexts |-> IF \E x \in hit : x.ctx = c
                                           THEN "Terminated" ELSE status[c]]
          /\ Go(t, pc[t], "terms", [loc[t] EXCEPT !.signal = hit])
    /\ UNCHANGED <<suspends, listVars, pendTerms, drainVars, wakeVars, timeVars, raced, base>>

TerminationCallback(t, x) ==
    /\ inner[t] = "terms"
    /\ x \in loc[t].signal
    /\ termDone' = termDone \cup {x.id}
    /\ Go(t, pc[t], "terms", [loc[t] EXCEPT !.signal = @ \ {x}])
    /\ UNCHANGED <<ctxVars, exCtx, nextId, nextTerm, holders, calls, failed, touched, overlap>>

SignalDone(t) ==
    /\ inner[t] = "terms"
    /\ loc[t].signal = {}
    /\ event' = TRUE
    /\ Enter(t, "none")
    /\ UNCHANGED <<poolWork, exWake>>

-----------------------------------------------------------------------------
(* ProcessThreadPoolCallback.                                              *)

MayDrainAlways == TRUE
MayDrain == mode # "Serialized" \/ serial = 0

PoolCallback(t) ==
    /\ t \in Pool /\ At(t, "idle")
    /\ poolWork > 0
    /\ poolWork' = poolWork - 1
    /\ serial' = IF mode = "Serialized" THEN serial + 1 ELSE serial
    /\ IF MayDrain THEN Go(t, "pool", "drain", Fresh) ELSE Goto(t, "unserial")
    /\ UNCHANGED <<processing, event, ctxVars, listVars, termVars, timeVars, raced, base>>

PoolDrained(t) ==
    /\ At(t, "pool")
    /\ \/ mode # "Serialized" /\ Goto(t, "idle")
       \/ mode = "Serialized" /\ loc[t].popped /\ Enter(t, "drain")
       \/ mode = "Serialized" /\ ~loc[t].popped /\ Goto(t, "unserial")
    /\ UNCHANGED shared

PoolLeave(t) ==
    /\ At(t, "unserial")
    /\ serial' = serial - 1
    /\ Goto(t, "idle")
    /\ UNCHANGED <<processing, exDrain>>

(* Dispatch and Wait, without the registered wait handles.                 *)
Dispatch(t, c) ==
    /\ t \in Dispatchers /\ At(t, "idle")
    /\ Go(t, "dispatch", "drain", [Fresh EXCEPT !.ctx = c])
    /\ UNCHANGED shared

Dispatched(t) ==
    /\ At(t, "dispatch")
    /\ Goto(t, IF loc[t].popped THEN "idle" ELSE "wait")
    /\ UNCHANGED shared

WorkWaitsTerms == termList # {}
WorkWaits == queue # <<>> \/ termList # {}

Wait(t) ==
    /\ At(t, "wait")
    /\ \/ WorkWaits /\ Go(t, "dispatch", "drain", loc[t])
       \/ ~WorkWaits /\ status[loc[t].ctx] = "Terminated" /\ Goto(t, "idle")
       \/ ~WorkWaits /\ status[loc[t].ctx] # "Terminated" /\ Goto(t, "blocked")
    /\ UNCHANGED shared

Wake(t) ==
    /\ At(t, "blocked")
    /\ event
    /\ event' = FALSE
    /\ Goto(t, "wait")
    /\ UNCHANGED <<poolWork, exWake>>

\* A finite timeout of Dispatch runs out; it may always be longer.
WaitTimesOut(t) ==
    /\ At(t, "blocked")
    /\ Goto(t, "idle")
    /\ UNCHANGED shared

-----------------------------------------------------------------------------
(* The timer: SubmitPendingCallbacks, the callback of m_timer.             *)

Tick ==
    /\ now < Horizon
    /\ now' = now + 1
    /\ UNCHANGED <<mode, timerDue, timer, pc, inner, loc, exTime>>

TimerFires(t) ==
    /\ t \in Timers /\ At(t, "idle")
    /\ timer <= now
    /\ timer' = Unarmed
    /\ Goto(t, "load")
    /\ UNCHANGED <<timerDue, now, exTime>>

\* Nothing is due, the timer came early, or there are callbacks to promote.
SubmitPendingCallbacks(t) ==
    /\ At(t, "load")
    /\ IF timerDue = NoDue THEN Goto(t, "idle")
       ELSE Go(t, IF now < timerDue THEN "restart" ELSE "promote", "none",
               [loc[t] EXCEPT !.due = timerDue, !.at = now])
    /\ UNCHANGED shared

RestartTimer(t) ==
    /\ At(t, "restart")
    /\ timer' = loc[t].due
    /\ Goto(t, "recheck")
    /\ UNCHANGED <<timerDue, now, exTime>>

RecheckTimerDue(t) ==
    /\ At(t, "recheck")
    /\ Goto(t, IF timerDue = loc[t].due THEN "idle" ELSE "load")
    /\ UNCHANGED shared

ReadySoon(e, at) == e.when <= at + 1
Ready(e, at) == e.when <= at

\* One remove_if takes out the entries that are due and finds the next one.
PromoteReadyPendingCallbacks(t) ==
    /\ At(t, "promote")
    /\ LET ready == {e \in pending : Ready(e, loc[t].at)}
           rest  == pending \ ready
       IN /\ pending' = RemoveIf(pending, ready)
          /\ \E n \in rest \cup {NoEntry} :
                /\ IF rest = {} THEN n = NoEntry
                   ELSE n \in rest /\ \A e \in rest : n.when <= e.when
                /\ Go(t, "flush", "none",
                      [loc[t] EXCEPT !.batch = ready, !.next = n, !.ret = "rearm"])
    /\ UNCHANGED <<queue, raced, exList>>

\* With a next item the timer is set for it, unless its context is canceled.
RearmTimer(t) ==
    /\ At(t, "rearm")
    /\ LET n == loc[t].next
       IN \/ n = NoEntry /\ Goto(t, "clear")
          \/ n # NoEntry /\ status[n.ctx] = "Active" /\ Goto(t, "cas")
          \/ /\ n # NoEntry /\ status[n.ctx] # "Active"
             /\ Go(t, "cancel", "none", [loc[t] EXCEPT !.ctx = n.ctx, !.ret = "idle"])
    /\ UNCHANGED shared

ExchangeTimerDue(t) ==
    /\ At(t, "cas")
    /\ \/ /\ timerDue = loc[t].due
          /\ timerDue' = loc[t].next.when
          /\ Goto(t, "startnext")
       \/ /\ timerDue # loc[t].due
          /\ UNCHANGED timerDue
          /\ IF timerDue <= loc[t].next.when THEN Goto(t, "idle")
             ELSE Go(t, "cas", "none", [loc[t] EXCEPT !.due = timerDue])
    /\ UNCHANGED <<timer, now, exTime>>

StartTimerForNext(t) ==
    /\ At(t, "startnext")
    /\ timer' = loc[t].next.when
    /\ Goto(t, "idle")
    /\ UNCHANGED <<timerDue, now, exTime>>

LookAgainNever(d) == FALSE
LookAgain(d) == d # NoDue

\* No next item: clear m_timerDue and, having cleared it, look once more.
ClearTimerDue(t) ==
    /\ At(t, "clear")
    /\ timerDue' = IF timerDue = loc[t].due THEN NoDue ELSE timerDue
    /\ IF timerDue = loc[t].due /\ LookAgain(loc[t].due)
       THEN Go(t, "promote", "none", [loc[t] EXCEPT !.due = NoDue, !.at = now])
       ELSE Goto(t, "idle")
    /\ UNCHANGED <<timer, now, exTime>>

-----------------------------------------------------------------------------

\* Calls a thread may start; nobody owes the program any of them.
Calls(t) ==
    \/ \E c \in Contexts, w \in Delays : QueueItem(t, c, w)
    \/ \E c \in Contexts : PrepareTerminate(t, c)
    \/ \E c \in Contexts : SuspendTermination(t, c)

\* What a thread does next inside a call or an OS callback.
Continue(t) ==
    \/ AppendEntry(t) \/ DelayEntry(t) \/ LowerTimerDue(t) \/ StartTimer(t)
    \/ QueueItemReturns(t)
    \/ CancelPendingEntries(t) \/ (\E e \in loc[t].batch : FlushEntry(t, e)) \/ FlushDone(t)
    \/ Terminate(t) \/ TerminateAddSuspend(t) \/ ParkTermination(t)
    \/ SuspendVerify(t) \/ RemoveSuspend(t) \/ CollectTerminations(t)
    \/ (\E x \in loc[t].sched : ScheduleTermination(t, x)) \/ ScheduleDone(t)
    \/ NotifyItemQueued(t) \/ DrainOneItem(t) \/ PopFront(t) \/ InvokeCallback(t)
    \/ LeaveCallback(t) \/ CheckQueueEmpty(t) \/ CheckNotProcessing(t)
    \/ SignalTerminations(t) \/ (\E x \in loc[t].signal : TerminationCallback(t, x))
    \/ SignalDone(t)
    \/ PoolCallback(t) \/ PoolDrained(t) \/ PoolLeave(t)
    \/ Dispatched(t) \/ Wait(t) \/ Wake(t)
    \/ TimerFires(t) \/ SubmitPendingCallbacks(t) \/ RestartTimer(t) \/ RecheckTimerDue(t)
    \/ PromoteReadyPendingCallbacks(t) \/ RearmTimer(t) \/ ExchangeTimerDue(t)
    \/ StartTimerForNext(t) \/ ClearTimerDue(t)

Next ==
    \/ Tick
    \/ \E t \in Threads :
          \/ Calls(t) \/ Continue(t)
          \/ QueueItemFails(t) \/ CancelTermination(t) \/ WaitTimesOut(t)
          \/ \E c \in Contexts : Dispatch(t, c) \/ ResumeTermination(t, c)

Spec == Init /\ [][Next]_vars

(* Threads keep running and callbacks return; the clock advances; whoever  *)
(* suspended termination resumes it (XAsync does so when the call has      *)
(* completed); a dispatching thread keeps dispatching.                     *)
Fairness ==
    /\ WF_vars(Tick)
    /\ \A t \in Threads :
          /\ WF_vars(Continue(t))
          /\ \A c \in Contexts : WF_vars(ResumeTermination(t, c)) /\ WF_vars(Dispatch(t, c))

FairSpec == Spec /\ Fairness

-----------------------------------------------------------------------------
(* Properties                                                              *)

SharedTypeOK ==
    /\ status \in [Contexts -> Statuses] /\ suspends \in [Contexts -> Nat]
    /\ queue \in Seq(Entry) /\ pending \subseteq Entry
    /\ termList \subseteq Term /\ pendTerms \subseteq Term
    /\ processing \in Int /\ serial \in Int /\ poolWork \in Nat /\ event \in BOOLEAN
    /\ timerDue \in Nat /\ timer \in Nat /\ now \in Nat
    /\ nextId \in Nat \ {0} /\ nextTerm \in Nat \ {0}
    /\ holders \subseteq Threads \X Contexts
    /\ calls \in [1 .. MaxItems -> Nat]
    /\ failed \subseteq Nat /\ raced \subseteq Nat /\ termDone \subseteq Nat
    /\ touched \subseteq Contexts /\ overlap \subseteq Contexts

ThreadTypeOK ==
    /\ mode \in DispatchModes
    /\ pc \in [Threads -> PCs] /\ inner \in [Threads -> Inners]
    /\ loc \in [Threads -> Locals]

\* Every variable has its type.
TypeOK == SharedTypeOK /\ ThreadTypeOK

Quiet == \A t \in Threads : At(t, "idle")

\* Every thread is out of the API and the thread pool has nothing left to do.
AtRest == Quiet /\ poolWork = 0

\* Entries accepted by QueueItem that a thread carries from one list to another.
InTransit(u) ==
    (IF pc[u] \in {"append", "delay"} THEN {loc[u].entry} ELSE {}) \cup loc[u].batch

\* In how many places of the port callback i waits to be invoked.
Copies(i) ==
    Cardinality({k \in DOMAIN queue : queue[k].id = i})
    + Cardinality({e \in pending : e.id = i})
    + Cardinality({t \in Threads : \E e \in InTransit(t) : e.id = i})
    + Cardinality({t \in Threads : inner[t] = "invoke" /\ loc[t].item.id = i})

(* Every callback QueueItem accepts is in exactly one place until it is    *)
(* invoked, and is invoked once: the timer, a canceling submitter and a    *)
(* terminating thread that move the same delayed entries neither lose nor  *)
(* duplicate one.                                                          *)
ExactlyOnce ==
    \A i \in 1 .. nextId - 1 : Copies(i) + calls[i] = IF i \in failed THEN 0 ELSE 1

(* A delayed callback becomes ready no sooner than its due time, unless    *)
(* somebody began to terminate its context and so flushed it.              *)
NotEarly ==
    \A k \in DOMAIN queue : queue[k].when <= now \/ queue[k].ctx \in touched

(* A termination callback is neither run nor queued to run while a         *)
(* successful SuspendTermination of its context has not been resumed, in   *)
(* whatever order SuspendTermination, ResumeTermination and Terminate of   *)
(* the context interleave.  The exception: a suspension taken while another*)
(* thread's ResumeTermination stands between its last RemoveSuspend and its*)
(* remove_if does not hold, for that thread will schedule what it finds.   *)
SuspendHoldsTermination ==
    \A h \in holders : h[2] \notin overlap =>
        /\ status[h[2]] # "Terminated"
        /\ \A x \in termList \cup UNION {loc[t].sched \cup loc[t].signal : t \in Threads} :
              x.ctx # h[2]

(* Once everything has returned, a port that runs callbacks on the pool or *)
(* at once has no callback left, no termination left to signal, and no     *)
(* termination parked that nobody suspends.                                *)
NothingLeftBehind ==
    AtRest /\ mode \in {"ThreadPool", "Immediate"} =>
        /\ queue = <<>>
        /\ termList = {}
        /\ \A x \in pendTerms : \E h \in holders : h[2] = x.ctx

(* Whenever everything has returned, a delayed callback has its timer      *)
(* armed.  The exception is the early return of                            *)
(* PromoteReadyPendingCallbacks when the next item's context is canceled:  *)
(* it leaves the timer unarmed and m_timerDue in the past, so callbacks of *)
(* other contexts, or of that one when its termination is rolled back, may *)
(* wait without a timer.  None waits whose own context is canceled.        *)
NoStrandedDelay ==
    Quiet /\ timer = Unarmed => \A e \in pending : status[e.ctx] = "Active" /\ touched # {}

InCallback(t) == inner[t] = "leave" /\ loc[t].popped

\* A serialized port runs one callback at a time, whatever the pool does.
SerializedOneAtATime ==
    mode = "Serialized" =>
        \A t, u \in Threads : InCallback(t) /\ InCallback(u) => t = u

(* When a termination callback runs, every callback of its context has     *)
(* returned, in every dispatch mode and with any number of draining        *)
(* threads, but for those appended after the signaling thread had seen the *)
(* queue empty: the two reads of DrainOneItem and SignalTerminations are   *)
(* not one step, and an entry that arrives in between is overtaken.        *)
TerminationAfterCallbacks ==
    \A t \in Threads : \A x \in loc[t].signal :
        /\ \A k \in DOMAIN queue : queue[k].ctx = x.ctx => queue[k].id \in raced
        /\ \A u \in Threads :
              (inner[u] = "invoke" \/ InCallback(u)) /\ loc[u].item.ctx = x.ctx
                  => loc[u].item.id \in raced

\* A context that has begun to terminate is never usable again.
NoResurrection ==
    [][\A c \in Contexts : status[c] \in Terminal => status'[c] \in Terminal]_vars

\* Every accepted callback is invoked, canceled or not.
EveryCallbackRuns ==
    \A i \in 1 .. MaxItems : nextId > i ~> (i \in failed \/ calls[i] = 1)

\* Every termination that was asked for is signaled or rolled back.
TerminationCompletes ==
    \A n \in 1 .. MaxTerms : nextTerm > n ~> n \in termDone

(* How the port's state shows what it promises.  A thread that carries an  *)
(* entry has it accepted; one that has popped it and not yet called back   *)
(* has it ready.                                                           *)
RunningEntries == {loc[t].item : t \in {u \in Threads : InCallback(u)}}

ReadyEntries ==
    {queue[k] : k \in DOMAIN queue}
    \cup {loc[t].item : t \in {u \in Threads : inner[u] = "invoke"}}

BeingTerminated ==
    termList \cup pendTerms \cup (UNION {loc[t].sched : t \in Threads})
    \cup {MyTerm(t) : t \in {u \in Threads :
             pc[u] \in {"suspend", "park"} \/ (pc[u] \in {"cancel", "flush"} /\ loc[u].ret = "suspend")}}

Promise == INSTANCE PortPromise WITH
    accepted    <- pending \cup UNION {InTransit(t) : t \in Threads},
    ready       <- ReadyEntries,
    running     <- RunningEntries,
    invoked     <- {i \in 1 .. MaxItems : calls[i] > 0},
    late        <- raced,
    prepared    <- {MyTerm(t) : t \in {u \in Threads : pc[u] = "prepared"}},
    terminating <- BeingTerminated,
    signaled    <- UNION {loc[t].signal : t \in Threads},
    finished    <- termDone,
    held        <- [c \in Contexts |-> Cardinality({h \in holders : h[2] = c})],
    weak        <- overlap

(* The port, with its lists, counters and timer, implements its promise:   *)
(* one step of a thread is at most one step of the promise.                *)
KeepsPromise == Promise!PortSpec
=============================================================================
