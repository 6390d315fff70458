------------------------------- MODULE XAsync -------------------------------
(***************************************************************************)
(* One asynchronous operation of the XAsync library: the AsyncState behind *)
(* an XAsyncBlock, its reference count, its provider, and the threads that *)
(* begin, run, cancel, complete, wait for and collect the operation.       *)
(*                                                                         *)
(* A step is one critical section of the block's spin locks, one atomic    *)
(* access, or one call into the task queue or the provider.  The block the *)
(* caller passed and the copy inside the state carry the same signature,   *)
(* status and state pointer: both change together under both locks, so one *)
(* variable stands for each pair.  A guard on the caller's block first     *)
(* takes a reference under that block's lock (peeked) and then enters the  *)
(* critical section of the state's block; in between the state may be      *)
(* extracted by somebody else.                                             *)
(*                                                                         *)
(* pc is a thread's place, stack the places its pending calls return to,   *)
(* mine the number of AsyncStateRefs and raw references it holds.  The     *)
(* block is used for one operation; the application uses it once           *)
(* XAsyncBegin has returned or the completion callback was called.         *)
(***************************************************************************)
EXTENDS Integers, Sequences, FiniteSets

CONSTANTS
    Starter,       \* the thread that calls XAsyncBegin
    Workers,       \* threads that drain the Work port
    Completers,    \* threads that drain the Completion port
    Cancelers,     \* threads that call XAsyncCancel
    Waiters,       \* threads that call XAsyncGetStatus(wait)
    Getters,       \* threads that call XAsyncGetResult
    Callbacks,     \* whether XAsyncBlock::callback may be set: a set of BOOLEANs
    Reschedules,   \* bound: how often DoWork schedules itself again
    Oom,           \* TRUE: submitting work may fail
    MayTerminate,  \* TRUE: somebody terminates the task queue
    Shared         \* TRUE: another operation was begun on the same queue before

Threads == {Starter} \cup Workers \cup Completers \cup Cancelers \cup Waiters
             \cup Getters

ASSUME ConstantsAssumption ==
    /\ IsFiniteSet(Threads)
    /\ Reschedules \in Nat
    /\ Callbacks \subseteq BOOLEAN
    /\ Oom \in BOOLEAN /\ MayTerminate \in BOOLEAN /\ Shared \in BOOLEAN

VARIABLES
    hasCallback, \* XAsyncBlock::callback is not null
    sig,         \* AsyncBlockInternal::signature
    status,      \* AsyncBlockInternal::status
    attached,    \* AsyncBlockInternal::state is not null
    refs,        \* AsyncState::refs
    freed,       \* the AsyncState was deleted
    cleanup,     \* AsyncState::providerCleanup
    scheduled,   \* AsyncState::workScheduled
    valid,       \* AsyncState::valid
    payload,     \* providerData.bufferSize is not zero
    satisfied,   \* AsyncState::waitSatisfied
    held,        \* XTaskQueueSuspendTermination calls not yet resumed
    workQ,       \* WorkerCallbacks submitted to the Work port
    complQ,      \* CompletionCallbacks submitted to the Completion port
    queue,       \* how far the termination of the task queue has come
    other,       \* where the other operation's suspension of the queue stands
    aborted,     \* the process failed fast
    pc, stack,   \* control of each thread
    mine,        \* references each thread holds
    peeked,      \* the thread is inside DoLock, between its two locks
    loc,         \* local variables of each thread
    again,       \* how often DoWork has scheduled itself
    cleanups,    \* history: provider calls with XAsyncOp::Cleanup
    notified,    \* history: invocations of the caller's completion callback
    signals      \* history: calls of SignalWait

blockVars == <<hasCallback, sig, status, attached>>
refVars   == <<refs, freed, cleanup, cleanups, mine>>
stateVars == <<scheduled, valid, payload, satisfied>>
queueVars == <<held, workQ, complQ, queue, other, aborted>>
histVars  == <<again, notified, signals>>
vars == <<blockVars, refVars, stateVars, queueVars, pc, stack, peeked, loc, histVars>>

-----------------------------------------------------------------------------

Locations == {"Destructor", "AfterDoWork", "InCancel", "CleanedUp"}

Results == {"pending", "ok", "fail", "abort"}

PCs == {"idle", "begin", "begun", "release", "schedule", "claim", "submit", "append",
        "complete", "signal", "signalWait", "resume", "setCleanup", "cleanupState",
        "work", "checkValid", "checkStatus", "doWork", "worked", "rescheduled", "afterWork",
        "cancel", "tryCancel", "cancelOp", "cancelDone",
        "notify", "query", "getStatus", "wait", "final",
        "getResult", "getOp", "extract"}

Locals ==
    [async    : {"user", "provider"},   \* the block XAsyncComplete was given
     result   : Results,                \* its result argument
     required : BOOLEAN,                \* its requiredBufferSize is not zero
     cleaning : BOOLEAN,                \* doCleanup
     canceled : BOOLEAN,                \* argument of WorkerCallback
     ret      : Results]                \* what the last call returned

NoLocals == [async |-> "user", result |-> "pending", required |-> FALSE,
             cleaning |-> FALSE, canceled |-> FALSE, ret |-> "ok"]

Init ==
    /\ hasCallback \in Callbacks
    /\ sig = "none" /\ status = "pending" /\ attached = FALSE
    /\ refs = 0 /\ freed = FALSE /\ cleanup = "Destructor"
    /\ scheduled = FALSE /\ valid = TRUE /\ payload = FALSE /\ satisfied = FALSE
    /\ held = 0 /\ workQ = 0 /\ complQ = 0 /\ queue = "Active"
    /\ other = (IF Shared THEN "held" ELSE "none") /\ aborted = FALSE
    /\ pc = [t \in Threads |-> "idle"]
    /\ stack = [t \in Threads |-> <<>>]
    /\ mine = [t \in Threads |-> 0]
    /\ peeked = [t \in Threads |-> FALSE]
    /\ loc = [t \in Threads |-> NoLocals]
    /\ again = 0 /\ cleanups = 0 /\ notified = 0 /\ signals = 0

-----------------------------------------------------------------------------
(* Control.                                                                *)

Goto(t, label) ==
    /\ pc' = [pc EXCEPT ![t] = label]
    /\ UNCHANGED stack

Call(t, label, back) ==
    /\ pc' = [pc EXCEPT ![t] = label]
    /\ stack' = [stack EXCEPT ![t] = <<back>> \o @]

Return(t) ==
    /\ pc' = [pc EXCEPT ![t] = IF stack[t] = <<>> THEN "idle" ELSE Head(stack[t])]
    /\ stack' = [stack EXCEPT ![t] = IF @ = <<>> THEN <<>> ELSE Tail(@)]

\* XAsyncComplete(block, result, size), entered from label back
CallComplete(t, block, result, size, back) ==
    /\ Call(t, "complete", back)
    /\ loc' = [loc EXCEPT ![t].async = block, ![t].result = result, ![t].required = size]

-----------------------------------------------------------------------------
(* References.                                                             *)

AddRef(t, n) ==
    /\ refs' = refs + n
    /\ mine' = [mine EXCEPT ![t] = @ + n]
    /\ UNCHANGED <<freed, cleanup, cleanups>>

\* Nobody else can reach the state once its last reference is gone, so the
\* destructor, which cleans the provider up unless that was done, is one step
\* with that release.
Release(t, n) ==
    /\ refs' = refs - n
    /\ mine' = [mine EXCEPT ![t] = @ - n]
    /\ freed' = (freed \/ refs = n)
    /\ cleanup' = IF refs = n THEN "CleanedUp" ELSE cleanup
    /\ cleanups' = IF refs = n /\ cleanup # "CleanedUp" THEN cleanups + 1 ELSE cleanups

\* A guard on the caller's block takes a reference to the state it finds there
\* and gives that block's lock up before it takes the lock inside the state.
Peek(t) ==
    /\ \/ pc[t] \in {"cancel", "checkStatus", "query", "getStatus", "final",
                     "getResult", "extract"}
       \/ pc[t] = "complete" /\ loc[t].async = "user"
    /\ attached /\ ~peeked[t]
    /\ peeked' = [peeked EXCEPT ![t] = TRUE]
    /\ AddRef(t, 1)
    /\ UNCHANGED <<blockVars, stateVars, queueVars, pc, stack, loc, histVars>>

\* The guard's critical section is entered.
Locked(t) == attached => peeked[t]

\* GetState, and the end of DoLock's own reference: a state is returned iff it
\* is still attached.
GetState(t) ==
    /\ peeked' = [peeked EXCEPT ![t] = FALSE]
    /\ CASE attached /\ ~peeked[t] -> AddRef(t, 1)
         [] ~attached /\ peeked[t] -> Release(t, 1)
         [] OTHER -> UNCHANGED refVars

\* A guard that only reads the status.
ReadStatus(t) ==
    /\ peeked' = [peeked EXCEPT ![t] = FALSE]
    /\ IF peeked[t] THEN Release(t, 1) ELSE UNCHANGED refVars

\* ExtractState: the block's own reference becomes the thread's to release;
\* returned is the AsyncStateRef the caller keeps.
ExtractState(t, signature, returned) ==
    /\ attached' = FALSE
    /\ sig' = signature /\ UNCHANGED hasCallback
    /\ peeked' = [peeked EXCEPT ![t] = FALSE]
    /\ IF attached
       THEN /\ refs' = refs + returned - (IF peeked[t] THEN 1 ELSE 0)
            /\ mine' = [mine EXCEPT ![t] = @ + 1 + returned - (IF peeked[t] THEN 1 ELSE 0)]
            /\ UNCHANGED <<freed, cleanup, cleanups>>
       ELSE ReadStatus(t)

-----------------------------------------------------------------------------
(* XAsyncBegin, XAsyncBeginAlloc and XAsyncRun.                             *)

\* XTaskQueueSuspendTermination, once for an operation
SuspensionBoth == 2
SuspensionNone == 0
Suspension == 1

\* VerifyNotTerminated of the Work port
Open == queue \in {"Active", "Canceled"}

\* AllocState and what follows it up to the provider's Begin: the state has
\* the block's reference and that of XAsyncBegin.  The task queue refuses the
\* suspension once its termination has begun.
XAsyncBegin ==
    /\ pc[Starter] = "idle" /\ sig = "none" /\ Open
    /\ sig' = "ASYB" /\ attached' = TRUE
    /\ held' = held + Suspension
    /\ refs' = 2 /\ mine' = [mine EXCEPT ![Starter] = 1]
    /\ Goto(Starter, "begin")
    /\ UNCHANGED <<hasCallback, status, freed, cleanup, cleanups, stateVars, workQ, complQ, queue,
                   other, aborted, peeked, loc, histVars>>

\* An allocation fails, or there is no queue to run on.
XAsyncBeginFails ==
    /\ pc[Starter] = "idle" /\ sig = "none"
    /\ Oom \/ ~Open
    /\ sig' = "zero" /\ status' = "fail"
    /\ UNCHANGED <<hasCallback, attached, refVars, stateVars, queueVars, pc, stack, peeked, loc, histVars>>

\* The provider's Begin schedules the work ...
ProviderBegins ==
    /\ pc[Starter] = "begin"
    /\ Call(Starter, "schedule", "begun")
    /\ UNCHANGED <<blockVars, refVars, stateVars, queueVars, peeked, loc, histVars>>

\* ... or refuses.
ProviderBeginFails ==
    /\ pc[Starter] = "begin"
    /\ CallComplete(Starter, "user", "fail", FALSE, "release")
    /\ UNCHANGED <<blockVars, refVars, stateVars, queueVars, peeked, histVars>>

ProviderBegun ==
    /\ pc[Starter] = "begun"
    /\ IF loc[Starter].ret = "fail"
       THEN CallComplete(Starter, "user", "fail", FALSE, "release")
       ELSE Goto(Starter, "release") /\ UNCHANGED loc
    /\ UNCHANGED <<blockVars, refVars, stateVars, queueVars, peeked, histVars>>

\* The AsyncStateRef of a call goes out of scope and the call returns.
ReleaseState(t) ==
    /\ pc[t] = "release"
    /\ Release(t, 1)
    /\ Return(t)
    /\ UNCHANGED <<blockVars, stateVars, queueVars, peeked, loc, histVars>>

-----------------------------------------------------------------------------
(* XAsyncSchedule, called by the provider with the block in its data.      *)

XAsyncSchedule(t) ==
    /\ pc[t] = "schedule"
    /\ IF attached /\ status \notin {"fail", "abort"}
       THEN GetState(t) /\ Goto(t, "claim") /\ UNCHANGED loc
       ELSE /\ Return(t)
            /\ loc' = [loc EXCEPT ![t].ret = "fail"]
            /\ UNCHANGED <<refVars, peeked>>
    /\ UNCHANGED <<blockVars, stateVars, queueVars, histVars>>

\* compare_exchange of workScheduled
ClaimSchedule(t) ==
    /\ pc[t] = "claim"
    /\ IF scheduled
       THEN Goto(t, "release") /\ loc' = [loc EXCEPT ![t].ret = "fail"]
       ELSE Goto(t, "submit") /\ UNCHANGED loc
    /\ scheduled' = TRUE
    /\ UNCHANGED <<blockVars, refVars, valid, payload, satisfied, queueVars, peeked, histVars>>

\* QueueItem looks at the status first ...
SubmitWork(t) ==
    /\ pc[t] = "submit" /\ Open
    /\ Goto(t, "append")
    /\ UNCHANGED <<blockVars, refVars, stateVars, queueVars, peeked, loc, histVars>>

\* ... and appends later, to a port that may be terminating by then.  The callback
\* takes over the reference of the call.
AppendWork(t) ==
    /\ pc[t] = "append"
    /\ workQ' = workQ + 1
    /\ mine' = [mine EXCEPT ![t] = @ - 1]
    /\ loc' = [loc EXCEPT ![t].ret = "ok"]
    /\ Return(t)
    /\ UNCHANGED <<blockVars, refs, freed, cleanup, cleanups, stateVars, held, complQ, queue,
                   other, aborted, peeked, histVars>>

Refused(t) == (pc[t] = "submit" /\ ~Open) \/ (pc[t] = "append" /\ Oom)

SubmitWorkFailsDetached(t) ==
    /\ Refused(t)
    /\ loc' = [loc EXCEPT ![t].ret = "fail"]
    /\ Return(t)
    /\ UNCHANGED <<blockVars, refVars, stateVars, queueVars, peeked, histVars>>

\* A refused callback leaves workScheduled set and the reference to the call.
SubmitWorkFails(t) ==
    /\ Refused(t)
    /\ loc' = [loc EXCEPT ![t].ret = "fail"]
    /\ Goto(t, "release")
    /\ UNCHANGED <<blockVars, refVars, stateVars, queueVars, peeked, histVars>>

-----------------------------------------------------------------------------
(* XAsyncComplete.                                                         *)

\* TrySetTerminalStatus
CanCompleteAlways == TRUE
CanComplete == status = "pending"

\* A completion that leaves nothing to collect takes the state off the block.
NothingToCollect(t) == ~loc[t].required \/ loc[t].result # "ok"

XAsyncComplete(t) ==
    /\ pc[t] = "complete"
    /\ loc[t].async = "user" => Locked(t)
    /\ CASE CanComplete /\ NothingToCollect(t) ->
              /\ status' = loc[t].result
              /\ payload' = FALSE
              /\ ExtractState(t, "zero", 1)
              /\ loc' = [loc EXCEPT ![t].cleaning = TRUE]
              /\ Goto(t, "signal")
         [] CanComplete /\ ~NothingToCollect(t) ->
              /\ status' = loc[t].result
              /\ payload' = TRUE
              /\ GetState(t)
              /\ loc' = [loc EXCEPT ![t].cleaning = FALSE]
              /\ Goto(t, "signal")
              /\ UNCHANGED <<hasCallback, sig, attached>>
         [] OTHER ->
              /\ GetState(t)
              /\ IF attached THEN Goto(t, "release") ELSE Return(t)
              /\ UNCHANGED <<blockVars, payload, loc>>
    /\ UNCHANGED <<scheduled, valid, satisfied, queueVars, histVars>>

\* Where XAsyncComplete goes on after SignalCompletion.
AfterSignal(t) == IF loc[t].cleaning THEN "setCleanup" ELSE "release"

\* callbackState, the reference the completion callback is given
CallbackRefNone == 0
CallbackRef == 1

\* With no completion callback XAsyncComplete wakes the waiters itself.
SignalsHereAlways == TRUE
SignalsHere == ~hasCallback

\* SignalCompletion: the caller's callback runs on the Completion port; with no
\* callback the waiters are woken here.
SignalCompletion(t) ==
    /\ pc[t] = "signal"
    /\ IF SignalsHere
       THEN /\ Call(t, "signalWait", AfterSignal(t))
            /\ UNCHANGED <<complQ, refs>>
       ELSE /\ queue # "Closed"
            /\ complQ' = complQ + 1
            /\ refs' = refs + CallbackRef
            /\ Goto(t, AfterSignal(t))
    /\ UNCHANGED <<blockVars, freed, cleanup, cleanups, mine, stateVars, held, workQ, queue,
                   other, aborted, peeked, loc, histVars>>

\* FAIL_FAST_IF_FAILED: the Completion port refuses the callback, and the process
\* ends with an assertion.
FailFast(t) ==
    /\ pc[t] = "signal" /\ ~SignalsHere /\ queue = "Closed"
    /\ aborted' = TRUE
    /\ UNCHANGED <<blockVars, refVars, stateVars, held, workQ, complQ, queue, other, pc, stack,
                   peeked, loc, histVars>>

\* SignalWait: the waiters first ...
SignalWait(t) ==
    /\ pc[t] = "signalWait"
    /\ satisfied' = TRUE
    /\ signals' = signals + 1
    /\ Goto(t, "resume")
    /\ UNCHANGED <<blockVars, refVars, scheduled, valid, payload, queueVars, peeked, loc,
                   again, notified>>

\* ... then XTaskQueueResumeTermination.  The mutant resumes twice.
ResumedTwice == 2
Resumed == 1

ResumeTermination(t) ==
    /\ pc[t] = "resume"
    /\ held' = held - Resumed
    /\ Return(t)
    /\ UNCHANGED <<blockVars, refVars, stateVars, workQ, complQ, queue, other, aborted, peeked, loc,
                   histVars>>

\* The compare-exchange of TrySetProviderCleanup succeeds.
ProviderFreeUnlessCleaned == cleanup # "CleanedUp"
ProviderFree == cleanup = "Destructor"

\* TrySetProviderCleanup(AfterDoWork)
TrySetProviderCleanup(t) ==
    /\ pc[t] = "setCleanup"
    /\ cleanup' = IF ProviderFree THEN "AfterDoWork" ELSE cleanup
    /\ Goto(t, "cleanupState")
    /\ UNCHANGED <<blockVars, refs, freed, cleanups, mine, stateVars, queueVars, peeked, loc,
                   histVars>>

\* CleanupState releases the block's reference; the call's own goes next.
CleanupState(t) ==
    /\ pc[t] = "cleanupState"
    /\ valid' = FALSE
    /\ Release(t, 2)
    /\ Return(t)
    /\ UNCHANGED <<blockVars, scheduled, payload, satisfied, queueVars, peeked, loc, histVars>>

-----------------------------------------------------------------------------
(* WorkerCallback, on the Work port.                                       *)

WorkerCallback(t) ==
    /\ t \in Workers /\ pc[t] = "idle" /\ workQ > 0
    /\ workQ' = workQ - 1
    /\ mine' = [mine EXCEPT ![t] = @ + 1]
    /\ loc' = [loc EXCEPT ![t].canceled = (queue # "Active")]
    /\ Goto(t, "work")
    /\ UNCHANGED <<blockVars, refs, freed, cleanup, cleanups, stateVars, held, complQ, queue,
                   other, aborted, peeked, histVars>>

ClearScheduled(t) ==
    /\ pc[t] = "work"
    /\ scheduled' = FALSE
    /\ Goto(t, "checkValid")
    /\ UNCHANGED <<blockVars, refVars, valid, payload, satisfied, queueVars, peeked, loc,
                   histVars>>

\* A canceled callback cancels the operation instead of running it.
CheckValid(t) ==
    /\ pc[t] = "checkValid"
    /\ \/ ~valid /\ Goto(t, "release")
       \/ valid /\ loc[t].canceled /\ Call(t, "cancel", "checkStatus")
       \/ valid /\ ~loc[t].canceled /\ Goto(t, "doWork")
    /\ UNCHANGED <<blockVars, refVars, stateVars, queueVars, peeked, loc, histVars>>

\* ... and completes it unless the provider's Cancel did.
NotAborted == status # "abort"

CheckStatus(t) ==
    /\ pc[t] = "checkStatus" /\ Locked(t)
    /\ ReadStatus(t)
    /\ IF NotAborted
       THEN CallComplete(t, "user", "abort", FALSE, "afterWork")
       ELSE Goto(t, "afterWork") /\ UNCHANGED loc
    /\ UNCHANGED <<blockVars, stateVars, queueVars, histVars>>

\* The provider's DoWork completes the operation, with or without a result to
\* collect, before it returns ...
DoWorkCompletes(t) ==
    /\ pc[t] = "doWork"
    /\ \E result \in {"ok", "fail"}, size \in BOOLEAN :
          CallComplete(t, "provider", result, size, "worked")
    /\ UNCHANGED <<blockVars, refVars, stateVars, queueVars, peeked, histVars>>

\* ... or schedules itself again ...
DoWorkReschedules(t) ==
    /\ pc[t] = "doWork" /\ again < Reschedules
    /\ again' = again + 1
    /\ Call(t, "schedule", "rescheduled")
    /\ UNCHANGED <<blockVars, refVars, stateVars, queueVars, peeked, loc, notified, signals>>

\* ... and returns.  Whatever it returns but E_PENDING completes the operation,
\* if nothing has.
DoWorkReturns(t) ==
    /\ \/ pc[t] \in {"doWork", "worked"}
       \/ pc[t] = "rescheduled" /\ loc[t].ret = "fail"
    /\ CallComplete(t, "provider", "fail", FALSE, "afterWork")
    /\ UNCHANGED <<blockVars, refVars, stateVars, queueVars, peeked, histVars>>

\* A DoWork that has scheduled itself returns E_PENDING.
DoWorkPending(t) ==
    /\ pc[t] = "rescheduled" /\ loc[t].ret = "ok"
    /\ Goto(t, "afterWork")
    /\ UNCHANGED <<blockVars, refVars, stateVars, queueVars, peeked, loc, histVars>>

\* CleanupProviderForLocation(AfterDoWork)
CleanedLocationKept == "AfterDoWork"
CleanedLocation == "CleanedUp"

CleanupAfterDoWork(t) ==
    /\ pc[t] = "afterWork"
    /\ IF cleanup = "AfterDoWork"
       THEN cleanup' = CleanedLocation /\ cleanups' = cleanups + 1
       ELSE UNCHANGED <<cleanup, cleanups>>
    /\ Goto(t, "release")
    /\ UNCHANGED <<blockVars, refs, freed, mine, stateVars, queueVars, peeked, loc, histVars>>

-----------------------------------------------------------------------------
(* CompletionCallback, on the Completion port.                             *)

CompletionCallback(t) ==
    /\ t \in Completers /\ pc[t] = "idle" /\ complQ > 0
    /\ complQ' = complQ - 1
    /\ mine' = [mine EXCEPT ![t] = @ + 1]
    /\ notified' = notified + 1
    /\ Goto(t, "notify")
    /\ UNCHANGED <<blockVars, refs, freed, cleanup, cleanups, stateVars, held, workQ, queue,
                   other, aborted, peeked, loc, again, signals>>

\* The caller's callback returns.
CallbackReturns(t) ==
    /\ pc[t] = "notify"
    /\ Call(t, "signalWait", "release")
    /\ UNCHANGED <<blockVars, refVars, stateVars, queueVars, peeked, loc, histVars>>

-----------------------------------------------------------------------------
(* The application: XAsyncCancel, XAsyncGetStatus and XAsyncGetResult.     *)

\* The block was begun, and the call that began it has returned or the completion
\* callback tells of it.
Begun == sig # "none" /\ (pc[Starter] = "idle" \/ notified > 0)

CallXAsyncCancel(t) ==
    /\ t \in Cancelers /\ pc[t] = "idle" /\ Begun
    /\ Goto(t, "cancel")
    /\ UNCHANGED <<blockVars, refVars, stateVars, queueVars, peeked, loc, histVars>>

XAsyncCancel(t) ==
    /\ pc[t] = "cancel" /\ Locked(t)
    /\ GetState(t)
    /\ IF attached THEN Goto(t, "tryCancel") ELSE Return(t)
    /\ UNCHANGED <<blockVars, stateVars, queueVars, loc, histVars>>

\* TrySetProviderCleanup(InCancel)
TryCancel(t) ==
    /\ pc[t] = "tryCancel"
    /\ IF ProviderFree
       THEN cleanup' = "InCancel" /\ Goto(t, "cancelOp")
       ELSE Goto(t, "release") /\ UNCHANGED cleanup
    /\ UNCHANGED <<blockVars, refs, freed, cleanups, mine, stateVars, queueVars, peeked, loc,
                   histVars>>

\* The provider's Cancel completes the operation with E_ABORT, or only takes note.
ProviderCancels(t) ==
    /\ pc[t] = "cancelOp"
    /\ \/ CallComplete(t, "provider", "abort", FALSE, "cancelDone")
       \/ Goto(t, "cancelDone") /\ UNCHANGED loc
    /\ UNCHANGED <<blockVars, refVars, stateVars, queueVars, peeked, histVars>>

RevertProviderCleanup(t) ==
    /\ pc[t] = "cancelDone"
    /\ cleanup' = IF cleanup = "InCancel" THEN "Destructor" ELSE cleanup
    /\ Goto(t, "release")
    /\ UNCHANGED <<blockVars, refs, freed, cleanups, mine, stateVars, queueVars, peeked, loc,
                   histVars>>

\* XAsyncGetStatus without wait, and XAsyncGetResultSize: the state is looked at
\* with a reference of the call's own.
CallXAsyncGetResultSize(t) ==
    /\ t \in Waiters /\ pc[t] = "idle" /\ Begun
    /\ Goto(t, "query")
    /\ UNCHANGED <<blockVars, refVars, stateVars, queueVars, peeked, loc, histVars>>

XAsyncGetResultSize(t) ==
    /\ pc[t] = "query" /\ Locked(t)
    /\ GetState(t)
    /\ IF attached THEN Goto(t, "release") ELSE Return(t)
    /\ UNCHANGED <<blockVars, stateVars, queueVars, loc, histVars>>

CallXAsyncGetStatus(t) ==
    /\ t \in Waiters /\ pc[t] = "idle" /\ Begun
    /\ Goto(t, "getStatus")
    /\ UNCHANGED <<blockVars, refVars, stateVars, queueVars, peeked, loc, histVars>>

\* XAsyncGetStatus(wait): with no state there is nothing to wait for.
XAsyncGetStatus(t) ==
    /\ pc[t] = "getStatus" /\ Locked(t)
    /\ GetState(t)
    /\ loc' = [loc EXCEPT ![t].ret = status]
    /\ IF attached THEN Goto(t, "wait") ELSE Return(t)
    /\ UNCHANGED <<blockVars, stateVars, queueVars, histVars>>

\* waitCondition's predicate
WokenIfValid == satisfied /\ valid
Woken == satisfied

WaitSatisfied(t) ==
    /\ pc[t] = "wait" /\ Woken
    /\ Goto(t, "final")
    /\ UNCHANGED <<blockVars, refVars, stateVars, queueVars, peeked, loc, histVars>>

FinalStatus(t) ==
    /\ pc[t] = "final" /\ Locked(t)
    /\ ReadStatus(t)
    /\ loc' = [loc EXCEPT ![t].ret = status]
    /\ Goto(t, "release")
    /\ UNCHANGED <<blockVars, stateVars, queueVars, histVars>>

CallXAsyncGetResult(t) ==
    /\ t \in Getters /\ pc[t] = "idle" /\ Begun
    /\ Goto(t, "getResult")
    /\ UNCHANGED <<blockVars, refVars, stateVars, queueVars, peeked, loc, histVars>>

\* Nothing to collect, nothing yet, or a state whose result is asked for.
XAsyncGetResult(t) ==
    /\ pc[t] = "getResult" /\ Locked(t)
    /\ GetState(t)
    /\ CASE ~attached -> Return(t)
         [] attached /\ status = "pending" -> Goto(t, "release")
         [] attached /\ status # "pending" -> Goto(t, "getOp")
    /\ UNCHANGED <<blockVars, stateVars, queueVars, loc, histVars>>

\* The provider copies the result out; a mismatch of identity or buffer skips
\* it.  Either way the state is taken off the block.
ProviderGetsResult(t) ==
    /\ pc[t] = "getOp"
    /\ Goto(t, "extract")
    /\ UNCHANGED <<blockVars, refVars, stateVars, queueVars, peeked, loc, histVars>>

ExtractResult(t) ==
    /\ pc[t] = "extract" /\ Locked(t)
    /\ ExtractState(t, "ASRB", 0)
    /\ Goto(t, "cleanupState")
    /\ UNCHANGED <<status, stateVars, queueVars, loc, histVars>>

-----------------------------------------------------------------------------
(* The task queue, as TaskQueue shows it: its termination cancels what is  *)
(* queued at once, waits for suspensions and for the callbacks of the Work *)
(* port, and then closes the Completion port.                              *)

TerminateQueue ==
    /\ MayTerminate /\ queue = "Active"
    /\ queue' = "Canceled"
    /\ UNCHANGED <<blockVars, refVars, stateVars, held, workQ, complQ, other, aborted, pc, stack,
                   peeked, loc, histVars>>

\* The Work port refuses callbacks and suspensions from now on.
TerminateWork ==
    /\ queue = "Canceled"
    /\ queue' = "Terminating"
    /\ UNCHANGED <<blockVars, refVars, stateVars, held, workQ, complQ, other, aborted, pc, stack,
                   peeked, loc, histVars>>

\* Nobody suspends the termination, or it was collected all the same.
Loose == (held = 0 /\ other # "held") \/ other = "collected"

QueueCloses ==
    /\ queue = "Terminating" /\ Loose
    /\ workQ = 0 /\ \A t \in Workers : pc[t] = "idle"
    /\ queue' = "Closed"
    /\ UNCHANGED <<blockVars, refVars, stateVars, held, workQ, complQ, other, aborted, pc, stack,
                   peeked, loc, histVars>>

\* The other operation ends.  Its RemoveSuspend, when it is the last, is followed by a
\* walk over the parked terminations: one that was parked because XAsyncBegin has
\* suspended the queue in between is collected too.
OtherResumes ==
    /\ other = "held"
    /\ other' = IF held = 0 THEN "resuming" ELSE "done"
    /\ UNCHANGED <<blockVars, refVars, stateVars, held, workQ, complQ, queue, aborted, pc, stack,
                   peeked, loc, histVars>>

OtherCollects ==
    /\ other = "resuming"
    /\ other' = IF queue = "Terminating" THEN "collected" ELSE "done"
    /\ UNCHANGED <<blockVars, refVars, stateVars, held, workQ, complQ, queue, aborted, pc, stack,
                   peeked, loc, histVars>>

QueueStep == TerminateWork \/ QueueCloses \/ OtherResumes \/ OtherCollects

-----------------------------------------------------------------------------

BeginStep == XAsyncBegin \/ XAsyncBeginFails \/ ProviderBegins \/ ProviderBeginFails
               \/ ProviderBegun
ScheduleStep(t) == XAsyncSchedule(t) \/ ClaimSchedule(t) \/ SubmitWork(t)
                     \/ AppendWork(t) \/ SubmitWorkFails(t)
CompleteStep(t) == XAsyncComplete(t) \/ SignalCompletion(t) \/ SignalWait(t)
                     \/ ResumeTermination(t) \/ TrySetProviderCleanup(t) \/ CleanupState(t)
WorkStep(t) == WorkerCallback(t) \/ ClearScheduled(t) \/ CheckValid(t) \/ CheckStatus(t)
                 \/ DoWorkCompletes(t) \/ DoWorkReturns(t) \/ DoWorkPending(t)
                 \/ CleanupAfterDoWork(t)
CallbackStep(t) == CompletionCallback(t) \/ CallbackReturns(t)
CancelStep(t) == XAsyncCancel(t) \/ TryCancel(t) \/ ProviderCancels(t)
                   \/ RevertProviderCleanup(t)
WaitStep(t) == XAsyncGetResultSize(t) \/ XAsyncGetStatus(t) \/ WaitSatisfied(t) \/ FinalStatus(t)
GetStep(t) == XAsyncGetResult(t) \/ ProviderGetsResult(t) \/ ExtractResult(t)

\* What a thread does once it is inside the library: it does not stop there.
ThreadStep(t) == ReleaseState(t) \/ Peek(t) \/ ScheduleStep(t) \/ CompleteStep(t)
                   \/ WorkStep(t) \/ CallbackStep(t) \/ CancelStep(t) \/ WaitStep(t)
                   \/ GetStep(t)

\* Calls the application may make, and rescheduling, which it may do without.
MayCall(t) == CallXAsyncCancel(t) \/ CallXAsyncGetResultSize(t) \/ CallXAsyncGetStatus(t)
                \/ CallXAsyncGetResult(t) \/ DoWorkReschedules(t)

\* A process that failed fast does nothing more.
Next ==
    /\ ~aborted
    /\ \/ BeginStep
       \/ \E t \in Threads : ThreadStep(t) \/ MayCall(t) \/ FailFast(t)
       \/ TerminateQueue \/ QueueStep

Spec == Init /\ [][Next]_vars

\* Threads inside the library, the task queue's threads and an XAsyncBegin that
\* was entered go on; the task queue ends a termination nothing holds back, the
\* other operation ends; and the application collects a result that is there.
Fairness ==
    /\ WF_vars(~aborted /\ BeginStep)
    /\ \A t \in Threads : WF_vars(~aborted /\ (ThreadStep(t) \/ FailFast(t)))
    /\ \A t \in Getters :
          WF_vars(~aborted /\ attached /\ status = "ok" /\ CallXAsyncGetResult(t))
    /\ WF_vars(~aborted /\ (TerminateWork \/ QueueCloses))
    /\ WF_vars(~aborted /\ (OtherResumes \/ OtherCollects))

FairSpec == Spec /\ Fairness

-----------------------------------------------------------------------------
(* Properties.                                                             *)

\* The variables have their types.
TypeOK ==
    /\ sig \in {"none", "ASYB", "zero", "ASRB"}
    /\ status \in Results
    /\ cleanup \in Locations
    /\ hasCallback \in Callbacks
    /\ {attached, freed, scheduled, valid, payload, satisfied} \subseteq BOOLEAN
    /\ {refs, workQ, complQ, cleanups, notified, signals, held} \subseteq Nat
    /\ again \in 0..Reschedules
    /\ queue \in {"Active", "Canceled", "Terminating", "Closed"}
    /\ other \in {"none", "held", "resuming", "collected", "done"} /\ aborted \in BOOLEAN
    /\ pc \in [Threads -> PCs]
    /\ stack \in [Threads -> Seq(PCs)]
    /\ mine \in [Threads -> Nat]
    /\ peeked \in [Threads -> BOOLEAN]
    /\ loc \in [Threads -> Locals]

\* One token for each reference a thread holds.
Held == {p \in Threads \X (1..8) : p[2] <= mine[p[1]]}

\* AsyncState::refs counts the block's reference, those of callbacks waiting on
\* the two ports and those of the threads, exactly: a call that returns to the
\* application or to the task queue leaves none behind, and the state is deleted
\* when, and only when, there are none.
RefsExact ==
    /\ refs = Cardinality(Held) + workQ + complQ + (IF attached THEN 1 ELSE 0)
    /\ \A t \in Threads : pc[t] = "idle" => mine[t] = 0
    /\ freed <=> (refs = 0 /\ sig \in {"zero", "ASRB"} /\ valid = FALSE)

\* The provider's op of this thread has begun and not returned.
Inside(t, ops) == pc[t] \in ops \/ \E i \in DOMAIN stack[t] : stack[t][i] \in ops

\* The provider frees its context in Cleanup: from the moment Cleanup is called
\* no thread is inside the provider's Begin before it has scheduled work, its
\* Cancel, its GetResult or its DoWork, and none enters them.  A provider that
\* schedules its work again gives this up for DoWork, of which two may then
\* overlap.
CleanupAlone ==
    cleanups > 0 =>
        \A t \in Threads :
            /\ ~Inside(t, {"begin", "cancelOp", "cancelDone", "getOp"})
            /\ again = 0 => ~Inside(t, {"doWork", "worked"})

\* An operation is completed once, whatever races: SignalWait's
\* assert(newlySatisfied) never fails, and the completion callback and the
\* provider's Cleanup are called at most once.  By the time the state is deleted
\* all of it was done: waiters were woken, the callback was called, Cleanup too,
\* and the termination XAsyncBegin suspended was resumed.
CompletesOnce ==
    /\ signals <= 1 /\ notified <= 1 /\ cleanups <= 1 /\ held \in {0, 1}
    /\ freed => /\ cleanups = 1
                /\ satisfied /\ held = 0
                /\ hasCallback => notified = 1

\* The suspension that XAsyncBegin takes holds the queue open until the operation has
\* been called back, whoever completes it and however its work was refused, except
\* when another operation on the queue was just resuming its own: a termination
\* parked after that resume counted down to zero is collected by it.  But for that,
\* FAIL_FAST_IF_FAILED(SignalCompletion(state)) of XAsyncComplete never fails.
CompletionAccepted == aborted => other = "collected"

\* Waiters are woken when the completion callback has been called, never before.
CallbackBeforeWaiters == satisfied => (status # "pending" /\ (hasCallback => notified = 1))

\* Once completed, an operation keeps its status, and a state taken off the block
\* never comes back.
Settled == [][/\ status # "pending" => status' = status
              /\ (sig \in {"zero", "ASRB"} => (sig' = sig /\ ~attached'))]_vars

\* A call of XAsyncGetStatus(wait) that waits returns, and with a final status, if the
\* process does not fail fast.
WaitersReturn ==
    \A t \in Waiters : pc[t] = "wait" ~> (pc[t] = "idle" /\ loc[t].ret # "pending") \/ aborted

\* Every begun operation completes and its state is deleted in the end, also when
\* its queue is terminated or cannot take its work.
StateFreed == attached ~> freed \/ aborted

\* The termination of the queue is held back by an operation only for so long: the
\* Work port has ended and the Completion port has nothing left to run.
QueueTerminationCompletes ==
    queue = "Canceled" ~> (queue = "Closed" /\ complQ = 0) \/ aborted

=============================================================================
