------------------------------ MODULE TaskQueue ------------------------------
(***************************************************************************)
(* One TaskQueueImpl with its Work and its Completion port, and the entry  *)
(* points that reach it: submissions, terminations with and without        *)
(* waiting, suspensions of the termination, handles.  The ports are what   *)
(* PortPromise says of them, so a step here is at most one step of a port  *)
(* together with what the queue does in it: its reference count m_refs,    *)
(* the chaining of a termination from Work to Completion, the flag and the *)
(* lock of m_termination, and the rundown by the last Release.             *)
(*                                                                         *)
(* The application keeps its contract: it makes a call on a handle that is *)
(* open, and who suspends the termination has a handle until it resumed.   *)
(***************************************************************************)
EXTENDS PortPromise

CONSTANTS
    Suspenders,  \* who may suspend termination (operations of XAsync)
    Oom,         \* whether allocations may fail
    MaxItems,    \* bound: callbacks submitted
    MaxTerms,    \* bound: calls of Terminate
    MaxHandles,  \* bound: handles open at a time
    MaxCalls     \* bound: calls of all kinds

Ports == {"Work", "Completion"}

ASSUME TaskQueueBounds ==
    /\ Contexts = Ports
    /\ IsFiniteSet(Suspenders)
    /\ Oom \in BOOLEAN
    /\ MaxItems \in Nat /\ MaxTerms \in Nat /\ MaxHandles \in Nat \ {0} /\ MaxCalls \in Nat

VARIABLES
    refs,        \* m_refs
    terminated,  \* m_termination.terminated
    deleted,     \* RundownObject has run
    handles,     \* handles the application has open
    nextItem,    \* number of the next callback
    submitting,  \* callbacks whose QueueItem has not returned
    leaving,     \* callbacks that returned and have a reference to give back
    stage,       \* where each call of Terminate stands
    waits,       \* calls of Terminate that wait
    level,       \* where the termination callback of each call stands
    called,      \* history: times the user's termination callback was called
    sus          \* where each suspender stands

queueVars == <<refs, terminated, deleted, handles>>
itemPlace == <<nextItem, submitting, leaving>>
callPlace == <<stage, waits, level, called>>
vars == <<portVars, queueVars, itemPlace, callPlace, sus>>

Calls == 1 .. MaxTerms
WorkToken(k)       == [id |-> 2 * k - 1, ctx |-> "Work"]
CompletionToken(k) == [id |-> 2 * k, ctx |-> "Completion"]

Init ==
    /\ PortInit
    /\ refs = 1 /\ handles = 1
    /\ terminated = FALSE /\ deleted = FALSE
    /\ nextItem = 1 /\ submitting = {} /\ leaving = {}
    /\ stage = [k \in Calls |-> "idle"] /\ waits = {}
    /\ level = [k \in Calls |-> "none"]
    /\ called = [k \in Calls |-> 0]
    /\ sus = [s \in Suspenders |-> "idle"]

\* The application makes a call on a handle it has open.
MayCall ==
    /\ handles > 0
    /\ Cardinality({k \in Calls : stage[k] # "idle"})
         + Cardinality({s \in Suspenders : sus[s] # "idle"}) + nextItem <= MaxCalls

-----------------------------------------------------------------------------
(* Handles                                                                 *)

Holding(s) == sus[s] \in {"verify", "held", "resuming"}

DuplicateHandle ==
    /\ MayCall /\ handles < MaxHandles
    /\ handles' = handles + 1
    /\ refs' = refs + 1
    /\ UNCHANGED <<portVars, terminated, deleted, itemPlace, callPlace, sus>>

CloseHandle ==
    /\ handles > 0
    /\ handles = 1 => \A s \in Suspenders : ~Holding(s)
    /\ handles' = handles - 1
    /\ refs' = refs - 1
    /\ UNCHANGED <<portVars, terminated, deleted, itemPlace, callPlace, sus>>

\* The Release that takes m_refs to zero runs the object down and deletes it.
Rundown ==
    /\ refs = 0 /\ ~deleted
    /\ deleted' = TRUE
    /\ Detach
    /\ UNCHANGED <<refs, terminated, handles, itemPlace, callPlace, sus>>

-----------------------------------------------------------------------------
(* Submitting a callback, at once or after a delay                         *)

\* References of a submission: the queue, the port context, and the holder that the
\* entry inherits.
Holders == 3

Submit(port, delayed) ==
    LET e == [id |-> nextItem, ctx |-> port, delayed |-> delayed] IN
    /\ MayCall /\ nextItem <= MaxItems
    /\ Accept(e)
    /\ nextItem' = nextItem + 1
    /\ submitting' = submitting \cup {e}
    /\ refs' = refs + Holders
    /\ UNCHANGED <<terminated, deleted, handles, leaving, callPlace, sus>>

SubmitFails(e) ==
    /\ Oom
    /\ e \in submitting
    /\ Refuse(e)
    /\ submitting' = submitting \ {e}
    /\ refs' = refs - 3
    /\ UNCHANGED <<terminated, deleted, handles, nextItem, leaving, callPlace, sus>>

\* A termination of the port has been signaled, at whatever status the next one set.
WasSignaled(port) ==
    \E k \in Calls : \E x \in {WorkToken(k), CompletionToken(k)} :
        x.ctx = port /\ (x \in signaled \/ (x.id \in finished /\ stage[k] # "failed"))

\* The caller appends an immediate callback; a delayed one is appended when it is due
\* or its context is canceled.  It is late when the port is about to signal a
\* termination or has signaled one.
Append(e) ==
    /\ ~e.delayed => e \in submitting
    /\ Enqueue(e, TRUE) \/ (~WasSignaled(e.ctx) /\ Enqueue(e, FALSE))
    /\ UNCHANGED <<queueVars, itemPlace, callPlace, sus>>

SubmitReturns(e) ==
    /\ e \in submitting
    /\ ~e.delayed => e \notin accepted
    /\ submitting' = submitting \ {e}
    /\ refs' = refs - 2
    /\ UNCHANGED <<portVars, terminated, deleted, handles, nextItem, leaving, callPlace, sus>>

Run(e) ==
    /\ Invoke(e)
    /\ UNCHANGED <<queueVars, itemPlace, callPlace, sus>>

CallbackReturns(e) ==
    /\ Return(e)
    /\ leaving' = leaving \cup {e}
    /\ UNCHANGED <<queueVars, nextItem, submitting, callPlace, sus>>

ReleaseEntry(e) ==
    /\ e \in leaving
    /\ leaving' = leaving \ {e}
    /\ refs' = refs - 1
    /\ UNCHANGED <<portVars, terminated, deleted, handles, nextItem, submitting, callPlace, sus>>

-----------------------------------------------------------------------------
(* Terminate                                                               *)

Goto(k, s) == stage' = [stage EXCEPT ![k] = s]

BeginTerminate(k, wait) ==
    /\ MayCall
    /\ stage[k] = "idle"
    /\ \A j \in Calls : j < k => stage[j] # "idle"
    /\ Prepare(WorkToken(k))
    /\ Goto(k, "prepared")
    /\ waits' = IF wait THEN waits \cup {k} ELSE waits
    /\ refs' = refs + 1
    /\ UNCHANGED <<terminated, deleted, handles, itemPlace, level, called, sus>>

PrepareCompletion(k) ==
    /\ stage[k] = "prepared"
    /\ Prepare(CompletionToken(k))
    /\ Goto(k, "terminate")
    /\ UNCHANGED <<queueVars, itemPlace, waits, level, called, sus>>

\* No memory for the second token: the first is given back and the call fails.
PrepareFails(k) ==
    /\ Oom
    /\ stage[k] = "prepared"
    /\ RollBack(WorkToken(k))
    /\ Goto(k, "failed")
    /\ refs' = refs - 1
    /\ UNCHANGED <<terminated, deleted, handles, itemPlace, waits, level, called, sus>>

\* The entry and the waiter have a reference each.
TerminationRefs(wait) == IF wait THEN 2 ELSE 1

TerminateWork(k) ==
    /\ stage[k] = "terminate"
    /\ refs' = refs + TerminationRefs(k \in waits)
    /\ BeginTermination(WorkToken(k))
    /\ Goto(k, "begun")
    /\ UNCHANGED <<terminated, deleted, handles, itemPlace, waits, level, called, sus>>

TerminateReturns(k) ==
    /\ stage[k] = "begun" /\ k \notin waits
    /\ Goto(k, "done")
    /\ refs' = refs - 1
    /\ UNCHANGED <<portVars, terminated, deleted, handles, itemPlace, waits, level, called, sus>>

\* A waiter has m_termination.lock while it waits for the ports to unwind.
LockFree == \A k \in Calls : stage[k] \notin {"unwindWork", "unwindCompletion"}

Woken(k) ==
    /\ stage[k] = "begun" /\ k \in waits
    /\ terminated /\ LockFree
    /\ Goto(k, "unwindWork")
    /\ UNCHANGED <<portVars, queueVars, itemPlace, waits, level, called, sus>>

Unwound(port) == \A e \in running : e.ctx # port

UnwoundWork(k) ==
    /\ stage[k] = "unwindWork"
    /\ Unwound("Work")
    /\ Goto(k, "unwindCompletion")
    /\ UNCHANGED <<portVars, queueVars, itemPlace, waits, level, called, sus>>

WaitReturns(k) ==
    /\ stage[k] = "unwindCompletion"
    /\ Unwound("Completion")
    /\ Goto(k, "done")
    /\ refs' = refs - 2
    /\ UNCHANGED <<portVars, terminated, deleted, handles, itemPlace, waits, level, called, sus>>

-----------------------------------------------------------------------------
(* SignalTerminations of a port, and OnTerminationCallback                 *)

PortSignals(port) ==
    /\ \E hit \in SUBSET {x \in terminating : x.ctx = port} : Signal(hit)
    /\ UNCHANGED <<queueVars, itemPlace, callPlace, sus>>

\* SignalTerminations keeps the queue alive while it calls back.  The mutant does not.
CallbackKeepsNot == 0
CallbackKeeps == 1

SetLevel(k, l) == level' = [level EXCEPT ![k] = l]

\* A termination of Work goes on with Completion, and only then returns.
WorkTerminated(k) ==
    /\ WorkToken(k) \in signaled
    /\ level[k] = "none"
    /\ BeginTermination(CompletionToken(k))
    /\ SetLevel(k, "chained")
    /\ refs' = refs + CallbackKeeps
    /\ UNCHANGED <<terminated, deleted, handles, itemPlace, stage, waits, called, sus>>

WorkCallbackReturns(k) ==
    /\ CalledBack(WorkToken(k))
    /\ level[k] # "none"
    /\ refs' = refs - CallbackKeeps
    /\ UNCHANGED <<terminated, deleted, handles, itemPlace, callPlace, sus>>

\* The mutant calls back as soon as Completion is terminating.
CompletionDueEarly(k) == CompletionToken(k) \in terminating \cup signaled
CompletionDue(k) == CompletionToken(k) \in signaled

\* The user's termination callback.
CompletionTerminated(k) ==
    /\ CompletionDue(k)
    /\ level[k] = "chained"
    /\ SetLevel(k, "called")
    /\ called' = [called EXCEPT ![k] = @ + 1]
    /\ refs' = refs + CallbackKeeps
    /\ UNCHANGED <<portVars, terminated, deleted, handles, itemPlace, stage, waits, sus>>

\* The mutant does not set the flag.
FlagSetNot == terminated
FlagSet == TRUE

SetTerminated(k) ==
    /\ level[k] = "called"
    /\ LockFree
    /\ terminated' = FlagSet
    /\ SetLevel(k, "signaled")
    /\ UNCHANGED <<portVars, refs, deleted, handles, itemPlace, stage, waits, called, sus>>

\* The entry's reference and the one of SignalTerminations.
CompletionCallbackReturns(k) ==
    /\ level[k] = "signaled"
    /\ CalledBack(CompletionToken(k))
    /\ SetLevel(k, "over")
    /\ refs' = refs - (1 + CallbackKeeps)
    /\ UNCHANGED <<terminated, deleted, handles, itemPlace, stage, waits, called, sus>>

-----------------------------------------------------------------------------
(* SuspendTermination and ResumeTermination are about the Work port        *)

SetSus(s, x) == sus' = [sus EXCEPT ![s] = x]

Others(s, places) == {r \in Suspenders \ {s} : sus[r] \in places}

\* RemoveSuspend: only the last one goes on to collect the parked terminations.
AfterRemove(s) == IF Others(s, {"verify", "held"}) = {} THEN "resuming" ELSE "done"

\* AddSuspend; it may come when a resume has counted down and not yet collected.
SuspendTermination(s) ==
    /\ MayCall
    /\ sus[s] = "idle"
    /\ IF Others(s, {"resuming"}) = {} THEN UNCHANGED portVars ELSE Weaken("Work")
    /\ SetSus(s, "verify")
    /\ UNCHANGED <<queueVars, itemPlace, callPlace>>

Suspended(s) ==
    /\ sus[s] = "verify"
    /\ Hold("Work")
    /\ SetSus(s, "held")
    /\ UNCHANGED <<queueVars, itemPlace, callPlace>>

SuspendFails(s) ==
    /\ sus[s] = "verify"
    /\ ~Open("Work")
    /\ SetSus(s, AfterRemove(s))
    /\ UNCHANGED <<portVars, queueVars, itemPlace, callPlace>>

ResumeTermination(s) ==
    /\ sus[s] = "held"
    /\ Unhold("Work")
    /\ SetSus(s, AfterRemove(s))
    /\ UNCHANGED <<queueVars, itemPlace, callPlace>>

ResumeReturns(s) ==
    /\ sus[s] = "resuming"
    /\ SetSus(s, "done")
    /\ UNCHANGED <<portVars, queueVars, itemPlace, callPlace>>

-----------------------------------------------------------------------------
Application ==
    \/ DuplicateHandle
    \/ CloseHandle
    \/ \E port \in Ports, delayed \in BOOLEAN : Submit(port, delayed)
    \/ \E k \in Calls, wait \in BOOLEAN : BeginTerminate(k, wait)
    \/ \E s \in Suspenders : SuspendTermination(s)

Submission ==
    \E e \in accepted \cup submitting : SubmitFails(e) \/ Append(e) \/ SubmitReturns(e)

Execution ==
    \E e \in ready \cup running \cup leaving : Run(e) \/ CallbackReturns(e) \/ ReleaseEntry(e)

Call(k) ==
    \/ PrepareCompletion(k) \/ PrepareFails(k) \/ TerminateWork(k) \/ TerminateReturns(k)
    \/ Woken(k) \/ UnwoundWork(k) \/ WaitReturns(k)

Callback(k) ==
    \/ WorkTerminated(k) \/ WorkCallbackReturns(k)
    \/ CompletionTerminated(k) \/ SetTerminated(k) \/ CompletionCallbackReturns(k)

Suspension(s) ==
    \/ Suspended(s) \/ SuspendFails(s)
    \/ ResumeTermination(s) \/ ResumeReturns(s)

System ==
    \/ Submission \/ Execution \/ Rundown
    \/ \E k \in Calls : Call(k) \/ Callback(k)
    \/ \E port \in Ports : PortSignals(port)
    \/ \E s \in Suspenders : Suspension(s)

Next == Application \/ System

Spec == Init /\ [][Next]_vars

-----------------------------------------------------------------------------
Entries == [id : 1 .. MaxItems, ctx : Ports, delayed : BOOLEAN]
Tokens == {WorkToken(k) : k \in Calls} \cup {CompletionToken(k) : k \in Calls}

\* Types of the variables of the queue and of its ports.
TypeOK ==
    /\ status \in [Ports -> {"Active", "Canceled", "Terminating", "Terminated"}]
    /\ accepted \cup ready \cup running \cup submitting \cup leaving \subseteq Entries
    /\ invoked \cup late \subseteq 1 .. MaxItems
    /\ prepared \cup terminating \cup signaled \subseteq Tokens
    /\ finished \subseteq 1 .. 2 * MaxTerms
    /\ held \in [Ports -> 0 .. Cardinality(Suspenders)] /\ weak \subseteq Ports
    /\ refs \in Nat /\ terminated \in BOOLEAN /\ deleted \in BOOLEAN
    /\ handles \in 0 .. MaxHandles /\ nextItem \in 1 .. MaxItems + 1
    /\ stage \in [Calls -> {"idle", "prepared", "failed", "terminate", "begun",
                             "unwindWork", "unwindCompletion", "done"}]
    /\ waits \subseteq Calls
    /\ level \in [Calls -> {"none", "chained", "called", "signaled", "over"}]
    /\ called \in [Calls -> 0 .. 1]
    /\ sus \in [Suspenders -> {"idle", "verify", "held", "resuming", "done"}]

\* Somebody still uses the queue or one of its ports' contexts.
InUse ==
    \/ handles > 0
    \/ accepted \cup ready \cup running \cup submitting \cup leaving # {}
    \/ prepared \cup terminating \cup signaled # {}
    \/ \E k \in Calls : stage[k] \notin {"idle", "failed", "done"}
    \/ \E s \in Suspenders : Holding(s)

(* The last Release comes only when nobody uses the queue any more: no     *)
(* callback or termination is left in a port, no call is under way, no     *)
(* thread is inside a termination callback.  The count never drops below   *)
(* zero, a call of Terminate is called back at most once (TypeOK).         *)
NoUseAfterRundown == TypeOK /\ (refs = 0 => ~InUse)

(* While a Work callback waits to run or runs, or somebody suspends the    *)
(* termination, the Completion port takes callbacks: the result of work    *)
(* can be reported.  (Late callbacks and overlapped suspensions excepted.) *)
CompletionOpen ==
    \/ \E e \in ready \cup running : e.ctx = "Work" /\ e.id \notin late
    \/ held["Work"] > 0 /\ "Work" \notin weak
    => status["Completion"] \notin Closed

(* When the user's termination callback is called every callback of both   *)
(* ports has returned, and none but late ones ever run again.  Terminate   *)
(* with wait returns only after that.  It need not be the caller's own     *)
(* termination that was called back: m_termination.terminated is never     *)
(* reset, so a second Terminate may return before its callback.            *)
TerminatedMeansOver ==
    /\ \A k \in waits : stage[k] = "done" => \E j \in Calls : called[j] = 1
    /\ (\E k \in Calls : called[k] = 1) => \A e \in ready \cup running : e.id \in late

\* What each part of System waits for before its next step: the guards of its actions.
SubmissionGoesOn(e) ==
    \/ e \in accepted /\ (e.delayed \/ e \in submitting)
    \/ e \in submitting /\ (e.delayed \/ e \notin accepted)

ExecutionGoesOn(e) == (e \in ready /\ e.id \notin invoked) \/ e \in running \cup leaving

RundownDue ==
    /\ refs = 0 /\ ~deleted
    /\ accepted \cup ready \cup running \cup prepared \cup terminating \cup signaled = {}

NewToken(x) ==
    x.id \notin finished /\ \A y \in prepared \cup terminating \cup signaled : y.id # x.id

CallGoesOn(k) ==
    \/ stage[k] = "prepared" /\ NewToken(CompletionToken(k))
    \/ stage[k] \in {"prepared", "terminate"} /\ WorkToken(k) \in prepared
                                            /\ (stage[k] = "prepared" => Oom)
    \/ stage[k] = "begun" /\ (k \in waits => terminated /\ LockFree)
    \/ stage[k] = "unwindWork" /\ Unwound("Work")
    \/ stage[k] = "unwindCompletion" /\ Unwound("Completion")

CallbackGoesOn(k) ==
    \/ WorkToken(k) \in signaled /\ (level[k] = "none" => CompletionToken(k) \in prepared)
    \/ level[k] = "chained" /\ CompletionDue(k)
    \/ level[k] = "called" /\ LockFree
    \/ level[k] = "signaled" /\ CompletionToken(k) \in signaled

SignalDue(port) ==
    Drained(port) /\ Loose(port) /\ \E x \in terminating : x.ctx = port

SuspensionGoesOn(s) == sus[s] \in {"verify", "resuming"} \/ (sus[s] = "held" /\ held["Work"] > 0)

Busy ==
    \/ \E e \in accepted \cup submitting : SubmissionGoesOn(e)
    \/ \E e \in ready \cup running \cup leaving : ExecutionGoesOn(e)
    \/ RundownDue
    \/ \E k \in Calls : CallGoesOn(k) \/ CallbackGoesOn(k)
    \/ \E port \in Ports : SignalDue(port)
    \/ \E s \in Suspenders : SuspensionGoesOn(s)

(* Nothing is left waiting.  A step of System never undoes another, so     *)
(* what was begun comes to rest when nobody calls; by then every callback  *)
(* has run, every Terminate has returned and has had its callback called,  *)
(* waiting or not, and a queue without handles has been deleted.           *)
NothingStuck ==
    ~Busy =>
        /\ accepted = {} /\ ready = {} /\ running = {}
        /\ \A k \in Calls : stage[k] \in {"idle", "failed", "done"}
        /\ \A k \in Calls : stage[k] = "done" => called[k] = 1
        /\ handles = 0 => deleted
=============================================================================
