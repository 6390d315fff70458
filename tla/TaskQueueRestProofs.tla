------------------------ MODULE TaskQueueRestProofs ------------------------
(* TaskQueuePort: when every thread has returned, nothing that was queued, *)
(* delayed or terminated has been forgotten.                               *)
EXTENDS TaskQueueCallbackProofs

\* The modes in which the port itself runs what is queued.
RunsItself == mode \in {"ThreadPool", "Immediate"}

\* Threads that are bound to pop the queue once more.
Coming == {t \in Threads : inner[t] \in {"notify", "drain", "pop"}}

\* Every queued callback has a submission to the pool, or a thread, of its own.
CoveredInv == RunsItself => Len(queue) <= poolWork + Cardinality(Coming)

\* Nested labels from which a thread gets as far as looking at the terminations.
Owing == {"notify", "drain", "pop", "invoke", "leave", "check", "check2", "signal"}

\* Scheduled terminations have somebody left who will look at them.
OweInv == RunsItself /\ termList # {} => poolWork > 0 \/ \E t \in Threads : inner[t] \in Owing

\* A parked termination waits for a suspension, or is about to be collected.
ParkedInv ==
    \A x \in pendTerms :
        \/ suspends[x.ctx] > 0
        \/ \E u \in Threads : pc[u] = "collect" /\ loc[u].ctx = x.ctx

RunInv == CoveredInv /\ OweInv

LEMMA ComingFinite == IsFiniteSet(Coming) /\ Cardinality(Coming) \in Nat
<1>1. Coming \subseteq Threads BY DEF Coming
<1>2. IsFiniteSet(Coming) BY <1>1, ThreadsAssumption, FS_Subset
<1> QED BY <1>2, FS_CardinalityType

LEMMA InitRun == Init => RunInv /\ ParkedInv
<1> SUFFICES ASSUME Init PROVE RunInv /\ ParkedInv OBVIOUS
<1>1. queue = <<>> /\ poolWork = 0 /\ termList = {} /\ pendTerms = {} BY DEF Init
<1>2. Len(queue) = 0 BY <1>1
<1>3. CoveredInv BY <1>1, <1>2, ComingFinite DEF CoveredInv
<1> QED BY <1>1, <1>3 DEF RunInv, OweInv, ParkedInv

\* What becomes of the threads on their way to the queue when t moves.
LEMMA ComingMoves ==
    ASSUME NEW t \in Threads, NEW n,
           inner'[t] = n, \A u \in Threads \ {t} : inner'[u] = inner[u]
    PROVE  /\ t \notin Coming /\ n \notin {"notify", "drain", "pop"}
              => Cardinality(Coming') = Cardinality(Coming)
           /\ t \in Coming /\ n \in {"notify", "drain", "pop"}
              => Cardinality(Coming') = Cardinality(Coming)
           /\ t \notin Coming /\ n \in {"notify", "drain", "pop"}
              => Cardinality(Coming') = Cardinality(Coming) + 1
           /\ t \in Coming /\ n \notin {"notify", "drain", "pop"}
              => Cardinality(Coming') = Cardinality(Coming) - 1
<1>1. (t \notin Coming /\ n \notin {"notify", "drain", "pop"}) => Coming' = Coming
  BY DEF Coming
<1>2. (t \in Coming /\ n \in {"notify", "drain", "pop"}) => Coming' = Coming
  BY DEF Coming
<1>3. (t \notin Coming /\ n \in {"notify", "drain", "pop"}) => Coming' = Coming \cup {t}
  BY DEF Coming
<1>4. (t \in Coming /\ n \notin {"notify", "drain", "pop"}) => Coming' = Coming \ {t}
  BY DEF Coming
<1> QED BY <1>1, <1>2, <1>3, <1>4, ComingFinite, FS_AddElement, FS_RemoveElement

\* A thread outside the nested calls cannot take a promise away.
LEMMA CallerStep ==
    ASSUME NEW t \in Threads, NEW n, TypeInv, RunInv, inner[t] \in {"none", "terms"},
           inner'[t] = n, \A u \in Threads \ {t} : inner'[u] = inner[u],
           UNCHANGED <<mode, queue, poolWork, termList>>
    PROVE  RunInv'
<1>1. t \notin Coming /\ inner[t] \notin Owing BY DEF Coming, Owing
<1>2. Cardinality(Coming') >= Cardinality(Coming) BY <1>1, ComingMoves, ComingFinite
<1>3. queue \in Seq(Entry) /\ poolWork \in Nat /\ Len(queue) \in Nat
  BY DEF TypeInv, SharedTypeOK
<1>4. Cardinality(Coming') \in Nat BY <1>1, ComingMoves, ComingFinite
<1>5. CoveredInv' BY <1>2, <1>3, <1>4, ComingFinite DEF RunInv, CoveredInv, RunsItself
<1>6. OweInv' BY <1>1 DEF RunInv, OweInv, RunsItself
<1> QED BY <1>5, <1>6 DEF RunInv

\* The steps that touch neither the queue nor the pool nor the scheduled terminations.
LEMMA CallerSteps ==
    ASSUME NEW t \in Threads, TypeInv, RunInv,
           \/ (\E c \in Contexts, w \in Delays : QueueItem(t, c, w))
           \/ (\E c \in Contexts : \/ PrepareTerminate(t, c) \/ SuspendTermination(t, c)
                                   \/ ResumeTermination(t, c) \/ Dispatch(t, c))
           \/ QueueItemFails(t) \/ DelayEntry(t) \/ LowerTimerDue(t)
           \/ StartTimer(t) \/ QueueItemReturns(t) \/ CancelPendingEntries(t) \/ FlushDone(t)
           \/ CancelTermination(t) \/ Terminate(t) \/ TerminateAddSuspend(t)
           \/ ParkTermination(t) \/ SuspendVerify(t) \/ RemoveSuspend(t)
           \/ CollectTerminations(t) \/ ScheduleDone(t)
           \/ (\E x \in loc[t].signal : TerminationCallback(t, x)) \/ SignalDone(t)
           \/ PoolDrained(t) \/ PoolLeave(t)
           \/ Dispatched(t) \/ Wait(t) \/ Wake(t) \/ WaitTimesOut(t) \/ TimerFires(t)
           \/ SubmitPendingCallbacks(t) \/ RestartTimer(t) \/ RecheckTimerDue(t)
           \/ PromoteReadyPendingCallbacks(t) \/ RearmTimer(t) \/ ExchangeTimerDue(t)
           \/ StartTimerForNext(t) \/ ClearTimerDue(t)
    PROVE  RunInv'
<1> USE DEF QueueItem, PrepareTerminate, SuspendTermination, ResumeTermination, Dispatch,
       QueueItemFails, DelayEntry, LowerTimerDue, StartTimer, QueueItemReturns,
       CancelPendingEntries, FlushDone, CancelTermination, Terminate, TerminateAddSuspend,
       ParkTermination, SuspendVerify, RemoveSuspend, CollectTerminations, ScheduleDone,
       TerminationCallback, SignalDone, PoolDrained, PoolLeave, Dispatched, Wait, Wake,
       WaitTimesOut, TimerFires, SubmitPendingCallbacks, RestartTimer, RecheckTimerDue,
       PromoteReadyPendingCallbacks, RearmTimer, ExchangeTimerDue, StartTimerForNext,
       ClearTimerDue
<1>1. inner[t] \in {"none", "terms"} BY DEF At
<1>2. UNCHANGED <<queue, poolWork, termList>>
  BY DEF exCtx, exList, exTerm, exDrain, exWake, exTime, shared, base, listVars, termVars,
     wakeVars
<1>3. \E l, n, r : Go(t, l, n, r) BY DEF Goto, Enter
<1>4. PICK n : /\ mode' = mode /\ inner'[t] = n
               /\ \A u \in Threads \ {t} : inner'[u] = inner[u]
  BY <1>3 DEF Go, TypeInv, ThreadTypeOK
<1> QED BY <1>1, <1>2, <1>4, CallerStep

\* The steps that queue something, notify, drain and signal.
LEMMA RunSteps ==
    ASSUME NEW t \in Threads, TypeInv, RunInv, DrainInv, TermsInv,
           \/ AppendEntry(t) \/ (\E e \in loc[t].batch : FlushEntry(t, e))
           \/ (\E x \in loc[t].sched : ScheduleTermination(t, x))
           \/ NotifyItemQueued(t) \/ DrainOneItem(t) \/ PopFront(t) \/ InvokeCallback(t)
           \/ LeaveCallback(t) \/ CheckQueueEmpty(t) \/ CheckNotProcessing(t)
           \/ SignalTerminations(t) \/ PoolCallback(t)
    PROVE  RunInv'
<1>s. /\ queue \in Seq(Entry) /\ poolWork \in Nat /\ Len(queue) \in Nat
      /\ Cardinality(Coming) \in Nat /\ ThreadTypeOK
      /\ RunsItself => Len(queue) <= poolWork + Cardinality(Coming)
  BY ComingFinite DEF TypeInv, SharedTypeOK, RunInv, CoveredInv
\* What remains to be shown of each step, given where t goes.
<1>c. ASSUME NEW l, NEW n, Moves(t, l, n), mode' = mode,
             RunsItself => Len(queue') <= poolWork' + Cardinality(Coming'),
             poolWork' = poolWork,
             n \in Owing \/ (termList' = termList /\ inner[t] \notin Owing)
      PROVE  RunInv'
  <2>1. CoveredInv' BY <1>c DEF CoveredInv, RunsItself
  <2>2. OweInv' BY <1>c DEF RunInv, OweInv, RunsItself, Moves
  <2> QED BY <2>1, <2>2 DEF RunInv
<1>m. ASSUME NEW l, NEW n, Moves(t, l, n)
      PROVE  inner'[t] = n /\ \A u \in Threads \ {t} : inner'[u] = inner[u]
  BY <1>m DEF Moves
<1>1. CASE AppendEntry(t) \/ \E e \in loc[t].batch : FlushEntry(t, e)
  <2>1. PICK e \in Entry : PushQueue(e)
    BY <1>1 DEF AppendEntry, FlushEntry, At, TypeInv, CarriesEntry, ThreadTypeOK, Locals
  <2>2. Len(queue') = Len(queue) + 1 BY <2>1, <1>s DEF PushQueue
  <2>3. inner[t] = "none" /\ mode' = mode /\ poolWork' = poolWork
    BY <1>1 DEF AppendEntry, FlushEntry, At, Go, exList, wakeVars
  <2>4. PICK l : Moves(t, l, "notify")
    BY <1>1, <1>s, GoEffect DEF AppendEntry, FlushEntry
  <2>5. Cardinality(Coming') = Cardinality(Coming) + 1
    BY <2>3, <2>4, <1>m, ComingMoves DEF Coming
  <2> QED BY <2>2, <2>3, <2>4, <2>5, <1>s, <1>c DEF Owing
<1>2. CASE \E x \in loc[t].sched : ScheduleTermination(t, x)
  <2>1. inner[t] = "none" /\ mode' = mode /\ poolWork' = poolWork /\ queue' = queue
    BY <1>2 DEF ScheduleTermination, At, Go, exTerm, listVars, wakeVars
  <2>2. Moves(t, "schedule", "notify") BY <1>2, <1>s, GoEffect DEF ScheduleTermination
  <2>3. Cardinality(Coming') = Cardinality(Coming) + 1
    BY <2>1, <2>2, <1>m, ComingMoves DEF Coming
  <2> QED BY <2>1, <2>2, <2>3, <1>s, <1>c DEF Owing
<1>3. CASE NotifyItemQueued(t)
  <2>1. /\ t \in Coming /\ mode' = mode /\ queue' = queue /\ termList' = termList
        /\ poolWork' = poolWork + PoolSubmits /\ Moves(t, pc[t], AfterNotify)
    BY <1>3, <1>s, EnterEffect DEF NotifyItemQueued, Enter, Go, exWake, listVars, termVars, Coming
  <2>2. CASE mode = "Immediate"
    <3>1. poolWork' = poolWork /\ Moves(t, pc[t], "drain")
      BY <2>1, <2>2, <1>s DEF PoolSubmits, AfterNotify
    <3>2. Cardinality(Coming') = Cardinality(Coming) BY <3>1, <2>1, <1>m, ComingMoves
    <3> QED BY <2>1, <3>1, <3>2, <1>s, <1>c DEF Owing
  <2>3. CASE mode = "ThreadPool"
    <3>1. poolWork' = poolWork + 1 /\ Moves(t, pc[t], "none")
      BY <2>1, <2>3, <1>s DEF PoolSubmits, AfterNotify
    <3>2. Cardinality(Coming') = Cardinality(Coming) - 1 BY <3>1, <2>1, <1>m, ComingMoves
    <3>3. CoveredInv' BY <2>1, <3>1, <3>2, <1>s DEF CoveredInv, RunsItself
    <3>4. OweInv' BY <3>1, <1>s DEF OweInv
    <3> QED BY <3>3, <3>4 DEF RunInv
  <2>4. CASE ~RunsItself BY <2>1, <2>4 DEF RunsItself, RunInv, CoveredInv, OweInv
  <2> QED BY <2>2, <2>3, <2>4 DEF RunsItself
<1>4. CASE DrainOneItem(t)
  <2>1. /\ t \in Coming /\ mode' = mode /\ queue' = queue /\ termList' = termList
        /\ poolWork' = poolWork /\ Moves(t, pc[t], "pop")
    BY <1>4, <1>s, EnterEffect DEF DrainOneItem, Enter, Go, exDrain, listVars, termVars, wakeVars,
       Coming
  <2>2. Cardinality(Coming') = Cardinality(Coming) BY <2>1, <1>m, ComingMoves
  <2> QED BY <2>1, <2>2, <1>s, <1>c DEF Owing
<1>5. CASE PopFront(t)
  <2>1. t \in Coming /\ mode' = mode /\ poolWork' = poolWork
    BY <1>5 DEF PopFront, Go, exList, wakeVars, Coming
  <2>2. \/ queue # <<>> /\ Moves(t, pc[t], "invoke") /\ queue' = Tail(queue)
        \/ queue = <<>> /\ Moves(t, pc[t], "leave") /\ queue' = queue
    BY <1>5, PopFrontEffect
  <2>3. Cardinality(Coming') = Cardinality(Coming) - 1 BY <2>1, <2>2, <1>m, ComingMoves
  <2>4. Cardinality(Coming') \in Nat BY <2>3, <2>1, ComingFinite, FS_EmptySet
  <2>5. RunsItself => Len(queue') <= poolWork' + Cardinality(Coming')
    <3>1. CASE queue # <<>>
      <4>1. Len(queue') = Len(queue) - 1 BY <2>2, <3>1, <1>s
      <4> QED BY <4>1, <2>1, <2>3, <1>s
    <3>2. CASE queue = <<>>
      <4>1. Len(queue') = 0 BY <2>2, <3>2
      <4> QED BY <4>1, <2>1, <2>4, <1>s
    <3> QED BY <3>1, <3>2
  <2> QED BY <2>1, <2>2, <2>5, <1>c DEF Owing
<1>6. CASE InvokeCallback(t) \/ LeaveCallback(t)
  <2>1. /\ t \notin Coming /\ mode' = mode /\ poolWork' = poolWork /\ queue' = queue
        /\ termList' = termList
    BY <1>6 DEF InvokeCallback, LeaveCallback, Enter, Go, exCtx, exDrain, listVars, wakeVars,
       termVars, Coming
  <2>2. Moves(t, pc[t], "leave") \/ Moves(t, pc[t], "check")
    BY <1>6, <1>s, EnterEffect, LeaveCallbackEffect DEF InvokeCallback
  <2>3. Cardinality(Coming') = Cardinality(Coming) BY <2>1, <2>2, <1>m, ComingMoves
  <2> QED BY <2>1, <2>2, <2>3, <1>s, <1>c DEF Owing
<1>7. CASE CheckQueueEmpty(t)
  <2>1. /\ t \notin Coming /\ mode' = mode /\ poolWork' = poolWork /\ queue' = queue
        /\ termList' = termList
    BY <1>7 DEF CheckQueueEmpty, Enter, Go, shared, exTime, listVars, wakeVars, termVars, Coming
  <2>2. \/ queue = <<>> /\ Moves(t, pc[t], "check2")
        \/ queue # <<>> /\ Moves(t, pc[t], "none")
    BY <1>7, <1>s, EnterEffect DEF CheckQueueEmpty, SeesEmpty
  <2>3. Cardinality(Coming') = Cardinality(Coming) BY <2>1, <2>2, <1>m, ComingMoves
  <2>4. CASE queue = <<>> BY <2>1, <2>2, <2>3, <2>4, <1>s, <1>c DEF Owing
  <2>5. CASE queue # <<>>
    <3>1. CoveredInv' BY <2>1, <2>3, <1>s DEF CoveredInv, RunsItself
    <3>2. ASSUME RunsItself, ~ (poolWork > 0) PROVE \E u \in Threads : inner'[u] \in Owing
      <4>1. Len(queue) >= 1 BY <2>5, <1>s
      <4>2. Cardinality(Coming) > 0 BY <4>1, <3>2, <1>s
      <4>3. PICK u : u \in Coming BY <4>2, FS_EmptySet
      <4>4. u # t /\ inner'[u] = inner[u] BY <4>3, <2>1, <2>2, <2>5 DEF Moves, Coming
      <4> QED BY <4>3, <4>4 DEF Coming, Owing
    <3>3. OweInv' BY <3>2, <2>1 DEF OweInv, RunsItself
    <3> QED BY <3>1, <3>3 DEF RunInv
  <2> QED BY <2>4, <2>5
<1>8. CASE CheckNotProcessing(t)
  <2>1. /\ t \notin Coming /\ mode' = mode /\ poolWork' = poolWork /\ queue' = queue
        /\ termList' = termList /\ inner[t] = "check2"
    BY <1>8 DEF CheckNotProcessing, Enter, Go, shared, exTime, listVars, wakeVars, termVars, Coming
  <2>2. \/ processing = 0 /\ Moves(t, pc[t], "signal")
        \/ processing # 0 /\ Moves(t, pc[t], "none")
    BY <1>8, <1>s, EnterEffect DEF CheckNotProcessing, SeesIdle
  <2>3. Cardinality(Coming') = Cardinality(Coming) BY <2>1, <2>2, <1>m, ComingMoves
  <2>4. CASE processing = 0 BY <2>1, <2>2, <2>3, <2>4, <1>s, <1>c DEF Owing
  <2>5. CASE processing # 0
    <3>1. CoveredInv' BY <2>1, <2>3, <1>s DEF CoveredInv, RunsItself
    <3>2. PICK u : u \in Draining BY <2>5, FS_EmptySet DEF DrainInv, CountedInv
    <3>3. inner'[u] = inner[u] BY <3>2, <2>1, <2>2, <2>5 DEF Moves, Draining
    <3>4. OweInv' BY <3>2, <3>3 DEF OweInv, Draining, Owing
    <3> QED BY <3>1, <3>4 DEF RunInv
  <2> QED BY <2>4, <2>5
<1>9. CASE SignalTerminations(t)
  <2>1. /\ t \notin Coming /\ mode' = mode /\ poolWork' = poolWork /\ queue' = queue
    BY <1>9 DEF SignalTerminations, Go, listVars, wakeVars, Coming
  <2>2. termList' = {}
    <3>1. {x \in termList : status[x.ctx] \in Terminal} = termList BY DEF TermsInv
    <3> QED BY <1>9, <3>1 DEF SignalTerminations, RemoveIf
  <2>3. Moves(t, pc[t], "terms") BY <1>9, SignalTerminationsEffect
  <2>4. Cardinality(Coming') = Cardinality(Coming) BY <2>1, <2>3, <1>m, ComingMoves
  <2>5. CoveredInv' BY <2>1, <2>4, <1>s DEF CoveredInv, RunsItself
  <2> QED BY <2>2, <2>5 DEF RunInv, OweInv
<1>10. CASE PoolCallback(t)
  <2>1. /\ inner[t] = "none" /\ queue' = queue /\ poolWork' = poolWork - 1
    BY <1>10 DEF PoolCallback, At, listVars
  <2>0. mode' = mode BY <1>10 DEF PoolCallback, Goto, Go
  <2>2. CASE RunsItself
    <3>1. Moves(t, "pool", "drain")
      BY <1>10, <2>2, PoolCallbackEffect DEF MayDrain, RunsItself
    <3>2. Cardinality(Coming') = Cardinality(Coming) + 1
      BY <2>1, <3>1, <1>m, ComingMoves DEF Coming
    <3>3. CoveredInv' BY <2>0, <2>1, <3>2, <1>s DEF CoveredInv, RunsItself
    <3>4. OweInv' BY <3>1 DEF OweInv, Owing, Moves
    <3> QED BY <3>3, <3>4 DEF RunInv
  <2>3. CASE ~RunsItself BY <2>0, <2>3 DEF RunsItself, RunInv, CoveredInv, OweInv
  <2> QED BY <2>2, <2>3
<1> QED BY <1>1, <1>2, <1>3, <1>4, <1>5, <1>6, <1>7, <1>8, <1>9, <1>10

-----------------------------------------------------------------------------

\* The steps inside NotifyItemQueued and DrainOneItem ...
Nested(t) ==
    \/ NotifyItemQueued(t) \/ DrainOneItem(t) \/ PopFront(t) \/ InvokeCallback(t)
    \/ LeaveCallback(t) \/ CheckQueueEmpty(t) \/ CheckNotProcessing(t)
    \/ SignalTerminations(t) \/ (\E x \in loc[t].signal : TerminationCallback(t, x))
    \/ SignalDone(t)

\* ... leave the outer call where it is, with the locals it uses.
LEMMA NestedEffect ==
    ASSUME NEW t \in Threads, TypeInv, Nested(t)
    PROVE  /\ \A u \in Threads : pc'[u] = pc[u]
           /\ \A u \in Threads : \A f \in {"ctx", "ret", "entry", "next", "due", "at", "batch"} :
                 loc'[u][f] = loc[u][f]
           /\ UNCHANGED <<suspends, pending, pendTerms, timerDue, timer, holders, touched>>
<1>s. ThreadTypeOK BY DEF TypeInv
<1>1. UNCHANGED <<suspends, pending, pendTerms, timerDue, timer, holders, touched>>
  BY DEF Nested, NotifyItemQueued, DrainOneItem, PopFront, InvokeCallback, LeaveCallback,
     CheckQueueEmpty, CheckNotProcessing, SignalTerminations, TerminationCallback, SignalDone,
     exCtx, exList, exDrain, exWake, exTime, shared, base, ctxVars, listVars, termVars, timeVars
<1>c. ASSUME NEW n, Moves(t, pc[t], n),
             \/ loc'[t] = loc[t] \/ Keeps(t, {"item", "popped"}) \/ Keeps(t, {"popped"})
             \/ Keeps(t, {"item"}) \/ Keeps(t, {"signal"})
      PROVE  /\ \A u \in Threads : pc'[u] = pc[u]
             /\ \A u \in Threads : \A f \in {"ctx", "ret", "entry", "next", "due", "at", "batch"} :
                   loc'[u][f] = loc[u][f]
  BY <1>c DEF Moves, Keeps, Fields
<1>2. CASE \/ NotifyItemQueued(t) \/ DrainOneItem(t) \/ InvokeCallback(t)
           \/ CheckQueueEmpty(t) \/ CheckNotProcessing(t) \/ SignalDone(t)
  <2>1. PICK n : Enter(t, n)
    BY <1>2 DEF NotifyItemQueued, DrainOneItem, InvokeCallback, CheckQueueEmpty,
       CheckNotProcessing, SignalDone
  <2> QED BY <2>1, <1>s, <1>1, <1>c, EnterEffect
<1>3. CASE PopFront(t) BY <1>3, <1>1, <1>c, PopFrontEffect
<1>4. CASE LeaveCallback(t) BY <1>4, <1>1, <1>c, LeaveCallbackEffect
<1>5. CASE SignalTerminations(t) BY <1>5, <1>1, <1>c, SignalTerminationsEffect
<1>6. CASE \E x \in loc[t].signal : TerminationCallback(t, x)
  BY <1>6, <1>1, <1>c, TerminationCallbackEffect
<1> QED BY <1>2, <1>3, <1>4, <1>5, <1>6 DEF Nested

\* A step leaves parked terminations as they were, or with more suspensions.
LEMMA ParkedStep ==
    ASSUME NEW t \in Threads, TypeInv, ParkedInv, pc[t] # "collect",
           \A u \in Threads \ {t} : pc'[u] = pc[u] /\ loc'[u] = loc[u],
           pendTerms' = pendTerms,
           \A c \in Contexts : suspends'[c] \in {suspends[c], suspends[c] + 1}
    PROVE  ParkedInv'
<1>1. \A x \in pendTerms : x.ctx \in Contexts BY DEF TypeInv, SharedTypeOK, Term
<1>2. \A c \in Contexts : suspends[c] \in Nat BY DEF TypeInv, SharedTypeOK
<1> QED BY <1>1, <1>2 DEF ParkedInv

\* Every step of a thread but Nested, Park, RemoveSuspend and Collect is of that kind.
LEMMA ParkedAside ==
    ASSUME NEW t \in Threads, TypeInv, ParkedInv,
           \/ (\E c \in Contexts, w \in Delays : QueueItem(t, c, w))
           \/ (\E c \in Contexts : \/ PrepareTerminate(t, c) \/ SuspendTermination(t, c)
                                   \/ ResumeTermination(t, c) \/ Dispatch(t, c))
           \/ QueueItemFails(t) \/ AppendEntry(t) \/ DelayEntry(t) \/ LowerTimerDue(t)
           \/ StartTimer(t) \/ QueueItemReturns(t) \/ CancelPendingEntries(t)
           \/ (\E e \in loc[t].batch : FlushEntry(t, e)) \/ FlushDone(t)
           \/ CancelTermination(t) \/ Terminate(t) \/ TerminateAddSuspend(t)
           \/ SuspendVerify(t)
           \/ (\E x \in loc[t].sched : ScheduleTermination(t, x)) \/ ScheduleDone(t)
           \/ PoolCallback(t) \/ PoolDrained(t) \/ PoolLeave(t)
           \/ Dispatched(t) \/ Wait(t) \/ Wake(t) \/ WaitTimesOut(t) \/ TimerFires(t)
           \/ SubmitPendingCallbacks(t) \/ RestartTimer(t) \/ RecheckTimerDue(t)
           \/ PromoteReadyPendingCallbacks(t) \/ RearmTimer(t) \/ ExchangeTimerDue(t)
           \/ StartTimerForNext(t) \/ ClearTimerDue(t)
    PROVE  ParkedInv'
<1> USE DEF QueueItem, PrepareTerminate, SuspendTermination, ResumeTermination, Dispatch,
       QueueItemFails, AppendEntry, DelayEntry, LowerTimerDue, StartTimer, QueueItemReturns,
       CancelPendingEntries, FlushEntry, FlushDone, CancelTermination, Terminate,
       TerminateAddSuspend, SuspendVerify, ScheduleTermination, ScheduleDone, PoolCallback,
       PoolDrained, PoolLeave, Dispatched, Wait, Wake,
       WaitTimesOut, TimerFires, SubmitPendingCallbacks, RestartTimer, RecheckTimerDue,
       PromoteReadyPendingCallbacks, RearmTimer, ExchangeTimerDue, StartTimerForNext,
       ClearTimerDue
<1>1. pc[t] # "collect" BY DEF At
<1>2. pendTerms' = pendTerms
  BY DEF exCtx, exList, exTerm, exDrain, exWake, exTime, shared, base, termVars
<1>3. \/ suspends' = suspends
      \/ \E c \in Contexts : suspends' = [suspends EXCEPT ![c] = suspends[c] + 1]
  <2>1. loc[t].ctx \in Contexts BY DEF TypeInv, ThreadTypeOK, Locals
  <2> QED BY <2>1 DEF exCtx, exList, exTerm, exDrain, exWake, exTime, shared, base, ctxVars
<1>4. \A c \in Contexts : suspends'[c] \in {suspends[c], suspends[c] + 1}
  BY <1>3 DEF TypeInv, SharedTypeOK
<1>5. \E l, n, r : Go(t, l, n, r) BY DEF Goto, Enter
<1>6. \A u \in Threads \ {t} : pc'[u] = pc[u] /\ loc'[u] = loc[u]
  BY <1>5 DEF Go, TypeInv, ThreadTypeOK
<1> QED BY <1>1, <1>2, <1>4, <1>6, ParkedStep

LEMMA ParkedSteps ==
    ASSUME NEW t \in Threads, TypeInv, ParkedInv, CountInv,
           \/ Nested(t) \/ ParkTermination(t) \/ RemoveSuspend(t) \/ CollectTerminations(t)
    PROVE  ParkedInv'
<1>s. /\ ThreadTypeOK /\ loc[t].ctx \in Contexts
      /\ \A c \in Contexts : suspends[c] \in Nat
      /\ \A x \in pendTerms : x.ctx \in Contexts
  BY DEF TypeInv, SharedTypeOK, ThreadTypeOK, Locals, Term
<1>1. CASE Nested(t) BY <1>1, NestedEffect DEF ParkedInv
<1>2. CASE ParkTermination(t)
  <2>1. /\ t \in InCall(loc[t].ctx) /\ suspends' = suspends
        /\ pendTerms' = pendTerms \cup {MyTerm(t)} /\ Goto(t, "resume") /\ pc[t] = "park"
    BY <1>2 DEF ParkTermination, At, InCall, exTerm, ctxVars
  <2>2. suspends[loc[t].ctx] > 0
    <3>1. Cardinality(InCall(loc[t].ctx)) \in Nat /\ Cardinality(Holding(loc[t].ctx)) \in Nat
      BY InCallFinite, FS_CardinalityType
    <3>2. Cardinality(InCall(loc[t].ctx)) # 0 BY <2>1, InCallFinite, FS_EmptySet
    <3>3. suspends[loc[t].ctx] = Cardinality(InCall(loc[t].ctx)) + Cardinality(Holding(loc[t].ctx))
      BY <1>s DEF CountInv
    <3> QED BY <3>1, <3>2, <3>3
  <2>3. Moves(t, "resume", "none") BY <2>1, <1>s, GotoEffect
  <2> QED BY <2>1, <2>2, <2>3 DEF ParkedInv, MyTerm, Moves
<1>3. CASE RemoveSuspend(t)
  <2> DEFINE c == loc[t].ctx
  <2>1. /\ suspends' = [suspends EXCEPT ![c] = OneLess(suspends[c])] /\ pendTerms' = pendTerms
        /\ Goto(t, IF LastOut(suspends[c]) THEN "collect" ELSE "idle") /\ pc[t] = "resume"
    BY <1>3 DEF RemoveSuspend, At, exCtx, termVars
  <2>2. CASE suspends[c] <= 1
    <3>1. Moves(t, "collect", "none") /\ loc'[t] = loc[t]
      BY <2>1, <2>2, <1>s, GotoEffect DEF LastOut
    <3>2. \A d \in Contexts \ {c} : suspends'[d] = suspends[d]
      BY <2>1 DEF TypeInv, SharedTypeOK
    <3> QED BY <2>1, <3>1, <3>2, <1>s DEF ParkedInv, Moves
  <2>3. CASE ~(suspends[c] <= 1)
    <3>1. Moves(t, "idle", "none") BY <2>1, <2>3, <1>s, GotoEffect DEF LastOut
    <3>2. suspends'[c] = OneLess(suspends[c])
          /\ \A d \in Contexts \ {c} : suspends'[d] = suspends[d]
      BY <2>1, <1>s DEF TypeInv, SharedTypeOK
    <3>3. suspends'[c] > 0 BY <3>2, <2>3, <1>s DEF OneLess
    <3> QED BY <2>1, <3>1, <3>2, <3>3, <1>s DEF ParkedInv, Moves
  <2> QED BY <2>2, <2>3
<1>4. CASE CollectTerminations(t)
  <2>1. /\ \A x \in pendTerms' : x \in pendTerms /\ x.ctx # loc[t].ctx
        /\ suspends' = suspends
    BY <1>4 DEF CollectTerminations, RemoveIf, exTerm, ctxVars
  <2>2. Moves(t, "schedule", "none") BY <1>4, CollectTerminationsEffect
  <2> QED BY <2>1, <2>2 DEF ParkedInv, Moves
<1> QED BY <1>1, <1>2, <1>3, <1>4

LEMMA TickRun ==
    ASSUME RunInv, ParkedInv, Tick \/ UNCHANGED vars PROVE RunInv' /\ ParkedInv'
<1>1. UNCHANGED <<mode, queue, poolWork, termList, pendTerms, suspends, pc, inner, loc>>
  BY DEF Tick, vars, exTime, ctxVars, listVars, termVars, wakeVars
<1>2. Coming' = Coming BY <1>1 DEF Coming
<1> QED BY <1>1, <1>2 DEF RunInv, CoveredInv, OweInv, ParkedInv, RunsItself

LEMMA RunInvariant == Spec => [](RunInv /\ ParkedInv)
<1> DEFINE All == TypeInv /\ DrainInv /\ SuspInv
<1>1. ASSUME All, RunInv, ParkedInv, [Next]_vars PROVE RunInv' /\ ParkedInv'
  <2>1. CASE Tick \/ UNCHANGED vars BY <1>1, <2>1, TickRun
  <2>2. ASSUME NEW t \in Threads,
               \/ Calls(t) \/ Continue(t)
               \/ QueueItemFails(t) \/ CancelTermination(t) \/ WaitTimesOut(t)
               \/ \E c \in Contexts : Dispatch(t, c) \/ ResumeTermination(t, c)
        PROVE  RunInv' /\ ParkedInv'
    <3>s. TypeInv /\ DrainInv /\ TermsInv /\ CountInv BY <1>1 DEF SuspInv
    <3>1. RunInv'
      BY <1>1, <2>2, <3>s, CallerSteps, RunSteps DEF Calls, Continue
    <3>2. ParkedInv'
      BY <1>1, <2>2, <3>s, ParkedAside, ParkedSteps DEF Calls, Continue, Nested
    <3> QED BY <3>1, <3>2
  <2> QED BY <1>1, <2>1, <2>2 DEF Next
<1> QED BY <1>1, InitRun, TypeInvariant, DrainInvariant, SuspInvariant, PTL DEF Spec

(* Nothing is left behind, in any interleaving of submitting, terminating, *)
(* suspending and draining threads and with allocations that fail: when    *)
(* every thread is out of the API and the pool has no work, the queue of a *)
(* port that runs its callbacks itself is empty, every scheduled           *)
(* termination has been signaled, and a parked one has a suspension that   *)
(* somebody has not resumed.                                               *)
THEOREM AllDone == Spec => []NothingLeftBehind
<1>1. ASSUME TypeInv, SuspInv, RunInv, ParkedInv PROVE NothingLeftBehind
  <2> SUFFICES ASSUME AtRest, mode \in {"ThreadPool", "Immediate"}
               PROVE  /\ queue = <<>> /\ termList = {}
                      /\ \A x \in pendTerms : \E h \in holders : h[2] = x.ctx
    BY DEF NothingLeftBehind
  <2>1. /\ \A t \in Threads : pc[t] = "idle" /\ inner[t] = "none"
        /\ poolWork = 0 /\ RunsItself
    BY DEF AtRest, Quiet, At, RunsItself
  <2>2. queue = <<>>
    <3>1. Coming = {} BY <2>1 DEF Coming
    <3>2. Cardinality(Coming) = 0 BY <3>1, FS_EmptySet
    <3>3. queue \in Seq(Entry) /\ Len(queue) <= 0
      BY <1>1, <2>1, <3>2 DEF RunInv, CoveredInv, TypeInv, SharedTypeOK
    <3> QED BY <3>3
  <2>3. termList = {} BY <1>1, <2>1 DEF RunInv, OweInv, Owing
  <2>4. ASSUME NEW x \in pendTerms PROVE \E h \in holders : h[2] = x.ctx
    <3>0. x.ctx \in Contexts BY <1>1 DEF TypeInv, SharedTypeOK, Term
    <3>1. suspends[x.ctx] > 0 BY <1>1, <2>1 DEF ParkedInv
    <3>2. InCall(x.ctx) = {} BY <2>1 DEF InCall
    <3>3. Cardinality(InCall(x.ctx)) = 0 BY <3>2, FS_EmptySet
    <3>4. suspends[x.ctx] = Cardinality(InCall(x.ctx)) + Cardinality(Holding(x.ctx))
      BY <1>1, <3>0 DEF SuspInv, CountInv
    <3>5. Holding(x.ctx) # {}
      <4>1. ASSUME Holding(x.ctx) = {} PROVE FALSE
        <5>1. Cardinality(Holding(x.ctx)) = 0 BY <4>1, FS_EmptySet
        <5> QED BY <5>1, <3>1, <3>3, <3>4
      <4> QED BY <4>1
    <3>6. PICK t \in Threads : <<t, x.ctx>> \in holders BY <3>5 DEF Holding
    <3> QED BY <3>6
  <2> QED BY <2>2, <2>3, <2>4
<1> QED BY <1>1, TypeInvariant, SuspInvariant, RunInvariant, PTL

-----------------------------------------------------------------------------
(* The delayed callbacks and the timer.                                    *)

\* A canceled context has a thread between PrepareTerminate and its outcome.
CanceledInv ==
    \A c \in Contexts : status[c] = "Canceled" =>
        \E u \in Threads : pc[u] = "prepared" /\ loc[u].ctx = c

\* A delayed callback of a terminating context has a thread that will flush it.
FlushedInv ==
    \A e \in pending : status[e.ctx] \in Terminal =>
        \E u \in Threads : pc[u] \in {"cancel", "arm", "start", "queued"} /\ loc[u].ctx = e.ctx

\* Threads between remove_if of the pending list and the timer's new due time.
Promoted(u)  == pc[u] \in {"rearm", "cas"} \/ (pc[u] = "flush" /\ loc[u].ret = "rearm")
Promoting(u) == pc[u] = "promote" \/ Promoted(u)

\* A submitter's entry is of its own context, and due times are times.
WhenInv ==
    /\ \A e \in pending : e.when <= Horizon
    /\ \A u \in Threads :
        /\ pc[u] = "delay" => loc[u].entry.ctx = loc[u].ctx
        /\ pc[u] \in {"delay", "arm", "start"} => loc[u].entry.when <= Horizon
        /\ Promoted(u) \/ pc[u] = "startnext" => loc[u].next.when <= Horizon
        /\ pc[u] = "restart" => loc[u].due # NoDue
        /\ pc[u] = "cancel" => loc[u].ret # "rearm"

\* While nobody has canceled, a pending callback without a due time has a
\* thread that will set one, ...
NextInv ==
    touched = {} /\ pending # {} /\ timerDue = NoDue =>
        \E u \in Threads : \/ pc[u] \in {"arm", "promote"}
                           \/ Promoted(u) /\ loc[u].next # NoEntry

\* ... and a due time has the timer armed, or a thread that will see to it.
ArmedInv ==
    touched = {} /\ timerDue # NoDue =>
        \/ timer # Unarmed
        \/ \E u \in Threads : \/ pc[u] \in {"start", "startnext", "load", "restart"}
                              \/ (Promoting(u) \/ pc[u] = "clear") /\ loc[u].due = timerDue

DelayInv == CanceledInv /\ FlushedInv /\ WhenInv /\ NextInv /\ ArmedInv

LEMMA InitDelay == Init => DelayInv
<1> SUFFICES ASSUME Init PROVE DelayInv OBVIOUS
<1>1. /\ \A c \in Contexts : status[c] = "Active"
      /\ pending = {} /\ timerDue = NoDue
      /\ \A u \in Threads : pc[u] = "idle"
  BY DEF Init
<1> QED BY <1>1 DEF DelayInv, CanceledInv, FlushedInv, WhenInv, NextInv, ArmedInv, Promoted

\* Labels at which the invariant counts on a thread, and at which it asks something of it.
Counted == {"cancel", "arm", "start", "queued", "prepared", "flush", "rearm", "cas", "promote",
            "startnext", "load", "restart", "clear"}
Asked   == {"delay", "arm", "start", "restart", "cancel", "flush", "rearm", "cas", "startnext"}

LEMMA AsideStep ==
    ASSUME NEW t \in Threads, NEW l, NEW n, DelayInv, Moves(t, l, n),
           pc[t] \notin Counted, l \notin Asked,
           UNCHANGED <<status, pending, timerDue, timer, touched>>
    PROVE  DelayInv'
<1>1. \A u \in Threads : pc[u] \in Counted => pc'[u] = pc[u] /\ loc'[u] = loc[u]
  BY DEF Moves
<1>2. \A u \in Threads : pc'[u] \in Asked => pc'[u] = pc[u] /\ loc'[u] = loc[u]
  BY DEF Moves
<1>3. \A u \in Threads : Promoting(u) \/ Promoted(u) => pc[u] \in Counted
  BY DEF Promoting, Promoted, Counted
<1>4. CanceledInv' BY <1>1 DEF DelayInv, CanceledInv, Counted
<1>5. FlushedInv' BY <1>1 DEF DelayInv, FlushedInv, Counted
<1>6. WhenInv' BY <1>2 DEF DelayInv, WhenInv, Asked, Promoted
<1>7. NextInv' BY <1>1 DEF DelayInv, NextInv, Counted, Promoted
<1>8. ArmedInv' BY <1>1 DEF DelayInv, ArmedInv, Counted, Promoted, Promoting
<1> QED BY <1>4, <1>5, <1>6, <1>7, <1>8 DEF DelayInv

LEMMA AsideSteps ==
    ASSUME NEW t \in Threads, TypeInv, RetInv, DelayInv,
           \/ (\E c \in Contexts : \/ SuspendTermination(t, c) \/ ResumeTermination(t, c)
                                   \/ Dispatch(t, c))
           \/ QueueItemFails(t) \/ AppendEntry(t)
           \/ TerminateAddSuspend(t) \/ ParkTermination(t) \/ SuspendVerify(t)
           \/ RemoveSuspend(t) \/ CollectTerminations(t)
           \/ (\E x \in loc[t].sched : ScheduleTermination(t, x)) \/ ScheduleDone(t)
           \/ PoolCallback(t) \/ PoolDrained(t) \/ PoolLeave(t)
           \/ Dispatched(t) \/ Wait(t) \/ Wake(t) \/ WaitTimesOut(t) \/ RecheckTimerDue(t)
    PROVE  DelayInv'
<1> USE DEF SuspendTermination, ResumeTermination, Dispatch, QueueItemFails, AppendEntry,
       TerminateAddSuspend, ParkTermination, SuspendVerify, RemoveSuspend,
       CollectTerminations, ScheduleTermination, ScheduleDone, PoolCallback, PoolDrained,
       PoolLeave, Dispatched, Wait, Wake, WaitTimesOut, RecheckTimerDue
<1>1. pc[t] \notin Counted BY DEF At, Counted
<1>2. UNCHANGED <<status, pending, timerDue, timer, touched>>
  BY DEF exCtx, exList, exTerm, exDrain, exWake, exTime, shared, base, ctxVars, listVars, timeVars
<1>3. \E l, n, r : Go(t, l, n, r) BY DEF Goto, Enter
<1>4. PICK l, n : Moves(t, l, n) BY <1>3, GoEffect DEF TypeInv
<1>5. l \notin Asked
  <2>1. pc[t] = "schedule" => loc[t].ret \notin Asked BY DEF RetInv, Asked
  <2>2. pc'[t] = l BY <1>4 DEF Moves
  <2>3. pc \in [Threads -> PCs] BY DEF TypeInv, ThreadTypeOK
  <2>4. pc'[t] \in {"verify", "resume", "dispatch", "idle", "queued", "schedule", "park",
                    "collect", "pool", "unserial", "wait", "blocked", "load"}
        \/ (pc[t] = "schedule" /\ pc'[t] = loc[t].ret)
    BY <2>3 DEF Go, Goto, Enter, At
  <2> QED BY <2>1, <2>2, <2>4 DEF Asked
<1> QED BY <1>1, <1>2, <1>4, <1>5, AsideStep

\* The steps of QueueItem and of CancelPendingEntries.
LEMMA DelaySteps ==
    ASSUME NEW t \in Threads, TypeInv, DelayInv,
           \/ (\E c \in Contexts, w \in Delays : QueueItem(t, c, w))
           \/ DelayEntry(t) \/ LowerTimerDue(t) \/ StartTimer(t) \/ QueueItemReturns(t)
           \/ CancelPendingEntries(t) \/ (\E e \in loc[t].batch : FlushEntry(t, e))
           \/ FlushDone(t)
    PROVE  DelayInv'
<1>s. /\ ThreadTypeOK /\ loc[t] \in Locals
      /\ pending \subseteq Entry /\ timerDue \in Nat /\ now \in Nat /\ Horizon \in Nat
      /\ NoDue = Horizon + 1 /\ Unarmed = NoDue
      /\ loc[t].entry.when \in Nat /\ loc[t].ret \in Returns
  <2>1. ThreadTypeOK /\ loc[t] \in Locals BY DEF TypeInv, ThreadTypeOK
  <2>2. pending \subseteq Entry /\ timerDue \in Nat /\ now \in Nat BY DEF TypeInv, SharedTypeOK
  <2>3. loc[t].entry.when \in Nat /\ loc[t].ret \in Returns BY <2>1 DEF Locals, Entry, NoEntry
  <2> QED BY <2>1, <2>2, <2>3, BoundsAssumption DEF NoDue, Unarmed
<1>1. ASSUME NEW c \in Contexts, NEW w \in Delays, QueueItem(t, c, w) PROVE DelayInv'
  <2>1. /\ pc[t] = "idle" /\ (pc'[t] = "append" \/ pc'[t] = "delay")
        /\ \A u \in Threads \ {t} : pc'[u] = pc[u] /\ loc'[u] = loc[u]
        /\ loc'[t].entry.ctx = loc'[t].ctx /\ loc'[t].entry.when <= Horizon
        /\ UNCHANGED <<status, pending, timerDue, timer, touched>>
    <3>1. now + w <= Horizon /\ w \in Nat BY <1>1, BoundsAssumption DEF QueueItem
    <3>2. UNCHANGED <<status, pending, timerDue, timer, touched>> /\ pc[t] = "idle"
      BY <1>1 DEF QueueItem, At, exCtx, exList, exTime, shared, base, ctxVars, listVars, timeVars
    <3>3. loc'[t].ctx = c /\ loc'[t].entry.ctx = c /\ loc'[t].entry.when <= Horizon
      <4> DEFINE e == [id |-> nextId, ctx |-> c, when |-> IF w = 0 THEN 0 ELSE now + w]
      <4>1. e.ctx = c /\ e.when <= Horizon BY <3>1, <1>s
      <4>2. loc'[t].ctx = c /\ loc'[t].entry = e BY <1>1, QueueItemEffect
      <4> HIDE DEF e
      <4> QED BY <4>1, <4>2
    <3> QED BY <1>1, <3>2, <3>3, QueueItemEffect DEF Moves
  <2>2. CanceledInv' /\ FlushedInv' BY <2>1 DEF DelayInv, CanceledInv, FlushedInv
  <2>3. WhenInv' BY <2>1 DEF DelayInv, WhenInv, Promoted
  <2>4. NextInv' BY <2>1 DEF DelayInv, NextInv, Promoted
  <2>5. ArmedInv' BY <2>1 DEF DelayInv, ArmedInv, Promoted, Promoting
  <2> QED BY <2>2, <2>3, <2>4, <2>5 DEF DelayInv
<1>2. CASE DelayEntry(t)
  <2>1. /\ pc[t] = "delay" /\ Moves(t, "arm", "none") /\ loc'[t] = loc[t]
        /\ pending' = pending \cup {loc[t].entry}
        /\ UNCHANGED <<status, timerDue, timer, touched>>
    BY <1>2, <1>s, GotoEffect DEF DelayEntry, At, exCtx, exList, exTime, shared, base, ctxVars, listVars, timeVars
  <2>2. CanceledInv' /\ FlushedInv'
    BY <1>s, <2>1 DEF DelayInv, CanceledInv, FlushedInv, WhenInv, Moves
  <2>3. WhenInv' BY <1>s, <2>1 DEF DelayInv, WhenInv, Promoted, Moves
  <2>4. NextInv' BY <1>s, <2>1 DEF DelayInv, NextInv, Promoted, Moves
  <2>5. ArmedInv' BY <1>s, <2>1 DEF DelayInv, ArmedInv, Promoted, Promoting, Moves
  <2> QED BY <2>2, <2>3, <2>4, <2>5 DEF DelayInv
<1>3. CASE LowerTimerDue(t)
  <2>1. /\ pc[t] = "arm" /\ loc'[t] = loc[t] /\ loc[t].entry.when <= Horizon
        /\ \/ Moves(t, "start", "none") /\ timerDue' = loc[t].entry.when
           \/ Moves(t, "queued", "none") /\ timerDue' = timerDue /\ timerDue <= loc[t].entry.when
        /\ UNCHANGED <<status, pending, timer, touched>>
    BY <1>3, <1>s, GotoEffect DEF DelayInv, WhenInv, LowerTimerDue, SoonerThanDue, At, exCtx, exList, exTime, shared, base, ctxVars, listVars, timeVars
  <2>2. CanceledInv' /\ FlushedInv'
    BY <1>s, <2>1 DEF DelayInv, CanceledInv, FlushedInv, Moves
  <2>3. WhenInv' BY <1>s, <2>1 DEF DelayInv, WhenInv, Promoted, Moves
  <2>4. NextInv' BY <1>s, <2>1 DEF DelayInv, NextInv, Promoted, Moves
  <2>5. ArmedInv' BY <1>s, <2>1 DEF DelayInv, ArmedInv, Promoted, Promoting, Moves
  <2> QED BY <2>2, <2>3, <2>4, <2>5 DEF DelayInv
<1>4. CASE StartTimer(t)
  <2>1. /\ pc[t] = "start" /\ Moves(t, "queued", "none") /\ loc'[t] = loc[t]
        /\ timer' = loc[t].entry.when /\ loc[t].entry.when <= Horizon
        /\ UNCHANGED <<status, pending, timerDue, touched>>
    BY <1>4, <1>s, GotoEffect DEF DelayInv, WhenInv, StartTimer, At, exCtx, exList, exTime, shared, base, ctxVars, listVars, timeVars
  <2>2. CanceledInv' /\ FlushedInv'
    BY <1>s, <2>1 DEF DelayInv, CanceledInv, FlushedInv, Moves
  <2>3. WhenInv' BY <1>s, <2>1 DEF DelayInv, WhenInv, Promoted, Moves
  <2>4. NextInv' BY <1>s, <2>1 DEF DelayInv, NextInv, Promoted, Moves
  <2>5. ArmedInv' BY <1>s, <2>1 DEF DelayInv, ArmedInv, Promoted, Promoting, Moves
  <2> QED BY <2>2, <2>3, <2>4, <2>5 DEF DelayInv
<1>5. CASE QueueItemReturns(t)
  <2>1. /\ pc[t] = "queued"
        /\ \/ status[loc[t].ctx] = "Active" /\ Moves(t, "idle", "none")
           \/ /\ Moves(t, "cancel", "none") /\ loc'[t].ctx = loc[t].ctx
              /\ loc'[t].ret # "rearm"
        /\ UNCHANGED <<status, pending, timerDue, timer, touched>>
    <3>1. UNCHANGED <<status, pending, timerDue, timer, touched>> /\ pc[t] = "queued"
      BY <1>5 DEF QueueItemReturns, At, exCtx, exList, exTime, shared, base, ctxVars, listVars, timeVars
    <3>2. CASE status[loc[t].ctx] = "Active"
      BY <3>1, <3>2, <1>5, <1>s, GotoEffect DEF QueueItemReturns
    <3>3. CASE status[loc[t].ctx] # "Active"
      <4>1. ~Moves(t, "idle", "none")
        BY <1>5, <3>3, <1>s, GoEffect DEF QueueItemReturns, Moves
      <4> QED BY <3>1, <4>1, <1>5, QueueItemReturnsEffect DEF Keeps, Fields
    <3> QED BY <3>2, <3>3
  <2>2. CanceledInv' /\ FlushedInv'
    BY <1>s, <2>1 DEF DelayInv, CanceledInv, FlushedInv, Moves, Terminal
  <2>3. WhenInv' BY <1>s, <2>1 DEF DelayInv, WhenInv, Promoted, Moves
  <2>4. NextInv' BY <1>s, <2>1 DEF DelayInv, NextInv, Promoted, Moves
  <2>5. ArmedInv' BY <1>s, <2>1 DEF DelayInv, ArmedInv, Promoted, Promoting, Moves
  <2> QED BY <2>2, <2>3, <2>4, <2>5 DEF DelayInv
<1>6. CASE CancelPendingEntries(t)
  <2>1. /\ pc[t] = "cancel" /\ Moves(t, "flush", "none") /\ loc'[t].ctx = loc[t].ctx
        /\ loc'[t].ret = loc[t].ret
        /\ pending' = {e \in pending : e.ctx # loc[t].ctx}
        /\ UNCHANGED <<status, timerDue, timer, touched>>
    BY <1>6, <1>s, CancelPendingEntriesEffect DEF CancelPendingEntries, RemoveIf, At, Keeps, Fields, exCtx, exList, exTime, shared, base, ctxVars, listVars, timeVars
  <2>2. CanceledInv' /\ FlushedInv'
    BY <1>s, <2>1 DEF DelayInv, CanceledInv, FlushedInv, Moves
  <2>3. WhenInv' BY <1>s, <2>1 DEF DelayInv, WhenInv, Promoted, Moves
  <2>4. NextInv' BY <1>s, <2>1 DEF DelayInv, NextInv, Promoted, Moves
  <2>5. ArmedInv' BY <1>s, <2>1 DEF DelayInv, ArmedInv, Promoted, Promoting, Moves
  <2> QED BY <2>2, <2>3, <2>4, <2>5 DEF DelayInv
<1>7. CASE \E e \in loc[t].batch : FlushEntry(t, e)
  <2>1. /\ pc[t] = "flush" /\ Moves(t, "flush", "notify")
        /\ \A f \in {"ret", "ctx", "next", "due"} : loc'[t][f] = loc[t][f]
        /\ UNCHANGED <<status, pending, timerDue, timer, touched>>
    BY <1>7, <1>s, FlushEntryEffect DEF FlushEntry, At, Keeps, Fields, exCtx, exList, exTime, shared, base, ctxVars, listVars, timeVars
  <2>2. CanceledInv' /\ FlushedInv'
    BY <1>s, <2>1 DEF DelayInv, CanceledInv, FlushedInv, Moves
  <2>3. WhenInv' BY <1>s, <2>1 DEF DelayInv, WhenInv, Promoted, Moves
  <2>4. NextInv' BY <1>s, <2>1 DEF DelayInv, NextInv, Promoted, Moves
  <2>5. ArmedInv' BY <1>s, <2>1 DEF DelayInv, ArmedInv, Promoted, Promoting, Moves
  <2> QED BY <2>2, <2>3, <2>4, <2>5 DEF DelayInv
<1>8. CASE FlushDone(t)
  <2>1. /\ pc[t] = "flush" /\ Moves(t, loc[t].ret, "none")
        /\ loc[t].ret \in {"idle", "suspend", "resume", "rearm"}
        /\ loc[t].ret = "rearm" => loc'[t] = loc[t]
        /\ UNCHANGED <<status, pending, timerDue, timer, touched>>
    BY <1>8, <1>s, GotoEffect DEF FlushDone, At, Returns, exCtx, exList, exTime, shared, base, ctxVars, listVars, timeVars
  <2>2. CanceledInv' /\ FlushedInv'
    BY <1>s, <2>1 DEF DelayInv, CanceledInv, FlushedInv, Moves
  <2>3. WhenInv' BY <1>s, <2>1 DEF DelayInv, WhenInv, Promoted, Moves
  <2>4. NextInv' BY <1>s, <2>1 DEF DelayInv, NextInv, Promoted, Moves
  <2>5. ArmedInv' BY <1>s, <2>1 DEF DelayInv, ArmedInv, Promoted, Promoting, Moves
  <2> QED BY <2>2, <2>3, <2>4, <2>5 DEF DelayInv
<1> QED BY <1>1, <1>2, <1>3, <1>4, <1>5, <1>6, <1>7, <1>8

\* The steps that change a status, and the nested ones.
LEMMA DelayStatusSteps ==
    ASSUME NEW t \in Threads, TypeInv, DelayInv,
           \/ (\E c \in Contexts : PrepareTerminate(t, c)) \/ CancelTermination(t)
           \/ Terminate(t) \/ Nested(t)
    PROVE  DelayInv'
<1>s. /\ ThreadTypeOK /\ loc[t].ctx \in Contexts /\ status \in [Contexts -> Statuses]
      /\ pending \subseteq Entry /\ \A e \in pending : e.ctx \in Contexts
  <2>1. ThreadTypeOK /\ loc[t] \in Locals BY DEF TypeInv, ThreadTypeOK
  <2>2. status \in [Contexts -> Statuses] /\ pending \subseteq Entry BY DEF TypeInv, SharedTypeOK
  <2> QED BY <2>1, <2>2 DEF Locals, Entry
<1>1. ASSUME NEW c \in Contexts, PrepareTerminate(t, c) PROVE DelayInv'
  <2>1. /\ pc[t] = "idle" /\ Moves(t, "prepared", "none") /\ loc'[t].ctx = c
        /\ status' = [status EXCEPT ![c] = IF status[c] = "Active" THEN "Canceled" ELSE status[c]]
        /\ touched' # {} /\ UNCHANGED <<pending, timerDue, timer>>
    BY <1>1, PrepareTerminateEffect DEF PrepareTerminate, At, exCtx, exList, exTime, shared, base, ctxVars, listVars, timeVars
  <2>2. CanceledInv'
    BY <1>s, <2>1 DEF DelayInv, CanceledInv, Moves
  <2>3. FlushedInv'
    <3>1. \A d \in Contexts : status'[d] \in Terminal => status[d] \in Terminal
      BY <1>s, <2>1 DEF Terminal
    <3> QED BY <1>s, <2>1, <3>1 DEF DelayInv, FlushedInv, Moves
  <2>4. WhenInv' BY <2>1 DEF DelayInv, WhenInv, Promoted, Moves
  <2>5. NextInv' /\ ArmedInv' BY <2>1 DEF NextInv, ArmedInv
  <2> QED BY <2>2, <2>3, <2>4, <2>5 DEF DelayInv
<1>2. CASE CancelTermination(t)
  <2>1. /\ pc[t] = "prepared" /\ Moves(t, "idle", "none")
        /\ \A d \in Contexts : status'[d] = IF d = loc[t].ctx THEN RolledBack(status[d]) ELSE status[d]
        /\ UNCHANGED <<pending, timerDue, timer, touched>>
    <3>1. /\ pc[t] = "prepared" /\ Goto(t, "idle")
          /\ status' = [status EXCEPT ![loc[t].ctx] = RolledBack(status[loc[t].ctx])]
          /\ UNCHANGED <<pending, timerDue, timer, touched>>
      BY <1>2 DEF CancelTermination, At, exCtx, exList, exTime, shared, base, ctxVars, listVars, timeVars
    <3> QED BY <3>1, <1>s, GotoEffect
  <2>2. CanceledInv' /\ FlushedInv'
    BY <1>s, <2>1 DEF DelayInv, CanceledInv, FlushedInv, Moves, RolledBack, Terminal
  <2>3. WhenInv' BY <1>s, <2>1 DEF DelayInv, WhenInv, Promoted, Moves
  <2>4. NextInv' BY <1>s, <2>1 DEF DelayInv, NextInv, Promoted, Moves
  <2>5. ArmedInv' BY <1>s, <2>1 DEF DelayInv, ArmedInv, Promoted, Promoting, Moves
  <2> QED BY <2>2, <2>3, <2>4, <2>5 DEF DelayInv
<1>3. CASE Terminate(t)
  <2>1. /\ pc[t] = "prepared" /\ Moves(t, "cancel", "none") /\ loc'[t].ret = "suspend"
        /\ loc'[t].ctx = loc[t].ctx
        /\ \A d \in Contexts : status'[d] = IF d = loc[t].ctx THEN "Terminating" ELSE status[d]
        /\ UNCHANGED <<pending, timerDue, timer, touched>>
    <3>1. /\ pc[t] = "prepared"
          /\ status' = [status EXCEPT ![loc[t].ctx] = "Terminating"]
          /\ UNCHANGED <<pending, timerDue, timer, touched>>
      BY <1>3 DEF Terminate, At, exCtx, exList, exTime, shared, base, ctxVars, listVars, timeVars
    <3>2. loc'[t].ctx = loc[t].ctx BY <1>3, TerminateEffect DEF Keeps, Fields
    <3> QED BY <1>3, <3>1, <3>2, <1>s, TerminateEffect
  <2>2. CanceledInv' /\ FlushedInv'
    BY <1>s, <2>1 DEF DelayInv, CanceledInv, FlushedInv, Moves
  <2>3. WhenInv' BY <1>s, <2>1 DEF DelayInv, WhenInv, Promoted, Moves
  <2>4. NextInv' BY <1>s, <2>1 DEF DelayInv, NextInv, Promoted, Moves
  <2>5. ArmedInv' BY <1>s, <2>1 DEF DelayInv, ArmedInv, Promoted, Promoting, Moves
  <2> QED BY <2>2, <2>3, <2>4, <2>5 DEF DelayInv
<1>4. CASE Nested(t)
  <2>1. \A d \in Contexts : /\ status'[d] = "Canceled" => status[d] = "Canceled"
                            /\ status'[d] \in Terminal => status[d] \in Terminal
    <3>1. CASE SignalTerminations(t) BY <3>1, <1>s DEF SignalTerminations
    <3>2. CASE ~SignalTerminations(t)
      <4>1. status' = status
        BY <1>4, <3>2, NeutralUnchanged DEF Nested, TerminationCallback, ctxVars
      <4> QED BY <4>1
    <3> QED BY <3>1, <3>2
  <2>2. /\ \A u \in Threads : pc'[u] = pc[u]
        /\ \A u \in Threads : /\ loc'[u].ctx = loc[u].ctx /\ loc'[u].ret = loc[u].ret
                              /\ loc'[u].entry = loc[u].entry /\ loc'[u].next = loc[u].next
                              /\ loc'[u].due = loc[u].due
        /\ UNCHANGED <<pending, timerDue, timer, touched>>
    BY <1>4, NestedEffect
  <2>3. CanceledInv' /\ FlushedInv' BY <2>1, <2>2, <1>s DEF DelayInv, CanceledInv, FlushedInv
  <2>4. WhenInv' BY <2>2 DEF DelayInv, WhenInv, Promoted
  <2>5. NextInv' BY <2>2 DEF DelayInv, NextInv, Promoted
  <2>6. ArmedInv' BY <2>2 DEF DelayInv, ArmedInv, Promoted, Promoting
  <2> QED BY <2>3, <2>4, <2>5, <2>6 DEF DelayInv
<1> QED BY <1>1, <1>2, <1>3, <1>4

\* The next item PromoteReadyPendingCallbacks finds, when any is left.
LEMMA PromoteNext ==
    ASSUME NEW t \in Threads, TypeInv, PromoteReadyPendingCallbacks(t)
    PROVE  /\ pending' \subseteq pending
           /\ pending' # {} => loc'[t].next \in pending
           /\ pending' = {} => loc'[t].next = NoEntry
<1>0. loc[t] \in Locals /\ ThreadTypeOK BY DEF TypeInv, ThreadTypeOK
<1> DEFINE ready == {e \in pending : Ready(e, loc[t].at)}
           r(m) == [loc[t] EXCEPT !.batch = ready, !.next = m, !.ret = "rearm"]
<1>1. PICK m : /\ Go(t, "flush", "none", r(m))
               /\ IF pending \ ready = {} THEN m = NoEntry ELSE m \in pending \ ready
  BY DEF PromoteReadyPendingCallbacks
<1>2. pending' = pending \ ready BY DEF PromoteReadyPendingCallbacks, RemoveIf
<1>3. r(m).next = m BY <1>0 DEF Locals
<1> HIDE DEF r
<1>4. loc'[t] = r(m) BY <1>0, <1>1, GoEffect
<1> QED BY <1>1, <1>2, <1>3, <1>4

\* The steps of the timer's callback.
LEMMA TimerSteps ==
    ASSUME NEW t \in Threads, TypeInv, TouchedInv, DelayInv,
           \/ TimerFires(t) \/ SubmitPendingCallbacks(t) \/ RestartTimer(t)
           \/ PromoteReadyPendingCallbacks(t) \/ RearmTimer(t) \/ ExchangeTimerDue(t)
           \/ StartTimerForNext(t) \/ ClearTimerDue(t)
    PROVE  DelayInv'
<1>s. /\ ThreadTypeOK /\ pending \subseteq Entry /\ timerDue \in Nat
      /\ Horizon \in Nat /\ NoDue = Horizon + 1 /\ Unarmed = NoDue /\ NoDue \in Nat
      /\ loc[t].next.when \in Nat
      /\ loc[t].next # NoEntry => loc[t].next.ctx \in Contexts
      /\ touched = {} => \A c \in Contexts : status[c] = "Active"
  <2>1. ThreadTypeOK /\ loc[t] \in Locals BY DEF TypeInv, ThreadTypeOK
  <2>2. pending \subseteq Entry /\ timerDue \in Nat BY DEF TypeInv, SharedTypeOK
  <2>3. loc[t].next.when \in Nat BY <2>1 DEF Locals, Entry, NoEntry
  <2>4. loc[t].next # NoEntry => loc[t].next.ctx \in Contexts BY <2>1 DEF Locals, Entry
  <2> QED BY <2>1, <2>2, <2>3, <2>4, BoundsAssumption DEF NoDue, Unarmed, TouchedInv
<1>1. CASE TimerFires(t)
  <2>1. /\ pc[t] = "idle" /\ Moves(t, "load", "none")
        /\ UNCHANGED <<status, pending, timerDue, touched>>
    BY <1>1, <1>s, GotoEffect DEF TimerFires, At, exCtx, exList, exTime, shared, base, ctxVars, listVars, timeVars
  <2>2. CanceledInv' /\ FlushedInv'
    BY <1>s, <2>1 DEF DelayInv, CanceledInv, FlushedInv, Moves
  <2>3. WhenInv' BY <1>s, <2>1 DEF DelayInv, WhenInv, Promoted, Moves
  <2>4. NextInv' BY <1>s, <2>1 DEF DelayInv, NextInv, Promoted, Moves
  <2>5. ArmedInv' BY <1>s, <2>1 DEF DelayInv, ArmedInv, Promoted, Promoting, Moves
  <2> QED BY <2>2, <2>3, <2>4, <2>5 DEF DelayInv
<1>2. CASE SubmitPendingCallbacks(t)
  <2>1. /\ pc[t] = "load"
        /\ \/ timerDue = NoDue /\ Moves(t, "idle", "none")
           \/ /\ timerDue # NoDue /\ loc'[t].due = timerDue
              /\ Moves(t, "restart", "none") \/ Moves(t, "promote", "none")
        /\ UNCHANGED <<status, pending, timerDue, timer, touched>>
    <3>1. UNCHANGED <<status, pending, timerDue, timer, touched>> /\ pc[t] = "load"
      BY <1>2 DEF SubmitPendingCallbacks, At, exCtx, exList, exTime, shared, base, ctxVars, listVars, timeVars
    <3>2. CASE timerDue = NoDue
      BY <3>1, <3>2, <1>2, <1>s, GotoEffect DEF SubmitPendingCallbacks
    <3>3. CASE timerDue # NoDue
      <4>1. ~Moves(t, "idle", "none")
        BY <1>2, <3>3, <1>s, GoEffect DEF SubmitPendingCallbacks, Moves
      <4> QED BY <3>1, <3>3, <4>1, <1>2, SubmitPendingCallbacksEffect
    <3> QED BY <3>2, <3>3
  <2>2. CanceledInv' /\ FlushedInv'
    BY <1>s, <2>1 DEF DelayInv, CanceledInv, FlushedInv, Moves
  <2>3. WhenInv' BY <1>s, <2>1 DEF DelayInv, WhenInv, Promoted, Moves
  <2>4. NextInv' BY <1>s, <2>1 DEF DelayInv, NextInv, Promoted, Moves
  <2>5. ArmedInv' BY <1>s, <2>1 DEF DelayInv, ArmedInv, Promoted, Promoting, Moves
  <2> QED BY <2>2, <2>3, <2>4, <2>5 DEF DelayInv
<1>3. CASE RestartTimer(t)
  <2>1. /\ pc[t] = "restart" /\ Moves(t, "recheck", "none") /\ timer' = loc[t].due
        /\ loc[t].due # NoDue
        /\ UNCHANGED <<status, pending, timerDue, touched>>
    BY <1>3, <1>s, GotoEffect DEF RestartTimer, At, DelayInv, WhenInv, exCtx, exList, exTime, shared, base, ctxVars, listVars, timeVars
  <2>2. CanceledInv' /\ FlushedInv'
    BY <1>s, <2>1 DEF DelayInv, CanceledInv, FlushedInv, Moves
  <2>3. WhenInv' BY <1>s, <2>1 DEF DelayInv, WhenInv, Promoted, Moves
  <2>4. NextInv' BY <1>s, <2>1 DEF DelayInv, NextInv, Promoted, Moves
  <2>5. ArmedInv' BY <1>s, <2>1 DEF DelayInv, ArmedInv, Promoted, Promoting, Moves
  <2> QED BY <2>2, <2>3, <2>4, <2>5 DEF DelayInv
<1>4. CASE PromoteReadyPendingCallbacks(t)
  <2>1. /\ pc[t] = "promote" /\ Moves(t, "flush", "none") /\ loc'[t].ret = "rearm"
        /\ loc'[t].due = loc[t].due /\ pending' \subseteq pending
        /\ pending' # {} => loc'[t].next # NoEntry
        /\ loc'[t].next.when <= Horizon
        /\ UNCHANGED <<status, timerDue, timer, touched>>
    <3>1. UNCHANGED <<status, timerDue, timer, touched>> /\ pc[t] = "promote"
      BY <1>4 DEF PromoteReadyPendingCallbacks, At, exCtx, exList, exTime, shared, base, ctxVars, listVars, timeVars
    <3>2. NoEntry \notin Entry /\ NoEntry.when = 0
      <4>1. DOMAIN NoEntry = {"id", "when"} BY DEF NoEntry
      <4>2. \A e \in Entry : DOMAIN e = {"id", "ctx", "when"} BY DEF Entry
      <4> QED BY <4>1, <4>2 DEF NoEntry
    <3>3. \A e \in pending : e.when <= Horizon BY DEF DelayInv, WhenInv
    <3>4. loc'[t].next.when <= Horizon BY <1>4, <3>2, <3>3, <1>s, PromoteNext
    <3>5. loc'[t].due = loc[t].due BY <1>4, PromoteEffect DEF Keeps, Fields
    <3> QED BY <1>4, <3>1, <3>2, <3>4, <3>5, <1>s, PromoteEffect, PromoteNext
  <2>2. CanceledInv' /\ FlushedInv'
    BY <1>s, <2>1 DEF DelayInv, CanceledInv, FlushedInv, Moves
  <2>3. WhenInv' BY <1>s, <2>1 DEF DelayInv, WhenInv, Promoted, Moves
  <2>4. NextInv' BY <1>s, <2>1 DEF DelayInv, NextInv, Promoted, Moves
  <2>5. ArmedInv' BY <1>s, <2>1 DEF DelayInv, ArmedInv, Promoted, Promoting, Moves
  <2> QED BY <2>2, <2>3, <2>4, <2>5 DEF DelayInv
<1>5. CASE RearmTimer(t)
  <2>1. /\ pc[t] = "rearm"
        /\ \/ loc[t].next = NoEntry /\ Moves(t, "clear", "none") /\ loc'[t] = loc[t]
           \/ loc[t].next # NoEntry /\ Moves(t, "cas", "none") /\ loc'[t] = loc[t]
           \/ touched # {} /\ Moves(t, "cancel", "none") /\ loc'[t].ret = "idle"
        /\ UNCHANGED <<status, pending, timerDue, timer, touched>>
    <3>1. UNCHANGED <<status, pending, timerDue, timer, touched>> /\ pc[t] = "rearm"
      BY <1>5 DEF RearmTimer, At, exCtx, exList, exTime, shared, base, ctxVars, listVars, timeVars
    <3>2. CASE loc[t].next = NoEntry
      BY <3>1, <3>2, <1>5, <1>s, GotoEffect DEF RearmTimer
    <3>3. CASE loc[t].next # NoEntry /\ status[loc[t].next.ctx] = "Active"
      BY <3>1, <3>3, <1>5, <1>s, GotoEffect DEF RearmTimer
    <3>4. CASE loc[t].next # NoEntry /\ status[loc[t].next.ctx] # "Active"
      <4>1. touched # {} BY <3>4, <1>s
      <4>2. ~Moves(t, "clear", "none") /\ ~Moves(t, "cas", "none")
        BY <1>5, <3>4, <1>s, GoEffect DEF RearmTimer, Moves
      <4> QED BY <3>1, <4>1, <4>2, <1>5, RearmTimerEffect
    <3> QED BY <3>2, <3>3, <3>4
  <2>2. CanceledInv' /\ FlushedInv'
    BY <1>s, <2>1 DEF DelayInv, CanceledInv, FlushedInv, Moves
  <2>3. WhenInv' BY <1>s, <2>1 DEF DelayInv, WhenInv, Promoted, Moves
  <2>4. NextInv' BY <1>s, <2>1 DEF DelayInv, NextInv, Promoted, Moves
  <2>5. ArmedInv' BY <1>s, <2>1 DEF DelayInv, ArmedInv, Promoted, Promoting, Moves
  <2> QED BY <2>2, <2>3, <2>4, <2>5 DEF DelayInv
<1>6. CASE ExchangeTimerDue(t)
  <2>1. /\ pc[t] = "cas" /\ loc[t].next.when <= Horizon
        /\ \/ /\ timerDue = loc[t].due /\ timerDue' = loc[t].next.when
              /\ Moves(t, "startnext", "none") /\ loc'[t] = loc[t]
           \/ /\ timerDue # loc[t].due /\ timerDue' = timerDue /\ timerDue <= loc[t].next.when
              /\ Moves(t, "idle", "none")
           \/ /\ timerDue' = timerDue /\ Moves(t, "cas", "none")
              /\ loc'[t].next = loc[t].next /\ loc'[t].due = timerDue
        /\ UNCHANGED <<status, pending, timer, touched>>
    <3>1. /\ UNCHANGED <<status, pending, timer, touched>> /\ pc[t] = "cas"
          /\ loc[t].next.when <= Horizon
      BY <1>6 DEF ExchangeTimerDue, At, DelayInv, WhenInv, Promoted, exCtx, exList, exTime, shared, base, ctxVars, listVars, timeVars
    <3>2. CASE timerDue = loc[t].due
      BY <3>1, <3>2, <1>6, <1>s, GotoEffect DEF ExchangeTimerDue
    <3>3. CASE timerDue # loc[t].due /\ timerDue <= loc[t].next.when
      BY <3>1, <3>3, <1>6, <1>s, GotoEffect DEF ExchangeTimerDue
    <3>4. CASE timerDue # loc[t].due /\ ~(timerDue <= loc[t].next.when)
      <4>1. timerDue' = timerDue /\ ~Moves(t, "startnext", "none") /\ ~Moves(t, "idle", "none")
        BY <1>6, <3>4, <1>s, GoEffect DEF ExchangeTimerDue, Moves
      <4> QED BY <3>1, <4>1, <1>6, ExchangeTimerDueEffect DEF Keeps, Fields
    <3> QED BY <3>2, <3>3, <3>4
  <2>2. CanceledInv' /\ FlushedInv'
    BY <1>s, <2>1 DEF DelayInv, CanceledInv, FlushedInv, Moves
  <2>3. WhenInv' BY <1>s, <2>1 DEF DelayInv, WhenInv, Promoted, Moves
  <2>4. NextInv' BY <1>s, <2>1 DEF DelayInv, NextInv, Promoted, Moves
  <2>5. ArmedInv' BY <1>s, <2>1 DEF DelayInv, ArmedInv, Promoted, Promoting, Moves
  <2> QED BY <2>2, <2>3, <2>4, <2>5 DEF DelayInv
<1>7. CASE StartTimerForNext(t)
  <2>1. /\ pc[t] = "startnext" /\ Moves(t, "idle", "none")
        /\ timer' = loc[t].next.when /\ loc[t].next.when <= Horizon
        /\ UNCHANGED <<status, pending, timerDue, touched>>
    BY <1>7, <1>s, GotoEffect DEF StartTimerForNext, At, DelayInv, WhenInv, exCtx, exList, exTime, shared, base, ctxVars, listVars, timeVars
  <2>2. CanceledInv' /\ FlushedInv'
    BY <1>s, <2>1 DEF DelayInv, CanceledInv, FlushedInv, Moves
  <2>3. WhenInv' BY <1>s, <2>1 DEF DelayInv, WhenInv, Promoted, Moves
  <2>4. NextInv' BY <1>s, <2>1 DEF DelayInv, NextInv, Promoted, Moves
  <2>5. ArmedInv' BY <1>s, <2>1 DEF DelayInv, ArmedInv, Promoted, Promoting, Moves
  <2> QED BY <2>2, <2>3, <2>4, <2>5 DEF DelayInv
<1>8. CASE ClearTimerDue(t)
  <2>1. /\ pc[t] = "clear"
        /\ \/ timerDue' = NoDue /\ Moves(t, "promote", "none")
           \/ timerDue' = timerDue /\ Moves(t, "idle", "none")
              /\ (timerDue = loc[t].due => timerDue = NoDue)
        /\ UNCHANGED <<status, pending, timer, touched>>
    <3>1. UNCHANGED <<status, pending, timer, touched>> /\ pc[t] = "clear"
      BY <1>8 DEF ClearTimerDue, At, exCtx, exList, exTime, shared, base, ctxVars, listVars, timeVars
    <3>2. CASE timerDue = loc[t].due /\ LookAgain(loc[t].due)
      <4>1. timerDue' = NoDue /\ ~Moves(t, "idle", "none")
        BY <1>8, <3>2, <1>s, GoEffect DEF ClearTimerDue, Moves
      <4> QED BY <3>1, <4>1, <1>8, ClearTimerDueEffect
    <3>3. CASE ~(timerDue = loc[t].due /\ LookAgain(loc[t].due))
      BY <3>1, <3>3, <1>8, <1>s, GotoEffect DEF ClearTimerDue, LookAgain
    <3> QED BY <3>2, <3>3
  <2>2. CanceledInv' /\ FlushedInv'
    BY <1>s, <2>1 DEF DelayInv, CanceledInv, FlushedInv, Moves
  <2>3. WhenInv' BY <1>s, <2>1 DEF DelayInv, WhenInv, Promoted, Moves
  <2>4. NextInv' BY <1>s, <2>1 DEF DelayInv, NextInv, Promoted, Moves
  <2>5. ArmedInv' BY <1>s, <2>1 DEF DelayInv, ArmedInv, Promoted, Promoting, Moves
  <2> QED BY <2>2, <2>3, <2>4, <2>5 DEF DelayInv
<1> QED BY <1>1, <1>2, <1>3, <1>4, <1>5, <1>6, <1>7, <1>8

LEMMA TickDelay == ASSUME DelayInv, Tick \/ UNCHANGED vars PROVE DelayInv'
<1>1. UNCHANGED <<status, pending, timerDue, timer, touched, pc, loc>>
  BY DEF Tick, vars, exTime, base, ctxVars, listVars, timeVars, histVars
<1> QED BY <1>1 DEF DelayInv, CanceledInv, FlushedInv, WhenInv, NextInv, ArmedInv, Promoted,
   Promoting

(* Whenever every thread is out of the API and the timer is not armed, no  *)
(* delayed callback of a canceled or terminated context is left, and none  *)
(* at all unless somebody once began to terminate a context of the port:   *)
(* the submitters, the terminating threads and the timer's callback, which *)
(* all set m_timerDue and the timer in steps of their own, never leave both*)
(* unset between them.                                                     *)
THEOREM DelaysGoOn == Spec => []NoStrandedDelay
<1> DEFINE All == TypeInv /\ SuspInv /\ EarlyInv
<1>1. ASSUME All, DelayInv, [Next]_vars PROVE DelayInv'
  <2>1. CASE Tick \/ UNCHANGED vars BY <1>1, <2>1, TickDelay
  <2>2. ASSUME NEW t \in Threads,
               \/ Calls(t) \/ Continue(t)
               \/ QueueItemFails(t) \/ CancelTermination(t) \/ WaitTimesOut(t)
               \/ \E c \in Contexts : Dispatch(t, c) \/ ResumeTermination(t, c)
        PROVE  DelayInv'
    <3>1. TypeInv /\ RetInv /\ TouchedInv BY <1>1 DEF SuspInv, EarlyInv
    <3> QED BY <1>1, <2>2, <3>1, AsideSteps, DelaySteps, DelayStatusSteps, TimerSteps
            DEF Calls, Continue, Nested
  <2> QED BY <1>1, <2>1, <2>2 DEF Next
<1>2. ASSUME TypeInv, DelayInv PROVE NoStrandedDelay
  <2> SUFFICES ASSUME Quiet, timer = Unarmed, NEW e \in pending
               PROVE  status[e.ctx] = "Active" /\ touched # {}
    BY DEF NoStrandedDelay
  <2>1. \A u \in Threads : pc[u] = "idle" BY DEF Quiet, At
  <2>2. e.ctx \in Contexts /\ status[e.ctx] \in Statuses
    BY <1>2 DEF TypeInv, SharedTypeOK, Entry
  <2>3. status[e.ctx] # "Canceled" BY <1>2, <2>1, <2>2 DEF DelayInv, CanceledInv
  <2>4. status[e.ctx] \notin Terminal BY <1>2, <2>1, <2>2 DEF DelayInv, FlushedInv
  <2>5. touched = {} => timerDue # NoDue BY <1>2, <2>1 DEF DelayInv, NextInv, Promoted
  <2>6. touched = {} => timerDue = NoDue
    BY <1>2, <2>1 DEF DelayInv, ArmedInv, Promoted, Promoting
  <2> QED BY <2>2, <2>3, <2>4, <2>5, <2>6 DEF Statuses, Terminal
<1> QED BY <1>1, <1>2, InitDelay, TypeInvariant, SuspInvariant, EarlyInvariant, PTL DEF Spec
=============================================================================
