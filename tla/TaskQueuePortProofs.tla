------------------------ MODULE TaskQueuePortProofs ------------------------
(* Proofs about TaskQueuePort, for any contexts, threads, mode and bounds. *)
EXTENDS TaskQueuePort, FiniteSetTheorems, TLAPS

\* TypeOK is not inductive alone: the entry a submitter pushes must be a real one.
CarriesEntry ==
    \A t \in Threads : pc[t] \in {"append", "delay"} => loc[t].entry \in Entry

TypeInv == SharedTypeOK /\ ThreadTypeOK /\ CarriesEntry

LEMMA FreshType == Fresh \in Locals
BY ContextsAssumption, BoundsAssumption DEF Fresh, Locals, Returns, NoEntry, NoDue, Entry, Term

LEMMA InitType == Init => TypeInv
<1> SUFFICES ASSUME Init PROVE TypeInv OBVIOUS
<1>1. /\ status \in [Contexts -> Statuses] /\ suspends \in [Contexts -> Nat]
      /\ calls \in [1 .. MaxItems -> Nat]
      /\ timerDue \in Nat /\ timer \in Nat /\ now \in Nat
  BY BoundsAssumption DEF Init, Statuses, NoDue, Unarmed
<1>2. queue \in Seq(Entry) /\ processing \in Int /\ serial \in Int /\ poolWork \in Nat
      /\ nextId \in Nat \ {0} /\ nextTerm \in Nat \ {0}
  BY DEF Init
<1>3. event \in BOOLEAN BY DEF Init
<1>4. /\ pending \subseteq Entry /\ termList \subseteq Term /\ pendTerms \subseteq Term
      /\ holders \subseteq Threads \X Contexts /\ failed \subseteq Nat
      /\ touched \subseteq Contexts /\ raced \subseteq Nat
      /\ overlap \subseteq Contexts /\ termDone \subseteq Nat
  BY DEF Init
<1>5. SharedTypeOK BY <1>1, <1>2, <1>3, <1>4 DEF SharedTypeOK
<1>6. ThreadTypeOK BY FreshType DEF Init, ThreadTypeOK, PCs, Inners
<1>7. CarriesEntry BY DEF Init, CarriesEntry
<1> QED BY <1>5, <1>6, <1>7 DEF TypeInv

\* The control part of a step keeps its type when label and locals have theirs.
LEMMA GoType ==
    ASSUME NEW t \in Threads, NEW l \in PCs, NEW n \in Inners, NEW r \in Locals,
           ThreadTypeOK, CarriesEntry, Go(t, l, n, r),
           l \in {"append", "delay"} => r.entry \in Entry
    PROVE  ThreadTypeOK' /\ CarriesEntry'
BY DEF ThreadTypeOK, CarriesEntry, Go

LEMMA GotoType ==
    ASSUME NEW t \in Threads, NEW l \in PCs, ThreadTypeOK, CarriesEntry, Goto(t, l),
           l \notin {"append", "delay"}
    PROVE  ThreadTypeOK' /\ CarriesEntry'
<1> DEFINE r == IF l = "idle" THEN Fresh ELSE loc[t]
<1>1. r \in Locals BY FreshType DEF ThreadTypeOK
<1>2. Go(t, l, "none", r) BY DEF Goto
<1>3. "none" \in Inners BY DEF Inners
<1> HIDE DEF r
<1> QED BY <1>1, <1>2, <1>3, GoType

\* Steps whose control part is a Goto.
LEMMA GotoStepType ==
    ASSUME NEW t \in Threads, TypeInv,
           \/ QueueItemFails(t) \/ DelayEntry(t) \/ LowerTimerDue(t) \/ StartTimer(t)
           \/ CancelTermination(t) \/ ParkTermination(t) \/ SuspendVerify(t)
           \/ RemoveSuspend(t) \/ PoolLeave(t) \/ Dispatched(t) \/ Wake(t)
           \/ WaitTimesOut(t) \/ TimerFires(t) \/ RestartTimer(t) \/ RecheckTimerDue(t)
           \/ StartTimerForNext(t)
    PROVE  ThreadTypeOK' /\ CarriesEntry'
<1>1. PICK l \in {"idle", "arm", "start", "queued", "resume", "collect", "wait", "load",
                "recheck"} : Goto(t, l)
  BY DEF QueueItemFails, DelayEntry, LowerTimerDue, StartTimer, CancelTermination, ParkTermination, SuspendVerify, RemoveSuspend, PoolLeave, Dispatched, Wake, WaitTimesOut, TimerFires, RestartTimer, RecheckTimerDue, StartTimerForNext
<1>2. l \in PCs /\ l \notin {"append", "delay"} BY DEF PCs
<1> QED BY <1>1, <1>2, GotoType DEF TypeInv

\* ... and what they do to the shared state.
LEMMA GotoStepShared ==
    ASSUME NEW t \in Threads, TypeInv,
           \/ QueueItemFails(t) \/ DelayEntry(t) \/ LowerTimerDue(t) \/ StartTimer(t)
           \/ CancelTermination(t) \/ ParkTermination(t) \/ SuspendVerify(t)
           \/ RemoveSuspend(t) \/ PoolLeave(t) \/ Dispatched(t) \/ Wake(t)
           \/ WaitTimesOut(t) \/ TimerFires(t) \/ RestartTimer(t) \/ RecheckTimerDue(t)
           \/ StartTimerForNext(t)
    PROVE  SharedTypeOK'
<1> USE DEF SharedTypeOK, exCtx, exList, exTerm, exDrain, exWake, exTime, shared, base,
            ctxVars, listVars, termVars, drainVars, wakeVars, timeVars
<1>t. /\ loc[t].ctx \in Contexts /\ loc[t].term \in Nat /\ loc[t].due \in Nat
      /\ loc[t].entry.when \in Nat /\ loc[t].entry.id \in Nat /\ loc[t].next.when \in Nat
      /\ MyTerm(t) \in Term
  BY DEF TypeInv, ThreadTypeOK, Locals, Entry, NoEntry, MyTerm, Term
<1>s. SharedTypeOK BY DEF TypeInv
<1>1. CASE QueueItemFails(t)
  BY <1>1, <1>s, <1>t DEF QueueItemFails
<1>2. CASE DelayEntry(t)
  BY <1>2, <1>s, <1>t DEF DelayEntry, TypeInv, CarriesEntry, At
<1>3. CASE LowerTimerDue(t)
  BY <1>3, <1>s, <1>t DEF LowerTimerDue
<1>4. CASE StartTimer(t)
  BY <1>4, <1>s, <1>t DEF StartTimer
<1>5. CASE CancelTermination(t)
  BY <1>5, <1>s, <1>t DEF CancelTermination, RolledBack, Statuses
<1>6. CASE ParkTermination(t)
  BY <1>6, <1>s, <1>t DEF ParkTermination
<1>7. CASE SuspendVerify(t)
  BY <1>7, <1>s, <1>t DEF SuspendVerify
<1>8. CASE RemoveSuspend(t)
  BY <1>8, <1>s, <1>t DEF RemoveSuspend, OneLess
<1>9. CASE PoolLeave(t)
  BY <1>9, <1>s, <1>t DEF PoolLeave
<1>10. CASE Dispatched(t)
  BY <1>10, <1>s, <1>t DEF Dispatched
<1>11. CASE Wake(t)
  BY <1>11, <1>s, <1>t DEF Wake
<1>12. CASE WaitTimesOut(t)
  BY <1>12, <1>s, <1>t DEF WaitTimesOut
<1>13. CASE TimerFires(t)
  BY <1>13, <1>s, <1>t, BoundsAssumption DEF TimerFires, Unarmed
<1>14. CASE RestartTimer(t)
  BY <1>14, <1>s, <1>t DEF RestartTimer
<1>15. CASE RecheckTimerDue(t)
  BY <1>15, <1>s, <1>t DEF RecheckTimerDue
<1>16. CASE StartTimerForNext(t)
  BY <1>16, <1>s, <1>t DEF StartTimerForNext
<1> QED BY <1>1, <1>2, <1>3, <1>4, <1>5, <1>6, <1>7, <1>8, <1>9, <1>10, <1>11, <1>12, <1>13, <1>14, <1>15, <1>16

\* Steps whose control part is an Enter: pc and locals stay.
LEMMA EnterStepType ==
    ASSUME NEW t \in Threads, TypeInv,
           \/ NotifyItemQueued(t) \/ DrainOneItem(t) \/ InvokeCallback(t)
           \/ CheckQueueEmpty(t) \/ CheckNotProcessing(t) \/ SignalDone(t)
    PROVE  ThreadTypeOK' /\ CarriesEntry'
<1>1. PICK n \in {"none", "drain", "pop", "leave", "check2", "signal"} : Enter(t, n)
  BY DEF NotifyItemQueued, AfterNotify, DrainOneItem, InvokeCallback, CheckQueueEmpty,
         CheckNotProcessing, SignalDone
<1>2. n \in Inners BY DEF Inners
<1>3. pc[t] \in PCs /\ loc[t] \in Locals BY DEF TypeInv, ThreadTypeOK
<1>4. pc[t] \in {"append", "delay"} => loc[t].entry \in Entry BY DEF TypeInv, CarriesEntry
<1>5. Go(t, pc[t], n, loc[t]) BY <1>1 DEF Enter
<1> QED BY <1>2, <1>3, <1>4, <1>5, GoType DEF TypeInv

\* The locals an inner step records keep the locals' type.
LEMMA LocalsUpdate ==
    ASSUME NEW t \in Threads, ThreadTypeOK
    PROVE  /\ \A e \in Entry \cup {NoEntry}, b \in BOOLEAN :
                 [loc[t] EXCEPT !.item = e, !.popped = b] \in Locals
           /\ \A e \in Entry \cup {NoEntry} : [loc[t] EXCEPT !.item = e] \in Locals
           /\ \A b \in BOOLEAN : [loc[t] EXCEPT !.popped = b] \in Locals
           /\ \A s \in SUBSET Term : [loc[t] EXCEPT !.signal = s] \in Locals
           /\ \A s \in SUBSET Term : [loc[t] EXCEPT !.sched = s] \in Locals
           /\ \A s \in SUBSET Term, r \in Returns :
                 [loc[t] EXCEPT !.sched = s, !.ret = r] \in Locals
           /\ \A s \in SUBSET Entry : [loc[t] EXCEPT !.batch = s] \in Locals
           /\ \A r \in Returns : [loc[t] EXCEPT !.ret = r] \in Locals
           /\ \A c \in Contexts, r \in Returns : [loc[t] EXCEPT !.ctx = c, !.ret = r] \in Locals
           /\ \A s \in SUBSET Entry, e \in Entry \cup {NoEntry}, r \in Returns :
                 [loc[t] EXCEPT !.batch = s, !.next = e, !.ret = r] \in Locals
           /\ \A d \in Nat, a \in Nat : [loc[t] EXCEPT !.due = d, !.at = a] \in Locals
           /\ \A d \in Nat : [loc[t] EXCEPT !.due = d] \in Locals
<1>1. loc[t] \in Locals BY DEF ThreadTypeOK
<1> QED BY <1>1 DEF Locals

LEMMA FreshUpdate ==
    /\ \A c \in Contexts : [Fresh EXCEPT !.ctx = c] \in Locals
    /\ \A c \in Contexts, e \in Entry : [Fresh EXCEPT !.ctx = c, !.entry = e] \in Locals
    /\ \A c \in Contexts, n \in Nat : [Fresh EXCEPT !.ctx = c, !.term = n] \in Locals
BY FreshType DEF Locals

\* The calls a thread starts.
LEMMA CallStepType ==
    ASSUME NEW t \in Threads, TypeInv,
           \/ \E c \in Contexts, w \in Delays : QueueItem(t, c, w)
           \/ \E c \in Contexts : \/ PrepareTerminate(t, c) \/ SuspendTermination(t, c)
                                  \/ ResumeTermination(t, c) \/ Dispatch(t, c)
    PROVE  ThreadTypeOK' /\ CarriesEntry'
<1>s. SharedTypeOK /\ ThreadTypeOK /\ CarriesEntry BY DEF TypeInv
<1>1. ASSUME NEW c \in Contexts, NEW w \in Delays, QueueItem(t, c, w)
      PROVE  ThreadTypeOK' /\ CarriesEntry'
  <2> DEFINE e == [id |-> nextId, ctx |-> c, when |-> IF w = 0 THEN 0 ELSE now + w]
             l == IF w = 0 THEN "append" ELSE "delay"
             r == [Fresh EXCEPT !.ctx = c, !.entry = e]
  <2>1. e \in Entry BY <1>s, BoundsAssumption DEF SharedTypeOK, Entry
  <2>2. r \in Locals BY <2>1, FreshUpdate
  <2>3. r.entry = e BY FreshType DEF Locals
  <2>4. l \in PCs /\ "none" \in Inners BY DEF PCs, Inners
  <2>5. Go(t, l, "none", r) BY <1>1 DEF QueueItem
  <2> HIDE DEF e, l, r
  <2> QED BY <2>1, <2>2, <2>3, <2>4, <2>5, <1>s, GoType
<1>2. ASSUME NEW c \in Contexts,
             \/ SuspendTermination(t, c) \/ ResumeTermination(t, c) \/ Dispatch(t, c)
      PROVE  ThreadTypeOK' /\ CarriesEntry'
  <2> DEFINE r == [Fresh EXCEPT !.ctx = c]
  <2>1. r \in Locals BY FreshUpdate
  <2>2. PICK l \in {"verify", "resume", "dispatch"}, n \in {"none", "drain"} : Go(t, l, n, r)
    BY <1>2 DEF SuspendTermination, ResumeTermination, Dispatch
  <2>3. l \in PCs /\ n \in Inners /\ l \notin {"append", "delay"} BY DEF PCs, Inners
  <2> HIDE DEF r
  <2> QED BY <2>1, <2>2, <2>3, <1>s, GoType
<1>3. ASSUME NEW c \in Contexts, PrepareTerminate(t, c)
      PROVE  ThreadTypeOK' /\ CarriesEntry'
  <2> DEFINE r == [Fresh EXCEPT !.ctx = c, !.term = nextTerm]
  <2>1. r \in Locals BY FreshUpdate, <1>s DEF SharedTypeOK
  <2>2. Go(t, "prepared", "none", r) BY <1>3 DEF PrepareTerminate
  <2>3. "prepared" \in PCs /\ "none" \in Inners BY DEF PCs, Inners
  <2> HIDE DEF r
  <2> QED BY <2>1, <2>2, <2>3, <1>s, GoType
<1> QED BY <1>1, <1>2, <1>3

\* Steps that return from a nested routine.
LEMMA ReturnStepType ==
    ASSUME NEW t \in Threads, TypeInv, FlushDone(t) \/ ScheduleDone(t)
    PROVE  ThreadTypeOK' /\ CarriesEntry'
<1>1. Goto(t, loc[t].ret) BY DEF FlushDone, ScheduleDone
<1>2. loc[t].ret \in Returns BY DEF TypeInv, ThreadTypeOK, Locals
<1>3. loc[t].ret \in PCs /\ loc[t].ret \notin {"append", "delay"} BY <1>2 DEF Returns, PCs
<1> QED BY <1>1, <1>3, GotoType DEF TypeInv

\* Steps of the outer call that set locals or enter a nested call.
LEMMA OuterStepType ==
    ASSUME NEW t \in Threads, TypeInv,
           \/ AppendEntry(t) \/ QueueItemReturns(t) \/ CancelPendingEntries(t)
           \/ (\E e \in loc[t].batch : FlushEntry(t, e))
           \/ Terminate(t) \/ TerminateAddSuspend(t) \/ CollectTerminations(t)
           \/ (\E x \in loc[t].sched : ScheduleTermination(t, x))
           \/ PoolCallback(t) \/ PoolDrained(t) \/ Wait(t)
    PROVE  ThreadTypeOK' /\ CarriesEntry'
<1>s. SharedTypeOK /\ ThreadTypeOK /\ CarriesEntry /\ loc[t] \in Locals
  BY DEF TypeInv, ThreadTypeOK
<1>t. loc[t].batch \subseteq Entry /\ loc[t].sched \subseteq Term /\ MyTerm(t) \in Term
  BY <1>s DEF Locals, MyTerm, Term
<1>c. ASSUME NEW l \in {"queued", "cancel", "flush", "schedule", "pool", "dispatch"},
             NEW n \in {"none", "notify", "drain"}, NEW r \in Locals, Go(t, l, n, r)
      PROVE  ThreadTypeOK' /\ CarriesEntry'
  <2>1. l \in PCs /\ n \in Inners /\ l \notin {"append", "delay"} BY DEF PCs, Inners
  <2> QED BY <2>1, <1>c, <1>s, GoType
<1>g. ASSUME NEW l \in {"idle", "park", "unserial", "blocked"}, Goto(t, l)
      PROVE  ThreadTypeOK' /\ CarriesEntry'
  <2>1. l \in PCs /\ l \notin {"append", "delay"} BY DEF PCs
  <2> QED BY <2>1, <1>g, <1>s, GotoType
<1>1. CASE AppendEntry(t) BY <1>1, <1>c, <1>s DEF AppendEntry
<1>2. CASE QueueItemReturns(t)
  <2> DEFINE r == [loc[t] EXCEPT !.ret = "idle"]
  <2>1. r \in Locals BY <1>s, LocalsUpdate DEF Returns
  <2>2. Go(t, "cancel", "none", r) \/ Goto(t, "idle") BY <1>2 DEF QueueItemReturns
  <2> HIDE DEF r
  <2> QED BY <2>1, <2>2, <1>c, <1>g
<1>3. CASE CancelPendingEntries(t)
  <2> DEFINE r == [loc[t] EXCEPT !.batch = {e \in pending : e.ctx = loc[t].ctx}]
  <2>1. r \in Locals
    <3>1. {e \in pending : e.ctx = loc[t].ctx} \in SUBSET Entry BY <1>s DEF SharedTypeOK
    <3> QED BY <3>1, <1>s, LocalsUpdate
  <2>2. Go(t, "flush", "none", r) BY <1>3 DEF CancelPendingEntries
  <2> HIDE DEF r
  <2> QED BY <2>1, <2>2, <1>c
<1>4. ASSUME NEW e \in loc[t].batch, FlushEntry(t, e) PROVE ThreadTypeOK' /\ CarriesEntry'
  <2> DEFINE r == [loc[t] EXCEPT !.batch = loc[t].batch \ {e}]
  <2>1. r \in Locals
    <3>1. loc[t].batch \ {e} \in SUBSET Entry BY <1>t
    <3> QED BY <3>1, <1>s, LocalsUpdate
  <2>2. Go(t, "flush", "notify", r) BY <1>4 DEF FlushEntry
  <2> HIDE DEF r
  <2> QED BY <2>1, <2>2, <1>c
<1>5. CASE Terminate(t)
  <2> DEFINE r == [loc[t] EXCEPT !.ret = "suspend"]
  <2>1. r \in Locals BY <1>s, LocalsUpdate DEF Returns
  <2>2. Go(t, "cancel", "none", r) BY <1>5 DEF Terminate
  <2> HIDE DEF r
  <2> QED BY <2>1, <2>2, <1>c
<1>6. CASE TerminateAddSuspend(t)
  <2> DEFINE r == [loc[t] EXCEPT !.sched = {MyTerm(t)}, !.ret = "resume"]
  <2>1. r \in Locals
    <3>1. {MyTerm(t)} \in SUBSET Term BY <1>t
    <3> QED BY <3>1, <1>s, LocalsUpdate DEF Returns
  <2>2. Go(t, "schedule", "none", r) \/ Goto(t, "park") BY <1>6 DEF TerminateAddSuspend
  <2> HIDE DEF r
  <2> QED BY <2>1, <2>2, <1>c, <1>g
<1>7. CASE CollectTerminations(t)
  <2> DEFINE m == {x \in pendTerms : x.ctx = loc[t].ctx}
             r == [loc[t] EXCEPT !.sched = m, !.ret = "idle"]
  <2>1. r \in Locals
    <3>1. m \in SUBSET Term BY <1>s DEF SharedTypeOK
    <3> QED BY <3>1, <1>s, LocalsUpdate DEF Returns
  <2>2. Go(t, "schedule", "none", r) BY <1>7 DEF CollectTerminations
  <2> HIDE DEF r
  <2> QED BY <2>1, <2>2, <1>c
<1>8. ASSUME NEW x \in loc[t].sched, ScheduleTermination(t, x)
      PROVE ThreadTypeOK' /\ CarriesEntry'
  <2> DEFINE r == [loc[t] EXCEPT !.sched = loc[t].sched \ {x}]
  <2>1. r \in Locals
    <3>1. loc[t].sched \ {x} \in SUBSET Term BY <1>t
    <3> QED BY <3>1, <1>s, LocalsUpdate
  <2>2. Go(t, "schedule", "notify", r) BY <1>8 DEF ScheduleTermination
  <2> HIDE DEF r
  <2> QED BY <2>1, <2>2, <1>c
<1>9. CASE PoolCallback(t) BY <1>9, <1>c, <1>g, FreshType DEF PoolCallback
<1>10. CASE PoolDrained(t)
  BY <1>10, <1>c, <1>g, <1>s DEF PoolDrained, Enter, At
<1>11. CASE Wait(t) BY <1>11, <1>c, <1>g, <1>s DEF Wait
<1> QED BY <1>1, <1>2, <1>3, <1>4, <1>5, <1>6, <1>7, <1>8, <1>9, <1>10, <1>11

\* Steps inside DrainOneItem that set locals.
LEMMA InnerStepType ==
    ASSUME NEW t \in Threads, TypeInv,
           \/ PopFront(t) \/ LeaveCallback(t) \/ SignalTerminations(t)
           \/ (\E x \in loc[t].signal : TerminationCallback(t, x))
    PROVE  ThreadTypeOK' /\ CarriesEntry'
<1>s. SharedTypeOK /\ ThreadTypeOK /\ CarriesEntry /\ loc[t] \in Locals /\ pc[t] \in PCs
  BY DEF TypeInv, ThreadTypeOK
<1>c. ASSUME NEW n \in {"invoke", "leave", "check", "terms"}, NEW r \in Locals,
             r.entry = loc[t].entry, Go(t, pc[t], n, r)
      PROVE  ThreadTypeOK' /\ CarriesEntry'
  <2>1. n \in Inners BY DEF Inners
  <2>2. pc[t] \in {"append", "delay"} => r.entry \in Entry BY <1>c, <1>s DEF CarriesEntry
  <2> QED BY <2>1, <2>2, <1>c, <1>s, GoType
<1>1. CASE PopFront(t)
  <2>1. CASE queue # <<>>
    <3> DEFINE r == [loc[t] EXCEPT !.item = Head(queue), !.popped = TRUE]
    <3>1. Head(queue) \in Entry BY <2>1, <1>s DEF SharedTypeOK
    <3>2. r \in Locals BY <3>1, <1>s, LocalsUpdate
    <3>3. r.entry = loc[t].entry BY <1>s DEF Locals
    <3>4. Go(t, pc[t], "invoke", r) BY <1>1, <2>1 DEF PopFront
    <3> HIDE DEF r
    <3> QED BY <3>2, <3>3, <3>4, <1>c
  <2>2. CASE queue = <<>>
    <3> DEFINE r == [loc[t] EXCEPT !.popped = FALSE]
    <3>2. r \in Locals BY <1>s, LocalsUpdate
    <3>3. r.entry = loc[t].entry BY <1>s DEF Locals
    <3>4. Go(t, pc[t], "leave", r) BY <1>1, <2>2 DEF PopFront
    <3> HIDE DEF r
    <3> QED BY <3>2, <3>3, <3>4, <1>c
  <2> QED BY <2>1, <2>2
<1>2. CASE LeaveCallback(t)
  <2> DEFINE r == [loc[t] EXCEPT !.item = NoEntry]
  <2>2. r \in Locals BY <1>s, LocalsUpdate
  <2>3. r.entry = loc[t].entry BY <1>s DEF Locals
  <2>4. Go(t, pc[t], "check", r) BY <1>2 DEF LeaveCallback
  <2> HIDE DEF r
  <2> QED BY <2>2, <2>3, <2>4, <1>c
<1>3. CASE SignalTerminations(t)
  <2> DEFINE hit == {x \in termList : status[x.ctx] \in Terminal}
             r == [loc[t] EXCEPT !.signal = hit]
  <2>1. hit \in SUBSET Term BY <1>s DEF SharedTypeOK
  <2>2. r \in Locals BY <2>1, <1>s, LocalsUpdate
  <2>3. r.entry = loc[t].entry BY <1>s DEF Locals
  <2>4. Go(t, pc[t], "terms", r) BY <1>3 DEF SignalTerminations
  <2> HIDE DEF r
  <2> QED BY <2>2, <2>3, <2>4, <1>c
<1>4. ASSUME NEW x \in loc[t].signal, TerminationCallback(t, x)
      PROVE  ThreadTypeOK' /\ CarriesEntry'
  <2> DEFINE r == [loc[t] EXCEPT !.signal = loc[t].signal \ {x}]
  <2>1. loc[t].signal \ {x} \in SUBSET Term BY <1>s DEF Locals
  <2>2. r \in Locals BY <2>1, <1>s, LocalsUpdate
  <2>3. r.entry = loc[t].entry BY <1>s DEF Locals
  <2>4. Go(t, pc[t], "terms", r) BY <1>4 DEF TerminationCallback
  <2> HIDE DEF r
  <2> QED BY <2>2, <2>3, <2>4, <1>c
<1> QED BY <1>1, <1>2, <1>3, <1>4

\* Steps of the timer callback that set locals.
LEMMA TimerStepType ==
    ASSUME NEW t \in Threads, TypeInv,
           \/ SubmitPendingCallbacks(t) \/ PromoteReadyPendingCallbacks(t) \/ RearmTimer(t)
           \/ ExchangeTimerDue(t) \/ ClearTimerDue(t)
    PROVE  ThreadTypeOK' /\ CarriesEntry'
<1>s. SharedTypeOK /\ ThreadTypeOK /\ CarriesEntry /\ loc[t] \in Locals
  BY DEF TypeInv, ThreadTypeOK
<1>c. ASSUME NEW l \in {"restart", "promote", "flush", "cancel", "cas"},
             NEW r \in Locals, Go(t, l, "none", r)
      PROVE  ThreadTypeOK' /\ CarriesEntry'
  <2>1. l \in PCs /\ "none" \in Inners /\ l \notin {"append", "delay"} BY DEF PCs, Inners
  <2> QED BY <2>1, <1>c, <1>s, GoType
<1>g. ASSUME NEW l \in {"idle", "clear", "cas", "startnext"}, Goto(t, l)
      PROVE  ThreadTypeOK' /\ CarriesEntry'
  <2>1. l \in PCs /\ l \notin {"append", "delay"} BY DEF PCs
  <2> QED BY <2>1, <1>g, <1>s, GotoType
<1>n. timerDue \in Nat /\ now \in Nat /\ NoDue \in Nat
  BY <1>s, BoundsAssumption DEF SharedTypeOK, NoDue
<1>1. CASE SubmitPendingCallbacks(t)
  <2> DEFINE r == [loc[t] EXCEPT !.due = timerDue, !.at = now]
  <2>1. r \in Locals BY <1>n, <1>s, LocalsUpdate
  <2>2. Goto(t, "idle") \/ Go(t, "restart", "none", r) \/ Go(t, "promote", "none", r)
    BY <1>1 DEF SubmitPendingCallbacks
  <2> HIDE DEF r
  <2> QED BY <2>1, <2>2, <1>c, <1>g
<1>2. CASE PromoteReadyPendingCallbacks(t)
  <2> DEFINE ready == {e \in pending : Ready(e, loc[t].at)}
             r(n) == [loc[t] EXCEPT !.batch = ready, !.next = n, !.ret = "rearm"]
  <2>1. PICK n \in (pending \ ready) \cup {NoEntry} : Go(t, "flush", "none", r(n))
    BY <1>2 DEF PromoteReadyPendingCallbacks
  <2>2. n \in Entry \cup {NoEntry} /\ ready \in SUBSET Entry BY <2>1, <1>s DEF SharedTypeOK
  <2>3. r(n) \in Locals BY <2>2, <1>s, LocalsUpdate DEF Returns
  <2> HIDE DEF r
  <2> QED BY <2>1, <2>3, <1>c
<1>3. CASE RearmTimer(t)
  <2> DEFINE n == loc[t].next
             r == [loc[t] EXCEPT !.ctx = n.ctx, !.ret = "idle"]
  <2>1. Goto(t, "clear") \/ Goto(t, "cas") \/ (n # NoEntry /\ Go(t, "cancel", "none", r))
    BY <1>3 DEF RearmTimer
  <2>2. n # NoEntry => r \in Locals
    <3>1. n # NoEntry => n.ctx \in Contexts BY <1>s DEF Locals, Entry
    <3> QED BY <3>1, <1>s, LocalsUpdate DEF Returns
  <2> HIDE DEF r
  <2> QED BY <2>1, <2>2, <1>c, <1>g
<1>4. CASE ExchangeTimerDue(t)
  <2> DEFINE r == [loc[t] EXCEPT !.due = timerDue]
  <2>1. r \in Locals BY <1>n, <1>s, LocalsUpdate
  <2>2. Goto(t, "startnext") \/ Goto(t, "idle") \/ Go(t, "cas", "none", r)
    BY <1>4 DEF ExchangeTimerDue
  <2> HIDE DEF r
  <2> QED BY <2>1, <2>2, <1>c, <1>g
<1>5. CASE ClearTimerDue(t)
  <2> DEFINE r == [loc[t] EXCEPT !.due = NoDue, !.at = now]
  <2>1. r \in Locals BY <1>n, <1>s, LocalsUpdate
  <2>2. Goto(t, "idle") \/ Go(t, "promote", "none", r) BY <1>5 DEF ClearTimerDue
  <2> HIDE DEF r
  <2> QED BY <2>1, <2>2, <1>c, <1>g
<1> QED BY <1>1, <1>2, <1>3, <1>4, <1>5

LEMMA CountUp ==
    ASSUME NEW D, NEW f \in [D -> Nat], NEW i
    PROVE  [f EXCEPT ![i] = f[i] + 1] \in [D -> Nat]
<1>1. CASE i \in D BY <1>1
<1>2. CASE i \notin D BY <1>2
<1> QED BY <1>1, <1>2

\* The shared state, under the steps GotoStepShared does not cover.
LEMMA ListStepShared ==
    ASSUME NEW t \in Threads, TypeInv,
           \/ (\E c \in Contexts, w \in Delays : QueueItem(t, c, w))
           \/ AppendEntry(t) \/ CancelPendingEntries(t)
           \/ (\E e \in loc[t].batch : FlushEntry(t, e))
           \/ PopFront(t) \/ InvokeCallback(t) \/ PromoteReadyPendingCallbacks(t)
    PROVE  SharedTypeOK'
<1> USE DEF SharedTypeOK, exCtx, exList, base, ctxVars, listVars, termVars, drainVars,
            wakeVars, timeVars
<1>s. SharedTypeOK /\ loc[t] \in Locals BY DEF TypeInv, ThreadTypeOK
<1>p. ASSUME NEW e \in Entry, PushQueue(e)
      PROVE  queue' \in Seq(Entry) /\ raced' \subseteq Nat
  <2>1. e.id \in Nat BY DEF Entry
  <2>2. raced' = raced \/ raced' = raced \cup {e.id} BY <1>p DEF PushQueue
  <2>3. queue' = Append(queue, e) BY <1>p DEF PushQueue
  <2>4. queue' \in Seq(Entry) BY <2>3, <1>s
  <2> QED BY <2>1, <2>2, <2>4, <1>s
<1>1. ASSUME NEW c \in Contexts, NEW w \in Delays, QueueItem(t, c, w) PROVE SharedTypeOK'
  <2>1. nextId' = nextId + 1 BY <1>1 DEF QueueItem
  <2>2. nextId' \in Nat \ {0} BY <2>1, <1>s
  <2> QED BY <1>1, <2>2, <1>s DEF QueueItem
<1>2. CASE AppendEntry(t)
  <2>1. loc[t].entry \in Entry BY <1>2 DEF AppendEntry, At, TypeInv, CarriesEntry
  <2>2. queue' \in Seq(Entry) /\ raced' \subseteq Nat BY <1>2, <2>1, <1>p DEF AppendEntry
  <2> QED BY <1>2, <2>2, <1>s DEF AppendEntry
<1>3. CASE CancelPendingEntries(t) BY <1>3, <1>s DEF CancelPendingEntries, RemoveIf
<1>4. ASSUME NEW e \in loc[t].batch, FlushEntry(t, e) PROVE SharedTypeOK'
  <2>1. e \in Entry BY <1>s DEF Locals
  <2>2. queue' \in Seq(Entry) /\ raced' \subseteq Nat BY <1>4, <2>1, <1>p DEF FlushEntry
  <2> QED BY <1>4, <2>2, <1>s DEF FlushEntry
<1>5. CASE PopFront(t)
  <2>a. queue' = queue \/ (queue # <<>> /\ queue' = Tail(queue)) BY <1>5 DEF PopFront
  <2>b. queue \in Seq(Entry) BY <1>s
  <2>1. queue' \in Seq(Entry) BY <2>a, <2>b
  <2>2. UNCHANGED <<pending, raced, exList>> BY <1>5 DEF PopFront
  <2> QED BY <2>1, <2>2, <1>s
<1>6. CASE InvokeCallback(t)
  <2>a. calls \in [1 .. MaxItems -> Nat] BY <1>s
  <2>b. PICK i : calls' = [calls EXCEPT ![i] = calls[i] + 1]
    BY <1>6, Zenon DEF InvokeCallback
  <2>1. calls' \in [1 .. MaxItems -> Nat] BY <2>a, <2>b, CountUp
  <2>2. UNCHANGED <<ctxVars, exCtx, nextId, nextTerm, holders, failed, touched, overlap,
                    termDone>>
    BY <1>6 DEF InvokeCallback
  <2> QED BY <2>1, <2>2, <1>s
<1>7. CASE PromoteReadyPendingCallbacks(t)
  BY <1>7, <1>s DEF PromoteReadyPendingCallbacks, RemoveIf
<1> QED BY <1>1, <1>2, <1>3, <1>4, <1>5, <1>6, <1>7

LEMMA ControlStepShared ==
    ASSUME NEW t \in Threads, TypeInv,
           \/ (\E c \in Contexts : \/ PrepareTerminate(t, c) \/ SuspendTermination(t, c)
                                   \/ ResumeTermination(t, c))
           \/ Terminate(t) \/ TerminateAddSuspend(t) \/ CollectTerminations(t)
           \/ (\E x \in loc[t].sched : ScheduleTermination(t, x))
           \/ NotifyItemQueued(t) \/ DrainOneItem(t) \/ LeaveCallback(t)
           \/ SignalTerminations(t) \/ (\E x \in loc[t].signal : TerminationCallback(t, x))
           \/ SignalDone(t) \/ PoolCallback(t) \/ ExchangeTimerDue(t) \/ ClearTimerDue(t)
    PROVE  SharedTypeOK'
<1> USE DEF SharedTypeOK, exCtx, exTerm, exDrain, exWake, exTime, base, ctxVars, listVars,
            termVars, drainVars, wakeVars, timeVars
<1>s. SharedTypeOK /\ loc[t] \in Locals BY DEF TypeInv, ThreadTypeOK
<1>t. /\ loc[t].ctx \in Contexts /\ loc[t].next.when \in Nat
      /\ loc[t].sched \subseteq Term /\ loc[t].signal \subseteq Term
  BY <1>s DEF Locals, Entry, NoEntry
<1>1. ASSUME NEW c \in Contexts, PrepareTerminate(t, c) PROVE SharedTypeOK'
  <2>1. status' \in [Contexts -> Statuses] BY <1>1, <1>s DEF PrepareTerminate, Statuses
  <2>a. nextTerm' = nextTerm + 1 /\ touched' = touched \cup {c} BY <1>1 DEF PrepareTerminate
  <2>2. nextTerm' \in Nat \ {0} /\ touched' \subseteq Contexts BY <2>a, <1>s
  <2>3. UNCHANGED <<suspends, exCtx, nextId, holders, calls, failed, overlap, termDone>>
    BY <1>1 DEF PrepareTerminate
  <2> QED BY <2>1, <2>2, <2>3, <1>s
<1>2. ASSUME NEW c \in Contexts, SuspendTermination(t, c) PROVE SharedTypeOK'
  <2>1. suspends' = [suspends EXCEPT ![c] = suspends[c] + 1] BY <1>2 DEF SuspendTermination
  <2>2. suspends' \in [Contexts -> Nat] BY <2>1, <1>s
  <2>3. overlap' \subseteq Contexts BY <1>2, <1>s DEF SuspendTermination
  <2>4. UNCHANGED <<status, exCtx, nextId, nextTerm, holders, calls, failed, touched, termDone>>
    BY <1>2 DEF SuspendTermination
  <2> QED BY <2>2, <2>3, <2>4, <1>s
<1>3. CASE \E c \in Contexts : ResumeTermination(t, c)
  BY <1>3, <1>s DEF ResumeTermination
<1>4. CASE Terminate(t) BY <1>4, <1>s DEF Terminate, Statuses
<1>5. CASE TerminateAddSuspend(t)
  <2>1. suspends' = [suspends EXCEPT ![loc[t].ctx] = suspends[loc[t].ctx] + 1]
    BY <1>5 DEF TerminateAddSuspend
  <2>2. suspends' \in [Contexts -> Nat] BY <2>1, <1>s, <1>t
  <2>3. UNCHANGED <<status, exCtx, base>> BY <1>5 DEF TerminateAddSuspend
  <2> QED BY <2>2, <2>3, <1>s
<1>6. CASE CollectTerminations(t) BY <1>6, <1>s DEF CollectTerminations, RemoveIf
<1>7. CASE \E x \in loc[t].sched : ScheduleTermination(t, x)
  BY <1>7, <1>s, <1>t DEF ScheduleTermination
<1>8. CASE NotifyItemQueued(t) BY <1>8, <1>s DEF NotifyItemQueued, PoolSubmits
<1>9. CASE DrainOneItem(t) BY <1>9, <1>s DEF DrainOneItem
<1>10. CASE LeaveCallback(t) BY <1>10, <1>s DEF LeaveCallback
<1>11. CASE SignalTerminations(t)
  BY <1>11, <1>s DEF SignalTerminations, RemoveIf, Statuses
<1>12. ASSUME NEW x \in loc[t].signal, TerminationCallback(t, x) PROVE SharedTypeOK'
  <2>1. x.id \in Nat BY <1>t DEF Term
  <2>2. termDone' \subseteq Nat BY <1>12, <2>1, <1>s DEF TerminationCallback
  <2>3. UNCHANGED <<ctxVars, exCtx, nextId, nextTerm, holders, calls, failed, touched, overlap>>
    BY <1>12 DEF TerminationCallback
  <2> QED BY <2>2, <2>3, <1>s
<1>13. CASE SignalDone(t) BY <1>13, <1>s DEF SignalDone
<1>14. CASE PoolCallback(t) BY <1>14, <1>s DEF PoolCallback
<1>15. CASE ExchangeTimerDue(t) BY <1>15, <1>s, <1>t DEF ExchangeTimerDue
<1>16. CASE ClearTimerDue(t)
  <2>1. timerDue' = NoDue \/ timerDue' = timerDue BY <1>16 DEF ClearTimerDue
  <2>2. timerDue' \in Nat BY <2>1, <1>s, BoundsAssumption DEF NoDue
  <2>3. UNCHANGED <<timer, now, exTime>> BY <1>16 DEF ClearTimerDue
  <2> QED BY <2>2, <2>3, <1>s
<1> QED BY <1>1, <1>2, <1>3, <1>4, <1>5, <1>6, <1>7, <1>8, <1>9, <1>10, <1>11, <1>12,
           <1>13, <1>14, <1>15, <1>16

LEMMA IdleStepShared ==
    ASSUME SharedTypeOK, UNCHANGED shared
    PROVE  SharedTypeOK'
BY DEF SharedTypeOK, shared, exTime, base, ctxVars, listVars, termVars, drainVars, wakeVars,
       timeVars

\* A step of one thread.
LEMMA ThreadStepType ==
    ASSUME NEW t \in Threads, TypeInv,
           \/ Calls(t) \/ Continue(t)
           \/ QueueItemFails(t) \/ CancelTermination(t) \/ WaitTimesOut(t)
           \/ \E c \in Contexts : Dispatch(t, c) \/ ResumeTermination(t, c)
    PROVE  TypeInv'
<1>s. SharedTypeOK BY DEF TypeInv
<1>1. ThreadTypeOK' /\ CarriesEntry'
  BY GotoStepType, EnterStepType, CallStepType, ReturnStepType, OuterStepType, InnerStepType,
     TimerStepType DEF Calls, Continue
<1>2. CASE UNCHANGED shared BY <1>2, <1>s, <1>1, IdleStepShared DEF TypeInv
<1>3. CASE ~UNCHANGED shared
  <2>1. ~(\/ QueueItemReturns(t) \/ FlushDone(t) \/ ScheduleDone(t) \/ CheckQueueEmpty(t)
          \/ CheckNotProcessing(t) \/ PoolDrained(t) \/ Wait(t)
          \/ SubmitPendingCallbacks(t) \/ RearmTimer(t)
          \/ \E c \in Contexts : Dispatch(t, c))
    BY <1>3 DEF QueueItemReturns, FlushDone, ScheduleDone, CheckQueueEmpty,
       CheckNotProcessing, PoolDrained, Wait, SubmitPendingCallbacks, RearmTimer, Dispatch
  <2>2. SharedTypeOK'
    BY <2>1, GotoStepShared, ListStepShared, ControlStepShared DEF Calls, Continue
  <2> QED BY <2>2, <1>1 DEF TypeInv
<1> QED BY <1>2, <1>3

LEMMA TickType == ASSUME TypeInv, Tick PROVE TypeInv'
<1>1. SharedTypeOK'
  BY DEF TypeInv, Tick, SharedTypeOK, exTime, base, ctxVars, listVars, termVars, drainVars,
         wakeVars
<1>2. ThreadTypeOK' /\ CarriesEntry' BY DEF TypeInv, Tick, ThreadTypeOK, CarriesEntry
<1> QED BY <1>1, <1>2 DEF TypeInv

LEMMA StutterType == ASSUME TypeInv, UNCHANGED vars PROVE TypeInv'
<1>1. SharedTypeOK'
  BY DEF TypeInv, vars, SharedTypeOK, ctxVars, listVars, termVars, drainVars, wakeVars,
         timeVars, histVars
<1>2. ThreadTypeOK' /\ CarriesEntry' BY DEF TypeInv, vars, ThreadTypeOK, CarriesEntry
<1> QED BY <1>1, <1>2 DEF TypeInv

LEMMA TypeInvariant == Spec => []TypeInv
<1>1. ASSUME TypeInv, [Next]_vars PROVE TypeInv'
  BY <1>1, ThreadStepType, TickType, StutterType DEF Next
<1> QED BY <1>1, InitType, PTL DEF Spec

(* The type invariant, for any number of contexts, threads, callbacks and  *)
(* terminations, in every dispatch mode: in particular no step reads a null*)
(* entry, and m_suspendCount never falls below zero.                       *)
THEOREM TypeCorrect == Spec => []TypeOK
<1>1. TypeInv => TypeOK BY DEF TypeInv, TypeOK
<1> QED BY <1>1, TypeInvariant, PTL
-----------------------------------------------------------------------------
(* What each action does to the control and the locals of its thread.      *)

Fields == {"ret", "ctx", "entry", "item", "next", "batch", "due", "at", "popped", "term",
           "sched", "signal"}

\* t goes to label l, nested label n, and no other thread moves.
Moves(t, l, n) ==
    /\ pc'[t] = l /\ inner'[t] = n
    /\ \A u \in Threads \ {t} : pc'[u] = pc[u] /\ inner'[u] = inner[u] /\ loc'[u] = loc[u]

\* Of the locals of t only those in ch may change; or they are fresh but for ch.
Keeps(t, ch)    == \A f \in Fields \ ch : loc'[t][f] = loc[t][f]
FreshBut(t, ch) == \A f \in Fields \ ch : loc'[t][f] = Fresh[f]

LEMMA GoEffect ==
    ASSUME NEW t \in Threads, NEW l, NEW n, NEW r, ThreadTypeOK, Go(t, l, n, r)
    PROVE  Moves(t, l, n) /\ loc'[t] = r
BY DEF Go, ThreadTypeOK, Moves

LEMMA GotoEffect ==
    ASSUME NEW t \in Threads, NEW l, ThreadTypeOK, Goto(t, l)
    PROVE  Moves(t, l, "none") /\ loc'[t] = IF l = "idle" THEN Fresh ELSE loc[t]
BY GoEffect DEF Goto

LEMMA EnterEffect ==
    ASSUME NEW t \in Threads, NEW n, ThreadTypeOK, Enter(t, n)
    PROVE  Moves(t, pc[t], n) /\ loc'[t] = loc[t]
BY GoEffect DEF Enter

LEMMA QueueItemEffect ==
    ASSUME NEW t \in Threads, NEW c \in Contexts, NEW w \in Delays, TypeInv, QueueItem(t, c, w)
    PROVE  /\ Moves(t, IF w = 0 THEN "append" ELSE "delay", "none")
           /\ FreshBut(t, {"ctx", "entry"})
           /\ loc'[t].ctx = c
           /\ loc'[t].entry = [id |-> nextId, ctx |-> c, when |-> IF w = 0 THEN 0 ELSE now + w]
<1> DEFINE e == [id |-> nextId, ctx |-> c, when |-> IF w = 0 THEN 0 ELSE now + w]
           r == [Fresh EXCEPT !.ctx = c, !.entry = e]
           l == IF w = 0 THEN "append" ELSE "delay"
<1>1. Go(t, l, "none", r) BY DEF QueueItem
<1> HIDE DEF e, l
<1>2. /\ \A f \in Fields \ {"ctx", "entry"} : r[f] = Fresh[f]
      /\ r.ctx = c /\ r.entry = e
  BY FreshType DEF Fields, Locals
<1> HIDE DEF r
<1>3. Moves(t, l, "none") /\ loc'[t] = r BY <1>1, GoEffect DEF TypeInv
<1> QED BY <1>2, <1>3 DEF FreshBut, e, l

LEMMA PrepareTerminateEffect ==
    ASSUME NEW t \in Threads, NEW c \in Contexts, TypeInv, PrepareTerminate(t, c)
    PROVE  /\ Moves(t, "prepared", "none") /\ FreshBut(t, {"ctx", "term"})
           /\ loc'[t].ctx = c /\ loc'[t].term = nextTerm
<1> DEFINE r == [Fresh EXCEPT !.ctx = c, !.term = nextTerm]
<1>1. Go(t, "prepared", "none", r) BY DEF PrepareTerminate
<1>2. /\ \A f \in Fields \ {"ctx", "term"} : r[f] = Fresh[f]
      /\ r.ctx = c /\ r.term = nextTerm
  BY FreshType DEF Fields, Locals
<1> HIDE DEF r
<1> QED BY <1>1, <1>2, GoEffect DEF TypeInv, FreshBut

LEMMA StartEffect ==
    ASSUME NEW t \in Threads, NEW c \in Contexts, NEW l, NEW n, TypeInv,
           Go(t, l, n, [Fresh EXCEPT !.ctx = c])
    PROVE  Moves(t, l, n) /\ FreshBut(t, {"ctx"}) /\ loc'[t].ctx = c
<1> DEFINE r == [Fresh EXCEPT !.ctx = c]
<1>2. (\A f \in Fields \ {"ctx"} : r[f] = Fresh[f]) /\ r.ctx = c
  BY FreshType DEF Fields, Locals
<1> HIDE DEF r
<1>3. Go(t, l, n, r) BY DEF r
<1> QED BY <1>2, <1>3, GoEffect DEF TypeInv, FreshBut

\* The actions that change locals, one by one.
LEMMA CancelPendingEntriesEffect ==
    ASSUME NEW t \in Threads, TypeInv, CancelPendingEntries(t)
    PROVE  /\ Moves(t, "flush", "none") /\ Keeps(t, {"batch"})
           /\ loc'[t].batch = {e \in pending : e.ctx = loc[t].ctx}
BY GoEffect DEF TypeInv, CancelPendingEntries, ThreadTypeOK, Locals, Keeps, Fields

LEMMA FlushEntryEffect ==
    ASSUME NEW t \in Threads, NEW e, TypeInv, FlushEntry(t, e)
    PROVE  /\ Moves(t, "flush", "notify") /\ Keeps(t, {"batch"})
           /\ loc'[t].batch = loc[t].batch \ {e}
BY GoEffect DEF TypeInv, FlushEntry, ThreadTypeOK, Locals, Keeps, Fields

LEMMA QueueItemReturnsEffect ==
    ASSUME NEW t \in Threads, TypeInv, QueueItemReturns(t)
    PROVE  \/ Moves(t, "idle", "none") /\ loc'[t] = Fresh
           \/ /\ Moves(t, "cancel", "none") /\ Keeps(t, {"ret"}) /\ loc'[t].ret = "idle"
              /\ status[loc[t].ctx] # "Active"
<1>0. loc[t] \in Locals /\ ThreadTypeOK BY DEF TypeInv, ThreadTypeOK
<1> DEFINE r == [loc[t] EXCEPT !.ret = "idle"]
<1>1. Goto(t, "idle") \/ (status[loc[t].ctx] # "Active" /\ Go(t, "cancel", "none", r))
  BY DEF QueueItemReturns
<1>2. (\A f \in Fields \ {"ret"} : r[f] = loc[t][f]) /\ r.ret = "idle"
  BY <1>0 DEF Fields, Locals
<1> HIDE DEF r
<1> QED BY <1>0, <1>1, <1>2, GoEffect, GotoEffect DEF Keeps

LEMMA TerminateEffect ==
    ASSUME NEW t \in Threads, TypeInv, Terminate(t)
    PROVE  Moves(t, "cancel", "none") /\ Keeps(t, {"ret"}) /\ loc'[t].ret = "suspend"
BY GoEffect DEF TypeInv, Terminate, ThreadTypeOK, Locals, Keeps, Fields

LEMMA TerminateAddSuspendEffect ==
    ASSUME NEW t \in Threads, TypeInv, TerminateAddSuspend(t)
    PROVE  \/ /\ FirstSuspend(loc[t].ctx)
              /\ Moves(t, "schedule", "none") /\ Keeps(t, {"sched", "ret"})
              /\ loc'[t].sched = {MyTerm(t)} /\ loc'[t].ret = "resume"
           \/ ~FirstSuspend(loc[t].ctx) /\ Moves(t, "park", "none") /\ loc'[t] = loc[t]
<1>0. loc[t] \in Locals /\ ThreadTypeOK BY DEF TypeInv, ThreadTypeOK
<1> DEFINE r == [loc[t] EXCEPT !.sched = {MyTerm(t)}, !.ret = "resume"]
<1>1. \/ FirstSuspend(loc[t].ctx) /\ Go(t, "schedule", "none", r)
      \/ ~FirstSuspend(loc[t].ctx) /\ Goto(t, "park")
  BY DEF TerminateAddSuspend
<1>2. (\A f \in Fields \ {"sched", "ret"} : r[f] = loc[t][f]) /\ r.sched = {MyTerm(t)} /\ r.ret = "resume"
  BY <1>0 DEF Fields, Locals
<1> HIDE DEF r
<1> QED BY <1>0, <1>1, <1>2, GoEffect, GotoEffect DEF Keeps

LEMMA CollectTerminationsEffect ==
    ASSUME NEW t \in Threads, TypeInv, CollectTerminations(t)
    PROVE  /\ Moves(t, "schedule", "none") /\ Keeps(t, {"sched", "ret"})
           /\ loc'[t].sched = {x \in pendTerms : x.ctx = loc[t].ctx} /\ loc'[t].ret = "idle"
<1>0. loc[t] \in Locals /\ ThreadTypeOK BY DEF TypeInv, ThreadTypeOK
<1> DEFINE r == [loc[t] EXCEPT !.sched = {x \in pendTerms : x.ctx = loc[t].ctx}, !.ret = "idle"]
<1>1. Go(t, "schedule", "none", r)
  BY DEF CollectTerminations
<1>2. (\A f \in Fields \ {"sched", "ret"} : r[f] = loc[t][f]) /\ r.sched = {x \in pendTerms : x.ctx = loc[t].ctx} /\ r.ret = "idle"
  BY <1>0 DEF Fields, Locals
<1> HIDE DEF r
<1> QED BY <1>0, <1>1, <1>2, GoEffect, GotoEffect DEF Keeps

LEMMA ScheduleTerminationEffect ==
    ASSUME NEW t \in Threads, NEW x, TypeInv, ScheduleTermination(t, x)
    PROVE  /\ Moves(t, "schedule", "notify") /\ Keeps(t, {"sched"})
           /\ loc'[t].sched = loc[t].sched \ {x}
BY GoEffect DEF TypeInv, ScheduleTermination, ThreadTypeOK, Locals, Keeps, Fields

LEMMA PopFrontEffect ==
    ASSUME NEW t \in Threads, TypeInv, PopFront(t)
    PROVE  \/ /\ queue # <<>> /\ Moves(t, pc[t], "invoke") /\ Keeps(t, {"item", "popped"})
              /\ loc'[t].item = Head(queue) /\ loc'[t].popped = TRUE /\ queue' = Tail(queue)
           \/ /\ queue = <<>> /\ Moves(t, pc[t], "leave") /\ Keeps(t, {"popped"})
              /\ loc'[t].popped = FALSE /\ queue' = queue
<1>0. loc[t] \in Locals /\ ThreadTypeOK BY DEF TypeInv, ThreadTypeOK
<1> DEFINE r == [loc[t] EXCEPT !.item = Head(queue), !.popped = TRUE]
           q == [loc[t] EXCEPT !.popped = FALSE]
<1>1. \/ queue # <<>> /\ Go(t, pc[t], "invoke", r) /\ queue' = Tail(queue)
      \/ queue = <<>> /\ Go(t, pc[t], "leave", q) /\ queue' = queue
  BY DEF PopFront
<1>2. (\A f \in Fields \ {"item", "popped"} : r[f] = loc[t][f]) /\ r.item = Head(queue) /\ r.popped = TRUE
  BY <1>0 DEF Fields, Locals
<1>3. (\A f \in Fields \ {"popped"} : q[f] = loc[t][f]) /\ q.popped = FALSE
  BY <1>0 DEF Fields, Locals
<1> HIDE DEF r, q
<1> QED BY <1>0, <1>1, <1>2, <1>3, GoEffect, GotoEffect DEF Keeps

LEMMA LeaveCallbackEffect ==
    ASSUME NEW t \in Threads, TypeInv, LeaveCallback(t)
    PROVE  Moves(t, pc[t], "check") /\ Keeps(t, {"item"}) /\ loc'[t].item = NoEntry
BY GoEffect DEF TypeInv, LeaveCallback, ThreadTypeOK, Locals, Keeps, Fields

LEMMA SignalTerminationsEffect ==
    ASSUME NEW t \in Threads, TypeInv, SignalTerminations(t)
    PROVE  /\ Moves(t, pc[t], "terms") /\ Keeps(t, {"signal"})
           /\ loc'[t].signal = {x \in termList : status[x.ctx] \in Terminal}
BY GoEffect DEF TypeInv, SignalTerminations, ThreadTypeOK, Locals, Keeps, Fields

LEMMA TerminationCallbackEffect ==
    ASSUME NEW t \in Threads, NEW x, TypeInv, TerminationCallback(t, x)
    PROVE  /\ Moves(t, pc[t], "terms") /\ Keeps(t, {"signal"})
           /\ loc'[t].signal = loc[t].signal \ {x}
BY GoEffect DEF TypeInv, TerminationCallback, ThreadTypeOK, Locals, Keeps, Fields

LEMMA PoolCallbackEffect ==
    ASSUME NEW t \in Threads, TypeInv, PoolCallback(t)
    PROVE  \/ MayDrain /\ Moves(t, "pool", "drain") /\ loc'[t] = Fresh
           \/ ~MayDrain /\ Moves(t, "unserial", "none") /\ loc'[t] = loc[t]
BY GoEffect, GotoEffect DEF PoolCallback, TypeInv

LEMMA SubmitPendingCallbacksEffect ==
    ASSUME NEW t \in Threads, TypeInv, SubmitPendingCallbacks(t)
    PROVE  \/ Moves(t, "idle", "none") /\ loc'[t] = Fresh
           \/ /\ Moves(t, IF now < timerDue THEN "restart" ELSE "promote", "none")
              /\ Keeps(t, {"due", "at"})
              /\ loc'[t].due = timerDue /\ loc'[t].at = now
<1>0. loc[t] \in Locals /\ ThreadTypeOK BY DEF TypeInv, ThreadTypeOK
<1> DEFINE r == [loc[t] EXCEPT !.due = timerDue, !.at = now]
<1>1. \/ Goto(t, "idle")
      \/ Go(t, IF now < timerDue THEN "restart" ELSE "promote", "none", r)
  BY DEF SubmitPendingCallbacks
<1>2. (\A f \in Fields \ {"due", "at"} : r[f] = loc[t][f]) /\ r.due = timerDue /\ r.at = now
  BY <1>0 DEF Fields, Locals
<1> HIDE DEF r
<1> QED BY <1>0, <1>1, <1>2, GoEffect, GotoEffect DEF Keeps

LEMMA PromoteEffect ==
    ASSUME NEW t \in Threads, TypeInv, PromoteReadyPendingCallbacks(t)
    PROVE  /\ Moves(t, "flush", "none") /\ Keeps(t, {"batch", "next", "ret"})
           /\ loc'[t].batch = {e \in pending : Ready(e, loc[t].at)} /\ loc'[t].ret = "rearm"
           /\ loc'[t].next \in pending \cup {NoEntry}
<1>0. loc[t] \in Locals /\ ThreadTypeOK BY DEF TypeInv, ThreadTypeOK
<1> DEFINE ready == {e \in pending : Ready(e, loc[t].at)}
           r(m) == [loc[t] EXCEPT !.batch = ready, !.next = m, !.ret = "rearm"]
<1>1. PICK m \in (pending \ ready) \cup {NoEntry} : Go(t, "flush", "none", r(m))
  BY DEF PromoteReadyPendingCallbacks
<1>2. /\ \A f \in Fields \ {"batch", "next", "ret"} : r(m)[f] = loc[t][f]
      /\ r(m).batch = ready /\ r(m).next = m /\ r(m).ret = "rearm"
  BY <1>0 DEF Fields, Locals
<1> HIDE DEF r
<1> QED BY <1>0, <1>1, <1>2, GoEffect DEF Keeps

LEMMA RearmTimerEffect ==
    ASSUME NEW t \in Threads, TypeInv, RearmTimer(t)
    PROVE  \/ Moves(t, "clear", "none") /\ loc'[t] = loc[t]
           \/ Moves(t, "cas", "none") /\ loc'[t] = loc[t]
           \/ /\ Moves(t, "cancel", "none") /\ Keeps(t, {"ctx", "ret"})
              /\ loc[t].next # NoEntry /\ status[loc[t].next.ctx] # "Active"
              /\ loc'[t].ctx = loc[t].next.ctx /\ loc'[t].ret = "idle"
<1>0. loc[t] \in Locals /\ ThreadTypeOK BY DEF TypeInv, ThreadTypeOK
<1> DEFINE r == [loc[t] EXCEPT !.ctx = loc[t].next.ctx, !.ret = "idle"]
<1>1. \/ Goto(t, "clear") \/ Goto(t, "cas")
      \/ /\ loc[t].next # NoEntry /\ status[loc[t].next.ctx] # "Active"
         /\ Go(t, "cancel", "none", r)
  BY DEF RearmTimer
<1>2. (\A f \in Fields \ {"ctx", "ret"} : r[f] = loc[t][f]) /\ r.ctx = loc[t].next.ctx /\ r.ret = "idle"
  BY <1>0 DEF Fields, Locals
<1> HIDE DEF r
<1> QED BY <1>0, <1>1, <1>2, GoEffect, GotoEffect DEF Keeps

LEMMA ExchangeTimerDueEffect ==
    ASSUME NEW t \in Threads, TypeInv, ExchangeTimerDue(t)
    PROVE  \/ Moves(t, "startnext", "none") /\ loc'[t] = loc[t]
           \/ Moves(t, "idle", "none") /\ loc'[t] = Fresh
           \/ Moves(t, "cas", "none") /\ Keeps(t, {"due"}) /\ loc'[t].due = timerDue
<1>0. loc[t] \in Locals /\ ThreadTypeOK BY DEF TypeInv, ThreadTypeOK
<1> DEFINE r == [loc[t] EXCEPT !.due = timerDue]
<1>1. Goto(t, "startnext") \/ Goto(t, "idle") \/ Go(t, "cas", "none", r)
  BY DEF ExchangeTimerDue
<1>2. (\A f \in Fields \ {"due"} : r[f] = loc[t][f]) /\ r.due = timerDue
  BY <1>0 DEF Fields, Locals
<1> HIDE DEF r
<1> QED BY <1>0, <1>1, <1>2, GoEffect, GotoEffect DEF Keeps

LEMMA ClearTimerDueEffect ==
    ASSUME NEW t \in Threads, TypeInv, ClearTimerDue(t)
    PROVE  \/ Moves(t, "idle", "none") /\ loc'[t] = Fresh
           \/ /\ Moves(t, "promote", "none") /\ Keeps(t, {"due", "at"})
              /\ loc'[t].due = NoDue /\ loc'[t].at = now
<1>0. loc[t] \in Locals /\ ThreadTypeOK BY DEF TypeInv, ThreadTypeOK
<1> DEFINE r == [loc[t] EXCEPT !.due = NoDue, !.at = now]
<1>1. Goto(t, "idle") \/ Go(t, "promote", "none", r)
  BY DEF ClearTimerDue
<1>2. (\A f \in Fields \ {"due", "at"} : r[f] = loc[t][f]) /\ r.due = NoDue /\ r.at = now
  BY <1>0 DEF Fields, Locals
<1> HIDE DEF r
<1> QED BY <1>0, <1>1, <1>2, GoEffect, GotoEffect DEF Keeps

-----------------------------------------------------------------------------
(* A context that terminates stays terminated, and a suspension of        *)
(* termination holds.                                                      *)

\* Threads inside a call that owns one count of m_suspendCount of c.
InCall(c) == {t \in Threads : /\ loc[t].ctx = c
                              /\ \/ pc[t] \in {"verify", "park", "resume"}
                                 \/ pc[t] = "schedule" /\ loc[t].ret = "resume"}

\* Threads that have suspended c and not yet resumed it.
Holding(c) == {t \in Threads : <<t, c>> \in holders}

\* m_suspendCount counts exactly these.
CountInv ==
    \A c \in Contexts : suspends[c] = Cardinality(InCall(c)) + Cardinality(Holding(c))

\* A thread about to collect parked terminations is alone with the context.
CollectInv ==
    \A c \in Contexts \ overlap : \A u \in Threads :
        pc[u] = "collect" /\ loc[u].ctx = c =>
            /\ Holding(c) = {}
            /\ \A t \in Threads : pc[t] = "verify" => loc[t].ctx # c

\* Where nested routines return to, and what a verifying thread holds.
RetInv ==
    \A t \in Threads :
        /\ pc[t] \in {"cancel", "flush"} => loc[t].ret # "resume"
        /\ pc[t] = "schedule" => loc[t].ret \in {"idle", "resume"}
        /\ pc[t] = "verify" => <<t, loc[t].ctx>> \notin holders

\* A termination entry exists only once the status says Terminating.
TermsInv ==
    /\ \A x \in termList \cup pendTerms : status[x.ctx] \in Terminal
    /\ \A t \in Threads :
        /\ \A x \in loc[t].sched \cup loc[t].signal : status[x.ctx] \in Terminal
        /\ \/ pc[t] \in {"suspend", "park"}
           \/ pc[t] \in {"cancel", "flush"} /\ loc[t].ret = "suspend"
           => status[loc[t].ctx] \in Terminal

\* SuspendHoldsTermination, context by context.
HeldInv ==
    \A c \in Contexts \ overlap : Holding(c) # {} =>
        /\ status[c] # "Terminated"
        /\ \A x \in termList : x.ctx # c
        /\ \A t \in Threads : \A x \in loc[t].sched \cup loc[t].signal : x.ctx # c

SuspInv == CountInv /\ CollectInv /\ RetInv /\ TermsInv /\ HeldInv

-----------------------------------------------------------------------------

\* What Go does to each thread.
LEMMA GoFacts ==
    ASSUME NEW t \in Threads, NEW l, NEW n, NEW r, ThreadTypeOK, Go(t, l, n, r)
    PROVE  /\ pc'[t] = l /\ loc'[t] = r
           /\ \A u \in Threads \ {t} : pc'[u] = pc[u] /\ loc'[u] = loc[u]
BY DEF Go, ThreadTypeOK

LEMMA InCallFinite == \A c : IsFiniteSet(InCall(c)) /\ IsFiniteSet(Holding(c))
<1> TAKE c
<1>1. InCall(c) \subseteq Threads /\ Holding(c) \subseteq Threads BY DEF InCall, Holding
<1> QED BY <1>1, ThreadsAssumption, FS_Subset

LEMMA InitSusp == Init => SuspInv
<1> SUFFICES ASSUME Init PROVE SuspInv OBVIOUS
<1>1. \A t \in Threads : pc[t] = "idle" /\ loc[t] = Fresh BY DEF Init
<1>2. Fresh.sched = {} /\ Fresh.signal = {} BY DEF Fresh
<1>3. \A c \in Contexts : InCall(c) = {} /\ Holding(c) = {}
  BY <1>1 DEF Init, InCall, Holding
<1>4. Cardinality({}) = 0 BY FS_EmptySet
<1>5. CountInv
  <2>1. \A c \in Contexts : suspends[c] = 0 BY DEF Init
  <2> QED BY <2>1, <1>3, <1>4 DEF CountInv
<1>6. CollectInv /\ RetInv BY <1>1 DEF CollectInv, RetInv
<1>7. TermsInv BY <1>1, <1>2 DEF TermsInv, Init
<1>8. HeldInv BY <1>3 DEF HeldInv
<1> QED BY <1>5, <1>6, <1>7, <1>8 DEF SuspInv

\* The labels at which a thread takes part in the suspension protocol.
Special == {"verify", "park", "resume", "schedule", "collect"}

\* Steps outside the protocol do not disturb the invariant.
LEMMA NeutralStep ==
    ASSUME NEW t \in Threads, NEW l, NEW n, NEW r, TypeInv, SuspInv, Go(t, l, n, r),
           UNCHANGED <<suspends, termList, pendTerms, holders, overlap>>,
           \A c \in Contexts : /\ status[c] \in Terminal => status'[c] \in Terminal
                               /\ status'[c] = "Terminated" => status[c] = "Terminated",
           r.sched \subseteq loc[t].sched, r.signal \subseteq loc[t].signal,
           \/ l = pc[t] /\ r.ctx = loc[t].ctx /\ r.ret = loc[t].ret
           \/ /\ pc[t] \notin Special /\ l \notin Special
              /\ l \in {"cancel", "flush"} => r.ret # "resume"
              /\ \/ l = "suspend"
                 \/ l \in {"cancel", "flush"} /\ r.ret = "suspend"
                 => status'[r.ctx] \in Terminal
    PROVE  SuspInv'
<1>1. /\ pc'[t] = l /\ loc'[t] = r
      /\ \A u \in Threads \ {t} : pc'[u] = pc[u] /\ loc'[u] = loc[u]
  BY GoFacts DEF TypeInv
<1>t. /\ \A u \in Threads : loc[u].ctx \in Contexts
      /\ \A u \in Threads : loc[u].sched \subseteq Term /\ loc[u].signal \subseteq Term
      /\ \A x \in Term : x.ctx \in Contexts
      /\ termList \subseteq Term /\ pendTerms \subseteq Term
  BY DEF TypeInv, ThreadTypeOK, SharedTypeOK, Locals, Term
<1>2. \A c \in Contexts : InCall(c)' = InCall(c) /\ Holding(c)' = Holding(c)
  BY <1>1 DEF InCall, Holding, Special
<1>3. CountInv' BY <1>2 DEF SuspInv, CountInv
<1>4. CollectInv' BY <1>1, <1>2 DEF SuspInv, CollectInv, Special
<1>5. RetInv' BY <1>1 DEF SuspInv, RetInv, Special
<1>6. TermsInv' BY <1>1, <1>t DEF SuspInv, TermsInv, Special
<1>7. HeldInv' BY <1>1, <1>2, <1>t DEF SuspInv, HeldInv
<1> QED BY <1>3, <1>4, <1>5, <1>6, <1>7 DEF SuspInv

\* The steps outside the protocol leave its state alone ...
LEMMA NeutralUnchanged ==
    ASSUME NEW t \in Threads,
           \/ (\E c \in Contexts, w \in Delays : QueueItem(t, c, w))
           \/ QueueItemFails(t) \/ AppendEntry(t) \/ DelayEntry(t) \/ LowerTimerDue(t)
           \/ StartTimer(t) \/ QueueItemReturns(t) \/ CancelPendingEntries(t)
           \/ (\E e \in loc[t].batch : FlushEntry(t, e))
           \/ NotifyItemQueued(t) \/ DrainOneItem(t) \/ PopFront(t) \/ InvokeCallback(t)
           \/ LeaveCallback(t) \/ CheckQueueEmpty(t) \/ CheckNotProcessing(t)
           \/ SignalDone(t) \/ PoolCallback(t) \/ PoolDrained(t) \/ PoolLeave(t)
           \/ (\E c \in Contexts : Dispatch(t, c)) \/ Dispatched(t) \/ Wait(t) \/ Wake(t)
           \/ WaitTimesOut(t) \/ TimerFires(t) \/ SubmitPendingCallbacks(t)
           \/ RestartTimer(t) \/ RecheckTimerDue(t) \/ PromoteReadyPendingCallbacks(t)
           \/ RearmTimer(t) \/ ExchangeTimerDue(t) \/ StartTimerForNext(t) \/ ClearTimerDue(t)
    PROVE  UNCHANGED <<status, suspends, termList, pendTerms, holders, overlap>>
BY DEF QueueItem, QueueItemFails, AppendEntry, DelayEntry, LowerTimerDue, StartTimer,
   QueueItemReturns, CancelPendingEntries, FlushEntry, NotifyItemQueued, DrainOneItem,
   PopFront, InvokeCallback, LeaveCallback, CheckQueueEmpty, CheckNotProcessing, SignalDone,
   PoolCallback, PoolDrained, PoolLeave, Dispatch, Dispatched, Wait, Wake, WaitTimesOut,
   TimerFires, SubmitPendingCallbacks, RestartTimer, RecheckTimerDue,
   PromoteReadyPendingCallbacks, RearmTimer, ExchangeTimerDue, StartTimerForNext,
   ClearTimerDue, exCtx, exList, exTerm, exDrain, exWake, exTime, shared, base,
   ctxVars, listVars, termVars, drainVars, wakeVars, timeVars

\* ... and so keep the invariant.
LEMMA NeutralSteps ==
    ASSUME NEW t \in Threads, TypeInv, SuspInv,
           \/ (\E c \in Contexts, w \in Delays : QueueItem(t, c, w))
           \/ QueueItemFails(t) \/ AppendEntry(t) \/ DelayEntry(t) \/ LowerTimerDue(t)
           \/ StartTimer(t) \/ QueueItemReturns(t) \/ CancelPendingEntries(t)
           \/ (\E e \in loc[t].batch : FlushEntry(t, e))
           \/ NotifyItemQueued(t) \/ DrainOneItem(t) \/ PopFront(t) \/ InvokeCallback(t)
           \/ LeaveCallback(t) \/ CheckQueueEmpty(t) \/ CheckNotProcessing(t)
           \/ SignalDone(t) \/ PoolCallback(t) \/ PoolDrained(t) \/ PoolLeave(t)
           \/ (\E c \in Contexts : Dispatch(t, c)) \/ Dispatched(t) \/ Wait(t) \/ Wake(t)
           \/ WaitTimesOut(t) \/ TimerFires(t) \/ SubmitPendingCallbacks(t)
           \/ RestartTimer(t) \/ RecheckTimerDue(t) \/ PromoteReadyPendingCallbacks(t)
           \/ RearmTimer(t) \/ ExchangeTimerDue(t) \/ StartTimerForNext(t) \/ ClearTimerDue(t)
    PROVE  SuspInv'
<1>s. loc[t] \in Locals /\ Fresh \in Locals /\ Fresh.sched = {} /\ Fresh.signal = {}
  BY FreshType DEF TypeInv, ThreadTypeOK, Fresh
<1>u. UNCHANGED <<status, suspends, termList, pendTerms, holders, overlap>>
  BY NeutralUnchanged
<1>g. ASSUME NEW l, Goto(t, l), pc[t] \notin Special, 
             l \notin Special \cup {"cancel", "flush", "suspend"}
      PROVE  SuspInv'
  <2> DEFINE r == IF l = "idle" THEN Fresh ELSE loc[t]
  <2>1. r.sched \subseteq loc[t].sched /\ r.signal \subseteq loc[t].signal BY <1>s
  <2>2. Go(t, l, "none", r) BY <1>g DEF Goto
  <2> HIDE DEF r
  <2> QED BY <2>1, <2>2, <1>g, <1>u, NeutralStep
<1>e. ASSUME NEW n, Enter(t, n) PROVE SuspInv'
  BY <1>e, <1>u, NeutralStep DEF Enter
<1>1. CASE \/ QueueItemFails(t) \/ DelayEntry(t) \/ LowerTimerDue(t) \/ StartTimer(t)
           \/ PoolLeave(t) \/ Dispatched(t) \/ Wake(t) \/ WaitTimesOut(t) \/ TimerFires(t)
           \/ RestartTimer(t) \/ RecheckTimerDue(t) \/ StartTimerForNext(t)
  <2>1. PICK l \in {"idle", "arm", "start", "queued", "wait", "load", "recheck"} : Goto(t, l)
    BY <1>1 DEF QueueItemFails, DelayEntry, LowerTimerDue, StartTimer, PoolLeave, Dispatched,
       Wake, WaitTimesOut, TimerFires, RestartTimer, RecheckTimerDue, StartTimerForNext
  <2>2. pc[t] \notin Special
    BY <1>1 DEF Special, At, QueueItemFails, DelayEntry, LowerTimerDue, StartTimer, PoolLeave,
       Dispatched, Wake, WaitTimesOut, TimerFires, RestartTimer, RecheckTimerDue,
       StartTimerForNext
  <2>3. l \notin Special \cup {"cancel", "flush", "suspend"} BY DEF Special
  <2> QED BY <2>1, <2>2, <2>3, <1>g
<1>2. CASE \/ NotifyItemQueued(t) \/ DrainOneItem(t) \/ InvokeCallback(t)
           \/ CheckQueueEmpty(t) \/ CheckNotProcessing(t) \/ SignalDone(t)
  BY <1>2, <1>e DEF NotifyItemQueued, DrainOneItem, InvokeCallback, CheckQueueEmpty,
     CheckNotProcessing, SignalDone
\* A Go with locals that keep sched and signal, into labels outside the protocol.
<1>c. ASSUME NEW l, NEW n, NEW r, Go(t, l, n, r),
             r.sched \subseteq loc[t].sched, r.signal \subseteq loc[t].signal,
             pc[t] \notin Special, l \notin Special, l # "suspend",
             \/ l \in {"cancel", "flush"} => r.ret \in {"idle", "rearm"}
             \/ pc[t] \in {"cancel", "flush"} /\ r.ctx = loc[t].ctx /\ r.ret = loc[t].ret
      PROVE  SuspInv'
  <2>1. l \in {"cancel", "flush"} => r.ret # "resume" BY <1>c DEF SuspInv, RetInv
  <2>2. l \in {"cancel", "flush"} /\ r.ret = "suspend" => status'[r.ctx] \in Terminal
    BY <1>c, <1>u DEF SuspInv, TermsInv
  <2> QED BY <1>c, <2>1, <2>2, <1>u, NeutralStep
<1>i. ASSUME NEW n, NEW r, Go(t, pc[t], n, r), r.sched = loc[t].sched,
             r.signal = loc[t].signal, r.ctx = loc[t].ctx, r.ret = loc[t].ret
      PROVE  SuspInv'
  BY <1>i, <1>u, NeutralStep
<1>3. ASSUME NEW c \in Contexts, NEW w \in Delays, QueueItem(t, c, w) PROVE SuspInv'
  <2> DEFINE e == [id |-> nextId, ctx |-> c, when |-> IF w = 0 THEN 0 ELSE now + w]
             l == IF w = 0 THEN "append" ELSE "delay"
             r == [Fresh EXCEPT !.ctx = c, !.entry = e]
  <2>1. Go(t, l, "none", r) /\ pc[t] = "idle" BY <1>3 DEF QueueItem, At
  <2>2. r.sched = {} /\ r.signal = {} BY DEF Fresh
  <2>3. l \in {"append", "delay"} OBVIOUS
  <2> HIDE DEF r, l
  <2> QED BY <2>1, <2>2, <2>3, <1>c DEF Special
<1>4. CASE \E c \in Contexts : Dispatch(t, c)
  <2>1. PICK c \in Contexts :
            Go(t, "dispatch", "drain", [Fresh EXCEPT !.ctx = c]) /\ pc[t] = "idle"
    BY <1>4 DEF Dispatch, At
  <2> DEFINE r == [Fresh EXCEPT !.ctx = c]
  <2>2. r.sched = {} /\ r.signal = {} BY DEF Fresh
  <2> HIDE DEF r
  <2>3. Go(t, "dispatch", "drain", r) BY <2>1 DEF r
  <2> QED BY <2>1, <2>2, <2>3, <1>c DEF Special
<1>5. CASE AppendEntry(t) BY <1>5, <1>c DEF AppendEntry, At, Special
<1>6. CASE QueueItemReturns(t)
  <2> DEFINE r == [loc[t] EXCEPT !.ret = "idle"]
  <2>1. r.sched = loc[t].sched /\ r.signal = loc[t].signal /\ r.ret = "idle" BY <1>s DEF Locals
  <2>2. pc[t] = "queued" /\ (Go(t, "cancel", "none", r) \/ Goto(t, "idle"))
    BY <1>6 DEF QueueItemReturns, At
  <2> HIDE DEF r
  <2> QED BY <2>1, <2>2, <1>c, <1>g DEF Special
<1>7. CASE CancelPendingEntries(t)
  <2>1. PICK b : pc[t] = "cancel" /\ Go(t, "flush", "none", [loc[t] EXCEPT !.batch = b])
    BY <1>7 DEF CancelPendingEntries, At
  <2> DEFINE r == [loc[t] EXCEPT !.batch = b]
  <2>2. r.sched = loc[t].sched /\ r.signal = loc[t].signal /\ r.ret = loc[t].ret
        /\ r.ctx = loc[t].ctx
    BY <1>s DEF Locals
  <2> HIDE DEF r
  <2>3. Go(t, "flush", "none", r) BY <2>1 DEF r
  <2> QED BY <2>1, <2>2, <2>3, <1>c DEF Special
<1>8. CASE \E e \in loc[t].batch : FlushEntry(t, e)
  <2>1. PICK b : pc[t] = "flush" /\ Go(t, "flush", "notify", [loc[t] EXCEPT !.batch = b])
    BY <1>8 DEF FlushEntry, At
  <2> DEFINE r == [loc[t] EXCEPT !.batch = b]
  <2>2. r.sched = loc[t].sched /\ r.signal = loc[t].signal /\ r.ret = loc[t].ret
        /\ r.ctx = loc[t].ctx
    BY <1>s DEF Locals
  <2> HIDE DEF r
  <2>3. Go(t, "flush", "notify", r) BY <2>1 DEF r
  <2> QED BY <2>1, <2>2, <2>3, <1>c DEF Special
<1>9. CASE PopFront(t)
  <2>1. PICK n, i, b : Go(t, pc[t], n, [loc[t] EXCEPT !.item = i, !.popped = b])
                       \/ Go(t, pc[t], n, [loc[t] EXCEPT !.popped = b])
    BY <1>9 DEF PopFront
  <2> DEFINE r == [loc[t] EXCEPT !.item = i, !.popped = b]
             q == [loc[t] EXCEPT !.popped = b]
  <2>2. /\ r.sched = loc[t].sched /\ r.signal = loc[t].signal
        /\ r.ret = loc[t].ret /\ r.ctx = loc[t].ctx
        /\ q.sched = loc[t].sched /\ q.signal = loc[t].signal
        /\ q.ret = loc[t].ret /\ q.ctx = loc[t].ctx
    BY <1>s DEF Locals
  <2> HIDE DEF r, q
  <2>3. Go(t, pc[t], n, r) \/ Go(t, pc[t], n, q) BY <2>1 DEF r, q
  <2> QED BY <2>2, <2>3, <1>i
<1>10. CASE LeaveCallback(t)
  <2> DEFINE r == [loc[t] EXCEPT !.item = NoEntry]
  <2>2. r.sched = loc[t].sched /\ r.signal = loc[t].signal /\ r.ret = loc[t].ret
        /\ r.ctx = loc[t].ctx
    BY <1>s DEF Locals
  <2>3. Go(t, pc[t], "check", r) BY <1>10 DEF LeaveCallback
  <2> HIDE DEF r
  <2> QED BY <2>2, <2>3, <1>i
<1>11. CASE PoolCallback(t)
  <2>1. pc[t] = "idle" /\ (Go(t, "pool", "drain", Fresh) \/ Goto(t, "unserial"))
    BY <1>11 DEF PoolCallback, At
  <2> QED BY <2>1, <1>s, <1>c, <1>g DEF Special
<1>12. CASE PoolDrained(t)
  <2>1. pc[t] = "pool" /\ (Goto(t, "idle") \/ Goto(t, "unserial") \/ Enter(t, "drain"))
    BY <1>12 DEF PoolDrained, At
  <2> QED BY <2>1, <1>e, <1>g DEF Special
<1>13. CASE Wait(t)
  <2>1. pc[t] = "wait" /\ (Go(t, "dispatch", "drain", loc[t]) \/ Goto(t, "idle")
                          \/ Goto(t, "blocked"))
    BY <1>13 DEF Wait, At
  <2> QED BY <2>1, <1>c, <1>g DEF Special
<1>14. CASE SubmitPendingCallbacks(t) \/ ClearTimerDue(t) \/ ExchangeTimerDue(t)
  <2>1. pc[t] \in {"load", "clear", "cas"}
    BY <1>14 DEF SubmitPendingCallbacks, ClearTimerDue, ExchangeTimerDue, At
  <2> DEFINE r(d) == [loc[t] EXCEPT !.due = d, !.at = now]
             q == [loc[t] EXCEPT !.due = timerDue]
  <2>2. \/ Goto(t, "idle") \/ Goto(t, "startnext") \/ Go(t, "restart", "none", r(timerDue))
        \/ Go(t, "promote", "none", r(timerDue)) \/ Go(t, "promote", "none", r(NoDue))
        \/ Go(t, "cas", "none", q)
    BY <1>14 DEF SubmitPendingCallbacks, ClearTimerDue, ExchangeTimerDue
  <2>3. /\ \A d : r(d).sched = loc[t].sched /\ r(d).signal = loc[t].signal
        /\ q.sched = loc[t].sched /\ q.signal = loc[t].signal
    BY <1>s DEF Locals
  <2> HIDE DEF r, q
  <2> QED BY <2>1, <2>2, <2>3, <1>c, <1>g DEF Special
<1>15. CASE PromoteReadyPendingCallbacks(t)
  <2>1. PICK b, m : /\ pc[t] = "promote"
                    /\ Go(t, "flush", "none",
                          [loc[t] EXCEPT !.batch = b, !.next = m, !.ret = "rearm"])
    BY <1>15 DEF PromoteReadyPendingCallbacks, At
  <2> DEFINE r == [loc[t] EXCEPT !.batch = b, !.next = m, !.ret = "rearm"]
  <2>2. r.sched = loc[t].sched /\ r.signal = loc[t].signal /\ r.ret = "rearm"
    BY <1>s DEF Locals
  <2> HIDE DEF r
  <2>3. Go(t, "flush", "none", r) BY <2>1 DEF r
  <2> QED BY <2>1, <2>2, <2>3, <1>c DEF Special
<1>16. CASE RearmTimer(t)
  <2> DEFINE m == loc[t].next
             r == [loc[t] EXCEPT !.ctx = m.ctx, !.ret = "idle"]
  <2>a. pc[t] = "rearm" BY <1>16 DEF RearmTimer, At
  <2>1. Goto(t, "clear") \/ Goto(t, "cas") \/ Go(t, "cancel", "none", r)
    BY <1>16 DEF RearmTimer
  <2>2. r.sched = loc[t].sched /\ r.signal = loc[t].signal /\ r.ret = "idle"
    BY <1>s DEF Locals
  <2> HIDE DEF r
  <2> QED BY <2>a, <2>1, <2>2, <1>c, <1>g DEF Special
<1> QED BY <1>1, <1>2, <1>3, <1>4, <1>5, <1>6, <1>7, <1>8, <1>9, <1>10, <1>11, <1>12,
           <1>13, <1>14, <1>15, <1>16

\* Steps that change a status, return from a flush, or call a termination back.
LEMMA StatusSteps ==
    ASSUME NEW t \in Threads, TypeInv, SuspInv,
           \/ (\E c \in Contexts : PrepareTerminate(t, c)) \/ CancelTermination(t)
           \/ Terminate(t) \/ FlushDone(t)
           \/ (\E x \in loc[t].signal : TerminationCallback(t, x))
    PROVE  SuspInv'
<1> USE DEF exCtx, base, ctxVars, listVars, termVars, drainVars, wakeVars, timeVars
<1>s. /\ loc[t] \in Locals /\ Fresh.sched = {} /\ Fresh.signal = {}
      /\ status \in [Contexts -> Statuses] /\ loc[t].ctx \in Contexts
  BY DEF TypeInv, ThreadTypeOK, SharedTypeOK, Fresh, Locals
<1>1. ASSUME NEW c \in Contexts, PrepareTerminate(t, c) PROVE SuspInv'
  <2> DEFINE r == [Fresh EXCEPT !.ctx = c, !.term = nextTerm]
  <2>1. r.sched = {} /\ r.signal = {} BY DEF Fresh
  <2>2. Go(t, "prepared", "none", r) /\ pc[t] = "idle" BY <1>1 DEF PrepareTerminate, At
  <2>3. UNCHANGED <<suspends, termList, pendTerms, holders, overlap>> BY <1>1 DEF PrepareTerminate
  <2>4. \A d \in Contexts : /\ status[d] \in Terminal => status'[d] \in Terminal
                            /\ status'[d] = "Terminated" => status[d] = "Terminated"
    BY <1>1, <1>s DEF PrepareTerminate, Terminal
  <2> HIDE DEF r
  <2> QED BY <2>1, <2>2, <2>3, <2>4, NeutralStep DEF Special
<1>2. CASE CancelTermination(t)
  <2>2. Go(t, "idle", "none", Fresh) /\ pc[t] = "prepared" BY <1>2 DEF CancelTermination, At, Goto
  <2>3. UNCHANGED <<suspends, termList, pendTerms, holders, overlap>> BY <1>2 DEF CancelTermination
  <2>4. \A d \in Contexts : /\ status[d] \in Terminal => status'[d] \in Terminal
                            /\ status'[d] = "Terminated" => status[d] = "Terminated"
    BY <1>2, <1>s DEF CancelTermination, RolledBack, Terminal
  <2> QED BY <1>s, <2>2, <2>3, <2>4, NeutralStep DEF Special
<1>3. CASE Terminate(t)
  <2> DEFINE r == [loc[t] EXCEPT !.ret = "suspend"]
  <2>1. r.sched = loc[t].sched /\ r.signal = loc[t].signal /\ r.ctx = loc[t].ctx
        /\ r.ret = "suspend"
    BY <1>s DEF Locals
  <2>2. Go(t, "cancel", "none", r) /\ pc[t] = "prepared" BY <1>3 DEF Terminate, At
  <2>3. UNCHANGED <<suspends, termList, pendTerms, holders, overlap>> BY <1>3 DEF Terminate
  <2>4. /\ status'[loc[t].ctx] \in Terminal
        /\ \A d \in Contexts : /\ status[d] \in Terminal => status'[d] \in Terminal
                               /\ status'[d] = "Terminated" => status[d] = "Terminated"
    BY <1>3, <1>s DEF Terminate, Terminal
  <2> HIDE DEF r
  <2> QED BY <2>1, <2>2, <2>3, <2>4, NeutralStep DEF Special
<1>4. CASE FlushDone(t)
  <2> DEFINE l == loc[t].ret
             r == IF l = "idle" THEN Fresh ELSE loc[t]
  <2>1. r.sched \subseteq loc[t].sched /\ r.signal \subseteq loc[t].signal BY <1>s
  <2>2. Go(t, l, "none", r) /\ pc[t] = "flush" BY <1>4 DEF FlushDone, At, Goto
  <2>3. UNCHANGED <<status, suspends, termList, pendTerms, holders, overlap>>
    BY <1>4 DEF FlushDone, shared, exTime
  <2>4. l \in {"idle", "suspend", "rearm"}
    BY <2>2, <1>s DEF SuspInv, RetInv, Locals, Returns
  <2>5. l = "suspend" => status'[r.ctx] \in Terminal BY <2>2, <2>3 DEF SuspInv, TermsInv
  <2> HIDE DEF r, l
  <2> QED BY <2>1, <2>2, <2>3, <2>4, <2>5, NeutralStep DEF Special
<1>5. ASSUME NEW x \in loc[t].signal, TerminationCallback(t, x) PROVE SuspInv'
  <2> DEFINE r == [loc[t] EXCEPT !.signal = loc[t].signal \ {x}]
  <2>1. r.sched = loc[t].sched /\ r.signal \subseteq loc[t].signal /\ r.ctx = loc[t].ctx
        /\ r.ret = loc[t].ret
    BY <1>s DEF Locals
  <2>2. Go(t, pc[t], "terms", r) BY <1>5 DEF TerminationCallback
  <2>3. UNCHANGED <<status, suspends, termList, pendTerms, holders, overlap>>
    BY <1>5 DEF TerminationCallback
  <2> HIDE DEF r
  <2> QED BY <2>1, <2>2, <2>3, NeutralStep
<1> QED BY <1>1, <1>2, <1>3, <1>4, <1>5

\* Steps that move termination entries.
LEMMA TermSteps ==
    ASSUME NEW t \in Threads, TypeInv, SuspInv,
           \/ ParkTermination(t) \/ CollectTerminations(t)
           \/ (\E x \in loc[t].sched : ScheduleTermination(t, x)) \/ ScheduleDone(t)
           \/ SignalTerminations(t)
    PROVE  SuspInv'
<1> USE DEF exTerm, base, ctxVars, listVars, termVars, drainVars, wakeVars, timeVars
<1>s. /\ loc[t] \in Locals /\ Fresh.sched = {} /\ Fresh.signal = {}
      /\ status \in [Contexts -> Statuses] /\ ThreadTypeOK
      /\ \A u \in Threads : loc[u].ctx \in Contexts
      /\ \A u \in Threads : loc[u].sched \subseteq Term /\ loc[u].signal \subseteq Term
      /\ \A x \in Term : x.ctx \in Contexts
      /\ termList \subseteq Term /\ pendTerms \subseteq Term
  BY DEF TypeInv, ThreadTypeOK, SharedTypeOK, Fresh, Locals, Term
<1>1. CASE ParkTermination(t)
  <2>1. pc[t] = "park" /\ Go(t, "resume", "none", loc[t]) BY <1>1 DEF ParkTermination, At, Goto
  <2>2. pc'[t] = "resume" /\ loc'[t] = loc[t]
        /\ \A u \in Threads \ {t} : pc'[u] = pc[u] /\ loc'[u] = loc[u]
    BY <2>1, <1>s, GoFacts
  <2>3. UNCHANGED <<status, suspends, termList, holders, overlap>> BY <1>1 DEF ParkTermination
  <2>4. \A x \in pendTerms' : x \in pendTerms \/ x.ctx = loc[t].ctx
    BY <1>1 DEF ParkTermination, MyTerm
  <2>5. \A c \in Contexts : InCall(c)' = InCall(c) /\ Holding(c)' = Holding(c)
    BY <2>1, <2>2, <2>3 DEF InCall, Holding
  <2>6. CountInv' BY <2>3, <2>5 DEF SuspInv, CountInv
  <2>7. CollectInv' /\ RetInv' BY <2>1, <2>2, <2>3, <2>5 DEF SuspInv, CollectInv, RetInv
  <2>8. TermsInv' BY <2>1, <2>2, <2>3, <2>4 DEF SuspInv, TermsInv
  <2>9. HeldInv' BY <2>2, <2>3, <2>5 DEF SuspInv, HeldInv
  <2> QED BY <2>6, <2>7, <2>8, <2>9 DEF SuspInv
<1>2. CASE CollectTerminations(t)
  <2> DEFINE m == {x \in pendTerms : x.ctx = loc[t].ctx}
             r == [loc[t] EXCEPT !.sched = m, !.ret = "idle"]
  <2>r. r.sched = m /\ r.ret = "idle" /\ r.ctx = loc[t].ctx /\ r.signal = loc[t].signal
    BY <1>s DEF Locals
  <2>1. pc[t] = "collect" /\ Go(t, "schedule", "none", r) BY <1>2 DEF CollectTerminations, At
  <2> HIDE DEF r
  <2>2. pc'[t] = "schedule" /\ loc'[t] = r
        /\ \A u \in Threads \ {t} : pc'[u] = pc[u] /\ loc'[u] = loc[u]
    BY <2>1, <1>s, GoFacts
  <2>3. UNCHANGED <<status, suspends, termList, holders, overlap>> BY <1>2 DEF CollectTerminations
  <2>4. pendTerms' \subseteq pendTerms BY <1>2 DEF CollectTerminations, RemoveIf
  <2>5. \A c \in Contexts : InCall(c)' = InCall(c) /\ Holding(c)' = Holding(c)
    BY <2>1, <2>2, <2>3, <2>r DEF InCall, Holding
  <2>6. CountInv' BY <2>3, <2>5 DEF SuspInv, CountInv
  <2>7. CollectInv' /\ RetInv' BY <2>1, <2>2, <2>3, <2>5, <2>r DEF SuspInv, CollectInv, RetInv
  <2>8. TermsInv' BY <2>1, <2>2, <2>3, <2>4, <2>r DEF SuspInv, TermsInv
  <2>9. HeldInv'
    <3>1. loc[t].ctx \in Contexts \ overlap => Holding(loc[t].ctx) = {}
      BY <2>1, <1>s DEF SuspInv, CollectInv
    <3>2. \A x \in r.sched \cup r.signal : x.ctx = loc[t].ctx \/ x \in loc[t].signal BY <2>r
    <3> QED BY <2>2, <2>3, <2>5, <3>1, <3>2 DEF SuspInv, HeldInv
  <2> QED BY <2>6, <2>7, <2>8, <2>9 DEF SuspInv
<1>3. ASSUME NEW x \in loc[t].sched, ScheduleTermination(t, x) PROVE SuspInv'
  <2> DEFINE r == [loc[t] EXCEPT !.sched = loc[t].sched \ {x}]
  <2>r. r.sched \subseteq loc[t].sched /\ r.ret = loc[t].ret /\ r.ctx = loc[t].ctx
        /\ r.signal = loc[t].signal
    BY <1>s DEF Locals
  <2>1. pc[t] = "schedule" /\ Go(t, "schedule", "notify", r) BY <1>3 DEF ScheduleTermination, At
  <2> HIDE DEF r
  <2>2. pc'[t] = "schedule" /\ loc'[t] = r
        /\ \A u \in Threads \ {t} : pc'[u] = pc[u] /\ loc'[u] = loc[u]
    BY <2>1, <1>s, GoFacts
  <2>3. UNCHANGED <<status, suspends, pendTerms, holders, overlap>> BY <1>3 DEF ScheduleTermination
  <2>4. termList' = termList \cup {x} BY <1>3 DEF ScheduleTermination
  <2>5. \A c \in Contexts : InCall(c)' = InCall(c) /\ Holding(c)' = Holding(c)
    BY <2>1, <2>2, <2>3, <2>r DEF InCall, Holding
  <2>6. CountInv' BY <2>3, <2>5 DEF SuspInv, CountInv
  <2>7. CollectInv' /\ RetInv' BY <2>1, <2>2, <2>3, <2>5, <2>r DEF SuspInv, CollectInv, RetInv
  <2>8. TermsInv' BY <2>1, <2>2, <2>3, <2>4, <2>r DEF SuspInv, TermsInv
  <2>9. HeldInv' BY <2>2, <2>3, <2>4, <2>5, <2>r DEF SuspInv, HeldInv
  <2> QED BY <2>6, <2>7, <2>8, <2>9 DEF SuspInv
<1>4. CASE ScheduleDone(t)
  <2> DEFINE l == loc[t].ret
             r == IF l = "idle" THEN Fresh ELSE loc[t]
  <2>l. pc[t] = "schedule" /\ l \in {"idle", "resume"}
    BY <1>4 DEF ScheduleDone, At, SuspInv, RetInv
  <2>r. /\ r.sched \subseteq loc[t].sched /\ r.signal \subseteq loc[t].signal
        /\ l = "resume" => r.ctx = loc[t].ctx
    BY <1>s
  <2>1. Go(t, l, "none", r) BY <1>4 DEF ScheduleDone, Goto
  <2> HIDE DEF r
  <2>2. pc'[t] = l /\ loc'[t] = r
        /\ \A u \in Threads \ {t} : pc'[u] = pc[u] /\ loc'[u] = loc[u]
    BY <2>1, <1>s, GoFacts
  <2>3. UNCHANGED <<status, suspends, pendTerms, termList, holders, overlap>>
    BY <1>4 DEF ScheduleDone, shared, exTime
  <2>5. \A c \in Contexts : InCall(c)' = InCall(c) /\ Holding(c)' = Holding(c)
    BY <2>l, <2>2, <2>3, <2>r DEF InCall, Holding
  <2>6. CountInv' BY <2>3, <2>5 DEF SuspInv, CountInv
  <2>7. CollectInv' /\ RetInv' BY <2>l, <2>2, <2>3, <2>5 DEF SuspInv, CollectInv, RetInv
  <2>8. TermsInv' BY <2>l, <2>2, <2>3, <2>r DEF SuspInv, TermsInv
  <2>9. HeldInv' BY <2>2, <2>3, <2>5, <2>r DEF SuspInv, HeldInv
  <2> QED BY <2>6, <2>7, <2>8, <2>9 DEF SuspInv
<1>5. CASE SignalTerminations(t)
  <2> DEFINE hit == {x \in termList : status[x.ctx] \in Terminal}
             r == [loc[t] EXCEPT !.signal = hit]
  <2>r. r.sched = loc[t].sched /\ r.ret = loc[t].ret /\ r.ctx = loc[t].ctx /\ r.signal = hit
    BY <1>s DEF Locals
  <2>1. Go(t, pc[t], "terms", r) BY <1>5 DEF SignalTerminations
  <2> HIDE DEF r
  <2>2. pc'[t] = pc[t] /\ loc'[t] = r
        /\ \A u \in Threads \ {t} : pc'[u] = pc[u] /\ loc'[u] = loc[u]
    BY <2>1, <1>s, GoFacts
  <2>3. UNCHANGED <<suspends, pendTerms, holders, overlap>> BY <1>5 DEF SignalTerminations
  <2>4. termList' \subseteq termList BY <1>5 DEF SignalTerminations, RemoveIf
  <2>5. \A c \in Contexts : InCall(c)' = InCall(c) /\ Holding(c)' = Holding(c)
    BY <2>2, <2>3, <2>r DEF InCall, Holding
  <2>s. \A c \in Contexts : status'[c] = status[c]
                            \/ (status'[c] = "Terminated" /\ \E x \in termList : x.ctx = c)
    <3>1. status' = [c \in Contexts |-> IF \E x \in hit : x.ctx = c
                                        THEN "Terminated" ELSE status[c]]
      BY <1>5 DEF SignalTerminations
    <3>2. hit \subseteq termList OBVIOUS
    <3> HIDE DEF hit
    <3> QED BY <3>1, <3>2
  <2>t. \A c \in Contexts : status[c] \in Terminal => status'[c] \in Terminal
    BY <2>s DEF Terminal
  <2>6. CountInv' BY <2>3, <2>5 DEF SuspInv, CountInv
  <2>7. CollectInv' /\ RetInv' BY <2>2, <2>3, <2>5, <2>r DEF SuspInv, CollectInv, RetInv
  <2>8. TermsInv' BY <2>2, <2>3, <2>4, <2>t, <2>r, <1>s DEF SuspInv, TermsInv
  <2>9. HeldInv' BY <2>2, <2>3, <2>4, <2>5, <2>s, <2>r DEF SuspInv, HeldInv
  <2> QED BY <2>6, <2>7, <2>8, <2>9 DEF SuspInv
<1> QED BY <1>1, <1>2, <1>3, <1>4, <1>5

\* Steps that change m_suspendCount or its holders.
LEMMA SuspendSteps ==
    ASSUME NEW t \in Threads, TypeInv, SuspInv,
           \/ TerminateAddSuspend(t) \/ SuspendVerify(t) \/ RemoveSuspend(t)
           \/ (\E c \in Contexts : SuspendTermination(t, c) \/ ResumeTermination(t, c))
    PROVE  SuspInv'
<1> USE DEF exCtx, base, ctxVars, listVars, termVars, drainVars, wakeVars, timeVars
<1>s. /\ loc[t] \in Locals /\ Fresh.sched = {} /\ Fresh.signal = {} /\ ThreadTypeOK
      /\ suspends \in [Contexts -> Nat] /\ loc[t].ctx \in Contexts
      /\ \A u \in Threads : loc[u].ctx \in Contexts
      /\ \A u \in Threads : loc[u].sched \subseteq Term /\ loc[u].signal \subseteq Term
      /\ \A x \in Term : x.ctx \in Contexts
      /\ termList \subseteq Term /\ pendTerms \subseteq Term
  BY DEF TypeInv, ThreadTypeOK, SharedTypeOK, Fresh, Locals, Term
<1>n. \A c : Cardinality(InCall(c)) \in Nat /\ Cardinality(Holding(c)) \in Nat
  BY InCallFinite, FS_CardinalityType
<1>1. CASE TerminateAddSuspend(t)
  <2>0. PICK c \in Contexts : c = loc[t].ctx BY <1>s
  <2> DEFINE r == [loc[t] EXCEPT !.sched = {MyTerm(t)}, !.ret = "resume"]
  <2>r. r.sched = {MyTerm(t)} /\ r.ret = "resume" /\ r.ctx = c /\ r.signal = loc[t].signal
    BY <1>s, <2>0 DEF Locals
  <2>m. MyTerm(t).ctx = c BY <2>0 DEF MyTerm
  <2>1. /\ pc[t] = "suspend"
        /\ \/ suspends[c] = 0 /\ Go(t, "schedule", "none", r)
           \/ Go(t, "park", "none", loc[t])
    BY <1>1, <2>0 DEF TerminateAddSuspend, FirstSuspend, At, Goto
  <2> HIDE DEF r
  <2>2. /\ \/ suspends[c] = 0 /\ pc'[t] = "schedule" /\ loc'[t] = r
           \/ pc'[t] = "park" /\ loc'[t] = loc[t]
        /\ \A u \in Threads \ {t} : pc'[u] = pc[u] /\ loc'[u] = loc[u]
    BY <2>1, <1>s, GoFacts
  <2>3. UNCHANGED <<status, termList, pendTerms, holders, overlap>>
        /\ suspends' = [suspends EXCEPT ![c] = suspends[c] + 1]
    BY <1>1, <2>0 DEF TerminateAddSuspend
  <2>5. \A d \in Contexts : Holding(d)' = Holding(d) BY <2>3 DEF Holding
  <2>6. CountInv'
    <3>1. t \notin InCall(c) /\ InCall(c)' = InCall(c) \cup {t}
      BY <2>0, <2>1, <2>2, <2>r DEF InCall
    <3>2. Cardinality(InCall(c)') = Cardinality(InCall(c)) + 1
      BY <3>1, InCallFinite, FS_AddElement
    <3>3. \A d \in Contexts \ {c} : InCall(d)' = InCall(d) BY <2>0, <2>1, <2>2, <2>r DEF InCall
    <3>4. suspends'[c] = suspends[c] + 1 /\ \A d \in Contexts \ {c} : suspends'[d] = suspends[d]
      BY <2>3, <1>s
    <3>5. ASSUME NEW d \in Contexts
          PROVE  suspends'[d] = Cardinality(InCall(d)') + Cardinality(Holding(d)')
      <4>1. suspends[d] = Cardinality(InCall(d)) + Cardinality(Holding(d))
        BY DEF SuspInv, CountInv
      <4> QED BY <4>1, <3>2, <3>3, <3>4, <2>5, <1>n
    <3> QED BY <3>5 DEF CountInv
  <2>7. CollectInv' /\ RetInv' BY <2>1, <2>2, <2>3, <2>5, <2>r DEF SuspInv, CollectInv, RetInv
  <2>8. TermsInv' BY <2>0, <2>1, <2>2, <2>3, <2>r, <2>m DEF SuspInv, TermsInv
  <2>9. HeldInv'
    <3>1. suspends[c] = 0 => Holding(c) = {}
      <4>1. suspends[c] = Cardinality(InCall(c)) + Cardinality(Holding(c))
        BY <1>s DEF SuspInv, CountInv
      <4>2. suspends[c] = 0 => Cardinality(Holding(c)) = 0 BY <4>1, <1>n
      <4> QED BY <4>2, InCallFinite, FS_EmptySet
    <3> QED BY <2>2, <2>3, <2>5, <2>r, <2>m, <3>1 DEF SuspInv, HeldInv
  <2> QED BY <2>6, <2>7, <2>8, <2>9 DEF SuspInv
<1>2. CASE RemoveSuspend(t)
  <2>0. PICK c \in Contexts : c = loc[t].ctx BY <1>s
  <2> DEFINE l == IF suspends[c] <= 1 THEN "collect" ELSE "idle"
             r == IF l = "idle" THEN Fresh ELSE loc[t]
  <2>l. \/ l = "collect" /\ suspends[c] <= 1 /\ r = loc[t]
        \/ l = "idle" /\ r = Fresh
    OBVIOUS
  <2>1. pc[t] = "resume" /\ Go(t, l, "none", r) BY <1>2, <2>0 DEF RemoveSuspend, LastOut, At, Goto
  <2> HIDE DEF r, l
  <2>2. pc'[t] = l /\ loc'[t] = r
        /\ \A u \in Threads \ {t} : pc'[u] = pc[u] /\ loc'[u] = loc[u]
    BY <2>1, <1>s, GoFacts
  <2>3. UNCHANGED <<status, termList, pendTerms, holders, overlap>>
        /\ suspends' = [suspends EXCEPT ![c] = OneLess(suspends[c])]
    BY <1>2, <2>0 DEF RemoveSuspend
  <2>5. \A d \in Contexts : Holding(d)' = Holding(d) BY <2>3 DEF Holding
  <2>c. /\ t \in InCall(c) /\ Cardinality(InCall(c)) >= 1
        /\ Cardinality(InCall(c) \ {t}) = Cardinality(InCall(c)) - 1
        /\ suspends[c] = Cardinality(InCall(c)) + Cardinality(Holding(c))
    <3>1. t \in InCall(c) BY <2>0, <2>1 DEF InCall
    <3>2. Cardinality(InCall(c)) # 0 BY <3>1, InCallFinite, FS_EmptySet
    <3>3. Cardinality(InCall(c) \ {t}) = Cardinality(InCall(c)) - 1
      BY <3>1, InCallFinite, FS_RemoveElement
    <3>4. suspends[c] = Cardinality(InCall(c)) + Cardinality(Holding(c))
      BY <1>s DEF SuspInv, CountInv
    <3> QED BY <3>1, <3>2, <3>3, <3>4, <1>n
  <2>6. CountInv'
    <3>1. InCall(c)' = InCall(c) \ {t} BY <2>0, <2>1, <2>2, <2>l DEF InCall
    <3>3. \A d \in Contexts \ {c} : InCall(d)' = InCall(d) BY <2>0, <2>1, <2>2, <2>l DEF InCall
    <3>4. suspends'[c] = suspends[c] - 1 /\ \A d \in Contexts \ {c} : suspends'[d] = suspends[d]
      BY <2>3, <2>c, <1>s, <1>n DEF OneLess
    <3>5. ASSUME NEW d \in Contexts
          PROVE  suspends'[d] = Cardinality(InCall(d)') + Cardinality(Holding(d)')
      <4>1. suspends[d] = Cardinality(InCall(d)) + Cardinality(Holding(d))
        BY DEF SuspInv, CountInv
      <4> QED BY <4>1, <3>1, <3>3, <3>4, <2>5, <2>c, <1>n
    <3> QED BY <3>5 DEF CountInv
  <2>7. CollectInv'
    <3>1. ASSUME l = "collect"
          PROVE  Holding(c) = {} /\ \A u \in Threads : pc[u] = "verify" => loc[u].ctx # c
      <4>1. Cardinality(Holding(c)) = 0 /\ Cardinality(InCall(c) \ {t}) = 0
        BY <3>1, <2>l, <2>c, <1>n
      <4>2. Holding(c) = {} /\ InCall(c) \ {t} = {}
        <5>1. IsFiniteSet(InCall(c) \ {t}) BY InCallFinite, FS_RemoveElement
        <5> QED BY <4>1, <5>1, InCallFinite, FS_EmptySet
      <4> QED BY <4>2, <2>1 DEF InCall
    <3> QED BY <2>0, <2>1, <2>2, <2>3, <2>5, <2>l, <3>1 DEF SuspInv, CollectInv
  <2>8. RetInv' BY <2>2, <2>3, <2>l DEF SuspInv, RetInv
  <2>9. TermsInv' BY <2>2, <2>3, <2>l, <1>s DEF SuspInv, TermsInv
  <2>10. HeldInv' BY <2>2, <2>3, <2>5, <2>l, <1>s DEF SuspInv, HeldInv
  <2> QED BY <2>6, <2>7, <2>8, <2>9, <2>10 DEF SuspInv
<1>3. ASSUME NEW c \in Contexts, SuspendTermination(t, c) PROVE SuspInv'
  <2> DEFINE r == [Fresh EXCEPT !.ctx = c]
  <2>r. r.sched = {} /\ r.ctx = c /\ r.signal = {} BY DEF Fresh
  <2>1. pc[t] = "idle" /\ Go(t, "verify", "none", r) BY <1>3 DEF SuspendTermination, At
  <2> HIDE DEF r
  <2>2. pc'[t] = "verify" /\ loc'[t] = r
        /\ \A u \in Threads \ {t} : pc'[u] = pc[u] /\ loc'[u] = loc[u]
    BY <2>1, <1>s, GoFacts
  <2>3. UNCHANGED <<status, termList, pendTerms, holders>> /\ <<t, c>> \notin holders
        /\ suspends' = [suspends EXCEPT ![c] = suspends[c] + 1]
    BY <1>3 DEF SuspendTermination
  <2>4. /\ overlap \subseteq overlap'
        /\ c \notin overlap' => \A u \in Threads : pc[u] = "collect" => loc[u].ctx # c
    BY <1>3 DEF SuspendTermination
  <2>5. \A d \in Contexts : Holding(d)' = Holding(d) BY <2>3 DEF Holding
  <2>6. CountInv'
    <3>1. t \notin InCall(c) /\ InCall(c)' = InCall(c) \cup {t}
      BY <2>1, <2>2, <2>r DEF InCall
    <3>2. Cardinality(InCall(c)') = Cardinality(InCall(c)) + 1
      BY <3>1, InCallFinite, FS_AddElement
    <3>3. \A d \in Contexts \ {c} : InCall(d)' = InCall(d) BY <2>1, <2>2, <2>r DEF InCall
    <3>4. suspends'[c] = suspends[c] + 1 /\ \A d \in Contexts \ {c} : suspends'[d] = suspends[d]
      BY <2>3, <1>s
    <3>5. ASSUME NEW d \in Contexts
          PROVE  suspends'[d] = Cardinality(InCall(d)') + Cardinality(Holding(d)')
      <4>1. suspends[d] = Cardinality(InCall(d)) + Cardinality(Holding(d))
        BY DEF SuspInv, CountInv
      <4> QED BY <4>1, <3>2, <3>3, <3>4, <2>5, <1>n
    <3> QED BY <3>5 DEF CountInv
  <2>7. CollectInv' BY <2>1, <2>2, <2>3, <2>4, <2>5, <2>r DEF SuspInv, CollectInv
  <2>8. RetInv' BY <2>2, <2>3, <2>r DEF SuspInv, RetInv
  <2>9. TermsInv' BY <2>2, <2>3, <2>r DEF SuspInv, TermsInv
  <2>10. HeldInv' BY <2>2, <2>3, <2>4, <2>5, <2>r DEF SuspInv, HeldInv
  <2> QED BY <2>6, <2>7, <2>8, <2>9, <2>10 DEF SuspInv
<1>4. ASSUME NEW c \in Contexts, ResumeTermination(t, c) PROVE SuspInv'
  <2> DEFINE r == [Fresh EXCEPT !.ctx = c]
  <2>r. r.sched = {} /\ r.ctx = c /\ r.signal = {} BY DEF Fresh
  <2>1. pc[t] = "idle" /\ Go(t, "resume", "none", r) BY <1>4 DEF ResumeTermination, At
  <2> HIDE DEF r
  <2>2. pc'[t] = "resume" /\ loc'[t] = r
        /\ \A u \in Threads \ {t} : pc'[u] = pc[u] /\ loc'[u] = loc[u]
    BY <2>1, <1>s, GoFacts
  <2>3. UNCHANGED <<status, suspends, termList, pendTerms, overlap>>
        /\ <<t, c>> \in holders /\ holders' = holders \ {<<t, c>>}
    BY <1>4 DEF ResumeTermination
  <2>5. \A d \in Contexts : Holding(d)' \subseteq Holding(d) BY <2>3 DEF Holding
  <2>6. CountInv'
    <3>1. t \notin InCall(c) /\ InCall(c)' = InCall(c) \cup {t}
      BY <2>1, <2>2, <2>r DEF InCall
    <3>2. Cardinality(InCall(c)') = Cardinality(InCall(c)) + 1
      BY <3>1, InCallFinite, FS_AddElement
    <3>3. t \in Holding(c) /\ Holding(c)' = Holding(c) \ {t} BY <2>3 DEF Holding
    <3>4. Cardinality(Holding(c)') = Cardinality(Holding(c)) - 1
      BY <3>3, InCallFinite, FS_RemoveElement
    <3>6. \A d \in Contexts \ {c} : InCall(d)' = InCall(d) /\ Holding(d)' = Holding(d)
      BY <2>1, <2>2, <2>3, <2>r DEF InCall, Holding
    <3>5. ASSUME NEW d \in Contexts
          PROVE  suspends'[d] = Cardinality(InCall(d)') + Cardinality(Holding(d)')
      <4>1. suspends[d] = Cardinality(InCall(d)) + Cardinality(Holding(d))
        BY DEF SuspInv, CountInv
      <4> QED BY <4>1, <3>2, <3>4, <3>6, <2>3, <1>n
    <3> QED BY <3>5 DEF CountInv
  <2>7. CollectInv' BY <2>1, <2>2, <2>3, <2>5, <2>r DEF SuspInv, CollectInv
  <2>8. RetInv' BY <2>2, <2>3, <2>r DEF SuspInv, RetInv
  <2>9. TermsInv' BY <2>2, <2>3, <2>r DEF SuspInv, TermsInv
  <2>10. HeldInv' BY <2>2, <2>3, <2>5, <2>r DEF SuspInv, HeldInv
  <2> QED BY <2>6, <2>7, <2>8, <2>9, <2>10 DEF SuspInv
<1>5. CASE SuspendVerify(t)
  <2>0. PICK c \in Contexts : c = loc[t].ctx BY <1>s
  <2>v. pc[t] = "verify" /\ UNCHANGED <<status, suspends, termList, pendTerms, overlap>>
    BY <1>5 DEF SuspendVerify, At
  <2>a. CASE NotTerminated(c)
    <3>1. Go(t, "idle", "none", Fresh) /\ holders' = holders \cup {<<t, c>>}
      BY <1>5, <2>a, <2>0 DEF SuspendVerify, Goto
    <3>2. pc'[t] = "idle" /\ loc'[t] = Fresh
          /\ \A u \in Threads \ {t} : pc'[u] = pc[u] /\ loc'[u] = loc[u]
      BY <3>1, <1>s, GoFacts
    <3>3. t \notin Holding(c) /\ Holding(c)' = Holding(c) \cup {t}
      BY <2>0, <2>v, <3>1 DEF Holding, SuspInv, RetInv
    <3>4. t \in InCall(c) /\ InCall(c)' = InCall(c) \ {t} BY <2>0, <2>v, <3>2 DEF InCall
    <3>5. \A d \in Contexts \ {c} : InCall(d)' = InCall(d) /\ Holding(d)' = Holding(d)
      BY <2>0, <2>v, <3>1, <3>2 DEF InCall, Holding
    <3>6. CountInv'
      <4>1. Cardinality(InCall(c)') = Cardinality(InCall(c)) - 1
        BY <3>4, InCallFinite, FS_RemoveElement
      <4>2. Cardinality(Holding(c)') = Cardinality(Holding(c)) + 1
        BY <3>3, InCallFinite, FS_AddElement
      <4>3. ASSUME NEW d \in Contexts
            PROVE  suspends'[d] = Cardinality(InCall(d)') + Cardinality(Holding(d)')
        <5>1. suspends[d] = Cardinality(InCall(d)) + Cardinality(Holding(d))
          BY DEF SuspInv, CountInv
        <5> QED BY <5>1, <4>1, <4>2, <3>5, <2>v, <1>n
      <4> QED BY <4>3 DEF CountInv
    <3>7. CollectInv'
      <4>1. \A u \in Threads : c \notin overlap /\ pc[u] = "collect" => loc[u].ctx # c
        BY <2>0, <2>v DEF SuspInv, CollectInv
      <4> QED BY <2>0, <2>v, <3>2, <3>5, <4>1 DEF SuspInv, CollectInv
    <3>8. RetInv' BY <2>0, <2>v, <3>1, <3>2 DEF SuspInv, RetInv
    <3>9. TermsInv' BY <2>v, <3>2, <1>s DEF SuspInv, TermsInv
    <3>10. HeldInv'
      <4>1. status[c] \notin Terminal /\ status[c] # "Terminated"
        BY <2>a DEF NotTerminated, Terminal
      <4>2. /\ \A x \in termList : x.ctx # c
            /\ \A u \in Threads : \A x \in loc[u].sched \cup loc[u].signal : x.ctx # c
        BY <4>1 DEF SuspInv, TermsInv
      <4> QED BY <4>1, <4>2, <2>v, <3>2, <3>5, <1>s DEF SuspInv, HeldInv
    <3> QED BY <3>6, <3>7, <3>8, <3>9, <3>10 DEF SuspInv
  <2>b. CASE ~NotTerminated(c)
    <3>1. Go(t, "resume", "none", loc[t]) /\ holders' = holders
      BY <1>5, <2>b, <2>0 DEF SuspendVerify, Goto
    <3>2. pc'[t] = "resume" /\ loc'[t] = loc[t]
          /\ \A u \in Threads \ {t} : pc'[u] = pc[u] /\ loc'[u] = loc[u]
      BY <3>1, <1>s, GoFacts
    <3>3. \A d \in Contexts : InCall(d)' = InCall(d) /\ Holding(d)' = Holding(d)
      BY <2>v, <3>1, <3>2 DEF InCall, Holding
    <3>6. CountInv' BY <2>v, <3>3 DEF SuspInv, CountInv
    <3>7. CollectInv' BY <2>v, <3>2, <3>3 DEF SuspInv, CollectInv
    <3>8. RetInv' BY <3>1, <3>2 DEF SuspInv, RetInv
    <3>9. TermsInv' BY <2>v, <3>2 DEF SuspInv, TermsInv
    <3>10. HeldInv' BY <2>v, <3>2, <3>3 DEF SuspInv, HeldInv
    <3> QED BY <3>6, <3>7, <3>8, <3>9, <3>10 DEF SuspInv
  <2> QED BY <2>a, <2>b
<1> QED BY <1>1, <1>2, <1>3, <1>4, <1>5

LEMMA TickSusp == ASSUME SuspInv, Tick \/ UNCHANGED vars PROVE SuspInv'
<1>1. UNCHANGED <<status, suspends, termList, pendTerms, holders, overlap, pc, loc>>
  BY DEF Tick, vars, exTime, base, ctxVars, listVars, termVars, drainVars, wakeVars, timeVars,
         histVars
<1>2. \A c \in Contexts : InCall(c)' = InCall(c) /\ Holding(c)' = Holding(c)
  BY <1>1 DEF InCall, Holding
<1>3. CountInv' BY <1>1, <1>2 DEF SuspInv, CountInv
<1>4. CollectInv' BY <1>1, <1>2 DEF SuspInv, CollectInv
<1>5. RetInv' /\ TermsInv' BY <1>1 DEF SuspInv, RetInv, TermsInv
<1>6. HeldInv' BY <1>1, <1>2 DEF SuspInv, HeldInv
<1> QED BY <1>3, <1>4, <1>5, <1>6 DEF SuspInv

LEMMA SuspInvariant == Spec => []SuspInv
<1>1. ASSUME TypeInv, SuspInv, [Next]_vars PROVE SuspInv'
  <2>1. ASSUME NEW t \in Threads,
               \/ Calls(t) \/ Continue(t)
               \/ QueueItemFails(t) \/ CancelTermination(t) \/ WaitTimesOut(t)
               \/ \E c \in Contexts : Dispatch(t, c) \/ ResumeTermination(t, c)
        PROVE  SuspInv'
    BY <1>1, <2>1, NeutralSteps, StatusSteps, TermSteps, SuspendSteps DEF Calls, Continue
  <2> QED BY <1>1, <2>1, TickSusp DEF Next
<1> QED BY <1>1, TypeInvariant, InitSusp, PTL DEF Spec

(* A successful SuspendTermination that is not overlapped by a resumer     *)
(* about to collect holds every termination callback of its context back,  *)
(* for any number of contexts, threads and terminations and in every mode. *)
THEOREM SuspensionHolds == Spec => []SuspendHoldsTermination
<1>1. TypeInv /\ SuspInv => SuspendHoldsTermination
  <2> SUFFICES ASSUME TypeInv, HeldInv PROVE SuspendHoldsTermination BY DEF SuspInv
  <2>1. ASSUME NEW h \in holders, h[2] \notin overlap
        PROVE  /\ status[h[2]] # "Terminated"
               /\ \A x \in termList \cup
                      UNION {loc[t].sched \cup loc[t].signal : t \in Threads} : x.ctx # h[2]
    <3>1. h[1] \in Threads /\ h[2] \in Contexts /\ h = <<h[1], h[2]>>
      BY DEF TypeInv, SharedTypeOK
    <3>2. h[1] \in Holding(h[2]) BY <3>1 DEF Holding
    <3>3. /\ status[h[2]] # "Terminated"
          /\ \A x \in termList : x.ctx # h[2]
          /\ \A t \in Threads : \A x \in loc[t].sched \cup loc[t].signal : x.ctx # h[2]
      BY <2>1, <3>1, <3>2 DEF HeldInv
    <3> QED BY <3>3
  <2> QED BY <2>1 DEF SuspendHoldsTermination
<1> QED BY <1>1, TypeInvariant, SuspInvariant, PTL

-----------------------------------------------------------------------------

(* No interleaving of PrepareTerminate, CancelTermination, Terminate and   *)
(* SignalTerminations brings a context that has begun to terminate back to *)
(* Active or Canceled.                                                     *)
THEOREM NeverResurrected == Spec => NoResurrection
<1> DEFINE Kept == \A c \in Contexts : status[c] \in Terminal => status'[c] \in Terminal
<1>1. ASSUME TypeInv, [Next]_vars PROVE Kept
  <2>s. status \in [Contexts -> Statuses] BY <1>1 DEF TypeInv, SharedTypeOK
  <2>1. CASE UNCHANGED status BY <2>1
  <2>2. CASE ~UNCHANGED status
    <3>a. ~Tick /\ ~UNCHANGED vars
      BY <2>2 DEF Tick, vars, exTime, ctxVars
    <3>b. PICK t \in Threads :
              \/ Calls(t) \/ Continue(t)
              \/ QueueItemFails(t) \/ CancelTermination(t) \/ WaitTimesOut(t)
              \/ \E c \in Contexts : Dispatch(t, c) \/ ResumeTermination(t, c)
      BY <1>1, <3>a DEF Next
    <3>c. ~(\/ TerminateAddSuspend(t) \/ ParkTermination(t) \/ SuspendVerify(t)
            \/ RemoveSuspend(t) \/ CollectTerminations(t) \/ ScheduleDone(t) \/ FlushDone(t)
            \/ (\E x \in loc[t].sched : ScheduleTermination(t, x))
            \/ (\E x \in loc[t].signal : TerminationCallback(t, x))
            \/ (\E c \in Contexts : SuspendTermination(t, c) \/ ResumeTermination(t, c)))
      BY <2>2 DEF TerminateAddSuspend, ParkTermination, SuspendVerify, RemoveSuspend,
         CollectTerminations, ScheduleDone, FlushDone, ScheduleTermination,
         TerminationCallback, SuspendTermination, ResumeTermination, exTerm, exTime, shared,
         ctxVars
    <3>2. \/ \E c \in Contexts : PrepareTerminate(t, c)
          \/ CancelTermination(t) \/ Terminate(t) \/ SignalTerminations(t)
      BY <2>2, <3>b, <3>c, NeutralUnchanged DEF Calls, Continue
    <3>3. CASE \E c \in Contexts : PrepareTerminate(t, c)
      BY <3>3, <2>s DEF PrepareTerminate, Terminal
    <3>4. CASE CancelTermination(t)
      BY <3>4, <2>s DEF CancelTermination, RolledBack, Terminal
    <3>5. CASE Terminate(t) BY <3>5, <2>s DEF Terminate, Terminal
    <3>6. CASE SignalTerminations(t) BY <3>6, <2>s DEF SignalTerminations, Terminal
    <3> QED BY <3>2, <3>3, <3>4, <3>5, <3>6
  <2> QED BY <2>1, <2>2
<1>2. Kept => [Kept]_vars OBVIOUS
<1> QED BY <1>1, <1>2, TypeInvariant, PTL DEF Spec, NoResurrection
=============================================================================
