---------------------- MODULE TaskQueueCallbackProofs ----------------------
(* TaskQueuePort: every callback that QueueItem accepts is in exactly one  *)
(* place until it is invoked, and is invoked once; termination callbacks   *)
(* wait for the callbacks of their context, delayed callbacks wait for     *)
(* their time, and a serialized port runs one callback at a time.          *)
EXTENDS TaskQueuePortProofs

\* The four kinds of place where callback i can wait.
QueuedAt(i)  == {k \in DOMAIN queue : queue[k].id = i}
DelayedAs(i) == {e \in pending : e.id = i}
CarriedBy(i) == {t \in Threads : \E e \in InTransit(t) : e.id = i}
PoppedBy(i)  == {t \in Threads : inner[t] = "invoke" /\ loc[t].item.id = i}

\* Accepted and not yet invoked.
Waiting(i) == i < nextId /\ i \notin failed /\ calls[i] = 0

Only(A, B, C, D) == (\E x : A = {x}) /\ B = {} /\ C = {} /\ D = {}

\* A waiting callback is in one place and any other callback nowhere.
Placed(i) ==
    IF Waiting(i)
    THEN \/ Only(QueuedAt(i), DelayedAs(i), CarriedBy(i), PoppedBy(i))
         \/ Only(DelayedAs(i), QueuedAt(i), CarriedBy(i), PoppedBy(i))
         \/ Only(CarriedBy(i), QueuedAt(i), DelayedAs(i), PoppedBy(i))
         \/ Only(PoppedBy(i), QueuedAt(i), DelayedAs(i), CarriedBy(i))
    ELSE QueuedAt(i) = {} /\ DelayedAs(i) = {} /\ CarriedBy(i) = {} /\ PoppedBy(i) = {}

PlacedInv == \A i \in 1 .. MaxItems : Placed(i)

\* A thread carries a batch only while it flushes, and no callback twice.
BatchInv ==
    \A t \in Threads :
        /\ loc[t].batch # {} => pc[t] = "flush"
        /\ \A d, e \in loc[t].batch :
              d.id = e.id /\ d.id \in 1 .. MaxItems => d = e

\* What the history says of callbacks refused, invoked, and not yet submitted.
HistoryInv ==
    /\ nextId <= MaxItems + 1
    /\ \A i \in 1 .. MaxItems : /\ calls[i] \in {0, 1}
                                /\ i \in failed => calls[i] = 0
                                /\ i >= nextId => calls[i] = 0 /\ i \notin failed

OnceInv == PlacedInv /\ BatchInv /\ HistoryInv

LEMMA InitOnce == Init => OnceInv
<1> SUFFICES ASSUME Init PROVE OnceInv OBVIOUS
<1>1. \A t \in Threads : pc[t] = "idle" /\ inner[t] = "none" /\ loc[t] = Fresh BY DEF Init
<1>2. Fresh.batch = {} BY DEF Fresh
<1>3. /\ queue = <<>> /\ pending = {} /\ nextId = 1 /\ failed = {}
      /\ \A i \in 1 .. MaxItems : calls[i] = 0
  BY DEF Init
<1>4. \A t \in Threads : InTransit(t) = {} BY <1>1, <1>2 DEF InTransit
<1>5. PlacedInv
  <2> SUFFICES ASSUME NEW i \in 1 .. MaxItems PROVE Placed(i) BY DEF PlacedInv
  <2>1. ~Waiting(i) BY <1>3 DEF Waiting
  <2>2. QueuedAt(i) = {} /\ DelayedAs(i) = {} /\ CarriedBy(i) = {} /\ PoppedBy(i) = {}
    BY <1>1, <1>3, <1>4 DEF QueuedAt, DelayedAs, CarriedBy, PoppedBy
  <2> QED BY <2>1, <2>2 DEF Placed
<1>6. BatchInv BY <1>1, <1>2 DEF BatchInv
<1>7. HistoryInv BY <1>3, BoundsAssumption DEF HistoryInv
<1> QED BY <1>5, <1>6, <1>7 DEF OnceInv

\* Steps that move no callback.
LEMMA FrameStep ==
    ASSUME NEW t \in Threads, NEW l, NEW n, TypeInv, OnceInv, Moves(t, l, n),
           UNCHANGED <<queue, pending, calls, failed, nextId>>,
           loc'[t].batch = loc[t].batch, loc[t].batch # {} => l = "flush",
           \/ l = pc[t] /\ loc'[t].entry = loc[t].entry
           \/ {l, pc[t]} \cap {"append", "delay"} = {},
           \/ n # "invoke" /\ inner[t] # "invoke"
           \/ n = inner[t] /\ loc'[t].item = loc[t].item
    PROVE  OnceInv'
<1>1. \A u \in Threads : InTransit(u)' = InTransit(u)
  <2>1. InTransit(t)' = InTransit(t) BY DEF InTransit, Moves
  <2>2. \A u \in Threads \ {t} : InTransit(u)' = InTransit(u) BY DEF InTransit, Moves
  <2> QED BY <2>1, <2>2
<1>2. PlacedInv'
  <2> SUFFICES ASSUME NEW i \in 1 .. MaxItems PROVE Placed(i)' BY DEF PlacedInv
  <2>1. QueuedAt(i)' = QueuedAt(i) /\ DelayedAs(i)' = DelayedAs(i) BY DEF QueuedAt, DelayedAs
  <2>2. CarriedBy(i)' = CarriedBy(i) BY <1>1 DEF CarriedBy
  <2>3. PoppedBy(i)' = PoppedBy(i) BY DEF PoppedBy, Moves
  <2>4. Waiting(i)' <=> Waiting(i) BY DEF Waiting
  <2>5. Placed(i) BY DEF OnceInv, PlacedInv
  <2> QED BY <2>1, <2>2, <2>3, <2>4, <2>5 DEF Placed
<1>3. BatchInv' BY DEF OnceInv, BatchInv, Moves
<1>4. HistoryInv' BY DEF OnceInv, HistoryInv
<1> QED BY <1>2, <1>3, <1>4 DEF OnceInv

LEMMA FrameSteps ==
    ASSUME NEW t \in Threads, TypeInv, OnceInv,
           \/ (\E c \in Contexts : \/ PrepareTerminate(t, c) \/ SuspendTermination(t, c)
                                   \/ ResumeTermination(t, c) \/ Dispatch(t, c))
           \/ LowerTimerDue(t) \/ StartTimer(t) \/ QueueItemReturns(t)
           \/ FlushDone(t)
           \/ CancelTermination(t) \/ Terminate(t) \/ TerminateAddSuspend(t)
           \/ ParkTermination(t) \/ SuspendVerify(t) \/ RemoveSuspend(t)
           \/ CollectTerminations(t) \/ (\E x \in loc[t].sched : ScheduleTermination(t, x))
           \/ ScheduleDone(t) \/ NotifyItemQueued(t)
           \/ PoolCallback(t) \/ PoolDrained(t) \/ PoolLeave(t)
           \/ Dispatched(t) \/ Wait(t) \/ Wake(t) \/ WaitTimesOut(t) \/ TimerFires(t)
           \/ SubmitPendingCallbacks(t) \/ RestartTimer(t) \/ RecheckTimerDue(t)
           \/ RearmTimer(t) \/ ExchangeTimerDue(t)
           \/ StartTimerForNext(t) \/ ClearTimerDue(t)
           \/ DrainOneItem(t) \/ LeaveCallback(t)
           \/ CheckQueueEmpty(t) \/ CheckNotProcessing(t) \/ SignalTerminations(t)
           \/ (\E x \in loc[t].signal : TerminationCallback(t, x)) \/ SignalDone(t)
    PROVE  OnceInv'
<1>s. ThreadTypeOK /\ loc[t] \in Locals BY DEF TypeInv, ThreadTypeOK
<1>f. Fresh.batch = {} BY DEF Fresh
<1>b. loc[t].batch # {} => pc[t] = "flush" BY DEF OnceInv, BatchInv
<1>u. UNCHANGED <<queue, pending, calls, failed, nextId>>
  BY DEF PrepareTerminate, SuspendTermination, ResumeTermination, Dispatch,
     LowerTimerDue, StartTimer, QueueItemReturns,
     FlushDone, CancelTermination, Terminate,
     TerminateAddSuspend, ParkTermination, SuspendVerify, RemoveSuspend, CollectTerminations,
     ScheduleTermination, ScheduleDone, NotifyItemQueued, PoolCallback, PoolDrained,
     PoolLeave, Dispatched, Wait, Wake, WaitTimesOut, TimerFires, SubmitPendingCallbacks,
     RestartTimer, RecheckTimerDue, RearmTimer,
     ExchangeTimerDue, StartTimerForNext, ClearTimerDue, DrainOneItem, LeaveCallback,
     CheckQueueEmpty, CheckNotProcessing, SignalTerminations, TerminationCallback, SignalDone,
     exCtx, exList, exTerm, exDrain, exWake, exTime, shared, base, listVars
<1> DEFINE Carries == {"append", "delay"}
\* An outer step, with nothing carried before or after it.
<1>c. ASSUME NEW l, NEW n, Moves(t, l, n), inner[t] = "none", n # "invoke",
             pc[t] \notin Carries \cup {"flush"}, l \notin Carries, loc'[t].batch = {}
      PROVE  OnceInv'
  BY <1>c, <1>u, <1>b, FrameStep
<1>k. ASSUME NEW l, NEW n, NEW ch, Moves(t, l, n), inner[t] = "none", n # "invoke",
             pc[t] \notin Carries \cup {"flush"}, l \notin Carries,
             Keeps(t, ch), "batch" \notin ch
      PROVE  OnceInv'
  <2>1. loc'[t].batch = loc[t].batch BY <1>k DEF Keeps, Fields
  <2> QED BY <1>k, <2>1, <1>c, <1>b
<1>r. ASSUME NEW l, NEW n, NEW ch, Moves(t, l, n), inner[t] = "none", n # "invoke",
             pc[t] \notin Carries \cup {"flush"}, l \notin Carries,
             FreshBut(t, ch), "batch" \notin ch
      PROVE  OnceInv'
  <2>1. loc'[t].batch = {} BY <1>r, <1>f DEF FreshBut, Fields
  <2> QED BY <1>r, <2>1, <1>c
<1>x. ASSUME NEW l, NEW n, Moves(t, l, n), loc'[t] = loc[t] \/ loc'[t] = Fresh,
             inner[t] = "none", n # "invoke",
             pc[t] \notin Carries \cup {"flush"}, l \notin Carries
      PROVE  OnceInv'
  BY <1>x, <1>f, <1>b, <1>c
<1>g. ASSUME NEW l, Goto(t, l), inner[t] = "none", pc[t] \notin Carries \cup {"flush"},
             l \notin Carries
      PROVE  OnceInv'
  BY <1>g, <1>s, <1>x, GotoEffect
\* A nested step.
<1>n. ASSUME NEW n, NEW ch, Moves(t, pc[t], n), inner[t] # "invoke", n # "invoke",
             Keeps(t, ch), ch \cap {"batch", "entry"} = {}
      PROVE  OnceInv'
  <2>1. loc'[t].batch = loc[t].batch /\ loc'[t].entry = loc[t].entry
    BY <1>n DEF Keeps, Fields
  <2> QED BY <1>n, <2>1, <1>u, <1>b, FrameStep
<1>e. ASSUME NEW n, Enter(t, n), inner[t] # "invoke", n # "invoke" PROVE OnceInv'
  BY <1>e, <1>s, <1>u, <1>b, FrameStep, EnterEffect
<1>1. CASE \/ LowerTimerDue(t) \/ StartTimer(t)
           \/ CancelTermination(t) \/ ParkTermination(t) \/ SuspendVerify(t)
           \/ RemoveSuspend(t) \/ PoolLeave(t) \/ Dispatched(t) \/ Wake(t)
           \/ WaitTimesOut(t) \/ TimerFires(t) \/ RestartTimer(t) \/ RecheckTimerDue(t)
           \/ StartTimerForNext(t)
  <2>1. /\ inner[t] = "none" /\ pc[t] \notin Carries \cup {"flush"}
        /\ \E l : Goto(t, l) /\ l \notin Carries
    BY <1>1 DEF LowerTimerDue, StartTimer, CancelTermination,
       ParkTermination, SuspendVerify, RemoveSuspend, PoolLeave, Dispatched, Wake,
       WaitTimesOut, TimerFires, RestartTimer, RecheckTimerDue, StartTimerForNext, At
  <2> QED BY <2>1, <1>g
<1>2. CASE FlushDone(t)
  <2>1. loc[t].ret \in Returns BY <1>s DEF Locals
  <2>2. /\ loc[t].batch = {} /\ pc[t] = "flush" /\ inner[t] = "none"
        /\ Moves(t, loc[t].ret, "none") /\ (loc'[t] = loc[t] \/ loc'[t] = Fresh)
    BY <1>2, <1>s, GotoEffect DEF FlushDone, At
  <2> QED BY <2>1, <2>2, <1>f, <1>u, FrameStep DEF Returns
<1>3. CASE ScheduleDone(t)
  <2>1. loc[t].ret \in Returns BY <1>s DEF Locals
  <2> QED BY <1>3, <2>1, <1>g DEF ScheduleDone, Returns, At
<1>4. CASE \/ NotifyItemQueued(t) \/ DrainOneItem(t)
           \/ CheckQueueEmpty(t) \/ CheckNotProcessing(t) \/ SignalDone(t)
  <2>1. inner[t] # "invoke" /\ \E n : Enter(t, n) /\ n # "invoke"
    BY <1>4 DEF NotifyItemQueued, AfterNotify, DrainOneItem, CheckQueueEmpty,
       CheckNotProcessing, SignalDone
  <2> QED BY <2>1, <1>e
<1>5. ASSUME NEW c \in Contexts, PrepareTerminate(t, c) PROVE OnceInv'
  BY <1>5, <1>r, PrepareTerminateEffect DEF PrepareTerminate, At
<1>6. ASSUME NEW c \in Contexts,
             \/ SuspendTermination(t, c) \/ ResumeTermination(t, c) \/ Dispatch(t, c)
      PROVE  OnceInv'
  <2>1. PICK l \in {"verify", "resume", "dispatch"}, n \in {"none", "drain"} :
            Moves(t, l, n) /\ FreshBut(t, {"ctx"}) /\ inner[t] = "none" /\ pc[t] = "idle"
    BY <1>6, StartEffect DEF SuspendTermination, ResumeTermination, Dispatch, At
  <2> QED BY <2>1, <1>r
<1>7. CASE QueueItemReturns(t)
  BY <1>7, <1>x, <1>k, QueueItemReturnsEffect DEF QueueItemReturns, At
<1>8. CASE Terminate(t) BY <1>8, <1>k, TerminateEffect DEF Terminate, At
<1>9. CASE TerminateAddSuspend(t)
  BY <1>9, <1>k, <1>x, TerminateAddSuspendEffect DEF TerminateAddSuspend, At
<1>10. CASE CollectTerminations(t)
  BY <1>10, <1>k, CollectTerminationsEffect DEF CollectTerminations, At
<1>11. CASE \E x \in loc[t].sched : ScheduleTermination(t, x)
  BY <1>11, <1>k, ScheduleTerminationEffect DEF ScheduleTermination, At
<1>12. CASE LeaveCallback(t) BY <1>12, <1>n, LeaveCallbackEffect DEF LeaveCallback
<1>13. CASE \E x \in loc[t].signal : TerminationCallback(t, x)
  BY <1>13, <1>n, TerminationCallbackEffect DEF TerminationCallback
<1>14. CASE SignalTerminations(t)
  BY <1>14, <1>n, SignalTerminationsEffect DEF SignalTerminations
<1>15. CASE PoolCallback(t) BY <1>15, <1>x, PoolCallbackEffect DEF PoolCallback, At
<1>16. CASE PoolDrained(t) BY <1>16, <1>g, <1>e DEF PoolDrained, At
<1>17. CASE Wait(t)
  <2>1. /\ inner[t] = "none" /\ pc[t] = "wait"
        /\ Go(t, "dispatch", "drain", loc[t]) \/ Goto(t, "idle") \/ Goto(t, "blocked")
    BY <1>17 DEF Wait, At
  <2> QED BY <2>1, <1>s, <1>x, <1>g, GoEffect
<1>18. CASE SubmitPendingCallbacks(t)
  BY <1>18, <1>x, <1>k, SubmitPendingCallbacksEffect DEF SubmitPendingCallbacks, At
<1>19. CASE RearmTimer(t) BY <1>19, <1>x, <1>k, RearmTimerEffect DEF RearmTimer, At
<1>20. CASE ExchangeTimerDue(t)
  BY <1>20, <1>x, <1>k, ExchangeTimerDueEffect DEF ExchangeTimerDue, At
<1>21. CASE ClearTimerDue(t)
  BY <1>21, <1>x, <1>k, ClearTimerDueEffect DEF ClearTimerDue, At
<1> QED BY <1>1, <1>2, <1>3, <1>4, <1>5, <1>6, <1>7, <1>8, <1>9, <1>10, <1>11, <1>12,
           <1>13, <1>14, <1>15, <1>16, <1>17, <1>18, <1>19, <1>20, <1>21

-----------------------------------------------------------------------------
(* Steps that move a callback from one place to another.                   *)

Carries(t, i) == \E e \in InTransit(t) : e.id = i
Popped(t, i)  == inner[t] = "invoke" /\ loc[t].item.id = i

LEMMA CarriedMoves ==
    ASSUME NEW t \in Threads, NEW l, NEW n, Moves(t, l, n), NEW i
    PROVE  /\ Carries(t, i)' => CarriedBy(i)' = CarriedBy(i) \cup {t}
           /\ ~Carries(t, i)' => CarriedBy(i)' = CarriedBy(i) \ {t}
           /\ (Carries(t, i)' <=> Carries(t, i)) => CarriedBy(i)' = CarriedBy(i)
           /\ Popped(t, i)' => PoppedBy(i)' = PoppedBy(i) \cup {t}
           /\ ~Popped(t, i)' => PoppedBy(i)' = PoppedBy(i) \ {t}
           /\ (Popped(t, i)' <=> Popped(t, i)) => PoppedBy(i)' = PoppedBy(i)
<1>1. \A u \in Threads \ {t} : InTransit(u)' = InTransit(u) BY DEF InTransit, Moves
<1>2. \A u \in Threads \ {t} : Carries(u, i)' <=> Carries(u, i) BY <1>1 DEF Carries
<1>3. \A u \in Threads \ {t} : Popped(u, i)' <=> Popped(u, i) BY DEF Popped, Moves
<1>4. /\ CarriedBy(i) = {u \in Threads : Carries(u, i)}
      /\ CarriedBy(i)' = {u \in Threads : Carries(u, i)'}
  BY DEF CarriedBy, Carries
<1>5. /\ PoppedBy(i) = {u \in Threads : Popped(u, i)}
      /\ PoppedBy(i)' = {u \in Threads : Popped(u, i)'}
  BY DEF PoppedBy, Popped
<1> QED BY <1>2, <1>3, <1>4, <1>5

\* What a list operation does to the places of callback i.
LEMMA AppendPlace ==
    ASSUME NEW e \in Entry, NEW i, queue \in Seq(Entry), queue' = Append(queue, e)
    PROVE  /\ e.id = i => QueuedAt(i)' = QueuedAt(i) \cup {Len(queue) + 1}
           /\ e.id # i => QueuedAt(i)' = QueuedAt(i)
<1>1. /\ DOMAIN queue = 1 .. Len(queue) /\ DOMAIN queue' = 1 .. Len(queue) + 1
      /\ Len(queue) \in Nat
      /\ \A k \in 1 .. Len(queue) : queue'[k] = queue[k]
      /\ queue'[Len(queue) + 1] = e
  OBVIOUS
<1> QED BY <1>1 DEF QueuedAt

LEMMA TailPlace ==
    ASSUME NEW i, queue \in Seq(Entry), queue # <<>>, queue' = Tail(queue)
    PROVE  /\ Head(queue).id = i => 1 \in QueuedAt(i)
           /\ QueuedAt(i) \subseteq {1} => QueuedAt(i)' = {}
           /\ \A x : x # 1 /\ QueuedAt(i) = {x} => QueuedAt(i)' = {x - 1}
<1>1. /\ DOMAIN queue = 1 .. Len(queue) /\ DOMAIN queue' = 1 .. Len(queue) - 1
      /\ Len(queue) \in Nat /\ Len(queue) # 0
      /\ \A k \in 1 .. Len(queue) - 1 : queue'[k] = queue[k + 1]
      /\ Head(queue) = queue[1]
  OBVIOUS
<1>2. \A k : k \in QueuedAt(i)' <=> k \in Nat /\ k >= 1 /\ k + 1 \in QueuedAt(i)
  BY <1>1 DEF QueuedAt
<1>3. QueuedAt(i) \subseteq 1 .. Len(queue) BY <1>1 DEF QueuedAt
<1> QED BY <1>1, <1>2, <1>3 DEF QueuedAt

\* A callback found in a place is waiting, and is in no other place.
LEMMA FoundThere ==
    ASSUME NEW i \in 1 .. MaxItems, OnceInv
    PROVE  /\ \A t \in Threads : Carries(t, i) =>
                 /\ Waiting(i) /\ CarriedBy(i) = {t}
                 /\ QueuedAt(i) = {} /\ DelayedAs(i) = {} /\ PoppedBy(i) = {}
           /\ \A t \in Threads : Popped(t, i) =>
                 /\ Waiting(i) /\ PoppedBy(i) = {t}
                 /\ QueuedAt(i) = {} /\ DelayedAs(i) = {} /\ CarriedBy(i) = {}
           /\ \A e \in pending : e.id = i =>
                 /\ Waiting(i) /\ DelayedAs(i) = {e}
                 /\ QueuedAt(i) = {} /\ CarriedBy(i) = {} /\ PoppedBy(i) = {}
           /\ \A k \in QueuedAt(i) :
                 /\ Waiting(i) /\ QueuedAt(i) = {k}
                 /\ DelayedAs(i) = {} /\ CarriedBy(i) = {} /\ PoppedBy(i) = {}
<1>1. Placed(i) BY DEF OnceInv, PlacedInv
<1>2. \A t \in Threads : Carries(t, i) => t \in CarriedBy(i) BY DEF Carries, CarriedBy
<1>3. \A t \in Threads : Popped(t, i) => t \in PoppedBy(i) BY DEF Popped, PoppedBy
<1>4. \A e \in pending : e.id = i => e \in DelayedAs(i) BY DEF DelayedAs
<1> QED BY <1>1, <1>2, <1>3, <1>4 DEF Placed, Only

\* A callback whose places and history a step leaves alone.
LEMMA PlacedStays ==
    ASSUME NEW i, Placed(i), Waiting(i)' <=> Waiting(i), QueuedAt(i)' = QueuedAt(i),
           DelayedAs(i)' = DelayedAs(i), CarriedBy(i)' = CarriedBy(i),
           PoppedBy(i)' = PoppedBy(i)
    PROVE  Placed(i)'
BY DEF Placed

\* A new callback, carried by its submitter.
LEMMA SubmitStep ==
    ASSUME NEW t \in Threads, NEW c \in Contexts, NEW w \in Delays, TypeInv, OnceInv,
           QueueItem(t, c, w)
    PROVE  OnceInv'
<1>u. /\ UNCHANGED <<queue, pending, calls, failed>> /\ nextId' = nextId + 1
      /\ nextId <= MaxItems /\ nextId \in Nat \ {0} /\ MaxItems \in Nat
  BY BoundsAssumption DEF QueueItem, exCtx, listVars, TypeInv, SharedTypeOK
<1>b. loc[t].batch = {} /\ InTransit(t) = {} /\ inner[t] = "none"
  <2>1. loc[t].batch = {} /\ pc[t] = "idle" /\ inner[t] = "none"
    BY DEF OnceInv, BatchInv, QueueItem, At
  <2> QED BY <2>1 DEF InTransit
<1>m. PICK l \in {"append", "delay"} : Moves(t, l, "none")
  <2>1. Moves(t, IF w = 0 THEN "append" ELSE "delay", "none") BY QueueItemEffect
  <2> QED BY <2>1
<1>e. loc'[t].batch = {} /\ loc'[t].entry.id = nextId
  <2>1. FreshBut(t, {"ctx", "entry"}) BY QueueItemEffect
  <2>2. loc'[t].batch = Fresh.batch BY <2>1 DEF FreshBut, Fields
  <2>3. loc'[t].entry = [id |-> nextId, ctx |-> c, when |-> IF w = 0 THEN 0 ELSE now + w]
    BY QueueItemEffect
  <2> QED BY <2>2, <2>3 DEF Fresh
<1>t. InTransit(t)' = {loc'[t].entry} BY <1>m, <1>e DEF InTransit, Moves
<1>1. ASSUME NEW i \in 1 .. MaxItems PROVE Placed(i)'
  <2>p. Placed(i) BY DEF OnceInv, PlacedInv
  <2>1. QueuedAt(i)' = QueuedAt(i) /\ DelayedAs(i)' = DelayedAs(i)
    BY <1>u DEF QueuedAt, DelayedAs
  <2>2. PoppedBy(i)' = PoppedBy(i)
    <3>1. ~Popped(t, i) /\ ~Popped(t, i)' BY <1>b, <1>m DEF Popped, Moves
    <3> QED BY <3>1, <1>m, CarriedMoves
  <2>3. CASE i = nextId
    <3>1. Carries(t, i)' BY <1>t, <1>e, <2>3 DEF Carries
    <3>2. CarriedBy(i)' = CarriedBy(i) \cup {t} BY <3>1, <1>m, CarriedMoves
    <3>3. ~Waiting(i) BY <2>3, <1>u DEF Waiting
    <3>4. CarriedBy(i) = {} /\ QueuedAt(i) = {} /\ DelayedAs(i) = {} /\ PoppedBy(i) = {}
      BY <2>p, <3>3 DEF Placed
    <3>5. Only(CarriedBy(i), QueuedAt(i), DelayedAs(i), PoppedBy(i))'
      BY <3>2, <3>4, <2>1, <2>2 DEF Only
    <3>6. Waiting(i)' BY <1>u, <2>3 DEF Waiting, OnceInv, HistoryInv
    <3> QED BY <3>5, <3>6 DEF Placed
  <2>4. CASE i # nextId
    <3>1. ~Carries(t, i) /\ ~Carries(t, i)' BY <1>b, <1>t, <1>e, <2>4 DEF Carries
    <3>2. CarriedBy(i)' = CarriedBy(i) BY <3>1, <1>m, CarriedMoves
    <3>3. Waiting(i)' <=> Waiting(i) BY <1>u, <2>4 DEF Waiting
    <3> QED BY <2>p, <2>1, <2>2, <3>2, <3>3, PlacedStays
  <2> QED BY <2>3, <2>4
<1>2. BatchInv' BY <1>m, <1>e DEF OnceInv, BatchInv, Moves
<1>3. HistoryInv' BY <1>u DEF OnceInv, HistoryInv
<1> QED BY <1>1, <1>2, <1>3 DEF OnceInv, PlacedInv

\* E_OUTOFMEMORY: the submitter drops the callback.
LEMMA RefuseStep ==
    ASSUME NEW t \in Threads, TypeInv, OnceInv, QueueItemFails(t)
    PROVE  OnceInv'
<1> DEFINE e == loc[t].entry
<1>u. /\ UNCHANGED <<queue, pending, calls, nextId>> /\ failed' = failed \cup {e.id}
      /\ pc[t] \in {"append", "delay"} /\ inner[t] = "none"
  BY DEF QueueItemFails, exCtx, listVars, At
<1>m. Moves(t, "idle", "none") /\ loc'[t] = Fresh
  BY GotoEffect DEF QueueItemFails, TypeInv
<1>b. loc[t].batch = {} /\ loc'[t].batch = {} BY <1>u, <1>m DEF OnceInv, BatchInv, Fresh
<1>t. InTransit(t) = {e} /\ InTransit(t)' = {} BY <1>u, <1>m, <1>b DEF InTransit, Moves
<1> HIDE DEF e
<1>1. ASSUME NEW i \in 1 .. MaxItems PROVE Placed(i)'
  <2>p. Placed(i) BY DEF OnceInv, PlacedInv
  <2>1. QueuedAt(i)' = QueuedAt(i) /\ DelayedAs(i)' = DelayedAs(i)
    BY <1>u DEF QueuedAt, DelayedAs
  <2>2. PoppedBy(i)' = PoppedBy(i)
    <3>1. ~Popped(t, i) /\ ~Popped(t, i)' BY <1>u, <1>m DEF Popped, Moves
    <3> QED BY <3>1, <1>m, CarriedMoves
  <2>c. ~Carries(t, i)' BY <1>t DEF Carries
  <2>3. CASE i = e.id
    <3>1. Carries(t, i) BY <1>t, <2>3 DEF Carries
    <3>2. /\ CarriedBy(i) = {t} /\ QueuedAt(i) = {} /\ DelayedAs(i) = {} /\ PoppedBy(i) = {}
      BY <3>1, FoundThere
    <3>3. CarriedBy(i)' = {} BY <2>c, <3>2, <1>m, CarriedMoves
    <3>4. ~Waiting(i)' BY <1>u, <2>3 DEF Waiting
    <3> QED BY <2>1, <2>2, <3>2, <3>3, <3>4 DEF Placed
  <2>4. CASE i # e.id
    <3>1. ~Carries(t, i) BY <1>t, <2>4 DEF Carries
    <3>2. CarriedBy(i)' = CarriedBy(i) BY <3>1, <2>c, <1>m, CarriedMoves
    <3>3. Waiting(i)' <=> Waiting(i) BY <1>u, <2>4 DEF Waiting
    <3> QED BY <2>p, <2>1, <2>2, <3>2, <3>3, PlacedStays
  <2> QED BY <2>3, <2>4
<1>2. BatchInv' BY <1>m, <1>b DEF OnceInv, BatchInv, Moves
<1>3. HistoryInv'
  <2>1. ASSUME NEW i \in 1 .. MaxItems, i = e.id PROVE calls[i] = 0 /\ i < nextId
    <3>1. Carries(t, i) BY <1>t, <2>1 DEF Carries
    <3> QED BY <3>1, FoundThere DEF Waiting
  <2>2. nextId \in Nat BY DEF TypeInv, SharedTypeOK
  <2> QED BY <1>u, <2>1, <2>2 DEF OnceInv, HistoryInv
<1> QED BY <1>1, <1>2, <1>3 DEF OnceInv, PlacedInv

\* AppendEntry of QueueItem, and the appends of a batch.
LEMMA PushStep ==
    ASSUME NEW t \in Threads, TypeInv, OnceInv,
           AppendEntry(t) \/ \E e \in loc[t].batch : FlushEntry(t, e)
    PROVE  OnceInv'
<1>s. queue \in Seq(Entry) /\ Len(queue) \in Nat BY DEF TypeInv, SharedTypeOK
<1>u. UNCHANGED <<pending, calls, failed, nextId>> /\ inner[t] = "none"
  BY DEF AppendEntry, FlushEntry, exList, base, At
\* The thread carries e, appends it and carries it no more.
<1>1. \E e, l :
         /\ e \in Entry
         /\ queue' = Append(queue, e) /\ Moves(t, l, "notify")
         /\ e \in InTransit(t) /\ InTransit(t)' = InTransit(t) \ {e}
         /\ e.id \in 1 .. MaxItems => ~Carries(t, e.id)'
         /\ loc'[t].batch # {} => l = "flush"
         /\ loc'[t].batch \subseteq loc[t].batch
  <2>1. CASE AppendEntry(t)
    <3> DEFINE e == loc[t].entry
    <3>1. /\ queue' = Append(queue, e) /\ Moves(t, "queued", "notify") /\ loc'[t] = loc[t]
          /\ pc[t] = "append"
      BY <2>1, GoEffect DEF AppendEntry, PushQueue, At, TypeInv
    <3>2. e \in Entry BY <3>1 DEF TypeInv, CarriesEntry
    <3>3. loc[t].batch = {} BY <3>1 DEF OnceInv, BatchInv
    <3>4. InTransit(t) = {e} /\ InTransit(t)' = {} BY <3>1, <3>3 DEF InTransit, Moves
    <3>5. ~Carries(t, e.id)' BY <3>4 DEF Carries
    <3> QED BY <3>1, <3>2, <3>3, <3>4, <3>5
  <2>2. ASSUME NEW e \in loc[t].batch, FlushEntry(t, e)
        PROVE  /\ e \in Entry /\ queue' = Append(queue, e) /\ Moves(t, "flush", "notify")
               /\ e \in InTransit(t) /\ InTransit(t)' = InTransit(t) \ {e}
               /\ e.id \in 1 .. MaxItems => ~Carries(t, e.id)'
               /\ loc'[t].batch \subseteq loc[t].batch
    <3>1. /\ queue' = Append(queue, e) /\ Moves(t, "flush", "notify") /\ pc[t] = "flush"
          /\ loc'[t].batch = loc[t].batch \ {e}
      BY <2>2, FlushEntryEffect DEF FlushEntry, PushQueue, At
    <3>2. e \in Entry BY <2>2 DEF TypeInv, ThreadTypeOK, Locals
    <3>3. InTransit(t) = loc[t].batch /\ InTransit(t)' = loc[t].batch \ {e}
      BY <3>1 DEF InTransit, Moves
    <3>4. e.id \in 1 .. MaxItems => ~Carries(t, e.id)'
      BY <2>2, <3>3 DEF Carries, OnceInv, BatchInv
    <3> QED BY <2>2, <3>1, <3>2, <3>3, <3>4
  <2> QED BY <2>1, <2>2
<1>2. PICK e, l :
         /\ e \in Entry
         /\ queue' = Append(queue, e) /\ Moves(t, l, "notify")
         /\ e \in InTransit(t) /\ InTransit(t)' = InTransit(t) \ {e}
         /\ e.id \in 1 .. MaxItems => ~Carries(t, e.id)'
         /\ loc'[t].batch # {} => l = "flush"
         /\ loc'[t].batch \subseteq loc[t].batch
  BY <1>1
<1>3. ASSUME NEW i \in 1 .. MaxItems PROVE Placed(i)'
  <2>p. Placed(i) BY DEF OnceInv, PlacedInv
  <2>1. DelayedAs(i)' = DelayedAs(i) BY <1>u DEF DelayedAs
  <2>2. PoppedBy(i)' = PoppedBy(i)
    <3>1. ~Popped(t, i) /\ ~Popped(t, i)' BY <1>u, <1>2 DEF Popped, Moves
    <3> QED BY <3>1, <1>2, CarriedMoves
  <2>w. Waiting(i)' <=> Waiting(i) BY <1>u DEF Waiting
  <2>3. CASE i = e.id
    <3>1. Carries(t, i) BY <1>2, <2>3 DEF Carries
    <3>2. /\ Waiting(i) /\ CarriedBy(i) = {t}
          /\ QueuedAt(i) = {} /\ DelayedAs(i) = {} /\ PoppedBy(i) = {}
      BY <3>1, FoundThere
    <3>3. ~Carries(t, i)' BY <1>2, <2>3
    <3>4. CarriedBy(i)' = {} BY <3>3, <3>2, <1>2, CarriedMoves
    <3>5. QueuedAt(i)' = {Len(queue) + 1} BY <1>s, <1>2, <2>3, <3>2, AppendPlace
    <3>6. Only(QueuedAt(i), DelayedAs(i), CarriedBy(i), PoppedBy(i))'
      BY <3>2, <3>4, <3>5, <2>1, <2>2 DEF Only
    <3> QED BY <3>2, <3>6, <2>w DEF Placed
  <2>4. CASE i # e.id
    <3>1. Carries(t, i)' <=> Carries(t, i) BY <1>2, <2>4 DEF Carries
    <3>2. CarriedBy(i)' = CarriedBy(i) BY <3>1, <1>2, CarriedMoves
    <3>3. QueuedAt(i)' = QueuedAt(i) BY <1>s, <1>2, <2>4, AppendPlace
    <3> QED BY <2>p, <2>1, <2>2, <2>w, <3>2, <3>3, PlacedStays
  <2> QED BY <2>3, <2>4
<1>4. BatchInv' BY <1>2 DEF OnceInv, BatchInv, Moves
<1>5. HistoryInv' BY <1>u DEF OnceInv, HistoryInv
<1> QED BY <1>3, <1>4, <1>5 DEF OnceInv, PlacedInv

\* The submitter of a delayed callback puts it on the list of delayed ones.
LEMMA DelayStep ==
    ASSUME NEW t \in Threads, TypeInv, OnceInv, DelayEntry(t)
    PROVE  OnceInv'
<1> DEFINE e == loc[t].entry
<1>u. /\ UNCHANGED <<queue, calls, failed, nextId>> /\ pending' = pending \cup {e}
      /\ pc[t] = "delay" /\ inner[t] = "none"
  BY DEF DelayEntry, exList, base, At
<1>m. Moves(t, "arm", "none") /\ loc'[t] = loc[t]
  BY GotoEffect DEF DelayEntry, TypeInv
<1>b. loc[t].batch = {} BY <1>u DEF OnceInv, BatchInv
<1>t. InTransit(t) = {e} /\ InTransit(t)' = {} BY <1>u, <1>m, <1>b DEF InTransit, Moves
<1> HIDE DEF e
<1>1. ASSUME NEW i \in 1 .. MaxItems PROVE Placed(i)'
  <2>p. Placed(i) BY DEF OnceInv, PlacedInv
  <2>1. QueuedAt(i)' = QueuedAt(i) BY <1>u DEF QueuedAt
  <2>2. PoppedBy(i)' = PoppedBy(i)
    <3>1. ~Popped(t, i) /\ ~Popped(t, i)' BY <1>u, <1>m DEF Popped, Moves
    <3> QED BY <3>1, <1>m, CarriedMoves
  <2>w. Waiting(i)' <=> Waiting(i) BY <1>u DEF Waiting
  <2>c. ~Carries(t, i)' BY <1>t DEF Carries
  <2>3. CASE i = e.id
    <3>1. Carries(t, i) BY <1>t, <2>3 DEF Carries
    <3>2. /\ Waiting(i) /\ CarriedBy(i) = {t}
          /\ QueuedAt(i) = {} /\ DelayedAs(i) = {} /\ PoppedBy(i) = {}
      BY <3>1, FoundThere
    <3>3. CarriedBy(i)' = {} BY <2>c, <3>2, <1>m, CarriedMoves
    <3>4. DelayedAs(i)' = {e} BY <1>u, <2>3, <3>2 DEF DelayedAs
    <3>5. Only(DelayedAs(i), QueuedAt(i), CarriedBy(i), PoppedBy(i))'
      BY <3>2, <3>3, <3>4, <2>1, <2>2 DEF Only
    <3> QED BY <3>2, <3>5, <2>w DEF Placed
  <2>4. CASE i # e.id
    <3>1. ~Carries(t, i) BY <1>t, <2>4 DEF Carries
    <3>2. CarriedBy(i)' = CarriedBy(i) BY <3>1, <2>c, <1>m, CarriedMoves
    <3>3. DelayedAs(i)' = DelayedAs(i) BY <1>u, <2>4 DEF DelayedAs
    <3> QED BY <2>p, <2>1, <2>2, <2>w, <3>2, <3>3, PlacedStays
  <2> QED BY <2>3, <2>4
<1>2. BatchInv' BY <1>m, <1>b DEF OnceInv, BatchInv, Moves
<1>3. HistoryInv' BY <1>u DEF OnceInv, HistoryInv
<1> QED BY <1>1, <1>2, <1>3 DEF OnceInv, PlacedInv

\* remove_if: a cancelling thread or the timer takes some of the delayed callbacks.
LEMMA TakeStep ==
    ASSUME NEW t \in Threads, TypeInv, OnceInv,
           CancelPendingEntries(t) \/ PromoteReadyPendingCallbacks(t)
    PROVE  OnceInv'
<1>u. /\ UNCHANGED <<queue, calls, failed, nextId>>
      /\ pc[t] \in {"cancel", "promote"} /\ inner[t] = "none"
  BY DEF CancelPendingEntries, PromoteReadyPendingCallbacks, exList, base, At
<1>1. PICK B \in SUBSET pending :
         pending' = pending \ B /\ loc'[t].batch = B /\ Moves(t, "flush", "none")
  <2>1. CASE CancelPendingEntries(t)
    BY <2>1, CancelPendingEntriesEffect DEF CancelPendingEntries, RemoveIf
  <2>2. CASE PromoteReadyPendingCallbacks(t)
    BY <2>2, PromoteEffect DEF PromoteReadyPendingCallbacks, RemoveIf
  <2> QED BY <2>1, <2>2
<1>t. InTransit(t) = {} /\ InTransit(t)' = B
  <2>1. loc[t].batch = {} BY <1>u DEF OnceInv, BatchInv
  <2> QED BY <2>1, <1>u, <1>1 DEF InTransit, Moves
<1>2. ASSUME NEW i \in 1 .. MaxItems PROVE Placed(i)'
  <2>p. Placed(i) BY DEF OnceInv, PlacedInv
  <2>1. QueuedAt(i)' = QueuedAt(i) BY <1>u DEF QueuedAt
  <2>2. PoppedBy(i)' = PoppedBy(i)
    <3>1. ~Popped(t, i) /\ ~Popped(t, i)' BY <1>u, <1>1 DEF Popped, Moves
    <3> QED BY <3>1, <1>1, CarriedMoves
  <2>w. Waiting(i)' <=> Waiting(i) BY <1>u DEF Waiting
  <2>c. ~Carries(t, i) BY <1>t DEF Carries
  <2>3. ASSUME NEW e \in B, e.id = i PROVE Placed(i)'
    <3>1. /\ Waiting(i) /\ DelayedAs(i) = {e}
          /\ QueuedAt(i) = {} /\ CarriedBy(i) = {} /\ PoppedBy(i) = {}
      BY <1>1, <2>3, FoundThere
    <3>2. Carries(t, i)' BY <1>t, <2>3 DEF Carries
    <3>3. CarriedBy(i)' = {t} BY <3>1, <3>2, <1>1, CarriedMoves
    <3>4. DelayedAs(i)' = {} BY <1>1, <2>3, <3>1 DEF DelayedAs
    <3>5. Only(CarriedBy(i), QueuedAt(i), DelayedAs(i), PoppedBy(i))'
      BY <3>1, <3>3, <3>4, <2>1, <2>2 DEF Only
    <3> QED BY <3>1, <3>5, <2>w DEF Placed
  <2>4. CASE \A e \in B : e.id # i
    <3>1. ~Carries(t, i)' BY <1>t, <2>4 DEF Carries
    <3>2. CarriedBy(i)' = CarriedBy(i) BY <3>1, <2>c, <1>1, CarriedMoves
    <3>3. DelayedAs(i)' = DelayedAs(i) BY <1>1, <2>4 DEF DelayedAs
    <3> QED BY <2>p, <2>1, <2>2, <2>w, <3>2, <3>3, PlacedStays
  <2> QED BY <2>3, <2>4
<1>3. BatchInv'
  <2>1. \A d, e \in B : d.id = e.id /\ d.id \in 1 .. MaxItems => d = e
    <3> SUFFICES ASSUME NEW d \in B, NEW e \in B, d.id = e.id, d.id \in 1 .. MaxItems
                 PROVE  d = e
      OBVIOUS
    <3>1. DelayedAs(d.id) = {d} /\ DelayedAs(d.id) = {e} BY <1>1, FoundThere
    <3> QED BY <3>1
  <2> QED BY <1>1, <2>1 DEF OnceInv, BatchInv, Moves
<1>4. HistoryInv' BY <1>u DEF OnceInv, HistoryInv
<1> QED BY <1>2, <1>3, <1>4 DEF OnceInv, PlacedInv

\* A draining thread takes the first callback.
LEMMA PopStep ==
    ASSUME NEW t \in Threads, TypeInv, OnceInv, PopFront(t)
    PROVE  OnceInv'
<1>s. queue \in Seq(Entry) BY DEF TypeInv, SharedTypeOK
<1>u. UNCHANGED <<pending, calls, failed, nextId>> /\ inner[t] = "pop"
  BY DEF PopFront, exList, base
<1>b. loc[t].batch # {} => pc[t] = "flush" BY DEF OnceInv, BatchInv
<1>1. CASE queue = <<>>
  <2>1. /\ Moves(t, pc[t], "leave") /\ queue' = queue
        /\ loc'[t].batch = loc[t].batch /\ loc'[t].entry = loc[t].entry
    BY <1>1, PopFrontEffect DEF Keeps, Fields
  <2> QED BY <2>1, <1>u, <1>b, FrameStep
<1>2. CASE queue # <<>>
  <2> DEFINE h == Head(queue)
  <2>m. /\ Moves(t, pc[t], "invoke") /\ loc'[t].item = h /\ queue' = Tail(queue)
        /\ loc'[t].batch = loc[t].batch /\ loc'[t].entry = loc[t].entry
    BY <1>2, PopFrontEffect DEF Keeps, Fields
  <2> HIDE DEF h
  <2>t. InTransit(t)' = InTransit(t) BY <2>m DEF InTransit, Moves
  <2>3. ASSUME NEW i \in 1 .. MaxItems PROVE Placed(i)'
    <3>p. Placed(i) BY DEF OnceInv, PlacedInv
    <3>1. DelayedAs(i)' = DelayedAs(i) BY <1>u DEF DelayedAs
    <3>2. CarriedBy(i)' = CarriedBy(i)
      <4>1. Carries(t, i)' <=> Carries(t, i) BY <2>t DEF Carries
      <4> QED BY <4>1, <2>m, CarriedMoves
    <3>w. Waiting(i)' <=> Waiting(i) BY <1>u DEF Waiting
    <3>3. CASE i = h.id
      <4>1. 1 \in QueuedAt(i) BY <1>s, <1>2, <2>m, <3>3, TailPlace DEF h
      <4>2. /\ Waiting(i) /\ QueuedAt(i) = {1}
            /\ DelayedAs(i) = {} /\ CarriedBy(i) = {} /\ PoppedBy(i) = {}
        BY <4>1, FoundThere
      <4>3. QueuedAt(i)' = {} BY <1>s, <1>2, <2>m, <4>2, TailPlace
      <4>4. Popped(t, i)' BY <2>m, <3>3 DEF Popped, Moves
      <4>5. PoppedBy(i)' = {t} BY <4>2, <4>4, <2>m, CarriedMoves
      <4>6. Only(PoppedBy(i), QueuedAt(i), DelayedAs(i), CarriedBy(i))'
        BY <4>2, <4>3, <4>5, <3>1, <3>2 DEF Only
      <4> QED BY <4>2, <4>6, <3>w DEF Placed
    <3>4. CASE i # h.id
      <4>1. PoppedBy(i)' = PoppedBy(i)
        <5>1. ~Popped(t, i) /\ ~Popped(t, i)' BY <1>u, <2>m, <3>4 DEF Popped, Moves
        <5> QED BY <5>1, <2>m, CarriedMoves
      <4>2. CASE QueuedAt(i) = {}
        <5>1. QueuedAt(i)' = {} BY <1>s, <1>2, <2>m, <4>2, TailPlace
        <5> QED BY <3>p, <3>1, <3>2, <3>w, <4>1, <4>2, <5>1, PlacedStays
      <4>3. ASSUME NEW k \in QueuedAt(i) PROVE Placed(i)'
        <5>1. /\ Waiting(i) /\ QueuedAt(i) = {k}
              /\ DelayedAs(i) = {} /\ CarriedBy(i) = {} /\ PoppedBy(i) = {}
          BY <4>3, FoundThere
        <5>2. k # 1 BY <4>3, <3>4, <1>s, <1>2 DEF QueuedAt, h
        <5>3. QueuedAt(i)' = {k - 1} BY <1>s, <1>2, <2>m, <5>1, <5>2, TailPlace
        <5>4. Only(QueuedAt(i), DelayedAs(i), CarriedBy(i), PoppedBy(i))'
          BY <3>1, <3>2, <4>1, <5>1, <5>3 DEF Only
        <5> QED BY <5>1, <5>4, <3>w DEF Placed
      <4> QED BY <4>2, <4>3
    <3> QED BY <3>3, <3>4
  <2>4. BatchInv' BY <2>m DEF OnceInv, BatchInv, Moves
  <2>5. HistoryInv' BY <1>u DEF OnceInv, HistoryInv
  <2> QED BY <2>3, <2>4, <2>5 DEF OnceInv, PlacedInv
<1> QED BY <1>1, <1>2

\* ... and calls it back.
LEMMA InvokeStep ==
    ASSUME NEW t \in Threads, TypeInv, OnceInv, InvokeCallback(t)
    PROVE  OnceInv'
<1> DEFINE x == loc[t].item.id
<1>u. /\ UNCHANGED <<queue, pending, failed, nextId>> /\ inner[t] = "invoke"
      /\ calls' = [calls EXCEPT ![x] = @ + 1] /\ calls \in [1 .. MaxItems -> Nat]
  BY DEF InvokeCallback, exCtx, listVars, TypeInv, SharedTypeOK
<1>m. Moves(t, pc[t], "leave") /\ loc'[t] = loc[t]
  BY EnterEffect DEF InvokeCallback, TypeInv
<1>t. InTransit(t)' = InTransit(t) BY <1>m DEF InTransit, Moves
<1>1. ASSUME NEW i \in 1 .. MaxItems PROVE Placed(i)'
  <2>p. Placed(i) BY DEF OnceInv, PlacedInv
  <2>1. QueuedAt(i)' = QueuedAt(i) /\ DelayedAs(i)' = DelayedAs(i)
    BY <1>u DEF QueuedAt, DelayedAs
  <2>2. CarriedBy(i)' = CarriedBy(i)
    <3>1. Carries(t, i)' <=> Carries(t, i) BY <1>t DEF Carries
    <3> QED BY <3>1, <1>m, CarriedMoves
  <2>c. ~Popped(t, i)' BY <1>m DEF Popped, Moves
  <2>3. CASE i = x
    <3>1. Popped(t, i) BY <1>u, <2>3 DEF Popped
    <3>2. /\ Waiting(i) /\ PoppedBy(i) = {t}
          /\ QueuedAt(i) = {} /\ DelayedAs(i) = {} /\ CarriedBy(i) = {}
      BY <3>1, FoundThere
    <3>3. PoppedBy(i)' = {} BY <2>c, <3>2, <1>m, CarriedMoves
    <3>4. ~Waiting(i)' BY <1>u, <2>3, <3>2 DEF Waiting
    <3> QED BY <2>1, <2>2, <3>2, <3>3, <3>4 DEF Placed
  <2>4. CASE i # x
    <3>1. ~Popped(t, i) BY <2>4 DEF Popped
    <3>2. PoppedBy(i)' = PoppedBy(i) BY <3>1, <2>c, <1>m, CarriedMoves
    <3>3. Waiting(i)' <=> Waiting(i) BY <1>u, <2>4 DEF Waiting
    <3> QED BY <2>p, <2>1, <2>2, <3>2, <3>3, PlacedStays
  <2> QED BY <2>3, <2>4
<1>2. BatchInv' BY <1>m DEF OnceInv, BatchInv, Moves
<1>3. HistoryInv'
  <2>1. ASSUME NEW i \in 1 .. MaxItems, i = x
        PROVE  calls[i] = 0 /\ i < nextId /\ i \notin failed
    <3>1. Popped(t, i) BY <1>u, <2>1 DEF Popped
    <3> QED BY <3>1, FoundThere DEF Waiting
  <2>2. nextId \in Nat BY DEF TypeInv, SharedTypeOK
  <2>3. \A i \in 1 .. MaxItems : calls'[i] = IF i = x THEN 1 ELSE calls[i]
    BY <1>u, <2>1
  <2> HIDE DEF x
  <2> QED BY <1>u, <2>1, <2>2, <2>3 DEF OnceInv, HistoryInv
<1> QED BY <1>1, <1>2, <1>3 DEF OnceInv, PlacedInv

LEMMA NoMove == ASSUME OnceInv, Tick \/ UNCHANGED vars PROVE OnceInv'
<1>1. UNCHANGED <<queue, pending, calls, failed, nextId, pc, inner, loc>>
  BY DEF Tick, vars, exTime, base, listVars, histVars
<1>2. \A t \in Threads : InTransit(t)' = InTransit(t) BY <1>1 DEF InTransit
<1>3. ASSUME NEW i \in 1 .. MaxItems PROVE Placed(i)'
  <2>1. /\ QueuedAt(i)' = QueuedAt(i) /\ DelayedAs(i)' = DelayedAs(i)
        /\ CarriedBy(i)' = CarriedBy(i) /\ PoppedBy(i)' = PoppedBy(i)
        /\ Waiting(i)' <=> Waiting(i)
    BY <1>1, <1>2 DEF QueuedAt, DelayedAs, CarriedBy, PoppedBy, Waiting
  <2> QED BY <2>1, PlacedStays DEF OnceInv, PlacedInv
<1>4. BatchInv' /\ HistoryInv' BY <1>1 DEF OnceInv, BatchInv, HistoryInv
<1> QED BY <1>3, <1>4 DEF OnceInv, PlacedInv

LEMMA OnceInvariant == Spec => []OnceInv
<1>1. ASSUME TypeInv, OnceInv, [Next]_vars PROVE OnceInv'
  BY <1>1, FrameSteps, SubmitStep, RefuseStep, PushStep, DelayStep, TakeStep, PopStep,
     InvokeStep, NoMove DEF Next, Calls, Continue
<1> QED BY <1>1, InitOnce, TypeInvariant, PTL DEF Spec

(* Every callback that QueueItem accepts is invoked at most once, and      *)
(* until then is in exactly one place: m_queueList, m_pendingList, on its  *)
(* way between the two in the hands of one submitter, canceler or timer,   *)
(* or popped by one draining thread.  So no interleaving of AppendEntry,   *)
(* CancelPendingEntries, PromoteReadyPendingCallbacks and DrainOneItem     *)
(* loses or duplicates one, and one that was refused is never invoked.     *)
THEOREM CallbackOnce == Spec => []ExactlyOnce
<1>1. ASSUME TypeInv, OnceInv PROVE ExactlyOnce
  <2> SUFFICES ASSUME NEW i \in 1 .. nextId - 1
               PROVE  Copies(i) + calls[i] = IF i \in failed THEN 0 ELSE 1
    BY DEF ExactlyOnce
  <2>1. i \in 1 .. MaxItems /\ i < nextId
    BY <1>1, BoundsAssumption DEF OnceInv, HistoryInv, TypeInv, SharedTypeOK
  <2>2. Copies(i) = Cardinality(QueuedAt(i)) + Cardinality(DelayedAs(i))
                    + Cardinality(CarriedBy(i)) + Cardinality(PoppedBy(i))
    BY DEF Copies, QueuedAt, DelayedAs, CarriedBy, PoppedBy
  <2>3. Cardinality({}) = 0 BY FS_EmptySet
  <2>4. \A x : Cardinality({x}) = 1 BY FS_Singleton
  <2>5. Placed(i) BY <1>1, <2>1 DEF OnceInv, PlacedInv
  <2>6. calls[i] \in {0, 1} /\ (i \in failed => calls[i] = 0)
    BY <1>1, <2>1 DEF OnceInv, HistoryInv
  <2>7. CASE Waiting(i)
    <3>1. ASSUME NEW A, NEW B, NEW C, NEW D, Only(A, B, C, D)
          PROVE  Cardinality(A) = 1 /\ Cardinality(B) = 0 /\ Cardinality(C) = 0
                 /\ Cardinality(D) = 0
      BY <3>1, <2>3, <2>4 DEF Only
    <3>2. CASE Only(QueuedAt(i), DelayedAs(i), CarriedBy(i), PoppedBy(i))
      BY <2>2, <2>7, <3>1, <3>2 DEF Waiting
    <3>3. CASE Only(DelayedAs(i), QueuedAt(i), CarriedBy(i), PoppedBy(i))
      BY <2>2, <2>7, <3>1, <3>3 DEF Waiting
    <3>4. CASE Only(CarriedBy(i), QueuedAt(i), DelayedAs(i), PoppedBy(i))
      BY <2>2, <2>7, <3>1, <3>4 DEF Waiting
    <3>5. CASE Only(PoppedBy(i), QueuedAt(i), DelayedAs(i), CarriedBy(i))
      BY <2>2, <2>7, <3>1, <3>5 DEF Waiting
    <3> QED BY <2>5, <2>7, <3>2, <3>3, <3>4, <3>5 DEF Placed
  <2>8. CASE ~Waiting(i)
    <3>1. Copies(i) = 0 BY <2>2, <2>3, <2>5, <2>8 DEF Placed
    <3> QED BY <3>1, <2>1, <2>6, <2>8 DEF Waiting
  <2> QED BY <2>7, <2>8
<1> QED BY <1>1, OnceInvariant, TypeInvariant, PTL

-----------------------------------------------------------------------------
(* Draining and the end of a termination.                                  *)

\* Threads that m_processingCallback counts.
Draining == {t \in Threads : inner[t] \in {"pop", "invoke", "leave"}}

\* Threads that have seen the queue empty, and then also nobody draining.
SawEmpty == {t \in Threads : inner[t] \in {"check2", "signal", "terms"}}
SawIdle  == {t \in Threads : inner[t] \in {"signal", "terms"}}

CountedInv == processing = Cardinality(Draining)

\* What is queued, or popped, in spite of that has raced with the reads.
EmptyInv == SawEmpty # {} => \A k \in DOMAIN queue : queue[k].id \in raced

IdleInv ==
    SawIdle # {} => \A u \in Threads : inner[u] = "invoke" \/ InCallback(u)
                                          => loc[u].item.id \in raced

SignalInv == \A t \in Threads : loc[t].signal # {} => inner[t] = "terms"

DrainInv == CountedInv /\ EmptyInv /\ IdleInv /\ SignalInv

\* Nested labels at which a thread has nothing to do with either.
Outside == {"none", "notify", "drain", "check"}

LEMMA DrainingFinite == IsFiniteSet(Draining)
BY ThreadsAssumption, FS_Subset DEF Draining

LEMMA InitDrain == Init => DrainInv
<1> SUFFICES ASSUME Init PROVE DrainInv OBVIOUS
<1>1. \A t \in Threads : inner[t] = "none" /\ loc[t] = Fresh BY DEF Init
<1>2. Draining = {} /\ SawEmpty = {} /\ SawIdle = {}
  BY <1>1 DEF Draining, SawEmpty, SawIdle
<1>c. Cardinality({}) = 0 /\ processing = 0 BY FS_EmptySet DEF Init
<1>3. CountedInv BY <1>2, <1>c DEF CountedInv
<1>f. Fresh.signal = {} BY DEF Fresh
<1>4. SignalInv BY <1>1, <1>f DEF SignalInv
<1> QED BY <1>2, <1>3, <1>4 DEF DrainInv, EmptyInv, IdleInv

\* A push is noted in raced whenever somebody has seen the queue empty.
LEMMA PushEmpty ==
    ASSUME NEW e \in Entry, TypeInv, EmptyInv, PushQueue(e)
    PROVE  /\ raced \subseteq raced'
           /\ SawEmpty # {} => \A k \in DOMAIN queue' : queue'[k].id \in raced'
<1>1. raced \subseteq raced' BY DEF PushQueue
<1>2. ASSUME SawEmpty # {}, NEW k \in DOMAIN queue' PROVE queue'[k].id \in raced'
  <2>1. queue' = Append(queue, e) /\ raced' = raced \cup {e.id}
    BY <1>2 DEF PushQueue, SawEmpty
  <2>2. queue \in Seq(Entry) BY DEF TypeInv, SharedTypeOK
  <2>3. CASE k = Len(queue) + 1
    <3>1. queue'[k] = e BY <2>1, <2>2, <2>3
    <3> QED BY <3>1, <2>1
  <2>4. CASE k # Len(queue) + 1
    <3>1. k \in DOMAIN queue /\ queue'[k] = queue[k] BY <1>2, <2>1, <2>2, <2>4
    <3> QED BY <3>1, <1>2, <2>1 DEF EmptyInv
  <2> QED BY <2>3, <2>4
<1> QED BY <1>1, <1>2

LEMMA OutsideStep ==
    ASSUME NEW t \in Threads, NEW l, NEW n, TypeInv, DrainInv, Moves(t, l, n),
           inner[t] \in Outside, n \in Outside, processing' = processing,
           loc'[t].signal \subseteq loc[t].signal,
           \/ queue' = queue /\ raced' = raced
           \/ \E e \in Entry : PushQueue(e)
    PROVE  DrainInv'
<1>1. Draining' = Draining /\ SawEmpty' = SawEmpty /\ SawIdle' = SawIdle
  BY DEF Moves, Outside, Draining, SawEmpty, SawIdle
<1>2. raced \subseteq raced' BY PushEmpty DEF DrainInv
<1>3. CountedInv' BY <1>1 DEF DrainInv, CountedInv
<1>4. EmptyInv' BY <1>1, PushEmpty DEF DrainInv, EmptyInv
<1>5. IdleInv' BY <1>1, <1>2 DEF DrainInv, IdleInv, InCallback, Moves, Outside
<1>6. SignalInv' BY DEF DrainInv, SignalInv, Moves, Outside
<1> QED BY <1>3, <1>4, <1>5, <1>6 DEF DrainInv

\* The steps of the outer call, and the notification, are outside.
LEMMA OutsideSteps ==
    ASSUME NEW t \in Threads, TypeInv, DrainInv,
           \/ (\E c \in Contexts, w \in Delays : QueueItem(t, c, w))
           \/ (\E c \in Contexts : \/ PrepareTerminate(t, c) \/ SuspendTermination(t, c)
                                   \/ ResumeTermination(t, c) \/ Dispatch(t, c))
           \/ QueueItemFails(t) \/ AppendEntry(t) \/ DelayEntry(t) \/ LowerTimerDue(t)
           \/ StartTimer(t) \/ QueueItemReturns(t) \/ CancelPendingEntries(t)
           \/ (\E e \in loc[t].batch : FlushEntry(t, e)) \/ FlushDone(t)
           \/ CancelTermination(t) \/ Terminate(t) \/ TerminateAddSuspend(t)
           \/ ParkTermination(t) \/ SuspendVerify(t) \/ RemoveSuspend(t)
           \/ CollectTerminations(t) \/ (\E x \in loc[t].sched : ScheduleTermination(t, x))
           \/ ScheduleDone(t) \/ NotifyItemQueued(t)
           \/ PoolCallback(t) \/ PoolDrained(t) \/ PoolLeave(t)
           \/ Dispatched(t) \/ Wait(t) \/ Wake(t) \/ WaitTimesOut(t) \/ TimerFires(t)
           \/ SubmitPendingCallbacks(t) \/ RestartTimer(t) \/ RecheckTimerDue(t)
           \/ PromoteReadyPendingCallbacks(t) \/ RearmTimer(t) \/ ExchangeTimerDue(t)
           \/ StartTimerForNext(t) \/ ClearTimerDue(t)
    PROVE  DrainInv'
<1>s. ThreadTypeOK /\ loc[t] \in Locals BY DEF TypeInv, ThreadTypeOK
<1>f. Fresh.signal = {} BY DEF Fresh
<1>p. processing' = processing
  BY DEF QueueItem, PrepareTerminate, SuspendTermination, ResumeTermination, Dispatch,
     QueueItemFails, AppendEntry, DelayEntry, LowerTimerDue, StartTimer, QueueItemReturns,
     CancelPendingEntries, FlushEntry, FlushDone, CancelTermination, Terminate,
     TerminateAddSuspend, ParkTermination, SuspendVerify, RemoveSuspend, CollectTerminations,
     ScheduleTermination, ScheduleDone, NotifyItemQueued, PoolCallback, PoolDrained,
     PoolLeave, Dispatched, Wait, Wake, WaitTimesOut, TimerFires, SubmitPendingCallbacks,
     RestartTimer, RecheckTimerDue, PromoteReadyPendingCallbacks, RearmTimer,
     ExchangeTimerDue, StartTimerForNext, ClearTimerDue,
     exCtx, exList, exTerm, exDrain, exWake, exTime, shared, drainVars
<1>q. \/ queue' = queue /\ raced' = raced
      \/ \E e \in Entry : PushQueue(e)
  <2>1. CASE AppendEntry(t)
    BY <2>1 DEF AppendEntry, At, TypeInv, CarriesEntry
  <2>2. CASE \E e \in loc[t].batch : FlushEntry(t, e)
    <3>1. loc[t].batch \subseteq Entry BY <1>s DEF Locals
    <3> QED BY <2>2, <3>1 DEF FlushEntry
  <2>3. CASE ~AppendEntry(t) /\ ~ \E e \in loc[t].batch : FlushEntry(t, e)
    BY <2>3 DEF QueueItem, PrepareTerminate, SuspendTermination, ResumeTermination, Dispatch,
       QueueItemFails, DelayEntry, LowerTimerDue, StartTimer, QueueItemReturns,
       CancelPendingEntries, FlushDone, CancelTermination, Terminate,
       TerminateAddSuspend, ParkTermination, SuspendVerify, RemoveSuspend, CollectTerminations,
       ScheduleTermination, ScheduleDone, NotifyItemQueued, PoolCallback, PoolDrained,
       PoolLeave, Dispatched, Wait, Wake, WaitTimesOut, TimerFires, SubmitPendingCallbacks,
       RestartTimer, RecheckTimerDue, PromoteReadyPendingCallbacks, RearmTimer,
       ExchangeTimerDue, StartTimerForNext, ClearTimerDue,
       exCtx, exList, exTerm, exDrain, exWake, exTime, shared, listVars
  <2> QED BY <2>1, <2>2, <2>3
<1>c. ASSUME NEW l, NEW n, Moves(t, l, n), inner[t] \in {"none", "notify"}, n \in Outside,
             loc'[t].signal \subseteq loc[t].signal
      PROVE  DrainInv'
  BY <1>c, <1>p, <1>q, OutsideStep DEF Outside
<1>k. ASSUME NEW l, NEW n, NEW ch, Moves(t, l, n), inner[t] = "none",
             n \in {"none", "notify", "drain"}, Keeps(t, ch), "signal" \notin ch
      PROVE  DrainInv'
  <2>1. loc'[t].signal = loc[t].signal BY <1>k DEF Keeps, Fields
  <2> QED BY <1>k, <2>1, <1>c DEF Outside
<1>r. ASSUME NEW l, NEW n, NEW ch, Moves(t, l, n), inner[t] = "none",
             n \in {"none", "notify", "drain"}, FreshBut(t, ch), "signal" \notin ch
      PROVE  DrainInv'
  <2>1. loc'[t].signal = {} BY <1>r, <1>f DEF FreshBut, Fields
  <2> QED BY <1>r, <2>1, <1>c DEF Outside
<1>g. ASSUME NEW l, Goto(t, l), inner[t] = "none" PROVE DrainInv'
  <2>1. Moves(t, l, "none") /\ loc'[t] = IF l = "idle" THEN Fresh ELSE loc[t]
    BY <1>g, <1>s, GotoEffect
  <2>2. loc'[t].signal \subseteq loc[t].signal BY <2>1, <1>f
  <2> QED BY <1>g, <2>1, <2>2, <1>c DEF Outside
<1>e. ASSUME NEW n, Enter(t, n), inner[t] \in {"none", "notify"}, n \in Outside PROVE DrainInv'
  BY <1>e, <1>s, <1>c, EnterEffect
<1>1. CASE \/ QueueItemFails(t) \/ DelayEntry(t) \/ LowerTimerDue(t) \/ StartTimer(t)
           \/ FlushDone(t) \/ CancelTermination(t) \/ ParkTermination(t) \/ SuspendVerify(t)
           \/ RemoveSuspend(t) \/ ScheduleDone(t) \/ PoolLeave(t) \/ Dispatched(t) \/ Wake(t)
           \/ WaitTimesOut(t) \/ TimerFires(t) \/ RestartTimer(t) \/ RecheckTimerDue(t)
           \/ StartTimerForNext(t)
  <2>1. inner[t] = "none" /\ \E l : Goto(t, l)
    BY <1>1 DEF QueueItemFails, DelayEntry, LowerTimerDue, StartTimer, FlushDone,
       CancelTermination, ParkTermination, SuspendVerify, RemoveSuspend, ScheduleDone,
       PoolLeave, Dispatched, Wake, WaitTimesOut, TimerFires, RestartTimer, RecheckTimerDue,
       StartTimerForNext, At
  <2> QED BY <2>1, <1>g
<1>2. CASE NotifyItemQueued(t)
  BY <1>2, <1>e DEF NotifyItemQueued, AfterNotify, Outside
<1>3. ASSUME NEW c \in Contexts, NEW w \in Delays, QueueItem(t, c, w) PROVE DrainInv'
  BY <1>3, <1>r, QueueItemEffect DEF QueueItem, At
<1>4. ASSUME NEW c \in Contexts, PrepareTerminate(t, c) PROVE DrainInv'
  BY <1>4, <1>r, PrepareTerminateEffect DEF PrepareTerminate, At
<1>5. ASSUME NEW c \in Contexts,
             \/ SuspendTermination(t, c) \/ ResumeTermination(t, c) \/ Dispatch(t, c)
      PROVE  DrainInv'
  <2>1. PICK l, n : /\ inner[t] = "none" /\ n \in {"none", "drain"}
                    /\ Moves(t, l, n) /\ FreshBut(t, {"ctx"})
    BY <1>5, StartEffect DEF SuspendTermination, ResumeTermination, Dispatch, At
  <2> QED BY <2>1, <1>r
<1>6. CASE AppendEntry(t)
  BY <1>6, <1>s, <1>c, GoEffect DEF AppendEntry, At, Outside
<1>7. CASE QueueItemReturns(t)
  BY <1>7, <1>c, <1>k, <1>f, QueueItemReturnsEffect DEF QueueItemReturns, At, Outside
<1>8. CASE CancelPendingEntries(t)
  BY <1>8, <1>k, CancelPendingEntriesEffect DEF CancelPendingEntries, At
<1>9. CASE \E e \in loc[t].batch : FlushEntry(t, e)
  BY <1>9, <1>k, FlushEntryEffect DEF FlushEntry, At
<1>10. CASE Terminate(t) BY <1>10, <1>k, TerminateEffect DEF Terminate, At
<1>11. CASE TerminateAddSuspend(t)
  BY <1>11, <1>k, <1>c, TerminateAddSuspendEffect DEF TerminateAddSuspend, At, Outside
<1>12. CASE CollectTerminations(t)
  BY <1>12, <1>k, CollectTerminationsEffect DEF CollectTerminations, At
<1>13. CASE \E x \in loc[t].sched : ScheduleTermination(t, x)
  BY <1>13, <1>k, ScheduleTerminationEffect DEF ScheduleTermination, At
<1>14. CASE PoolCallback(t)
  BY <1>14, <1>c, <1>f, PoolCallbackEffect DEF PoolCallback, At, Outside
<1>15. CASE PoolDrained(t)
  <2>1. inner[t] = "none" /\ (Goto(t, "idle") \/ Goto(t, "unserial") \/ Enter(t, "drain"))
    BY <1>15 DEF PoolDrained, At
  <2> QED BY <2>1, <1>e, <1>g DEF Outside
<1>16. CASE Wait(t)
  <2>1. /\ inner[t] = "none"
        /\ Go(t, "dispatch", "drain", loc[t]) \/ Goto(t, "idle") \/ Goto(t, "blocked")
    BY <1>16 DEF Wait, At
  <2> QED BY <2>1, <1>s, <1>c, <1>g, GoEffect DEF Outside
<1>17. CASE SubmitPendingCallbacks(t)
  BY <1>17, <1>c, <1>k, <1>f, SubmitPendingCallbacksEffect
     DEF SubmitPendingCallbacks, At, Outside
<1>18. CASE PromoteReadyPendingCallbacks(t)
  BY <1>18, <1>k, PromoteEffect DEF PromoteReadyPendingCallbacks, At
<1>19. CASE RearmTimer(t)
  BY <1>19, <1>k, <1>c, RearmTimerEffect DEF RearmTimer, At, Outside
<1>20. CASE ExchangeTimerDue(t)
  BY <1>20, <1>k, <1>c, <1>f, ExchangeTimerDueEffect DEF ExchangeTimerDue, At, Outside
<1>21. CASE ClearTimerDue(t)
  BY <1>21, <1>k, <1>c, <1>f, ClearTimerDueEffect DEF ClearTimerDue, At, Outside
<1> QED BY <1>1, <1>2, <1>3, <1>4, <1>5, <1>6, <1>7, <1>8, <1>9, <1>10, <1>11, <1>12,
           <1>13, <1>14, <1>15, <1>16, <1>17, <1>18, <1>19, <1>20, <1>21

\* DrainOneItem and the steps it goes through.
LEMMA DrainSteps ==
    ASSUME NEW t \in Threads, TypeInv, DrainInv,
           \/ DrainOneItem(t) \/ PopFront(t) \/ InvokeCallback(t) \/ LeaveCallback(t)
           \/ CheckQueueEmpty(t) \/ CheckNotProcessing(t) \/ SignalTerminations(t)
           \/ (\E x \in loc[t].signal : TerminationCallback(t, x)) \/ SignalDone(t)
    PROVE  DrainInv'
<1> USE DEF exCtx, exList, exDrain, exWake, exTime, shared, base, drainVars, listVars
<1>s. ThreadTypeOK /\ loc[t] \in Locals /\ queue \in Seq(Entry) /\ processing \in Int
  BY DEF TypeInv, ThreadTypeOK, SharedTypeOK
<1>i. CountedInv /\ EmptyInv /\ IdleInv /\ SignalInv BY DEF DrainInv
<1>n. Cardinality(Draining) \in Nat BY DrainingFinite, FS_CardinalityType
<1>1. CASE DrainOneItem(t)
  <2>1. /\ Moves(t, pc[t], "pop") /\ loc'[t] = loc[t] /\ inner[t] = "drain"
        /\ processing' = processing + 1 /\ queue' = queue /\ raced' = raced
    BY <1>1, <1>s, EnterEffect DEF DrainOneItem
  <2>2. t \notin Draining /\ Draining' = Draining \cup {t} BY <2>1 DEF Moves, Draining
  <2>3. SawEmpty' = SawEmpty /\ SawIdle' = SawIdle BY <2>1 DEF Moves, SawEmpty, SawIdle
  <2>4. Cardinality(Draining \cup {t}) = Cardinality(Draining) + 1
    BY <2>2, DrainingFinite, FS_AddElement
  <2>5. CountedInv' BY <2>1, <2>2, <2>4, <1>i DEF CountedInv
  <2>6. EmptyInv' BY <2>1, <2>3, <1>i DEF EmptyInv
  <2>7. IdleInv' BY <2>1, <2>3, <1>i DEF IdleInv, InCallback, Moves
  <2>8. SignalInv' BY <2>1, <1>i DEF SignalInv, Moves
  <2> QED BY <2>5, <2>6, <2>7, <2>8 DEF DrainInv
<1>2. CASE PopFront(t)
  <2>1. inner[t] = "pop" /\ processing' = processing /\ raced' = raced BY <1>2 DEF PopFront
  <2>2. PICK n \in {"invoke", "leave"} : Moves(t, pc[t], n)
    BY <1>2, PopFrontEffect
  <2>3. loc'[t].signal = loc[t].signal
    BY <1>2, PopFrontEffect DEF Keeps, Fields
  <2>4. Draining' = Draining /\ SawEmpty' = SawEmpty /\ SawIdle' = SawIdle
    BY <2>1, <2>2 DEF Moves, Draining, SawEmpty, SawIdle
  <2>5. SawIdle \subseteq SawEmpty BY DEF SawEmpty, SawIdle
  <2>6. CountedInv' BY <2>1, <2>4, <1>i DEF CountedInv
  <2>7. SignalInv' BY <2>1, <2>2, <2>3, <1>i DEF SignalInv, Moves
  <2>8. CASE queue = <<>>
    <3>1. queue' = queue /\ inner'[t] = "leave" /\ loc'[t].popped = FALSE
      BY <1>2, <2>8, PopFrontEffect DEF Moves
    <3>2. EmptyInv' BY <3>1, <2>1, <2>4, <1>i DEF EmptyInv
    <3>3. IdleInv' BY <3>1, <2>1, <2>2, <2>4, <1>i DEF IdleInv, InCallback, Moves
    <3> QED BY <3>2, <3>3, <2>6, <2>7 DEF DrainInv
  <2>9. CASE queue # <<>>
    <3>1. queue' = Tail(queue) /\ inner'[t] = "invoke" /\ loc'[t].item = Head(queue)
      BY <1>2, <2>9, PopFrontEffect DEF Moves
    <3>2. /\ 1 \in DOMAIN queue /\ Head(queue) = queue[1]
          /\ \A k \in DOMAIN queue' : k + 1 \in DOMAIN queue /\ queue'[k] = queue[k + 1]
      BY <3>1, <2>9, <1>s
    <3>3. EmptyInv' BY <3>2, <2>1, <2>4, <1>i DEF EmptyInv
    <3>4. SawIdle # {} => loc'[t].item.id \in raced BY <3>1, <3>2, <2>5, <1>i DEF EmptyInv
    <3>5. IdleInv' BY <3>1, <3>4, <2>1, <2>2, <2>4, <1>i DEF IdleInv, InCallback, Moves
    <3> QED BY <3>3, <3>5, <2>6, <2>7 DEF DrainInv
  <2> QED BY <2>8, <2>9
<1>3. CASE InvokeCallback(t)
  <2>1. /\ Moves(t, pc[t], "leave") /\ loc'[t] = loc[t] /\ inner[t] = "invoke"
        /\ processing' = processing /\ queue' = queue /\ raced' = raced
    BY <1>3, <1>s, EnterEffect DEF InvokeCallback
  <2>2. Draining' = Draining /\ SawEmpty' = SawEmpty /\ SawIdle' = SawIdle
    BY <2>1 DEF Moves, Draining, SawEmpty, SawIdle
  <2>5. CountedInv' /\ EmptyInv' BY <2>1, <2>2, <1>i DEF CountedInv, EmptyInv
  <2>7. IdleInv' BY <2>1, <2>2, <1>i DEF IdleInv, InCallback, Moves
  <2>8. SignalInv' BY <2>1, <1>i DEF SignalInv, Moves
  <2> QED BY <2>5, <2>7, <2>8 DEF DrainInv
<1>4. CASE LeaveCallback(t)
  <2>1. /\ Moves(t, pc[t], "check") /\ loc'[t].signal = loc[t].signal /\ inner[t] = "leave"
        /\ processing' = processing - 1 /\ queue' = queue /\ raced' = raced
    BY <1>4, LeaveCallbackEffect DEF LeaveCallback, Keeps, Fields
  <2>2. t \in Draining /\ Draining' = Draining \ {t} BY <2>1 DEF Moves, Draining
  <2>3. SawEmpty' = SawEmpty /\ SawIdle' = SawIdle BY <2>1 DEF Moves, SawEmpty, SawIdle
  <2>4. Cardinality(Draining \ {t}) = Cardinality(Draining) - 1
    BY <2>2, DrainingFinite, FS_RemoveElement
  <2>5. CountedInv' BY <2>1, <2>2, <2>4, <1>i DEF CountedInv
  <2>6. EmptyInv' BY <2>1, <2>3, <1>i DEF EmptyInv
  <2>7. IdleInv' BY <2>1, <2>3, <1>i DEF IdleInv, InCallback, Moves
  <2>8. SignalInv' BY <2>1, <1>i DEF SignalInv, Moves
  <2> QED BY <2>5, <2>6, <2>7, <2>8 DEF DrainInv
\* Who enters check2 has just seen the queue empty ...
<1>5. CASE CheckQueueEmpty(t)
  <2>1. /\ inner[t] = "check" /\ loc'[t] = loc[t]
        /\ processing' = processing /\ queue' = queue /\ raced' = raced
        /\ \/ Moves(t, pc[t], "none")
           \/ Moves(t, pc[t], "check2") /\ queue = <<>>
    BY <1>5, <1>s, EnterEffect DEF CheckQueueEmpty, SeesEmpty
  <2>2. Draining' = Draining /\ SawIdle' = SawIdle BY <2>1 DEF Moves, Draining, SawIdle
  <2>5. CountedInv' BY <2>1, <2>2, <1>i DEF CountedInv
  <2>6. EmptyInv'
    <3>1. CASE queue = <<>> BY <3>1, <2>1 DEF EmptyInv
    <3>2. CASE queue # <<>>
      <4>1. SawEmpty' = SawEmpty BY <3>2, <2>1 DEF Moves, SawEmpty
      <4> QED BY <4>1, <2>1, <1>i DEF EmptyInv
    <3> QED BY <3>1, <3>2
  <2>7. IdleInv' BY <2>1, <2>2, <1>i DEF IdleInv, InCallback, Moves
  <2>8. SignalInv' BY <2>1, <1>i DEF SignalInv, Moves
  <2> QED BY <2>5, <2>6, <2>7, <2>8 DEF DrainInv
\* ... and who enters signal has just seen that nobody drains.
<1>6. CASE CheckNotProcessing(t)
  <2>1. /\ inner[t] = "check2" /\ loc'[t] = loc[t]
        /\ processing' = processing /\ queue' = queue /\ raced' = raced
        /\ \/ Moves(t, pc[t], "none")
           \/ Moves(t, pc[t], "signal") /\ processing = 0
    BY <1>6, <1>s, EnterEffect DEF CheckNotProcessing, SeesIdle
  <2>2. Draining' = Draining /\ SawEmpty' \subseteq SawEmpty
    BY <2>1 DEF Moves, Draining, SawEmpty
  <2>5. CountedInv' BY <2>1, <2>2, <1>i DEF CountedInv
  <2>6. EmptyInv' BY <2>1, <2>2, <1>i DEF EmptyInv
  <2>7. IdleInv'
    <3>1. CASE processing = 0
      <4>1. Draining = {} BY <3>1, <1>i, DrainingFinite, FS_EmptySet DEF CountedInv
      <4>2. \A u \in Threads : inner'[u] # "invoke" /\ inner'[u] # "leave"
        BY <4>1, <2>2 DEF Draining
      <4> QED BY <4>2 DEF IdleInv, InCallback
    <3>2. CASE processing # 0
      <4>1. SawIdle' = SawIdle BY <3>2, <2>1 DEF Moves, SawIdle
      <4> QED BY <3>2, <4>1, <2>1, <1>i DEF IdleInv, InCallback, Moves
    <3> QED BY <3>1, <3>2
  <2>8. SignalInv' BY <2>1, <1>i DEF SignalInv, Moves
  <2> QED BY <2>5, <2>6, <2>7, <2>8 DEF DrainInv
<1>7. ASSUME NEW n, Moves(t, pc[t], n), processing' = processing, queue' = queue,
             raced' = raced, inner[t] \in {"signal", "terms"}, n \in {"none", "terms"},
             loc'[t].signal # {} => n = "terms"
      PROVE  DrainInv'
  <2>1. Draining' = Draining /\ SawEmpty' \subseteq SawEmpty /\ SawIdle' \subseteq SawIdle
    BY <1>7 DEF Moves, Draining, SawEmpty, SawIdle
  <2>5. CountedInv' /\ EmptyInv' BY <1>7, <2>1, <1>i DEF CountedInv, EmptyInv
  <2>7. IdleInv' BY <1>7, <2>1, <1>i DEF IdleInv, InCallback, Moves
  <2>8. SignalInv' BY <1>7, <1>i DEF SignalInv, Moves
  <2> QED BY <2>5, <2>7, <2>8 DEF DrainInv
<1>8. CASE SignalTerminations(t)
  BY <1>8, <1>7, SignalTerminationsEffect DEF SignalTerminations
<1>9. CASE \E x \in loc[t].signal : TerminationCallback(t, x)
  BY <1>9, <1>7, TerminationCallbackEffect DEF TerminationCallback
<1>10. CASE SignalDone(t)
  BY <1>10, <1>7, <1>s, EnterEffect DEF SignalDone
<1> QED BY <1>1, <1>2, <1>3, <1>4, <1>5, <1>6, <1>8, <1>9, <1>10

LEMMA TickDrain == ASSUME DrainInv, Tick \/ UNCHANGED vars PROVE DrainInv'
<1>1. UNCHANGED <<inner, loc, queue, processing, raced>>
  BY DEF Tick, vars, exTime, listVars, drainVars, histVars
<1>2. Draining' = Draining /\ SawEmpty' = SawEmpty /\ SawIdle' = SawIdle
  BY <1>1 DEF Draining, SawEmpty, SawIdle
<1> QED BY <1>1, <1>2
        DEF DrainInv, CountedInv, EmptyInv, IdleInv, SignalInv, InCallback

LEMMA DrainInvariant == Spec => []DrainInv
<1>1. ASSUME TypeInv, DrainInv, [Next]_vars PROVE DrainInv'
  <2>1. ASSUME NEW t \in Threads,
               \/ Calls(t) \/ Continue(t)
               \/ QueueItemFails(t) \/ CancelTermination(t) \/ WaitTimesOut(t)
               \/ \E c \in Contexts : Dispatch(t, c) \/ ResumeTermination(t, c)
        PROVE  DrainInv'
    BY <1>1, <2>1, OutsideSteps, DrainSteps DEF Calls, Continue
  <2> QED BY <1>1, <2>1, TickDrain DEF Next
<1> QED BY <1>1, InitDrain, TypeInvariant, PTL DEF Spec

(* A termination callback runs only when every callback of its context has *)
(* returned, however many threads drain the port and in whatever mode: the *)
(* only exceptions are callbacks appended after DrainOneItem had found the *)
(* queue empty.  m_processingCallback counts exactly the threads between   *)
(* its increment and its decrement, which is what the second of the two    *)
(* reads relies on.                                                        *)
THEOREM TerminationLast == Spec => []TerminationAfterCallbacks
<1>1. DrainInv => TerminationAfterCallbacks
  <2> SUFFICES ASSUME DrainInv, NEW t \in Threads, NEW x \in loc[t].signal
               PROVE  /\ \A k \in DOMAIN queue : queue[k].id \in raced
                      /\ \A u \in Threads : inner[u] = "invoke" \/ InCallback(u)
                                               => loc[u].item.id \in raced
    BY DEF TerminationAfterCallbacks
  <2>1. inner[t] = "terms" BY DEF DrainInv, SignalInv
  <2>2. t \in SawEmpty /\ t \in SawIdle BY <2>1 DEF SawEmpty, SawIdle
  <2> QED BY <2>2 DEF DrainInv, EmptyInv, IdleInv
<1> QED BY <1>1, DrainInvariant, PTL

-----------------------------------------------------------------------------
(* Delayed callbacks.                                                      *)

TouchedInv == \A c \in Contexts : status[c] # "Active" => c \in touched

\* What a thread carries into the queue is due, or its context was canceled.
CarryInv ==
    \A t \in Threads :
        /\ loc[t].at <= now
        /\ \A e \in loc[t].batch : e.when <= now \/ e.ctx \in touched
        /\ pc[t] = "append" => loc[t].entry.when <= now
        /\ pc[t] \in {"cancel", "prepared"} => loc[t].ctx \in touched

EarlyInv == TouchedInv /\ CarryInv /\ NotEarly

LEMMA InitEarly == Init => EarlyInv
<1> SUFFICES ASSUME Init PROVE EarlyInv OBVIOUS
<1>1. \A t \in Threads : pc[t] = "idle" /\ loc[t] = Fresh BY DEF Init
<1>2. Fresh.at = 0 /\ Fresh.batch = {} BY DEF Fresh
<1>3. now = 0 /\ queue = <<>> /\ \A c \in Contexts : status[c] = "Active" BY DEF Init
<1> QED BY <1>1, <1>2, <1>3 DEF EarlyInv, TouchedInv, CarryInv, NotEarly

LEMMA EarlyStep ==
    ASSUME NEW t \in Threads, NEW l, NEW n, TypeInv, EarlyInv, Moves(t, l, n),
           now' = now, touched \subseteq touched',
           \A c \in Contexts : status'[c] # "Active" => status[c] # "Active" \/ c \in touched',
           loc'[t].at <= now,
           \A e \in loc'[t].batch : e.when <= now \/ e.ctx \in touched',
           l = "append" => loc'[t].entry.when <= now,
           l \in {"cancel", "prepared"} => loc'[t].ctx \in touched',
           \/ queue' = queue
           \/ queue # <<>> /\ queue' = Tail(queue)
           \/ \E e \in Entry : queue' = Append(queue, e) /\ (e.when <= now \/ e.ctx \in touched)
    PROVE  EarlyInv'
<1>s. queue \in Seq(Entry) BY DEF TypeInv, SharedTypeOK
<1>1. TouchedInv' BY DEF EarlyInv, TouchedInv
<1>2. CarryInv' BY DEF EarlyInv, CarryInv, Moves
<1>3. NotEarly'
  <2>1. CASE queue' = queue BY <2>1 DEF EarlyInv, NotEarly
  <2>2. CASE queue # <<>> /\ queue' = Tail(queue)
    <3>1. \A k \in DOMAIN queue' : k + 1 \in DOMAIN queue /\ queue'[k] = queue[k + 1]
      BY <2>2, <1>s
    <3> QED BY <3>1 DEF EarlyInv, NotEarly
  <2>3. ASSUME NEW e \in Entry, queue' = Append(queue, e), e.when <= now \/ e.ctx \in touched
        PROVE  NotEarly'
    <3>1. \A k \in DOMAIN queue' : \/ k \in DOMAIN queue /\ queue'[k] = queue[k]
                                   \/ queue'[k] = e
      BY <2>3, <1>s
    <3> QED BY <2>3, <3>1 DEF EarlyInv, NotEarly
  <2> QED BY <2>1, <2>2, <2>3
<1> QED BY <1>1, <1>2, <1>3 DEF EarlyInv

\* Steps that leave the statuses, the clock and the queue alone.
LEMMA QuietSteps ==
    ASSUME NEW t \in Threads, TypeInv, EarlyInv,
           \/ (\E c \in Contexts, w \in Delays : QueueItem(t, c, w))
           \/ (\E c \in Contexts : \/ SuspendTermination(t, c)
                                   \/ ResumeTermination(t, c) \/ Dispatch(t, c))
           \/ QueueItemFails(t) \/ DelayEntry(t) \/ LowerTimerDue(t)
           \/ StartTimer(t) \/ QueueItemReturns(t) \/ CancelPendingEntries(t)
           \/ FlushDone(t) \/ TerminateAddSuspend(t)
           \/ ParkTermination(t) \/ SuspendVerify(t) \/ RemoveSuspend(t)
           \/ CollectTerminations(t) \/ (\E x \in loc[t].sched : ScheduleTermination(t, x))
           \/ ScheduleDone(t) \/ NotifyItemQueued(t) \/ DrainOneItem(t) \/ InvokeCallback(t)
           \/ LeaveCallback(t) \/ CheckQueueEmpty(t) \/ CheckNotProcessing(t)
           \/ (\E x \in loc[t].signal : TerminationCallback(t, x)) \/ SignalDone(t)
           \/ PoolCallback(t) \/ PoolDrained(t) \/ PoolLeave(t)
           \/ Dispatched(t) \/ Wait(t) \/ Wake(t) \/ WaitTimesOut(t) \/ TimerFires(t)
           \/ SubmitPendingCallbacks(t) \/ RestartTimer(t) \/ RecheckTimerDue(t)
           \/ PromoteReadyPendingCallbacks(t) \/ RearmTimer(t) \/ ExchangeTimerDue(t)
           \/ StartTimerForNext(t) \/ ClearTimerDue(t)
    PROVE  EarlyInv'
<1>s. /\ ThreadTypeOK /\ loc[t] \in Locals /\ loc[t].ctx \in Contexts
      /\ now \in Nat /\ pending \subseteq Entry
  BY DEF TypeInv, ThreadTypeOK, SharedTypeOK, Locals
<1>f. Fresh.at = 0 /\ Fresh.batch = {} BY DEF Fresh
<1>i. TouchedInv /\ CarryInv BY DEF EarlyInv
<1>u. queue' = queue /\ status' = status /\ touched' = touched /\ now' = now
  BY DEF QueueItem, SuspendTermination, ResumeTermination, Dispatch,
     QueueItemFails, DelayEntry, LowerTimerDue, StartTimer, QueueItemReturns,
     CancelPendingEntries, FlushDone, TerminateAddSuspend, ParkTermination, SuspendVerify,
     RemoveSuspend, CollectTerminations, ScheduleTermination, ScheduleDone, NotifyItemQueued,
     DrainOneItem, InvokeCallback, LeaveCallback, CheckQueueEmpty, CheckNotProcessing,
     TerminationCallback, SignalDone, PoolCallback, PoolDrained,
     PoolLeave, Dispatched, Wait, Wake, WaitTimesOut, TimerFires, SubmitPendingCallbacks,
     RestartTimer, RecheckTimerDue, PromoteReadyPendingCallbacks, RearmTimer,
     ExchangeTimerDue, StartTimerForNext, ClearTimerDue, base,
     exCtx, exList, exTerm, exDrain, exWake, exTime, shared, listVars, ctxVars, timeVars
<1>c. ASSUME NEW l, NEW n, Moves(t, l, n), loc'[t].at <= now,
             \A e \in loc'[t].batch : e.when <= now \/ e.ctx \in touched,
             l = "append" => loc'[t].entry.when <= now,
             l \in {"cancel", "prepared"} => loc'[t].ctx \in touched
      PROVE  EarlyInv'
  BY <1>c, <1>u, EarlyStep
<1>k. ASSUME NEW l, NEW n, NEW ch, Moves(t, l, n), Keeps(t, ch), ch \cap {"at", "batch"} = {},
             l = "append" => loc'[t].entry.when <= now,
             l \in {"cancel", "prepared"} => loc'[t].ctx \in touched
      PROVE  EarlyInv'
  <2>1. loc'[t].at = loc[t].at /\ loc'[t].batch = loc[t].batch BY <1>k DEF Keeps, Fields
  <2> QED BY <1>k, <2>1, <1>c, <1>i DEF CarryInv
<1>n. ASSUME NEW n, NEW ch, Moves(t, pc[t], n), Keeps(t, ch),
             ch \cap {"at", "batch", "entry", "ctx"} = {}
      PROVE  EarlyInv'
  <2>1. loc'[t].entry = loc[t].entry /\ loc'[t].ctx = loc[t].ctx BY <1>n DEF Keeps, Fields
  <2> QED BY <1>n, <2>1, <1>k, <1>i DEF CarryInv
<1>r. ASSUME NEW l, NEW n, NEW ch, Moves(t, l, n), FreshBut(t, ch), ch \cap {"at", "batch"} = {},
             l = "append" => loc'[t].entry.when <= now, l \notin {"cancel", "prepared"}
      PROVE  EarlyInv'
  <2>1. loc'[t].at = 0 /\ loc'[t].batch = {} BY <1>r, <1>f DEF FreshBut, Fields
  <2> QED BY <1>r, <2>1, <1>c, <1>s
<1>x. ASSUME NEW l, NEW n, Moves(t, l, n), loc'[t] = loc[t] \/ loc'[t] = Fresh,
             l \notin {"append", "cancel", "prepared"}
      PROVE  EarlyInv'
  BY <1>x, <1>f, <1>c, <1>s, <1>i DEF CarryInv
<1>g. ASSUME NEW l, Goto(t, l), l \notin {"append", "cancel", "prepared"} PROVE EarlyInv'
  BY <1>g, <1>s, <1>x, GotoEffect
<1>e. ASSUME NEW n, Enter(t, n) PROVE EarlyInv'
  BY <1>e, <1>s, <1>c, <1>i, EnterEffect DEF CarryInv
<1>1. CASE \/ QueueItemFails(t) \/ DelayEntry(t) \/ LowerTimerDue(t) \/ StartTimer(t)
           \/ ParkTermination(t) \/ SuspendVerify(t)
           \/ RemoveSuspend(t) \/ PoolLeave(t) \/ Dispatched(t) \/ Wake(t)
           \/ WaitTimesOut(t) \/ TimerFires(t) \/ RestartTimer(t) \/ RecheckTimerDue(t)
           \/ StartTimerForNext(t)
  <2>1. \E l : Goto(t, l) /\ l \notin {"append", "cancel", "prepared"}
    BY <1>1 DEF QueueItemFails, DelayEntry, LowerTimerDue, StartTimer,
       ParkTermination, SuspendVerify, RemoveSuspend, PoolLeave, Dispatched, Wake,
       WaitTimesOut, TimerFires, RestartTimer, RecheckTimerDue, StartTimerForNext
  <2> QED BY <2>1, <1>g
<1>2. CASE FlushDone(t) \/ ScheduleDone(t)
  <2>1. loc[t].ret \in Returns BY <1>s DEF Locals
  <2> QED BY <1>2, <2>1, <1>g DEF FlushDone, ScheduleDone, Returns
<1>3. CASE \/ NotifyItemQueued(t) \/ DrainOneItem(t) \/ InvokeCallback(t)
           \/ CheckQueueEmpty(t) \/ CheckNotProcessing(t) \/ SignalDone(t)
  BY <1>3, <1>e DEF NotifyItemQueued, DrainOneItem, InvokeCallback,
     CheckQueueEmpty, CheckNotProcessing, SignalDone
<1>4. ASSUME NEW c \in Contexts, NEW w \in Delays, QueueItem(t, c, w) PROVE EarlyInv'
  <2>1. /\ Moves(t, IF w = 0 THEN "append" ELSE "delay", "none")
        /\ FreshBut(t, {"ctx", "entry"})
        /\ loc'[t].entry = [id |-> nextId, ctx |-> c, when |-> IF w = 0 THEN 0 ELSE now + w]
    BY <1>4, QueueItemEffect
  <2>2. w = 0 => loc'[t].entry.when <= now BY <2>1, <1>s
  <2> QED BY <2>1, <2>2, <1>r
<1>5. ASSUME NEW c \in Contexts,
             \/ SuspendTermination(t, c) \/ ResumeTermination(t, c) \/ Dispatch(t, c)
      PROVE  EarlyInv'
  <2>1. PICK l, n : /\ l \in {"verify", "resume", "dispatch"}
                    /\ Moves(t, l, n) /\ FreshBut(t, {"ctx"})
    BY <1>5, StartEffect DEF SuspendTermination, ResumeTermination, Dispatch
  <2> QED BY <2>1, <1>r
<1>6. CASE QueueItemReturns(t)
  <2>1. CASE Moves(t, "idle", "none") /\ loc'[t] = Fresh BY <2>1, <1>x
  <2>2. CASE /\ Moves(t, "cancel", "none") /\ Keeps(t, {"ret"})
             /\ status[loc[t].ctx] # "Active"
    <3>1. loc'[t].ctx = loc[t].ctx BY <2>2 DEF Keeps, Fields
    <3>2. loc'[t].ctx \in touched BY <2>2, <3>1, <1>s, <1>i DEF TouchedInv
    <3> QED BY <2>2, <3>2, <1>k
  <2> QED BY <1>6, <2>1, <2>2, QueueItemReturnsEffect
\* The callbacks Terminate flushes are those of a canceled context ...
<1>7. CASE CancelPendingEntries(t)
  <2>1. /\ Moves(t, "flush", "none") /\ Keeps(t, {"batch"})
        /\ loc'[t].batch = {e \in pending : e.ctx = loc[t].ctx} /\ pc[t] = "cancel"
    BY <1>7, CancelPendingEntriesEffect DEF CancelPendingEntries, At
  <2>2. loc'[t].at = loc[t].at BY <2>1 DEF Keeps, Fields
  <2>3. loc[t].ctx \in touched BY <2>1, <1>i DEF CarryInv
  <2> QED BY <2>1, <2>2, <2>3, <1>c, <1>i DEF CarryInv
\* ... and those the timer takes out are due.
<1>8. CASE PromoteReadyPendingCallbacks(t)
  <2>1. /\ Moves(t, "flush", "none") /\ Keeps(t, {"batch", "next", "ret"})
        /\ loc'[t].batch = {e \in pending : Ready(e, loc[t].at)}
    BY <1>8, PromoteEffect
  <2>2. loc'[t].at = loc[t].at BY <2>1 DEF Keeps, Fields
  <2>3. loc[t].at <= now /\ loc[t].at \in Nat BY <1>s, <1>i DEF CarryInv, Locals
  <2>4. \A e \in loc'[t].batch : e.when <= now
    BY <2>1, <2>3, <1>s DEF Ready, Entry
  <2> QED BY <2>1, <2>2, <2>3, <2>4, <1>c
<1>9. CASE TerminateAddSuspend(t)
  BY <1>9, <1>k, <1>x, TerminateAddSuspendEffect
<1>10. CASE CollectTerminations(t) BY <1>10, <1>k, CollectTerminationsEffect
<1>11. CASE \E x \in loc[t].sched : ScheduleTermination(t, x)
  BY <1>11, <1>k, ScheduleTerminationEffect
<1>12. CASE LeaveCallback(t) BY <1>12, <1>n, LeaveCallbackEffect
<1>13. CASE \E x \in loc[t].signal : TerminationCallback(t, x)
  BY <1>13, <1>n, TerminationCallbackEffect
<1>14. CASE PoolCallback(t) BY <1>14, <1>x, PoolCallbackEffect
<1>15. CASE PoolDrained(t) BY <1>15, <1>g, <1>e DEF PoolDrained
<1>16. CASE Wait(t) BY <1>16, <1>s, <1>x, <1>g, GoEffect DEF Wait
<1>17. CASE SubmitPendingCallbacks(t)
  <2>1. CASE Moves(t, "idle", "none") /\ loc'[t] = Fresh BY <2>1, <1>x
  <2>2. ASSUME NEW l \in {"restart", "promote"}, Moves(t, l, "none"),
               Keeps(t, {"due", "at"}), loc'[t].at = now
        PROVE  EarlyInv'
    <3>1. loc'[t].batch = loc[t].batch BY <2>2 DEF Keeps, Fields
    <3> QED BY <2>2, <3>1, <1>c, <1>s, <1>i DEF CarryInv
  <2> QED BY <1>17, <2>1, <2>2, SubmitPendingCallbacksEffect
<1>18. CASE RearmTimer(t)
  <2>1. CASE /\ Moves(t, "clear", "none") \/ Moves(t, "cas", "none")
             /\ loc'[t] = loc[t]
    BY <2>1, <1>x
  <2>2. CASE /\ Moves(t, "cancel", "none") /\ Keeps(t, {"ctx", "ret"})
             /\ loc[t].next # NoEntry /\ status[loc[t].next.ctx] # "Active"
             /\ loc'[t].ctx = loc[t].next.ctx
    <3>1. loc[t].next.ctx \in Contexts BY <2>2, <1>s DEF Locals, Entry
    <3>2. loc'[t].ctx \in touched BY <2>2, <3>1, <1>i DEF TouchedInv
    <3> QED BY <2>2, <3>2, <1>k
  <2> QED BY <1>18, <2>1, <2>2, RearmTimerEffect
<1>19. CASE ExchangeTimerDue(t) BY <1>19, <1>x, <1>k, ExchangeTimerDueEffect
<1>20. CASE ClearTimerDue(t)
  <2>1. CASE Moves(t, "idle", "none") /\ loc'[t] = Fresh BY <2>1, <1>x
  <2>2. CASE /\ Moves(t, "promote", "none") /\ Keeps(t, {"due", "at"}) /\ loc'[t].at = now
    <3>1. loc'[t].batch = loc[t].batch BY <2>2 DEF Keeps, Fields
    <3> QED BY <2>2, <3>1, <1>c, <1>s, <1>i DEF CarryInv
  <2> QED BY <1>20, <2>1, <2>2, ClearTimerDueEffect
<1> QED BY <1>1, <1>2, <1>3, <1>4, <1>5, <1>6, <1>7, <1>8, <1>9, <1>10, <1>11, <1>12,
           <1>13, <1>14, <1>15, <1>16, <1>17, <1>18, <1>19, <1>20

\* Steps on the queue, and steps that change a status.
LEMMA LoudSteps ==
    ASSUME NEW t \in Threads, TypeInv, EarlyInv,
           \/ AppendEntry(t) \/ (\E e \in loc[t].batch : FlushEntry(t, e)) \/ PopFront(t)
           \/ (\E c \in Contexts : PrepareTerminate(t, c)) \/ CancelTermination(t)
           \/ Terminate(t) \/ SignalTerminations(t)
    PROVE  EarlyInv'
<1> USE DEF exCtx, exList, base, ctxVars, listVars, timeVars
<1>s. /\ ThreadTypeOK /\ loc[t] \in Locals /\ loc[t].ctx \in Contexts /\ now \in Nat
      /\ status \in [Contexts -> Statuses] /\ loc[t].batch \subseteq Entry
  BY DEF TypeInv, ThreadTypeOK, SharedTypeOK, Locals
<1>f. Fresh.at = 0 /\ Fresh.batch = {} BY DEF Fresh
<1>i. TouchedInv /\ CarryInv BY DEF EarlyInv
<1>b. loc[t].at <= now /\ \A e \in loc[t].batch : e.when <= now \/ e.ctx \in touched
  BY <1>i DEF CarryInv
<1>1. CASE AppendEntry(t)
  <2>1. /\ Moves(t, "queued", "notify") /\ loc'[t] = loc[t] /\ pc[t] = "append"
        /\ queue' = Append(queue, loc[t].entry)
        /\ UNCHANGED <<status, touched, now>>
    BY <1>1, <1>s, GoEffect DEF AppendEntry, PushQueue, At
  <2>2. loc[t].entry \in Entry /\ loc[t].entry.when <= now
    BY <2>1, <1>i DEF TypeInv, CarriesEntry, CarryInv
  <2> QED BY <2>1, <2>2, <1>b, EarlyStep
<1>2. ASSUME NEW e \in loc[t].batch, FlushEntry(t, e) PROVE EarlyInv'
  <2>1. /\ Moves(t, "flush", "notify") /\ Keeps(t, {"batch"})
        /\ loc'[t].batch = loc[t].batch \ {e} /\ queue' = Append(queue, e)
        /\ UNCHANGED <<status, touched, now>>
    BY <1>2, FlushEntryEffect DEF FlushEntry, PushQueue
  <2>2. loc'[t].at = loc[t].at BY <2>1 DEF Keeps, Fields
  <2>3. e \in Entry /\ (e.when <= now \/ e.ctx \in touched) BY <1>s, <1>b
  <2> QED BY <2>1, <2>2, <2>3, <1>b, EarlyStep
<1>3. CASE PopFront(t)
  <2>1. PICK n : Moves(t, pc[t], n) BY <1>3, PopFrontEffect
  <2>2. /\ loc'[t].at = loc[t].at /\ loc'[t].batch = loc[t].batch
        /\ loc'[t].entry = loc[t].entry /\ loc'[t].ctx = loc[t].ctx
    BY <1>3, PopFrontEffect DEF Keeps, Fields
  <2>3. queue' = queue \/ (queue # <<>> /\ queue' = Tail(queue)) BY <1>3, PopFrontEffect
  <2>4. UNCHANGED <<status, touched, now>> BY <1>3 DEF PopFront
  <2> QED BY <2>1, <2>2, <2>3, <2>4, <1>b, <1>i, EarlyStep DEF CarryInv
<1>4. ASSUME NEW c \in Contexts, PrepareTerminate(t, c) PROVE EarlyInv'
  <2>1. /\ Moves(t, "prepared", "none") /\ FreshBut(t, {"ctx", "term"}) /\ loc'[t].ctx = c
        /\ touched' = touched \cup {c} /\ queue' = queue /\ now' = now
    BY <1>4, PrepareTerminateEffect DEF PrepareTerminate
  <2>2. \A d \in Contexts : d # c => status'[d] = status[d]
    BY <1>4, <1>s DEF PrepareTerminate
  <2>3. loc'[t].at = 0 /\ loc'[t].batch = {} BY <2>1, <1>f DEF FreshBut, Fields
  <2> QED BY <2>1, <2>2, <2>3, <1>s, EarlyStep
<1>5. CASE CancelTermination(t)
  <2>1. /\ Moves(t, "idle", "none") /\ loc'[t] = Fresh
        /\ UNCHANGED <<queue, touched, now>>
    BY <1>5, <1>s, GotoEffect DEF CancelTermination
  <2>2. \A d \in Contexts : status'[d] # "Active" => status[d] # "Active"
    BY <1>5, <1>s DEF CancelTermination, RolledBack
  <2> QED BY <2>1, <2>2, <1>f, <1>s, EarlyStep
<1>6. CASE Terminate(t)
  <2>1. /\ Moves(t, "cancel", "none") /\ Keeps(t, {"ret"}) /\ pc[t] = "prepared"
        /\ UNCHANGED <<queue, touched, now>>
    BY <1>6, TerminateEffect DEF Terminate, At
  <2>2. /\ loc'[t].at = loc[t].at /\ loc'[t].batch = loc[t].batch
        /\ loc'[t].ctx = loc[t].ctx
    BY <2>1 DEF Keeps, Fields
  <2>3. loc[t].ctx \in touched BY <2>1, <1>i DEF CarryInv
  <2>4. \A d \in Contexts : d # loc[t].ctx => status'[d] = status[d]
    BY <1>6, <1>s DEF Terminate
  <2> QED BY <2>1, <2>2, <2>3, <2>4, <1>b, EarlyStep
<1>7. CASE SignalTerminations(t)
  <2>1. /\ Moves(t, pc[t], "terms") /\ Keeps(t, {"signal"})
        /\ UNCHANGED <<queue, touched, now>>
    BY <1>7, SignalTerminationsEffect DEF SignalTerminations
  <2>2. /\ loc'[t].at = loc[t].at /\ loc'[t].batch = loc[t].batch
        /\ loc'[t].ctx = loc[t].ctx /\ loc'[t].entry = loc[t].entry
    BY <2>1 DEF Keeps, Fields
  <2>3. \A d \in Contexts : status'[d] # "Active" => status[d] # "Active"
    BY <1>7, <1>s DEF SignalTerminations, Terminal
  <2> QED BY <2>1, <2>2, <2>3, <1>b, <1>i, EarlyStep DEF CarryInv
<1> QED BY <1>1, <1>2, <1>3, <1>4, <1>5, <1>6, <1>7

LEMMA TickEarly == ASSUME TypeInv, EarlyInv, Tick \/ UNCHANGED vars PROVE EarlyInv'
<1>1. /\ UNCHANGED <<pc, loc, queue, status, touched>>
      /\ now \in Nat /\ (now' = now \/ now' = now + 1)
  BY DEF Tick, vars, exTime, listVars, histVars, ctxVars, timeVars, base, TypeInv, SharedTypeOK
<1>2. /\ queue \in Seq(Entry) /\ loc \in [Threads -> Locals]
      /\ \A t \in Threads : pc[t] = "append" => loc[t].entry \in Entry
  BY DEF TypeInv, SharedTypeOK, ThreadTypeOK, CarriesEntry
<1>3. \A t \in Threads : loc[t].at \in Nat /\ loc[t].batch \subseteq Entry BY <1>2 DEF Locals
<1>4. \A e \in Entry : e.when \in Nat BY DEF Entry
<1>5. \A n \in Nat : n <= now => n <= now' BY <1>1
<1>6. CarryInv' BY <1>1, <1>2, <1>3, <1>4, <1>5 DEF EarlyInv, CarryInv
<1>7. NotEarly'
  <2>1. \A k \in DOMAIN queue : queue[k] \in Entry BY <1>2
  <2> QED BY <2>1, <1>1, <1>4, <1>5 DEF EarlyInv, NotEarly
<1>8. TouchedInv' BY <1>1 DEF EarlyInv, TouchedInv
<1> QED BY <1>6, <1>7, <1>8 DEF EarlyInv

LEMMA EarlyInvariant == Spec => []EarlyInv
<1>1. ASSUME TypeInv, EarlyInv, [Next]_vars PROVE EarlyInv'
  <2>1. ASSUME NEW t \in Threads,
               \/ Calls(t) \/ Continue(t)
               \/ QueueItemFails(t) \/ CancelTermination(t) \/ WaitTimesOut(t)
               \/ \E c \in Contexts : Dispatch(t, c) \/ ResumeTermination(t, c)
        PROVE  EarlyInv'
    BY <1>1, <2>1, QuietSteps, LoudSteps DEF Calls, Continue
  <2> QED BY <1>1, <2>1, TickEarly DEF Next
<1> QED BY <1>1, InitEarly, TypeInvariant, PTL DEF Spec

(* No callback reaches the queue before it is due, unless its context was  *)
(* canceled: whatever the order in which submitters, terminations and      *)
(* timer callbacks move it, the timer compares with a clock it has read    *)
(* before, and only a context that somebody prepared to terminate is       *)
(* flushed.                                                                *)
THEOREM DelayHonoured == Spec => []NotEarly
<1>1. EarlyInv => NotEarly BY DEF EarlyInv
<1> QED BY <1>1, EarlyInvariant, PTL

-----------------------------------------------------------------------------
(* A serialized port.                                                      *)

\* Thread pool callbacks that m_processingSerializedTbCallback counts.
InPool == {t \in Threads : pc[t] \in {"pool", "unserial"}}

SerialInv ==
    mode = "Serialized" =>
        /\ serial = Cardinality(InPool)
        /\ \A t, u \in Threads : pc[t] = "pool" /\ pc[u] = "pool" => t = u
        /\ \A t \in Threads : /\ pc[t] # "pool" => inner[t] \in {"none", "notify"}
                              /\ pc[t] \notin {"dispatch", "wait", "blocked"}

LEMMA InPoolFinite == IsFiniteSet(InPool)
BY ThreadsAssumption, FS_Subset DEF InPool

LEMMA InitSerial == Init => SerialInv
<1> SUFFICES ASSUME Init PROVE SerialInv OBVIOUS
<1>1. serial = 0 /\ \A t \in Threads : pc[t] = "idle" /\ inner[t] = "none" BY DEF Init
<1>2. InPool = {} BY <1>1 DEF InPool
<1>3. Cardinality({}) = 0 BY FS_EmptySet
<1> QED BY <1>1, <1>2, <1>3 DEF SerialInv

\* Steps that neither enter nor leave the pool callback.
LEMMA BystanderStep ==
    ASSUME NEW t \in Threads, NEW l, NEW n, TypeInv, SerialInv, Moves(t, l, n),
           mode' = mode, serial' = serial,
           \/ l = pc[t] /\ (n \in {"none", "notify"} \/ inner[t] \notin {"none", "notify"})
           \/ /\ pc[t] \notin {"pool", "unserial"}
              /\ l \notin {"pool", "unserial", "dispatch", "wait", "blocked"}
              /\ n \in {"none", "notify"}
    PROVE  SerialInv'
<1>1. InPool' = InPool BY DEF Moves, InPool
<1> QED BY <1>1 DEF SerialInv, Moves

LEMMA BystanderSteps ==
    ASSUME NEW t \in Threads, TypeInv, SerialInv, mode = "Serialized", mode' = mode,
           \/ (\E c \in Contexts, w \in Delays : QueueItem(t, c, w))
           \/ (\E c \in Contexts : \/ PrepareTerminate(t, c) \/ SuspendTermination(t, c)
                                   \/ ResumeTermination(t, c))
           \/ QueueItemFails(t) \/ AppendEntry(t) \/ DelayEntry(t) \/ LowerTimerDue(t)
           \/ StartTimer(t) \/ QueueItemReturns(t) \/ CancelPendingEntries(t)
           \/ (\E e \in loc[t].batch : FlushEntry(t, e)) \/ FlushDone(t)
           \/ CancelTermination(t) \/ Terminate(t) \/ TerminateAddSuspend(t)
           \/ ParkTermination(t) \/ SuspendVerify(t) \/ RemoveSuspend(t)
           \/ CollectTerminations(t) \/ (\E x \in loc[t].sched : ScheduleTermination(t, x))
           \/ ScheduleDone(t) \/ NotifyItemQueued(t)
           \/ TimerFires(t)
           \/ SubmitPendingCallbacks(t) \/ RestartTimer(t) \/ RecheckTimerDue(t)
           \/ PromoteReadyPendingCallbacks(t) \/ RearmTimer(t) \/ ExchangeTimerDue(t)
           \/ StartTimerForNext(t) \/ ClearTimerDue(t)
           \/ DrainOneItem(t) \/ PopFront(t) \/ InvokeCallback(t) \/ LeaveCallback(t)
           \/ CheckQueueEmpty(t) \/ CheckNotProcessing(t) \/ SignalTerminations(t)
           \/ (\E x \in loc[t].signal : TerminationCallback(t, x)) \/ SignalDone(t)
    PROVE  SerialInv'
<1>s. ThreadTypeOK /\ loc[t] \in Locals BY DEF TypeInv, ThreadTypeOK
<1>u. serial' = serial
  BY DEF QueueItem, PrepareTerminate, SuspendTermination, ResumeTermination,
     QueueItemFails, AppendEntry, DelayEntry, LowerTimerDue, StartTimer, QueueItemReturns,
     CancelPendingEntries, FlushEntry, FlushDone, CancelTermination, Terminate,
     TerminateAddSuspend, ParkTermination, SuspendVerify, RemoveSuspend, CollectTerminations,
     ScheduleTermination, ScheduleDone, NotifyItemQueued, TimerFires, SubmitPendingCallbacks,
     RestartTimer, RecheckTimerDue, PromoteReadyPendingCallbacks, RearmTimer,
     ExchangeTimerDue, StartTimerForNext, ClearTimerDue, DrainOneItem, PopFront,
     InvokeCallback, LeaveCallback, CheckQueueEmpty, CheckNotProcessing, SignalTerminations,
     TerminationCallback, SignalDone,
     exCtx, exList, exTerm, exDrain, exWake, exTime, shared, drainVars
<1>c. ASSUME NEW l, NEW n, Moves(t, l, n), pc[t] \notin {"pool", "unserial"},
             l \notin {"pool", "unserial", "dispatch", "wait", "blocked"},
             n \in {"none", "notify"}
      PROVE  SerialInv'
  BY <1>c, <1>u, BystanderStep
<1>n. ASSUME NEW n, Moves(t, pc[t], n),
             n \in {"none", "notify"} \/ inner[t] \notin {"none", "notify"}
      PROVE  SerialInv'
  BY <1>n, <1>u, BystanderStep
<1>g. ASSUME NEW l, Goto(t, l), pc[t] \notin {"pool", "unserial"},
             l \notin {"pool", "unserial", "dispatch", "wait", "blocked"}
      PROVE  SerialInv'
  BY <1>g, <1>s, <1>c, GotoEffect
<1>e. ASSUME NEW n, Enter(t, n), n \in {"none", "notify"} \/ inner[t] \notin {"none", "notify"}
      PROVE  SerialInv'
  BY <1>e, <1>s, <1>n, EnterEffect
<1>1. CASE \/ QueueItemFails(t) \/ DelayEntry(t) \/ LowerTimerDue(t) \/ StartTimer(t)
           \/ CancelTermination(t) \/ ParkTermination(t) \/ SuspendVerify(t)
           \/ RemoveSuspend(t) \/ TimerFires(t) \/ RestartTimer(t) \/ RecheckTimerDue(t)
           \/ StartTimerForNext(t)
  <2>1. /\ pc[t] \notin {"pool", "unserial"}
        /\ \E l : Goto(t, l) /\ l \notin {"pool", "unserial", "dispatch", "wait", "blocked"}
    BY <1>1 DEF QueueItemFails, DelayEntry, LowerTimerDue, StartTimer,
       CancelTermination, ParkTermination, SuspendVerify, RemoveSuspend,
       TimerFires, RestartTimer, RecheckTimerDue, StartTimerForNext, At
  <2> QED BY <2>1, <1>g
<1>2. CASE FlushDone(t) \/ ScheduleDone(t)
  <2>1. loc[t].ret \in Returns BY <1>s DEF Locals
  <2>2. pc[t] \notin {"pool", "unserial"} BY <1>2 DEF FlushDone, ScheduleDone, At
  <2> QED BY <1>2, <2>1, <2>2, <1>g DEF FlushDone, ScheduleDone, Returns
<1>3. CASE NotifyItemQueued(t)
  BY <1>3, <1>e DEF NotifyItemQueued, AfterNotify
<1>4. CASE \/ DrainOneItem(t) \/ InvokeCallback(t) \/ CheckQueueEmpty(t)
           \/ CheckNotProcessing(t) \/ SignalDone(t)
  BY <1>4, <1>e DEF DrainOneItem, InvokeCallback, CheckQueueEmpty, CheckNotProcessing,
     SignalDone
<1>5. CASE \/ PopFront(t) \/ LeaveCallback(t) \/ SignalTerminations(t)
           \/ (\E x \in loc[t].signal : TerminationCallback(t, x))
  <2>1. inner[t] \notin {"none", "notify"}
    BY <1>5 DEF PopFront, LeaveCallback, SignalTerminations, TerminationCallback
  <2>2. \E n : Moves(t, pc[t], n)
    BY <1>5, PopFrontEffect, LeaveCallbackEffect, SignalTerminationsEffect,
       TerminationCallbackEffect
  <2> QED BY <2>1, <2>2, <1>n
<1>6. ASSUME NEW c \in Contexts, NEW w \in Delays, QueueItem(t, c, w) PROVE SerialInv'
  BY <1>6, <1>c, QueueItemEffect DEF QueueItem, At
<1>7. ASSUME NEW c \in Contexts, PrepareTerminate(t, c) PROVE SerialInv'
  BY <1>7, <1>c, PrepareTerminateEffect DEF PrepareTerminate, At
<1>8. ASSUME NEW c \in Contexts, SuspendTermination(t, c) \/ ResumeTermination(t, c)
      PROVE  SerialInv'
  BY <1>8, <1>c, StartEffect DEF SuspendTermination, ResumeTermination, At
<1>9. CASE AppendEntry(t) BY <1>9, <1>s, <1>c, GoEffect DEF AppendEntry, At
<1>10. CASE QueueItemReturns(t)
  BY <1>10, <1>c, QueueItemReturnsEffect DEF QueueItemReturns, At
<1>11. CASE CancelPendingEntries(t)
  BY <1>11, <1>c, CancelPendingEntriesEffect DEF CancelPendingEntries, At
<1>12. CASE \E e \in loc[t].batch : FlushEntry(t, e)
  BY <1>12, <1>c, FlushEntryEffect DEF FlushEntry, At
<1>13. CASE Terminate(t) BY <1>13, <1>c, TerminateEffect DEF Terminate, At
<1>14. CASE TerminateAddSuspend(t)
  BY <1>14, <1>c, TerminateAddSuspendEffect DEF TerminateAddSuspend, At
<1>15. CASE CollectTerminations(t)
  BY <1>15, <1>c, CollectTerminationsEffect DEF CollectTerminations, At
<1>16. CASE \E x \in loc[t].sched : ScheduleTermination(t, x)
  BY <1>16, <1>c, ScheduleTerminationEffect DEF ScheduleTermination, At
<1>17. CASE SubmitPendingCallbacks(t)
  BY <1>17, <1>c, SubmitPendingCallbacksEffect DEF SubmitPendingCallbacks, At
<1>18. CASE PromoteReadyPendingCallbacks(t)
  BY <1>18, <1>c, PromoteEffect DEF PromoteReadyPendingCallbacks, At
<1>19. CASE RearmTimer(t) BY <1>19, <1>c, RearmTimerEffect DEF RearmTimer, At
<1>20. CASE ExchangeTimerDue(t)
  BY <1>20, <1>c, ExchangeTimerDueEffect DEF ExchangeTimerDue, At
<1>21. CASE ClearTimerDue(t) BY <1>21, <1>c, ClearTimerDueEffect DEF ClearTimerDue, At
<1> QED BY <1>1, <1>2, <1>3, <1>4, <1>5, <1>6, <1>7, <1>8, <1>9, <1>10, <1>11, <1>12,
           <1>13, <1>14, <1>15, <1>16, <1>17, <1>18, <1>19, <1>20, <1>21

LEMMA PoolSteps ==
    ASSUME NEW t \in Threads, TypeInv, SerialInv, mode = "Serialized", mode' = mode,
           PoolCallback(t) \/ PoolDrained(t) \/ PoolLeave(t)
    PROVE  SerialInv'
<1> USE DEF exDrain, shared, exTime, drainVars
<1>s. ThreadTypeOK /\ serial \in Int BY DEF TypeInv, ThreadTypeOK, SharedTypeOK
<1>i. /\ serial = Cardinality(InPool)
      /\ \A v, u \in Threads : pc[v] = "pool" /\ pc[u] = "pool" => v = u
      /\ \A v \in Threads : /\ pc[v] # "pool" => inner[v] \in {"none", "notify"}
                            /\ pc[v] \notin {"dispatch", "wait", "blocked"}
  BY DEF SerialInv
<1>n. Cardinality(InPool) \in Nat BY InPoolFinite, FS_CardinalityType
<1>1. CASE PoolCallback(t)
  <2>1. serial' = serial + 1 /\ pc[t] = "idle" BY <1>1 DEF PoolCallback, At
  <2>2. \/ serial = 0 /\ Moves(t, "pool", "drain")
        \/ Moves(t, "unserial", "none")
    BY <1>1, PoolCallbackEffect DEF MayDrain
  <2>3. t \notin InPool /\ InPool' = InPool \cup {t} BY <2>1, <2>2 DEF Moves, InPool
  <2>4. Cardinality(InPool') = Cardinality(InPool) + 1
    BY <2>3, InPoolFinite, FS_AddElement
  <2>5. serial' = Cardinality(InPool') BY <2>1, <2>4, <1>i
  <2>6. serial = 0 => \A u \in Threads : pc[u] # "pool"
    <3>1. serial = 0 => InPool = {} BY <1>i, InPoolFinite, FS_EmptySet
    <3> QED BY <3>1 DEF InPool
  <2>7. \A v, u \in Threads : pc'[v] = "pool" /\ pc'[u] = "pool" => v = u
    BY <2>2, <2>6, <1>i DEF Moves
  <2>8. \A v \in Threads : /\ pc'[v] # "pool" => inner'[v] \in {"none", "notify"}
                           /\ pc'[v] \notin {"dispatch", "wait", "blocked"}
    BY <2>2, <1>i DEF Moves
  <2> QED BY <2>5, <2>7, <2>8 DEF SerialInv
<1>2. CASE PoolDrained(t)
  <2>1. /\ pc[t] = "pool" /\ serial' = serial
        /\ Enter(t, "drain") \/ Goto(t, "unserial")
    BY <1>2 DEF PoolDrained, At
  <2>2. \E l, n : /\ l \in {"pool", "unserial"} /\ Moves(t, l, n)
                  /\ l = "unserial" => n = "none"
    BY <2>1, <1>s, EnterEffect, GotoEffect
  <2>3. InPool' = InPool BY <2>1, <2>2 DEF Moves, InPool
  <2>7. \A v, u \in Threads : pc'[v] = "pool" /\ pc'[u] = "pool" => v = u
    BY <2>1, <2>2, <1>i DEF Moves
  <2>8. \A v \in Threads : /\ pc'[v] # "pool" => inner'[v] \in {"none", "notify"}
                           /\ pc'[v] \notin {"dispatch", "wait", "blocked"}
    BY <2>2, <1>i DEF Moves
  <2> QED BY <2>1, <2>3, <2>7, <2>8, <1>i DEF SerialInv
<1>3. CASE PoolLeave(t)
  <2>1. pc[t] = "unserial" /\ serial' = serial - 1 /\ Moves(t, "idle", "none")
    BY <1>3, <1>s, GotoEffect DEF PoolLeave, At
  <2>3. t \in InPool /\ InPool' = InPool \ {t} BY <2>1 DEF Moves, InPool
  <2>4. Cardinality(InPool') = Cardinality(InPool) - 1
    BY <2>3, InPoolFinite, FS_RemoveElement
  <2>5. serial' = Cardinality(InPool') BY <2>1, <2>4, <1>i
  <2>7. \A v, u \in Threads : pc'[v] = "pool" /\ pc'[u] = "pool" => v = u
    BY <2>1, <1>i DEF Moves
  <2>8. \A v \in Threads : /\ pc'[v] # "pool" => inner'[v] \in {"none", "notify"}
                           /\ pc'[v] \notin {"dispatch", "wait", "blocked"}
    BY <2>1, <1>i DEF Moves
  <2> QED BY <2>5, <2>7, <2>8 DEF SerialInv
<1> QED BY <1>1, <1>2, <1>3

LEMMA ModeFixed == ASSUME [Next]_vars PROVE mode' = mode
<1>1. CASE Tick \/ UNCHANGED vars BY <1>1 DEF Tick, vars
<1>2. ASSUME NEW t \in Threads, Calls(t) PROVE mode' = mode
  BY <1>2 DEF Calls, QueueItem, PrepareTerminate, SuspendTermination, Go
<1>3. ASSUME NEW t \in Threads, Continue(t) PROVE mode' = mode
  BY <1>3 DEF Continue, AppendEntry, DelayEntry, LowerTimerDue, StartTimer, QueueItemReturns,
     CancelPendingEntries, FlushEntry, FlushDone, Terminate, TerminateAddSuspend,
     ParkTermination, SuspendVerify, RemoveSuspend, CollectTerminations, ScheduleTermination,
     ScheduleDone, NotifyItemQueued, DrainOneItem, PopFront, InvokeCallback, LeaveCallback,
     CheckQueueEmpty, CheckNotProcessing, SignalTerminations, TerminationCallback, SignalDone,
     PoolCallback, PoolDrained, PoolLeave, Dispatched, Wait, Wake, TimerFires,
     SubmitPendingCallbacks, RestartTimer, RecheckTimerDue, PromoteReadyPendingCallbacks,
     RearmTimer, ExchangeTimerDue, StartTimerForNext, ClearTimerDue, Go, Goto, Enter
<1>4. ASSUME NEW t \in Threads,
             \/ QueueItemFails(t) \/ CancelTermination(t) \/ WaitTimesOut(t)
             \/ \E c \in Contexts : Dispatch(t, c) \/ ResumeTermination(t, c)
      PROVE  mode' = mode
  BY <1>4 DEF QueueItemFails, CancelTermination, WaitTimesOut, Dispatch, ResumeTermination,
     Go, Goto
<1> QED BY <1>1, <1>2, <1>3, <1>4 DEF Next

(* A SerializedThreadPool port that nobody dispatches by hand runs one     *)
(* callback at a time, however many thread pool callbacks are under way:   *)
(* only the one that raised m_processingSerializedTbCallback from zero     *)
(* drains.  (Dispatch drains in every mode, the port does not refuse it,   *)
(* so the hypothesis is needed.)                                           *)
THEOREM OneAtATime == (Dispatchers = {}) => (Spec => []SerializedOneAtATime)
<1> SUFFICES ASSUME Dispatchers = {} PROVE Spec => []SerializedOneAtATime OBVIOUS
<1>1. ASSUME TypeInv, SerialInv, [Next]_vars PROVE SerialInv'
  <2>m. mode' = mode BY <1>1, ModeFixed
  <2>1. CASE mode # "Serialized" BY <2>1, <2>m DEF SerialInv
  <2>2. CASE mode = "Serialized"
    <3>1. ASSUME NEW t \in Threads,
                 \/ Calls(t) \/ Continue(t)
                 \/ QueueItemFails(t) \/ CancelTermination(t) \/ WaitTimesOut(t)
                 \/ \E c \in Contexts : Dispatch(t, c) \/ ResumeTermination(t, c)
          PROVE  SerialInv'
      <4>1. ~ \E c \in Contexts : Dispatch(t, c) BY DEF Dispatch
      <4>2. ~(Dispatched(t) \/ Wait(t) \/ Wake(t) \/ WaitTimesOut(t))
        <5>1. pc[t] \notin {"dispatch", "wait", "blocked"} BY <1>1, <2>2 DEF SerialInv
        <5> QED BY <5>1 DEF Dispatched, Wait, Wake, WaitTimesOut, At
      <4> QED BY <1>1, <2>2, <2>m, <3>1, <4>1, <4>2, BystanderSteps, PoolSteps
              DEF Calls, Continue
    <3>2. ASSUME Tick \/ UNCHANGED vars PROVE SerialInv'
      <4>1. UNCHANGED <<pc, inner, serial>> BY <3>2 DEF Tick, vars, exTime, drainVars
      <4>2. InPool' = InPool BY <4>1 DEF InPool
      <4> QED BY <1>1, <4>1, <4>2, <2>m DEF SerialInv
    <3> QED BY <1>1, <3>1, <3>2 DEF Next
  <2> QED BY <2>1, <2>2
<1>2. SerialInv => SerializedOneAtATime
  BY DEF SerialInv, SerializedOneAtATime, InCallback
<1> QED BY <1>1, <1>2, InitSerial, TypeInvariant, PTL DEF Spec
=============================================================================
