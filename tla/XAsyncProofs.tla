---------------------------- MODULE XAsyncProofs ----------------------------
(* Proofs about XAsync.                                                    *)
EXTENDS XAsync, FiniteSetTheorems, TLAPS

-----------------------------------------------------------------------------
(* Control: where a thread can go in a step.                               *)

\* The places that pending calls return to.
Backs == {"begun", "release", "worked", "rescheduled", "afterWork", "cancelDone",
          "checkStatus", "setCleanup"}

\* The places at which a thread is about to tell the world of the completion.
Signalling == {"signal", "notify", "signalWait", "resume"}

Stacks == [Threads -> Seq(Backs)]

CtlTypes ==
    /\ pc \in [Threads -> PCs] /\ stack \in Stacks /\ loc \in [Threads -> Locals]
    /\ sig \in {"none", "ASYB", "zero", "ASRB"} /\ status \in Results
    /\ hasCallback \in BOOLEAN
    /\ attached \in BOOLEAN
    /\ satisfied \in BOOLEAN
    /\ signals \in Nat /\ notified \in Nat
    /\ queue \in {"Active", "Canceled", "Terminating", "Closed"}
    /\ other \in {"none", "held", "resuming", "collected", "done"} /\ aborted \in BOOLEAN

LEMMA StackFacts ==
    ASSUME NEW s \in Seq(Backs)
    PROVE  /\ \A b \in Backs : <<b>> \o s \in Seq(Backs)
           /\ s # <<>> => Head(s) \in Backs /\ Tail(s) \in Seq(Backs)
           /\ <<>> \in Seq(Backs)
<1>1. ASSUME NEW b \in Backs PROVE <<b>> \o s \in Seq(Backs)
  <2>1. <<b>> \in Seq(Backs) OBVIOUS
  <2> HIDE DEF Backs
  <2> QED BY <2>1
<1>2. ASSUME s # <<>> PROVE Head(s) \in Backs /\ Tail(s) \in Seq(Backs)
  BY <1>2
<1> QED BY <1>1, <1>2

\* Thread t goes to label l.
Moves(t, l) == pc' = [pc EXCEPT ![t] = l] /\ stack' \in Stacks

LEMMA GotoMoves ==
    ASSUME CtlTypes, NEW t \in Threads, NEW l, Goto(t, l)
    PROVE  Moves(t, l)
BY DEF Goto, Moves, CtlTypes

LEMMA CallMoves ==
    ASSUME CtlTypes, NEW t \in Threads, NEW l, NEW b \in Backs, Call(t, l, b)
    PROVE  Moves(t, l)
<1>1. stack[t] \in Seq(Backs) BY DEF CtlTypes, Stacks
<1>2. <<b>> \o stack[t] \in Seq(Backs) BY <1>1, StackFacts
<1> QED BY <1>2 DEF Call, Moves, CtlTypes, Stacks

LEMMA ReturnMoves ==
    ASSUME CtlTypes, NEW t \in Threads, Return(t)
    PROVE  \E l \in Backs \cup {"idle"} : Moves(t, l)
<1>1. stack[t] \in Seq(Backs) BY DEF CtlTypes, Stacks
<1> DEFINE l == IF stack[t] = <<>> THEN "idle" ELSE Head(stack[t])
           s == IF stack[t] = <<>> THEN <<>> ELSE Tail(stack[t])
<1>2. l \in Backs \cup {"idle"} /\ s \in Seq(Backs) BY <1>1, StackFacts
<1>3. pc' = [pc EXCEPT ![t] = l] /\ stack' = [stack EXCEPT ![t] = s] BY DEF Return
<1> HIDE DEF l, s
<1>4. Moves(t, l) BY <1>2, <1>3 DEF Moves, CtlTypes, Stacks
<1> QED BY <1>2, <1>4

\* Only the locals of thread t change.
Keeps(t) == loc' \in [Threads -> Locals] /\ \A u \in Threads \ {t} : loc'[u] = loc[u]

LEMMA SameKeeps ==
    ASSUME CtlTypes, UNCHANGED loc, NEW t \in Threads
    PROVE  Keeps(t) /\ loc'[t] = loc[t]
BY DEF CtlTypes, Keeps

LEMMA RetKeeps ==
    ASSUME CtlTypes, NEW t \in Threads, NEW r \in Results, loc' = [loc EXCEPT ![t].ret = r]
    PROVE  Keeps(t) /\ loc'[t].result = loc[t].result
BY DEF CtlTypes, Keeps, Locals

LEMMA CanceledKeeps ==
    ASSUME CtlTypes, NEW t \in Threads, NEW b \in BOOLEAN, loc' = [loc EXCEPT ![t].canceled = b]
    PROVE  Keeps(t)
BY DEF CtlTypes, Keeps, Locals

LEMMA CleaningKeeps ==
    ASSUME CtlTypes, NEW t \in Threads, NEW b \in BOOLEAN, loc' = [loc EXCEPT ![t].cleaning = b]
    PROVE  Keeps(t)
BY DEF CtlTypes, Keeps, Locals

LEMMA CallCompleteMoves ==
    ASSUME CtlTypes, NEW t \in Threads, NEW block \in {"user", "provider"},
           NEW result \in Results, NEW size \in BOOLEAN, NEW back \in Backs,
           CallComplete(t, block, result, size, back)
    PROVE  Moves(t, "complete") /\ Keeps(t) /\ loc'[t].result = result
<1>1. Moves(t, "complete") BY CallMoves DEF CallComplete
<1>2. loc' = [loc EXCEPT ![t].async = block, ![t].result = result, ![t].required = size]
  BY DEF CallComplete
<1>3. Keeps(t) /\ loc'[t].result = result BY <1>2 DEF CtlTypes, Keeps, Locals
<1> QED BY <1>1, <1>3

-----------------------------------------------------------------------------
(* The block and the completion.                                           *)

\* Before XAsyncBegin nothing is under way.
Fresh ==
    /\ status = "pending" /\ attached = FALSE /\ \A t \in Threads : pc[t] = "idle"
    /\ held = 0 /\ workQ = 0 /\ complQ = 0

\* The block names its state as long as its signature says so, and a state is taken off
\* the block only when the operation has completed.
BlockInv ==
    /\ sig = "none" => Fresh
    /\ attached <=> sig = "ASYB"
    /\ sig \in {"zero", "ASRB"} => status # "pending"
    /\ \A t \in Threads :
          /\ pc[t] = "complete" => loc[t].result # "pending"
          /\ pc[t] \in {"getOp", "extract"} => sig \in {"ASYB", "ASRB"} /\ status # "pending"

Signaller(t) == pc[t] \in Signalling

\* What has happened and what has not, by where the completion stands: with the thread that
\* completed, on the Completion port, in the callback, or on its way to the waiters.
SignalStage(t) ==
    /\ pc[t] = "signal" => notified = 0 /\ ~satisfied
    /\ pc[t] = "notify" => notified = 1 /\ ~satisfied
    /\ pc[t] = "signalWait" => ~satisfied /\ (hasCallback => notified = 1)
    /\ pc[t] = "resume" => satisfied

\* The completion is one token: while the operation is pending nobody has it, afterwards
\* one thread or the Completion port, until the termination of the queue is resumed.
TokenInv ==
    /\ held \in {0, 1} /\ complQ \in {0, 1} /\ notified \in {0, 1}
    /\ \A t, u \in Threads : Signaller(t) /\ Signaller(u) => t = u
    /\ \A t \in Threads : Signaller(t) => status # "pending" /\ held = 1 /\ complQ = 0
    /\ \A t \in Threads : SignalStage(t)
    /\ complQ = 1 => status # "pending" /\ held = 1 /\ hasCallback /\ notified = 0 /\ ~satisfied
    /\ status = "pending" => notified = 0 /\ ~satisfied
    /\ status = "pending" /\ sig # "none" => held = 1
    /\ held = 1 /\ status # "pending" => complQ = 1 \/ \E t \in Threads : Signaller(t)
    /\ queue = "Closed" => held = 0 \/ other = "collected"
    /\ aborted => other = "collected"
    /\ signals = (IF satisfied THEN 1 ELSE 0)
    /\ satisfied => (hasCallback => notified = 1)

SignalVars == <<hasCallback, sig, status, attached, held, complQ, satisfied, signals,
                notified, queue, other, aborted>>

\* A step of thread t that has nothing to do with the completion.
Quiet(t) ==
    /\ UNCHANGED SignalVars /\ Keeps(t) /\ sig # "none"
    /\ \E l \in PCs \ Signalling :
          /\ Moves(t, l) /\ pc[t] \notin Signalling
          /\ l = "complete" => loc'[t].result # "pending"
          /\ l \in {"getOp", "extract"} =>
                (attached /\ status # "pending") \/ pc[t] \in {"getOp", "extract"}

LEMMA LabelFacts ==
    /\ Backs \subseteq PCs \ Signalling /\ "idle" \in PCs \ Signalling
    /\ Signalling \subseteq PCs
    /\ \A l \in Backs \cup {"idle"} : l \notin {"complete", "getOp", "extract"}
BY DEF Backs, PCs, Signalling

LEMMA ReturnQuiet ==
    ASSUME CtlTypes, NEW t \in Threads, sig # "none", UNCHANGED SignalVars, Keeps(t),
           pc[t] \notin Signalling, Return(t)
    PROVE  Quiet(t)
BY ReturnMoves, LabelFacts DEF Quiet

LEMMA GotoQuiet ==
    ASSUME CtlTypes, NEW t \in Threads, sig # "none", UNCHANGED SignalVars, Keeps(t),
           pc[t] \notin Signalling,
           NEW l \in PCs \ (Signalling \cup {"complete", "getOp", "extract"}), Moves(t, l)
    PROVE  Quiet(t)
BY DEF Quiet

LEMMA CompleteQuiet ==
    ASSUME CtlTypes, NEW t \in Threads, sig # "none", UNCHANGED SignalVars,
           pc[t] \notin Signalling,
           NEW block \in {"user", "provider"}, NEW result \in {"ok", "fail", "abort"},
           NEW size \in BOOLEAN, NEW back \in Backs, CallComplete(t, block, result, size, back)
    PROVE  Quiet(t)
<1>1. Moves(t, "complete") /\ Keeps(t) /\ loc'[t].result = result
  BY CallCompleteMoves DEF Results
<1>2. "complete" \in PCs \ Signalling BY DEF PCs, Signalling
<1> QED BY <1>1, <1>2 DEF Quiet

\* Where a thread is in the library, the operation was begun.
LEMMA BusyBegun ==
    ASSUME BlockInv, NEW t \in Threads, pc[t] # "idle"
    PROVE  sig # "none"
BY DEF BlockInv, Fresh

\* Steps that go to one place and leave the locals alone.
LEMMA PlainQuiet ==
    ASSUME CtlTypes, BlockInv, NEW t \in Threads,
           \/ TrySetProviderCleanup(t) \/ ClearScheduled(t) \/ DoWorkPending(t)
           \/ CleanupAfterDoWork(t) \/ CallXAsyncCancel(t) \/ TryCancel(t)
           \/ RevertProviderCleanup(t) \/ CallXAsyncGetResultSize(t) \/ CallXAsyncGetStatus(t)
           \/ WaitSatisfied(t) \/ CallXAsyncGetResult(t)
    PROVE  Quiet(t)
<1>1. UNCHANGED <<SignalVars, loc>> /\ pc[t] \notin Signalling
  BY DEF TrySetProviderCleanup, ClearScheduled, DoWorkPending, CleanupAfterDoWork,
     CallXAsyncCancel, TryCancel, RevertProviderCleanup, CallXAsyncGetResultSize,
     CallXAsyncGetStatus, WaitSatisfied, CallXAsyncGetResult, SignalVars, blockVars, stateVars,
     queueVars, histVars, Signalling
<1>2. pc[t] # "idle" \/ sig # "none"
  BY DEF TrySetProviderCleanup, ClearScheduled, DoWorkPending, CleanupAfterDoWork,
     CallXAsyncCancel, TryCancel, RevertProviderCleanup, CallXAsyncGetResultSize,
     CallXAsyncGetStatus, WaitSatisfied, CallXAsyncGetResult, Begun
<1>3. PICK l \in {"cleanupState", "checkValid", "afterWork", "release", "cancel", "cancelOp",
                  "query", "getStatus", "final", "getResult"} : Goto(t, l)
  BY DEF TrySetProviderCleanup, ClearScheduled, DoWorkPending, CleanupAfterDoWork,
     CallXAsyncCancel, TryCancel, RevertProviderCleanup, CallXAsyncGetResultSize,
     CallXAsyncGetStatus, WaitSatisfied, CallXAsyncGetResult
<1>4. l \in PCs \ (Signalling \cup {"complete", "getOp", "extract"}) BY DEF PCs, Signalling
<1>5. Moves(t, l) BY <1>3, GotoMoves
<1>6. Keeps(t) BY <1>1, SameKeeps
<1> QED BY <1>1, <1>2, <1>4, <1>5, <1>6, BusyBegun, GotoQuiet

\* Steps that return to the caller or go to one place.
LEMMA ReturningQuiet ==
    ASSUME CtlTypes, BlockInv, NEW t \in Threads,
           \/ ReleaseState(t) \/ CleanupState(t) \/ XAsyncSchedule(t) \/ ClaimSchedule(t)
           \/ SubmitWork(t) \/ AppendWork(t) \/ SubmitWorkFails(t) \/ XAsyncCancel(t)
           \/ XAsyncGetResultSize(t) \/ XAsyncGetStatus(t) \/ FinalStatus(t)
    PROVE  Quiet(t)
<1>1. UNCHANGED SignalVars /\ pc[t] \notin Signalling /\ pc[t] # "idle"
  BY DEF ReleaseState, CleanupState, XAsyncSchedule, ClaimSchedule, SubmitWork,
     AppendWork, SubmitWorkFails, Refused, XAsyncCancel, XAsyncGetResultSize, XAsyncGetStatus, FinalStatus,
     SignalVars, blockVars, stateVars, queueVars, histVars, Signalling
<1>2. UNCHANGED loc \/ \E r \in Results : loc' = [loc EXCEPT ![t].ret = r]
  BY DEF ReleaseState, CleanupState, XAsyncSchedule, ClaimSchedule, SubmitWork,
     AppendWork, SubmitWorkFails, Refused, XAsyncCancel, XAsyncGetResultSize, XAsyncGetStatus, FinalStatus, Results,
     CtlTypes
<1>3. \/ Return(t)
      \/ \E l \in {"claim", "submit", "append", "release", "tryCancel", "wait"} : Goto(t, l)
  BY DEF ReleaseState, CleanupState, XAsyncSchedule, ClaimSchedule, SubmitWork,
     AppendWork, SubmitWorkFails, Refused, XAsyncCancel, XAsyncGetResultSize, XAsyncGetStatus, FinalStatus
<1>4. Keeps(t) BY <1>2, SameKeeps, RetKeeps
<1>5. sig # "none" BY <1>1, BusyBegun
<1>6. CASE Return(t) BY <1>1, <1>4, <1>5, <1>6, ReturnQuiet
<1>7. ASSUME NEW l \in {"claim", "submit", "append", "release", "tryCancel", "wait"}, Goto(t, l)
      PROVE  Quiet(t)
  <2>1. l \in PCs \ (Signalling \cup {"complete", "getOp", "extract"}) BY DEF PCs, Signalling
  <2>2. Moves(t, l) BY <1>7, GotoMoves
  <2> QED BY <1>1, <1>4, <1>5, <2>1, <2>2, GotoQuiet
<1> QED BY <1>3, <1>6, <1>7

\* Steps that call XAsyncComplete.
LEMMA CompletingQuiet ==
    ASSUME CtlTypes, BlockInv, NEW t \in Threads,
           \/ CheckStatus(t) \/ DoWorkCompletes(t) \/ DoWorkReturns(t) \/ ProviderCancels(t)
           \/ (t = Starter /\ (ProviderBeginFails \/ ProviderBegun))
    PROVE  Quiet(t)
<1>1. UNCHANGED SignalVars /\ pc[t] \notin Signalling /\ pc[t] # "idle"
  BY DEF CheckStatus, DoWorkCompletes, DoWorkReturns, ProviderCancels, ProviderBeginFails,
     ProviderBegun, SignalVars, blockVars, stateVars, queueVars, histVars, Signalling
<1>2. sig # "none" BY <1>1, BusyBegun
<1>3. \/ \E block \in {"user", "provider"}, result \in {"ok", "fail", "abort"}, size \in BOOLEAN,
            back \in Backs : CallComplete(t, block, result, size, back)
      \/ (\E l \in {"afterWork", "cancelDone", "release"} : Goto(t, l)) /\ UNCHANGED loc
  <2>1. {"release", "afterWork", "worked", "cancelDone"} \subseteq Backs BY DEF Backs
  <2>2. CASE CheckStatus(t) BY <2>1, <2>2 DEF CheckStatus
  <2>3. CASE DoWorkCompletes(t) BY <2>1, <2>3 DEF DoWorkCompletes
  <2>4. CASE DoWorkReturns(t) BY <2>1, <2>4 DEF DoWorkReturns
  <2>5. CASE ProviderCancels(t) BY <2>1, <2>5 DEF ProviderCancels
  <2>6. CASE t = Starter /\ ProviderBeginFails BY <2>1, <2>6 DEF ProviderBeginFails
  <2>7. CASE t = Starter /\ ProviderBegun BY <2>1, <2>7 DEF ProviderBegun
  <2> QED BY <2>2, <2>3, <2>4, <2>5, <2>6, <2>7
<1>4. CASE \E block \in {"user", "provider"}, result \in {"ok", "fail", "abort"},
              size \in BOOLEAN, back \in Backs : CallComplete(t, block, result, size, back)
  BY <1>1, <1>2, <1>4, CompleteQuiet
<1>5. ASSUME NEW l \in {"afterWork", "cancelDone", "release"}, Goto(t, l), UNCHANGED loc
      PROVE  Quiet(t)
  <2>1. l \in PCs \ (Signalling \cup {"complete", "getOp", "extract"}) BY DEF PCs, Signalling
  <2>2. Moves(t, l) BY <1>5, GotoMoves
  <2>3. Keeps(t) BY <1>5, SameKeeps
  <2> QED BY <1>1, <1>2, <2>1, <2>2, <2>3, GotoQuiet
<1> QED BY <1>3, <1>4, <1>5

LEMMA OtherQuiet ==
    ASSUME CtlTypes, BlockInv, NEW t \in Threads,
           \/ Peek(t) \/ CheckValid(t) \/ WorkerCallback(t) \/ DoWorkReschedules(t)
           \/ XAsyncGetResult(t) \/ ProviderGetsResult(t)
           \/ (t = Starter /\ ProviderBegins)
           \/ (XAsyncComplete(t) /\ status # "pending")
    PROVE  Quiet(t)
<1>1. CASE Peek(t)
  <2>1. UNCHANGED <<SignalVars, pc, stack, loc>> /\ pc[t] \notin Signalling /\ pc[t] # "idle"
    BY <1>1 DEF Peek, SignalVars, blockVars, stateVars, queueVars, histVars, Signalling
  <2>2. Moves(t, pc[t]) BY <2>1 DEF Moves, CtlTypes
  <2>3. Keeps(t) /\ loc'[t] = loc[t] BY <2>1, SameKeeps
  <2>4. pc[t] = "complete" => loc[t].result # "pending" BY DEF BlockInv
  <2>5. pc[t] \in PCs \ Signalling BY <2>1 DEF CtlTypes
  <2> QED BY <2>1, <2>2, <2>3, <2>4, <2>5, BusyBegun DEF Quiet
<1>2. CASE CheckValid(t)
  <2>1. UNCHANGED <<SignalVars, loc>> /\ pc[t] \notin Signalling /\ pc[t] # "idle"
    BY <1>2 DEF CheckValid, SignalVars, blockVars, stateVars, queueVars, histVars, Signalling
  <2>2. Goto(t, "release") \/ Goto(t, "doWork") \/ Call(t, "cancel", "checkStatus")
    BY <1>2 DEF CheckValid
  <2>3. "checkStatus" \in Backs /\ {"release", "doWork", "cancel"} \subseteq
           PCs \ (Signalling \cup {"complete", "getOp", "extract"})
    BY DEF Backs, PCs, Signalling
  <2>4. \E l \in {"release", "doWork", "cancel"} : Moves(t, l)
    BY <2>2, <2>3, GotoMoves, CallMoves
  <2>5. Keeps(t) BY <2>1, SameKeeps
  <2> QED BY <2>1, <2>3, <2>4, <2>5, BusyBegun, GotoQuiet
<1>3. CASE WorkerCallback(t)
  <2>1. UNCHANGED SignalVars /\ pc[t] = "idle" /\ workQ > 0 /\ Goto(t, "work")
    BY <1>3 DEF WorkerCallback, SignalVars, blockVars, stateVars, histVars
  <2>2. PICK b \in BOOLEAN : loc' = [loc EXCEPT ![t].canceled = b]
    BY <1>3 DEF WorkerCallback
  <2>3. Keeps(t) BY <2>2, CanceledKeeps
  <2>4. sig # "none" BY <2>1 DEF BlockInv, Fresh
  <2>5. Moves(t, "work") BY <2>1, GotoMoves
  <2>6. "work" \in PCs \ (Signalling \cup {"complete", "getOp", "extract"}) /\ "idle" \notin Signalling
    BY DEF PCs, Signalling
  <2> QED BY <2>1, <2>3, <2>4, <2>5, <2>6, GotoQuiet
<1>4. CASE DoWorkReschedules(t) \/ (t = Starter /\ ProviderBegins)
  <2>1. UNCHANGED <<SignalVars, loc>> /\ pc[t] \notin Signalling /\ pc[t] # "idle"
    BY <1>4 DEF DoWorkReschedules, ProviderBegins, SignalVars, blockVars, stateVars, queueVars,
       histVars, Signalling
  <2>2. \E b \in Backs : Call(t, "schedule", b)
    BY <1>4 DEF DoWorkReschedules, ProviderBegins, Backs
  <2>3. Moves(t, "schedule") BY <2>2, CallMoves
  <2>4. "schedule" \in PCs \ (Signalling \cup {"complete", "getOp", "extract"})
    BY DEF PCs, Signalling
  <2>5. Keeps(t) BY <2>1, SameKeeps
  <2> QED BY <2>1, <2>3, <2>4, <2>5, BusyBegun, GotoQuiet
<1>5. CASE XAsyncGetResult(t) \/ ProviderGetsResult(t)
  <2>1. UNCHANGED <<SignalVars, loc>> /\ pc[t] \notin Signalling /\ pc[t] # "idle"
    BY <1>5 DEF XAsyncGetResult, ProviderGetsResult, SignalVars, blockVars, stateVars,
       queueVars, histVars, Signalling
  <2>2. Keeps(t) BY <2>1, SameKeeps
  <2>3. sig # "none" BY <2>1, BusyBegun
  <2>4. \/ Return(t) \/ Goto(t, "release")
        \/ Goto(t, "getOp") /\ attached /\ status # "pending"
        \/ Goto(t, "extract") /\ pc[t] = "getOp"
    BY <1>5 DEF XAsyncGetResult, ProviderGetsResult, CtlTypes
  <2>5. CASE Return(t) BY <2>1, <2>2, <2>3, <2>5, ReturnQuiet
  <2>6. {"release", "getOp", "extract"} \subseteq PCs \ Signalling BY DEF PCs, Signalling
  <2>7. CASE \/ Goto(t, "release") \/ (Goto(t, "getOp") /\ attached /\ status # "pending")
             \/ (Goto(t, "extract") /\ pc[t] = "getOp")
    <3>1. CASE Goto(t, "release") BY <2>1, <2>2, <2>3, <2>6, <3>1, GotoMoves DEF Quiet
    <3>2. CASE Goto(t, "getOp") /\ attached /\ status # "pending"
      BY <2>1, <2>2, <2>3, <2>6, <3>2, GotoMoves DEF Quiet
    <3>3. CASE Goto(t, "extract") /\ pc[t] = "getOp"
      BY <2>1, <2>2, <2>3, <2>6, <3>3, GotoMoves DEF Quiet
    <3> QED BY <2>7, <3>1, <3>2, <3>3
  <2> QED BY <2>4, <2>5, <2>7
<1>6. CASE XAsyncComplete(t) /\ status # "pending"
  <2>1. UNCHANGED <<SignalVars, loc>> /\ pc[t] = "complete" /\ (Goto(t, "release") \/ Return(t))
    BY <1>6 DEF XAsyncComplete, CanComplete, SignalVars, blockVars, queueVars, histVars
  <2>2. "complete" \notin Signalling
        /\ "release" \in PCs \ (Signalling \cup {"complete", "getOp", "extract"})
    BY DEF Signalling, PCs
  <2>3. Keeps(t) BY <2>1, SameKeeps
  <2>4. sig # "none" BY <2>1, BusyBegun
  <2> QED BY <2>1, <2>2, <2>3, <2>4, ReturnQuiet, GotoQuiet, GotoMoves
<1> QED BY <1>1, <1>2, <1>3, <1>4, <1>5, <1>6

CtlInv == CtlTypes /\ BlockInv /\ TokenInv

LEMMA QuietStep ==
    ASSUME CtlInv, NEW t \in Threads, Quiet(t)
    PROVE  CtlInv'
<1>0. CtlTypes /\ BlockInv /\ TokenInv BY DEF CtlInv
<1>1. UNCHANGED SignalVars /\ Keeps(t) /\ sig # "none" BY DEF Quiet
<1>2. PICK l \in PCs \ Signalling :
         /\ Moves(t, l) /\ pc[t] \notin Signalling
         /\ l = "complete" => loc'[t].result # "pending"
         /\ l \in {"getOp", "extract"} =>
               (attached /\ status # "pending") \/ pc[t] \in {"getOp", "extract"}
  BY DEF Quiet
<1>3. pc' = [pc EXCEPT ![t] = l] /\ pc \in [Threads -> PCs] BY <1>0, <1>2 DEF Moves, CtlTypes
<1>4. pc'[t] = l /\ \A u \in Threads \ {t} : pc'[u] = pc[u] BY <1>3
<1>5. CtlTypes'
  <2>1. pc' \in [Threads -> PCs] BY <1>3
  <2> QED BY <1>0, <1>1, <1>2, <2>1 DEF CtlTypes, SignalVars, Keeps, Moves
<1>6. BlockInv'
  <2>1. sig' # "none" /\ (attached' <=> sig' = "ASYB")
        /\ (sig' \in {"zero", "ASRB"} => status' # "pending")
    BY <1>0, <1>1 DEF BlockInv, SignalVars
  <2>2. ASSUME NEW u \in Threads
        PROVE  /\ pc'[u] = "complete" => loc'[u].result # "pending"
               /\ pc'[u] \in {"getOp", "extract"} => sig' \in {"ASYB", "ASRB"} /\ status' # "pending"
    BY <1>0, <1>1, <1>2, <1>4 DEF BlockInv, SignalVars, Keeps
  <2> QED BY <2>1, <2>2 DEF BlockInv
<1>7. \A u \in Threads : Signaller(u)' = Signaller(u) BY <1>2, <1>4 DEF Signaller
<1>8. \A u \in Threads : SignalStage(u)'
  <2>1. \A u \in Threads : pc'[u] \in Signalling => pc'[u] = pc[u] BY <1>2, <1>4
  <2> QED BY <1>0, <1>1, <2>1 DEF SignalStage, SignalVars, TokenInv, Signalling
<1>9. TokenInv' BY <1>0, <1>1, <1>7, <1>8 DEF TokenInv, SignalVars
<1> QED BY <1>5, <1>6, <1>9 DEF CtlInv

-----------------------------------------------------------------------------
(* The steps the completion goes through.                                  *)

\* A step by which thread t goes to l and no other thread goes anywhere.
LEMMA MovesFacts ==
    ASSUME CtlTypes, NEW t \in Threads, NEW l \in PCs, Moves(t, l)
    PROVE  /\ pc' \in [Threads -> PCs] /\ stack' \in Stacks
           /\ pc'[t] = l /\ \A u \in Threads \ {t} : pc'[u] = pc[u]
BY DEF CtlTypes, Moves

LEMMA BeginStepCtl ==
    ASSUME CtlInv, XAsyncBegin \/ XAsyncBeginFails
    PROVE  CtlInv'
<1>0. CtlTypes /\ BlockInv /\ TokenInv BY DEF CtlInv
<1>1. sig = "none" /\ Fresh BY <1>0 DEF XAsyncBegin, XAsyncBeginFails, BlockInv
<1>2. /\ \A u \in Threads : pc[u] = "idle"
      /\ held = 0 /\ complQ = 0 /\ status = "pending" /\ notified = 0 /\ ~satisfied
      /\ attached = FALSE
  BY <1>0, <1>1 DEF Fresh, TokenInv
<1>3. UNCHANGED <<hasCallback, loc, complQ, queue, other, aborted, satisfied, notified, signals>>
  BY DEF XAsyncBegin, XAsyncBeginFails, stateVars, queueVars, histVars
<1>4. Starter \in Threads BY DEF Threads
<1>5. CASE XAsyncBegin
  <2>1. /\ sig' = "ASYB" /\ attached' = TRUE /\ held' = 1 /\ status' = status
        /\ Goto(Starter, "begin") /\ queue # "Closed"
    BY <1>2, <1>5 DEF XAsyncBegin, Suspension, Open
  <2>2. "begin" \in PCs BY DEF PCs
  <2>3. /\ pc' \in [Threads -> PCs] /\ stack' \in Stacks
        /\ pc'[Starter] = "begin" /\ \A u \in Threads \ {Starter} : pc'[u] = pc[u]
    BY <1>0, <1>4, <2>1, <2>2, GotoMoves, MovesFacts
  <2>4. \A u \in Threads : pc'[u] \in {"idle", "begin"} BY <1>2, <2>3
  <2>5. \A u \in Threads : ~Signaller(u)' /\ SignalStage(u)'
    BY <2>4 DEF Signaller, Signalling, SignalStage
  <2>6. CtlTypes' BY <1>0, <1>3, <2>1, <2>3 DEF CtlTypes
  <2>7. BlockInv' BY <1>2, <2>1, <2>4 DEF BlockInv
  <2>8. TokenInv' BY <1>0, <1>2, <1>3, <2>1, <2>5 DEF TokenInv
  <2> QED BY <2>6, <2>7, <2>8 DEF CtlInv
<1>6. CASE XAsyncBeginFails
  <2>1. sig' = "zero" /\ status' = "fail" /\ UNCHANGED <<attached, held, pc, stack>>
    BY <1>6 DEF XAsyncBeginFails, queueVars
  <2>5. \A u \in Threads : ~Signaller(u)' /\ SignalStage(u)'
    BY <1>2, <2>1 DEF Signaller, Signalling, SignalStage
  <2>6. CtlTypes' BY <1>0, <1>3, <2>1 DEF CtlTypes, Results
  <2>7. BlockInv' BY <1>2, <2>1 DEF BlockInv
  <2>8. TokenInv' BY <1>0, <1>2, <1>3, <2>1, <2>5 DEF TokenInv
  <2> QED BY <2>6, <2>7, <2>8 DEF CtlInv
<1> QED BY <1>5, <1>6

LEMMA CompletesCtl ==
    ASSUME CtlInv, NEW t \in Threads, XAsyncComplete(t), status = "pending"
    PROVE  CtlInv'
<1>0. CtlTypes /\ BlockInv /\ TokenInv BY DEF CtlInv
<1>1. /\ pc[t] = "complete" /\ status' = loc[t].result /\ Goto(t, "signal")
      /\ UNCHANGED <<hasCallback, satisfied, held, complQ, queue, other, aborted, notified, signals>>
      /\ \E b \in BOOLEAN : loc' = [loc EXCEPT ![t].cleaning = b]
      /\ \/ sig' = "zero" /\ attached' = FALSE
         \/ sig' = sig /\ attached' = attached
  <2>1. CanComplete BY DEF CanComplete
  <2> QED BY <2>1 DEF XAsyncComplete, ExtractState, queueVars, histVars
<1>2. Keeps(t) BY <1>0, <1>1, CleaningKeeps
<1>3. status' # "pending" /\ status' \in Results BY <1>0, <1>1 DEF BlockInv, CtlTypes, Locals
<1>4. "signal" \in PCs BY DEF PCs
<1>5. /\ pc' \in [Threads -> PCs] /\ stack' \in Stacks
      /\ pc'[t] = "signal" /\ \A u \in Threads \ {t} : pc'[u] = pc[u]
  BY <1>0, <1>1, <1>4, GotoMoves, MovesFacts
<1>6. sig # "none" /\ held = 1 /\ notified = 0 /\ ~satisfied /\ complQ = 0
      /\ \A u \in Threads : ~Signaller(u)
  BY <1>0, <1>1, BusyBegun DEF TokenInv
<1>7. \A u \in Threads : (Signaller(u)' <=> u = t) BY <1>5, <1>6 DEF Signaller, Signalling
<1>8. \A u \in Threads : SignalStage(u)'
  BY <1>1, <1>5, <1>6 DEF SignalStage, Signaller, Signalling
<1>9. CtlTypes' BY <1>0, <1>1, <1>2, <1>3, <1>5 DEF CtlTypes, Keeps
<1>10. BlockInv'
  <2>1. sig' # "none" /\ (attached' <=> sig' = "ASYB") BY <1>0, <1>1, <1>6 DEF BlockInv
  <2>2. ASSUME NEW u \in Threads
        PROVE  /\ pc'[u] = "complete" => loc'[u].result # "pending"
               /\ pc'[u] \notin {"getOp", "extract"}
    BY <1>0, <1>2, <1>5 DEF BlockInv, Keeps
  <2> QED BY <1>3, <2>1, <2>2 DEF BlockInv
<1>11. TokenInv' BY <1>0, <1>1, <1>3, <1>6, <1>7, <1>8 DEF TokenInv
<1> QED BY <1>9, <1>10, <1>11 DEF CtlInv

\* The completion moves on: to the Completion port, or to the waiters.
LEMMA SignalsCtl ==
    ASSUME CtlInv, NEW t \in Threads,
           \/ SignalCompletion(t) \/ SignalWait(t) \/ ResumeTermination(t)
           \/ CompletionCallback(t) \/ CallbackReturns(t)
    PROVE  CtlInv'
<1>0. CtlTypes /\ BlockInv /\ TokenInv BY DEF CtlInv
<1>1. UNCHANGED <<hasCallback, sig, status, attached, queue, other, aborted, loc>>
  BY DEF SignalCompletion, SignalWait, ResumeTermination, CompletionCallback, CallbackReturns,
     blockVars, queueVars
<1>2. sig # "none" /\ status # "pending" /\ (Signaller(t) \/ complQ = 1)
  <2>1. CASE CompletionCallback(t)
    BY <1>0, <2>1 DEF CompletionCallback, TokenInv, BlockInv, Fresh
  <2>2. CASE ~CompletionCallback(t)
    <3>1. Signaller(t) BY <2>2 DEF SignalCompletion, SignalWait, ResumeTermination,
                          CallbackReturns, Signaller, Signalling
    <3> QED BY <1>0, <3>1 DEF TokenInv, BlockInv, Fresh, Signaller, Signalling
  <2> QED BY <2>1, <2>2
<1>3. PICK l \in PCs : Moves(t, l) /\ l \notin {"complete", "getOp", "extract"}
                       /\ (SignalCompletion(t) => l = (IF hasCallback THEN AfterSignal(t) ELSE "signalWait"))
                       /\ (SignalWait(t) => l = "resume")
                       /\ (ResumeTermination(t) => l \notin Signalling)
                       /\ (CompletionCallback(t) => l = "notify")
                       /\ (CallbackReturns(t) => l = "signalWait")
  <2>1. AfterSignal(t) \in Backs /\ "release" \in Backs BY DEF AfterSignal, Backs
  <2>2. {"signalWait", "resume", "notify"} \subseteq PCs /\ Backs \subseteq PCs
    BY DEF Backs, PCs
  <2>3. CASE SignalCompletion(t)
    <3>1. IF hasCallback THEN Goto(t, AfterSignal(t)) ELSE Call(t, "signalWait", AfterSignal(t))
      BY <2>3 DEF SignalCompletion, SignalsHere
    <3>2. pc[t] = "signal" BY <2>3 DEF SignalCompletion
    <3>3. ~SignalWait(t) /\ ~ResumeTermination(t) /\ ~CompletionCallback(t) /\ ~CallbackReturns(t)
      BY <3>2 DEF SignalWait, ResumeTermination, CompletionCallback, CallbackReturns
    <3> QED BY <1>0, <2>1, <2>2, <3>1, <3>3, GotoMoves, CallMoves, LabelFacts
  <2>4. CASE ResumeTermination(t)
    <3>1. pc[t] = "resume" /\ Return(t) BY <2>4 DEF ResumeTermination
    <3>3. ~SignalWait(t) /\ ~SignalCompletion(t) /\ ~CompletionCallback(t) /\ ~CallbackReturns(t)
      BY <3>1 DEF SignalWait, SignalCompletion, CompletionCallback, CallbackReturns
    <3> QED BY <1>0, <2>1, <2>2, <3>1, <3>3, ReturnMoves, LabelFacts
  <2>5. CASE SignalWait(t)
    <3>1. pc[t] = "signalWait" /\ Goto(t, "resume") BY <2>5 DEF SignalWait
    <3>3. ~ResumeTermination(t) /\ ~SignalCompletion(t) /\ ~CompletionCallback(t) /\ ~CallbackReturns(t)
      BY <3>1 DEF ResumeTermination, SignalCompletion, CompletionCallback, CallbackReturns
    <3> QED BY <1>0, <2>2, <3>1, <3>3, GotoMoves
  <2>6. CASE CompletionCallback(t)
    <3>1. pc[t] = "idle" /\ Goto(t, "notify") BY <2>6 DEF CompletionCallback
    <3>3. ~ResumeTermination(t) /\ ~SignalCompletion(t) /\ ~SignalWait(t) /\ ~CallbackReturns(t)
      BY <3>1 DEF ResumeTermination, SignalCompletion, SignalWait, CallbackReturns
    <3> QED BY <1>0, <2>2, <3>1, <3>3, GotoMoves
  <2>7. CASE CallbackReturns(t)
    <3>1. pc[t] = "notify" /\ Call(t, "signalWait", "release") BY <2>7 DEF CallbackReturns
    <3>3. ~ResumeTermination(t) /\ ~SignalCompletion(t) /\ ~SignalWait(t) /\ ~CompletionCallback(t)
      BY <3>1 DEF ResumeTermination, SignalCompletion, SignalWait, CompletionCallback
    <3> QED BY <1>0, <2>1, <2>2, <3>1, <3>3, CallMoves
  <2> QED BY <2>3, <2>4, <2>5, <2>6, <2>7
<1>4. /\ pc' \in [Threads -> PCs] /\ stack' \in Stacks
      /\ pc'[t] = l /\ \A u \in Threads \ {t} : pc'[u] = pc[u]
  BY <1>0, <1>3, MovesFacts
<1>5. \A u \in Threads \ {t} : ~Signaller(u) /\ ~Signaller(u)'
  BY <1>0, <1>2, <1>4 DEF TokenInv, Signaller
<1>6. BlockInv' BY <1>0, <1>1, <1>2, <1>3, <1>4 DEF BlockInv
<1>7. \A u \in Threads \ {t} : SignalStage(u)' BY <1>5 DEF Signaller, SignalStage, Signalling
<1>8. CASE SignalCompletion(t)
  <2>1. /\ pc[t] = "signal" /\ UNCHANGED <<held, satisfied, signals, notified>>
        /\ complQ' = IF hasCallback THEN complQ + 1 ELSE complQ
    BY <1>8 DEF SignalCompletion, SignalsHere, stateVars, histVars
  <2>2. Signaller(t) /\ held = 1 /\ complQ = 0 /\ notified = 0 /\ ~satisfied
    BY <1>0, <2>1 DEF TokenInv, SignalStage, Signaller, Signalling
  <2>3. CtlTypes' BY <1>0, <1>1, <1>4, <2>1 DEF CtlTypes
  <2>4. Signaller(t)' <=> ~hasCallback
    BY <1>3, <1>4, <1>8 DEF Signaller, AfterSignal, Signalling
  <2>5. SignalStage(t)' BY <1>1, <1>3, <1>4, <1>8, <2>1, <2>2 DEF SignalStage, AfterSignal
  <2>6. hasCallback \in BOOLEAN BY <1>0 DEF CtlTypes
  <2>7. TokenInv'
    <3>1. CASE hasCallback
      BY <1>0, <1>1, <1>2, <1>5, <1>7, <2>1, <2>2, <2>4, <2>5, <3>1 DEF TokenInv
    <3>2. CASE ~hasCallback
      BY <1>0, <1>1, <1>2, <1>5, <1>7, <2>1, <2>2, <2>4, <2>5, <3>2 DEF TokenInv
    <3> QED BY <3>1, <3>2
  <2> QED BY <1>6, <2>3, <2>7 DEF CtlInv
<1>9. CASE SignalWait(t)
  <2>1. /\ pc[t] = "signalWait" /\ UNCHANGED <<held, complQ, notified>>
        /\ satisfied' = TRUE /\ signals' = signals + 1
    BY <1>9 DEF SignalWait, queueVars
  <2>2. Signaller(t) /\ held = 1 /\ complQ = 0 /\ ~satisfied /\ (hasCallback => notified = 1)
    BY <1>0, <2>1 DEF TokenInv, SignalStage, Signaller, Signalling
  <2>3. CtlTypes' BY <1>0, <1>1, <1>4, <2>1 DEF CtlTypes
  <2>4. Signaller(t)' /\ SignalStage(t)'
    BY <1>3, <1>4, <1>9, <2>1 DEF Signaller, Signalling, SignalStage
  <2>5. TokenInv' BY <1>0, <1>1, <1>2, <1>5, <1>7, <2>1, <2>2, <2>4 DEF TokenInv
  <2> QED BY <1>6, <2>3, <2>5 DEF CtlInv
<1>10. CASE ResumeTermination(t)
  <2>1. pc[t] = "resume" /\ UNCHANGED <<complQ, satisfied, signals, notified>> /\ held' = held - 1
    BY <1>10 DEF ResumeTermination, Resumed, stateVars, histVars
  <2>2. Signaller(t) /\ held = 1 /\ complQ = 0 /\ satisfied
    BY <1>0, <2>1 DEF TokenInv, SignalStage, Signaller, Signalling
  <2>3. CtlTypes' BY <1>0, <1>1, <1>4, <2>1 DEF CtlTypes
  <2>4. ~Signaller(t)' /\ SignalStage(t)'
    BY <1>3, <1>4, <1>10 DEF Signaller, Signalling, SignalStage
  <2>5. held' = 0 BY <2>1, <2>2
  <2>6. TokenInv' BY <1>0, <1>1, <1>2, <1>5, <1>7, <2>1, <2>2, <2>4, <2>5 DEF TokenInv
  <2> QED BY <1>6, <2>3, <2>6 DEF CtlInv
<1>11. CASE CompletionCallback(t)
  <2>1. /\ pc[t] = "idle" /\ complQ > 0 /\ complQ' = complQ - 1 /\ notified' = notified + 1
        /\ UNCHANGED <<held, satisfied, signals>>
    BY <1>11 DEF CompletionCallback, stateVars
  <2>2. complQ = 1 /\ held = 1 /\ notified = 0 /\ ~satisfied
    BY <1>0, <2>1 DEF TokenInv
  <2>3. complQ' = 0 /\ notified' = 1 BY <2>1, <2>2
  <2>4. CtlTypes' BY <1>0, <1>1, <1>4, <2>1, <2>3 DEF CtlTypes
  <2>5. Signaller(t)' /\ SignalStage(t)'
    BY <1>3, <1>4, <1>11, <2>1, <2>2, <2>3 DEF Signaller, Signalling, SignalStage
  <2>6. TokenInv' BY <1>0, <1>1, <1>2, <1>5, <1>7, <2>1, <2>2, <2>3, <2>5 DEF TokenInv
  <2> QED BY <1>6, <2>4, <2>6 DEF CtlInv
<1>12. CASE CallbackReturns(t)
  <2>1. pc[t] = "notify" /\ UNCHANGED <<held, complQ, satisfied, signals, notified>>
    BY <1>12 DEF CallbackReturns, stateVars, histVars, queueVars
  <2>2. Signaller(t) /\ held = 1 /\ complQ = 0 /\ notified = 1 /\ ~satisfied
    BY <1>0, <2>1 DEF TokenInv, SignalStage, Signaller, Signalling
  <2>3. CtlTypes' BY <1>0, <1>1, <1>4, <2>1 DEF CtlTypes
  <2>4. Signaller(t)' /\ SignalStage(t)'
    BY <1>3, <1>4, <1>12, <2>1, <2>2 DEF Signaller, Signalling, SignalStage
  <2>5. TokenInv' BY <1>0, <1>1, <1>2, <1>5, <1>7, <2>1, <2>2, <2>4 DEF TokenInv
  <2> QED BY <1>6, <2>3, <2>5 DEF CtlInv
<1> QED BY <1>8, <1>9, <1>10, <1>11, <1>12

\* The steps of the task queue, and the end of the process.
QueueMoves == TerminateQueue \/ QueueStep \/ \E t \in Threads : FailFast(t)

\* They leave the operation alone.
LEMMA QueueMovesApart ==
    ASSUME QueueMoves
    PROVE  UNCHANGED <<hasCallback, sig, status, attached, refs, freed, cleanup, cleanups, mine,
                       scheduled, valid, payload, satisfied, held, workQ, complQ, pc, stack,
                       peeked, loc, again, notified, signals>>
BY DEF QueueMoves, QueueStep, TerminateQueue, TerminateWork, QueueCloses, OtherResumes,
   OtherCollects, FailFast, blockVars, refVars, stateVars, histVars

LEMMA QueueMovesCtl ==
    ASSUME CtlTypes, TokenInv, QueueMoves
    PROVE  /\ queue' \in {"Active", "Canceled", "Terminating", "Closed"}
           /\ other' \in {"none", "held", "resuming", "collected", "done"} /\ aborted' \in BOOLEAN
           /\ queue' = "Closed" => held = 0 \/ other' = "collected"
           /\ aborted' => other' = "collected"
<1>1. CASE TerminateQueue \/ TerminateWork
  BY <1>1 DEF TerminateQueue, TerminateWork, CtlTypes, TokenInv
<1>2. CASE QueueCloses BY <1>2 DEF QueueCloses, Loose, CtlTypes, TokenInv
<1>3. CASE OtherResumes \/ OtherCollects
  BY <1>3 DEF OtherResumes, OtherCollects, CtlTypes, TokenInv
<1>4. ASSUME NEW t \in Threads, FailFast(t)
      PROVE  /\ UNCHANGED <<queue, other>> /\ aborted' = TRUE /\ other = "collected"
  <2>1. pc[t] = "signal" /\ queue = "Closed" /\ aborted' = TRUE /\ UNCHANGED <<queue, other>>
    BY <1>4 DEF FailFast
  <2>2. held = 1 BY <2>1 DEF TokenInv, Signaller, Signalling
  <2> QED BY <2>1, <2>2 DEF TokenInv
<1>5. CASE \E t \in Threads : FailFast(t) BY <1>4, <1>5 DEF CtlTypes, TokenInv
<1> QED BY <1>1, <1>2, <1>3, <1>5 DEF QueueMoves, QueueStep

\* The result is collected, or the task queue terminates.
LEMMA OtherStepsCtl ==
    ASSUME CtlInv,
           \/ (\E t \in Threads : ExtractResult(t))
           \/ QueueMoves \/ UNCHANGED vars
    PROVE  CtlInv'
<1>0. CtlTypes /\ BlockInv /\ TokenInv BY DEF CtlInv
<1>1. ASSUME NEW t \in Threads, ExtractResult(t) PROVE CtlInv'
  <2>1. /\ pc[t] = "extract" /\ Goto(t, "cleanupState") /\ sig' = "ASRB" /\ attached' = FALSE
        /\ UNCHANGED <<hasCallback, status, satisfied, held, complQ, queue, other, aborted, notified,
                       signals, loc>>
    BY <1>1 DEF ExtractResult, ExtractState, stateVars, queueVars, histVars
  <2>2. "cleanupState" \in PCs BY DEF PCs
  <2>3. /\ pc' \in [Threads -> PCs] /\ stack' \in Stacks
        /\ pc'[t] = "cleanupState" /\ \A u \in Threads \ {t} : pc'[u] = pc[u]
    BY <1>0, <2>1, <2>2, GotoMoves, MovesFacts
  <2>4. sig # "none" /\ status # "pending" BY <1>0, <2>1 DEF BlockInv
  <2>5. CtlTypes' BY <1>0, <2>1, <2>3 DEF CtlTypes
  <2>6. BlockInv' BY <1>0, <2>1, <2>3, <2>4 DEF BlockInv
  <2>7. \A u \in Threads : Signaller(u)' = Signaller(u) /\ SignalStage(u)'
    BY <1>0, <2>1, <2>3 DEF Signaller, Signalling, SignalStage, TokenInv
  <2>8. TokenInv' BY <1>0, <2>1, <2>4, <2>7 DEF TokenInv
  <2> QED BY <2>5, <2>6, <2>8 DEF CtlInv
<1>2. CASE QueueMoves \/ UNCHANGED vars
  <2>0. CASE UNCHANGED vars
    BY <1>0, <2>0 DEF CtlInv, CtlTypes, BlockInv, Fresh, TokenInv, Signaller, SignalStage, vars,
       blockVars, stateVars, queueVars, histVars
  <2> SUFFICES ASSUME QueueMoves PROVE CtlInv' BY <1>2, <2>0
  <2>1. /\ UNCHANGED <<hasCallback, sig, status, attached, satisfied, held, complQ, workQ,
                       notified, signals, pc, stack, loc>>
        /\ queue' \in {"Active", "Canceled", "Terminating", "Closed"}
        /\ other' \in {"none", "held", "resuming", "collected", "done"} /\ aborted' \in BOOLEAN
        /\ queue' = "Closed" => held = 0 \/ other' = "collected"
        /\ aborted' => other' = "collected"
    BY <1>0, QueueMovesApart, QueueMovesCtl
  <2>2. CtlTypes' BY <1>0, <2>1 DEF CtlTypes
  <2>3. BlockInv' BY <1>0, <2>1 DEF BlockInv, Fresh
  <2>4. \A u \in Threads : Signaller(u)' = Signaller(u) /\ SignalStage(u)'
    BY <1>0, <2>1 DEF Signaller, SignalStage, TokenInv
  <2>5. TokenInv' BY <1>0, <2>1, <2>4 DEF TokenInv
  <2> QED BY <2>2, <2>3, <2>5 DEF CtlInv
<1> QED BY <1>1, <1>2

\* What a thread does is one of the steps above.
LEMMA ThreadCases ==
    ASSUME CtlInv, NEW t \in Threads, ThreadStep(t) \/ MayCall(t)
    PROVE  \/ Quiet(t) \/ (XAsyncComplete(t) /\ status = "pending")
           \/ SignalCompletion(t) \/ SignalWait(t) \/ ResumeTermination(t)
           \/ CompletionCallback(t) \/ CallbackReturns(t) \/ ExtractResult(t)
<1>0. CtlTypes /\ BlockInv BY DEF CtlInv
<1>1. CASE ReleaseState(t) \/ Peek(t) BY <1>0, <1>1, ReturningQuiet, OtherQuiet
<1>2. CASE ScheduleStep(t) BY <1>0, <1>2, ReturningQuiet DEF ScheduleStep
<1>3. CASE CompleteStep(t)
  BY <1>0, <1>3, ReturningQuiet, PlainQuiet, OtherQuiet DEF CompleteStep
<1>4. CASE WorkStep(t)
  BY <1>0, <1>4, PlainQuiet, OtherQuiet, CompletingQuiet DEF WorkStep
<1>5. CASE CallbackStep(t) BY <1>5 DEF CallbackStep
<1>6. CASE CancelStep(t)
  BY <1>0, <1>6, PlainQuiet, ReturningQuiet, CompletingQuiet DEF CancelStep
<1>7. CASE WaitStep(t) BY <1>0, <1>7, PlainQuiet, ReturningQuiet DEF WaitStep
<1>8. CASE GetStep(t) BY <1>0, <1>8, OtherQuiet DEF GetStep
<1>9. CASE MayCall(t) BY <1>0, <1>9, PlainQuiet, OtherQuiet DEF MayCall
<1> QED BY <1>1, <1>2, <1>3, <1>4, <1>5, <1>6, <1>7, <1>8, <1>9 DEF ThreadStep

\* Every step of the specification is one of those above.
LEMMA StepCases ==
    ASSUME CtlInv, [Next]_vars
    PROVE  \/ \E t \in Threads : Quiet(t)
           \/ XAsyncBegin \/ XAsyncBeginFails
           \/ \E t \in Threads : XAsyncComplete(t) /\ status = "pending"
           \/ \E t \in Threads : \/ SignalCompletion(t) \/ SignalWait(t) \/ ResumeTermination(t)
                                 \/ CompletionCallback(t) \/ CallbackReturns(t)
           \/ \E t \in Threads : ExtractResult(t)
           \/ QueueMoves \/ UNCHANGED vars
<1>0. CtlTypes /\ BlockInv BY DEF CtlInv
<1>1. CASE BeginStep
  <2>1. Starter \in Threads BY DEF Threads
  <2>2. CASE ProviderBegins BY <1>0, <2>1, <2>2, OtherQuiet
  <2>3. CASE ProviderBeginFails \/ ProviderBegun BY <1>0, <2>1, <2>3, CompletingQuiet
  <2> QED BY <1>1, <2>2, <2>3 DEF BeginStep
<1>2. CASE \E t \in Threads : ThreadStep(t) \/ MayCall(t) BY <1>2, ThreadCases
<1> QED BY <1>1, <1>2 DEF Next, QueueMoves

LEMMA CtlInvariant == Spec => []CtlInv
<1>1. Init => CtlInv
  <2> SUFFICES ASSUME Init PROVE CtlInv OBVIOUS
  <2>1. /\ pc = [t \in Threads |-> "idle"] /\ stack = [t \in Threads |-> <<>>]
        /\ loc = [t \in Threads |-> NoLocals] /\ hasCallback \in Callbacks
        /\ sig = "none" /\ status = "pending" /\ attached = FALSE /\ satisfied = FALSE
        /\ held = 0 /\ workQ = 0 /\ complQ = 0 /\ queue = "Active" /\ notified = 0 /\ signals = 0
        /\ other \in {"none", "held"} /\ aborted = FALSE
    BY DEF Init
  <2>2. "idle" \in PCs /\ "idle" \notin Signalling /\ NoLocals \in Locals /\ <<>> \in Seq(Backs)
    BY DEF PCs, Signalling, NoLocals, Locals, Results
  <2>3. hasCallback \in BOOLEAN BY <2>1, ConstantsAssumption
  <2>4. CtlTypes BY <2>1, <2>2, <2>3 DEF CtlTypes, Stacks, Results
  <2>5. BlockInv BY <2>1 DEF BlockInv, Fresh
  <2>6. \A t \in Threads : ~Signaller(t) /\ SignalStage(t)
    BY <2>1, <2>2 DEF Signaller, SignalStage
  <2>7. TokenInv BY <2>1, <2>6 DEF TokenInv
  <2> QED BY <2>4, <2>5, <2>7 DEF CtlInv
<1>2. ASSUME CtlInv, [Next]_vars PROVE CtlInv'
  BY <1>2, StepCases, QuietStep, BeginStepCtl, CompletesCtl, SignalsCtl, OtherStepsCtl
<1> QED BY <1>1, <1>2, PTL DEF Spec

(* XAsyncComplete fails fast on a refused completion callback only where   *)
(* another operation has collected the termination that this one's         *)
(* suspension had parked: otherwise an operation that is begun keeps the   *)
(* Completion port open until its waiters are woken.                       *)
THEOREM PortAccepts == Spec => []CompletionAccepted
<1>1. CtlInv => CompletionAccepted
  BY DEF CtlInv, TokenInv, CompletionAccepted
<1> QED BY <1>1, CtlInvariant, PTL

(* The waiters of an operation are woken only when it has completed and    *)
(* its completion callback was called.                                     *)
THEOREM WaitersLast == Spec => []CallbackBeforeWaiters
<1>1. CtlInv => CallbackBeforeWaiters BY DEF CtlInv, TokenInv, CallbackBeforeWaiters
<1> QED BY <1>1, CtlInvariant, PTL

(* However many threads complete, cancel and collect an operation, its     *)
(* status is final once set, and the block never gets its state back.      *)
THEOREM StaysSettled == Spec => Settled
<1> DEFINE Step == /\ status # "pending" => status' = status
                   /\ (sig \in {"zero", "ASRB"} => (sig' = sig /\ ~attached'))
<1>1. ASSUME CtlInv, [Next]_vars PROVE Step
  <2>0. CtlTypes /\ BlockInv BY <1>1 DEF CtlInv
  <2>1. ASSUME NEW t \in Threads, Quiet(t) PROVE Step
    BY <2>0, <2>1 DEF Quiet, SignalVars, BlockInv
  <2>2. CASE XAsyncBegin \/ XAsyncBeginFails
    BY <2>0, <2>2 DEF XAsyncBegin, XAsyncBeginFails, BlockInv, Fresh
  <2>3. ASSUME NEW t \in Threads, XAsyncComplete(t), status = "pending" PROVE Step
    BY <2>0, <2>3 DEF BlockInv
  <2>4. ASSUME NEW t \in Threads,
               \/ SignalCompletion(t) \/ SignalWait(t) \/ ResumeTermination(t)
               \/ CompletionCallback(t) \/ CallbackReturns(t)
        PROVE  Step
    BY <2>0, <2>4 DEF SignalCompletion, SignalWait, ResumeTermination, CompletionCallback,
       CallbackReturns, blockVars, BlockInv
  <2>5. ASSUME NEW t \in Threads, ExtractResult(t) PROVE Step
    BY <2>0, <2>5 DEF ExtractResult, ExtractState, BlockInv
  <2>6. CASE QueueMoves \/ UNCHANGED vars
    <3>1. UNCHANGED <<sig, status, attached>> BY <2>6, QueueMovesApart DEF vars, blockVars
    <3> QED BY <2>0, <3>1 DEF BlockInv
  <2> QED BY <1>1, <2>1, <2>2, <2>3, <2>4, <2>5, <2>6, StepCases
<1>2. CtlInv /\ [Next]_vars => [Step]_vars BY <1>1
<1> QED BY <1>2, CtlInvariant, PTL DEF Spec, Settled

-----------------------------------------------------------------------------
(* References.  A thread at a label, and each of its pending calls, holds  *)
(* a number of references that the label tells.                            *)

\* The references a thread at label l has for the call it is in; c tells whether
\* XAsyncComplete has taken the state off the block.
Own(l, c) ==
    IF l \in {"idle", "schedule", "complete", "signalWait", "resume", "cancel", "query",
              "getStatus", "getResult"} THEN 0
    ELSE IF l \in {"setCleanup", "cleanupState"} \/ (l = "signal" /\ c) THEN 2 ELSE 1

\* How many calls can be pending at label l.
Level(l) ==
    IF l \in {"schedule", "claim", "submit", "append", "cancel", "tryCancel", "cancelOp", "cancelDone"} THEN 1
    ELSE IF l \in {"complete", "signal", "setCleanup", "cleanupState", "release"} THEN 2
    ELSE IF l \in {"signalWait", "resume"} THEN 3 ELSE 0

\* Stack s is possible at label l.
Shape(l, s) ==
    /\ s \in Seq(Backs) /\ Len(s) <= Level(l)
    /\ \A i \in 1 .. Len(s) : Len(s) - i <= Level(s[i])
    /\ \A i \in 1 .. Len(s) : s[i] = "setCleanup" => i = 1 /\ l \in {"signalWait", "resume"}

\* The references the pending calls have: one each, and the block's with one that is to
\* clean the state up.
Carried(s) == s # <<>> /\ s[1] = "setCleanup"
Below(s) == Len(s) + (IF Carried(s) THEN 1 ELSE 0)

LEMMA LevelFacts ==
    /\ \A l : Level(l) \in 0 .. 3
    /\ \A l, c : Own(l, c) \in 0 .. 2
    /\ \A b \in Backs : \A c : Own(b, c) = IF b = "setCleanup" THEN 2 ELSE 1
BY DEF Level, Own, Backs

LEMMA ShapeGoto ==
    ASSUME NEW l, NEW s, NEW m, Shape(l, s), Level(l) <= Level(m),
           l \in {"signalWait", "resume"} => m \in {"signalWait", "resume"}
    PROVE  Shape(m, s) /\ Below(s) \in 0 .. 4
<1>1. s \in Seq(Backs) /\ Len(s) \in Nat /\ Len(s) <= Level(l) BY DEF Shape
<1>2. Level(l) \in 0 .. 3 /\ Level(m) \in 0 .. 3 BY LevelFacts
<1>3. Len(s) <= Level(m) /\ Len(s) <= 3 BY <1>1, <1>2
<1>4. Below(s) \in 0 .. 4
  <2>a. \A n \in Nat : n <= 3 => n \in 0 .. 4 /\ n + 1 \in 0 .. 4 OBVIOUS
  <2>1. Len(s) \in 0 .. 4 /\ Len(s) + 1 \in 0 .. 4 BY <1>1, <1>3, <2>a
  <2>2. Below(s) = Len(s) \/ Below(s) = Len(s) + 1
    <3>1. CASE Carried(s) BY <3>1 DEF Below
    <3>2. CASE ~Carried(s) BY <1>1, <3>2 DEF Below
    <3> QED BY <3>1, <3>2
  <2> QED BY <2>1, <2>2
<1> QED BY <1>3, <1>4 DEF Shape

LEMMA ShapeCall ==
    ASSUME NEW l, NEW s, NEW m, NEW b \in Backs, Shape(l, s), l \notin {"signalWait", "resume"},
           Level(l) <= Level(b), Level(l) + 1 <= Level(m), b = "setCleanup" => m = "signalWait"
    PROVE  /\ Shape(m, <<b>> \o s)
           /\ \A c : Below(<<b>> \o s) = Below(s) + Own(b, c)
<1> DEFINE r == <<b>> \o s
<1>1. s \in Seq(Backs) /\ Len(s) \in Nat /\ Len(s) <= Level(l) BY DEF Shape
<1>2. /\ r \in Seq(Backs) /\ Len(r) = Len(s) + 1 /\ r[1] = b /\ r # <<>>
      /\ \A i \in 2 .. Len(r) : i - 1 \in 1 .. Len(s) /\ r[i] = s[i - 1]
  <2>1. <<b>> \in Seq(Backs) /\ Len(<<b>>) = 1 /\ <<b>>[1] = b OBVIOUS
  <2>2. r \in Seq(Backs) BY <1>1, StackFacts
  <2> HIDE DEF Backs
  <2>3. Len(r) = Len(s) + 1 BY <1>1, <2>1
  <2>4. r[1] = b BY <1>1, <2>1
  <2>5. \A i \in 2 .. Len(r) : i - 1 \in 1 .. Len(s) /\ r[i] = s[i - 1] BY <1>1, <2>1, <2>3
  <2> QED BY <1>1, <2>2, <2>3, <2>4, <2>5
<1>3. Level(l) \in 0 .. 3 /\ Level(m) \in 0 .. 3 /\ Level(b) \in 0 .. 3 BY LevelFacts
<1>4. \A i \in 1 .. Len(s) : s[i] # "setCleanup" BY DEF Shape
<1> HIDE DEF r
<1>5. Len(r) <= Level(m) BY <1>1, <1>2, <1>3
<1>6. \A i \in 1 .. Len(r) : i = 1 \/ i \in 2 .. Len(r) BY <1>1, <1>2
<1>7. ASSUME NEW i \in 1 .. Len(r) PROVE Len(r) - i <= Level(r[i])
  <2>1. CASE i = 1 BY <1>1, <1>2, <1>3, <2>1
  <2>2. CASE i \in 2 .. Len(r)
    <3>1. r[i] = s[i - 1] /\ i - 1 \in 1 .. Len(s) BY <1>2, <2>2
    <3>2. Len(s) - (i - 1) <= Level(s[i - 1]) BY <3>1 DEF Shape
    <3> QED BY <1>1, <1>2, <3>1, <3>2
  <2> QED BY <1>6, <2>1, <2>2
<1>8. \A i \in 1 .. Len(r) : r[i] = "setCleanup" => i = 1 /\ m \in {"signalWait", "resume"}
  BY <1>2, <1>4, <1>6
<1>9. Shape(m, r) BY <1>2, <1>5, <1>7, <1>8 DEF Shape
<1>10. ~Carried(s)
  <2>1. s # <<>> => 1 \in 1 .. Len(s) BY <1>1
  <2> QED BY <1>4, <2>1 DEF Carried
<1>11. Carried(r) <=> b = "setCleanup" BY <1>2 DEF Carried
<1>12. \A c : Below(r) = Below(s) + Own(b, c)
  BY <1>1, <1>2, <1>10, <1>11, LevelFacts DEF Below
<1> QED BY <1>9, <1>12 DEF r

LEMMA ShapeReturn ==
    ASSUME NEW l, NEW s, Shape(l, s), s # <<>>
    PROVE  /\ Shape(Head(s), Tail(s))
           /\ Carried(s) <=> Head(s) = "setCleanup"
           /\ \A c : Below(s) = Own(Head(s), c) + Below(Tail(s))
<1> DEFINE r == Tail(s)
           b == Head(s)
<1>1. s \in Seq(Backs) /\ Len(s) \in Nat /\ Len(s) # 0 /\ 1 \in 1 .. Len(s) BY DEF Shape
<1>2. r \in Seq(Backs) /\ b \in Backs BY <1>1, StackFacts
<1>3. /\ b = s[1] /\ Len(r) = Len(s) - 1
      /\ \A i \in 1 .. Len(r) : i + 1 \in 1 .. Len(s) /\ r[i] = s[i + 1]
  <2> HIDE DEF Backs
  <2>1. Len(r) = Len(s) - 1 BY <1>1
  <2> QED BY <1>1, <2>1
<1> HIDE DEF r, b
<1>4. Len(s) - 1 <= Level(s[1]) BY <1>1 DEF Shape
<1>5. ASSUME NEW i \in 1 .. Len(r) PROVE Len(r) - i <= Level(r[i]) /\ r[i] # "setCleanup"
  <2>1. i + 1 \in 1 .. Len(s) /\ r[i] = s[i + 1] /\ i + 1 # 1 BY <1>3
  <2>2. Len(s) - (i + 1) <= Level(s[i + 1]) /\ s[i + 1] # "setCleanup" BY <2>1 DEF Shape
  <2> QED BY <1>1, <1>3, <2>1, <2>2
<1>6. Shape(b, r) BY <1>2, <1>3, <1>4, <1>5 DEF Shape
<1>7. Carried(s) <=> b = "setCleanup" BY <1>3 DEF Carried
<1>8. ~Carried(r)
  <2>1. r # <<>> => 1 \in 1 .. Len(r) BY <1>2
  <2> QED BY <1>5, <2>1 DEF Carried
<1>9. \A c : Below(s) = Own(b, c) + Below(r)
  BY <1>1, <1>2, <1>3, <1>7, <1>8, LevelFacts DEF Below
<1> QED BY <1>6, <1>7, <1>9 DEF r, b

-----------------------------------------------------------------------------
(* The sum of what the threads hold.                                       *)

Tokens(m) == {p \in Threads \X (1 .. 8) : p[2] <= m[p[1]]}
Count(m) == Cardinality(Tokens(m))
Bounded == [Threads -> 0 .. 8]

LEMMA TokensFinite == \A m : IsFiniteSet(Tokens(m)) /\ Count(m) \in Nat
<1>1. IsFiniteSet(Threads \X (1 .. 8))
  <2>0. 1 \in Int /\ 8 \in Int OBVIOUS
  <2>1. IsFiniteSet(1 .. 8) BY <2>0, FS_Interval, Zenon
  <2> QED BY <2>1, ConstantsAssumption, FS_Product
<1>2. \A m : Tokens(m) \subseteq Threads \X (1 .. 8) BY DEF Tokens
<1>3. \A m : IsFiniteSet(Tokens(m)) BY <1>1, <1>2, FS_Subset
<1> QED BY <1>3, FS_CardinalityType DEF Count

LEMMA CountUp ==
    ASSUME NEW m \in Bounded, NEW t \in Threads, m[t] + 1 <= 8
    PROVE  /\ [m EXCEPT ![t] = m[t] + 1] \in Bounded
           /\ Count([m EXCEPT ![t] = m[t] + 1]) = Count(m) + 1
<1> DEFINE n == [m EXCEPT ![t] = m[t] + 1]
           q == <<t, m[t] + 1>>
<1>0. m[t] \in 0 .. 8 /\ m[t] + 1 \in 1 .. 8 BY DEF Bounded
<1>1. n \in Bounded /\ n[t] = m[t] + 1 /\ \A u \in Threads \ {t} : n[u] = m[u]
  BY <1>0 DEF Bounded
<1>2. q \in Threads \X (1 .. 8) /\ q[1] = t /\ q[2] = m[t] + 1 BY <1>0
<1> HIDE DEF n
<1>3. q \notin Tokens(m) BY <1>0, <1>2 DEF Tokens
<1>4. Tokens(n) = Tokens(m) \cup {q}
  <2>1. ASSUME NEW p \in Threads \X (1 .. 8) PROVE p[2] <= n[p[1]] <=> p[2] <= m[p[1]] \/ p = q
    <3>1. p = <<p[1], p[2]>> /\ p[1] \in Threads /\ p[2] \in 1 .. 8 OBVIOUS
    <3>2. CASE p[1] = t
      <4>1. p[2] <= m[t] + 1 <=> p[2] <= m[t] \/ p[2] = m[t] + 1 BY <1>0, <3>1
      <4> QED BY <1>1, <3>1, <3>2, <4>1
    <3>3. CASE p[1] # t BY <1>1, <3>1, <3>3
    <3> QED BY <3>2, <3>3
  <2> QED BY <1>2, <2>1 DEF Tokens
<1>5. Cardinality(Tokens(m) \cup {q}) = Cardinality(Tokens(m)) + 1
  BY <1>3, TokensFinite, FS_AddElement
<1> QED BY <1>1, <1>4, <1>5 DEF Count, n

\* The sum follows what thread t takes and gives up.
LEMMA CountMoves ==
    ASSUME NEW m \in Bounded, NEW t \in Threads, NEW d \in {-2, -1, 0, 1, 2}, m[t] + d \in 0 .. 8
    PROVE  /\ [m EXCEPT ![t] = m[t] + d] \in Bounded
           /\ Count([m EXCEPT ![t] = m[t] + d]) = Count(m) + d
<1> DEFINE N(k) == [m EXCEPT ![t] = k]
<1>0. m[t] \in 0 .. 8 /\ m = N(m[t]) BY DEF Bounded
<1>1. ASSUME NEW k \in 0 .. 7 PROVE /\ N(k) \in Bounded /\ N(k + 1) \in Bounded
                                    /\ Count(N(k + 1)) = Count(N(k)) + 1
  <2>1. N(k) \in Bounded /\ N(k)[t] = k BY DEF Bounded
  <2>2. [N(k) EXCEPT ![t] = k + 1] = N(k + 1) BY DEF Bounded
  <2> HIDE DEF N
  <2> QED BY <2>1, <2>2, CountUp
<1>2. \A k : Count(N(k)) \in Nat BY TokensFinite
<1>3. \A k \in 0 .. 8 : N(k) \in Bounded BY DEF Bounded
<1> HIDE DEF N
<1>4. Count(N(m[t] + d)) = Count(N(m[t])) + d
  <2>x. PICK x \in 0 .. 8 : x = m[t] BY <1>0
  <2>0. x \in 0 .. 8 /\ x + d \in 0 .. 8 BY <2>x
  <2> SUFFICES Count(N(x + d)) = Count(N(x)) + d BY <2>x
  <2>1. CASE d = 0
    <3>1. x + d = x BY <2>0, <2>1
    <3>2. Count(N(x)) \in Nat BY <1>2
    <3> QED BY <2>1, <3>1, <3>2
  <2>2. CASE d = 1
    <3>1. x \in 0 .. 7 BY <2>0, <2>2
    <3> QED BY <1>1, <2>2, <3>1
  <2>3. CASE d = 2
    <3>1. x \in 0 .. 7 /\ x + 1 \in 0 .. 7 /\ (x + 1) + 1 = x + 2 BY <2>0, <2>3
    <3>2. Count(N(x + 1)) = Count(N(x)) + 1 /\ Count(N((x + 1) + 1)) = Count(N(x + 1)) + 1 BY <1>1, <3>1
    <3> QED BY <1>2, <2>3, <3>1, <3>2
  <2>4. CASE d = -1
    <3>1. x - 1 \in 0 .. 7 /\ (x - 1) + 1 = x /\ x + d = x - 1 BY <2>0, <2>4
    <3>2. Count(N((x - 1) + 1)) = Count(N(x - 1)) + 1 BY <1>1, <3>1
    <3> QED BY <1>2, <2>4, <3>1, <3>2
  <2>5. CASE d = -2
    <3>1. /\ x - 1 \in 0 .. 7 /\ (x - 1) + 1 = x /\ x - 2 \in 0 .. 7 /\ (x - 2) + 1 = x - 1
          /\ x + d = x - 2
      BY <2>0, <2>5
    <3>2. Count(N((x - 1) + 1)) = Count(N(x - 1)) + 1 /\ Count(N((x - 2) + 1)) = Count(N(x - 2)) + 1
      BY <1>1, <3>1
    <3> QED BY <1>2, <2>5, <3>1, <3>2
  <2> QED BY <2>1, <2>2, <2>3, <2>4, <2>5
<1> QED BY <1>0, <1>3, <1>4 DEF N

\* Nothing counted, nothing held; and the sum is no less than any part.
LEMMA CountZero ==
    ASSUME NEW m \in Bounded, Count(m) = 0
    PROVE  \A t \in Threads : m[t] = 0
<1>1. Tokens(m) = {} BY TokensFinite, FS_EmptySet DEF Count
<1>2. ASSUME NEW t \in Threads, m[t] # 0 PROVE FALSE
  <2>1. m[t] \in 1 .. 8 BY <1>2 DEF Bounded
  <2>2. <<t, 1>> \in Threads \X (1 .. 8) /\ <<t, 1>>[2] = 1 /\ <<t, 1>>[1] = t OBVIOUS
  <2>3. <<t, 1>> \in Tokens(m) BY <2>1, <2>2 DEF Tokens
  <2> QED BY <1>1, <2>3
<1> QED BY <1>2

-----------------------------------------------------------------------------
(* What a thread holds, before and after a step.                           *)

\* The places with a guard on the caller's block.
Peekers == {"cancel", "checkStatus", "query", "getStatus", "final", "getResult", "extract",
            "complete"}

One(b) == IF b THEN 1 ELSE 0

\* A thread at label l with stack s, doCleanup c and p references of guards holds n.
Fits(l, s, c, p, n) ==
    Shape(l, s) /\ n = Own(l, c) + Below(s) + p /\ (p # 0 => l \in Peekers)

ThreadOk(t) == Fits(pc[t], stack[t], loc[t].cleaning, One(peeked[t]), mine[t])

RefTypes ==
    /\ mine \in Bounded /\ peeked \in [Threads -> BOOLEAN]
    /\ refs \in Nat /\ workQ \in Nat /\ complQ \in Nat

LEMMA FitsBound ==
    ASSUME NEW l, NEW s, NEW c, NEW p \in 0 .. 1, NEW n, Fits(l, s, c, p, n)
    PROVE  n \in 0 .. 8 /\ Below(s) \in 0 .. 4 /\ Own(l, c) \in 0 .. 2
<1>1. Below(s) \in 0 .. 4
  <2>1. Level(l) <= Level(l) BY LevelFacts
  <2> QED BY <2>1, ShapeGoto DEF Fits
<1>2. Own(l, c) \in 0 .. 2 BY LevelFacts
<1> QED BY <1>1, <1>2 DEF Fits

LEMMA FitsGoto ==
    ASSUME NEW l, NEW s, NEW c, NEW p \in 0 .. 1, NEW n, Fits(l, s, c, p, n),
           NEW m, NEW e, NEW q \in 0 .. 1, q # 0 => m \in Peekers, Level(l) <= Level(m),
           l \in {"signalWait", "resume"} => m \in {"signalWait", "resume"}
    PROVE  Fits(m, s, e, q, n + (Own(m, e) - Own(l, c) + q - p))
<1>1. Shape(m, s) BY ShapeGoto DEF Fits
<1>2. /\ n \in 0 .. 8 /\ Below(s) \in 0 .. 4 /\ Own(l, c) \in 0 .. 2
      /\ n = Own(l, c) + Below(s) + p
  BY FitsBound DEF Fits
<1>3. Own(m, e) \in 0 .. 2 BY LevelFacts
<1>4. n + (Own(m, e) - Own(l, c) + q - p) = Own(m, e) + Below(s) + q
  BY <1>2, <1>3
<1> QED BY <1>1, <1>4 DEF Fits

LEMMA FitsCall ==
    ASSUME NEW l, NEW s, NEW c, NEW p \in 0 .. 1, NEW n, Fits(l, s, c, p, n),
           NEW m, NEW e, NEW b \in Backs, l \notin {"signalWait", "resume"},
           Level(l) <= Level(b), Level(l) + 1 <= Level(m), b = "setCleanup" => m = "signalWait"
    PROVE  Fits(m, <<b>> \o s, e, 0, n + (Own(m, e) + Own(b, e) - Own(l, c) - p))
<1>1. Shape(m, <<b>> \o s) /\ Below(<<b>> \o s) = Below(s) + Own(b, e) BY ShapeCall DEF Fits
<1>2. /\ n \in 0 .. 8 /\ Below(s) \in 0 .. 4 /\ Own(l, c) \in 0 .. 2
      /\ n = Own(l, c) + Below(s) + p
  BY FitsBound DEF Fits
<1>3. Own(m, e) \in 0 .. 2 /\ Own(b, e) \in 0 .. 2 BY LevelFacts
<1>4. n + (Own(m, e) + Own(b, e) - Own(l, c) - p) = Own(m, e) + Below(<<b>> \o s) + 0
  <2>1. \A a1, a2, a3, a4, a5 \in Int :
           (a1 + a2 + a3) + (a4 + a5 - a1 - a3) = a4 + (a2 + a5) + 0
    OBVIOUS
  <2>2. PICK a1, a2, a4, a5, r \in Int :
           Own(l, c) = a1 /\ Below(s) = a2 /\ Own(m, e) = a4 /\ Own(b, e) = a5
           /\ Below(<<b>> \o s) = r
    BY <1>1, <1>2, <1>3
  <2>3. r = a2 + a5 /\ n = a1 + a2 + p BY <1>1, <1>2, <2>2
  <2>4. n + (a4 + a5 - a1 - p) = a4 + r + 0 BY <2>1, <2>3
  <2> QED BY <2>2, <2>4
<1> QED BY <1>1, <1>4 DEF Fits

LEMMA FitsReturn ==
    ASSUME NEW l, NEW s, NEW c, NEW p \in 0 .. 1, NEW n, Fits(l, s, c, p, n), NEW e
    PROVE  Fits(IF s = <<>> THEN "idle" ELSE Head(s), IF s = <<>> THEN <<>> ELSE Tail(s), e,
                0, n + (0 - Own(l, c) - p))
<1>2. /\ n \in 0 .. 8 /\ Below(s) \in 0 .. 4 /\ Own(l, c) \in 0 .. 2
      /\ n = Own(l, c) + Below(s) + p
  BY FitsBound DEF Fits
<1>4. CASE s = <<>>
  <2>1. Below(<<>>) = 0 /\ Own("idle", e) = 0 BY DEF Below, Carried, Own
  <2>2. Shape("idle", <<>>) BY DEF Shape, Level
  <2>3. n + (0 - Own(l, c) - p) = 0 BY <1>2, <1>4, <2>1
  <2> QED BY <1>4, <2>1, <2>2, <2>3 DEF Fits
<1>5. CASE s # <<>>
  <2>1. Shape(Head(s), Tail(s)) /\ Below(s) = Own(Head(s), e) + Below(Tail(s))
    BY <1>5, ShapeReturn DEF Fits
  <2>2. n + (0 - Own(l, c) - p) = Below(s) + 0 BY <1>2
  <2> QED BY <1>5, <2>1, <2>2 DEF Fits
<1> QED BY <1>4, <1>5

\* Thread t gains d references; p of them are a guard's then.
Gains(t, d) == mine' = [mine EXCEPT ![t] = mine[t] + d]
Peeks(t, p) ==
    /\ peeked' \in [Threads -> BOOLEAN] /\ One(peeked'[t]) = p
    /\ \A u \in Threads \ {t} : peeked'[u] = peeked[u]

RefBase == CtlTypes /\ RefTypes /\ \A t \in Threads : ThreadOk(t)

\* The threads hold what their places say, d more than before.
Sound(d) ==
    /\ \A u \in Threads : ThreadOk(u)'
    /\ mine' \in Bounded /\ Count(mine') = Count(mine) + d
    /\ peeked' \in [Threads -> BOOLEAN]

LEMMA SoundStep ==
    ASSUME RefBase, NEW t \in Threads, NEW d \in {-2, -1, 0, 1, 2}, NEW p \in 0 .. 1,
           Gains(t, d), Peeks(t, p), Keeps(t),
           \A u \in Threads \ {t} : pc'[u] = pc[u] /\ stack'[u] = stack[u],
           Fits(pc'[t], stack'[t], loc'[t].cleaning, p, mine[t] + d)
    PROVE  Sound(d)
<1>1. /\ mine \in Bounded /\ peeked \in [Threads -> BOOLEAN]
      /\ mine' = [mine EXCEPT ![t] = mine[t] + d]
  BY DEF RefBase, RefTypes, Gains
<1>2. mine[t] + d \in 0 .. 8 BY FitsBound
<1>3. mine' \in Bounded /\ Count(mine') = Count(mine) + d BY <1>1, <1>2, CountMoves
<1>4. /\ mine'[t] = mine[t] + d /\ One(peeked'[t]) = p /\ peeked' \in [Threads -> BOOLEAN]
      /\ \A u \in Threads \ {t} : mine'[u] = mine[u] /\ peeked'[u] = peeked[u]
  BY <1>1 DEF Bounded, Peeks
<1>5. ThreadOk(t)' BY <1>4 DEF ThreadOk
<1>6. ASSUME NEW u \in Threads \ {t} PROVE ThreadOk(u)'
  <2>1. ThreadOk(u) BY DEF RefBase
  <2> QED BY <1>4, <2>1 DEF ThreadOk, Keeps
<1> QED BY <1>3, <1>4, <1>5, <1>6 DEF Sound

LEMMA GotoSound ==
    ASSUME RefBase, NEW t \in Threads, NEW d \in {-2, -1, 0, 1, 2}, NEW p \in 0 .. 1,
           Gains(t, d), Peeks(t, p), Keeps(t), NEW m, Goto(t, m), p # 0 => m \in Peekers,
           Level(pc[t]) <= Level(m), pc[t] \in {"signalWait", "resume"} => m = "resume",
           d = Own(m, loc'[t].cleaning) - Own(pc[t], loc[t].cleaning) + p - One(peeked[t])
    PROVE  Sound(d)
<1>1. /\ pc' = [pc EXCEPT ![t] = m] /\ stack' = stack /\ pc \in [Threads -> PCs]
      /\ One(peeked[t]) \in 0 .. 1
  BY DEF Goto, RefBase, CtlTypes, RefTypes, One
<1>2. pc'[t] = m /\ stack'[t] = stack[t]
      /\ \A u \in Threads \ {t} : pc'[u] = pc[u] /\ stack'[u] = stack[u]
  BY <1>1
<1>3. Fits(pc[t], stack[t], loc[t].cleaning, One(peeked[t]), mine[t]) BY DEF RefBase, ThreadOk
<1>4. Fits(m, stack[t], loc'[t].cleaning, p, mine[t] + d) BY <1>1, <1>3, FitsGoto
<1> QED BY <1>2, <1>4, SoundStep

LEMMA CallSound ==
    ASSUME RefBase, NEW t \in Threads, NEW d \in {-2, -1, 0, 1, 2},
           Gains(t, d), Peeks(t, 0), Keeps(t), NEW m, NEW b \in Backs, Call(t, m, b),
           pc[t] \notin {"signalWait", "resume"},
           Level(pc[t]) <= Level(b), Level(pc[t]) + 1 <= Level(m),
           b = "setCleanup" => m = "signalWait",
           d = Own(m, loc'[t].cleaning) + Own(b, loc'[t].cleaning)
                 - Own(pc[t], loc[t].cleaning) - One(peeked[t])
    PROVE  Sound(d)
<1>1. /\ pc' = [pc EXCEPT ![t] = m] /\ stack' = [stack EXCEPT ![t] = <<b>> \o stack[t]]
      /\ pc \in [Threads -> PCs] /\ stack \in Stacks /\ One(peeked[t]) \in 0 .. 1
  BY DEF Call, RefBase, CtlTypes, RefTypes, One
<1>2. pc'[t] = m /\ stack'[t] = <<b>> \o stack[t]
      /\ \A u \in Threads \ {t} : pc'[u] = pc[u] /\ stack'[u] = stack[u]
  BY <1>1 DEF Stacks
<1>3. Fits(pc[t], stack[t], loc[t].cleaning, One(peeked[t]), mine[t]) BY DEF RefBase, ThreadOk
<1>4. Fits(m, <<b>> \o stack[t], loc'[t].cleaning, 0, mine[t] + d) BY <1>1, <1>3, FitsCall
<1>5. Fits(pc'[t], stack'[t], loc'[t].cleaning, 0, mine[t] + d) BY <1>2, <1>4
<1>6. \A u \in Threads \ {t} : pc'[u] = pc[u] /\ stack'[u] = stack[u] BY <1>2
<1> QED BY <1>5, <1>6, SoundStep

LEMMA ReturnSound ==
    ASSUME RefBase, NEW t \in Threads, NEW d \in {-2, -1, 0, 1, 2},
           Gains(t, d), Peeks(t, 0), Keeps(t), Return(t),
           d = 0 - Own(pc[t], loc[t].cleaning) - One(peeked[t])
    PROVE  Sound(d)
<1> DEFINE m == IF stack[t] = <<>> THEN "idle" ELSE Head(stack[t])
           r == IF stack[t] = <<>> THEN <<>> ELSE Tail(stack[t])
<1>1. /\ pc' = [pc EXCEPT ![t] = m] /\ stack' = [stack EXCEPT ![t] = r]
      /\ pc \in [Threads -> PCs] /\ stack \in Stacks /\ One(peeked[t]) \in 0 .. 1
  BY DEF Return, RefBase, CtlTypes, RefTypes, One
<1>3. Fits(pc[t], stack[t], loc[t].cleaning, One(peeked[t]), mine[t]) BY DEF RefBase, ThreadOk
<1>4. Fits(m, r, loc'[t].cleaning, 0, mine[t] + d) BY <1>1, <1>3, FitsReturn
<1> HIDE DEF m, r
<1>2. pc'[t] = m /\ stack'[t] = r
      /\ \A u \in Threads \ {t} : pc'[u] = pc[u] /\ stack'[u] = stack[u]
  BY <1>1 DEF Stacks
<1> QED BY <1>2, <1>4, SoundStep

\* A step that touches neither.
LEMMA NoGain ==
    ASSUME RefBase, NEW t \in Threads
    PROVE  /\ UNCHANGED mine => Gains(t, 0)
           /\ UNCHANGED peeked => Peeks(t, One(peeked[t]))
           /\ UNCHANGED peeked /\ ~peeked[t] => Peeks(t, 0)
           /\ peeked[t] \in BOOLEAN /\ (peeked[t] => pc[t] \in Peekers)
           /\ One(peeked[t]) = 0 <=> ~peeked[t]
           /\ One(peeked[t]) = 1 <=> peeked[t]
<1>1. mine \in Bounded /\ peeked \in [Threads -> BOOLEAN] BY DEF RefBase, RefTypes
<1>2. mine[t] \in 0 .. 8 /\ mine[t] + 0 = mine[t] BY <1>1 DEF Bounded
<1>3. UNCHANGED mine => Gains(t, 0) BY <1>1, <1>2 DEF Gains, Bounded
<1>4. UNCHANGED peeked => Peeks(t, One(peeked[t])) BY <1>1 DEF Peeks
<1>5. peeked[t] => pc[t] \in Peekers BY DEF RefBase, ThreadOk, Fits, One
<1>6. UNCHANGED peeked /\ ~peeked[t] => Peeks(t, 0) BY <1>1 DEF Peeks, One
<1> QED BY <1>1, <1>2, <1>3, <1>4, <1>5, <1>6 DEF One

-----------------------------------------------------------------------------
(* The reference count.                                                    *)

\* The thread has the block's reference, to release it.
Carrier(t) == Own(pc[t], loc[t].cleaning) = 2 \/ Carried(stack[t])

Balance == refs = Count(mine) + workQ + complQ + One(attached)

\* The state is gone when nobody refers to it any more, after it was made invalid; and
\* until then somebody is on the way to do that once the block has lost it.
FreedInv ==
    /\ freed \in BOOLEAN /\ valid \in BOOLEAN
    /\ freed <=> refs = 0 /\ ~valid
    /\ ~valid => ~attached /\ sig # "none"
    /\ sig = "none" => refs = 0
    /\ \A t \in Threads : Carrier(t) => ~attached
    /\ refs # 0 /\ ~attached /\ valid => \E t \in Threads : Carrier(t)

\* Only the one getter collects, so the state it asks for is still there.
GetInv ==
    \A t \in Threads :
        /\ pc[t] \in {"getResult", "getOp", "extract"} => t \in Getters
        /\ pc[t] \in {"getOp", "extract"} => attached

RefInv == RefTypes /\ (\A t \in Threads : ThreadOk(t)) /\ Balance /\ FreedInv /\ GetInv

\* What a step of thread t does to the references.
Accounts(t) ==
    /\ \E d \in Int :
          /\ Sound(d)
          /\ refs' = refs + d + (workQ' - workQ) + (complQ' - complQ)
                       + (One(attached') - One(attached))
    /\ workQ' \in Nat /\ complQ' \in Nat /\ attached' \in BOOLEAN
    /\ \A u \in Threads \ {t} : /\ pc'[u] = pc[u] /\ stack'[u] = stack[u]
                                /\ loc'[u] = loc[u]
    /\ freed' \in BOOLEAN /\ (freed' <=> freed \/ (refs' = 0 /\ refs # 0))
    /\ valid' \in BOOLEAN /\ (valid' = valid \/ (~valid' /\ Carrier(t)))
    /\ attached' = attached \/ (~attached' /\ Carrier(t)')
    /\ Carrier(t) => Carrier(t)' \/ ~valid'
    /\ Carrier(t)' => Carrier(t) \/ ~attached'
    /\ refs = 0 => refs' = 0
    /\ sig # "none" /\ sig' # "none"
    /\ pc'[t] \in {"getResult", "getOp", "extract"} =>
          t \in Getters \/ pc[t] \in {"getResult", "getOp", "extract"}
    /\ pc'[t] \in {"getOp", "extract"} => attached'
    /\ attached' # attached => \A u \in Threads \ {t} : pc[u] \notin {"getOp", "extract"}

LEMMA OneFacts ==
    /\ \A b \in BOOLEAN : One(b) \in 0 .. 1
    /\ \A b : b => One(b) = 1
    /\ \A b : ~b => One(b) = 0
BY DEF One

\* A carrier holds two references.
LEMMA CarrierHolds ==
    ASSUME NEW l, NEW s, NEW c, NEW p \in 0 .. 1, NEW n, Fits(l, s, c, p, n),
           Own(l, c) = 2 \/ Carried(s)
    PROVE  n >= 2
<1>1. /\ Below(s) \in 0 .. 4 /\ Own(l, c) \in 0 .. 2 /\ n = Own(l, c) + Below(s) + p
  BY FitsBound DEF Fits
<1>2. CASE Own(l, c) = 2 BY <1>1, <1>2
<1>3. CASE Carried(s)
  <2>1. s \in Seq(Backs) /\ s # <<>> BY <1>3 DEF Fits, Shape, Carried
  <2>2. Len(s) \in Nat /\ Len(s) # 0 BY <2>1
  <2>3. Below(s) = Len(s) + 1 BY <1>3, <2>2 DEF Below
  <2>4. Below(s) >= 2 BY <2>2, <2>3
  <2> QED BY <1>1, <2>4
<1> QED BY <1>2, <1>3

\* Nothing is held when nothing is counted.
LEMMA NothingHeld ==
    ASSUME NEW m \in Bounded, NEW w \in Nat, NEW k \in Nat, NEW o \in 0 .. 1,
           Count(m) + w + k + o = 0
    PROVE  w = 0 /\ k = 0 /\ o = 0 /\ \A t \in Threads : m[t] = 0
<1>1. Count(m) \in Nat BY TokensFinite
<1>3. Count(m) = 0 /\ w = 0 /\ k = 0 /\ o = 0
  <2>1. PICK a \in Nat : a = Count(m) BY <1>1
  <2>2. a + w + k + o = 0 /\ o \in Nat BY <2>1
  <2>3. a = 0 /\ w = 0 /\ k = 0 /\ o = 0 BY <2>2
  <2> QED BY <2>1, <2>3
<1> QED BY <1>3, CountZero

LEMMA AccountsStep ==
    ASSUME RefInv, CtlTypes, NEW t \in Threads, Accounts(t)
    PROVE  RefInv'
<1>0. RefTypes /\ Balance /\ FreedInv /\ GetInv /\ \A u \in Threads : ThreadOk(u)
  BY DEF RefInv
<1>1. PICK d \in Int :
         /\ Sound(d)
         /\ refs' = refs + d + (workQ' - workQ) + (complQ' - complQ)
                      + (One(attached') - One(attached))
  BY DEF Accounts
<1>2. /\ \A u \in Threads : ThreadOk(u)'
      /\ mine' \in Bounded /\ Count(mine') = Count(mine) + d
      /\ peeked' \in [Threads -> BOOLEAN]
  BY <1>1 DEF Sound
<1>3. /\ workQ' \in Nat /\ complQ' \in Nat /\ workQ \in Nat /\ complQ \in Nat
      /\ Count(mine) \in Nat /\ Count(mine') \in Nat
      /\ One(attached) \in 0 .. 1 /\ One(attached') \in 0 .. 1
  BY <1>0, TokensFinite, OneFacts DEF Accounts, RefTypes, CtlTypes
<1>4. Balance'
  <2>1. \A a, w, k, o, w2, k2, o2, e \in Int :
           (a + w + k + o) + e + (w2 - w) + (k2 - k) + (o2 - o) = (a + e) + w2 + k2 + o2
    OBVIOUS
  <2>2. PICK a, o, o2 \in Int : a = Count(mine) /\ o = One(attached) /\ o2 = One(attached')
    BY <1>3
  <2>3. refs = a + workQ + complQ + o BY <1>0, <2>2 DEF Balance
  <2>4. refs' = (a + d) + workQ' + complQ' + o2 BY <1>1, <1>3, <2>1, <2>2, <2>3
  <2> QED BY <1>2, <2>2, <2>4 DEF Balance
<1>5. RefTypes'
  <2>1. \A a, w, k, o \in Nat : a + w + k + o \in Nat OBVIOUS
  <2>2. refs' \in Nat BY <1>3, <1>4, <2>1 DEF Balance
  <2> QED BY <1>2, <1>3, <2>2 DEF RefTypes
<1>6. \A u \in Threads \ {t} : Carrier(u)' <=> Carrier(u) BY DEF Accounts, Carrier
<1>7. refs' = 0 => ~attached' /\ \A u \in Threads : ~Carrier(u)'
  <2> SUFFICES ASSUME refs' = 0 PROVE ~attached' /\ \A u \in Threads : ~Carrier(u)' OBVIOUS
  <2>1. attached' \in BOOLEAN BY DEF Accounts
  <2>a. refs' = Count(mine') + workQ' + complQ' + One(attached') BY <1>4 DEF Balance
  <2>2. Count(mine') + workQ' + complQ' + One(attached') = 0 BY <2>a
  <2>3. One(attached') = 0 /\ \A u \in Threads : mine'[u] = 0
    <3>1. PICK m \in Bounded, w \in Nat, k \in Nat, o \in 0 .. 1 :
             m = mine' /\ w = workQ' /\ k = complQ' /\ o = One(attached')
      BY <1>2, <1>3
    <3>2. Count(m) + w + k + o = 0 BY <2>2, <3>1
    <3>3. o = 0 /\ \A u \in Threads : m[u] = 0 BY <3>2, NothingHeld
    <3> QED BY <3>1, <3>3
  <2>4. ~attached' BY <2>1, <2>3, OneFacts
  <2>5. ASSUME NEW u \in Threads, Carrier(u)' PROVE mine'[u] >= 2
    <3>1. Fits(pc'[u], stack'[u], loc'[u].cleaning, One(peeked'[u]), mine'[u])
      BY <1>2 DEF ThreadOk
    <3>2. One(peeked'[u]) \in 0 .. 1 BY <1>2, OneFacts
    <3>3. Own(pc'[u], loc'[u].cleaning) = 2 \/ Carried(stack'[u]) BY <2>5 DEF Carrier
    <3> QED BY <3>1, <3>2, <3>3, CarrierHolds
  <2> QED BY <2>3, <2>4, <2>5
<1>8. FreedInv'
  <2>1. freed' \in BOOLEAN /\ valid' \in BOOLEAN /\ sig' # "none" /\ sig # "none" BY DEF Accounts
  <2>2. ~valid' => ~attached' BY <1>0 DEF Accounts, FreedInv
  <2>3. \A u \in Threads : Carrier(u)' => ~attached'
    <3>1. Carrier(t)' => ~attached' BY <1>0 DEF Accounts, FreedInv
    <3>2. ASSUME NEW u \in Threads \ {t}, Carrier(u)' PROVE ~attached'
      BY <1>0, <1>6, <3>2 DEF Accounts, FreedInv
    <3> QED BY <3>1, <3>2
  <2>4. refs' # 0 /\ ~attached' /\ valid' => \E u \in Threads : Carrier(u)'
    <3> SUFFICES ASSUME refs' # 0, ~attached', valid' PROVE \E u \in Threads : Carrier(u)'
      OBVIOUS
    <3>1. CASE attached BY <3>1 DEF Accounts
    <3>2. CASE ~attached
      <4>1. refs # 0 /\ valid BY <1>0 DEF Accounts, FreedInv
      <4>2. PICK u \in Threads : Carrier(u) BY <1>0, <3>2, <4>1 DEF FreedInv
      <4>3. CASE u = t BY <4>2, <4>3 DEF Accounts
      <4>4. CASE u # t BY <1>6, <4>2, <4>4
      <4> QED BY <4>3, <4>4
    <3> QED BY <3>1, <3>2
  <2>5. freed' <=> refs' = 0 /\ ~valid'
    <3>1. ASSUME freed' PROVE refs' = 0 /\ ~valid'
      <4>1. CASE freed BY <1>0, <4>1 DEF Accounts, FreedInv
      <4>2. CASE ~freed
        <5>1. refs' = 0 /\ refs # 0 BY <3>1, <4>2 DEF Accounts
        <5>2. ASSUME valid' PROVE FALSE
          <6>1. valid BY <5>2, <1>0 DEF Accounts, FreedInv
          <6>2. ~attached' /\ \A u \in Threads : ~Carrier(u)' BY <1>7, <5>1
          <6>3. ~attached BY <6>2 DEF Accounts
          <6>4. PICK u \in Threads : Carrier(u) BY <1>0, <5>1, <6>1, <6>3 DEF FreedInv
          <6>5. CASE u = t BY <5>2, <6>2, <6>4, <6>5 DEF Accounts
          <6>6. CASE u # t BY <1>6, <6>2, <6>4, <6>6
          <6> QED BY <6>5, <6>6
        <5> QED BY <2>1, <5>1, <5>2
      <4> QED BY <4>1, <4>2
    <3>2. ASSUME refs' = 0, ~valid' PROVE freed'
      <4>1. CASE refs # 0 BY <3>2, <4>1 DEF Accounts
      <4>2. CASE refs = 0
        <5>1. ~Carrier(t)
          <6>1. Count(mine) + workQ + complQ + One(attached) = 0 BY <1>0, <4>2 DEF Balance
          <6>2. mine[t] = 0 BY <1>0, <1>3, <6>1, NothingHeld DEF RefTypes
          <6>3. Fits(pc[t], stack[t], loc[t].cleaning, One(peeked[t]), mine[t])
            BY <1>0 DEF ThreadOk
          <6>4. One(peeked[t]) \in 0 .. 1 BY <1>0, OneFacts DEF RefTypes
          <6>5. Carrier(t) => mine[t] >= 2 BY <6>3, <6>4, CarrierHolds DEF Carrier
          <6> QED BY <6>2, <6>5
        <5>2. ~valid BY <3>2, <5>1 DEF Accounts
        <5>3. freed BY <1>0, <4>2, <5>2 DEF FreedInv
        <5> QED BY <5>3 DEF Accounts
      <4> QED BY <4>1, <4>2
    <3> QED BY <3>1, <3>2
  <2> QED BY <2>1, <2>2, <2>3, <2>4, <2>5 DEF FreedInv
<1>9. GetInv'
  <2>1. ASSUME NEW u \in Threads
        PROVE  /\ pc'[u] \in {"getResult", "getOp", "extract"} => u \in Getters
               /\ pc'[u] \in {"getOp", "extract"} => attached'
    <3>1. CASE u = t BY <1>0, <3>1 DEF Accounts, GetInv
    <3>2. CASE u # t BY <1>0, <3>2 DEF Accounts, GetInv
    <3> QED BY <3>1, <3>2
  <2> QED BY <2>1 DEF GetInv
<1> QED BY <1>2, <1>4, <1>5, <1>8, <1>9 DEF RefInv

-----------------------------------------------------------------------------
(* What the guards and the references do to the account.                   *)

\* Thread t takes d references, and holds p of its guard then.
Pays(t, d, p) ==
    /\ Gains(t, d) /\ Peeks(t, p) /\ refs' = refs + d
    /\ freed' \in BOOLEAN /\ (freed' <=> freed \/ (d # 0 /\ refs + d = 0))

RefOk == CtlInv /\ RefInv

LEMMA RefOkFacts ==
    ASSUME RefOk, NEW t \in Threads
    PROVE  /\ RefBase /\ CtlTypes /\ BlockInv
           /\ refs \in Nat /\ workQ \in Nat /\ complQ \in Nat /\ mine \in Bounded
           /\ mine[t] \in 0 .. 8 /\ peeked \in [Threads -> BOOLEAN] /\ attached \in BOOLEAN
           /\ freed \in BOOLEAN /\ valid \in BOOLEAN
           /\ refs = 0 => mine[t] = 0 /\ workQ = 0 /\ complQ = 0 /\ ~attached
<1>1. /\ RefTypes /\ Balance /\ FreedInv /\ CtlTypes /\ BlockInv /\ RefBase
  BY DEF RefOk, CtlInv, RefInv, RefBase
<1>2. /\ refs \in Nat /\ workQ \in Nat /\ complQ \in Nat /\ mine \in Bounded
      /\ mine[t] \in 0 .. 8 /\ peeked \in [Threads -> BOOLEAN] /\ attached \in BOOLEAN
      /\ freed \in BOOLEAN /\ valid \in BOOLEAN
  BY <1>1 DEF RefTypes, CtlTypes, FreedInv, Bounded
<1>3. ASSUME refs = 0 PROVE mine[t] = 0 /\ workQ = 0 /\ complQ = 0 /\ ~attached
  <2>1. PICK o \in 0 .. 1 : o = One(attached) BY <1>2, OneFacts
  <2>2. Count(mine) + workQ + complQ + o = 0 BY <1>1, <1>3, <2>1 DEF Balance
  <2>3. workQ = 0 /\ complQ = 0 /\ o = 0 /\ mine[t] = 0 BY <1>2, <2>2, NothingHeld
  <2> QED BY <1>2, <2>1, <2>3 DEF One
<1> QED BY <1>1, <1>2, <1>3

LEMMA SamePays ==
    ASSUME RefOk, NEW t \in Threads, UNCHANGED <<refs, freed, mine, peeked>>
    PROVE  Pays(t, 0, One(peeked[t]))
<1>1. RefBase /\ refs \in Nat /\ freed \in BOOLEAN BY RefOkFacts
<1>2. Gains(t, 0) /\ Peeks(t, One(peeked[t])) BY <1>1, NoGain
<1>3. refs' = refs + 0 /\ freed' = freed BY <1>1
<1> QED BY <1>1, <1>2, <1>3 DEF Pays

\* The guard of thread t ends.
LEMMA Unpeeks ==
    ASSUME RefOk, NEW t \in Threads,
           \/ peeked' = [peeked EXCEPT ![t] = FALSE]
           \/ UNCHANGED peeked /\ ~peeked[t]
    PROVE  Peeks(t, 0)
<1>1. peeked \in [Threads -> BOOLEAN] BY RefOkFacts
<1> QED BY <1>1 DEF Peeks, One

LEMMA ReleasePays ==
    ASSUME RefOk, NEW t \in Threads, NEW n \in {1, 2}, Release(t, n), Peeks(t, 0)
    PROVE  Pays(t, 0 - n, 0)
<1>1. /\ refs \in Nat /\ freed \in BOOLEAN /\ mine[t] \in 0 .. 8 /\ mine \in Bounded
  BY RefOkFacts
<1>2. /\ refs' = refs - n /\ mine' = [mine EXCEPT ![t] = mine[t] - n]
      /\ freed' = (freed \/ refs = n)
  BY <1>1 DEF Release, Bounded
<1>3. refs - n = refs + (0 - n) /\ mine[t] - n = mine[t] + (0 - n)
      /\ (0 - n # 0 /\ refs + (0 - n) = 0 <=> refs = n)
  BY <1>1
<1>4. Gains(t, 0 - n) BY <1>2, <1>3 DEF Gains
<1>5. freed' \in BOOLEAN /\ (freed' <=> freed \/ refs = n) BY <1>1, <1>2
<1> QED BY <1>2, <1>3, <1>4, <1>5 DEF Pays

LEMMA AddPays ==
    ASSUME RefOk, NEW t \in Threads, AddRef(t, 1), NEW p \in 0 .. 1, Peeks(t, p)
    PROVE  Pays(t, 1, p)
<1>1. /\ refs \in Nat /\ freed \in BOOLEAN /\ mine[t] \in 0 .. 8 /\ mine \in Bounded
  BY RefOkFacts
<1>2. /\ refs' = refs + 1 /\ mine' = [mine EXCEPT ![t] = mine[t] + 1] /\ freed' = freed
  BY <1>1 DEF AddRef, Bounded
<1>3. refs + 1 # 0 BY <1>1
<1> QED BY <1>1, <1>2, <1>3 DEF Pays, Gains

LEMMA GetPays ==
    ASSUME RefOk, NEW t \in Threads, GetState(t)
    PROVE  Pays(t, One(attached) - One(peeked[t]), 0)
<1>1. Peeks(t, 0) BY Unpeeks DEF GetState
<1>2. attached \in BOOLEAN /\ peeked[t] \in BOOLEAN BY RefOkFacts
<1>3. CASE attached /\ ~peeked[t]
  <2>1. AddRef(t, 1) BY <1>3 DEF GetState
  <2>2. Pays(t, 1, 0) BY <1>1, <2>1, AddPays
  <2> QED BY <1>3, <2>2 DEF One
<1>4. CASE ~attached /\ peeked[t]
  <2>1. Release(t, 1) BY <1>4 DEF GetState
  <2>2. Pays(t, 0 - 1, 0) BY <1>1, <2>1, ReleasePays
  <2> QED BY <1>4, <2>2 DEF One
<1>5. CASE (attached /\ peeked[t]) \/ (~attached /\ ~peeked[t])
  <2>1. UNCHANGED <<refs, freed, mine>> BY <1>5 DEF GetState, refVars
  <2>2. refs \in Nat /\ freed \in BOOLEAN /\ RefBase BY RefOkFacts
  <2>3. Gains(t, 0) BY <2>1, <2>2, NoGain
  <2>4. Pays(t, 0, 0) BY <1>1, <2>1, <2>2, <2>3 DEF Pays
  <2> QED BY <1>5, <2>4 DEF One
<1> QED BY <1>2, <1>3, <1>4, <1>5

LEMMA ReadPays ==
    ASSUME RefOk, NEW t \in Threads, ReadStatus(t)
    PROVE  Pays(t, 0 - One(peeked[t]), 0)
<1>1. Peeks(t, 0) BY Unpeeks DEF ReadStatus
<1>2. peeked[t] \in BOOLEAN BY RefOkFacts
<1>3. CASE peeked[t]
  <2>1. Pays(t, 0 - 1, 0) BY <1>1, <1>3, ReleasePays DEF ReadStatus
  <2> QED BY <1>3, <2>1 DEF One
<1>4. CASE ~peeked[t]
  <2>1. UNCHANGED <<refs, freed, mine>> BY <1>4 DEF ReadStatus, refVars
  <2>2. refs \in Nat /\ freed \in BOOLEAN /\ RefBase BY RefOkFacts
  <2>3. Gains(t, 0) BY <2>1, <2>2, NoGain
  <2>4. Pays(t, 0, 0) BY <1>1, <2>1, <2>2, <2>3 DEF Pays
  <2> QED BY <1>4, <2>4 DEF One
<1> QED BY <1>2, <1>3, <1>4

-----------------------------------------------------------------------------
(* A step of a thread, by how it moves.                                    *)

Others(t) == \A u \in Threads \ {t} : pc'[u] = pc[u] /\ stack'[u] = stack[u] /\ loc'[u] = loc[u]

\* Neither the block nor the two ports are touched.
Aside == UNCHANGED <<attached, sig, workQ, complQ>>

\* The thread is on its way to collect the result.
Collecting == {"getResult", "getOp", "extract"}

\* Thread t takes d references elsewhere than from the block or the ports.
LEMMA AsideAccounts ==
    ASSUME RefOk, NEW t \in Threads, NEW d \in {-2, -1, 0, 1, 2}, NEW p \in 0 .. 1,
           Pays(t, d, p), Sound(d), Others(t), Aside, sig # "none", d > 0 => attached,
           valid' = valid \/ (~valid' /\ Carrier(t)), valid' \in BOOLEAN,
           Carrier(t) => Carrier(t)' \/ ~valid', Carrier(t)' => Carrier(t),
           pc'[t] \in Collecting => t \in Getters \/ pc[t] \in Collecting,
           pc'[t] \in {"getOp", "extract"} => attached
    PROVE  Accounts(t)
<1>1. /\ refs \in Nat /\ workQ \in Nat /\ complQ \in Nat /\ attached \in BOOLEAN
      /\ mine[t] \in 0 .. 8 /\ mine \in Bounded /\ valid \in BOOLEAN
      /\ refs = 0 => mine[t] = 0 /\ ~attached
  BY RefOkFacts
<1>2. /\ workQ' = workQ /\ complQ' = complQ /\ attached' = attached /\ sig' = sig BY DEF Aside
<1>3. refs' = refs + d /\ mine' = [mine EXCEPT ![t] = mine[t] + d] BY DEF Pays, Gains
<1>4. refs = 0 => refs' = 0
  <2>1. mine'[t] \in 0 .. 8 BY DEF Sound, Bounded
  <2>2. mine'[t] = mine[t] + d BY <1>1, <1>3 DEF Bounded
  <2> QED BY <1>1, <1>3, <2>1, <2>2
<1>5. refs' = refs + d + (workQ' - workQ) + (complQ' - complQ)
                + (One(attached') - One(attached))
  <2>1. PICK o \in 0 .. 1 : o = One(attached) BY <1>1, OneFacts
  <2>2. One(attached') = o BY <1>2, <2>1
  <2>3. refs' = refs + d + (workQ' - workQ) + (complQ' - complQ) + (o - o) BY <1>1, <1>2, <1>3
  <2> QED BY <2>1, <2>2, <2>3
<1>6. freed' \in BOOLEAN /\ (freed' <=> freed \/ (refs' = 0 /\ refs # 0))
  <2>1. freed' \in BOOLEAN /\ (freed' <=> freed \/ (d # 0 /\ refs + d = 0)) BY DEF Pays
  <2>2. d = 0 => refs' = refs BY <1>1, <1>3
  <2>3. d # 0 /\ refs + d = 0 => refs # 0 BY <1>1
  <2>4. (d # 0 /\ refs + d = 0) <=> (refs' = 0 /\ refs # 0) BY <1>3, <2>2, <2>3
  <2> QED BY <2>1, <2>4
<1>7. \E e \in Int : /\ Sound(e)
                     /\ refs' = refs + e + (workQ' - workQ) + (complQ' - complQ)
                                  + (One(attached') - One(attached))
  BY <1>5
<1>8. \A u \in Threads \ {t} : pc'[u] = pc[u] /\ stack'[u] = stack[u] /\ loc'[u] = loc[u]
  BY DEF Others
<1> QED BY <1>1, <1>2, <1>4, <1>6, <1>7, <1>8 DEF Accounts, Collecting

\* Where a move leaves the block's reference.
LEMMA CarrierGoto ==
    ASSUME RefOk, NEW t \in Threads, NEW m, Goto(t, m), Keeps(t),
           Own(m, loc'[t].cleaning) = 2 <=> Own(pc[t], loc[t].cleaning) = 2
    PROVE  Others(t) /\ pc'[t] = m /\ (Carrier(t)' <=> Carrier(t))
<1>1. pc \in [Threads -> PCs] BY RefOkFacts DEF CtlTypes
<1>2. pc'[t] = m /\ stack' = stack /\ \A u \in Threads \ {t} : pc'[u] = pc[u] BY <1>1 DEF Goto
<1> QED BY <1>2 DEF Others, Keeps, Carrier

LEMMA ThreadShape ==
    ASSUME RefOk, NEW t \in Threads
    PROVE  /\ Shape(pc[t], stack[t]) /\ stack[t] \in Seq(Backs)
           /\ pc[t] \notin {"signalWait", "resume"} => ~Carried(stack[t])
           /\ peeked[t] => pc[t] \in Peekers
<1>1. RefBase BY RefOkFacts
<1>2. Shape(pc[t], stack[t]) BY <1>1 DEF RefBase, ThreadOk, Fits
<1>3. stack[t] \in Seq(Backs) /\ (stack[t] # <<>> => 1 \in 1 .. Len(stack[t])) BY <1>2 DEF Shape
<1>4. pc[t] \notin {"signalWait", "resume"} => ~Carried(stack[t])
  BY <1>2, <1>3 DEF Shape, Carried
<1> QED BY <1>1, <1>2, <1>3, <1>4, NoGain

LEMMA CarrierCall ==
    ASSUME RefOk, NEW t \in Threads, NEW m, NEW b \in Backs, Call(t, m, b), Keeps(t),
           pc[t] \notin {"signalWait", "resume"}, Own(m, loc'[t].cleaning) # 2,
           b = "setCleanup" <=> Own(pc[t], loc[t].cleaning) = 2
    PROVE  Others(t) /\ pc'[t] = m /\ (Carrier(t)' <=> Carrier(t))
<1>1. pc \in [Threads -> PCs] /\ stack \in Stacks BY RefOkFacts DEF CtlTypes
<1>2. /\ pc'[t] = m /\ stack'[t] = <<b>> \o stack[t]
      /\ \A u \in Threads \ {t} : pc'[u] = pc[u] /\ stack'[u] = stack[u]
  BY <1>1 DEF Call, Stacks
<1>3. stack[t] \in Seq(Backs) /\ ~Carried(stack[t]) BY ThreadShape
<1>4. <<b>> \o stack[t] # <<>> /\ (<<b>> \o stack[t])[1] = b
  <2> HIDE DEF Backs
  <2> QED BY <1>3
<1>5. Carried(stack'[t]) <=> b = "setCleanup" BY <1>2, <1>4 DEF Carried
<1> QED BY <1>2, <1>3, <1>5 DEF Others, Keeps, Carrier

LEMMA CarrierReturn ==
    ASSUME RefOk, NEW t \in Threads, Return(t), Keeps(t)
    PROVE  /\ Others(t) /\ pc'[t] \in Backs \cup {"idle"}
           /\ Carrier(t)' <=> Carried(stack[t])
<1> DEFINE m == IF stack[t] = <<>> THEN "idle" ELSE Head(stack[t])
           r == IF stack[t] = <<>> THEN <<>> ELSE Tail(stack[t])
<1>1. /\ pc' = [pc EXCEPT ![t] = m] /\ stack' = [stack EXCEPT ![t] = r]
      /\ pc \in [Threads -> PCs] /\ stack \in Stacks
  BY RefOkFacts DEF Return, CtlTypes
<1>2. Shape(pc[t], stack[t]) /\ stack[t] \in Seq(Backs) BY ThreadShape
<1>3. /\ m \in Backs \cup {"idle"} /\ ~Carried(r)
      /\ \A c : Own(m, c) = 2 <=> Carried(stack[t])
  <2>1. CASE stack[t] = <<>>
    <3>1. ~Carried(<<>>) /\ \A c : Own("idle", c) = 0 BY DEF Carried, Own
    <3> QED BY <2>1, <3>1
  <2>2. CASE stack[t] # <<>>
    <3>1. Head(stack[t]) \in Backs /\ Tail(stack[t]) \in Seq(Backs) BY <1>2, <2>2, StackFacts
    <3>2. Carried(stack[t]) <=> Head(stack[t]) = "setCleanup" BY <1>2, <2>2, ShapeReturn
    <3>3. \A c : Own(Head(stack[t]), c) = 2 <=> Head(stack[t]) = "setCleanup"
      BY <3>1, LevelFacts
    <3>4. ~Carried(Tail(stack[t]))
      <4>1. Shape(Head(stack[t]), Tail(stack[t])) BY <1>2, <2>2, ShapeReturn
      <4>2. Head(stack[t]) \notin {"signalWait", "resume"} BY <3>1 DEF Backs
      <4>3. Tail(stack[t]) # <<>> => 1 \in 1 .. Len(Tail(stack[t])) BY <3>1
      <4> QED BY <4>1, <4>2, <4>3 DEF Shape, Carried
    <3> QED BY <2>2, <3>1, <3>2, <3>3, <3>4
  <2> QED BY <2>1, <2>2
<1> HIDE DEF m, r
<1>4. /\ pc'[t] = m /\ stack'[t] = r
      /\ \A u \in Threads \ {t} : pc'[u] = pc[u] /\ stack'[u] = stack[u]
  BY <1>1 DEF Stacks
<1> QED BY <1>3, <1>4 DEF Others, Keeps, Carrier

LEMMA GotoAccounts ==
    ASSUME RefOk, NEW t \in Threads, NEW d \in {-2, -1, 0, 1, 2}, NEW p \in 0 .. 1,
           Pays(t, d, p), NEW m, Goto(t, m), Keeps(t), Aside, UNCHANGED valid, sig # "none",
           p # 0 => m \in Peekers, d > 0 => attached,
           Level(pc[t]) <= Level(m), pc[t] \in {"signalWait", "resume"} => m = "resume",
           d = Own(m, loc'[t].cleaning) - Own(pc[t], loc[t].cleaning) + p - One(peeked[t]),
           Own(m, loc'[t].cleaning) = 2 <=> Own(pc[t], loc[t].cleaning) = 2,
           m \in Collecting => t \in Getters \/ pc[t] \in Collecting,
           m \in {"getOp", "extract"} => attached
    PROVE  Accounts(t)
<1>1. Sound(d) BY RefOkFacts, GotoSound DEF Pays
<1>2. Others(t) /\ pc'[t] = m /\ (Carrier(t)' <=> Carrier(t)) BY CarrierGoto
<1>3. valid \in BOOLEAN BY RefOkFacts
<1> QED BY <1>1, <1>2, <1>3, AsideAccounts

LEMMA CallAccounts ==
    ASSUME RefOk, NEW t \in Threads, NEW d \in {-2, -1, 0, 1, 2}, Pays(t, d, 0),
           NEW m, NEW b \in Backs, Call(t, m, b), Keeps(t), Aside, UNCHANGED valid, sig # "none",
           d <= 0, pc[t] \notin {"signalWait", "resume"}, m \notin Collecting,
           Level(pc[t]) <= Level(b), Level(pc[t]) + 1 <= Level(m),
           b = "setCleanup" => m = "signalWait",
           d = Own(m, loc'[t].cleaning) + Own(b, loc'[t].cleaning)
                 - Own(pc[t], loc[t].cleaning) - One(peeked[t]),
           Own(m, loc'[t].cleaning) # 2,
           b = "setCleanup" <=> Own(pc[t], loc[t].cleaning) = 2
    PROVE  Accounts(t)
<1>1. Sound(d) BY RefOkFacts, CallSound DEF Pays
<1>2. Others(t) /\ pc'[t] = m /\ (Carrier(t)' <=> Carrier(t)) BY CarrierCall
<1>3. valid \in BOOLEAN BY RefOkFacts
<1>4. pc'[t] \notin Collecting /\ pc'[t] \notin {"getOp", "extract"} BY <1>2 DEF Collecting
<1> QED BY <1>1, <1>2, <1>3, <1>4, AsideAccounts

LEMMA ReturnAccounts ==
    ASSUME RefOk, NEW t \in Threads, NEW d \in {-2, -1, 0, 1, 2}, Pays(t, d, 0),
           Return(t), Keeps(t), Aside, UNCHANGED valid, sig # "none", d <= 0,
           d = 0 - Own(pc[t], loc[t].cleaning) - One(peeked[t]),
           Own(pc[t], loc[t].cleaning) # 2
    PROVE  Accounts(t)
<1>1. Sound(d) BY RefOkFacts, ReturnSound DEF Pays
<1>2. Others(t) /\ pc'[t] \in Backs \cup {"idle"} /\ (Carrier(t)' <=> Carried(stack[t]))
  BY CarrierReturn
<1>3. valid \in BOOLEAN BY RefOkFacts
<1>4. pc'[t] \notin Collecting /\ pc'[t] \notin {"getOp", "extract"}
  BY <1>2 DEF Collecting, Backs
<1>5. Carrier(t)' <=> Carrier(t) BY <1>2 DEF Carrier
<1> QED BY <1>1, <1>2, <1>3, <1>4, <1>5, AsideAccounts

-----------------------------------------------------------------------------
(* Steps that leave the references alone.                                  *)

PlainGoto(l, m) ==
    \/ l = "begun" /\ m = "release"
    \/ l = "claim" /\ m \in {"release", "submit"}
    \/ l = "submit" /\ m \in {"append", "release"}
    \/ l = "append" /\ m = "release"
    \/ l = "signalWait" /\ m = "resume"
    \/ l = "setCleanup" /\ m = "cleanupState"
    \/ l = "work" /\ m = "checkValid"
    \/ l = "checkValid" /\ m \in {"release", "doWork"}
    \/ l = "rescheduled" /\ m = "afterWork"
    \/ l = "afterWork" /\ m = "release"
    \/ l = "tryCancel" /\ m \in {"release", "cancelOp"}
    \/ l = "cancelOp" /\ m = "cancelDone"
    \/ l = "cancelDone" /\ m = "release"
    \/ l = "wait" /\ m = "final"
    \/ l = "getOp" /\ m = "extract"
    \/ l = "idle" /\ m \in {"cancel", "query", "getStatus", "getResult"}

PlainCall(l, m, b) ==
    \/ l = "begin" /\ m = "schedule" /\ b = "begun"
    \/ l \in {"begin", "begun"} /\ m = "complete" /\ b = "release"
    \/ l = "checkValid" /\ m = "cancel" /\ b = "checkStatus"
    \/ l = "doWork" /\ m = "complete" /\ b = "worked"
    \/ l = "doWork" /\ m = "schedule" /\ b = "rescheduled"
    \/ l \in {"doWork", "worked", "rescheduled"} /\ m = "complete" /\ b = "afterWork"
    \/ l = "notify" /\ m = "signalWait" /\ b = "release"
    \/ l = "cancelOp" /\ m = "complete" /\ b = "cancelDone"

Untouched == UNCHANGED <<refs, freed, mine, peeked, valid, attached, sig, workQ, complQ>>

LEMMA PlainGotoFacts ==
    ASSUME NEW l, NEW m, PlainGoto(l, m), NEW c, NEW e
    PROVE  /\ Own(m, e) = Own(l, c) /\ Level(l) <= Level(m) /\ l \notin Peekers
           /\ l \in {"signalWait", "resume"} => m = "resume"
           /\ m \in Collecting => m = "getResult" \/ l = "getOp"
<1>1. Own(m, e) = Own(l, c) /\ l \notin Peekers BY DEF PlainGoto, Own, Peekers
<1>2. Level(l) <= Level(m) BY DEF PlainGoto, Level
<1> QED BY <1>1, <1>2 DEF PlainGoto, Collecting

LEMMA PlainCallFacts ==
    ASSUME NEW l, NEW m, NEW b, PlainCall(l, m, b), NEW c, NEW e
    PROVE  /\ Own(m, e) = 0 /\ Own(b, e) = 1 /\ Own(l, c) = 1
           /\ Level(l) <= Level(b) /\ Level(l) + 1 <= Level(m)
           /\ l \notin Peekers /\ l \notin {"signalWait", "resume"}
           /\ b \in Backs /\ b # "setCleanup" /\ m \notin Collecting
<1>1. Own(m, e) = 0 /\ Own(b, e) = 1 /\ Own(l, c) = 1 BY DEF PlainCall, Own
<1>2. Level(l) <= Level(b) /\ Level(l) + 1 <= Level(m) BY DEF PlainCall, Level
<1> QED BY <1>1, <1>2 DEF PlainCall, Collecting, Peekers, Backs

LEMMA PlainAccounts ==
    ASSUME RefOk, NEW t \in Threads, Untouched, Keeps(t), sig # "none",
           \/ \E m : Goto(t, m) /\ PlainGoto(pc[t], m) /\ (m = "getResult" => t \in Getters)
           \/ \E m, b : Call(t, m, b) /\ PlainCall(pc[t], m, b)
           \/ Return(t) /\ pc[t] \in {"resume", "schedule"}
    PROVE  Accounts(t)
<1>1. Pays(t, 0, One(peeked[t])) /\ Aside /\ UNCHANGED valid BY SamePays DEF Untouched, Aside
<1>2. (peeked[t] => pc[t] \in Peekers) /\ (One(peeked[t]) = 0 <=> ~peeked[t])
  BY ThreadShape, RefOkFacts, NoGain
<1>3. ASSUME NEW m, Goto(t, m), PlainGoto(pc[t], m), m = "getResult" => t \in Getters
      PROVE  Accounts(t)
  <2>1. PICK k \in 0 .. 2 : Own(pc[t], loc[t].cleaning) = k BY LevelFacts
  <2>2. /\ Own(m, loc'[t].cleaning) = k /\ Level(pc[t]) <= Level(m) /\ pc[t] \notin Peekers
        /\ pc[t] \in {"signalWait", "resume"} => m = "resume"
        /\ m \in Collecting => m = "getResult" \/ pc[t] = "getOp"
    BY <1>3, <2>1, PlainGotoFacts
  <2>3. One(peeked[t]) = 0 BY <1>2, <2>2
  <2>4. 0 = k - k + 0 - 0 OBVIOUS
  <2>5. Pays(t, 0, 0) BY <1>1, <2>3
  <2>6. m \in Collecting => t \in Getters \/ pc[t] \in Collecting
    BY <1>3, <2>2 DEF Collecting
  <2>7. m \in {"getOp", "extract"} => attached
    <3>1. m \in {"getOp", "extract"} => pc[t] = "getOp" BY <2>2 DEF Collecting
    <3> QED BY <3>1 DEF RefOk, RefInv, GetInv
  <2> QED BY <1>1, <1>3, <2>1, <2>2, <2>3, <2>4, <2>5, <2>6, <2>7, GotoAccounts
<1>4. ASSUME NEW m, NEW b, Call(t, m, b), PlainCall(pc[t], m, b) PROVE Accounts(t)
  <2>1. /\ Own(m, loc'[t].cleaning) = 0 /\ Own(b, loc'[t].cleaning) = 1
        /\ Own(pc[t], loc[t].cleaning) = 1
        /\ Level(pc[t]) <= Level(b) /\ Level(pc[t]) + 1 <= Level(m)
        /\ pc[t] \notin Peekers /\ pc[t] \notin {"signalWait", "resume"}
        /\ b \in Backs /\ b # "setCleanup" /\ m \notin Collecting
    BY <1>4, PlainCallFacts
  <2>2. One(peeked[t]) = 0 BY <1>2, <2>1
  <2>3. Pays(t, 0, 0) BY <1>1, <2>2
  <2> QED BY <1>1, <1>4, <2>1, <2>2, <2>3, CallAccounts
<1>5. CASE Return(t) /\ pc[t] \in {"resume", "schedule"}
  <2>1. Own(pc[t], loc[t].cleaning) = 0 /\ pc[t] \notin Peekers BY <1>5 DEF Own, Peekers
  <2>2. One(peeked[t]) = 0 BY <1>2, <2>1
  <2>3. Pays(t, 0, 0) BY <1>1, <2>2
  <2> QED BY <1>1, <1>5, <2>1, <2>2, <2>3, ReturnAccounts
<1> QED BY <1>3, <1>4, <1>5

LEMMA PlainGotosAccount ==
    ASSUME RefOk, NEW t \in Threads,
           \/ TrySetProviderCleanup(t) \/ ClearScheduled(t) \/ DoWorkPending(t)
           \/ CleanupAfterDoWork(t) \/ CallXAsyncCancel(t) \/ TryCancel(t)
           \/ RevertProviderCleanup(t) \/ CallXAsyncGetResultSize(t) \/ CallXAsyncGetStatus(t)
           \/ WaitSatisfied(t) \/ CallXAsyncGetResult(t) \/ SignalWait(t)
           \/ ProviderGetsResult(t)
    PROVE  Accounts(t)
<1>1. Untouched /\ UNCHANGED loc
  BY DEF TrySetProviderCleanup, ClearScheduled, DoWorkPending, CleanupAfterDoWork,
     CallXAsyncCancel, TryCancel, RevertProviderCleanup, CallXAsyncGetResultSize,
     CallXAsyncGetStatus, WaitSatisfied, CallXAsyncGetResult, SignalWait, ProviderGetsResult,
     Untouched, blockVars, stateVars, queueVars, histVars, refVars
<1>2. pc[t] # "idle" \/ sig # "none"
  BY DEF TrySetProviderCleanup, ClearScheduled, DoWorkPending, CleanupAfterDoWork,
     CallXAsyncCancel, TryCancel, RevertProviderCleanup, CallXAsyncGetResultSize,
     CallXAsyncGetStatus, WaitSatisfied, CallXAsyncGetResult, SignalWait, ProviderGetsResult, Begun
<1>3. \E m : Goto(t, m) /\ PlainGoto(pc[t], m) /\ (m = "getResult" => t \in Getters)
  BY DEF TrySetProviderCleanup, ClearScheduled, DoWorkPending, CleanupAfterDoWork,
     CallXAsyncCancel, TryCancel, RevertProviderCleanup, CallXAsyncGetResultSize,
     CallXAsyncGetStatus, WaitSatisfied, CallXAsyncGetResult, SignalWait, ProviderGetsResult,
     PlainGoto
<1>4. BlockInv /\ Keeps(t) BY <1>1, SameKeeps, RefOkFacts
<1> QED BY <1>1, <1>2, <1>3, <1>4, BusyBegun, PlainAccounts

LEMMA PlainMovesAccount ==
    ASSUME RefOk, NEW t \in Threads,
           \/ CheckValid(t) \/ DoWorkReschedules(t) \/ CallbackReturns(t) \/ ResumeTermination(t)
           \/ (t = Starter /\ ProviderBegins)
           \/ ClaimSchedule(t) \/ SubmitWork(t) \/ SubmitWorkFails(t)
           \/ (XAsyncSchedule(t) /\ ~(attached /\ status \notin {"fail", "abort"}))
    PROVE  Accounts(t)
<1>1. Untouched /\ pc[t] # "idle"
  BY DEF CheckValid, DoWorkReschedules, CallbackReturns, ResumeTermination, ProviderBegins,
     ClaimSchedule, SubmitWork, SubmitWorkFails, Refused, XAsyncSchedule,
     Untouched, blockVars, stateVars, queueVars, histVars, refVars
<1>2. UNCHANGED loc \/ \E r \in Results : loc' = [loc EXCEPT ![t].ret = r]
  BY DEF CheckValid, DoWorkReschedules, CallbackReturns, ResumeTermination, ProviderBegins,
     ClaimSchedule, SubmitWork, SubmitWorkFails, Refused, XAsyncSchedule, Results
<1>3. \/ \E m : Goto(t, m) /\ PlainGoto(pc[t], m) /\ (m = "getResult" => t \in Getters)
      \/ \E m, b : Call(t, m, b) /\ PlainCall(pc[t], m, b)
      \/ Return(t) /\ pc[t] \in {"resume", "schedule"}
  <2>1. CASE CheckValid(t) BY <2>1 DEF CheckValid, PlainGoto, PlainCall
  <2>2. CASE DoWorkReschedules(t) \/ CallbackReturns(t) \/ (t = Starter /\ ProviderBegins)
    BY <2>2 DEF DoWorkReschedules, CallbackReturns, ProviderBegins, PlainCall
  <2>3. CASE ClaimSchedule(t) \/ SubmitWork(t) \/ SubmitWorkFails(t)
    BY <2>3 DEF ClaimSchedule, SubmitWork, SubmitWorkFails, Refused, PlainGoto
  <2>4. CASE ResumeTermination(t) BY <2>4 DEF ResumeTermination
  <2>5. CASE XAsyncSchedule(t) /\ ~(attached /\ status \notin {"fail", "abort"})
    BY <2>5 DEF XAsyncSchedule
  <2> QED BY <2>1, <2>2, <2>3, <2>4, <2>5
<1>4. CtlTypes /\ BlockInv BY RefOkFacts
<1>5. Keeps(t) BY <1>2, <1>4, SameKeeps, RetKeeps
<1> QED BY <1>1, <1>3, <1>4, <1>5, BusyBegun, PlainAccounts

LEMMA PlainCompletesAccount ==
    ASSUME RefOk, NEW t \in Threads,
           \/ DoWorkCompletes(t) \/ DoWorkReturns(t) \/ ProviderCancels(t)
           \/ (t = Starter /\ (ProviderBeginFails \/ ProviderBegun))
    PROVE  Accounts(t)
<1>1. Untouched /\ pc[t] # "idle"
  BY DEF DoWorkCompletes, DoWorkReturns, ProviderCancels, ProviderBeginFails, ProviderBegun,
     Untouched, blockVars, stateVars, queueVars, histVars, refVars
<1>2. \/ \E block \in {"user", "provider"}, result \in Results, size \in BOOLEAN, back \in Backs :
            CallComplete(t, block, result, size, back) /\ PlainCall(pc[t], "complete", back)
      \/ UNCHANGED loc /\ \E m : Goto(t, m) /\ PlainGoto(pc[t], m) /\ m # "getResult"
  <2>1. {"release", "afterWork", "worked", "cancelDone"} \subseteq Backs BY DEF Backs
  <2>2. {"ok", "fail", "abort"} \subseteq Results BY DEF Results
  <2>3. CASE DoWorkCompletes(t)
    <3>1. PICK result \in {"ok", "fail"}, size \in BOOLEAN :
             CallComplete(t, "provider", result, size, "worked")
      BY <2>3 DEF DoWorkCompletes
    <3>2. PlainCall(pc[t], "complete", "worked") BY <2>3 DEF DoWorkCompletes, PlainCall
    <3> QED BY <2>1, <2>2, <3>1, <3>2
  <2>4. CASE DoWorkReturns(t)
    <3>1. PlainCall(pc[t], "complete", "afterWork") BY <2>4 DEF DoWorkReturns, PlainCall
    <3> QED BY <2>1, <2>2, <2>4, <3>1 DEF DoWorkReturns
  <2>5. CASE ProviderCancels(t)
    <3>1. /\ PlainCall(pc[t], "complete", "cancelDone") /\ PlainGoto(pc[t], "cancelDone")
      BY <2>5 DEF ProviderCancels, PlainCall, PlainGoto
    <3> QED BY <2>1, <2>2, <2>5, <3>1 DEF ProviderCancels
  <2>6. CASE t = Starter /\ (ProviderBeginFails \/ ProviderBegun)
    <3>1. /\ PlainCall(pc[t], "complete", "release")
          /\ ProviderBegun => PlainGoto(pc[t], "release")
      BY <2>6 DEF ProviderBeginFails, ProviderBegun, PlainCall, PlainGoto
    <3> QED BY <2>1, <2>2, <2>6, <3>1 DEF ProviderBeginFails, ProviderBegun
  <2> QED BY <2>3, <2>4, <2>5, <2>6
<1>3. CtlTypes /\ BlockInv BY RefOkFacts
<1>4. sig # "none" BY <1>1, <1>3, BusyBegun
<1>5. ASSUME NEW block \in {"user", "provider"}, NEW result \in Results, NEW size \in BOOLEAN,
             NEW back \in Backs, CallComplete(t, block, result, size, back),
             PlainCall(pc[t], "complete", back)
      PROVE  Accounts(t)
  <2>1. Keeps(t) BY <1>3, <1>5, CallCompleteMoves
  <2>2. Call(t, "complete", back) BY <1>5 DEF CallComplete
  <2> QED BY <1>1, <1>4, <1>5, <2>1, <2>2, PlainAccounts
<1>6. ASSUME UNCHANGED loc, NEW m, Goto(t, m), PlainGoto(pc[t], m), m # "getResult"
      PROVE  Accounts(t)
  <2>1. Keeps(t) BY <1>3, <1>6, SameKeeps
  <2> QED BY <1>1, <1>4, <1>6, <2>1, PlainAccounts
<1> QED BY <1>2, <1>5, <1>6

-----------------------------------------------------------------------------
(* Steps that take or release references of the thread's own.              *)

LEMMA ReleaseAccounts ==
    ASSUME RefOk, NEW t \in Threads, ReleaseState(t)
    PROVE  Accounts(t)
<1>1. /\ Aside /\ UNCHANGED <<valid, loc, peeked>> /\ pc[t] = "release" /\ Return(t)
      /\ Release(t, 1)
  BY DEF ReleaseState, Aside, blockVars, stateVars, queueVars
<1>2. /\ Own(pc[t], loc[t].cleaning) = 1 /\ pc[t] \notin Peekers BY <1>1 DEF Own, Peekers
<1>3. ~peeked[t] BY <1>2, ThreadShape
<1>4. One(peeked[t]) = 0 BY <1>3 DEF One
<1>5. Peeks(t, 0) BY <1>1, <1>3, Unpeeks
<1>6. Pays(t, 0 - 1, 0) BY <1>1, <1>5, ReleasePays
<1>7. BlockInv /\ Keeps(t) /\ sig # "none" BY <1>1, SameKeeps, RefOkFacts, BusyBegun
<1>8. PICK d \in {-1} : Pays(t, d, 0) BY <1>6
<1> QED BY <1>1, <1>2, <1>4, <1>7, <1>8, ReturnAccounts

\* CleanupState releases the block's reference and the thread's own.
LEMMA CleanupAccounts ==
    ASSUME RefOk, NEW t \in Threads, CleanupState(t)
    PROVE  Accounts(t)
<1>1. /\ Aside /\ UNCHANGED <<loc, peeked>> /\ pc[t] = "cleanupState" /\ Return(t)
      /\ Release(t, 2) /\ valid' = FALSE
  BY DEF CleanupState, Aside, blockVars, stateVars, queueVars
<1>2. /\ Own(pc[t], loc[t].cleaning) = 2 /\ pc[t] \notin Peekers
      /\ pc[t] \notin {"signalWait", "resume"}
  BY <1>1 DEF Own, Peekers
<1>3. ~peeked[t] BY <1>2, ThreadShape
<1>4. One(peeked[t]) = 0 BY <1>3 DEF One
<1>5. Peeks(t, 0) BY <1>1, <1>3, Unpeeks
<1>6. Pays(t, 0 - 2, 0) BY <1>1, <1>5, ReleasePays
<1>7. CtlTypes /\ BlockInv /\ Keeps(t) /\ sig # "none" BY <1>1, SameKeeps, RefOkFacts, BusyBegun
<1>8. PICK d \in {-2} : Pays(t, d, 0) BY <1>6
<1>9. Sound(d) BY <1>1, <1>2, <1>4, <1>7, <1>8, RefOkFacts, ReturnSound DEF Pays
<1>10. Others(t) /\ pc'[t] \in Backs \cup {"idle"} /\ (Carrier(t)' <=> Carried(stack[t]))
  BY <1>1, <1>7, CarrierReturn
<1>11. Carrier(t) /\ ~Carrier(t)' BY <1>2, <1>10, ThreadShape DEF Carrier
<1>12. pc'[t] \notin Collecting /\ pc'[t] \notin {"getOp", "extract"}
  BY <1>10 DEF Collecting, Backs
<1>13. ~valid' /\ valid' \in BOOLEAN /\ Aside BY <1>1
<1>14. ~(d > 0) BY <1>8
<1> QED BY <1>7, <1>8, <1>9, <1>10, <1>11, <1>12, <1>13, <1>14, AsideAccounts

\* A guard that returns the state, if there is one.
GetGoto(l, m) ==
    \/ l = "schedule" /\ m = "claim"
    \/ l = "cancel" /\ m = "tryCancel"
    \/ l = "query" /\ m = "release"
    \/ l = "getStatus" /\ m = "wait"
    \/ l = "getResult" /\ m \in {"release", "getOp"}
    \/ l = "complete" /\ m \in {"release", "signal"}

LEMMA GetGotoFacts ==
    ASSUME NEW l, NEW m, GetGoto(l, m), NEW c, NEW e, m = "signal" => e = FALSE
    PROVE  /\ Own(m, e) = 1 /\ Own(l, c) = 0 /\ Level(l) <= Level(m)
           /\ l \notin {"signalWait", "resume"}
           /\ m \in Collecting => l = "getResult"
<1>1. Own(m, e) = 1 /\ Own(l, c) = 0 BY DEF GetGoto, Own
<1>2. Level(l) <= Level(m) BY DEF GetGoto, Level
<1> QED BY <1>1, <1>2 DEF GetGoto, Collecting

LEMMA GetAccounts ==
    ASSUME RefOk, NEW t \in Threads, GetState(t), Aside, UNCHANGED valid, Keeps(t),
           \/ attached /\ \E m : /\ Goto(t, m) /\ GetGoto(pc[t], m)
                                 /\ m = "signal" => loc'[t].cleaning = FALSE
           \/ /\ ~attached /\ Return(t)
              /\ pc[t] \in {"cancel", "query", "getStatus", "getResult", "complete"}
    PROVE  Accounts(t)
<1>1. Pays(t, One(attached) - One(peeked[t]), 0) BY GetPays
<1>2. attached \in BOOLEAN /\ peeked[t] \in BOOLEAN BY RefOkFacts
<1>3. pc[t] # "idle" BY DEF GetGoto
<1>4. sig # "none" BY <1>3, RefOkFacts, BusyBegun
<1>5. PICK o \in 0 .. 1 : o = One(peeked[t]) BY <1>2, OneFacts
<1>6. ASSUME attached, NEW m, Goto(t, m), GetGoto(pc[t], m),
             m = "signal" => loc'[t].cleaning = FALSE
      PROVE  Accounts(t)
  <2>1. /\ Own(m, loc'[t].cleaning) = 1 /\ Own(pc[t], loc[t].cleaning) = 0
        /\ Level(pc[t]) <= Level(m) /\ pc[t] \notin {"signalWait", "resume"}
        /\ m \in Collecting => pc[t] = "getResult"
    BY <1>6, GetGotoFacts
  <2>2. One(attached) = 1 BY <1>6 DEF One
  <2>3. PICK d \in {-2, -1, 0, 1, 2} : d = 1 - o BY <1>5
  <2>4. Pays(t, d, 0) BY <1>1, <1>5, <2>2, <2>3
  <2>5. d = Own(m, loc'[t].cleaning) - Own(pc[t], loc[t].cleaning) + 0 - One(peeked[t])
    BY <1>5, <2>1, <2>3
  <2>6. m \in Collecting => pc[t] \in Collecting BY <2>1 DEF Collecting
  <2> QED BY <1>4, <1>6, <2>1, <2>4, <2>5, <2>6, GotoAccounts
<1>7. ASSUME ~attached, Return(t),
             pc[t] \in {"cancel", "query", "getStatus", "getResult", "complete"}
      PROVE  Accounts(t)
  <2>1. Own(pc[t], loc[t].cleaning) = 0 BY <1>7 DEF Own
  <2>2. One(attached) = 0 BY <1>7 DEF One
  <2>3. PICK d \in {-2, -1, 0, 1, 2} : d = 0 - o BY <1>5
  <2>4. Pays(t, d, 0) BY <1>1, <1>5, <2>2, <2>3
  <2>5. d = 0 - Own(pc[t], loc[t].cleaning) - One(peeked[t]) /\ d <= 0 BY <1>5, <2>1, <2>3
  <2> QED BY <1>4, <1>7, <2>1, <2>4, <2>5, ReturnAccounts
<1> QED BY <1>6, <1>7

LEMMA GetsAccount ==
    ASSUME RefOk, NEW t \in Threads,
           \/ XAsyncCancel(t) \/ XAsyncGetResultSize(t) \/ XAsyncGetStatus(t) \/ XAsyncGetResult(t)
           \/ (XAsyncSchedule(t) /\ attached /\ status \notin {"fail", "abort"})
           \/ (XAsyncComplete(t) /\ status # "pending")
    PROVE  Accounts(t)
<1>1. Aside /\ UNCHANGED valid /\ GetState(t)
  BY DEF XAsyncCancel, XAsyncGetResultSize, XAsyncGetStatus, XAsyncGetResult, XAsyncSchedule,
     XAsyncComplete, CanComplete, Aside, blockVars, stateVars, queueVars
<1>2. UNCHANGED loc \/ \E r \in Results : loc' = [loc EXCEPT ![t].ret = r]
  BY RefOkFacts DEF XAsyncCancel, XAsyncGetResultSize, XAsyncGetStatus, XAsyncGetResult,
     XAsyncSchedule, XAsyncComplete, CanComplete, CtlTypes
<1>3. CtlTypes BY RefOkFacts
<1>4. Keeps(t) BY <1>2, <1>3, SameKeeps, RetKeeps
<1>5. \/ attached /\ \E m : /\ Goto(t, m) /\ GetGoto(pc[t], m)
                            /\ m = "signal" => loc'[t].cleaning = FALSE
      \/ /\ ~attached /\ Return(t)
         /\ pc[t] \in {"cancel", "query", "getStatus", "getResult", "complete"}
  <2>0. attached \in BOOLEAN BY RefOkFacts
  <2>1. CASE XAsyncCancel(t) BY <2>0, <2>1 DEF XAsyncCancel, GetGoto
  <2>2. CASE XAsyncGetResultSize(t) BY <2>0, <2>2 DEF XAsyncGetResultSize, GetGoto
  <2>3. CASE XAsyncGetStatus(t) BY <2>0, <2>3 DEF XAsyncGetStatus, GetGoto
  <2>4. CASE XAsyncGetResult(t)
    <3>1. CASE ~attached BY <2>4, <3>1 DEF XAsyncGetResult
    <3>2. CASE attached /\ status = "pending"
      BY <2>4, <3>2 DEF XAsyncGetResult, GetGoto
    <3>3. CASE attached /\ status # "pending"
      BY <2>4, <3>3 DEF XAsyncGetResult, GetGoto
    <3> QED BY <2>0, <3>1, <3>2, <3>3
  <2>5. CASE XAsyncSchedule(t) /\ attached /\ status \notin {"fail", "abort"}
    BY <2>5 DEF XAsyncSchedule, GetGoto
  <2>6. CASE XAsyncComplete(t) /\ status # "pending"
    BY <2>0, <2>6 DEF XAsyncComplete, CanComplete, GetGoto
  <2> QED BY <2>1, <2>2, <2>3, <2>4, <2>5, <2>6
<1> QED BY <1>1, <1>4, <1>5, GetAccounts

\* A completion with a result to collect leaves the state on the block.
LEMMA KeptAccounts ==
    ASSUME RefOk, NEW t \in Threads, XAsyncComplete(t), status = "pending", ~NothingToCollect(t)
    PROVE  Accounts(t)
<1>0. /\ pc[t] = "complete" /\ GetState(t) /\ loc' = [loc EXCEPT ![t].cleaning = FALSE]
      /\ Goto(t, "signal") /\ UNCHANGED <<hasCallback, sig, attached, scheduled, valid,
                                          satisfied, queueVars>>
  BY DEF XAsyncComplete, CanComplete
<1>1. Aside /\ UNCHANGED valid BY <1>0 DEF Aside, queueVars
<1>2. CtlTypes /\ BlockInv BY RefOkFacts
<1>3. Keeps(t) /\ loc'[t].cleaning = FALSE
  <2>1. Keeps(t) BY <1>0, <1>2, CleaningKeeps
  <2> QED BY <1>0, <1>2, <2>1 DEF CtlTypes, Locals
<1>4. attached BY <1>0, <1>2, BusyBegun DEF BlockInv, CtlTypes
<1>5. GetGoto(pc[t], "signal") BY <1>0 DEF GetGoto
<1> QED BY <1>0, <1>1, <1>3, <1>4, <1>5, GetAccounts

LEMMA ReadsAccount ==
    ASSUME RefOk, NEW t \in Threads, CheckStatus(t) \/ FinalStatus(t)
    PROVE  Accounts(t)
<1>1. /\ Aside /\ UNCHANGED valid /\ ReadStatus(t) /\ pc[t] \in {"checkStatus", "final"}
  BY DEF CheckStatus, FinalStatus, Aside, blockVars, stateVars, queueVars
<1>2. CtlTypes /\ BlockInv /\ peeked[t] \in BOOLEAN /\ sig # "none"
  BY <1>1, RefOkFacts, BusyBegun
<1>3. PICK o \in 0 .. 1 : o = One(peeked[t]) BY <1>2, OneFacts
<1>4. PICK d \in {-2, -1, 0, 1, 2} : d = 0 - o BY <1>3
<1>5. Pays(t, d, 0) BY <1>1, <1>3, <1>4, ReadPays
<1>6. Own(pc[t], loc[t].cleaning) = 1 /\ Level(pc[t]) = 0 BY <1>1 DEF Own, Level
<1>7. ASSUME Keeps(t), NEW m \in {"afterWork", "release"}, Goto(t, m) PROVE Accounts(t)
  <2>1. Own(m, loc'[t].cleaning) = 1 /\ m \notin Collecting /\ m \notin {"getOp", "extract"}
    BY DEF Own, Collecting
  <2>2. Level(pc[t]) <= Level(m) BY <1>6, LevelFacts
  <2>3. d = Own(m, loc'[t].cleaning) - Own(pc[t], loc[t].cleaning) + 0 - One(peeked[t])
    BY <1>3, <1>4, <1>6, <2>1
  <2>4. ~(d > 0) BY <1>3, <1>4
  <2>5. pc[t] \notin {"signalWait", "resume"} BY <1>1
  <2> QED BY <1>1, <1>2, <1>5, <1>6, <1>7, <2>1, <2>2, <2>3, <2>4, <2>5, GotoAccounts
<1>8. CASE CallComplete(t, "user", "abort", FALSE, "afterWork")
  <2>1. "afterWork" \in Backs /\ "abort" \in Results BY DEF Backs, Results
  <2>2. Keeps(t) BY <1>2, <1>8, <2>1, CallCompleteMoves
  <2>3. Call(t, "complete", "afterWork") BY <1>8 DEF CallComplete
  <2>4. /\ Own("complete", loc'[t].cleaning) = 0 /\ Own("afterWork", loc'[t].cleaning) = 1
        /\ Level("complete") = 2 /\ Level("afterWork") = 0 /\ "complete" \notin Collecting
    BY DEF Own, Level, Collecting
  <2>5. d = Own("complete", loc'[t].cleaning) + Own("afterWork", loc'[t].cleaning)
              - Own(pc[t], loc[t].cleaning) - One(peeked[t]) /\ d <= 0
    BY <1>3, <1>4, <1>6, <2>4
  <2>6. Level(pc[t]) <= Level("afterWork") /\ Level(pc[t]) + 1 <= Level("complete")
    BY <1>6, <2>4
  <2>7. pc[t] \notin {"signalWait", "resume"} BY <1>1
  <2> QED BY <1>1, <1>2, <1>5, <1>6, <2>1, <2>2, <2>3, <2>4, <2>5, <2>6, <2>7, CallAccounts
<1>9. CASE CheckStatus(t)
  <2>1. CallComplete(t, "user", "abort", FALSE, "afterWork")
        \/ (Goto(t, "afterWork") /\ UNCHANGED loc)
    BY <1>9 DEF CheckStatus
  <2> QED BY <1>2, <1>7, <1>8, <2>1, SameKeeps
<1>10. CASE FinalStatus(t)
  <2>1. Goto(t, "release") /\ loc' = [loc EXCEPT ![t].ret = status] BY <1>10 DEF FinalStatus
  <2>2. status \in Results BY <1>2 DEF CtlTypes
  <2> QED BY <1>2, <1>7, <2>1, <2>2, RetKeeps
<1> QED BY <1>9, <1>10

LEMMA PeekAccounts ==
    ASSUME RefOk, NEW t \in Threads, Peek(t)
    PROVE  Accounts(t)
<1>1. /\ Aside /\ UNCHANGED <<valid, pc, stack, loc>> /\ attached /\ ~peeked[t] /\ AddRef(t, 1)
      /\ peeked' = [peeked EXCEPT ![t] = TRUE] /\ pc[t] \in Peekers
  BY DEF Peek, Aside, Peekers, blockVars, stateVars, queueVars
<1>2. pc[t] # "idle" /\ pc[t] \notin {"signalWait", "resume"} BY <1>1 DEF Peekers
<1>3. CtlTypes /\ BlockInv /\ peeked \in [Threads -> BOOLEAN] /\ sig # "none"
  BY <1>2, RefOkFacts, BusyBegun
<1>4. Keeps(t) /\ loc'[t] = loc[t] BY <1>1, <1>3, SameKeeps
<1>5. Peeks(t, 1) BY <1>1, <1>3 DEF Peeks, One
<1>6. Pays(t, 1, 1) BY <1>1, <1>5, AddPays
<1>7. Goto(t, pc[t]) BY <1>1, <1>3 DEF Goto, CtlTypes
<1>8. One(peeked[t]) = 0 BY <1>1 DEF One
<1>9. PICK k \in 0 .. 2 : Own(pc[t], loc[t].cleaning) = k BY LevelFacts
<1>10. Own(pc[t], loc'[t].cleaning) = k /\ 1 = k - k + 1 - 0 BY <1>4, <1>9
<1>11. Level(pc[t]) <= Level(pc[t]) BY LevelFacts
<1>12. pc[t] \in {"getOp", "extract"} => attached BY <1>1
<1> QED BY <1>1, <1>2, <1>3, <1>4, <1>6, <1>7, <1>8, <1>9, <1>10, <1>11, <1>12, GotoAccounts

-----------------------------------------------------------------------------
(* Steps that take the state off the block, and those of the two ports.    *)

LEMMA BalanceStep ==
    ASSUME RefOk, NEW d \in Int, Sound(d), workQ' \in Nat, complQ' \in Nat, attached' \in BOOLEAN,
           refs' = refs + d + (workQ' - workQ) + (complQ' - complQ)
                     + (One(attached') - One(attached))
    PROVE  refs' = Count(mine') + workQ' + complQ' + One(attached')
<1>1. Starter \in Threads BY DEF Threads
<1>2. workQ \in Nat /\ complQ \in Nat /\ attached \in BOOLEAN BY <1>1, RefOkFacts
<1>3. \A a, w, k, o, w2, k2, o2, e \in Int :
         (a + w + k + o) + e + (w2 - w) + (k2 - k) + (o2 - o) = (a + e) + w2 + k2 + o2
  OBVIOUS
<1>4. PICK a, o, o2 \in Int : a = Count(mine) /\ o = One(attached) /\ o2 = One(attached')
  BY <1>2, TokensFinite, OneFacts
<1>5. refs = a + workQ + complQ + o BY <1>4 DEF RefOk, RefInv, Balance
<1>6. refs' = (a + d) + workQ' + complQ' + o2 BY <1>2, <1>3, <1>4, <1>5
<1> QED BY <1>4, <1>6 DEF Sound

LEMMA ExtractAccounts ==
    ASSUME RefOk, NEW t \in Threads, NEW d \in {0, 1, 2}, Gains(t, d), Peeks(t, 0), Keeps(t),
           attached, ~attached', attached' \in BOOLEAN, UNCHANGED <<valid, workQ, complQ, freed>>,
           sig # "none", sig' # "none", refs' = refs + d - 1,
           NEW m, Goto(t, m), Level(pc[t]) <= Level(m), pc[t] \notin {"signalWait", "resume"},
           Own(m, loc'[t].cleaning) = 2, m \notin Collecting,
           d = Own(m, loc'[t].cleaning) - Own(pc[t], loc[t].cleaning) + 0 - One(peeked[t]),
           \A u \in Threads \ {t} : pc[u] \notin {"getOp", "extract"}
    PROVE  Accounts(t)
<1>1. /\ refs \in Nat /\ workQ \in Nat /\ complQ \in Nat /\ attached \in BOOLEAN
      /\ freed \in BOOLEAN /\ valid \in BOOLEAN /\ refs # 0 /\ CtlTypes /\ RefBase
  BY RefOkFacts
<1>2. Sound(d) BY <1>1, GotoSound
<1>3. /\ pc'[t] = m /\ stack' = stack /\ \A u \in Threads \ {t} : pc'[u] = pc[u]
  BY <1>1 DEF Goto, CtlTypes
<1>4. Carrier(t)' BY <1>3 DEF Carrier
<1>5. refs' = refs + d + (workQ' - workQ) + (complQ' - complQ)
                + (One(attached') - One(attached))
  <2>1. One(attached) = 1 /\ One(attached') = 0 BY DEF One
  <2>2. refs + d - 1 = refs + d + (workQ - workQ) + (complQ - complQ) + (0 - 1) BY <1>1
  <2> QED BY <2>1, <2>2
<1>6. refs' # 0
  <2> SUFFICES ASSUME refs' = 0 PROVE FALSE OBVIOUS
  <2>1. PICK o \in 0 .. 1 : o = One(attached') BY DEF One
  <2>2. workQ' \in Nat /\ complQ' \in Nat /\ attached' \in BOOLEAN /\ d \in Int BY <1>1
  <2>3. refs' = Count(mine') + workQ' + complQ' + One(attached')
    BY <1>2, <1>5, <2>2, BalanceStep
  <2>4. PICK n \in Bounded, w \in Nat, k \in Nat : n = mine' /\ w = workQ' /\ k = complQ'
    BY <1>2, <2>2 DEF Sound
  <2>5. Count(n) + w + k + o = 0 BY <2>1, <2>3, <2>4
  <2>6. n[t] = 0 BY <2>5, NothingHeld
  <2>7. Fits(pc'[t], stack'[t], loc'[t].cleaning, One(peeked'[t]), mine'[t])
    BY <1>2 DEF Sound, ThreadOk
  <2>8. One(peeked'[t]) \in 0 .. 1 BY DEF Peeks
  <2>9. Own(pc'[t], loc'[t].cleaning) = 2 BY <1>3
  <2>10. mine'[t] >= 2 BY <2>7, <2>8, <2>9, CarrierHolds
  <2> QED BY <2>4, <2>6, <2>10
<1>7. \E e \in Int : /\ Sound(e)
                     /\ refs' = refs + e + (workQ' - workQ) + (complQ' - complQ)
                                  + (One(attached') - One(attached))
  <2>1. d \in Int OBVIOUS
  <2> QED BY <1>2, <1>5, <2>1
<1>8. \A u \in Threads \ {t} : pc'[u] = pc[u] /\ stack'[u] = stack[u] /\ loc'[u] = loc[u]
  BY <1>3 DEF Keeps
<1>9. pc'[t] \notin {"getResult", "getOp", "extract"} /\ pc'[t] \notin {"getOp", "extract"}
  BY <1>3 DEF Collecting
<1>10. workQ' \in Nat /\ complQ' \in Nat /\ ~attached' /\ attached' \in BOOLEAN
       /\ freed' = freed /\ valid' = valid
  BY <1>1
<1>11. freed' \in BOOLEAN /\ (freed' <=> freed \/ (refs' = 0 /\ refs # 0)) /\ valid' \in BOOLEAN
       /\ (refs = 0 => refs' = 0)
  BY <1>1, <1>6, <1>10
<1> QED BY <1>4, <1>7, <1>8, <1>9, <1>10, <1>11 DEF Accounts

\* What ExtractState does on a block that has its state.
LEMMA ExtractPays ==
    ASSUME RefOk, NEW t \in Threads, NEW s, NEW r \in {0, 1}, ExtractState(t, s, r), attached
    PROVE  /\ attached' = FALSE /\ sig' = s /\ UNCHANGED freed /\ Peeks(t, 0)
           /\ \E o \in 0 .. 1 : /\ o = One(peeked[t]) /\ refs' = refs + (1 + r - o) - 1
                                /\ Gains(t, 1 + r - o)
<1>1. /\ refs \in Nat /\ mine \in Bounded /\ mine[t] \in 0 .. 8 /\ peeked[t] \in BOOLEAN
  BY RefOkFacts
<1>2. attached' = FALSE /\ sig' = s /\ UNCHANGED freed /\ peeked' = [peeked EXCEPT ![t] = FALSE]
  BY DEF ExtractState
<1>3. Peeks(t, 0) BY <1>2, Unpeeks
<1>4. PICK o \in 0 .. 1 : o = One(peeked[t]) BY <1>1, OneFacts
<1>5. o = IF peeked[t] THEN 1 ELSE 0 BY <1>4 DEF One
<1>6. refs' = refs + r - o /\ mine' = [mine EXCEPT ![t] = mine[t] + 1 + r - o]
  BY <1>1, <1>5 DEF ExtractState, Bounded
<1>7. refs + r - o = refs + (1 + r - o) - 1 /\ mine[t] + 1 + r - o = mine[t] + (1 + r - o)
  BY <1>1
<1> QED BY <1>2, <1>3, <1>4, <1>6, <1>7 DEF Gains

LEMMA TakenAccounts ==
    ASSUME RefOk, NEW t \in Threads, XAsyncComplete(t), status = "pending", NothingToCollect(t)
    PROVE  Accounts(t)
<1>1. /\ pc[t] = "complete" /\ ExtractState(t, "zero", 1) /\ Goto(t, "signal")
      /\ loc' = [loc EXCEPT ![t].cleaning = TRUE]
      /\ UNCHANGED <<scheduled, valid, satisfied, queueVars, histVars>>
  BY DEF XAsyncComplete, CanComplete
<1>2. CtlTypes /\ BlockInv BY RefOkFacts
<1>3. Keeps(t) /\ loc'[t].cleaning = TRUE
  <2>1. Keeps(t) BY <1>1, <1>2, CleaningKeeps
  <2> QED BY <1>1, <1>2, <2>1 DEF CtlTypes, Locals
<1>4. attached /\ sig # "none" BY <1>1, <1>2, BusyBegun DEF BlockInv, CtlTypes
<1>5. \A u \in Threads \ {t} : pc[u] \notin {"getOp", "extract"} BY <1>2 DEF BlockInv
<1>6. /\ attached' = FALSE /\ sig' = "zero" /\ UNCHANGED freed /\ Peeks(t, 0)
      /\ \E o \in 0 .. 1 : /\ o = One(peeked[t]) /\ refs' = refs + (1 + 1 - o) - 1
                           /\ Gains(t, 1 + 1 - o)
  BY <1>1, <1>4, ExtractPays
<1>7. PICK o \in 0 .. 1 : /\ o = One(peeked[t]) /\ refs' = refs + (1 + 1 - o) - 1
                          /\ Gains(t, 1 + 1 - o)
  BY <1>6
<1>8. PICK d \in {0, 1, 2} : d = 1 + 1 - o BY <1>7
<1>9. /\ Own("signal", loc'[t].cleaning) = 2 /\ Own(pc[t], loc[t].cleaning) = 0
      /\ Level(pc[t]) <= Level("signal") /\ "signal" \notin Collecting
  BY <1>1, <1>3 DEF Own, Level, Collecting
<1>10. d = Own("signal", loc'[t].cleaning) - Own(pc[t], loc[t].cleaning) + 0 - One(peeked[t])
  BY <1>7, <1>8, <1>9
<1>11. refs' = refs + d - 1 /\ Gains(t, d) BY <1>7, <1>8
<1>12. UNCHANGED <<valid, workQ, complQ, freed>> /\ pc[t] \notin {"signalWait", "resume"}
  BY <1>1, <1>6 DEF queueVars
<1>13. ~attached' /\ attached' \in BOOLEAN /\ sig' # "none" /\ Peeks(t, 0) BY <1>6
<1> QED BY <1>1, <1>3, <1>4, <1>5, <1>9, <1>10, <1>11, <1>12, <1>13, ExtractAccounts

\* The application collects a result once.
OneGetter == \A g, h \in Getters : g = h

LEMMA CollectAccounts ==
    ASSUME RefOk, OneGetter, NEW t \in Threads, ExtractResult(t)
    PROVE  Accounts(t)
<1>1. /\ pc[t] = "extract" /\ ExtractState(t, "ASRB", 0) /\ Goto(t, "cleanupState")
      /\ UNCHANGED <<stateVars, queueVars, loc>>
  BY DEF ExtractResult
<1>2. CtlTypes /\ BlockInv /\ GetInv BY RefOkFacts DEF RefOk, RefInv
<1>3. Keeps(t) BY <1>1, <1>2, SameKeeps
<1>4. attached /\ sig # "none" BY <1>1, <1>2, BusyBegun DEF GetInv
<1>5. \A u \in Threads \ {t} : pc[u] \notin {"getOp", "extract"}
  <2>1. t \in Getters BY <1>1, <1>2 DEF GetInv
  <2>2. ASSUME NEW u \in Threads, pc[u] \in {"getOp", "extract"} PROVE u = t
    <3>1. u \in Getters BY <1>2, <2>2 DEF GetInv
    <3> QED BY <2>1, <3>1 DEF OneGetter
  <2> QED BY <2>2
<1>6. /\ attached' = FALSE /\ sig' = "ASRB" /\ UNCHANGED freed /\ Peeks(t, 0)
      /\ \E o \in 0 .. 1 : /\ o = One(peeked[t]) /\ refs' = refs + (1 + 0 - o) - 1
                           /\ Gains(t, 1 + 0 - o)
  BY <1>1, <1>4, ExtractPays
<1>7. PICK o \in 0 .. 1 : /\ o = One(peeked[t]) /\ refs' = refs + (1 + 0 - o) - 1
                          /\ Gains(t, 1 + 0 - o)
  BY <1>6
<1>8. PICK d \in {0, 1, 2} : d = 1 + 0 - o BY <1>7
<1>9. /\ Own("cleanupState", loc'[t].cleaning) = 2 /\ Own(pc[t], loc[t].cleaning) = 1
      /\ Level(pc[t]) <= Level("cleanupState") /\ "cleanupState" \notin Collecting
  BY <1>1 DEF Own, Level, Collecting
<1>10. d = Own("cleanupState", loc'[t].cleaning) - Own(pc[t], loc[t].cleaning)
             + 0 - One(peeked[t])
  BY <1>7, <1>8, <1>9
<1>11. refs' = refs + d - 1 /\ Gains(t, d) BY <1>7, <1>8
<1>12. UNCHANGED <<valid, workQ, complQ, freed>> /\ pc[t] \notin {"signalWait", "resume"}
  BY <1>1, <1>6 DEF queueVars, stateVars
<1>13. ~attached' /\ attached' \in BOOLEAN /\ sig' # "none" /\ Peeks(t, 0) BY <1>6
<1> QED BY <1>1, <1>3, <1>4, <1>5, <1>9, <1>10, <1>11, <1>12, <1>13, ExtractAccounts

\* A port takes a reference over, or hands one out.
LEMMA PortAccounts ==
    ASSUME RefOk, NEW t \in Threads, NEW d \in {-1, 0, 1}, Sound(d), Others(t),
           UNCHANGED <<attached, valid, freed, sig>>, sig # "none",
           workQ' \in Nat, complQ' \in Nat,
           refs' = refs + d + (workQ' - workQ) + (complQ' - complQ),
           refs' = refs \/ (refs # 0 /\ refs' # 0),
           Carrier(t)' <=> Carrier(t), pc'[t] \notin Collecting
    PROVE  Accounts(t)
<1>1. /\ refs \in Nat /\ workQ \in Nat /\ complQ \in Nat /\ attached \in BOOLEAN
      /\ freed \in BOOLEAN /\ valid \in BOOLEAN
  BY RefOkFacts
<1>2. refs' = refs + d + (workQ' - workQ) + (complQ' - complQ)
                + (One(attached') - One(attached))
  <2>1. PICK o \in 0 .. 1 : o = One(attached) BY <1>1, OneFacts
  <2>2. One(attached') = o BY <2>1
  <2>3. refs' = refs + d + (workQ' - workQ) + (complQ' - complQ) + (o - o) BY <1>1
  <2> QED BY <2>1, <2>2, <2>3
<1>3. \E e \in Int : /\ Sound(e)
                     /\ refs' = refs + e + (workQ' - workQ) + (complQ' - complQ)
                                  + (One(attached') - One(attached))
  <2>1. d \in Int OBVIOUS
  <2> QED BY <1>2, <2>1
<1>4. \A u \in Threads \ {t} : pc'[u] = pc[u] /\ stack'[u] = stack[u] /\ loc'[u] = loc[u]
  BY DEF Others
<1>5. freed' \in BOOLEAN /\ (freed' <=> freed \/ (refs' = 0 /\ refs # 0)) /\ valid' \in BOOLEAN
       /\ (refs = 0 => refs' = 0) /\ attached' = attached /\ valid' = valid /\ sig' # "none"
       /\ attached' \in BOOLEAN
  BY <1>1
<1>6. pc'[t] \notin {"getResult", "getOp", "extract"} /\ pc'[t] \notin {"getOp", "extract"}
  BY DEF Collecting
<1> QED BY <1>3, <1>4, <1>5, <1>6 DEF Accounts

LEMMA AppendAccounts ==
    ASSUME RefOk, NEW t \in Threads, AppendWork(t)
    PROVE  Accounts(t)
<1>1. /\ pc[t] = "append" /\ workQ' = workQ + 1 /\ loc' = [loc EXCEPT ![t].ret = "ok"]
      /\ Return(t) /\ UNCHANGED <<attached, valid, freed, sig, refs, complQ, peeked>>
  BY DEF AppendWork, blockVars, stateVars
<1>2. /\ CtlTypes /\ RefBase /\ BlockInv /\ mine \in Bounded /\ mine[t] \in 0 .. 8
      /\ workQ \in Nat /\ complQ \in Nat /\ refs \in Nat
  BY RefOkFacts
<1>3. mine' = [mine EXCEPT ![t] = mine[t] - 1] BY <1>2 DEF AppendWork, Bounded
<1>4. PICK d \in {-1} : TRUE OBVIOUS
<1>5. Gains(t, d) BY <1>2, <1>3, <1>4 DEF Gains
<1>6. /\ Own(pc[t], loc[t].cleaning) = 1 /\ pc[t] \notin Peekers
      /\ pc[t] \notin {"signalWait", "resume"}
  BY <1>1 DEF Own, Peekers
<1>7. ~peeked[t] /\ ~Carried(stack[t]) BY <1>6, ThreadShape
<1>8. Peeks(t, 0) /\ One(peeked[t]) = 0 BY <1>1, <1>7, Unpeeks DEF One
<1>9. "ok" \in Results BY DEF Results
<1>10. Keeps(t) /\ sig # "none" BY <1>1, <1>2, <1>9, RetKeeps, BusyBegun
<1>11. Sound(d) BY <1>1, <1>2, <1>5, <1>6, <1>8, <1>10, ReturnSound
<1>12. Others(t) /\ pc'[t] \in Backs \cup {"idle"} /\ (Carrier(t)' <=> Carried(stack[t]))
  BY <1>1, <1>10, CarrierReturn
<1>13. Carrier(t)' <=> Carrier(t) BY <1>6, <1>7, <1>12 DEF Carrier
<1>14. pc'[t] \notin Collecting BY <1>12 DEF Collecting, Backs
<1>15. /\ workQ' \in Nat /\ complQ' \in Nat /\ refs' = refs
       /\ refs' = refs + d + (workQ' - workQ) + (complQ' - complQ)
  BY <1>1, <1>2
<1> QED BY <1>1, <1>10, <1>11, <1>12, <1>13, <1>14, <1>15, PortAccounts

\* A thread of the task queue takes the reference of the callback it invokes.
LEMMA InvokeAccounts ==
    ASSUME RefOk, NEW t \in Threads, WorkerCallback(t) \/ CompletionCallback(t)
    PROVE  Accounts(t)
<1>1. /\ pc[t] = "idle" /\ UNCHANGED <<attached, valid, freed, sig, refs, peeked>>
      /\ \/ workQ > 0 /\ workQ' = workQ - 1 /\ UNCHANGED complQ
         \/ complQ > 0 /\ complQ' = complQ - 1 /\ UNCHANGED workQ
      /\ \E m \in {"work", "notify"} : Goto(t, m)
      /\ UNCHANGED loc \/ \E b \in BOOLEAN : loc' = [loc EXCEPT ![t].canceled = b]
  BY DEF WorkerCallback, CompletionCallback, blockVars, stateVars
<1>2. /\ CtlTypes /\ RefBase /\ BlockInv /\ mine \in Bounded /\ mine[t] \in 0 .. 8
      /\ workQ \in Nat /\ complQ \in Nat /\ refs \in Nat
  BY RefOkFacts
<1>3. mine' = [mine EXCEPT ![t] = mine[t] + 1]
  BY <1>2 DEF WorkerCallback, CompletionCallback, Bounded
<1>4. Gains(t, 1) BY <1>3 DEF Gains
<1>5. PICK m \in {"work", "notify"} : Goto(t, m) BY <1>1
<1>6. /\ Own(pc[t], loc[t].cleaning) = 0 /\ Own(m, loc'[t].cleaning) = 1
      /\ Level(pc[t]) <= Level(m) /\ pc[t] \notin Peekers /\ m \notin Collecting
      /\ pc[t] \notin {"signalWait", "resume"}
  BY <1>1 DEF Own, Peekers, Level, Collecting
<1>7. ~peeked[t] BY <1>6, ThreadShape
<1>8. Peeks(t, 0) /\ One(peeked[t]) = 0 BY <1>1, <1>7, Unpeeks DEF One
<1>9. Keeps(t) BY <1>1, <1>2, SameKeeps, CanceledKeeps
<1>10. sig # "none" BY <1>1, <1>2 DEF BlockInv, Fresh
<1>11. Sound(1) BY <1>2, <1>4, <1>5, <1>6, <1>8, <1>9, GotoSound
<1>12. Others(t) /\ pc'[t] = m /\ (Carrier(t)' <=> Carrier(t))
  BY <1>5, <1>6, <1>9, CarrierGoto
<1>13. /\ workQ' \in Nat /\ complQ' \in Nat /\ refs' = refs
       /\ refs' = refs + 1 + (workQ' - workQ) + (complQ' - complQ)
  BY <1>1, <1>2
<1> QED BY <1>1, <1>6, <1>10, <1>11, <1>12, <1>13, PortAccounts

LEMMA SignalAccounts ==
    ASSUME RefOk, NEW t \in Threads, SignalCompletion(t)
    PROVE  Accounts(t)
<1> DEFINE b == AfterSignal(t)
<1>1. /\ pc[t] = "signal" /\ UNCHANGED <<attached, valid, freed, sig, mine, workQ, peeked, loc>>
  BY DEF SignalCompletion, blockVars, stateVars
<1>2. /\ CtlTypes /\ RefBase /\ BlockInv /\ mine \in Bounded /\ mine[t] \in 0 .. 8
      /\ workQ \in Nat /\ complQ \in Nat /\ refs \in Nat /\ valid \in BOOLEAN
      /\ refs = 0 => mine[t] = 0
  BY RefOkFacts
<1>3. Keeps(t) /\ loc'[t] = loc[t] /\ sig # "none" BY <1>1, <1>2, SameKeeps, BusyBegun
<1>4. loc[t].cleaning \in BOOLEAN BY <1>2 DEF CtlTypes, Locals
<1>5. PICK k \in {1, 2} : /\ k = Own(pc[t], loc[t].cleaning) /\ k = Own(b, loc'[t].cleaning)
                          /\ k = 2 <=> b = "setCleanup"
  BY <1>1, <1>3, <1>4 DEF Own, AfterSignal
<1>6. b \in Backs /\ Level(b) = 2 /\ b \notin Collecting
  BY DEF AfterSignal, Backs, Level, Collecting
<1> HIDE DEF b
<1>7. /\ Level(pc[t]) = 2 /\ Level("signalWait") = 3 /\ Own("signalWait", loc'[t].cleaning) = 0
      /\ pc[t] \notin Peekers /\ pc[t] \notin {"signalWait", "resume"}
      /\ "signalWait" \notin Collecting
  BY <1>1 DEF Level, Own, Peekers, Collecting
<1>8. ~peeked[t] BY <1>7, ThreadShape
<1>9. One(peeked[t]) = 0 BY <1>8 DEF One
<1>10. Gains(t, 0) /\ Peeks(t, 0) BY <1>1, <1>2, <1>8, NoGain, Unpeeks
<1>11. CASE SignalsHere
  <2>1. Call(t, "signalWait", b) /\ UNCHANGED <<complQ, refs>>
    BY <1>11 DEF SignalCompletion, b
  <2>2. Pays(t, 0, 0) BY <1>1, <1>9, <2>1, SamePays
  <2>3. Aside /\ UNCHANGED valid BY <1>1, <2>1 DEF Aside
  <2>4. 0 = Own("signalWait", loc'[t].cleaning) + Own(b, loc'[t].cleaning)
              - Own(pc[t], loc[t].cleaning) - One(peeked[t])
    BY <1>5, <1>7, <1>9
  <2>5. Level(pc[t]) <= Level(b) /\ Level(pc[t]) + 1 <= Level("signalWait") BY <1>6, <1>7
  <2>6. b = "setCleanup" <=> Own(pc[t], loc[t].cleaning) = 2 BY <1>5
  <2> QED BY <1>3, <1>6, <1>7, <2>1, <2>2, <2>3, <2>4, <2>5, <2>6, CallAccounts
<1>12. CASE ~SignalsHere
  <2>1. Goto(t, b) /\ complQ' = complQ + 1 /\ refs' = refs + 1
    BY <1>12 DEF SignalCompletion, CallbackRef, b
  <2>2. 0 = Own(b, loc'[t].cleaning) - Own(pc[t], loc[t].cleaning) + 0 - One(peeked[t])
    BY <1>5, <1>9
  <2>3. Level(pc[t]) <= Level(b) BY <1>6, <1>7
  <2>4. Sound(0) BY <1>2, <1>3, <1>7, <1>10, <2>1, <2>2, <2>3, GotoSound
  <2>5. Own(b, loc'[t].cleaning) = 2 <=> Own(pc[t], loc[t].cleaning) = 2 BY <1>5
  <2>6. Others(t) /\ pc'[t] = b /\ (Carrier(t)' <=> Carrier(t))
    BY <1>3, <2>1, <2>5, CarrierGoto
  <2>7. refs # 0
    <3>1. Fits(pc[t], stack[t], loc[t].cleaning, One(peeked[t]), mine[t])
      BY <1>2 DEF RefBase, ThreadOk
    <3>0. Fits(pc[t], stack[t], loc[t].cleaning, 0, mine[t]) /\ 0 \in 0 .. 1 BY <1>9, <3>1
    <3>2. Below(stack[t]) \in 0 .. 4 BY <3>0, FitsBound
    <3>3. mine[t] = k + Below(stack[t]) + 0 BY <1>5, <1>9, <3>1 DEF Fits
    <3>4. mine[t] # 0 BY <3>2, <3>3
    <3> QED BY <1>2, <3>4
  <2>8. /\ workQ' \in Nat /\ complQ' \in Nat /\ refs # 0 /\ refs' # 0
        /\ refs' = refs + 0 + (workQ' - workQ) + (complQ' - complQ)
    BY <1>1, <1>2, <2>1, <2>7
  <2>9. pc'[t] \notin Collecting BY <1>6, <2>6
  <2> QED BY <1>1, <1>3, <2>4, <2>6, <2>8, <2>9, PortAccounts
<1> QED BY <1>11, <1>12

-----------------------------------------------------------------------------
(* The references as an invariant.                                         *)

LEMMA ThreadAccounts ==
    ASSUME RefOk, OneGetter, NEW t \in Threads, ThreadStep(t) \/ MayCall(t)
    PROVE  Accounts(t)
<1>1. CASE ReleaseState(t) \/ Peek(t) BY <1>1, ReleaseAccounts, PeekAccounts
<1>2. CASE ScheduleStep(t)
  <2>1. CASE XAsyncSchedule(t) BY <2>1, GetsAccount, PlainMovesAccount
  <2> QED BY <1>2, <2>1, PlainMovesAccount, AppendAccounts DEF ScheduleStep
<1>3. CASE CompleteStep(t)
  <2>1. CASE XAsyncComplete(t) BY <2>1, GetsAccount, KeptAccounts, TakenAccounts
  <2> QED BY <1>3, <2>1, SignalAccounts, PlainGotosAccount, PlainMovesAccount, CleanupAccounts
       DEF CompleteStep
<1>4. CASE WorkStep(t)
  BY <1>4, InvokeAccounts, PlainGotosAccount, PlainMovesAccount, PlainCompletesAccount,
     ReadsAccount DEF WorkStep
<1>5. CASE CallbackStep(t) BY <1>5, InvokeAccounts, PlainMovesAccount DEF CallbackStep
<1>6. CASE CancelStep(t)
  BY <1>6, GetsAccount, PlainGotosAccount, PlainCompletesAccount DEF CancelStep
<1>7. CASE WaitStep(t) BY <1>7, GetsAccount, PlainGotosAccount, ReadsAccount DEF WaitStep
<1>8. CASE GetStep(t) BY <1>8, GetsAccount, PlainGotosAccount, CollectAccounts DEF GetStep
<1>9. CASE MayCall(t) BY <1>9, PlainGotosAccount, PlainMovesAccount DEF MayCall
<1> QED BY <1>1, <1>2, <1>3, <1>4, <1>5, <1>6, <1>7, <1>8, <1>9 DEF ThreadStep

LEMMA CountNone == Count([t \in Threads |-> 0]) = 0
<1>1. Tokens([t \in Threads |-> 0]) = {} BY DEF Tokens
<1> QED BY <1>1, FS_EmptySet DEF Count

\* Before XAsyncBegin nothing refers to a state.
LEMMA RefInit == Init => RefInv
<1> SUFFICES ASSUME Init PROVE RefInv OBVIOUS
<1>1. /\ pc = [t \in Threads |-> "idle"] /\ stack = [t \in Threads |-> <<>>]
      /\ mine = [t \in Threads |-> 0] /\ peeked = [t \in Threads |-> FALSE]
      /\ refs = 0 /\ workQ = 0 /\ complQ = 0 /\ ~attached /\ attached \in BOOLEAN /\ ~freed
      /\ freed \in BOOLEAN /\ valid /\ valid \in BOOLEAN /\ sig = "none"
  BY DEF Init
<1>2. RefTypes BY <1>1 DEF RefTypes, Bounded
<1>3. \A t \in Threads : One(peeked[t]) = 0 BY <1>1 DEF One
<1>4. /\ \A c : Own("idle", c) = 0 /\ Level("idle") = 0 /\ ~Carried(<<>>) /\ Below(<<>>) = 0
      /\ Shape("idle", <<>>)
  BY DEF Own, Level, Carried, Below, Shape
<1>5. ASSUME NEW t \in Threads PROVE ThreadOk(t)
  <2>1. pc[t] = "idle" /\ stack[t] = <<>> /\ mine[t] = 0 BY <1>1
  <2>2. Own("idle", loc[t].cleaning) = 0 /\ Below(<<>>) = 0 /\ One(peeked[t]) = 0 BY <1>3, <1>4
  <2>3. 0 = Own("idle", loc[t].cleaning) + Below(<<>>) + One(peeked[t]) BY <2>2
  <2> QED BY <1>4, <2>1, <2>2, <2>3 DEF ThreadOk, Fits
<1>6. \A t \in Threads : ~Carrier(t) BY <1>1, <1>4 DEF Carrier
<1>7. Balance
  <2>1. One(attached) = 0 BY <1>1 DEF One
  <2>2. Count(mine) = 0 BY <1>1, CountNone
  <2> QED BY <1>1, <2>1, <2>2 DEF Balance
<1>8. FreedInv BY <1>1, <1>6 DEF FreedInv
<1>9. GetInv BY <1>1 DEF GetInv
<1> QED BY <1>2, <1>5, <1>7, <1>8, <1>9 DEF RefInv

\* A begun operation has two references, the block's and that of XAsyncBegin.
LEMMA BeginRefs ==
    ASSUME RefOk, XAsyncBegin
    PROVE  RefInv'
<1>0. Starter \in Threads BY DEF Threads
<1>1. /\ pc[Starter] = "idle" /\ sig = "none" /\ attached' /\ attached' \in BOOLEAN /\ refs' = 2
      /\ sig' # "none" /\ Goto(Starter, "begin") /\ UNCHANGED <<workQ, complQ, peeked, loc, freed, valid>>
  BY DEF XAsyncBegin, stateVars
<1>2. /\ CtlTypes /\ RefBase /\ BlockInv /\ mine \in Bounded /\ peeked \in [Threads -> BOOLEAN]
      /\ freed \in BOOLEAN /\ valid \in BOOLEAN /\ FreedInv
  BY <1>0, RefOkFacts DEF RefOk, RefInv
<1>3. /\ ~attached /\ workQ = 0 /\ complQ = 0 /\ refs = 0 /\ \A t \in Threads : pc[t] = "idle"
  BY <1>1, <1>2 DEF BlockInv, Fresh, FreedInv
<1>4. valid /\ ~freed BY <1>1, <1>2 DEF FreedInv
<1>5. /\ \A c : Own("idle", c) = 0 /\ Own("begin", c) = 1
      /\ Level("idle") = 0 /\ Level("begin") = 0 /\ "idle" \notin Peekers
      /\ "begin" \notin Collecting
  BY DEF Own, Level, Peekers, Collecting
<1>6. \A t \in Threads : mine[t] = 0 BY <1>3, RefOkFacts
<1>7. mine' = [mine EXCEPT ![Starter] = mine[Starter] + 1]
  <2>1. mine[Starter] + 1 = 1 BY <1>0, <1>6
  <2> QED BY <2>1 DEF XAsyncBegin
<1>8. Gains(Starter, 1) BY <1>7 DEF Gains
<1>9. ~peeked[Starter] BY <1>0, <1>1, <1>5, ThreadShape
<1>10. Peeks(Starter, 0) /\ One(peeked[Starter]) = 0 BY <1>0, <1>1, <1>9, Unpeeks DEF One
<1>11. Keeps(Starter) /\ loc' = loc BY <1>0, <1>1, <1>2, SameKeeps
<1>12. Sound(1)
  <2>1. 1 = Own("begin", loc'[Starter].cleaning) - Own(pc[Starter], loc[Starter].cleaning)
              + 0 - One(peeked[Starter])
    BY <1>1, <1>5, <1>10
  <2>2. Level(pc[Starter]) <= Level("begin") BY <1>1, <1>5
  <2>3. pc[Starter] \notin {"signalWait", "resume"} BY <1>1
  <2> QED BY <1>0, <1>1, <1>2, <1>8, <1>10, <1>11, <2>1, <2>2, <2>3, GotoSound
<1>13. RefTypes' BY <1>1, <1>3, <1>12 DEF RefTypes, Sound
<1>14. Balance'
  <2>1. workQ' \in Nat /\ complQ' \in Nat /\ 1 \in Int /\ refs \in Nat BY <1>1, <1>3
  <2>2. One(attached') = 1 /\ One(attached) = 0 BY <1>1, <1>3 DEF One
  <2>3. refs' = refs + 1 + (workQ' - workQ) + (complQ' - complQ) + (One(attached') - One(attached))
    <3>1. 2 = 0 + 1 + (0 - 0) + (0 - 0) + (1 - 0) OBVIOUS
    <3>2. refs' = 2 /\ refs = 0 /\ workQ' = 0 /\ workQ = 0 /\ complQ' = 0 /\ complQ = 0
      BY <1>1, <1>3
    <3> QED BY <2>2, <3>1, <3>2
  <2>4. refs' = Count(mine') + workQ' + complQ' + One(attached')
    BY <1>1, <1>12, <2>1, <2>3, BalanceStep
  <2> QED BY <2>4 DEF Balance
<1>15. pc'[Starter] = "begin" /\ stack' = stack
       /\ \A u \in Threads \ {Starter} : pc'[u] = "idle"
  BY <1>0, <1>1, <1>2, <1>3 DEF Goto, CtlTypes
<1>16. \A t \in Threads : ~Carrier(t)'
  <2>1. \A t \in Threads : ~Carried(stack[t]) BY <1>3, ThreadShape
  <2>2. \A t \in Threads : \A c : Own(pc'[t], c) # 2 BY <1>5, <1>15
  <2> QED BY <1>15, <2>1, <2>2 DEF Carrier
<1>17. FreedInv' BY <1>1, <1>2, <1>4, <1>16 DEF FreedInv
<1>18. GetInv' BY <1>15 DEF GetInv
<1>19. \A u \in Threads : ThreadOk(u)' BY <1>12 DEF Sound
<1> QED BY <1>13, <1>14, <1>17, <1>18, <1>19 DEF RefInv

LEMMA SameRefs ==
    ASSUME RefOk, UNCHANGED <<refs, freed, mine, peeked, valid, attached, workQ, complQ, pc, stack, loc>>,
           sig' = sig \/ (sig = "none" /\ sig' = "zero")
    PROVE  RefInv'
<1>1. RefTypes /\ Balance /\ FreedInv /\ GetInv /\ \A u \in Threads : ThreadOk(u)
  BY DEF RefOk, RefInv
<1>2. RefTypes' BY <1>1 DEF RefTypes
<1>3. Balance' BY <1>1 DEF Balance
<1>4. \A u \in Threads : ThreadOk(u)' BY <1>1 DEF ThreadOk
<1>5. \A u \in Threads : Carrier(u)' <=> Carrier(u) BY DEF Carrier
<1>6. FreedInv' BY <1>1, <1>5 DEF FreedInv
<1>7. GetInv' BY <1>1 DEF GetInv
<1> QED BY <1>2, <1>3, <1>4, <1>6, <1>7 DEF RefInv

LEMMA RefNext ==
    ASSUME RefOk, OneGetter, [Next]_vars
    PROVE  RefInv'
<1>0. Starter \in Threads /\ RefInv /\ CtlTypes BY RefOkFacts DEF Threads, RefOk
<1>1. ASSUME NEW t \in Threads, Accounts(t) PROVE RefInv' BY <1>0, <1>1, AccountsStep
<1>2. CASE XAsyncBegin BY <1>2, BeginRefs
<1>3. CASE XAsyncBeginFails
  BY <1>3, SameRefs DEF XAsyncBeginFails, refVars, stateVars, queueVars
<1>4. CASE ProviderBegins \/ ProviderBeginFails \/ ProviderBegun
  BY <1>0, <1>1, <1>4, PlainMovesAccount, PlainCompletesAccount
<1>5. ASSUME NEW t \in Threads, ThreadStep(t) \/ MayCall(t) PROVE RefInv'
  BY <1>1, <1>5, ThreadAccounts
<1>6. CASE QueueMoves BY <1>6, SameRefs, QueueMovesApart
<1>7. CASE UNCHANGED vars
  BY <1>7, SameRefs DEF vars, blockVars, refVars, stateVars, queueVars
<1> QED BY <1>2, <1>3, <1>4, <1>5, <1>6, <1>7 DEF Next, QueueMoves, BeginStep

LEMMA RefInvariant == OneGetter => (Spec => [](CtlInv /\ RefInv))
<1> SUFFICES ASSUME OneGetter PROVE Spec => [](CtlInv /\ RefInv) OBVIOUS
<1>1. CtlInv /\ RefInv /\ [Next]_vars => RefInv' BY RefNext DEF RefOk
<1> QED BY <1>1, RefInit, CtlInvariant, PTL DEF Spec

(* With one getter the count of references is exact: AsyncState::refs is   *)
(* what the block, the two ports and the threads inside the library hold,  *)
(* a call leaves nothing behind, and the state is deleted exactly when the *)
(* last reference goes.                                                    *)
THEOREM CountExact == OneGetter => (Spec => []RefsExact)
<1>1. ASSUME CtlInv, RefInv PROVE RefsExact
  <2>0. RefTypes /\ Balance /\ FreedInv /\ BlockInv /\ CtlTypes /\ \A t \in Threads : ThreadOk(t)
    BY <1>1 DEF RefInv, CtlInv
  <2>1. refs = Cardinality(Held) + workQ + complQ + (IF attached THEN 1 ELSE 0)
    BY <2>0 DEF Balance, Count, Tokens, Held, One
  <2>2. ASSUME NEW t \in Threads, pc[t] = "idle" PROVE mine[t] = 0
    <3>1. Shape("idle", stack[t]) /\ mine[t] = Own("idle", loc[t].cleaning) + Below(stack[t]) + One(peeked[t])
          /\ (One(peeked[t]) # 0 => "idle" \in Peekers)
      BY <2>0, <2>2 DEF ThreadOk, Fits
    <3>2. One(peeked[t]) = 0 BY <3>1 DEF Peekers
    <3>3. Own("idle", loc[t].cleaning) = 0 /\ Level("idle") = 0 BY DEF Own, Level
    <3>4. stack[t] \in Seq(Backs) /\ Len(stack[t]) = 0 BY <3>1, <3>3 DEF Shape
    <3>5. stack[t] = <<>> BY <3>4
    <3>6. Below(stack[t]) = 0 BY <3>5 DEF Below, Carried
    <3> QED BY <3>1, <3>2, <3>3, <3>6
  <2>3. freed <=> (refs = 0 /\ sig \in {"zero", "ASRB"} /\ valid = FALSE)
    BY <2>0 DEF FreedInv, BlockInv, CtlTypes
  <2> QED BY <2>1, <2>2, <2>3 DEF RefsExact
<1> QED BY <1>1, RefInvariant, PTL

-----------------------------------------------------------------------------
(* Who is inside the provider.                                             *)

\* The places of a thread that schedules the work or does it, and those of one that is in
\* the provider's Cancel.
Working == {"begin", "schedule", "claim", "submit", "append", "work", "checkValid", "checkStatus",
            "doWork", "worked", "afterWork"}
Canceling == {"cancelOp", "cancelDone"}
Again == {"rescheduled"}

Schedules == {"schedule", "claim", "submit", "append"}
Cancels == {"cancel", "tryCancel", "cancelOp", "cancelDone"}

\* Who calls XAsyncSchedule and XAsyncCancel.
Linked(l, s) ==
    /\ l \in Schedules => s # <<>> /\ s[1] \in {"begun", "rescheduled"}
    /\ l \in Cancels => s = <<>> \/ s[1] = "checkStatus"
    /\ \A i \in 1 .. Len(s) - 1 : s[i] = "cancelDone" => s[i + 1] = "checkStatus"
    /\ l \in {"signalWait", "resume"} => s # <<>>

\* A place in S, with the calls pending on stack s.
Within(l, s, S) == l \in S \/ \E i \in DOMAIN s : s[i] \in S

\* Moves that begin neither a callback, nor a cancellation, nor another round of work.
CalmGoto(l, m) ==
    \/ PlainGoto(l, m) /\ m # "cancelOp"
    \/ GetGoto(l, m)
    \/ l = "checkStatus" /\ m = "afterWork"
    \/ l = "final" /\ m = "release"
    \/ l = "signal" /\ m \in {"setCleanup", "release"}
    \/ l = "extract" /\ m = "cleanupState"
    \/ l = "idle" /\ m = "notify"

CalmCall(l, m, b) ==
    \/ PlainCall(l, m, b) /\ b # "rescheduled"
    \/ l = "checkStatus" /\ m = "complete" /\ b = "afterWork"
    \/ l = "signal" /\ m = "signalWait" /\ b \in {"setCleanup", "release"}

LEMMA CalmGotoFacts ==
    ASSUME NEW l, NEW m, CalmGoto(l, m)
    PROVE  /\ m \in Working => l \in Working \cup Again
           /\ m \in Canceling => l \in Canceling
           /\ m \notin Again /\ m # "begin"
           /\ m \in Schedules => l \in Schedules
           /\ m \in Cancels => l \in Cancels \cup {"idle"}
           /\ m \in {"signalWait", "resume"} => l = "signalWait"
BY DEF CalmGoto, PlainGoto, GetGoto, Working, Again, Canceling, Schedules, Cancels

LEMMA CalmCallFacts ==
    ASSUME NEW l, NEW m, NEW b, CalmCall(l, m, b)
    PROVE  /\ b \in Backs
           /\ m \in Working \/ b \in Working => l \in Working \cup Again
           /\ m \in Canceling \/ b \in Canceling => l \in Canceling
           /\ m \notin Again /\ b \notin Again /\ m # "begin"
           /\ m \in Schedules => b \in {"begun", "rescheduled"}
           /\ m \in Cancels => b = "checkStatus"
           /\ b = "cancelDone" => l = "cancelOp"
BY DEF CalmCall, PlainCall, Backs, Working, Again, Canceling, Schedules, Cancels

\* A call within another, as sequences.
LEMMA PushFacts ==
    ASSUME NEW s \in Seq(Backs), NEW b \in Backs
    PROVE  /\ <<b>> \o s # <<>> /\ (<<b>> \o s)[1] = b /\ Len(<<b>> \o s) = Len(s) + 1
           /\ \A i \in 1 .. Len(s) : (<<b>> \o s)[i + 1] = s[i]
           /\ \A S : (\E i \in DOMAIN (<<b>> \o s) : (<<b>> \o s)[i] \in S)
                        <=> b \in S \/ \E i \in DOMAIN s : s[i] \in S
<1> DEFINE r == <<b>> \o s
<1> HIDE DEF Backs
<1>1. /\ r # <<>> /\ r[1] = b /\ Len(r) = Len(s) + 1 /\ DOMAIN r = 1 .. Len(s) + 1
      /\ \A i \in 1 .. Len(s) : r[i + 1] = s[i]
  OBVIOUS
<1>2. DOMAIN s = 1 .. Len(s) /\ Len(s) \in Nat OBVIOUS
<1> HIDE DEF r
<1>3. ASSUME NEW S PROVE (\E i \in DOMAIN r : r[i] \in S)
                            <=> b \in S \/ \E i \in DOMAIN s : s[i] \in S
  <2>1. ASSUME NEW i \in DOMAIN r, r[i] \in S PROVE b \in S \/ \E j \in DOMAIN s : s[j] \in S
    <3>1. CASE i = 1 BY <1>1, <2>1, <3>1
    <3>2. CASE i # 1
      <4>1. i - 1 \in DOMAIN s /\ (i - 1) + 1 = i BY <1>1, <1>2, <3>2
      <4>2. r[(i - 1) + 1] = s[i - 1] BY <1>1, <1>2, <4>1
      <4> QED BY <2>1, <4>1, <4>2
    <3> QED BY <3>1, <3>2
  <2>2. ASSUME b \in S PROVE \E i \in DOMAIN r : r[i] \in S
    <3>1. 1 \in DOMAIN r BY <1>1, <1>2
    <3> QED BY <1>1, <2>2, <3>1
  <2>3. ASSUME NEW i \in DOMAIN s, s[i] \in S PROVE \E j \in DOMAIN r : r[j] \in S
    <3>1. i + 1 \in DOMAIN r /\ r[i + 1] = s[i] BY <1>1, <1>2
    <3> QED BY <2>3, <3>1
  <2> QED BY <2>1, <2>2, <2>3
<1> QED BY <1>1, <1>3 DEF r

LEMMA PopFacts ==
    ASSUME NEW s \in Seq(Backs), s # <<>>
    PROVE  /\ Head(s) = s[1] /\ Head(s) \in Backs /\ Tail(s) \in Seq(Backs) /\ Len(s) \in Nat
           /\ Len(s) >= 1 /\ Len(Tail(s)) = Len(s) - 1
           /\ \A i \in 1 .. Len(Tail(s)) : Tail(s)[i] = s[i + 1] /\ i + 1 \in 1 .. Len(s)
           /\ \A S : Within(Head(s), Tail(s), S) <=> \E i \in DOMAIN s : s[i] \in S
<1> DEFINE r == Tail(s)
<1>0. Head(s) \in Backs /\ Tail(s) \in Seq(Backs) BY StackFacts
<1> HIDE DEF Backs
<1>1. /\ Head(s) = s[1] /\ Len(s) \in Nat /\ Len(s) >= 1 /\ Len(r) = Len(s) - 1
      /\ DOMAIN s = 1 .. Len(s) /\ DOMAIN r = 1 .. Len(r)
  OBVIOUS
<1>2. \A i \in 1 .. Len(r) : r[i] = s[i + 1] /\ i + 1 \in 1 .. Len(s) BY <1>1
<1> HIDE DEF r
<1>3. ASSUME NEW S PROVE Within(Head(s), r, S) <=> \E i \in DOMAIN s : s[i] \in S
  <2>1. ASSUME NEW i \in DOMAIN s, s[i] \in S PROVE Within(Head(s), r, S)
    <3>1. CASE i = 1 BY <1>1, <2>1, <3>1 DEF Within
    <3>2. CASE i # 1
      <4>1. i - 1 \in 1 .. Len(r) /\ (i - 1) + 1 = i BY <1>1, <3>2
      <4>2. r[i - 1] = s[(i - 1) + 1] BY <1>2, <4>1
      <4> QED BY <1>1, <2>1, <4>1, <4>2 DEF Within
    <3> QED BY <3>1, <3>2
  <2>2. ASSUME Within(Head(s), r, S) PROVE \E i \in DOMAIN s : s[i] \in S
    <3>1. CASE Head(s) \in S
      <4>1. 1 \in DOMAIN s BY <1>1
      <4> QED BY <1>1, <3>1, <4>1
    <3>2. ASSUME NEW i \in DOMAIN r, r[i] \in S PROVE \E j \in DOMAIN s : s[j] \in S
      BY <1>1, <1>2, <3>2
    <3> QED BY <2>2, <3>1, <3>2 DEF Within
  <2> QED BY <2>1, <2>2
<1> QED BY <1>0, <1>1, <1>2, <1>3 DEF r

\* A thread that goes from label l with stack s to label m with stack r enters nothing.
Trace(l, s, m, r) ==
    /\ Linked(m, r)
    /\ Within(m, r, Again) => Within(l, s, Again)
    /\ Within(m, r, Working) => Within(l, s, Working) \/ Within(l, s, Again)
    /\ Within(m, r, Canceling) => Within(l, s, Canceling)
    /\ m = "begin" => l = "begin"

LEMMA LevelZero ==
    ASSUME NEW l, NEW s, Shape(l, s), Level(l) = 0
    PROVE  s = <<>>
<1>1. s \in Seq(Backs) /\ Len(s) = 0 BY DEF Shape
<1> QED BY <1>1

LEMMA TraceGoto ==
    ASSUME NEW l, NEW s, Shape(l, s), Linked(l, s), NEW m, CalmGoto(l, m)
    PROVE  Trace(l, s, m, s)
<1>1. l = "idle" => s = <<>> BY LevelZero DEF Level
<1>2. /\ m \in Schedules => l \in Schedules
      /\ m \in Cancels => l \in Cancels \cup {"idle"}
      /\ m \in {"signalWait", "resume"} => l = "signalWait"
  BY CalmGotoFacts
<1>3. Linked(m, s) BY <1>1, <1>2 DEF Linked
<1> QED BY <1>3, CalmGotoFacts DEF Trace, Within

LEMMA LinkedCall ==
    ASSUME NEW l, NEW s \in Seq(Backs), Linked(l, s), NEW m, NEW b \in Backs,
           m \in Schedules => b \in {"begun", "rescheduled"},
           m \in Cancels => b = "checkStatus", b = "cancelDone" => l = "cancelOp"
    PROVE  Linked(m, <<b>> \o s)
<1> DEFINE r == <<b>> \o s
<1>1. /\ r # <<>> /\ r[1] = b /\ Len(r) = Len(s) + 1
      /\ \A i \in 1 .. Len(s) : r[i + 1] = s[i]
  BY PushFacts
<1>2. Len(s) \in Nat OBVIOUS
<1> HIDE DEF r
<1>3. ASSUME NEW i \in 1 .. Len(r) - 1, r[i] = "cancelDone" PROVE r[i + 1] = "checkStatus"
  <2>0. i \in 1 .. Len(s) BY <1>1, <1>2
  <2>1. r[i + 1] = s[i] BY <1>1, <2>0
  <2>2. CASE i = 1
    <3>1. l = "cancelOp" BY <1>1, <1>3, <2>2
    <3>2. s = <<>> \/ s[1] = "checkStatus" BY <3>1 DEF Linked, Cancels
    <3>3. s # <<>> BY <2>0
    <3> QED BY <2>1, <2>2, <3>2, <3>3
  <2>3. CASE i # 1
    <3>1. i - 1 \in 1 .. Len(s) - 1 /\ (i - 1) + 1 = i /\ i - 1 \in 1 .. Len(s)
      BY <1>2, <2>0, <2>3
    <3>2. r[i] = s[i - 1] BY <1>1, <3>1
    <3>3. s[(i - 1) + 1] = "checkStatus" BY <1>3, <3>1, <3>2 DEF Linked
    <3> QED BY <2>1, <3>1, <3>3
  <2> QED BY <2>2, <2>3
<1>4. Linked(m, r) BY <1>1, <1>3 DEF Linked
<1> QED BY <1>4 DEF r

LEMMA TraceCall ==
    ASSUME NEW l, NEW s \in Seq(Backs), Linked(l, s), NEW m, NEW b, CalmCall(l, m, b)
    PROVE  Trace(l, s, m, <<b>> \o s)
<1>1. /\ b \in Backs
      /\ m \in Working \/ b \in Working => l \in Working \cup Again
      /\ m \in Canceling \/ b \in Canceling => l \in Canceling
      /\ m \notin Again /\ b \notin Again /\ m # "begin"
      /\ m \in Schedules => b \in {"begun", "rescheduled"}
      /\ m \in Cancels => b = "checkStatus"
      /\ b = "cancelDone" => l = "cancelOp"
  BY CalmCallFacts
<1>2. Linked(m, <<b>> \o s) BY <1>1, LinkedCall
<1>3. \A S : Within(m, <<b>> \o s, S) <=> m \in S \/ b \in S \/ \E i \in DOMAIN s : s[i] \in S
  BY <1>1, PushFacts DEF Within
<1>4. \A S : (\E i \in DOMAIN s : s[i] \in S) => Within(l, s, S) BY DEF Within
<1>5. \A S : l \in S => Within(l, s, S) BY DEF Within
<1> QED BY <1>1, <1>2, <1>3, <1>4, <1>5 DEF Trace

LEMMA TraceReturn ==
    ASSUME NEW l, NEW s \in Seq(Backs), Linked(l, s)
    PROVE  LET m == IF s = <<>> THEN "idle" ELSE Head(s)
               r == IF s = <<>> THEN <<>> ELSE Tail(s)
           IN  /\ Trace(l, s, m, r)
               /\ \A S : "idle" \notin S => (Within(m, r, S) <=> \E i \in DOMAIN s : s[i] \in S)
<1>1. CASE s = <<>>
  <2>1. Linked("idle", <<>>) BY DEF Linked, Schedules, Cancels
  <2>2. DOMAIN <<>> = {} OBVIOUS
  <2>3. \A S : Within("idle", <<>>, S) <=> "idle" \in S BY <2>2 DEF Within
  <2>4. "idle" \notin Working \cup Again \cup Canceling BY DEF Working, Again, Canceling
  <2> QED BY <1>1, <2>1, <2>2, <2>3, <2>4 DEF Trace
<1>2. CASE s # <<>>
  <2>1. /\ Head(s) = s[1] /\ Head(s) \in Backs /\ Tail(s) \in Seq(Backs) /\ Len(s) \in Nat
        /\ Len(s) >= 1 /\ Len(Tail(s)) = Len(s) - 1
        /\ \A i \in 1 .. Len(Tail(s)) : Tail(s)[i] = s[i + 1] /\ i + 1 \in 1 .. Len(s)
        /\ \A S : Within(Head(s), Tail(s), S) <=> \E i \in DOMAIN s : s[i] \in S
    BY <1>2, PopFacts
  <2>2. Head(s) \notin Schedules /\ Head(s) # "begin" /\ Head(s) \notin {"signalWait", "resume"}
        /\ (Head(s) \in Cancels => Head(s) = "cancelDone")
    BY <2>1 DEF Backs, Schedules, Cancels
  <2>3. \A i \in 1 .. Len(Tail(s)) - 1 : Tail(s)[i] = "cancelDone" => Tail(s)[i + 1] = "checkStatus"
    <3> SUFFICES ASSUME NEW i \in 1 .. Len(Tail(s)) - 1, Tail(s)[i] = "cancelDone"
                 PROVE  Tail(s)[i + 1] = "checkStatus"
      OBVIOUS
    <3>1. i \in 1 .. Len(Tail(s)) /\ i + 1 \in 1 .. Len(Tail(s)) /\ i + 1 \in 1 .. Len(s) - 1
      BY <2>1
    <3>2. s[i + 1] = "cancelDone" /\ Tail(s)[i + 1] = s[(i + 1) + 1] BY <2>1, <3>1
    <3> QED BY <3>1, <3>2 DEF Linked
  <2>4. Head(s) = "cancelDone" => Tail(s) = <<>> \/ Tail(s)[1] = "checkStatus"
    <3> SUFFICES ASSUME Head(s) = "cancelDone", Tail(s) # <<>> PROVE Tail(s)[1] = "checkStatus"
      OBVIOUS
    <3>1. Len(Tail(s)) # 0 BY <2>1
    <3>2. 1 \in 1 .. Len(Tail(s)) /\ 1 \in 1 .. Len(s) - 1 BY <2>1, <3>1
    <3>3. Tail(s)[1] = s[1 + 1] BY <2>1, <3>2
    <3>4. s[1 + 1] = "checkStatus" BY <2>1, <3>2 DEF Linked
    <3> QED BY <3>3, <3>4
  <2>5. Linked(Head(s), Tail(s)) BY <2>2, <2>3, <2>4 DEF Linked
  <2>6. \A S : (\E i \in DOMAIN s : s[i] \in S) => Within(l, s, S) BY DEF Within
  <2> QED BY <1>2, <2>1, <2>2, <2>5, <2>6 DEF Trace
<1> QED BY <1>1, <1>2

-----------------------------------------------------------------------------
(* The provider's Cleanup.                                                 *)

\* Only the last reference to go makes the destructor clean up.
Releases(t) == UNCHANGED <<freed, cleanup, cleanups>> \/ \E n \in {1, 2} : Release(t, n)

CalmMove(t) ==
    \/ \E m : Goto(t, m) /\ CalmGoto(pc[t], m)
    \/ \E m, b : Call(t, m, b) /\ CalmCall(pc[t], m, b)
    \/ Return(t)
    \/ UNCHANGED <<pc, stack>>

Calm(t) == UNCHANGED <<workQ, again>> /\ Releases(t) /\ CalmMove(t)

LEMMA GuardReleases ==
    ASSUME NEW t
    PROVE  /\ GetState(t) => Releases(t)
           /\ ReadStatus(t) => Releases(t)
           /\ \A s, n : ExtractState(t, s, n) => Releases(t)
           /\ UNCHANGED refVars => Releases(t)
<1>1. UNCHANGED refVars => Releases(t) BY DEF refVars, Releases
<1>2. GetState(t) => Releases(t) BY DEF GetState, AddRef, refVars, Releases
<1>3. ReadStatus(t) => Releases(t) BY DEF ReadStatus, refVars, Releases
<1>4. ASSUME NEW s, NEW n, ExtractState(t, s, n) PROVE Releases(t)
  <2>1. CASE attached BY <1>4, <2>1 DEF ExtractState, Releases
  <2>2. CASE ~attached BY <1>3, <1>4, <2>2 DEF ExtractState
  <2> QED BY <2>1, <2>2
<1> QED BY <1>1, <1>2, <1>3, <1>4

LEMMA CalmGotos ==
    ASSUME NEW t,
           \/ ClaimSchedule(t) \/ SubmitWork(t) \/ SubmitWorkFails(t) \/ SignalWait(t)
           \/ ClearScheduled(t)
           \/ DoWorkPending(t) \/ WaitSatisfied(t) \/ ProviderGetsResult(t)
           \/ CallXAsyncCancel(t) \/ CallXAsyncGetResultSize(t) \/ CallXAsyncGetStatus(t)
           \/ CallXAsyncGetResult(t)
    PROVE  Calm(t)
<1>1. UNCHANGED <<workQ, again, refVars>>
  BY DEF ClaimSchedule, SubmitWork, SubmitWorkFails, Refused, SignalWait, ClearScheduled,
     DoWorkPending, WaitSatisfied,
     ProviderGetsResult, CallXAsyncCancel, CallXAsyncGetResultSize, CallXAsyncGetStatus,
     CallXAsyncGetResult, queueVars, histVars
<1>2. \E m : Goto(t, m) /\ PlainGoto(pc[t], m) /\ m # "cancelOp"
  BY DEF ClaimSchedule, SubmitWork, SubmitWorkFails, Refused, SignalWait, ClearScheduled,
     DoWorkPending, WaitSatisfied,
     ProviderGetsResult, CallXAsyncCancel, CallXAsyncGetResultSize, CallXAsyncGetStatus,
     CallXAsyncGetResult, PlainGoto
<1>3. CalmMove(t) BY <1>2 DEF CalmMove, CalmGoto
<1> QED BY <1>1, <1>3, GuardReleases DEF Calm

LEMMA CalmCalls ==
    ASSUME NEW t,
           \/ CheckValid(t) \/ DoWorkCompletes(t) \/ DoWorkReturns(t) \/ CallbackReturns(t)
           \/ ProviderCancels(t)
           \/ (t = Starter /\ (ProviderBegins \/ ProviderBeginFails \/ ProviderBegun))
    PROVE  Calm(t)
<1>1. UNCHANGED <<workQ, again, refVars>>
  BY DEF CheckValid, DoWorkCompletes, DoWorkReturns, CallbackReturns, ProviderCancels,
     ProviderBegins, ProviderBeginFails, ProviderBegun, queueVars, histVars
<1>2. CalmMove(t)
  <2>1. CASE CheckValid(t)
    <3>1. \/ \E m : Goto(t, m) /\ PlainGoto(pc[t], m) /\ m # "cancelOp"
          \/ \E m, b : Call(t, m, b) /\ PlainCall(pc[t], m, b) /\ b # "rescheduled"
      BY <2>1 DEF CheckValid, PlainGoto, PlainCall
    <3> QED BY <3>1 DEF CalmMove, CalmGoto, CalmCall
  <2>2. CASE DoWorkCompletes(t)
    BY <2>2 DEF DoWorkCompletes, CallComplete, CalmMove, CalmCall, PlainCall
  <2>3. CASE DoWorkReturns(t)
    BY <2>3 DEF DoWorkReturns, CallComplete, CalmMove, CalmCall, PlainCall
  <2>4. CASE CallbackReturns(t) BY <2>4 DEF CallbackReturns, CalmMove, CalmCall, PlainCall
  <2>5. CASE ProviderCancels(t)
    BY <2>5 DEF ProviderCancels, CallComplete, CalmMove, CalmCall, PlainCall, CalmGoto, PlainGoto
  <2>6. CASE t = Starter /\ ProviderBegins
    BY <2>6 DEF ProviderBegins, CalmMove, CalmCall, PlainCall
  <2>7. CASE t = Starter /\ ProviderBeginFails
    BY <2>7 DEF ProviderBeginFails, CallComplete, CalmMove, CalmCall, PlainCall
  <2>8. CASE t = Starter /\ ProviderBegun
    BY <2>8 DEF ProviderBegun, CallComplete, CalmMove, CalmCall, PlainCall, CalmGoto, PlainGoto
  <2> QED BY <2>1, <2>2, <2>3, <2>4, <2>5, <2>6, <2>7, <2>8
<1> QED BY <1>1, <1>2, GuardReleases DEF Calm

LEMMA CalmGuards ==
    ASSUME NEW t,
           \/ XAsyncSchedule(t) \/ XAsyncCancel(t) \/ XAsyncGetResultSize(t) \/ XAsyncGetStatus(t)
           \/ XAsyncGetResult(t) \/ CheckStatus(t) \/ FinalStatus(t)
    PROVE  Calm(t)
<1>1. UNCHANGED <<workQ, again>> /\ Releases(t)
  BY GuardReleases DEF XAsyncSchedule, XAsyncCancel, XAsyncGetResultSize, XAsyncGetStatus,
     XAsyncGetResult, CheckStatus, FinalStatus, queueVars, histVars
<1>2. \/ Return(t) \/ \E m : Goto(t, m) /\ CalmGoto(pc[t], m)
      \/ CheckStatus(t)
  <2>1. CASE XAsyncSchedule(t) BY <2>1 DEF XAsyncSchedule, CalmGoto, GetGoto
  <2>2. CASE XAsyncCancel(t) BY <2>2 DEF XAsyncCancel, CalmGoto, GetGoto
  <2>3. CASE XAsyncGetResultSize(t) BY <2>3 DEF XAsyncGetResultSize, CalmGoto, GetGoto
  <2>4. CASE XAsyncGetStatus(t) BY <2>4 DEF XAsyncGetStatus, CalmGoto, GetGoto
  <2>5. CASE XAsyncGetResult(t)
    <3>1. CASE ~attached BY <2>5, <3>1 DEF XAsyncGetResult
    <3>2. CASE attached /\ status = "pending" BY <2>5, <3>2 DEF XAsyncGetResult, CalmGoto, GetGoto
    <3>3. CASE attached /\ status # "pending" BY <2>5, <3>3 DEF XAsyncGetResult, CalmGoto, GetGoto
    <3> QED BY <3>1, <3>2, <3>3
  <2>6. CASE FinalStatus(t) BY <2>6 DEF FinalStatus, CalmGoto
  <2> QED BY <2>1, <2>2, <2>3, <2>4, <2>5, <2>6
<1>3. ASSUME CheckStatus(t) PROVE CalmMove(t)
  BY <1>3 DEF CheckStatus, CallComplete, CalmMove, CalmGoto, CalmCall
<1> QED BY <1>1, <1>2, <1>3 DEF Calm, CalmMove

LEMMA CalmOthers ==
    ASSUME NEW t,
           \/ ReleaseState(t) \/ Peek(t) \/ XAsyncComplete(t) \/ SignalCompletion(t)
           \/ ResumeTermination(t) \/ CleanupState(t) \/ CompletionCallback(t) \/ ExtractResult(t)
    PROVE  Calm(t)
<1>1. CASE ReleaseState(t) \/ CleanupState(t)
  BY <1>1 DEF ReleaseState, CleanupState, Calm, CalmMove, Releases, queueVars, histVars
<1>2. CASE Peek(t)
  BY <1>2 DEF Peek, AddRef, Calm, CalmMove, Releases, queueVars, histVars
<1>3. CASE XAsyncComplete(t)
  <2>1. UNCHANGED <<workQ, again>> /\ pc[t] = "complete"
    BY <1>3 DEF XAsyncComplete, queueVars, histVars
  <2>2. /\ GetState(t) \/ ExtractState(t, "zero", 1)
        /\ Goto(t, "signal") \/ Goto(t, "release") \/ Return(t)
    <3>1. CASE CanComplete /\ NothingToCollect(t) BY <1>3, <3>1 DEF XAsyncComplete
    <3>2. CASE CanComplete /\ ~NothingToCollect(t) BY <1>3, <3>2 DEF XAsyncComplete
    <3>3. CASE ~CanComplete BY <1>3, <3>3 DEF XAsyncComplete
    <3> QED BY <3>1, <3>2, <3>3
  <2>3. Releases(t) BY <2>2, GuardReleases
  <2>4. CalmMove(t) BY <2>1, <2>2 DEF CalmMove, CalmGoto, GetGoto
  <2> QED BY <2>1, <2>3, <2>4 DEF Calm
<1>4. CASE SignalCompletion(t)
  <2>1. UNCHANGED <<workQ, again, freed, cleanup, cleanups>> /\ pc[t] = "signal"
    BY <1>4 DEF SignalCompletion, histVars
  <2>2. AfterSignal(t) \in {"setCleanup", "release"} BY DEF AfterSignal
  <2>3. Call(t, "signalWait", AfterSignal(t)) \/ Goto(t, AfterSignal(t))
    BY <1>4 DEF SignalCompletion
  <2>4. CalmMove(t) BY <2>1, <2>2, <2>3 DEF CalmMove, CalmGoto, CalmCall
  <2> QED BY <2>1, <2>4 DEF Calm, Releases
<1>5. CASE ResumeTermination(t)
  BY <1>5, GuardReleases DEF ResumeTermination, Calm, CalmMove, histVars
<1>6. CASE CompletionCallback(t)
  BY <1>6 DEF CompletionCallback, Calm, CalmMove, CalmGoto, Releases
<1>7. CASE ExtractResult(t)
  BY <1>7, GuardReleases DEF ExtractResult, Calm, CalmMove, CalmGoto, queueVars, histVars
<1> QED BY <1>1, <1>2, <1>3, <1>4, <1>5, <1>6, <1>7

In(t, S) == Within(pc[t], stack[t], S)

\* The provider is cleaned up once, and has been when the state is gone.
CleanInv ==
    /\ cleanup \in Locations
    /\ cleanups = IF cleanup = "CleanedUp" THEN 1 ELSE 0
    /\ freed => cleanup = "CleanedUp"

\* The work of an operation that is not scheduled again is one token: it is with the thread
\* that schedules it, on the Work port or with the thread that does it, and gone when the
\* provider is cleaned up.
OneWork ==
    /\ \A t, u \in Threads : In(t, Working) /\ In(u, Working) => t = u
    /\ \A t \in Threads : In(t, Working) => workQ = 0
    /\ workQ <= 1
    /\ cleanup = "CleanedUp" => workQ = 0 /\ \A t \in Threads : ~In(t, Working)

\* One thread at a time is in the provider's Cancel, and keeps others from cleaning up; the
\* block has no state any more when somebody does.
AloneInv ==
    /\ \A t \in Threads : Linked(pc[t], stack[t])
    /\ again \in Nat /\ workQ \in Nat
    /\ \A t \in Threads : In(t, Again) => again # 0
    /\ \A t \in Threads : pc[t] = "begin" => again = 0
    /\ \A t \in Threads : In(t, Canceling) => cleanup = "InCancel"
    /\ \A t, u \in Threads : In(t, Canceling) /\ In(u, Canceling) => t = u
    /\ cleanup \in {"AfterDoWork", "CleanedUp"} => ~attached
    /\ sig = "none" => again = 0 /\ cleanup = "Destructor"
    /\ again = 0 => OneWork

AloneOk == RefOk /\ CleanInv /\ AloneInv

\* What a step of thread t does to the provider.
Cleans(t) ==
    \/ UNCHANGED <<cleanup, cleanups>> /\ (freed' => freed)
    \/ cleanup = "Destructor" /\ cleanup' = "InCancel" /\ UNCHANGED <<cleanups, freed>>
    \/ cleanup = "Destructor" /\ cleanup' = "AfterDoWork" /\ ~attached /\ UNCHANGED <<cleanups, freed>>
    \/ /\ cleanup = "AfterDoWork" /\ cleanup' = "CleanedUp" /\ cleanups' = cleanups + 1
       /\ UNCHANGED <<freed, workQ>> /\ In(t, Working) /\ ~In(t, Working)'
    \/ /\ cleanup = "InCancel" /\ cleanup' = "Destructor" /\ UNCHANGED <<cleanups, freed>>
       /\ In(t, Canceling) /\ ~In(t, Canceling)'
    \/ /\ cleanup' = "CleanedUp" /\ refs' = 0
       /\ cleanups' = IF cleanup # "CleanedUp" THEN cleanups + 1 ELSE cleanups

Tracks(t) ==
    /\ Linked(pc'[t], stack'[t]) /\ Cleans(t)
    /\ again' = again \/ (again' = again + 1 /\ pc[t] = "doWork")
    /\ In(t, Again)' => In(t, Again) \/ again' = again + 1
    /\ In(t, Working)' => In(t, Working) \/ In(t, Again) \/ (workQ > 0 /\ workQ' = workQ - 1)
    /\ In(t, Canceling)' => In(t, Canceling) \/ (cleanup = "Destructor" /\ cleanup' = "InCancel")
    /\ \/ workQ' = workQ
       \/ workQ' = workQ + 1 /\ In(t, Working) /\ ~In(t, Working)'
       \/ workQ > 0 /\ workQ' = workQ - 1
    /\ pc'[t] = "begin" => pc[t] = "begin"

\* Where nothing is held nobody is inside.
LEMMA NothingInside ==
    ASSUME NEW l, NEW s, NEW c, NEW p \in 0 .. 1, Fits(l, s, c, p, 0), Linked(l, s)
    PROVE  l \notin Signalling /\ \A S \in {Working, Canceling, Again} : ~Within(l, s, S)
<1>1. Below(s) \in 0 .. 4 /\ Own(l, c) \in 0 .. 2 /\ 0 = Own(l, c) + Below(s) + p BY FitsBound DEF Fits
<1>2. Below(s) = 0 /\ Own(l, c) = 0 BY <1>1
<1>3. s \in Seq(Backs) /\ Len(s) \in Nat BY DEF Fits, Shape
<1>4. Len(s) = 0
  <2>1. CASE Carried(s) BY <1>2, <1>3, <2>1 DEF Below
  <2>2. CASE ~Carried(s) BY <1>2, <1>3, <2>2 DEF Below
  <2> QED BY <2>1, <2>2
<1>5. s = <<>> BY <1>3, <1>4
<1>6. l \notin {"schedule", "signalWait", "resume"} BY <1>5 DEF Linked, Schedules
<1>7. l \notin Signalling /\ l \notin Working /\ l \notin Canceling /\ l \notin Again
  BY <1>2, <1>6 DEF Own, Signalling, Working, Canceling, Again
<1>8. DOMAIN s = {} BY <1>5
<1> QED BY <1>7, <1>8 DEF Within

LEMMA NobodyInside ==
    ASSUME RefInv', \A t \in Threads : Linked(pc'[t], stack'[t]), attached' \in BOOLEAN, refs' = 0
    PROVE  /\ ~attached' /\ workQ' = 0
           /\ \A t \in Threads : ~In(t, Working)' /\ ~In(t, Canceling)' /\ ~In(t, Again)'
<1>1. /\ mine' \in Bounded /\ workQ' \in Nat /\ complQ' \in Nat /\ peeked' \in [Threads -> BOOLEAN]
      /\ refs' = Count(mine') + workQ' + complQ' + One(attached')
      /\ \A t \in Threads : Fits(pc'[t], stack'[t], loc'[t].cleaning, One(peeked'[t]), mine'[t])
  BY DEF RefInv, RefTypes, Balance, ThreadOk
<1>2. PICK m \in Bounded, w \in Nat, k \in Nat, o \in 0 .. 1 :
         m = mine' /\ w = workQ' /\ k = complQ' /\ o = One(attached')
  BY <1>1, OneFacts
<1>3. Count(m) + w + k + o = 0 BY <1>1, <1>2
<1>4. w = 0 /\ o = 0 /\ \A t \in Threads : m[t] = 0 BY <1>3, NothingHeld
<1>5. ASSUME NEW t \in Threads PROVE ~In(t, Working)' /\ ~In(t, Canceling)' /\ ~In(t, Again)'
  <2>1. One(peeked'[t]) \in 0 .. 1 BY <1>1, OneFacts
  <2>2. PICK p \in 0 .. 1 : p = One(peeked'[t]) BY <2>1
  <2>3. Fits(pc'[t], stack'[t], loc'[t].cleaning, p, 0) BY <1>1, <1>2, <1>4, <2>2
  <2>4. Linked(pc'[t], stack'[t]) OBVIOUS
  <2>5. \A S \in {Working, Canceling, Again} : ~Within(pc'[t], stack'[t], S)
    BY <2>3, <2>4, NothingInside
  <2> QED BY <2>5 DEF In
<1>6. ~attached' BY <1>2, <1>4 DEF One
<1> QED BY <1>2, <1>4, <1>5, <1>6

LEMMA TracksClean ==
    ASSUME AloneOk, NEW t \in Threads, Accounts(t), Tracks(t)
    PROVE  CleanInv'
<1>1. CleanInv /\ FreedInv BY DEF AloneOk, RefOk, RefInv
<1>2. cleanup \in Locations /\ cleanups \in Nat BY <1>1 DEF CleanInv
<1>3. cleanup' \in Locations BY <1>2 DEF Tracks, Cleans, Locations
<1>4. cleanups' = IF cleanup' = "CleanedUp" THEN 1 ELSE 0 BY <1>1 DEF Tracks, Cleans, CleanInv
<1>5. freed' => cleanup' = "CleanedUp" BY <1>1 DEF Tracks, Cleans, CleanInv
<1> QED BY <1>3, <1>4, <1>5 DEF CleanInv

LEMMA TracksAlone ==
    ASSUME AloneOk, NEW t \in Threads, Accounts(t), Tracks(t), RefInv'
    PROVE  AloneInv'
<1>1. AloneInv /\ workQ \in Nat /\ again \in Nat BY DEF AloneOk, AloneInv
<1>2. \A u \in Threads \ {t} : pc'[u] = pc[u] /\ stack'[u] = stack[u] BY DEF Accounts
<1>3. \A u \in Threads \ {t} : \A S : In(u, S)' <=> In(u, S) BY <1>2 DEF In
<1>4. workQ' \in Nat /\ attached' \in BOOLEAN /\ sig' # "none" /\ (attached' => attached)
  BY DEF Accounts
<1>5. again' \in Nat /\ (again' = 0 => again = 0 /\ again' = again) BY <1>1 DEF Tracks
<1>6. \A u \in Threads : Linked(pc'[u], stack'[u]) BY <1>1, <1>2 DEF AloneInv, Tracks
<1>7. ASSUME refs' = 0
      PROVE  /\ ~attached' /\ workQ' = 0
             /\ \A u \in Threads : ~In(u, Working)' /\ ~In(u, Canceling)' /\ ~In(u, Again)'
  BY <1>4, <1>6, <1>7, NobodyInside
<1>8. \A u \in Threads : In(u, Again)' => again' # 0
  <2>1. In(t, Again)' => again' # 0 BY <1>1 DEF Tracks, AloneInv
  <2>2. ASSUME NEW u \in Threads \ {t}, In(u, Again)' PROVE again' # 0
    BY <1>1, <1>3, <2>2 DEF Tracks, AloneInv
  <2> QED BY <2>1, <2>2
<1>9. ASSUME NEW u \in Threads, pc'[u] = "begin" PROVE again' = 0
  <2>1. pc[u] = "begin" BY <1>2, <1>9 DEF Tracks
  <2>2. again = 0 BY <1>1, <2>1 DEF AloneInv
  <2>3. In(u, Working) BY <2>1 DEF In, Within, Working
  <2>4. pc[t] = "doWork" => In(t, Working) BY DEF In, Within, Working
  <2>5. pc[t] # "doWork" BY <1>1, <2>1, <2>2, <2>3, <2>4 DEF AloneInv, OneWork
  <2> QED BY <2>2, <2>5 DEF Tracks
<1>10. \A u \in Threads : In(u, Canceling)' => cleanup' = "InCancel"
  BY <1>1, <1>3, <1>7 DEF Tracks, Cleans, AloneInv
<1>11. \A u, v \in Threads : In(u, Canceling)' /\ In(v, Canceling)' => u = v
  BY <1>1, <1>3 DEF Tracks, AloneInv
<1>12. cleanup' \in {"AfterDoWork", "CleanedUp"} => ~attached'
  BY <1>1, <1>4, <1>7 DEF Tracks, Cleans, AloneInv
<1>13. ASSUME again' = 0 PROVE OneWork'
  <2>1. again = 0 /\ OneWork /\ \A u \in Threads : ~In(u, Again)
    BY <1>1, <1>5, <1>13 DEF AloneInv
  <2>2. \A u, v \in Threads : In(u, Working)' /\ In(v, Working)' => u = v
    BY <1>3, <2>1, <1>1 DEF Tracks, OneWork
  <2>3. ASSUME NEW u \in Threads, In(u, Working)' PROVE workQ' = 0
    <3>1. CASE u = t
      <4>1. CASE In(t, Working) BY <1>1, <2>1, <2>3, <3>1, <4>1 DEF Tracks, OneWork
      <4>2. CASE ~In(t, Working) BY <1>1, <2>1, <2>3, <3>1, <4>2 DEF Tracks, OneWork
      <4> QED BY <4>1, <4>2
    <3>2. CASE u # t
      <4>1. In(u, Working) /\ workQ = 0 /\ ~In(t, Working) BY <1>3, <2>1, <2>3, <3>2 DEF OneWork
      <4> QED BY <4>1 DEF Tracks
    <3> QED BY <3>1, <3>2
  <2>4. workQ' <= 1 BY <1>1, <2>1 DEF Tracks, OneWork
  <2>5. ASSUME cleanup' = "CleanedUp" PROVE workQ' = 0 /\ \A u \in Threads : ~In(u, Working)'
    <3>1. CASE cleanup = "CleanedUp"
      <4>1. workQ = 0 /\ \A u \in Threads : ~In(u, Working) BY <2>1, <3>1 DEF OneWork
      <4>2. ~In(t, Working)' BY <2>1, <4>1 DEF Tracks
      <4> QED BY <1>3, <4>1, <4>2 DEF Tracks
    <3>2. CASE refs' = 0 BY <1>7, <3>2
    <3>3. CASE cleanup # "CleanedUp" /\ refs' # 0
      <4>1. UNCHANGED workQ /\ In(t, Working) /\ ~In(t, Working)'
        BY <2>5, <3>3 DEF Tracks, Cleans
      <4>2. workQ = 0 /\ \A u \in Threads \ {t} : ~In(u, Working) BY <2>1, <4>1 DEF OneWork
      <4> QED BY <1>3, <4>1, <4>2
    <3> QED BY <3>1, <3>2, <3>3
  <2> QED BY <2>2, <2>3, <2>4, <2>5 DEF OneWork
<1> QED BY <1>4, <1>5, <1>6, <1>8, <1>9, <1>10, <1>11, <1>12, <1>13 DEF AloneInv

\* Where thread t is, before and after its move.
LEMMA ThreadPlace ==
    ASSUME AloneOk, NEW t \in Threads
    PROVE  /\ Linked(pc[t], stack[t]) /\ Shape(pc[t], stack[t]) /\ stack[t] \in Seq(Backs)
           /\ pc \in [Threads -> PCs] /\ stack \in Stacks
           /\ \A m : Goto(t, m) => pc'[t] = m /\ stack'[t] = stack[t]
           /\ \A m, b : Call(t, m, b) => pc'[t] = m /\ stack'[t] = <<b>> \o stack[t]
           /\ Return(t) => /\ pc'[t] = IF stack[t] = <<>> THEN "idle" ELSE Head(stack[t])
                           /\ stack'[t] = IF stack[t] = <<>> THEN <<>> ELSE Tail(stack[t])
           /\ \A S : pc[t] \in S => In(t, S)
<1>1. RefOk BY DEF AloneOk
<1>2. CtlTypes /\ Shape(pc[t], stack[t]) /\ stack[t] \in Seq(Backs) BY <1>1, ThreadShape, RefOkFacts
<1>3. pc \in [Threads -> PCs] /\ stack \in Stacks BY <1>2 DEF CtlTypes
<1>4. Linked(pc[t], stack[t]) BY DEF AloneOk, AloneInv
<1>5. \A m : Goto(t, m) => pc'[t] = m /\ stack'[t] = stack[t] BY <1>3 DEF Goto, Stacks
<1>6. \A m, b : Call(t, m, b) => pc'[t] = m /\ stack'[t] = <<b>> \o stack[t]
  BY <1>3 DEF Call, Stacks
<1>7. Return(t) => /\ pc'[t] = IF stack[t] = <<>> THEN "idle" ELSE Head(stack[t])
                   /\ stack'[t] = IF stack[t] = <<>> THEN <<>> ELSE Tail(stack[t])
  BY <1>3 DEF Return, Stacks
<1>8. \A S : pc[t] \in S => In(t, S) BY DEF In, Within
<1> QED BY <1>2, <1>3, <1>4, <1>5, <1>6, <1>7, <1>8

LEMMA MoveTrace ==
    ASSUME AloneOk, NEW t \in Threads, CalmMove(t)
    PROVE  /\ Linked(pc'[t], stack'[t]) /\ (pc'[t] = "begin" => pc[t] = "begin")
           /\ In(t, Again)' => In(t, Again)
           /\ In(t, Working)' => In(t, Working) \/ In(t, Again)
           /\ In(t, Canceling)' => In(t, Canceling)
<1>1. Trace(pc[t], stack[t], pc'[t], stack'[t])
  <2>1. ASSUME NEW m, Goto(t, m), CalmGoto(pc[t], m) PROVE Trace(pc[t], stack[t], pc'[t], stack'[t])
    <3>1. pc'[t] = m /\ stack'[t] = stack[t] /\ Linked(pc[t], stack[t]) /\ Shape(pc[t], stack[t])
      BY <2>1, ThreadPlace
    <3> QED BY <2>1, <3>1, TraceGoto
  <2>2. ASSUME NEW m, NEW b, Call(t, m, b), CalmCall(pc[t], m, b)
        PROVE  Trace(pc[t], stack[t], pc'[t], stack'[t])
    <3>1. pc'[t] = m /\ stack'[t] = <<b>> \o stack[t] /\ Linked(pc[t], stack[t])
          /\ stack[t] \in Seq(Backs)
      BY <2>2, ThreadPlace
    <3>2. Trace(pc[t], stack[t], m, <<b>> \o stack[t]) BY <2>2, <3>1, TraceCall
    <3> QED BY <3>1, <3>2
  <2>3. CASE Return(t)
    <3>1. /\ pc'[t] = IF stack[t] = <<>> THEN "idle" ELSE Head(stack[t])
          /\ stack'[t] = IF stack[t] = <<>> THEN <<>> ELSE Tail(stack[t])
          /\ Linked(pc[t], stack[t]) /\ stack[t] \in Seq(Backs)
      BY <2>3, ThreadPlace
    <3>2. Trace(pc[t], stack[t], IF stack[t] = <<>> THEN "idle" ELSE Head(stack[t]),
                IF stack[t] = <<>> THEN <<>> ELSE Tail(stack[t]))
      BY <3>1, TraceReturn
    <3> QED BY <3>1, <3>2
  <2>4. CASE UNCHANGED <<pc, stack>>
    <3>1. Linked(pc[t], stack[t]) BY ThreadPlace
    <3> QED BY <2>4, <3>1 DEF Trace
  <2> QED BY <2>1, <2>2, <2>3, <2>4 DEF CalmMove
<1> QED BY <1>1 DEF Trace, In

LEMMA CalmTracks ==
    ASSUME AloneOk, NEW t \in Threads, Calm(t)
    PROVE  Tracks(t)
<1>1. /\ Linked(pc'[t], stack'[t]) /\ (pc'[t] = "begin" => pc[t] = "begin")
      /\ In(t, Again)' => In(t, Again)
      /\ In(t, Working)' => In(t, Working) \/ In(t, Again)
      /\ In(t, Canceling)' => In(t, Canceling)
  BY MoveTrace DEF Calm
<1>2. Cleans(t)
  <2>1. refs \in Nat /\ freed \in BOOLEAN BY RefOkFacts DEF AloneOk
  <2>2. CASE UNCHANGED <<freed, cleanup, cleanups>> BY <2>2 DEF Cleans
  <2>3. ASSUME NEW n \in {1, 2}, Release(t, n) PROVE Cleans(t)
    <3>1. CASE refs = n
      <4>1. refs' = 0 BY <2>1, <2>3, <3>1 DEF Release
      <4>2. cleanup' = "CleanedUp"
            /\ cleanups' = IF cleanup # "CleanedUp" THEN cleanups + 1 ELSE cleanups
        BY <2>3, <3>1 DEF Release
      <4> QED BY <4>1, <4>2 DEF Cleans
    <3>2. CASE refs # n
      <4>1. freed' => freed BY <2>1, <2>3, <3>2 DEF Release
      <4>2. UNCHANGED <<cleanup, cleanups>> BY <2>3, <3>2 DEF Release
      <4> QED BY <4>1, <4>2 DEF Cleans
    <3> QED BY <3>1, <3>2
  <2> QED BY <2>2, <2>3 DEF Calm, Releases
<1>3. workQ' = workQ /\ again' = again BY DEF Calm
<1> QED BY <1>1, <1>2, <1>3 DEF Tracks

\* The provider's location changes hands.
LEMMA LocationTracks ==
    ASSUME AloneOk, NEW t \in Threads,
           TrySetProviderCleanup(t) \/ CleanupAfterDoWork(t) \/ RevertProviderCleanup(t)
    PROVE  Tracks(t)
<1>1. UNCHANGED <<workQ, again, freed>>
  BY DEF TrySetProviderCleanup, CleanupAfterDoWork, RevertProviderCleanup, queueVars, histVars
<1>2. \E m : Goto(t, m) /\ CalmGoto(pc[t], m)
  BY DEF TrySetProviderCleanup, CleanupAfterDoWork, RevertProviderCleanup, CalmGoto, PlainGoto
<1>3. /\ Linked(pc'[t], stack'[t]) /\ (pc'[t] = "begin" => pc[t] = "begin")
      /\ In(t, Again)' => In(t, Again)
      /\ In(t, Working)' => In(t, Working) \/ In(t, Again)
      /\ In(t, Canceling)' => In(t, Canceling)
  BY <1>2, MoveTrace DEF CalmMove
<1>4. Cleans(t)
  <2>1. CASE TrySetProviderCleanup(t)
    <3>1. pc[t] = "setCleanup" /\ UNCHANGED cleanups
          /\ cleanup' = IF cleanup = "Destructor" THEN "AfterDoWork" ELSE cleanup
      BY <2>1 DEF TrySetProviderCleanup, ProviderFree
    <3>2. Carrier(t) BY <3>1 DEF Carrier, Own
    <3>3. ~attached BY <3>2 DEF AloneOk, RefOk, RefInv, FreedInv
    <3> QED BY <1>1, <3>1, <3>3 DEF Cleans
  <2>2. CASE CleanupAfterDoWork(t)
    <3>1. pc[t] = "afterWork" /\ Goto(t, "release") BY <2>2 DEF CleanupAfterDoWork
    <3>2. pc'[t] = "release" /\ stack'[t] = stack[t] /\ In(t, Working) /\ Shape(pc[t], stack[t])
      BY <3>1, ThreadPlace DEF Working
    <3>3. stack[t] = <<>> BY <3>1, <3>2, LevelZero DEF Level
    <3>4. ~In(t, Working)'
      <4>1. DOMAIN <<>> = {} /\ "release" \notin Working BY DEF Working
      <4> QED BY <3>2, <3>3, <4>1 DEF In, Within
    <3>5. CASE cleanup = "AfterDoWork"
      BY <1>1, <2>2, <3>2, <3>4, <3>5 DEF CleanupAfterDoWork, CleanedLocation, Cleans
    <3>6. CASE cleanup # "AfterDoWork"
      BY <1>1, <2>2, <3>6 DEF CleanupAfterDoWork, Cleans
    <3> QED BY <3>5, <3>6
  <2>3. CASE RevertProviderCleanup(t)
    <3>1. pc[t] = "cancelDone" /\ Goto(t, "release") /\ UNCHANGED cleanups
          /\ cleanup' = IF cleanup = "InCancel" THEN "Destructor" ELSE cleanup
      BY <2>3 DEF RevertProviderCleanup
    <3>2. /\ pc'[t] = "release" /\ stack'[t] = stack[t] /\ In(t, Canceling)
          /\ Shape(pc[t], stack[t]) /\ Linked(pc[t], stack[t])
      BY <3>1, ThreadPlace DEF Canceling
    <3>3. cleanup = "InCancel" BY <3>2 DEF AloneOk, AloneInv
    <3>4. ~In(t, Canceling)'
      <4>1. stack[t] \in Seq(Backs) /\ Len(stack[t]) <= 1 BY <3>1, <3>2 DEF Shape, Level
      <4>2. stack[t] = <<>> \/ stack[t][1] = "checkStatus" BY <3>1, <3>2 DEF Linked, Cancels
      <4>3. \A i \in DOMAIN stack[t] : i = 1 /\ stack[t] # <<>> BY <4>1
      <4>4. "release" \notin Canceling /\ "checkStatus" \notin Canceling BY DEF Canceling
      <4> QED BY <3>2, <4>2, <4>3, <4>4 DEF In, Within
    <3> QED BY <1>1, <3>1, <3>2, <3>3, <3>4 DEF Cleans
  <2> QED BY <2>1, <2>2, <2>3
<1>5. workQ' = workQ /\ again' = again BY <1>1
<1> QED BY <1>3, <1>4, <1>5 DEF Tracks

LEMMA TryCancelTracks ==
    ASSUME AloneOk, NEW t \in Threads, TryCancel(t)
    PROVE  Tracks(t)
<1>1. UNCHANGED <<workQ, again, freed, cleanups>> /\ pc[t] = "tryCancel"
  BY DEF TryCancel, queueVars, histVars
<1>2. CASE ProviderFree
  <2>1. cleanup = "Destructor" /\ cleanup' = "InCancel" /\ Goto(t, "cancelOp")
    BY <1>2 DEF TryCancel, ProviderFree
  <2>2. pc'[t] = "cancelOp" /\ stack'[t] = stack[t] /\ Linked(pc[t], stack[t]) BY <2>1, ThreadPlace
  <2>3. Linked("cancelOp", stack[t]) BY <1>1, <2>2 DEF Linked, Cancels, Schedules
  <2>4. "cancelOp" \notin Working /\ "cancelOp" \notin Again BY DEF Working, Again
  <2>5. (In(t, Working)' => In(t, Working)) /\ (In(t, Again)' => In(t, Again))
    BY <2>2, <2>4 DEF In, Within
  <2>6. Cleans(t) BY <1>1, <2>1 DEF Cleans
  <2>7. workQ' = workQ /\ again' = again /\ pc'[t] # "begin" /\ Linked(pc'[t], stack'[t])
    BY <1>1, <2>2, <2>3
  <2> QED BY <2>1, <2>5, <2>6, <2>7 DEF Tracks
<1>3. CASE ~ProviderFree
  <2>1. UNCHANGED cleanup /\ Goto(t, "release") BY <1>3 DEF TryCancel
  <2>2. Calm(t) BY <1>1, <2>1 DEF Calm, Releases, CalmMove, CalmGoto, PlainGoto
  <2> QED BY <2>2, CalmTracks
<1> QED BY <1>2, <1>3

LEMMA WorkTracks ==
    ASSUME AloneOk, NEW t \in Threads, AppendWork(t) \/ WorkerCallback(t) \/ DoWorkReschedules(t)
    PROVE  Tracks(t)
<1>0. AloneInv /\ workQ \in Nat /\ again \in Nat BY DEF AloneOk, AloneInv
<1>1. UNCHANGED <<cleanup, cleanups, freed>>
  BY DEF AppendWork, WorkerCallback, DoWorkReschedules, refVars
<1>2. Cleans(t) BY <1>1 DEF Cleans
<1>3. CASE AppendWork(t)
  <2>1. pc[t] = "append" /\ workQ' = workQ + 1 /\ UNCHANGED again /\ Return(t)
    BY <1>3 DEF AppendWork, histVars
  <2>2. /\ Linked(pc[t], stack[t]) /\ Shape(pc[t], stack[t]) /\ stack[t] \in Seq(Backs)
        /\ In(t, Working)
        /\ pc'[t] = IF stack[t] = <<>> THEN "idle" ELSE Head(stack[t])
        /\ stack'[t] = IF stack[t] = <<>> THEN <<>> ELSE Tail(stack[t])
    BY <2>1, ThreadPlace DEF Working
  <2>3. /\ Linked(pc'[t], stack'[t]) /\ (pc'[t] = "begin" => pc[t] = "begin")
        /\ In(t, Again)' => In(t, Again)
        /\ In(t, Canceling)' => In(t, Canceling)
    BY <2>1, MoveTrace DEF CalmMove
  <2>4. \A S : "idle" \notin S => (In(t, S)' <=> \E i \in DOMAIN stack[t] : stack[t][i] \in S)
    BY <2>2, TraceReturn DEF In
  <2>5. stack[t] # <<>> /\ stack[t][1] \in {"begun", "rescheduled"}
    BY <2>1, <2>2 DEF Linked, Schedules
  <2>6. Len(stack[t]) <= 1 BY <2>1, <2>2 DEF Shape, Level
  <2>7. \A i \in DOMAIN stack[t] : i = 1 BY <2>2, <2>6
  <2>8. "idle" \notin Working /\ "begun" \notin Working /\ "rescheduled" \notin Working
    BY DEF Working
  <2>9. ~In(t, Working)' BY <2>4, <2>5, <2>7, <2>8
  <2> QED BY <1>2, <2>1, <2>2, <2>3, <2>9 DEF Tracks
<1>4. CASE WorkerCallback(t)
  <2>1. pc[t] = "idle" /\ workQ > 0 /\ workQ' = workQ - 1 /\ UNCHANGED again /\ Goto(t, "work")
    BY <1>4 DEF WorkerCallback, histVars
  <2>2. pc'[t] = "work" /\ stack'[t] = stack[t] /\ Shape(pc[t], stack[t]) BY <2>1, ThreadPlace
  <2>3. stack[t] = <<>> BY <2>1, <2>2, LevelZero DEF Level
  <2>4. Linked("work", <<>>) BY DEF Linked, Schedules, Cancels
  <2>5. DOMAIN <<>> = {} /\ "work" \notin Again /\ "work" \notin Canceling BY DEF Again, Canceling
  <2>6. ~In(t, Again)' /\ ~In(t, Canceling)' BY <2>2, <2>3, <2>5 DEF In, Within
  <2> QED BY <1>2, <2>1, <2>2, <2>3, <2>4, <2>6 DEF Tracks
<1>5. CASE DoWorkReschedules(t)
  <2>1. pc[t] = "doWork" /\ UNCHANGED workQ /\ again' = again + 1
        /\ Call(t, "schedule", "rescheduled")
    BY <1>5 DEF DoWorkReschedules, queueVars
  <2>2. /\ pc'[t] = "schedule" /\ stack'[t] = <<"rescheduled">> \o stack[t]
        /\ Shape(pc[t], stack[t]) /\ Linked(pc[t], stack[t]) /\ stack[t] \in Seq(Backs)
        /\ In(t, Working)
    BY <2>1, ThreadPlace DEF Working
  <2>3. "rescheduled" \in Backs /\ "schedule" \notin Cancels BY DEF Backs, Cancels
  <2>4. Linked("schedule", <<"rescheduled">> \o stack[t]) BY <2>2, <2>3, LinkedCall
  <2>5. "schedule" \notin Canceling /\ "rescheduled" \notin Canceling BY DEF Canceling
  <2>6. \A S : (\E i \in DOMAIN (<<"rescheduled">> \o stack[t]) : (<<"rescheduled">> \o stack[t])[i] \in S)
                  <=> "rescheduled" \in S \/ \E i \in DOMAIN stack[t] : stack[t][i] \in S
    BY <2>2, <2>3, PushFacts
  <2>7. In(t, Canceling)' => In(t, Canceling) BY <2>2, <2>5, <2>6 DEF In, Within
  <2> QED BY <1>2, <2>1, <2>2, <2>4, <2>7 DEF Tracks
<1> QED BY <1>3, <1>4, <1>5

LEMMA ThreadTracks ==
    ASSUME AloneOk, NEW t \in Threads,
           \/ ThreadStep(t) \/ MayCall(t)
           \/ (t = Starter /\ (ProviderBegins \/ ProviderBeginFails \/ ProviderBegun))
    PROVE  Tracks(t)
<1>0. Calm(t) => Tracks(t) BY CalmTracks
<1>1. CASE ReleaseState(t) \/ Peek(t) BY <1>0, <1>1, CalmOthers
<1>2. CASE ScheduleStep(t)
  BY <1>0, <1>2, CalmGuards, CalmGotos, WorkTracks DEF ScheduleStep
<1>3. CASE CompleteStep(t)
  BY <1>0, <1>3, CalmOthers, CalmGotos, LocationTracks DEF CompleteStep
<1>4. CASE WorkStep(t)
  BY <1>0, <1>4, WorkTracks, CalmGotos, CalmCalls, CalmGuards, LocationTracks DEF WorkStep
<1>5. CASE CallbackStep(t) BY <1>0, <1>5, CalmOthers, CalmCalls DEF CallbackStep
<1>6. CASE CancelStep(t)
  BY <1>0, <1>6, CalmGuards, CalmCalls, TryCancelTracks, LocationTracks DEF CancelStep
<1>7. CASE WaitStep(t) BY <1>0, <1>7, CalmGuards, CalmGotos DEF WaitStep
<1>8. CASE GetStep(t) BY <1>0, <1>8, CalmGuards, CalmGotos, CalmOthers DEF GetStep
<1>9. CASE MayCall(t) BY <1>0, <1>9, CalmGotos, WorkTracks DEF MayCall
<1>10. CASE t = Starter /\ (ProviderBegins \/ ProviderBeginFails \/ ProviderBegun)
  BY <1>0, <1>10, CalmCalls
<1> QED BY <1>1, <1>2, <1>3, <1>4, <1>5, <1>6, <1>7, <1>8, <1>9, <1>10 DEF ThreadStep

LEMMA IdlePlace ==
    /\ Linked("idle", <<>>) /\ Linked("begin", <<>>)
    /\ \A S \in {Working, Canceling, Again} : ~Within("idle", <<>>, S)
    /\ \A S \in {Canceling, Again} : ~Within("begin", <<>>, S)
<1>1. DOMAIN <<>> = {} OBVIOUS
<1>2. /\ \A S \in {Working, Canceling, Again} : "idle" \notin S
      /\ \A S \in {Canceling, Again} : "begin" \notin S
  BY DEF Working, Canceling, Again
<1>3. Linked("idle", <<>>) /\ Linked("begin", <<>>) BY DEF Linked, Schedules, Cancels
<1> QED BY <1>1, <1>2, <1>3 DEF Within

LEMMA AloneInit == Init => CleanInv /\ AloneInv
<1> SUFFICES ASSUME Init PROVE CleanInv /\ AloneInv OBVIOUS
<1>1. /\ \A t \in Threads : pc[t] = "idle" /\ stack[t] = <<>>
      /\ cleanup = "Destructor" /\ cleanups = 0 /\ ~freed /\ workQ = 0 /\ again = 0
  BY DEF Init
<1>2. CleanInv BY <1>1 DEF CleanInv, Locations
<1>3. \A t \in Threads : /\ Linked(pc[t], stack[t])
                         /\ \A S \in {Working, Canceling, Again} : ~In(t, S)
  BY <1>1, IdlePlace DEF In
<1>4. OneWork BY <1>1, <1>3 DEF OneWork
<1>5. AloneInv BY <1>1, <1>3, <1>4 DEF AloneInv
<1> QED BY <1>2, <1>5

\* The thread that begins the operation is alone with it.
LEMMA BeginAlone ==
    ASSUME AloneOk, XAsyncBegin
    PROVE  CleanInv' /\ AloneInv'
<1>0. Starter \in Threads /\ RefOk /\ CleanInv /\ AloneInv BY DEF Threads, AloneOk
<1>1. /\ pc[Starter] = "idle" /\ sig = "none" /\ sig' = "ASYB" /\ Goto(Starter, "begin")
      /\ UNCHANGED <<cleanup, cleanups, freed, workQ, again>>
  BY DEF XAsyncBegin, histVars
<1>2. CleanInv' BY <1>0, <1>1 DEF CleanInv
<1>3. again = 0 /\ cleanup = "Destructor" BY <1>0, <1>1 DEF AloneInv
<1>4. workQ = 0 /\ \A t \in Threads : pc[t] = "idle"
  BY <1>0, <1>1, RefOkFacts DEF BlockInv, Fresh
<1>5. ASSUME NEW t \in Threads PROVE stack[t] = <<>>
  <2>1. Shape(pc[t], stack[t]) BY ThreadPlace
  <2> QED BY <1>4, <2>1, LevelZero DEF Level
<1>6. /\ pc'[Starter] = "begin" /\ stack' = stack
      /\ \A t \in Threads \ {Starter} : pc'[t] = "idle"
  <2>1. pc \in [Threads -> PCs] BY <1>0, ThreadPlace
  <2> QED BY <1>0, <1>1, <1>4, <2>1 DEF Goto
<1>7. \A t \in Threads : Linked(pc'[t], stack'[t]) BY <1>5, <1>6, IdlePlace
<1>8. \A t \in Threads : ~In(t, Canceling)' /\ ~In(t, Again)' BY <1>5, <1>6, IdlePlace DEF In
<1>9. \A t \in Threads \ {Starter} : ~In(t, Working)' BY <1>5, <1>6, IdlePlace DEF In
<1>10. OneWork' BY <1>1, <1>3, <1>4, <1>9 DEF OneWork
<1>11. AloneInv' BY <1>1, <1>3, <1>4, <1>7, <1>8, <1>10 DEF AloneInv
<1> QED BY <1>2, <1>11

LEMMA SameAlone ==
    ASSUME AloneOk, UNCHANGED <<pc, stack, workQ, again, cleanup, cleanups, freed, attached>>,
           sig' = sig \/ sig' # "none"
    PROVE  CleanInv' /\ AloneInv'
<1>1. CleanInv /\ AloneInv BY DEF AloneOk
<1>2. CleanInv' BY <1>1 DEF CleanInv
<1>3. \A t \in Threads : \A S : In(t, S)' <=> In(t, S) BY DEF In
<1>4. OneWork => OneWork' BY <1>3 DEF OneWork
<1>5. AloneInv' BY <1>1, <1>3, <1>4 DEF AloneInv
<1> QED BY <1>2, <1>5

LEMMA AloneNext ==
    ASSUME AloneOk, OneGetter, [Next]_vars
    PROVE  CleanInv' /\ AloneInv'
<1>0. Starter \in Threads /\ RefOk BY DEF Threads, AloneOk
<1>1. RefInv' BY <1>0, RefNext
<1>2. ASSUME NEW t \in Threads, Accounts(t), Tracks(t) PROVE CleanInv' /\ AloneInv'
  BY <1>1, <1>2, TracksClean, TracksAlone
<1>3. CASE XAsyncBegin BY <1>3, BeginAlone
<1>4. CASE XAsyncBeginFails
  BY <1>4, SameAlone DEF XAsyncBeginFails, refVars, queueVars, histVars
<1>5. CASE ProviderBegins \/ ProviderBeginFails \/ ProviderBegun
  <2>1. Accounts(Starter) BY <1>0, <1>5, PlainMovesAccount, PlainCompletesAccount
  <2>2. Tracks(Starter) BY <1>0, <1>5, ThreadTracks
  <2> QED BY <1>0, <1>2, <2>1, <2>2
<1>6. ASSUME NEW t \in Threads, ThreadStep(t) \/ MayCall(t) PROVE CleanInv' /\ AloneInv'
  BY <1>0, <1>2, <1>6, ThreadAccounts, ThreadTracks
<1>7. CASE QueueMoves BY <1>7, SameAlone, QueueMovesApart
<1>8. CASE UNCHANGED vars
  BY <1>8, SameAlone DEF vars, blockVars, refVars, queueVars, histVars
<1> QED BY <1>3, <1>4, <1>5, <1>6, <1>7, <1>8 DEF Next, QueueMoves, BeginStep

LEMMA AloneInvariant == OneGetter => (Spec => []AloneOk)
<1> SUFFICES ASSUME OneGetter PROVE Spec => []AloneOk OBVIOUS
<1>1. AloneOk /\ [Next]_vars => CleanInv' /\ AloneInv' BY AloneNext
<1>2. CtlInv /\ RefInv /\ CleanInv /\ AloneInv <=> AloneOk BY DEF AloneOk, RefOk
<1> QED BY <1>1, <1>2, AloneInit, RefInvariant, PTL DEF Spec

(* From the moment the provider's Cleanup is called nobody is in its Begin  *)
(* before the work is scheduled, its Cancel or its GetResult, whoever       *)
(* cancels, completes or collects the operation meanwhile; and nobody is in *)
(* its DoWork, unless the provider had scheduled that again.                *)
THEOREM CleanedUpAlone == OneGetter => (Spec => []CleanupAlone)
<1>1. ASSUME AloneOk PROVE CleanupAlone
  <2>0. RefOk /\ CleanInv /\ AloneInv /\ GetInv BY <1>1 DEF AloneOk, RefOk, RefInv
  <2> SUFFICES ASSUME cleanups > 0, NEW t \in Threads
               PROVE  /\ ~Inside(t, {"begin", "cancelOp", "cancelDone", "getOp"})
                      /\ again = 0 => ~Inside(t, {"doWork", "worked"})
    BY DEF CleanupAlone
  <2>1. cleanup = "CleanedUp" BY <2>0 DEF CleanInv
  <2>2. ~In(t, Canceling) /\ ~attached BY <2>0, <2>1 DEF AloneInv
  <2>3. again = 0 => ~In(t, Working) BY <2>0, <2>1 DEF AloneInv, OneWork
  <2>4. \A i \in DOMAIN stack[t] : stack[t][i] \in Backs
    <3>1. stack[t] \in Seq(Backs) BY <1>1, ThreadPlace
    <3> QED BY <3>1
  <2>5. pc[t] # "begin"
    <3>1. pc[t] = "begin" => again = 0 /\ In(t, Working)
      BY <2>0 DEF AloneInv, In, Within, Working
    <3> QED BY <2>3, <3>1
  <2>6. pc[t] # "getOp" BY <2>0, <2>2 DEF GetInv
  <2>7. ~Inside(t, {"begin", "cancelOp", "cancelDone", "getOp"})
    BY <2>2, <2>4, <2>5, <2>6 DEF Inside, In, Within, Canceling, Backs
  <2>8. again = 0 => ~Inside(t, {"doWork", "worked"})
    BY <2>3 DEF Inside, In, Within, Working
  <2> QED BY <2>7, <2>8
<1> QED BY <1>1, AloneInvariant, PTL

-----------------------------------------------------------------------------
(* The completion is over before the state goes.                           *)

\* An operation that does not hold the queue's termination back has woken its waiters.
DoneInv == held = 0 /\ (refs # 0 \/ freed) => satisfied

LEMMA DoneNext ==
    ASSUME RefOk, OneGetter, DoneInv, [Next]_vars
    PROVE  DoneInv'
<1>0. CtlInv /\ Starter \in Threads BY DEF RefOk, Threads
<1>1. ASSUME NEW t \in Threads, Accounts(t), UNCHANGED held, satisfied' = satisfied \/ satisfied'
      PROVE  DoneInv'
  <2>1. (refs' # 0 \/ freed') => (refs # 0 \/ freed) BY <1>1 DEF Accounts
  <2> QED BY <1>1, <2>1 DEF DoneInv
<1>2. ASSUME NEW t \in Threads, Accounts(t), Quiet(t) PROVE DoneInv'
  BY <1>1, <1>2 DEF Quiet, SignalVars
<1>3. CASE XAsyncBegin
  <2>1. held = 0 BY <1>0, <1>3, RefOkFacts DEF XAsyncBegin, BlockInv, Fresh
  <2>2. held' = 1 BY <1>3, <2>1 DEF XAsyncBegin, Suspension
  <2> QED BY <2>2 DEF DoneInv
<1>4. CASE ProviderBegins \/ ProviderBeginFails \/ ProviderBegun
  <2>1. Accounts(Starter) BY <1>0, <1>4, PlainMovesAccount, PlainCompletesAccount
  <2>2. UNCHANGED <<held, satisfied>>
    BY <1>4 DEF ProviderBegins, ProviderBeginFails, ProviderBegun, stateVars, queueVars
  <2> QED BY <1>0, <1>1, <2>1, <2>2
<1>5. ASSUME NEW t \in Threads, ThreadStep(t) \/ MayCall(t) PROVE DoneInv'
  <2>1. Accounts(t) BY <1>5, ThreadAccounts
  <2>2. CASE Quiet(t) BY <1>2, <2>1, <2>2
  <2>3. CASE ResumeTermination(t)
    <3>1. satisfied BY <1>0, <2>3 DEF CtlInv, TokenInv, SignalStage, ResumeTermination
    <3> QED BY <2>3, <3>1 DEF DoneInv, ResumeTermination, stateVars
  <2>4. CASE \/ XAsyncComplete(t) \/ SignalCompletion(t) \/ SignalWait(t)
             \/ CompletionCallback(t) \/ CallbackReturns(t) \/ ExtractResult(t)
    <3>1. UNCHANGED held /\ (satisfied' = satisfied \/ satisfied')
      BY <2>4 DEF XAsyncComplete, SignalCompletion, SignalWait, CompletionCallback,
         CallbackReturns, ExtractResult, stateVars, queueVars
    <3> QED BY <1>1, <2>1, <3>1
  <2> QED BY <1>0, <1>5, <2>2, <2>3, <2>4, ThreadCases
<1>6. CASE XAsyncBeginFails \/ QueueMoves \/ UNCHANGED vars
  BY <1>6, QueueMovesApart DEF DoneInv, XAsyncBeginFails, vars, refVars, stateVars, queueVars
<1> QED BY <1>3, <1>4, <1>5, <1>6 DEF Next, QueueMoves, BeginStep

LEMMA DoneInvariant == OneGetter => (Spec => []DoneInv)
<1> SUFFICES ASSUME OneGetter PROVE Spec => []DoneInv OBVIOUS
<1>1. Init => DoneInv BY DEF Init, DoneInv
<1>2. CtlInv /\ RefInv /\ DoneInv /\ [Next]_vars => DoneInv' BY DoneNext DEF RefOk
<1> QED BY <1>1, <1>2, RefInvariant, PTL DEF Spec

(* However completion, cancellation and the last release race: waiters are *)
(* woken once, the completion callback and the provider's Cleanup are      *)
(* called at most once, the queue's termination is resumed as often as it  *)
(* was suspended, and all of it has been done when the state is deleted.   *)
THEOREM CompletedOnce == OneGetter => (Spec => []CompletesOnce)
<1>1. ASSUME AloneOk, DoneInv PROVE CompletesOnce
  <2>0. RefOk /\ CleanInv /\ AloneInv /\ TokenInv /\ FreedInv /\ BlockInv
    BY <1>1 DEF AloneOk, RefOk, RefInv, CtlInv
  <2>1. signals <= 1 /\ notified <= 1 /\ held \in {0, 1} BY <2>0 DEF TokenInv
  <2>2. cleanups <= 1 BY <2>0 DEF CleanInv
  <2>3. ASSUME freed PROVE cleanups = 1 /\ satisfied /\ held = 0 /\ (hasCallback => notified = 1)
    <3>1. cleanups = 1 BY <2>0, <2>3 DEF CleanInv
    <3>2. refs = 0 /\ sig \in {"zero", "ASRB"} /\ status # "pending"
      <4>1. refs = 0 /\ ~attached /\ sig # "none" BY <2>0, <2>3 DEF FreedInv
      <4>2. sig \in {"none", "ASYB", "zero", "ASRB"} BY <2>0 DEF RefOk, CtlInv, CtlTypes
      <4> QED BY <2>0, <4>1, <4>2 DEF BlockInv
    <3>3. Starter \in Threads BY DEF Threads
    <3>4. complQ = 0 BY <2>0, <3>2, <3>3, RefOkFacts
    <3>5. ASSUME NEW t \in Threads PROVE ~Signaller(t)
      <4>1. mine[t] = 0 /\ peeked \in [Threads -> BOOLEAN] BY <2>0, <3>2, RefOkFacts
      <4>2. PICK p \in 0 .. 1 : p = One(peeked[t]) BY <4>1, OneFacts
      <4>3. ThreadOk(t) BY <2>0 DEF RefOk, RefInv
      <4>4. Fits(pc[t], stack[t], loc[t].cleaning, p, 0) BY <4>1, <4>2, <4>3 DEF ThreadOk
      <4>5. Linked(pc[t], stack[t]) BY <2>0 DEF AloneInv
      <4> QED BY <4>4, <4>5, NothingInside DEF Signaller
    <3>6. held = 0 BY <2>0, <3>2, <3>4, <3>5 DEF TokenInv
    <3>7. satisfied BY <1>1, <2>3, <3>6 DEF DoneInv
    <3>8. hasCallback => notified = 1 BY <2>0, <3>7 DEF TokenInv
    <3> QED BY <3>1, <3>6, <3>7, <3>8
  <2> QED BY <2>1, <2>2, <2>3 DEF CompletesOnce
<1> QED BY <1>1, AloneInvariant, DoneInvariant, PTL

-----------------------------------------------------------------------------
(* Types.                                                                  *)

\* What nothing above depends on.
RestTypes ==
    /\ hasCallback \in Callbacks /\ scheduled \in BOOLEAN /\ payload \in BOOLEAN
    /\ again \in 0 .. Reschedules

LEMMA RestNext ==
    ASSUME RestTypes, [Next]_vars
    PROVE  RestTypes'
<1>0. Reschedules \in Nat BY ConstantsAssumption
<1>1. ASSUME UNCHANGED <<hasCallback, scheduled, payload, again>> PROVE RestTypes'
  BY <1>1 DEF RestTypes
<1> USE <1>0 DEF RestTypes
<1>2. CASE BeginStep
  BY <1>1, <1>2 DEF BeginStep, XAsyncBegin, XAsyncBeginFails, ProviderBegins, ProviderBeginFails,
     ProviderBegun, blockVars, stateVars, histVars
<1>3. ASSUME NEW t \in Threads, ThreadStep(t) \/ MayCall(t) PROVE RestTypes'
  <2>1. CASE ReleaseState(t) \/ Peek(t)
    BY <1>1, <2>1 DEF ReleaseState, Peek, blockVars, stateVars, histVars
  <2>2. CASE ScheduleStep(t)
    BY <1>1, <2>2 DEF ScheduleStep, XAsyncSchedule, ClaimSchedule, SubmitWork, AppendWork,
       SubmitWorkFails, blockVars, stateVars, histVars
  <2>3. CASE XAsyncComplete(t)
    <3>1. UNCHANGED <<scheduled, again>> BY <2>3 DEF XAsyncComplete, histVars
    <3>2. UNCHANGED hasCallback /\ (payload' \in BOOLEAN \/ UNCHANGED payload)
      <4>1. CASE CanComplete /\ NothingToCollect(t) BY <2>3, <4>1 DEF XAsyncComplete, ExtractState
      <4>2. CASE CanComplete /\ ~NothingToCollect(t) BY <2>3, <4>2 DEF XAsyncComplete
      <4>3. CASE ~CanComplete BY <2>3, <4>3 DEF XAsyncComplete, blockVars
      <4> QED BY <4>1, <4>2, <4>3
    <3> QED BY <3>1, <3>2
  <2>4. CASE CompleteStep(t) /\ ~XAsyncComplete(t)
    BY <1>1, <2>4 DEF CompleteStep, SignalCompletion, SignalWait, ResumeTermination,
       TrySetProviderCleanup, CleanupState, blockVars, stateVars, histVars
  <2>5. CASE WorkStep(t)
    BY <1>1, <2>5 DEF WorkStep, WorkerCallback, ClearScheduled, CheckValid, CheckStatus,
       DoWorkCompletes, DoWorkReturns, DoWorkPending, CleanupAfterDoWork, blockVars, stateVars,
       histVars
  <2>6. CASE CallbackStep(t)
    BY <1>1, <2>6 DEF CallbackStep, CompletionCallback, CallbackReturns, blockVars, stateVars,
       histVars
  <2>7. CASE CancelStep(t)
    BY <1>1, <2>7 DEF CancelStep, XAsyncCancel, TryCancel, ProviderCancels, RevertProviderCleanup,
       blockVars, stateVars, histVars
  <2>8. CASE WaitStep(t)
    BY <1>1, <2>8 DEF WaitStep, XAsyncGetResultSize, XAsyncGetStatus, WaitSatisfied, FinalStatus,
       blockVars, stateVars, histVars
  <2>9. CASE GetStep(t)
    BY <1>1, <2>9 DEF GetStep, XAsyncGetResult, ProviderGetsResult, ExtractResult, ExtractState,
       blockVars, stateVars, histVars
  <2>10. CASE MayCall(t)
    BY <1>1, <2>10 DEF MayCall, CallXAsyncCancel, CallXAsyncGetResultSize, CallXAsyncGetStatus,
       CallXAsyncGetResult, DoWorkReschedules, blockVars, stateVars, histVars
  <2> QED BY <1>3, <2>1, <2>2, <2>3, <2>4, <2>5, <2>6, <2>7, <2>8, <2>9, <2>10
       DEF ThreadStep, CompleteStep
<1>4. CASE QueueMoves BY <1>1, <1>4, QueueMovesApart
<1>5. CASE UNCHANGED vars BY <1>1, <1>5 DEF vars, blockVars, stateVars, histVars
<1> QED BY <1>2, <1>3, <1>4, <1>5 DEF Next, QueueMoves

(* The variables of an operation keep their types; among them that no      *)
(* reference count falls below zero.                                       *)
THEOREM TypesOk == OneGetter => (Spec => []TypeOK)
<1>1. Init => RestTypes
  <2>1. Reschedules \in Nat BY ConstantsAssumption
  <2>2. Init => hasCallback \in Callbacks /\ ~scheduled /\ scheduled \in BOOLEAN
                 /\ payload \in BOOLEAN /\ again = 0
    BY DEF Init
  <2>3. 0 \in 0 .. Reschedules BY <2>1
  <2> QED BY <2>2, <2>3 DEF RestTypes
<1>2. RestTypes /\ [Next]_vars => RestTypes' BY RestNext
<1>3. Spec => []RestTypes BY <1>1, <1>2, PTL DEF Spec
<1>4. ASSUME AloneOk, RestTypes PROVE TypeOK
  <2>0. /\ CtlTypes /\ RefTypes /\ CleanInv /\ FreedInv /\ TokenInv /\ AloneInv
    BY <1>4 DEF AloneOk, RefOk, RefInv, CtlInv
  <2>1. Starter \in Threads BY DEF Threads
  <2>2. refs \in Nat /\ workQ \in Nat /\ complQ \in Nat /\ mine \in Bounded
        /\ peeked \in [Threads -> BOOLEAN]
    BY <1>4, <2>1, RefOkFacts DEF AloneOk
  <2>3. mine \in [Threads -> Nat] BY <2>2 DEF Bounded
  <2>4. stack \in [Threads -> Seq(PCs)]
    <3>1. Backs \subseteq PCs BY DEF Backs, PCs
    <3>2. stack \in [Threads -> Seq(Backs)] BY <2>0 DEF CtlTypes, Stacks
    <3>3. \A s \in Seq(Backs) : s \in Seq(PCs) BY <3>1
    <3> QED BY <3>2, <3>3
  <2>5. cleanups \in Nat /\ cleanup \in Locations BY <2>0 DEF CleanInv
  <2>6. held \in Nat /\ freed \in BOOLEAN /\ valid \in BOOLEAN BY <2>0 DEF TokenInv, FreedInv
  <2>7. {attached, freed, scheduled, valid, payload, satisfied} \subseteq BOOLEAN
    BY <1>4, <2>0, <2>6 DEF CtlTypes, RestTypes
  <2>8. {refs, workQ, complQ, cleanups, notified, signals, held} \subseteq Nat
    BY <2>0, <2>2, <2>5, <2>6 DEF CtlTypes
  <2> QED BY <1>4, <2>0, <2>2, <2>3, <2>4, <2>5, <2>7, <2>8 DEF TypeOK, CtlTypes, RestTypes
<1> QED BY <1>3, <1>4, AloneInvariant, PTL
=============================================================================
