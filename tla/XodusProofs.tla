----------------------------- MODULE XodusProofs -----------------------------
(* Proofs about XodusIPC and the AsyncInfo objects it uses, for any number *)
(* of calls, any buffer that holds a frame and any number of faults.       *)
EXTENDS XodusIPC, FiniteSetTheorems, WellFoundedInduction, TLAPS

(* A handler is in one of three hands: the operation's, that of the pool   *)
(* thread about to invoke it, or nobody's any more.  The last conjunct ties*)
(* the operation to the request it stands for: it completes only once.     *)
OpInv(o) ==
    /\ handler[o] \in {"unset", "set"} => invokes[o] = 0 /\ o \notin invoking
    /\ o \in invoking => invokes[o] = 0 /\ status[o] # "Started"
    /\ invokes[o] \in {0, 1} /\ (invokes[o] = 1 => status[o] # "Started")
    /\ status[o] = "none" <=> req[o] = "idle"
    /\ status[o] = "none" => invokes[o] = 0 /\ o \notin invoking
    /\ req[o] \notin {"idle", "done"} => status[o] \in {"Started", "Canceled", "Closed"}

OpsInv == \A o \in Ops : OpInv(o)

ReqStates == {"idle", "queued", "link", "send", "rest", "wait", "unlink",
              "unlinkLate", "respond", "timeout", "done"}

OpTypes == InfoTypeOK /\ req \in [Calls -> ReqStates]

\* The steps of the connection and of the pump's failures, and all that they change.
Around == Disconnect \/ Stall \/ ServiceReads \/ PollFails \/ ParseFails

LEMMA AroundChanges ==
    Around => /\ UNCHANGED <<infoVars, reqVars, listVars, asked, deaf, stream, due, buffer, offset,
                             cursor, frame, inOrder, handed, stray, unsent>>
              /\ closed' \in {closed, TRUE} /\ full' \in {full, TRUE, FALSE}
              /\ faults' = faults \/ Unusual
              /\ \/ UNCHANGED <<pump, broken>>
                 \/ UNCHANGED closed /\ pump' = "stopped" /\ broken' = TRUE
BY DEF Around, Disconnect, Stall, ServiceReads, PollFails, ParseFails, PumpBreaks, pumpVars, Unusual

LEMMA InitOps == Init => OpTypes /\ OpsInv
BY XodusAssumption DEF Init, InfoInit, OpTypes, InfoTypeOK, ReqStates, OpsInv, OpInv

\* Steps of the operations, and steps that leave them alone.
LEMMA OpSteps ==
    ASSUME OpTypes, OpsInv, [Next]_vars
    PROVE  OpTypes' /\ OpsInv'
<1> USE XodusAssumption DEF OpTypes
<1>1. CASE UNCHANGED <<infoVars, req>>
  BY <1>1 DEF infoVars, InfoTypeOK, OpsInv, OpInv
<1>2. ASSUME NEW c \in Calls,
             UNCHANGED infoVars,
             req' = [req EXCEPT ![c] = req'[c]], req'[c] \in ReqStates \ {"idle", "done"},
             req[c] \notin {"idle", "done"}
      PROVE  OpTypes' /\ OpsInv'
  BY <1>2 DEF infoVars, InfoTypeOK, OpsInv, OpInv
<1>3. ASSUME NEW c \in Calls, NEW out \in {"ok", "failed"}, Complete(c, out),
             req' = [req EXCEPT ![c] = "done"], req[c] \notin {"idle", "done"}
      PROVE  OpTypes' /\ OpsInv'
  <2>1. InfoTypeOK' BY <1>3 DEF Complete, FinalStatus, InfoTypeOK
  <2>2. req' \in [Calls -> ReqStates] BY <1>3 DEF ReqStates
  <2>3. ASSUME NEW o \in Ops PROVE OpInv(o)'
    BY <1>3 DEF Complete, FinalStatus, InfoTypeOK, OpsInv, OpInv
  <2> QED BY <2>1, <2>2, <2>3 DEF OpsInv
<1>4. ASSUME NEW c \in Calls, UNCHANGED req, PutCompleted(c)
      PROVE  OpTypes' /\ OpsInv'
  <2>0. event' \in [Ops -> BOOLEAN]
    BY <1>4 DEF PutCompleted, InvokeHandler, InfoTypeOK
  <2>1. InfoTypeOK' BY <1>4, <2>0 DEF PutCompleted, InvokeHandler, HandlerAfter, InfoTypeOK
  <2>3. ASSUME NEW o \in Ops PROVE OpInv(o)'
    BY <1>4 DEF PutCompleted, InvokeHandler, HandlerAfter, OverAlready, InfoTypeOK, OpsInv, OpInv
  <2> QED BY <1>4, <2>1, <2>3 DEF OpsInv
<1>5. ASSUME NEW c \in Calls, UNCHANGED req,
             \/ AwaitWakes(c) \/ AwaitTimesOut(c) \/ Cancel(c) \/ Close(c)
             \/ CallbackInvokes(c)
      PROVE  OpTypes' /\ OpsInv'
  <2>0. event' \in [Ops -> BOOLEAN]
    BY <1>5 DEF AwaitWakes, AwaitTimesOut, Cancel, Close, CallbackInvokes, InvokeHandler, InfoTypeOK
  <2>1. InfoTypeOK'
    BY <1>5, <2>0 DEF AwaitWakes, AwaitTimesOut, Cancel, Close, CallbackInvokes, InvokeHandler, InfoTypeOK
  <2>3. ASSUME NEW o \in Ops PROVE OpInv(o)'
    BY <1>5 DEF AwaitWakes, AwaitTimesOut, Cancel, Close, CallbackInvokes, InvokeHandler,
       InfoTypeOK, OpsInv, OpInv
  <2> QED BY <1>5, <2>1, <2>3 DEF OpsInv
<1>6. ASSUME NEW c \in Calls, Call(c) PROVE OpTypes' /\ OpsInv'
  <2>1. InfoTypeOK' BY <1>6 DEF Call, Create, InfoTypeOK
  <2>2. req' \in [Calls -> ReqStates] BY <1>6 DEF Call, SetReq, ReqStates
  <2>3. ASSUME NEW o \in Ops PROVE OpInv(o)'
    BY <1>6 DEF Call, Create, SetReq, InfoTypeOK, OpsInv, OpInv
  <2> QED BY <2>1, <2>2, <2>3 DEF OpsInv
<1>7. ASSUME NEW c \in Calls, SendRequest(c) PROVE OpTypes' /\ OpsInv'
  <2>1. CASE WriteFails(c)
    BY <2>1, <1>3 DEF WriteFails, SetReq
  <2>2. CASE RequestReturns(c)
    BY <2>2, <1>3 DEF RequestReturns, SetReq
  <2>3. CASE ~(WriteFails(c) \/ RequestReturns(c))
    <3>1. /\ UNCHANGED infoVars /\ req[c] \notin {"idle", "done"}
          /\ \E p \in ReqStates \ {"idle", "done"} : SetReq(c, p)
      BY <1>7, <2>3 DEF SendRequest, AddReads, AddWrites, Write, WriteRest, RemoveReads,
         RemoveWrites, RemoveFails, ReqStates
    <3> QED BY <3>1, <1>2 DEF SetReq
  <2> QED BY <2>1, <2>2, <2>3
<1>8. ASSUME NEW c \in Calls, Await(c) \/ HandlerInvoked(c) \/ CloseCall(c) \/ GivesUp(c)
      PROVE  OpTypes' /\ OpsInv'
  BY <1>8, <1>4, <1>5 DEF Await, HandlerInvoked, CloseCall, GivesUp, reqVars
<1>9. ASSUME \/ Pump \/ Around \/ (\E c \in Calls : Answer(c))
             \/ (\E k \in {"ping", "echo", "proto"} : SendUnasked(k)) \/ UNCHANGED vars
      PROVE  UNCHANGED <<infoVars, req>>
  <2>1. CASE Around BY <2>1, AroundChanges DEF reqVars
  <2> QED BY <1>9, <2>1 DEF Pump, Read, ReadFails, Parse, ParseEnds, Invoke, Advance, Answer,
     SendUnasked, reqVars, vars
<1> QED BY <1>1, <1>6, <1>7, <1>8, <1>9 DEF Next, System, External, Around

LEMMA OpsInvariant == Spec => [](OpTypes /\ OpsInv)
<1>1. ASSUME OpTypes /\ OpsInv, [Next]_vars PROVE (OpTypes /\ OpsInv)' BY <1>1, OpSteps
<1> QED BY <1>1, InitOps, PTL DEF Spec

(* The completed handler of a call is invoked at most once, and never      *)
(* before the operation has left Started: put_Completed and the callback's *)
(* completion each look at the other's mark under the mutex, and           *)
(* async_info_callback takes the handler away before it invokes it.        *)
THEOREM HandlerOnce == Spec => []InvokedOnce
<1>1. ASSUME OpsInv PROVE InvokedOnce
  <2>1. \A o \in Ops : invokes[o] \in {0, 1} /\ (invokes[o] = 1 => status[o] # "Started")
    BY <1>1 DEF OpsInv, OpInv
  <2>2. \A n \in {0, 1} : n <= 1 OBVIOUS
  <2> QED BY <2>1, <2>2 DEF InvokedOnce
<1> QED BY <1>1, OpsInvariant, PTL

(* A call that is over stays over: a completion overwrites a cancellation, *)
(* and nothing but Close overwrites a completion.  This needs that the     *)
(* pool's callback runs once per call (OpInv).                             *)
THEOREM OverIsOver == Spec => OverStaysOver
<1> DEFINE Stays == \A o \in Ops :
         /\ status[o] = "Canceled" => status'[o] # "Started"
         /\ status[o] \in {"Completed", "Error"} => status'[o] \in {status[o], "Closed"}
         /\ status[o] = "Closed" => status'[o] = "Closed"
<1>1. ASSUME OpTypes /\ OpsInv, [Next]_vars PROVE [Stays]_status
  <2> USE XodusAssumption
  <2>1. CASE status' = status BY <2>1
  <2>2. ASSUME NEW c \in Calls, NEW out, Complete(c, out), req[c] \notin {"idle", "done"}
        PROVE  Stays
    <3>1. status[c] \in {"Started", "Canceled", "Closed"} BY <1>1, <2>2 DEF OpsInv, OpInv
    <3>2. status' = [status EXCEPT ![c] = FinalStatus(c, out)] BY <2>2 DEF Complete
    <3> QED BY <1>1, <3>1, <3>2 DEF FinalStatus, OpTypes, InfoTypeOK
  <2>3. ASSUME NEW c \in Calls, Create(c) \/ Cancel(c) \/ Close(c) PROVE Stays
    BY <1>1, <2>3 DEF Create, Cancel, Close, OpTypes, InfoTypeOK
  <2>4. ASSUME NEW c \in Calls, SendRequest(c) PROVE [Stays]_status
    <3>1. CASE WriteFails(c) \/ RequestReturns(c)
      <4>1. (\E out : Complete(c, out)) /\ req[c] \notin {"idle", "done"}
        BY <3>1 DEF WriteFails, RequestReturns
      <4> QED BY <4>1, <2>2
    <3>2. CASE ~(WriteFails(c) \/ RequestReturns(c))
      <4>1. status' = status
        BY <2>4, <3>2 DEF SendRequest, AddReads, AddWrites, Write, WriteRest, RemoveReads,
           RemoveWrites, RemoveFails, infoVars
      <4> QED BY <4>1, <2>1
    <3> QED BY <3>1, <3>2
  <2>5. ASSUME NEW c \in Calls, Call(c) \/ CloseCall(c) \/ GivesUp(c) PROVE [Stays]_status
    <3>1. Create(c) \/ Cancel(c) \/ Close(c) \/ status' = status
      BY <2>5 DEF Call, CloseCall, GivesUp, AwaitTimesOut
    <3> QED BY <3>1, <2>1, <2>3
  <2>6. ASSUME \/ Pump \/ Around \/ (\E c \in Calls : Answer(c) \/ Await(c) \/ HandlerInvoked(c))
               \/ (\E k \in {"ping", "echo", "proto"} : SendUnasked(k)) \/ UNCHANGED vars
        PROVE  status' = status
    <3>1. CASE Around BY <3>1, AroundChanges DEF infoVars
    <3> QED BY <2>6, <3>1 DEF Pump, Read, ReadFails, Parse, ParseEnds, Invoke, Advance, Answer,
       SendUnasked, Await, HandlerInvoked, PutCompleted, AwaitWakes, CallbackInvokes, vars, infoVars
  <2> QED BY <1>1, <2>1, <2>4, <2>5, <2>6 DEF Next, System, External, Around
<1> QED BY <1>1, OpsInvariant, PTL DEF Spec, OverStaysOver

-----------------------------------------------------------------------------
(* The byte stream.  What is in the buffer past the offset, followed by    *)
(* what is in the socket, is the frames due, one after the other: there are*)
(* cuts, one per frame, such that each frame's units lie between its cuts. *)

HeadOf(f) == [f |-> f, part |-> "head"]
BodyOf(f) == [f |-> f, part |-> "body"]
Unit == [f : Frames, part : {"head", "body"}]

InHand == Len(buffer) - offset
Total  == InHand + Len(stream)

\* The kth unit that the pump has not parsed.
Ahead(k) == IF k <= InHand THEN buffer[offset + k] ELSE stream[k - InHand]

Cuts(pos) ==
    /\ pos \in [0 .. Len(due) -> 0 .. Total]
    /\ pos[0] = 0 /\ pos[Len(due)] = Total
    /\ \A i, j \in 0 .. Len(due) : i <= j => pos[i] <= pos[j]
    /\ \A i \in 1 .. Len(due) : /\ pos[i] = pos[i - 1] + Len(Units(due[i]))
                                /\ Ahead(pos[i - 1] + 1) = HeadOf(due[i])

StreamTypes ==
    /\ kind \in [Calls -> Kinds]
    /\ stream \in Seq(Unit) /\ buffer \in Seq(Unit) /\ due \in Seq(Frames)
    /\ offset \in Nat /\ offset <= Len(buffer) /\ Len(buffer) <= Cap

StreamInv ==
    /\ \E pos : Cuts(pos)
    /\ pump = "poll" \/ (pump = "stopped" /\ ~broken) => offset = 0
    /\ FramesInOrder

LEMMA UnitsFacts ==
    ASSUME NEW f \in Frames
    PROVE  /\ Units(f) \in Seq(Unit) /\ Len(Units(f)) \in {1, 2} /\ Units(f) # <<>>
           /\ Units(f)[1] = HeadOf(f)
<1>1. HeadOf(f) \in Unit /\ BodyOf(f) \in Unit BY DEF HeadOf, BodyOf, Unit
<1>2. Units(f) = <<HeadOf(f)>> \/ Units(f) = <<HeadOf(f), BodyOf(f)>>
  BY DEF Units, HeadOf, BodyOf
<1> DEFINE h == HeadOf(f)
           b == BodyOf(f)
<1> HIDE DEF h, b
<1>3. <<h>> \in Seq(Unit) /\ Len(<<h>>) = 1 /\ <<h>>[1] = h BY <1>1 DEF h
<1>4. <<h, b>> \in Seq(Unit) /\ Len(<<h, b>>) = 2 /\ <<h, b>>[1] = h BY <1>1 DEF h, b
<1>5. CASE Units(f) = <<h>> BY <1>3, <1>5 DEF h
<1>6. CASE Units(f) = <<h, b>> BY <1>4, <1>6 DEF h
<1> QED BY <1>2, <1>5, <1>6 DEF h, b

LEMMA InitStream == Init => StreamTypes /\ StreamInv
<1> SUFFICES ASSUME Init PROVE StreamTypes /\ StreamInv OBVIOUS
<1>0. /\ kind \in [Calls -> Kinds] /\ stream = <<>> /\ buffer = <<>> /\ due = <<>>
      /\ offset = 0 /\ pump = "poll" /\ inOrder = TRUE
  BY DEF Init
<1>1. StreamTypes BY <1>0, XodusAssumption DEF StreamTypes
<1>2. Cuts([i \in {0} |-> 0])
  <2>1. Len(due) = 0 /\ Total = 0 BY <1>0 DEF Total, InHand
  <2> QED BY <2>1 DEF Cuts
<1>3. FramesInOrder BY <1>0 DEF FramesInOrder
<1> QED BY <1>0, <1>1, <1>2, <1>3 DEF StreamInv

\* A frame arrives at the far end of the stream.
LEMMA TransmitStep ==
    ASSUME StreamTypes, StreamInv, NEW f \in Frames, Transmit(f),
           UNCHANGED <<kind, buffer, offset, pump, broken, inOrder, closed>>
    PROVE  StreamTypes' /\ StreamInv'
<1> DEFINE n == Len(due)
           s == Len(Units(f))
<1>0. /\ stream \in Seq(Unit) /\ buffer \in Seq(Unit) /\ due \in Seq(Frames)
      /\ offset \in Nat /\ offset <= Len(buffer) /\ n \in Nat /\ Len(stream) \in Nat
      /\ Len(buffer) \in Nat
  BY DEF StreamTypes
<1>f. Units(f) \in Seq(Unit) /\ s \in {1, 2} /\ Units(f)[1] = HeadOf(f) BY UnitsFacts
<1>1. /\ stream' = stream \o Units(f) /\ due' = Append(due, f) BY DEF Transmit
<1>2. /\ stream' \in Seq(Unit) /\ Len(stream') = Len(stream) + s
      /\ \A k \in 1 .. Len(stream) : stream'[k] = stream[k]
      /\ stream'[Len(stream) + 1] = HeadOf(f)
  BY <1>0, <1>1, <1>f
<1>3. /\ due' \in Seq(Frames) /\ Len(due') = n + 1
      /\ \A k \in 1 .. n : due'[k] = due[k]
      /\ due'[n + 1] = f
  BY <1>0, <1>1
<1>4. StreamTypes' BY <1>2, <1>3 DEF StreamTypes
<1> HIDE DEF n, s
<1>5. /\ InHand' = InHand /\ Total' = Total + s /\ InHand \in Nat /\ Total \in Nat
      /\ offset + InHand = Len(buffer) /\ Total = InHand + Len(stream)
  <2>1. buffer' = buffer /\ offset' = offset OBVIOUS
  <2>2. InHand' = InHand /\ InHand \in Nat /\ offset + InHand = Len(buffer)
    BY <1>0, <2>1 DEF InHand
  <2> QED BY <1>0, <1>2, <1>f, <2>2 DEF Total
<1>6. /\ \A k \in 1 .. Total : Ahead(k)' = Ahead(k)
      /\ \A k : k = Total + 1 => Ahead(k)' = HeadOf(f)
  <2>1. buffer' = buffer /\ offset' = offset OBVIOUS
  <2>2. ASSUME NEW k \in 1 .. Total PROVE Ahead(k)' = Ahead(k)
    <3>1. CASE k <= InHand BY <3>1, <2>1, <1>5 DEF Ahead
    <3>2. CASE ~(k <= InHand)
      <4>1. k - InHand \in 1 .. Len(stream) BY <3>2, <1>5, <1>0
      <4> QED BY <3>2, <4>1, <1>2, <1>5 DEF Ahead
    <3> QED BY <3>1, <3>2
  <2>3. ASSUME NEW k, k = Total + 1 PROVE Ahead(k)' = HeadOf(f)
    <3>1. ~(k <= InHand) /\ k - InHand = Len(stream) + 1 BY <2>3, <1>5, <1>0
    <3> QED BY <3>1, <1>2, <1>5 DEF Ahead
  <2> QED BY <2>2, <2>3
<1>7. PICK pos : Cuts(pos) BY DEF StreamInv
<1>8. \E q : Cuts(q)'
  <2>1. /\ \A i \in 0 .. n : pos[i] \in 0 .. Total
        /\ pos[0] = 0 /\ pos[n] = Total
        /\ \A i, j \in 0 .. n : i <= j => pos[i] <= pos[j]
        /\ \A i \in 1 .. n : /\ pos[i] = pos[i - 1] + Len(Units(due[i]))
                             /\ Ahead(pos[i - 1] + 1) = HeadOf(due[i])
    BY <1>7 DEF Cuts, n
  <2>q. PICK q : q = [i \in 0 .. n + 1 |-> IF i = n + 1 THEN Total + s ELSE pos[i]] OBVIOUS
  <2>n. n \in Nat /\ s \in {1, 2} /\ Total \in Nat BY <1>0, <1>f, <1>5
  <2>v. (\A i \in 0 .. n : q[i] = pos[i]) /\ q[n + 1] = Total + s BY <2>q, <2>n
  <2>2. q \in [0 .. n + 1 -> 0 .. Total + s] BY <2>q, <2>n, <2>1
  <2>3. q[0] = 0 /\ q[n + 1] = Total + s BY <2>n, <2>v, <2>1
  <2>4. ASSUME NEW i \in 0 .. n + 1, NEW j \in 0 .. n + 1, i <= j PROVE q[i] <= q[j]
    <3>1. CASE j = n + 1 /\ i # n + 1
      <4>1. i \in 0 .. n /\ pos[i] \in 0 .. Total /\ q[i] = pos[i] /\ q[j] = Total + s
        BY <2>n, <2>v, <2>1, <3>1
      <4> QED BY <4>1, <2>n
    <3>2. CASE j = n + 1 /\ i = n + 1 BY <2>n, <2>v, <3>2
    <3>3. CASE j # n + 1
      <4>1. i \in 0 .. n /\ j \in 0 .. n BY <2>n, <2>4, <3>3
      <4> QED BY <4>1, <2>4, <2>v, <2>1
    <3> QED BY <3>1, <3>2, <3>3
  <2>5. ASSUME NEW i \in 1 .. n + 1
        PROVE  q[i] = q[i - 1] + Len(Units(due'[i])) /\ Ahead(q[i - 1] + 1)' = HeadOf(due'[i])
    <3>1. CASE i = n + 1
      <4>0. i - 1 = n /\ n \in 0 .. n BY <2>n, <3>1
      <4>1. q[i] = Total + s /\ q[i - 1] = Total /\ due'[i] = f
        BY <2>v, <1>3, <2>1, <3>1, <4>0
      <4> QED BY <4>1, <1>6 DEF s
    <3>2. CASE i # n + 1
      <4>1. i \in 1 .. n /\ i - 1 \in 0 .. n BY <2>n, <3>2
      <4>2. q[i] = pos[i] /\ q[i - 1] = pos[i - 1] /\ due'[i] = due[i]
        BY <2>v, <2>n, <1>3, <4>1
      <4>3. Len(Units(due[i])) \in {1, 2}
        <5>1. due[i] \in Frames BY <1>0, <4>1 DEF n
        <5> QED BY <5>1, UnitsFacts
      <4>4. pos[i - 1] + 1 \in 1 .. Total
        <5>1. pos[i - 1] \in 0 .. Total /\ pos[i] \in 0 .. Total
              /\ pos[i] = pos[i - 1] + Len(Units(due[i]))
          BY <2>1, <4>1
        <5>2. \A m \in Nat : \A a, b \in 0 .. m, d \in {1, 2} : b = a + d => a + 1 \in 1 .. m
          OBVIOUS
        <5> QED BY <2>n, <5>1, <5>2, <4>3
      <4> QED BY <2>1, <4>1, <4>2, <4>4, <1>6
    <3> QED BY <3>1, <3>2
  <2> QED BY <2>2, <2>3, <2>4, <2>5, <1>3, <1>5 DEF Cuts
<1>9. FramesInOrder'
  <2>1. CASE n = 0
    <3>1. Total = 0 BY <1>7, <2>1 DEF Cuts, n
    <3>2. Len(buffer) = offset BY <3>1, <1>0 DEF Total, InHand
    <3>3. due'[1] = f BY <1>3, <2>1
    <3>4. due = <<>> BY <2>1, <1>0 DEF n
    <3>5. pump = "stopped" /\ ~broken => closed BY <3>4 DEF StreamInv, FramesInOrder
    <3>6. pump \in {"poll", "stopped"} /\ ~broken => Len(buffer) = 0 BY <3>2, <1>0 DEF StreamInv
    <3>7. 0 < Len(Units(f)) BY <1>f DEF s
    <3> QED BY <3>3, <3>5, <3>6, <3>7 DEF FramesInOrder, StreamInv
  <2>2. CASE n # 0
    <3>1. due # <<>> /\ due'[1] = due[1] /\ \A k \in DOMAIN due : k \in DOMAIN due' /\ due'[k] = due[k]
      BY <1>0, <1>3, <2>2 DEF n
    <3> QED BY <3>1 DEF StreamInv, FramesInOrder
  <2> QED BY <2>1, <2>2
<1> QED BY <1>4, <1>8, <1>9 DEF StreamInv

\* The cuts depend on nothing but the frames due and the units ahead.
LEMMA SameCuts ==
    ASSUME UNCHANGED due, Total' = Total, Total \in Nat, due \in Seq(Frames),
           \A k \in 1 .. Total : Ahead(k)' = Ahead(k),
           \E pos : Cuts(pos)
    PROVE  \E pos : Cuts(pos)'
<1>1. PICK pos : Cuts(pos) OBVIOUS
<1>2. ASSUME NEW i \in 1 .. Len(due)
      PROVE  Ahead(pos[i - 1] + 1)' = HeadOf(due[i])
  <2>1. Len(Units(due[i])) \in {1, 2} BY UnitsFacts
  <2>2. i \in 0 .. Len(due) /\ i - 1 \in 0 .. Len(due) BY <1>2
  <2>3. /\ pos[i - 1] \in 0 .. Total /\ pos[i] \in 0 .. Total
        /\ pos[i] = pos[i - 1] + Len(Units(due[i]))
        /\ Ahead(pos[i - 1] + 1) = HeadOf(due[i])
    BY <1>1, <2>2 DEF Cuts
  <2>4. \A m \in Nat : \A a, b \in 0 .. m, d \in {1, 2} : b = a + d => a + 1 \in 1 .. m OBVIOUS
  <2>5. pos[i - 1] + 1 \in 1 .. Total BY <2>1, <2>3, <2>4
  <2> QED BY <2>3, <2>5
<1> QED BY <1>1, <1>2 DEF Cuts

\* The first frame due is the one at the front, if there is anything ahead.
LEMMA FrontFrame ==
    ASSUME StreamTypes, StreamInv, Total # 0
    PROVE  due # <<>> /\ Ahead(1) = HeadOf(due[1])
<1>1. PICK pos : Cuts(pos) BY DEF StreamInv
<1>2. Len(due) \in Nat /\ Len(due) # 0 BY <1>1 DEF Cuts, StreamTypes
<1> QED BY <1>1, <1>2 DEF Cuts, StreamTypes

LEMMA DropFacts ==
    ASSUME NEW S, NEW s \in Seq(S), NEW n \in Nat, n <= Len(s)
    PROVE  /\ SubSeq(s, n + 1, Len(s)) \in Seq(S)
           /\ Len(SubSeq(s, n + 1, Len(s))) = Len(s) - n
           /\ \A k \in 1 .. Len(s) - n : SubSeq(s, n + 1, Len(s))[k] = s[n + k]
OBVIOUS

\* A read moves units from the socket into the buffer.
LEMMA ReadStep ==
    ASSUME StreamTypes, StreamInv, Read
    PROVE  StreamTypes' /\ StreamInv'
<1>0. /\ stream \in Seq(Unit) /\ buffer \in Seq(Unit) /\ due \in Seq(Frames)
      /\ offset = 0 /\ Len(buffer) <= Cap /\ Cap \in Nat
      /\ Len(stream) \in Nat /\ Len(buffer) \in Nat /\ UNCHANGED <<due, kind, broken, inOrder, closed>>
      /\ offset' = 0 /\ pump' = "parse" /\ pump = "poll"
  BY XodusAssumption DEF StreamTypes, StreamInv, Read, reqVars
<1>1. PICK n \in 1 .. Room :
         /\ n <= Len(stream)
         /\ buffer' = buffer \o SubSeq(stream, 1, n)
         /\ stream' = SubSeq(stream, n + 1, Len(stream))
  BY DEF Read
<1>2. n \in Nat /\ n >= 1 /\ n <= Cap - Len(buffer) /\ n <= Len(stream)
  BY <1>0, <1>1 DEF Room
<1>3. /\ SubSeq(stream, 1, n) \in Seq(Unit) /\ Len(SubSeq(stream, 1, n)) = n
      /\ \A k \in 1 .. n : SubSeq(stream, 1, n)[k] = stream[k]
  BY <1>0, <1>1, <1>2
<1>4. /\ buffer' \in Seq(Unit) /\ Len(buffer') = Len(buffer) + n
      /\ \A k \in 1 .. Len(buffer) : buffer'[k] = buffer[k]
      /\ \A k \in 1 .. n : buffer'[Len(buffer) + k] = stream[k]
  BY <1>0, <1>1, <1>3
<1>5. /\ stream' \in Seq(Unit) /\ Len(stream') = Len(stream) - n
      /\ \A k \in 1 .. Len(stream) - n : stream'[k] = stream[n + k]
  BY <1>0, <1>1, <1>2, DropFacts
<1>6. StreamTypes' BY <1>0, <1>2, <1>4, <1>5 DEF StreamTypes
<1>7. /\ InHand = Len(buffer) /\ InHand' = Len(buffer) + n
      /\ Total' = Total /\ Total \in Nat /\ Total = Len(buffer) + Len(stream)
  BY <1>0, <1>2, <1>4, <1>5 DEF InHand, Total
<1>8. ASSUME NEW k \in 1 .. Total PROVE Ahead(k)' = Ahead(k)
  <2>1. CASE k <= Len(buffer)
    <3>1. k \in 1 .. Len(buffer) /\ k <= InHand /\ k <= InHand' /\ 0 + k = k
      BY <2>1, <1>0, <1>2, <1>7
    <3> QED BY <3>1, <1>0, <1>4 DEF Ahead
  <2>2. CASE k > Len(buffer) /\ k <= Len(buffer) + n
    <3>1. /\ k - Len(buffer) \in 1 .. n /\ Len(buffer) + (k - Len(buffer)) = k /\ 0 + k = k
          /\ ~(k <= InHand) /\ k <= InHand'
      BY <2>2, <1>0, <1>2, <1>7
    <3>2. Ahead(k)' = buffer'[k] BY <3>1, <1>0 DEF Ahead
    <3>3. Ahead(k) = stream[k - Len(buffer)] BY <3>1, <1>7 DEF Ahead
    <3>4. buffer'[Len(buffer) + (k - Len(buffer))] = stream[k - Len(buffer)] BY <3>1, <1>4
    <3> QED BY <3>1, <3>2, <3>3, <3>4
  <2>3. CASE k > Len(buffer) + n
    <3>1. /\ k - (Len(buffer) + n) \in 1 .. Len(stream) - n
          /\ n + (k - (Len(buffer) + n)) = k - Len(buffer)
          /\ ~(k <= InHand) /\ ~(k <= InHand')
      BY <2>3, <1>0, <1>2, <1>7
    <3>2. Ahead(k)' = stream'[k - (Len(buffer) + n)] BY <3>1, <1>7 DEF Ahead
    <3>3. Ahead(k) = stream[k - Len(buffer)] BY <3>1, <1>7 DEF Ahead
    <3> QED BY <3>1, <3>2, <3>3, <1>5
  <2> QED BY <2>1, <2>2, <2>3, <1>0, <1>2
<1>9. \E pos : Cuts(pos)' BY <1>0, <1>7, <1>8, SameCuts DEF StreamInv
<1>10. FramesInOrder' BY <1>0 DEF StreamInv, FramesInOrder
<1> QED BY <1>0, <1>6, <1>9, <1>10 DEF StreamInv

\* What is left of the buffer past the offset.
LEMMA RestFacts ==
    ASSUME StreamTypes
    PROVE  /\ Rest \in Seq(Unit) /\ Len(Rest) = InHand /\ InHand \in Nat
           /\ offset + InHand = Len(buffer)
           /\ \A k \in 1 .. InHand : Rest[k] = buffer[offset + k] /\ Rest[k] = Ahead(k)
<1>0. buffer \in Seq(Unit) /\ offset \in Nat /\ offset <= Len(buffer) BY DEF StreamTypes
<1>1. InHand \in Nat /\ offset + InHand = Len(buffer) BY <1>0 DEF InHand
<1>2. /\ Rest \in Seq(Unit) /\ Len(Rest) = Len(buffer) - offset
      /\ \A k \in 1 .. Len(buffer) - offset : Rest[k] = buffer[offset + k]
  BY <1>0, DropFacts DEF Rest
<1>3. /\ Rest \in Seq(Unit) /\ Len(Rest) = InHand
      /\ \A k \in 1 .. InHand : Rest[k] = buffer[offset + k]
  BY <1>2 DEF InHand
<1> QED BY <1>1, <1>3 DEF Ahead

LEMMA ParseEndsStep ==
    ASSUME StreamTypes, StreamInv, ParseEnds
    PROVE  StreamTypes' /\ StreamInv'
<1>0. /\ UNCHANGED <<kind, stream, due, broken, inOrder, closed>> /\ buffer' = Rest /\ offset' = 0
      /\ pump' = "poll" /\ ~Whole /\ pump = "parse"
      /\ stream \in Seq(Unit) /\ Len(stream) \in Nat /\ due \in Seq(Frames)
      /\ Len(buffer) <= Cap /\ Cap \in Nat /\ offset \in Nat
  BY XodusAssumption DEF ParseEnds, Remaining, reqVars, sockVars, StreamTypes
<1>r. /\ Rest \in Seq(Unit) /\ Len(Rest) = InHand /\ InHand \in Nat
      /\ offset + InHand = Len(buffer)
      /\ \A k \in 1 .. InHand : Rest[k] = Ahead(k)
  BY RestFacts
<1>1. StreamTypes' BY <1>0, <1>r DEF StreamTypes
<1>2. InHand' = InHand /\ Total' = Total /\ Total \in Nat /\ Total = InHand + Len(stream)
  BY <1>0, <1>r DEF InHand, Total
<1>3. ASSUME NEW k \in 1 .. Total PROVE Ahead(k)' = Ahead(k)
  <2>1. CASE k <= InHand
    <3>1. k \in 1 .. InHand /\ 0 + k = k BY <2>1, <1>r, <1>2
    <3>2. Ahead(k)' = Rest[k] BY <3>1, <1>0, <1>2 DEF Ahead
    <3> QED BY <3>1, <3>2, <1>r
  <2>2. CASE ~(k <= InHand) BY <2>2, <1>0, <1>2 DEF Ahead
  <2> QED BY <2>1, <2>2
<1>4. \E pos : Cuts(pos)' BY <1>0, <1>2, <1>3, SameCuts DEF StreamInv
<1>5. FramesInOrder'
  <2> SUFFICES ASSUME due # <<>>
               PROVE  due[1].kind = "proto" \/ Len(Rest) < Len(Units(due[1]))
    BY <1>0 DEF FramesInOrder, StreamInv
  <2>1. due[1] \in Frames BY <1>0
  <2>2. Len(Units(due[1])) \in {1, 2} BY <2>1, UnitsFacts
  <2>3. CASE InHand = 0 BY <2>2, <2>3, <1>r
  <2>4. CASE InHand # 0
    <3>1. Rest[1] = HeadOf(due[1])
      <4>1. Total # 0 BY <2>4, <1>0, <1>r, <1>2
      <4> QED BY <4>1, <1>r, <2>4, FrontFrame
    <3>2. Rest # <<>> /\ Rest[1].part = "head" /\ Rest[1].f = due[1]
      BY <3>1, <2>4, <1>r DEF HeadOf
    <3>3. due[1].kind = "proto" \/ ~(Len(Rest) >= Len(Units(due[1])))
      BY <3>2, <1>0 DEF Whole
    <3> QED BY <3>3, <2>2, <1>r
  <2> QED BY <2>3, <2>4
<1> QED BY <1>0, <1>1, <1>4, <1>5 DEF StreamInv

\* A frame is dispatched: it is the first of those due.
LEMMA ParseFront ==
    ASSUME StreamTypes, StreamInv, Parse
    PROVE  /\ due # <<>> /\ frame' = due[1] /\ due' = Tail(due)
           /\ offset' = offset + Len(Units(due[1]))
           /\ Len(Units(due[1])) <= InHand
<1>r. /\ Len(Rest) = InHand /\ InHand \in Nat /\ Rest \in Seq(Unit)
      /\ \A k \in 1 .. InHand : Rest[k] = Ahead(k)
  BY RestFacts
<1>1. Rest # <<>> /\ Len(Rest) >= Len(Units(Rest[1].f)) BY DEF Parse, Whole
<1>2. InHand # 0 /\ 1 \in 1 .. InHand BY <1>1, <1>r
<1>3. Total # 0 BY <1>2, <1>r DEF Total, StreamTypes
<1>4. due # <<>> /\ Rest[1] = HeadOf(due[1]) BY <1>2, <1>3, <1>r, FrontFrame
<1>5. Rest[1].f = due[1] BY <1>4 DEF HeadOf
<1>6. Len(Units(due[1])) <= InHand
  <2>1. due[1] \in Frames BY <1>4 DEF StreamTypes
  <2>2. Len(Units(due[1])) \in {1, 2} BY <2>1, UnitsFacts
  <2> QED BY <1>1, <1>5, <1>r, <2>2
<1> QED BY <1>4, <1>5, <1>6 DEF Parse

LEMMA ParseStep ==
    ASSUME StreamTypes, StreamInv, Parse
    PROVE  StreamTypes' /\ StreamInv'
<1> DEFINE n == Len(due)
           s == Len(Units(due[1]))
<1>u. /\ UNCHANGED <<kind, stream, buffer, broken, closed>>
      /\ pump' \in {"parse", "invoke"} /\ inOrder' = (inOrder /\ due # <<>> /\ due[1] = frame')
  BY DEF Parse, WalkTo, reqVars
<1>0. /\ stream \in Seq(Unit) /\ buffer \in Seq(Unit) /\ due \in Seq(Frames)
      /\ offset \in Nat /\ offset <= Len(buffer) /\ n \in Nat /\ Len(stream) \in Nat
      /\ Len(buffer) \in Nat
  BY DEF StreamTypes
<1>p. /\ due # <<>> /\ frame' = due[1] /\ due' = Tail(due)
      /\ offset' = offset + s /\ s <= InHand
  BY ParseFront
<1>f. due[1] \in Frames /\ s \in {1, 2} /\ n # 0
  <2>1. due[1] \in Frames /\ n # 0 BY <1>0, <1>p
  <2> QED BY <2>1, UnitsFacts
<1>2. /\ due' \in Seq(Frames) /\ Len(due') = n - 1
      /\ \A k \in 1 .. n - 1 : due'[k] = due[k + 1]
  BY <1>0, <1>p
<1> HIDE DEF n, s
<1>3. /\ InHand' = InHand - s /\ Total' = Total - s /\ InHand \in Nat /\ Total \in Nat
      /\ offset + InHand = Len(buffer) /\ Total = InHand + Len(stream)
  BY <1>0, <1>u, <1>p, <1>f DEF InHand, Total
<1>4. StreamTypes'
  <2>1. offset + s \in Nat /\ offset + s <= Len(buffer) BY <1>0, <1>3, <1>p, <1>f
  <2> QED BY <1>0, <1>2, <1>u, <1>p, <2>1 DEF StreamTypes
<1>5. ASSUME NEW k \in Nat PROVE Ahead(k)' = Ahead(k + s)
  <2>1. (offset + s) + k = offset + (k + s) /\ k - (InHand - s) = (k + s) - InHand
        /\ (k <= InHand - s <=> k + s <= InHand)
    BY <1>0, <1>3, <1>f
  <2> QED BY <2>1, <1>u, <1>p, <1>3 DEF Ahead
<1>6. PICK pos : Cuts(pos) BY DEF StreamInv
<1>7. \E q : Cuts(q)'
  <2>1. /\ \A i \in 0 .. n : pos[i] \in 0 .. Total
        /\ pos[0] = 0 /\ pos[n] = Total
        /\ \A i, j \in 0 .. n : i <= j => pos[i] <= pos[j]
        /\ \A i \in 1 .. n : /\ pos[i] = pos[i - 1] + Len(Units(due[i]))
                             /\ Ahead(pos[i - 1] + 1) = HeadOf(due[i])
    BY <1>6 DEF Cuts, n
  <2>n. n \in Nat /\ n # 0 /\ s \in {1, 2} /\ Total \in Nat BY <1>0, <1>f, <1>3
  <2>s. pos[1] = s
    <3>1. 1 \in 1 .. n BY <2>n
    <3>2. pos[1] = pos[0] + Len(Units(due[1])) BY <2>1, <3>1
    <3> QED BY <3>2, <2>1, <1>f DEF s
  <2>q. PICK q : q = [i \in 0 .. n - 1 |-> pos[i + 1] - s] OBVIOUS
  <2>v. ASSUME NEW i \in 0 .. n - 1
        PROVE  /\ i + 1 \in 0 .. n /\ q[i] = pos[i + 1] - s
               /\ pos[i + 1] \in 0 .. Total /\ s <= pos[i + 1]
    <3>1. i + 1 \in 0 .. n /\ 1 \in 0 .. n /\ 1 <= i + 1 BY <2>n
    <3> QED BY <3>1, <2>1, <2>s, <2>q
  <2>2. q \in [0 .. n - 1 -> 0 .. Total - s]
    <3>1. \A m \in Nat, d \in {1, 2} : \A a \in 0 .. m : d <= a => a - d \in 0 .. m - d OBVIOUS
    <3>2. \A i \in 0 .. n - 1 : pos[i + 1] - s \in 0 .. Total - s BY <2>n, <2>v, <3>1
    <3> QED BY <3>2, <2>q
  <2>3. q[0] = 0 /\ q[n - 1] = Total - s
    <3>1. 0 \in 0 .. n - 1 /\ n - 1 \in 0 .. n - 1 /\ (n - 1) + 1 = n /\ 0 + 1 = 1 BY <2>n
    <3>2. q[0] = s - s /\ q[n - 1] = pos[n] - s BY <3>1, <2>v, <2>s
    <3> QED BY <3>2, <2>1, <2>n
  <2>4. ASSUME NEW i \in 0 .. n - 1, NEW j \in 0 .. n - 1, i <= j PROVE q[i] <= q[j]
    <3>1. i + 1 \in 0 .. n /\ j + 1 \in 0 .. n /\ i + 1 <= j + 1 BY <2>n, <2>4
    <3>2. pos[i + 1] <= pos[j + 1] BY <3>1, <2>1
    <3> QED BY <3>2, <2>v, <2>n
  <2>5. ASSUME NEW i \in 1 .. n - 1
        PROVE  q[i] = q[i - 1] + Len(Units(due'[i])) /\ Ahead(q[i - 1] + 1)' = HeadOf(due'[i])
    <3>1. /\ i \in 0 .. n - 1 /\ i - 1 \in 0 .. n - 1 /\ (i - 1) + 1 = i /\ i + 1 \in 1 .. n
          /\ (i + 1) - 1 = i
      BY <2>n
    <3>2. due'[i] = due[i + 1] BY <1>2, <2>5
    <3>3. /\ pos[i + 1] = pos[i] + Len(Units(due[i + 1]))
          /\ Ahead(pos[i] + 1) = HeadOf(due[i + 1])
      BY <2>1, <3>1
    <3>4. q[i] = pos[i + 1] - s /\ q[i - 1] = pos[i] - s /\ pos[i] \in Nat /\ s <= pos[i]
      BY <3>1, <2>v, <2>n
    <3>5. Len(Units(due[i + 1])) \in {1, 2}
      <4>1. due[i + 1] \in Frames BY <1>0, <3>1 DEF n
      <4> QED BY <4>1, UnitsFacts
    <3>6. q[i - 1] + 1 \in Nat /\ (q[i - 1] + 1) + s = pos[i] + 1 BY <3>4, <2>n
    <3>7. Ahead(q[i - 1] + 1)' = HeadOf(due'[i]) BY <3>6, <3>3, <3>2, <1>5
    <3>8. q[i] = q[i - 1] + Len(Units(due[i + 1])) BY <3>3, <3>4, <3>5, <2>n
    <3> QED BY <3>7, <3>8, <3>2
  <2> QED BY <2>2, <2>3, <2>4, <2>5, <1>2, <1>3 DEF Cuts
<1>8. FramesInOrder' BY <1>u, <1>p DEF StreamInv, FramesInOrder
<1> QED BY <1>u, <1>4, <1>7, <1>8 DEF StreamInv

\* read has failed: at the end of the stream, or with a buffer full of one frame.
LEMMA ReadFailsStep ==
    ASSUME StreamTypes, StreamInv, ReadFails
    PROVE  StreamTypes' /\ StreamInv'
<1>0. /\ UNCHANGED <<kind, stream, due, broken, inOrder, closed, buffer, offset>>
      /\ pump = "poll" /\ pump' = "stopped"
      /\ (stream = <<>> /\ closed) \/ (stream # <<>> /\ Room <= 0)
  BY DEF ReadFails, ReadsNothing, reqVars, sockVars
<1>1. StreamTypes' BY <1>0 DEF StreamTypes
<1>2. Total' = Total /\ \A k \in 1 .. Total : Ahead(k)' = Ahead(k)
  BY <1>0 DEF Total, InHand, Ahead
<1>t. Total \in Nat BY DEF Total, InHand, StreamTypes
<1>3. \E pos : Cuts(pos)' BY <1>0, <1>2, <1>t, SameCuts DEF StreamInv, StreamTypes
<1>4. broken \/ closed \/ \E i \in DOMAIN due : due[i].kind = "proto"
  <2> SUFFICES ASSUME ~broken, stream # <<>>, Room <= 0 PROVE \E i \in DOMAIN due : due[i].kind = "proto"
    BY <1>0
  <2>0. stream \in Seq(Unit) /\ buffer \in Seq(Unit) BY DEF StreamTypes
  <2>1. Len(buffer) \in Nat /\ Len(stream) \in Nat \ {0} /\ offset = 0 /\ Cap \in Nat /\ Cap > 1
    BY <1>0, <2>0, XodusAssumption DEF StreamInv
  <2>2. Total # 0 BY <2>1 DEF Total, InHand
  <2>3. due # <<>> BY <2>2, FrontFrame
  <2>4. due[1] \in Frames /\ 1 \in DOMAIN due BY <2>3 DEF StreamTypes
  <2>5. Len(Units(due[1])) \in {1, 2} BY <2>4, UnitsFacts
  <2>6. ~(Len(buffer) < Len(Units(due[1])))
    <3>1. Cap <= Len(buffer) BY <2>1 DEF Room
    <3>2. \A a, b \in Nat, d \in {1, 2} : a > 1 /\ a <= b => ~(b < d) OBVIOUS
    <3> QED BY <3>1, <3>2, <2>1, <2>5
  <2> QED BY <1>0, <2>3, <2>4, <2>6 DEF StreamInv, FramesInOrder
<1>5. FramesInOrder' BY <1>0, <1>4 DEF StreamInv, FramesInOrder
<1> QED BY <1>0, <1>1, <1>3, <1>5 DEF StreamInv

LEMMA StreamStep ==
    ASSUME StreamTypes, StreamInv, [Next]_vars
    PROVE  StreamTypes' /\ StreamInv'
<1>1. ASSUME UNCHANGED <<kind, stream, due, inOrder, buffer, offset>>,
             closed => closed',
             \/ UNCHANGED <<pump, broken>>
             \/ pump' \notin {"poll", "stopped"}
             \/ pump' = "stopped" /\ broken' = TRUE
      PROVE  StreamTypes' /\ StreamInv'
  <2>1. StreamTypes' BY <1>1 DEF StreamTypes
  <2>2. Total' = Total /\ \A k \in 1 .. Total : Ahead(k)' = Ahead(k)
    BY <1>1 DEF Total, InHand, Ahead
  <2>t. Total \in Nat BY DEF Total, InHand, StreamTypes
  <2>3. \E pos : Cuts(pos)' BY <1>1, <2>2, <2>t, SameCuts DEF StreamInv, StreamTypes
  <2>4. FramesInOrder' BY <1>1 DEF StreamInv, FramesInOrder
  <2> QED BY <1>1, <2>1, <2>3, <2>4 DEF StreamInv
<1>2. ASSUME NEW c \in Calls,
             \/ Call(c) \/ CloseCall(c) \/ GivesUp(c) \/ Await(c) \/ HandlerInvoked(c)
             \/ SendRequest(c)
      PROVE  StreamTypes' /\ StreamInv'
  <2>1. UNCHANGED <<kind, stream, due, inOrder, buffer, offset, closed, pump, broken>>
    BY <1>2 DEF Call, CloseCall, GivesUp, Await, HandlerInvoked, SendRequest, AddReads,
       AddWrites, Write, WriteRest, WriteFails, RemoveReads, RemoveWrites, RemoveFails,
       RequestReturns, reqVars, sockVars, pumpVars
  <2> QED BY <2>1, <1>1
<1>3. ASSUME NEW c \in Calls, Answer(c) PROVE StreamTypes' /\ StreamInv'
  <2>1. [kind |-> kind[c], to |-> c] \in Frames
    BY XodusAssumption DEF StreamTypes, Frames, Nodes
  <2>2. UNCHANGED <<kind, buffer, offset, pump, broken, inOrder, closed>>
    BY <1>3 DEF Answer, reqVars, pumpVars
  <2>3. Transmit([kind |-> kind[c], to |-> c]) BY <1>3 DEF Answer
  <2> QED BY <2>1, <2>2, <2>3, TransmitStep
<1>4. ASSUME NEW k \in {"ping", "echo", "proto"}, SendUnasked(k) PROVE StreamTypes' /\ StreamInv'
  <2>1. [kind |-> k, to |-> Root] \in Frames BY DEF Frames, Nodes
  <2>2. UNCHANGED <<kind, buffer, offset, pump, broken, inOrder, closed>>
    BY <1>4 DEF SendUnasked, reqVars, pumpVars
  <2>3. Transmit([kind |-> k, to |-> Root]) BY <1>4 DEF SendUnasked
  <2> QED BY <2>1, <2>2, <2>3, TransmitStep
<1>5. CASE Invoke \/ Advance \/ UNCHANGED vars
  <2>1. /\ UNCHANGED <<kind, stream, due, inOrder, buffer, offset>> /\ (closed => closed')
        /\ UNCHANGED <<pump, broken>> \/ pump' \notin {"poll", "stopped"}
    BY <1>5 DEF Invoke, Advance, WalkTo, vars, reqVars, sockVars, pumpVars
  <2> QED BY <2>1, <1>1
<1>6. CASE Around
  <2>1. /\ UNCHANGED <<kind, stream, due, inOrder, buffer, offset>>
        /\ UNCHANGED <<pump, broken>> \/ (pump' = "stopped" /\ broken' = TRUE)
    BY <1>6, AroundChanges DEF reqVars
  <2>2. closed' = closed \/ closed' = TRUE BY <1>6, AroundChanges
  <2>3. closed => closed' BY <2>2, Zenon
  <2> QED BY <2>1, <2>3, <1>1
<1> QED BY <1>2, <1>3, <1>4, <1>5, <1>6, ReadStep, ReadFailsStep, ParseStep, ParseEndsStep
        DEF Next, System, External, Pump, Around

LEMMA StreamInvariant == Spec => [](StreamTypes /\ StreamInv)
<1>1. ASSUME StreamTypes /\ StreamInv, [Next]_vars PROVE (StreamTypes /\ StreamInv)'
  BY <1>1, StreamStep
<1> QED BY <1>1, InitStream, PTL DEF Spec

(* However the reads cut the stream, poll_sock dispatches the frames the   *)
(* service has sent, each once, in the order they were sent, and leaves a  *)
(* frame that has arrived whole undispatched only at or behind one that is *)
(* not XML; and unless an error of its own ends it, the pump stops only at *)
(* the end of the connection or with such a frame due.  For every size of  *)
(* the buffer that holds a frame.                                          *)
THEOREM DispatchedInOrder == Spec => []FramesInOrder
<1>1. StreamTypes /\ StreamInv => FramesInOrder BY DEF StreamInv
<1> QED BY <1>1, StreamInvariant, PTL

-----------------------------------------------------------------------------
(* Which responses a request may be handed.                                *)

\* Not yet in the list; nothing points at such a request.
Early == {"idle", "queued", "link"}

\* Not yet written to the socket.
Unasked(c) == req[c] \in Early \cup {"send", "rest"}

Walking == pump \in {"invoke", "advance"}

\* The answer to a request is sent once: it is asked for, due, being dispatched or handed.
SentInv ==
    /\ \A c \in Calls : Unasked(c) => /\ c \notin handed \cup asked /\ frame.to # c
                                      /\ \A i \in DOMAIN due : due[i].to # c
    /\ \A c \in asked : c \notin handed /\ frame.to # c /\ \A i \in DOMAIN due : due[i].to # c
    /\ \A i \in DOMAIN due : due[i].to \in Calls => due[i].to \notin handed /\ due[i].to # frame.to
    /\ \A i, j \in DOMAIN due : due[i].to \in Calls /\ due[i].to = due[j].to => i = j

\* m is reached from n forwards: it registered earlier.
Before(m, n) == m \in Calls /\ n \in Calls => settled[m] \subseteq settled[n]

(* The pointers, those in the list and those read to change it, lead from  *)
(* later to earlier entries, however two threads tear the list.            *)
PointInv ==
    /\ \A c \in Calls : req[c] \in Early =>
          /\ links[c] = Nowhere /\ response[c] = NoFrame
          /\ \A n \in Nodes : links[n].next # c /\ links[n].prev # c
          /\ \A d \in Calls : snap[d].next # c /\ snap[d].prev # c
          /\ cursor # c
    /\ \A c \in Calls : req[c] = "link" => snap[c].prev = Root
    /\ \A n \in Calls : Before(links[n].next, n) /\ Before(n, links[n].prev)
    /\ \A n \in Calls : Before(snap[n].next, n) /\ Before(n, snap[n].prev)

\* A walk never comes to an entry that registered after the frame was handed out.
ReplayInv ==
    /\ \A c \in Calls : settled[c] \subseteq handed /\ response[c].to \notin settled[c]
    /\ Walking => cursor \in Calls /\ frame.to \notin settled[cursor]

Pointers == [next : Nodes, prev : Nodes]

RegTypes ==
    /\ links \in [Nodes -> Pointers] /\ snap \in [Calls -> Pointers]
    /\ response \in [Calls -> Frames] /\ settled \in [Calls -> SUBSET Calls]
    /\ handed \subseteq Calls /\ asked \subseteq Calls
    /\ cursor \in Nodes /\ frame \in Frames
    /\ pump \in {"poll", "parse", "invoke", "advance", "stopped"}

RegInv == RegTypes /\ SentInv /\ PointInv /\ ReplayInv

LEMMA InitReg == Init => RegInv
<1> SUFFICES ASSUME Init PROVE RegInv OBVIOUS
<1>1. /\ req = [c \in Calls |-> "idle"] /\ links = [n \in Nodes |-> Nowhere]
      /\ snap = [c \in Calls |-> Nowhere] /\ response = [c \in Calls |-> NoFrame]
      /\ settled = [c \in Calls |-> {}] /\ asked = {} /\ handed = {} /\ due = <<>>
      /\ cursor = Root /\ frame = NoFrame /\ pump = "poll"
  BY DEF Init
<1>2. /\ Nowhere \in Pointers /\ NoFrame \in Frames /\ Root \in Nodes /\ Calls \subseteq Nodes
      /\ Nowhere.next = Root /\ Nowhere.prev = Root /\ NoFrame.to = Root /\ Root \notin Calls
  BY XodusAssumption DEF Nowhere, NoFrame, Pointers, Frames, Nodes
<1>3. RegTypes BY <1>1, <1>2 DEF RegTypes
<1>4. SentInv BY <1>1, <1>2 DEF SentInv
<1>5. PointInv BY <1>1, <1>2 DEF PointInv, Before
<1>6. ReplayInv BY <1>1 DEF ReplayInv, Walking
<1> QED BY <1>3, <1>4, <1>5, <1>6 DEF RegInv

\* What the types say of the pointers one can follow.
LEMMA PointerFacts ==
    ASSUME RegTypes
    PROVE  /\ Root \in Nodes /\ Root \notin Calls /\ Calls \subseteq Nodes
           /\ \A n \in Nodes : n # Root => n \in Calls
           /\ \A n \in Nodes : links[n].next \in Nodes /\ links[n].prev \in Nodes
           /\ \A c \in Calls : snap[c].next \in Nodes /\ snap[c].prev \in Nodes
           /\ Nowhere \in Pointers /\ NoFrame \in Frames
           /\ Nowhere.next = Root /\ Nowhere.prev = Root /\ NoFrame.to = Root
BY XodusAssumption DEF RegTypes, Pointers, Nodes, Nowhere, NoFrame, Frames

-----------------------------------------------------------------------------
(* SentInv.                                                                *)

\* Requests only move on.
LEMMA SentMoves ==
    ASSUME SentInv, UNCHANGED <<handed, asked, due, frame>>,
           \A c \in Calls : Unasked(c)' => Unasked(c)
    PROVE  SentInv'
BY DEF SentInv

\* A request that is written is asked.
LEMMA SentAsks ==
    ASSUME SentInv, NEW c \in Calls, OpTypes, req[c] \in {"send", "rest"},
           req' = [req EXCEPT ![c] = "wait"],
           UNCHANGED <<handed, due, frame>>, asked' \in {asked, asked \cup {c}}
    PROVE  SentInv'
<1>1. \A d \in Calls : Unasked(d)' => Unasked(d) /\ d # c BY DEF Unasked, OpTypes, Early
<1>2. Unasked(c) BY DEF Unasked
<1> QED BY <1>1, <1>2 DEF SentInv

LEMMA SentRequest ==
    ASSUME SentInv, OpTypes, OpsInv, NEW c \in Calls, SendRequest(c) \/ Call(c)
    PROVE  SentInv'
<1>1. CASE \/ Call(c) \/ AddReads(c) \/ AddWrites(c) \/ WriteFails(c) \/ RemoveReads(c)
           \/ RemoveWrites(c) \/ RemoveFails(c) \/ RequestReturns(c)
  <2>1. UNCHANGED <<handed, asked, due, frame>>
    BY <1>1 DEF Call, AddReads, AddWrites, WriteFails, RemoveReads, RemoveWrites,
       RemoveFails, RequestReturns, sockVars, pumpVars
  <2>2. PICK p \in ReqStates :
           /\ req' = [req EXCEPT ![c] = p]
           /\ p \in {"queued", "link", "send"} => req[c] \in Early
           /\ p \notin {"idle", "rest"}
    <3>1. CASE Call(c)
      <4>1. status[c] = "none" /\ req' = [req EXCEPT ![c] = "queued"] BY <3>1 DEF Call, Create, SetReq
      <4>2. req[c] = "idle" BY <4>1, XodusAssumption DEF OpsInv, OpInv
      <4> QED BY <4>1, <4>2 DEF ReqStates, Early
    <3>2. CASE ~Call(c)
      BY <1>1, <3>2 DEF AddReads, AddWrites, WriteFails, RemoveReads, RemoveWrites,
         RemoveFails, RequestReturns, SetReq, ReqStates, Early
    <3> QED BY <3>1, <3>2
  <2>3. \A d \in Calls : Unasked(d)' => Unasked(d) BY <2>2 DEF Unasked, OpTypes, Early
  <2> QED BY <2>1, <2>3, SentMoves
<1>2. CASE Write(c)
  <2>1. req[c] = "send" /\ UNCHANGED <<handed, due, frame>> BY <1>2 DEF Write, pumpVars
  <2>2. \/ req' = [req EXCEPT ![c] = "wait"] /\ asked' \in {asked, asked \cup {c}}
        \/ req' = [req EXCEPT ![c] = "rest"] /\ asked' = asked
    BY <1>2 DEF Write, SetReq
  <2>3. CASE req' = [req EXCEPT ![c] = "rest"] /\ asked' = asked
    <3>1. \A d \in Calls : Unasked(d)' => Unasked(d) BY <2>1, <2>3 DEF Unasked, OpTypes
    <3> QED BY <2>1, <2>3, <3>1, SentMoves
  <2> QED BY <2>1, <2>2, <2>3, SentAsks
<1>3. CASE WriteRest(c)
  <2>1. req[c] = "rest" /\ UNCHANGED <<handed, due, frame>> BY <1>3 DEF WriteRest, pumpVars
  <2>2. req' = [req EXCEPT ![c] = "wait"] /\ asked' \in {asked, asked \cup {c}}
    BY <1>3 DEF WriteRest, SetReq
  <2> QED BY <2>1, <2>2, SentAsks
<1> QED BY <1>1, <1>2, <1>3 DEF SendRequest

LEMMA AppendFacts ==
    ASSUME NEW S, NEW s \in Seq(S), NEW e \in S
    PROVE  \A i \in DOMAIN Append(s, e) :
              \/ i \in DOMAIN s /\ Append(s, e)[i] = s[i]
              \/ i = Len(s) + 1 /\ Append(s, e)[i] = e
<1>1. DOMAIN Append(s, e) = 1 .. Len(s) + 1 /\ Len(s) \in Nat OBVIOUS
<1>2. ASSUME NEW i \in 1 .. Len(s) PROVE i \in DOMAIN s /\ Append(s, e)[i] = s[i] OBVIOUS
<1>3. Append(s, e)[Len(s) + 1] = e OBVIOUS
<1>4. \A i \in DOMAIN Append(s, e) : i \in 1 .. Len(s) \/ i = Len(s) + 1 BY <1>1
<1> QED BY <1>2, <1>3, <1>4

\* The service answers a request, or sends something nobody asked for.
LEMMA SentTransmits ==
    ASSUME SentInv, RegTypes, StreamTypes, UNCHANGED <<req, handed, frame>>,
           NEW f \in Frames, due' = Append(due, f),
           \/ asked' = asked /\ f.to = Root
           \/ f.to \in asked /\ asked' = asked \ {f.to}
    PROVE  SentInv'
<1>0. due \in Seq(Frames) /\ Len(due) \in Nat BY DEF StreamTypes
<1>2. \A i \in DOMAIN due' :
         \/ i \in DOMAIN due /\ due'[i] = due[i]
         \/ i = Len(due) + 1 /\ due'[i] = f
  BY <1>0, AppendFacts
<1>3. \A c \in Calls : Unasked(c)' = Unasked(c) BY DEF Unasked
<1>4. CASE asked' = asked /\ f.to = Root
  <2>1. Root \notin Calls /\ asked \subseteq Calls BY PointerFacts DEF RegTypes
  <2> QED BY <1>2, <1>3, <1>4, <2>1 DEF SentInv
<1>5. CASE f.to \in asked /\ asked' = asked \ {f.to}
  <2>1. ~Unasked(f.to) /\ f.to \notin handed /\ frame.to # f.to
        /\ \A i \in DOMAIN due : due[i].to # f.to
    BY <1>5 DEF SentInv, RegTypes
  <2> QED BY <1>2, <1>3, <1>5, <2>1 DEF SentInv
<1> QED BY <1>4, <1>5

\* The pump takes the first frame due.
LEMMA SentParses ==
    ASSUME SentInv, RegTypes, StreamTypes, StreamInv, Parse
    PROVE  SentInv' /\ frame' \in Frames /\ (frame'.to \in Calls => frame'.to \notin handed)
<1>0. due \in Seq(Frames) /\ Len(due) \in Nat BY DEF StreamTypes
<1>p. due # <<>> /\ frame' = due[1] /\ due' = Tail(due) BY ParseFront
<1>u. UNCHANGED <<req, handed, asked>> BY DEF Parse, reqVars
<1>1. /\ DOMAIN due = 1 .. Len(due) /\ DOMAIN due' = 1 .. Len(due) - 1
      /\ \A i \in 1 .. Len(due) - 1 : due'[i] = due[i + 1]
      /\ Len(due) # 0 /\ 1 \in DOMAIN due /\ due[1] \in Frames
  BY <1>0, <1>p
<1>2. \A i \in DOMAIN due' : i + 1 \in DOMAIN due /\ due'[i] = due[i + 1] /\ i + 1 # 1
  BY <1>0, <1>1
<1>3. \A c \in Calls : Unasked(c)' = Unasked(c) BY <1>u DEF Unasked
<1>4. \A i, j \in DOMAIN due' : i + 1 = j + 1 => i = j BY <1>0, <1>1
<1>5. SentInv'
  <2>1. \A c \in Calls : Unasked(c)' => /\ c \notin handed' \cup asked' /\ frame'.to # c
                                        /\ \A i \in DOMAIN due' : due'[i].to # c
    BY <1>u, <1>p, <1>1, <1>2, <1>3 DEF SentInv
  <2>2. \A c \in asked' : c \notin handed' /\ frame'.to # c /\ \A i \in DOMAIN due' : due'[i].to # c
    BY <1>u, <1>p, <1>1, <1>2 DEF SentInv
  <2>3. \A i \in DOMAIN due' : due'[i].to \in Calls =>
           due'[i].to \notin handed' /\ due'[i].to # frame'.to
    BY <1>u, <1>p, <1>1, <1>2 DEF SentInv
  <2>4. \A i, j \in DOMAIN due' : due'[i].to \in Calls /\ due'[i].to = due'[j].to => i = j
    BY <1>2, <1>4 DEF SentInv
  <2> QED BY <2>1, <2>2, <2>3, <2>4 DEF SentInv
<1> QED BY <1>5, <1>p, <1>1 DEF SentInv

LEMMA SentSteps ==
    ASSUME RegTypes, SentInv, OpTypes, OpsInv, StreamTypes, StreamInv, [Next]_vars
    PROVE  SentInv'
<1>1. ASSUME UNCHANGED <<req, handed, asked, due, frame>> PROVE SentInv'
  <2>1. \A c \in Calls : Unasked(c)' = Unasked(c) BY <1>1 DEF Unasked
  <2> QED BY <1>1, <2>1, SentMoves
<1>2. ASSUME NEW c \in Calls, CloseCall(c) \/ GivesUp(c) \/ Await(c) \/ HandlerInvoked(c)
      PROVE  SentInv'
  <2>1. UNCHANGED <<req, handed, asked, due, frame>>
    BY <1>2 DEF CloseCall, GivesUp, Await, HandlerInvoked, reqVars, sockVars, pumpVars
  <2> QED BY <2>1, <1>1
<1>3. CASE Around \/ Read \/ ReadFails \/ Advance \/ UNCHANGED vars
  <2>1. UNCHANGED <<req, handed, asked, due, frame>>
    BY <1>3, AroundChanges DEF Read, ReadFails, Advance, vars, reqVars, sockVars, pumpVars
  <2> QED BY <2>1, <1>1
<1>4. ASSUME NEW c \in Calls, Answer(c) PROVE SentInv'
  <2> DEFINE f == [kind |-> kind[c], to |-> c]
  <2>1. f \in Frames /\ f.to = c BY XodusAssumption DEF StreamTypes, Frames, Nodes
  <2>2. /\ UNCHANGED <<req, handed, frame>> /\ due' = Append(due, f)
        /\ c \in asked /\ asked' = asked \ {c}
    BY <1>4 DEF Answer, Transmit, reqVars, pumpVars
  <2> HIDE DEF f
  <2> QED BY <2>1, <2>2, SentTransmits
<1>5. ASSUME NEW k \in {"ping", "echo", "proto"}, SendUnasked(k) PROVE SentInv'
  <2> DEFINE f == [kind |-> k, to |-> Root]
  <2>1. f \in Frames /\ f.to = Root BY DEF Frames, Nodes
  <2>2. UNCHANGED <<req, handed, frame, asked>> /\ due' = Append(due, f)
    BY <1>5 DEF SendUnasked, Transmit, reqVars, pumpVars
  <2> HIDE DEF f
  <2> QED BY <2>1, <2>2, SentTransmits
<1>6. CASE ParseEnds
  <2>1. UNCHANGED <<req, handed, asked, due>> /\ frame' = NoFrame
    BY <1>6 DEF ParseEnds, reqVars, sockVars
  <2>2. NoFrame.to = Root /\ Root \notin Calls /\ asked \subseteq Calls
    BY PointerFacts DEF RegTypes
  <2>3. \A c \in Calls : Unasked(c)' = Unasked(c) BY <2>1 DEF Unasked
  <2> QED BY <2>1, <2>2, <2>3 DEF SentInv
<1>7. CASE Invoke
  <2>1. /\ UNCHANGED <<req, asked, due, frame>>
        /\ handed' \in {handed, handed \cup ({frame.to} \ {Root})}
    BY <1>7 DEF Invoke, sockVars
  <2>2. \A c \in Calls : Unasked(c)' = Unasked(c) BY <2>1 DEF Unasked
  <2>3. handed' \subseteq handed \cup {frame.to} BY <2>1
  <2>4. asked \subseteq Calls BY DEF RegTypes
  <2>5. UNCHANGED <<req, asked, due, frame>> BY <2>1
  <2> QED BY <2>2, <2>3, <2>4, <2>5 DEF SentInv
<1> QED BY <1>2, <1>3, <1>4, <1>5, <1>6, <1>7, SentRequest, SentParses
        DEF Next, System, External, Pump, Around

-----------------------------------------------------------------------------
(* PointInv and ReplayInv, action by action.                               *)

\* Steps that change no pointer and hand out nothing.
LEMMA StillStep ==
    ASSUME RegTypes, PointInv, ReplayInv,
           UNCHANGED <<links, snap, settled, cursor, response, handed>>,
           \A c \in Calls : /\ req'[c] \in Early => req[c] \in Early
                            /\ req'[c] = "link" => req[c] = "link",
           Walking' => Walking /\ frame' = frame
    PROVE  PointInv' /\ ReplayInv'
<1>1. PointInv' BY DEF PointInv, Before
<1>2. ReplayInv' BY DEF ReplayInv
<1> QED BY <1>1, <1>2

LEMMA StillSteps ==
    ASSUME RegTypes, PointInv, ReplayInv, OpTypes, OpsInv, NEW c \in Calls,
           \/ Call(c) \/ CloseCall(c) \/ GivesUp(c) \/ Await(c) \/ HandlerInvoked(c)
           \/ Answer(c) \/ Write(c) \/ WriteRest(c) \/ WriteFails(c) \/ RemoveFails(c)
    PROVE  PointInv' /\ ReplayInv' /\ RegTypes'
<1>1. UNCHANGED <<links, snap, settled, cursor, response, handed, pump, frame>>
  BY DEF Call, CloseCall, GivesUp, Await, HandlerInvoked, Answer, Write, WriteRest,
     WriteFails, RemoveFails, reqVars, listVars, pumpVars
<1>2. \/ UNCHANGED req
      \/ \E p \in {"rest", "wait", "timeout", "done"} : req' = [req EXCEPT ![c] = p]
      \/ req[c] = "idle" /\ req' = [req EXCEPT ![c] = "queued"]
  <2>1. CASE Call(c)
    <3>1. status[c] = "none" /\ req' = [req EXCEPT ![c] = "queued"] BY <2>1 DEF Call, Create, SetReq
    <3> QED BY <3>1, XodusAssumption DEF OpsInv, OpInv
  <2>2. CASE CloseCall(c) \/ GivesUp(c) \/ Await(c) \/ HandlerInvoked(c) \/ Answer(c)
    BY <2>2 DEF CloseCall, GivesUp, Await, HandlerInvoked, Answer, reqVars
  <2>3. CASE Write(c) \/ WriteRest(c) \/ WriteFails(c) \/ RemoveFails(c)
    BY <2>3 DEF Write, WriteRest, WriteFails, RemoveFails, SetReq
  <2> QED BY <2>1, <2>2, <2>3
<1>3. \A d \in Calls : /\ req'[d] \in Early => req[d] \in Early
                       /\ req'[d] = "link" => req[d] = "link"
  BY <1>2 DEF OpTypes, Early
<1>4. asked' \subseteq asked \cup {c}
  BY DEF Call, CloseCall, GivesUp, Await, HandlerInvoked, Answer, Write, WriteRest,
     WriteFails, RemoveFails, sockVars
<1>5. RegTypes' BY <1>1, <1>4 DEF RegTypes
<1>6. Walking' => Walking /\ frame' = frame BY <1>1 DEF Walking
<1> QED BY <1>1, <1>3, <1>5, <1>6, StillStep

LEMMA StillPump ==
    ASSUME RegTypes, PointInv, ReplayInv,
           \/ Read \/ ReadFails \/ ParseEnds \/ Around \/ UNCHANGED vars
           \/ (\E k \in {"ping", "echo", "proto"} : SendUnasked(k))
    PROVE  PointInv' /\ ReplayInv' /\ RegTypes'
<1>1. UNCHANGED <<links, snap, settled, cursor, response, handed, req, asked>>
  BY AroundChanges DEF Read, ReadFails, ParseEnds, SendUnasked, vars, reqVars, listVars,
     sockVars, pumpVars
<1>2. \/ pump' = pump /\ frame' = frame
      \/ pump' \in {"poll", "parse", "stopped"} /\ frame' \in {frame, NoFrame}
  BY AroundChanges DEF Read, ReadFails, ParseEnds, SendUnasked, vars, pumpVars
<1>3. Walking' => Walking /\ frame' = frame BY <1>2 DEF Walking
<1>4. RegTypes' BY <1>1, <1>2, PointerFacts DEF RegTypes
<1> QED BY <1>1, <1>3, <1>4, StillStep

\* A request reads the pointers for its new entry, and registers with what was handed so far.
LEMMA AddReadsStep ==
    ASSUME RegTypes, PointInv, ReplayInv, OpTypes, NEW c \in Calls, AddReads(c)
    PROVE  PointInv' /\ ReplayInv' /\ RegTypes'
<1> DEFINE new == [next |-> links[Root].next, prev |-> Root]
<1>0. /\ req[c] = "queued" /\ req' = [req EXCEPT ![c] = "link"]
      /\ snap' = [snap EXCEPT ![c] = new] /\ settled' = [settled EXCEPT ![c] = handed]
      /\ UNCHANGED <<links, response, handed, asked, cursor, frame, pump>>
  BY DEF AddReads, AddAfter, SetReq, sockVars, pumpVars
<1>f. /\ Root \in Nodes /\ Root \notin Calls /\ Calls \subseteq Nodes
      /\ \A n \in Nodes : links[n].next \in Nodes /\ links[n].prev \in Nodes
      /\ Nowhere.next = Root /\ Nowhere.prev = Root /\ NoFrame.to = Root
  BY PointerFacts
<1>n. new \in Pointers /\ new.next = links[Root].next /\ new.prev = Root BY <1>f DEF Pointers
<1> HIDE DEF new
<1>1. RegTypes' BY <1>0, <1>n DEF RegTypes
<1>2. /\ links[c] = Nowhere /\ response[c] = NoFrame /\ cursor # c
      /\ \A n \in Nodes : links[n].next # c /\ links[n].prev # c
      /\ \A d \in Calls : snap[d].next # c /\ snap[d].prev # c
  BY <1>0 DEF PointInv, Early
<1>3. /\ \A d \in Calls \ {c} : snap'[d] = snap[d] /\ settled'[d] = settled[d] /\ req'[d] = req[d]
      /\ snap'[c] = new /\ settled'[c] = handed /\ req'[c] = "link"
  BY <1>0 DEF RegTypes, OpTypes
<1>4. ASSUME NEW d \in Calls, req'[d] \in Early
      PROVE  /\ links'[d] = Nowhere /\ response'[d] = NoFrame
             /\ \A n \in Nodes : links'[n].next # d /\ links'[n].prev # d
             /\ \A e \in Calls : snap'[e].next # d /\ snap'[e].prev # d
             /\ cursor' # d
  <2>1. req[d] \in Early BY <1>0, <1>3, <1>4 DEF Early
  <2>2. new.next # d /\ new.prev # d BY <2>1, <1>n, <1>f DEF PointInv
  <2> QED BY <2>1, <2>2, <1>0, <1>3 DEF PointInv
<1>5. \A d \in Calls : req'[d] = "link" => snap'[d].prev = Root
  BY <1>3, <1>n DEF PointInv
<1>6. ASSUME NEW n \in Calls PROVE Before(links[n].next, n)' /\ Before(n, links[n].prev)'
  <2>1. CASE n = c
    <3>1. links'[n].next = Root /\ links'[n].prev = Root BY <2>1, <1>0, <1>2, <1>f
    <3> QED BY <3>1, <1>f DEF Before
  <2>2. CASE n # c
    <3>1. links'[n].next # c /\ links'[n].prev # c BY <1>0, <1>2, <1>f
    <3>2. Before(links[n].next, n) /\ Before(n, links[n].prev) BY DEF PointInv
    <3> QED BY <2>2, <3>1, <3>2, <1>0, <1>3 DEF Before
  <2> QED BY <2>1, <2>2
<1>7. ASSUME NEW n \in Calls PROVE Before(snap[n].next, n)' /\ Before(n, snap[n].prev)'
  <2>1. CASE n = c
    <3>1. snap'[n].next = links[Root].next /\ snap'[n].prev = Root BY <2>1, <1>3, <1>n
    <3>2. \A m \in Calls : settled'[m] \subseteq handed BY <1>3 DEF ReplayInv
    <3> QED BY <2>1, <3>1, <3>2, <1>3, <1>f DEF Before
  <2>2. CASE n # c
    <3>1. snap'[n] = snap[n] /\ snap[n].next # c /\ snap[n].prev # c BY <2>2, <1>2, <1>3
    <3>2. Before(snap[n].next, n) /\ Before(n, snap[n].prev) BY DEF PointInv
    <3> QED BY <2>2, <3>1, <3>2, <1>3 DEF Before
  <2> QED BY <2>1, <2>2
<1>8. PointInv' BY <1>4, <1>5, <1>6, <1>7 DEF PointInv
<1>9. ReplayInv'
  <2>1. \A d \in Calls : settled'[d] \subseteq handed' /\ response'[d].to \notin settled'[d]
    BY <1>0, <1>2, <1>3, <1>f DEF ReplayInv, RegTypes
  <2> QED BY <2>1, <1>0, <1>2, <1>3 DEF ReplayInv, Walking
<1> QED BY <1>1, <1>8, <1>9

\* Steps of a registered request that change pointers and nothing else: it is enough to
\* look at the pointers they write.
LEMMA RelinkStep ==
    ASSUME RegTypes, PointInv, ReplayInv, OpTypes, NEW c \in Calls, NEW p, p \notin Early,
           req' = [req EXCEPT ![c] = p],
           UNCHANGED <<settled, cursor, response, handed, frame, pump, asked>>,
           links' \in [Nodes -> Pointers], snap' \in [Calls -> Pointers],
           \A d \in Calls \ {c} : snap'[d] = snap[d],
           \A n \in Calls : Before(links'[n].next, n) /\ Before(n, links'[n].prev),
           Before(snap'[c].next, c) /\ Before(c, snap'[c].prev),
           \A d \in Calls \ {c} : req[d] \in Early =>
              /\ links'[d] = Nowhere /\ snap'[c].next # d /\ snap'[c].prev # d
              /\ \A n \in Nodes : links'[n].next # d /\ links'[n].prev # d
    PROVE  PointInv' /\ ReplayInv' /\ RegTypes'
<1>1. RegTypes' BY DEF RegTypes
<1>2. ReplayInv' BY DEF ReplayInv, Walking
<1>3. \A d \in Calls \ {c} : req'[d] = req[d] BY DEF OpTypes
<1>4. req'[c] = p BY DEF OpTypes
<1>5. ASSUME NEW d \in Calls, req'[d] \in Early
      PROVE  /\ links'[d] = Nowhere /\ response'[d] = NoFrame
             /\ \A n \in Nodes : links'[n].next # d /\ links'[n].prev # d
             /\ \A e \in Calls : snap'[e].next # d /\ snap'[e].prev # d
             /\ cursor' # d
  <2>1. d # c /\ req[d] \in Early BY <1>3, <1>4, <1>5
  <2> QED BY <2>1 DEF PointInv
<1>6. \A d \in Calls : req'[d] = "link" => snap'[d].prev = Root
  BY <1>3, <1>4 DEF PointInv, Early
<1>7. \A n \in Calls : Before(links[n].next, n)' /\ Before(n, links[n].prev)' BY DEF Before
<1>8. \A n \in Calls : Before(snap[n].next, n)' /\ Before(n, snap[n].prev)'
  BY DEF Before, PointInv
<1>9. PointInv' BY <1>5, <1>6, <1>7, <1>8 DEF PointInv
<1> QED BY <1>1, <1>2, <1>9

\* list_add_head.
LEMMA AddWritesStep ==
    ASSUME RegTypes, PointInv, ReplayInv, OpTypes, NEW c \in Calls, AddWrites(c)
    PROVE  PointInv' /\ ReplayInv' /\ RegTypes'
<1> DEFINE s == snap[c]
<1>0. /\ req[c] = "link" /\ req' = [req EXCEPT ![c] = "send"]
      /\ links' = [links EXCEPT ![c] = s, ![s.next].prev = c, ![s.prev].next = c]
      /\ snap' = [snap EXCEPT ![c] = Nowhere]
      /\ UNCHANGED <<settled, response, handed, asked, cursor, frame, pump>>
  BY DEF AddWrites, SetReq, sockVars, pumpVars
<1>f. /\ Root \in Nodes /\ Root \notin Calls /\ Calls \subseteq Nodes
      /\ s \in Pointers /\ s.next \in Nodes /\ s.prev = Root /\ s.next # c
      /\ Nowhere \in Pointers /\ Nowhere.next = Root /\ Nowhere.prev = Root
  BY <1>0, PointerFacts DEF PointInv, Early, RegTypes
<1> HIDE DEF s
<1>1. links' \in [Nodes -> Pointers]
  <2>1. [links EXCEPT ![c] = s] \in [Nodes -> Pointers] BY <1>f DEF RegTypes
  <2>2. \A L \in [Nodes -> Pointers] : \A n, m \in Nodes :
           /\ [L EXCEPT ![n].next = m] \in [Nodes -> Pointers]
           /\ [L EXCEPT ![n].prev = m] \in [Nodes -> Pointers]
    BY DEF Pointers
  <2>3. c \in Nodes /\ s.prev \in Nodes BY <1>f
  <2> QED BY <1>0, <1>f, <2>1, <2>2, <2>3
<1>2. \A n \in Nodes : /\ links'[n].next = IF n = c THEN s.next ELSE IF n = Root THEN c ELSE links[n].next
                       /\ links'[n].prev = IF n = c THEN s.prev ELSE IF n = s.next THEN c ELSE links[n].prev
  BY <1>0, <1>f DEF RegTypes, Pointers
<1>3. snap' \in [Calls -> Pointers] /\ snap'[c] = Nowhere /\ \A d \in Calls \ {c} : snap'[d] = snap[d]
  BY <1>0, <1>f DEF RegTypes
<1>4. ASSUME NEW n \in Calls PROVE Before(links'[n].next, n) /\ Before(n, links'[n].prev)
  <2>1. Before(links[n].next, n) /\ Before(n, links[n].prev) BY DEF PointInv
  <2>2. Before(s.next, c) BY DEF PointInv, s
  <2>3. Before(n, Root) BY <1>f DEF Before
  <2>4. n \in Nodes /\ n # Root BY <1>f
  <2>5. links'[n].next = IF n = c THEN s.next ELSE links[n].next BY <1>2, <2>4
  <2>6. links'[n].prev = IF n = c THEN Root ELSE IF n = s.next THEN c ELSE links[n].prev
    BY <1>2, <1>f, <2>4
  <2>7. Before(links'[n].next, n) BY <2>1, <2>2, <2>5
  <2>8. Before(n, links'[n].prev) BY <2>1, <2>2, <2>3, <2>6
  <2> QED BY <2>7, <2>8
<1>5. Before(snap'[c].next, c) /\ Before(c, snap'[c].prev) BY <1>3, <1>f DEF Before
<1>6. ASSUME NEW d \in Calls \ {c}, req[d] \in Early
      PROVE  /\ links'[d] = Nowhere /\ snap'[c].next # d /\ snap'[c].prev # d
             /\ \A n \in Nodes : links'[n].next # d /\ links'[n].prev # d
  <2>1. /\ links[d] = Nowhere /\ s.next # d /\ s.prev # d
        /\ \A n \in Nodes : links[n].next # d /\ links[n].prev # d
    BY <1>6 DEF PointInv, s
  <2>2. links'[d] = links[d] BY <1>0, <1>f, <2>1 DEF RegTypes, Pointers
  <2> QED BY <1>2, <1>3, <1>f, <2>1, <2>2
<1> QED BY <1>0, <1>1, <1>3, <1>4, <1>5, <1>6, RelinkStep DEF Early

\* remove_ResponseReceived reads the pointers of its entry.
LEMMA RemoveReadsStep ==
    ASSUME RegTypes, PointInv, ReplayInv, OpTypes, NEW c \in Calls, RemoveReads(c)
    PROVE  PointInv' /\ ReplayInv' /\ RegTypes'
<1>0. /\ req[c] = "wait" /\ snap' = [snap EXCEPT ![c] = links[c]]
      /\ UNCHANGED <<links, settled, response, handed, asked, cursor, frame, pump>>
  BY DEF RemoveReads, sockVars, pumpVars
<1>1. PICK p \in {"unlink", "unlinkLate"} : req' = [req EXCEPT ![c] = p]
  BY DEF RemoveReads, SetReq
<1>2. c \in Nodes /\ links[c] \in Pointers BY PointerFacts DEF RegTypes
<1>3. snap' \in [Calls -> Pointers] /\ snap'[c] = links[c] /\ \A d \in Calls \ {c} : snap'[d] = snap[d]
  BY <1>0, <1>2 DEF RegTypes
<1>4. \A n \in Calls : Before(links'[n].next, n) /\ Before(n, links'[n].prev)
  BY <1>0 DEF PointInv
<1>5. Before(snap'[c].next, c) /\ Before(c, snap'[c].prev) BY <1>3 DEF PointInv
<1>6. \A d \in Calls \ {c} : req[d] \in Early =>
         /\ links'[d] = Nowhere /\ snap'[c].next # d /\ snap'[c].prev # d
         /\ \A n \in Nodes : links'[n].next # d /\ links'[n].prev # d
  BY <1>0, <1>2, <1>3 DEF PointInv
<1>7. p \notin Early /\ links' \in [Nodes -> Pointers] BY <1>0 DEF Early, RegTypes
<1> QED BY <1>0, <1>1, <1>3, <1>4, <1>5, <1>6, <1>7, RelinkStep

\* list_remove.  What it writes was read earlier, and the entries may be others by now.
LEMMA RemoveWritesStep ==
    ASSUME RegTypes, PointInv, ReplayInv, OpTypes, NEW c \in Calls, RemoveWrites(c)
    PROVE  PointInv' /\ ReplayInv' /\ RegTypes'
<1> DEFINE s == snap[c]
<1>0. /\ links' = [links EXCEPT ![s.next].prev = s.prev, ![s.prev].next = s.next]
      /\ snap' = [snap EXCEPT ![c] = Nowhere]
      /\ UNCHANGED <<settled, response, handed, asked, cursor, frame, pump>>
  BY DEF RemoveWrites, Unlinked, sockVars, pumpVars
<1>p. PICK p \in {"respond", "timeout"} : req' = [req EXCEPT ![c] = p]
  BY DEF RemoveWrites, SetReq
<1>f. /\ Root \in Nodes /\ Root \notin Calls /\ Calls \subseteq Nodes
      /\ s.next \in Nodes /\ s.prev \in Nodes
      /\ Nowhere \in Pointers /\ Nowhere.next = Root /\ Nowhere.prev = Root
  BY PointerFacts
<1>b. Before(s.next, c) /\ Before(c, s.prev) BY DEF PointInv
<1>e. \A d \in Calls : req[d] \in Early => s.next # d /\ s.prev # d BY DEF PointInv
<1> HIDE DEF s
<1>t. Before(s.next, s.prev) BY <1>b DEF Before
<1>1. links' \in [Nodes -> Pointers] BY <1>0, <1>f DEF RegTypes, Pointers
<1>2. \A n \in Nodes : /\ links'[n].next = IF n = s.prev THEN s.next ELSE links[n].next
                       /\ links'[n].prev = IF n = s.next THEN s.prev ELSE links[n].prev
  BY <1>0, <1>f DEF RegTypes, Pointers
<1>3. snap' \in [Calls -> Pointers] /\ snap'[c] = Nowhere /\ \A d \in Calls \ {c} : snap'[d] = snap[d]
  BY <1>0, <1>f DEF RegTypes
<1>4. ASSUME NEW n \in Calls PROVE Before(links'[n].next, n) /\ Before(n, links'[n].prev)
  <2>1. Before(links[n].next, n) /\ Before(n, links[n].prev) BY DEF PointInv
  <2>2. n \in Nodes BY <1>f
  <2>3. Before(links'[n].next, n) BY <1>2, <1>t, <2>1, <2>2
  <2>4. Before(n, links'[n].prev) BY <1>2, <1>t, <2>1, <2>2
  <2> QED BY <2>3, <2>4
<1>5. Before(snap'[c].next, c) /\ Before(c, snap'[c].prev) BY <1>3, <1>f DEF Before
<1>6. ASSUME NEW d \in Calls \ {c}, req[d] \in Early
      PROVE  /\ links'[d] = Nowhere /\ snap'[c].next # d /\ snap'[c].prev # d
             /\ \A n \in Nodes : links'[n].next # d /\ links'[n].prev # d
  <2>1. /\ links[d] = Nowhere /\ s.next # d /\ s.prev # d
        /\ \A n \in Nodes : links[n].next # d /\ links[n].prev # d
    BY <1>6, <1>e DEF PointInv
  <2>2. links'[d] = links[d] BY <1>0, <1>f, <2>1 DEF RegTypes, Pointers
  <2> QED BY <1>2, <1>3, <1>f, <2>1, <2>2
<1>7. p \notin Early BY DEF Early
<1> QED BY <1>0, <1>p, <1>1, <1>3, <1>4, <1>5, <1>6, <1>7, RelinkStep

\* The request is over and forgets its response.
LEMMA ReturnsStep ==
    ASSUME RegTypes, PointInv, ReplayInv, OpTypes, NEW c \in Calls, RequestReturns(c)
    PROVE  PointInv' /\ ReplayInv' /\ RegTypes'
<1>0. /\ req' = [req EXCEPT ![c] = "done"] /\ response' = [response EXCEPT ![c] = NoFrame]
      /\ UNCHANGED <<links, snap, settled, handed, asked, cursor, frame, pump>>
  BY DEF RequestReturns, SetReq, listVars, sockVars, pumpVars
<1>f. Root \notin Calls /\ NoFrame \in Frames /\ NoFrame.to = Root BY PointerFacts
<1>1. RegTypes' BY <1>0, <1>f DEF RegTypes
<1>2. \A d \in Calls : /\ req'[d] \in Early => req[d] \in Early
                       /\ req'[d] = "link" => req[d] = "link"
                       /\ response'[d] = response[d] \/ response'[d] = NoFrame
  BY <1>0 DEF OpTypes, Early, RegTypes
<1>3. PointInv' BY <1>0, <1>2 DEF PointInv, Before
<1>4. \A d \in Calls : settled'[d] \subseteq handed' /\ response'[d].to \notin settled'[d]
  BY <1>0, <1>2, <1>f DEF ReplayInv, RegTypes
<1>5. ReplayInv' BY <1>0, <1>4 DEF ReplayInv, Walking
<1> QED BY <1>1, <1>3, <1>5

\* The handler under the cursor takes the frame.
LEMMA InvokeStep ==
    ASSUME RegTypes, PointInv, ReplayInv, OpTypes, Invoke
    PROVE  PointInv' /\ ReplayInv' /\ RegTypes'
<1>0. /\ pump = "invoke" /\ pump' = "advance"
      /\ UNCHANGED <<req, links, snap, settled, asked, cursor, frame>>
      /\ handed' \in {handed, handed \cup ({frame.to} \ {Root})}
      /\ response' \in {response, [response EXCEPT ![cursor] = frame]}
  BY DEF Invoke, listVars, sockVars
<1>1. cursor \in Calls /\ frame.to \notin settled[cursor] BY <1>0 DEF ReplayInv, Walking
<1>2. frame \in Frames /\ frame.to \in Nodes BY DEF RegTypes, Frames
<1>3. handed' \subseteq Calls /\ handed \subseteq handed' BY <1>0, <1>2 DEF RegTypes, Nodes
<1>4. RegTypes' BY <1>0, <1>2, <1>3 DEF RegTypes
<1>5. \A d \in Calls : response'[d] = response[d] \/ (d = cursor /\ response'[d] = frame)
  BY <1>0, <1>1 DEF RegTypes
<1>6. \A d \in Calls : req[d] \in Early => cursor # d BY DEF PointInv
<1>7. PointInv' BY <1>0, <1>5, <1>6 DEF PointInv, Before
<1>8. \A d \in Calls : settled'[d] \subseteq handed' /\ response'[d].to \notin settled'[d]
  BY <1>0, <1>1, <1>3, <1>5 DEF ReplayInv
<1>9. ReplayInv' BY <1>0, <1>1, <1>8 DEF ReplayInv
<1> QED BY <1>4, <1>7, <1>9

\* The walk begins with a frame nobody has been handed, and goes on to entries that
\* registered no later.
LEMMA WalkStep ==
    ASSUME RegTypes, PointInv, ReplayInv, OpTypes, SentInv, StreamTypes, StreamInv,
           Parse \/ Advance
    PROVE  PointInv' /\ ReplayInv' /\ RegTypes'
<1>0. /\ UNCHANGED <<req, links, snap, settled, asked, response, handed>>
      /\ pump' = IF cursor' = Root THEN "parse" ELSE "invoke"
  BY DEF Parse, Advance, WalkTo, reqVars, sockVars
<1>f. /\ Root \in Nodes /\ Root \notin Calls /\ Calls \subseteq Nodes
      /\ \A n \in Nodes : n # Root => n \in Calls
      /\ \A n \in Nodes : links[n].next \in Nodes
  BY PointerFacts
<1>1. PICK n \in Nodes : cursor' = links[n].next
  <2>1. CASE Parse BY <2>1, <1>f DEF Parse, WalkTo
  <2>2. CASE Advance BY <2>2 DEF Advance, WalkTo, RegTypes
  <2> QED BY <2>1, <2>2
<1>2. frame' \in Frames /\ (cursor' \in Calls => frame'.to \notin settled[cursor'])
  <2>1. CASE Parse
    <3>1. frame' \in Frames /\ (frame'.to \in Calls => frame'.to \notin handed)
      BY <2>1, SentParses
    <3> QED BY <3>1 DEF ReplayInv, RegTypes
  <2>2. CASE Advance
    <3>1. frame' = frame /\ cursor' = links[cursor].next BY <2>2 DEF Advance, WalkTo
    <3>2. cursor \in Calls /\ frame.to \notin settled[cursor] BY <2>2 DEF ReplayInv, Walking, Advance
    <3>3. Before(links[cursor].next, cursor) BY <3>2 DEF PointInv
    <3> QED BY <3>1, <3>2, <3>3 DEF Before, RegTypes
  <2> QED BY <2>1, <2>2
<1>3. RegTypes' BY <1>0, <1>1, <1>2, <1>f DEF RegTypes
<1>4. \A d \in Calls : req[d] \in Early => cursor' # d BY <1>1 DEF PointInv
<1>5. PointInv' BY <1>0, <1>4 DEF PointInv, Before
<1>6. Walking' => cursor' \in Calls BY <1>0, <1>1, <1>f DEF Walking
<1>7. ReplayInv' BY <1>0, <1>2, <1>6 DEF ReplayInv
<1> QED BY <1>3, <1>5, <1>7

LEMMA RegInvariant == Spec => []RegInv
<1> DEFINE Others == OpTypes /\ OpsInv /\ StreamTypes /\ StreamInv
<1>1. Init => RegInv BY InitReg
<1>2. ASSUME RegInv, Others, [Next]_vars PROVE RegInv'
  <2>0. RegTypes /\ SentInv /\ PointInv /\ ReplayInv BY <1>2 DEF RegInv
  <2>1. SentInv' BY <1>2, <2>0, SentSteps
  <2>2. PointInv' /\ ReplayInv' /\ RegTypes'
    <3>1. ASSUME NEW c \in Calls, SendRequest(c) PROVE PointInv' /\ ReplayInv' /\ RegTypes'
      BY <1>2, <2>0, <3>1, AddReadsStep, AddWritesStep, RemoveReadsStep, RemoveWritesStep,
         ReturnsStep, StillSteps DEF SendRequest
    <3>2. ASSUME NEW c \in Calls,
                 \/ Await(c) \/ HandlerInvoked(c) \/ Call(c) \/ CloseCall(c) \/ GivesUp(c)
                 \/ Answer(c)
          PROVE  PointInv' /\ ReplayInv' /\ RegTypes'
      BY <1>2, <2>0, <3>2, StillSteps
    <3>3. CASE Pump BY <1>2, <2>0, <3>3, StillPump, InvokeStep, WalkStep DEF Pump
    <3>4. CASE \/ Around \/ UNCHANGED vars
               \/ (\E k \in {"ping", "echo", "proto"} : SendUnasked(k))
      BY <2>0, <3>4, StillPump
    <3> QED BY <1>2, <3>1, <3>2, <3>3, <3>4 DEF Next, System, External, Around
  <2> QED BY <2>1, <2>2 DEF RegInv
<1>3. Spec => []Others BY OpsInvariant, StreamInvariant, PTL
<1> QED BY <1>1, <1>2, <1>3, PTL DEF Spec

(* No request is handed a response that some request had been handed       *)
(* before it registered.  The pump follows next pointers, which the list,  *)
(* however torn by unlocked updates, only ever leads to entries that       *)
(* registered no later than the entry they are read from; a walk begins    *)
(* with a frame that nobody has been handed, so it meets no entry that     *)
(* registered after.                                                       *)
THEOREM NeverReplayed == Spec => []ResponseNotReplayed
<1>1. RegInv => ResponseNotReplayed BY DEF RegInv, ReplayInv, ResponseNotReplayed
<1> QED BY <1>1, RegInvariant, PTL

-----------------------------------------------------------------------------
(* The list, and what Forward computes of it.                              *)

LEMMA LeastNat ==
    ASSUME NEW T, T \subseteq Nat, T # {}
    PROVE  \E x \in T : \A y \in T : x <= y
<1>1. \E x \in T : \A y \in T : ~(<<y, x>> \in OpToRel(<, Nat))
  BY NatLessThanWellFounded, WFMin
<1>2. PICK x \in T : \A y \in T : ~(<<y, x>> \in OpToRel(<, Nat)) BY <1>1
<1>3. ASSUME NEW y \in T PROVE x <= y
  <2>1. <<y, x>> \notin {ss \in Nat \X Nat : ss[1] < ss[2]} BY <1>2 DEF OpToRel
  <2>2. ~(y < x) BY <2>1
  <2> QED BY <2>2
<1> QED BY <1>3

LEMMA NatSteps ==
    ASSUME NEW T, 0 \in T, \A k \in Nat : k \in T => k + 1 \in T
    PROVE  Nat \subseteq T
<1>1. SUFFICES ASSUME Nat \ T # {} PROVE FALSE OBVIOUS
<1>2. PICK x \in Nat \ T : \A y \in Nat \ T : x <= y BY LeastNat, <1>1
<1>3. x # 0 /\ x - 1 \in Nat BY <1>2
<1>4. x - 1 \in T BY <1>2, <1>3
<1> QED BY <1>2, <1>3, <1>4

\* The walk of j steps along next from n ends at x and does not meet the root.
Path(j, n, x, p, L) ==
    /\ p \in [0 .. j -> Nodes] /\ p[0] = n /\ p[j] = x
    /\ \A i \in 0 .. j : p[i] # Root
    /\ \A i \in 0 .. j - 1 : p[i + 1] = L[p[i]].next

Within(k, n, L) == {x \in Nodes : \E j \in Nat : j < k /\ \E p : Path(j, n, x, p, L)}

\* What can be reached within k + 1 steps is the element and what its next can within k.
LEMMA WithinStep ==
    ASSUME NEW L, NEW n \in Nodes, n # Root, L[n].next \in Nodes, NEW k \in Nat, k # 0
    PROVE  Within(k, n, L) = {n} \cup Within(k - 1, L[n].next, L)
<1>0. k - 1 \in Nat BY SMT
<1>1. n \in Within(k, n, L)
  <2>1. Path(0, n, n, [i \in 0 .. 0 |-> n], L) BY DEF Path
  <2> QED BY <2>1 DEF Within
<1>2. ASSUME NEW x \in Within(k, n, L), x # n PROVE x \in Within(k - 1, L[n].next, L)
  <2>1. PICK j \in Nat : j < k /\ \E p : Path(j, n, x, p, L) BY <1>2 DEF Within
  <2>2. PICK p : Path(j, n, x, p, L) BY <2>1
  <2>3. j # 0 BY <1>2, <2>2 DEF Path
  <2>4. j - 1 \in Nat /\ j - 1 < k - 1 BY <2>1, <2>3
  <2>5. Path(j - 1, L[n].next, x, [i \in 0 .. j - 1 |-> p[i + 1]], L)
    <3>1. \A i \in 0 .. j - 1 : i \in 0 .. j /\ i + 1 \in 0 .. j BY <2>4
    <3>2. [i \in 0 .. j - 1 |-> p[i + 1]] \in [0 .. j - 1 -> Nodes] BY <2>2, <3>1 DEF Path
    <3>3. p[1] = L[n].next
      <4>1. 0 \in 0 .. j - 1 /\ 0 + 1 = 1 BY <2>4
      <4>2. p[0 + 1] = L[p[0]].next BY <2>2, <4>1 DEF Path
      <4> QED BY <2>2, <4>1, <4>2 DEF Path
    <3>4. [i \in 0 .. j - 1 |-> p[i + 1]][0] = p[1] /\ [i \in 0 .. j - 1 |-> p[i + 1]][j - 1] = p[j]
      BY <2>3, <2>4
    <3>5. ASSUME NEW i \in 0 .. (j - 1) - 1
          PROVE  [h \in 0 .. j - 1 |-> p[h + 1]][i + 1] = L[[h \in 0 .. j - 1 |-> p[h + 1]][i]].next
      <4>1. i \in 0 .. j - 1 /\ i + 1 \in 0 .. j - 1 /\ (i + 1) + 1 \in 0 .. j BY <2>4
      <4>2. p[(i + 1) + 1] = L[p[i + 1]].next BY <2>2, <4>1 DEF Path
      <4> QED BY <4>1, <4>2
    <3> QED BY <2>2, <3>1, <3>2, <3>3, <3>4, <3>5 DEF Path
  <2> QED BY <1>2, <2>4, <2>5 DEF Within
<1>3. ASSUME NEW x \in Within(k - 1, L[n].next, L) PROVE x \in Within(k, n, L)
  <2>1. PICK j \in Nat : j < k - 1 /\ \E p : Path(j, L[n].next, x, p, L) BY <1>3 DEF Within
  <2>2. PICK p : Path(j, L[n].next, x, p, L) BY <2>1
  <2>4. j + 1 \in Nat /\ j + 1 < k BY <2>1
  <2>5. PICK q : q = [i \in 0 .. j + 1 |-> IF i = 0 THEN n ELSE p[i - 1]] OBVIOUS
  <2>6. q[0] = n /\ \A i \in 0 .. j : q[i + 1] = p[i] BY <2>5
  <2>7. Path(j + 1, n, x, q, L)
    <3>1. \A i \in 0 .. j + 1 : i # 0 => i - 1 \in 0 .. j OBVIOUS
    <3>2. q \in [0 .. j + 1 -> Nodes] BY <2>2, <2>5, <3>1 DEF Path
    <3>3. q[j + 1] = x BY <2>2, <2>6 DEF Path
    <3>4. \A i \in 0 .. j + 1 : q[i] # Root BY <2>2, <2>5, <3>1 DEF Path
    <3>5. ASSUME NEW i \in 0 .. (j + 1) - 1 PROVE q[i + 1] = L[q[i]].next
      <4>1. i \in 0 .. j /\ q[i + 1] = p[i] BY <2>6
      <4>2. CASE i = 0 BY <2>2, <2>6, <4>1, <4>2 DEF Path
      <4>3. CASE i # 0
        <5>1. i - 1 \in 0 .. j - 1 /\ (i - 1) + 1 = i /\ i - 1 \in 0 .. j BY <4>1, <4>3
        <5>2. p[i] = L[p[i - 1]].next BY <2>2, <5>1 DEF Path
        <5>3. q[i] = p[i - 1] BY <2>6, <5>1
        <5> QED BY <4>1, <5>2, <5>3
      <4> QED BY <4>2, <4>3
    <3> QED BY <2>6, <3>2, <3>3, <3>4, <3>5 DEF Path
  <2> QED BY <1>3, <2>4, <2>7 DEF Within
<1>4. Within(k, n, L) \subseteq {n} \cup Within(k - 1, L[n].next, L) BY <1>2
<1> QED BY <1>1, <1>3, <1>4

LEMMA WithinNone ==
    ASSUME NEW L, NEW n \in Nodes, NEW k \in Nat, k = 0 \/ n = Root
    PROVE  Within(k, n, L) = {}
<1>1. ASSUME NEW j \in Nat, j < k, NEW x, NEW p, Path(j, n, x, p, L) PROVE FALSE
  <2>1. 0 \in 0 .. j OBVIOUS
  <2> QED BY <1>1, <2>1 DEF Path
<1> QED BY <1>1 DEF Within

\* The recursion of Forward defines a function.
LEMMA ForwardDef ==
    ASSUME \A n \in Nodes : links[n].next \in Nodes, NEW k \in Nat, NEW n \in Nodes
    PROVE  Forward[k][n] = IF k = 0 \/ n = Root THEN {} ELSE {n} \cup Forward[k - 1][links[n].next]
<1> DEFINE Solves(F) == F = [h \in Nat |-> [m \in Nodes |->
                            IF h = 0 \/ m = Root THEN {} ELSE {m} \cup F[h - 1][links[m].next]]]
           W == [h \in Nat |-> [m \in Nodes |-> Within(h, m, links)]]
<1>1. ASSUME NEW h \in Nat, NEW m \in Nodes
      PROVE  Within(h, m, links)
               = IF h = 0 \/ m = Root THEN {} ELSE {m} \cup W[h - 1][links[m].next]
  <2>1. CASE h = 0 \/ m = Root BY <2>1, WithinNone
  <2>2. CASE ~(h = 0 \/ m = Root)
    <3>1. h - 1 \in Nat /\ links[m].next \in Nodes BY <2>2
    <3>2. W[h - 1][links[m].next] = Within(h - 1, links[m].next, links) BY <3>1
    <3>3. Within(h, m, links) = {m} \cup Within(h - 1, links[m].next, links)
      BY <2>2, <3>1, WithinStep
    <3> QED BY <2>2, <3>2, <3>3
  <2> QED BY <2>1, <2>2
<1>2. Solves(W)
  <2> HIDE DEF W
  <2>1. \A h \in Nat : [m \in Nodes |-> Within(h, m, links)]
          = [m \in Nodes |-> IF h = 0 \/ m = Root THEN {} ELSE {m} \cup W[h - 1][links[m].next]]
    BY <1>1
  <2>2. W = [h \in Nat |-> [m \in Nodes |-> Within(h, m, links)]] BY Zenon DEF W
  <2>3. W = [h \in Nat |-> [m \in Nodes |->
                 IF h = 0 \/ m = Root THEN {} ELSE {m} \cup W[h - 1][links[m].next]]]
    BY <2>1, <2>2, Zenon
  <2> QED BY <2>3, Zenon
<1>3. \E F : F = [h \in Nat |-> [m \in Nodes |->
                   IF h = 0 \/ m = Root THEN {} ELSE {m} \cup F[h - 1][links[m].next]]]
  BY <1>2, Zenon
<1> HIDE DEF W
<1>4. Forward = [h \in Nat |-> [m \in Nodes |->
                   IF h = 0 \/ m = Root THEN {} ELSE {m} \cup Forward[h - 1][links[m].next]]]
  BY <1>3, Zenon DEF Forward
<1>5. Forward[k] = [m \in Nodes |->
                   IF k = 0 \/ m = Root THEN {} ELSE {m} \cup Forward[k - 1][links[m].next]]
  BY <1>4, Zenon
<1> QED BY <1>5, Zenon

(* Linked L as a list: s runs from the root over the m elements of E, each *)
(* once, and back to the root; next and prev are inverse to each other.    *)
IsList(m, s, L, E) ==
    /\ m \in Nat /\ s \in [0 .. m + 1 -> Nodes] /\ s[0] = Root /\ s[m + 1] = Root
    /\ E \subseteq Calls /\ E = {s[i] : i \in 1 .. m}
    /\ \A i, j \in 0 .. m : s[i] = s[j] => i = j
    /\ \A i \in 0 .. m : L[s[i]].next = s[i + 1] /\ L[s[i + 1]].prev = s[i]

LEMMA ListLength ==
    ASSUME NEW m, NEW s, NEW L, NEW E, IsList(m, s, L, E)
    PROVE  Cardinality(Calls) \in Nat /\ m <= Cardinality(Calls)
<1>0. IsFiniteSet(Calls) /\ m \in Nat BY XodusAssumption DEF IsList
<1>1. \A i \in 1 .. m : s[i] \in Calls /\ i \in 0 .. m BY <1>0 DEF IsList
<1>2. [i \in 1 .. m |-> s[i]] \in Injection(1 .. m, Calls) BY <1>1 DEF Injection, IsInjective, IsList
<1>3. Cardinality(1 .. m) <= Cardinality(Calls) BY <1>0, <1>2, FS_Injection
<1>4. Cardinality(1 .. m) = m
  <2>1. Cardinality(1 .. m) = IF 1 > m THEN 0 ELSE m - 1 + 1 BY <1>0, FS_Interval
  <2> QED BY <1>0, <2>1
<1> QED BY <1>0, <1>3, <1>4, FS_CardinalityType

\* A walk from the root of a list meets its elements and nothing else.
LEMMA ForwardList ==
    ASSUME NEW m, NEW s, NEW E, IsList(m, s, links, E), \A n \in Nodes : links[n].next \in Nodes
    PROVE  Listed = E
<1>0. m \in Nat /\ Root \notin Calls BY XodusAssumption DEF IsList
<1> DEFINE Upto(k, i) == {s[j] : j \in {h \in i .. m : h < i + k}}
           T == {k \in Nat : \A i \in 1 .. m + 1 : Forward[k][s[i]] = Upto(k, i)}
<1>1. \A i \in 1 .. m + 1 : s[i] \in Nodes /\ (i # m + 1 <=> s[i] # Root)
  <2>1. ASSUME NEW i \in 1 .. m + 1, i # m + 1 PROVE s[i] \in E
    <3>1. i \in 1 .. m BY <1>0, <2>1
    <3> QED BY <3>1 DEF IsList
  <2>2. \A i \in 1 .. m + 1 : s[i] \in Nodes BY <1>0 DEF IsList
  <2> QED BY <1>0, <2>1, <2>2 DEF IsList
<1>2. 0 \in T
  <2>1. ASSUME NEW i \in 1 .. m + 1 PROVE Forward[0][s[i]] = Upto(0, i)
    <3>1. s[i] \in Nodes BY <1>1
    <3>2. Forward[0][s[i]] = {} BY <3>1, ForwardDef
    <3>3. Upto(0, i) = {}
      <4>1. {h \in i .. m : h < i + 0} = {} BY <1>0
      <4> QED BY <4>1
    <3> QED BY <3>2, <3>3
  <2> QED BY <2>1
<1>3. ASSUME NEW k \in Nat, k \in T PROVE k + 1 \in T
  <2>1. ASSUME NEW i \in 1 .. m + 1 PROVE Forward[k + 1][s[i]] = Upto(k + 1, i)
    <3>0. k + 1 \in Nat /\ k + 1 # 0 /\ (k + 1) - 1 = k BY SMT
    <3>1. CASE i = m + 1
      <4>1. Forward[k + 1][s[i]] = {} BY <1>1, <3>0, <3>1, ForwardDef
      <4>2. Upto(k + 1, i) = {} BY <1>0, <3>1
      <4> QED BY <4>1, <4>2
    <3>2. CASE i # m + 1
      <4>1. i \in 1 .. m /\ i \in 0 .. m /\ i + 1 \in 1 .. m + 1 BY <1>0, <3>2
      <4>2. links[s[i]].next = s[i + 1] BY <4>1 DEF IsList
      <4>3. s[i] \in Nodes /\ s[i] # Root BY <1>1, <3>2
      <4>4. Forward[k + 1][s[i]]
              = IF k + 1 = 0 \/ s[i] = Root THEN {}
                ELSE {s[i]} \cup Forward[(k + 1) - 1][links[s[i]].next]
        BY <3>0, <4>3, ForwardDef
      <4>5. Forward[k + 1][s[i]] = {s[i]} \cup Forward[k][s[i + 1]] BY <3>0, <4>2, <4>3, <4>4
      <4>6. Forward[k][s[i + 1]] = Upto(k, i + 1) BY <1>3, <4>1
      <4>7. {h \in i .. m : h < i + (k + 1)} = {i} \cup {h \in (i + 1) .. m : h < (i + 1) + k}
        BY <1>0, <4>1
      <4>8. Upto(k + 1, i) = {s[i]} \cup Upto(k, i + 1) BY <4>7
      <4> QED BY <4>5, <4>6, <4>8
    <3> QED BY <3>1, <3>2
  <2> QED BY <2>1
<1>4. Nat \subseteq T
  <2> HIDE DEF T
  <2> QED BY <1>2, <1>3, NatSteps
<1>5. PICK K \in Nat : K = Cardinality(Calls) /\ m <= K BY ListLength
<1>6. Forward[K][s[1]] = Upto(K, 1)
  <2>1. K \in T
    <3> HIDE DEF T
    <3> QED BY <1>4
  <2>2. 1 \in 1 .. m + 1 BY <1>0
  <2> QED BY <2>1, <2>2
<1>7. Upto(K, 1) = E
  <2>1. {h \in 1 .. m : h < 1 + K} = 1 .. m BY <1>0, <1>5
  <2> QED BY <2>1 DEF IsList
<1>8. links[Root].next = s[1]
  <2>1. 0 \in 0 .. m /\ 0 + 1 = 1 BY <1>0
  <2>2. links[s[0]].next = s[0 + 1] BY <2>1 DEF IsList
  <2> QED BY <2>1, <2>2 DEF IsList
<1> QED BY <1>5, <1>6, <1>7, <1>8 DEF Listed

\* list_add_head.
LEMMA InsertHead ==
    ASSUME NEW m, NEW s, NEW L, NEW E, IsList(m, s, L, E), NEW c \in Calls, c \notin E, NEW K,
           \A n \in Nodes :
              /\ K[n].next = IF n = c THEN L[Root].next ELSE IF n = Root THEN c ELSE L[n].next
              /\ K[n].prev = IF n = c THEN Root ELSE IF n = L[Root].next THEN c ELSE L[n].prev
    PROVE  \E r : IsList(m + 1, r, K, E \cup {c})
<1>0. m \in Nat /\ Root \notin Calls /\ Calls \subseteq Nodes /\ Root \in Nodes
  BY XodusAssumption DEF IsList, Nodes
<1>1. PICK r : r = [i \in 0 .. (m + 1) + 1 |-> IF i = 0 THEN Root ELSE IF i = 1 THEN c ELSE s[i - 1]]
  OBVIOUS
<1>2. /\ s \in [0 .. m + 1 -> Nodes] /\ s[0] = Root /\ s[m + 1] = Root /\ L[Root].next = s[1]
      /\ \A i \in 1 .. m : s[i] \in E /\ s[i] # Root /\ s[i] # c
  <2>1. 0 \in 0 .. m /\ 0 + 1 = 1 BY <1>0
  <2>2. L[s[0]].next = s[0 + 1] BY <2>1 DEF IsList
  <2>3. \A i \in 1 .. m : s[i] \in E BY DEF IsList
  <2> QED BY <1>0, <2>1, <2>2, <2>3 DEF IsList
<1>3. /\ r[0] = Root /\ r[1] = c /\ r[(m + 1) + 1] = Root
      /\ \A i \in 1 .. m + 1 : r[i + 1] = s[i]
  BY <1>0, <1>1, <1>2
<1>4. r \in [0 .. (m + 1) + 1 -> Nodes]
  <2>1. \A i \in 0 .. (m + 1) + 1 : i # 0 /\ i # 1 => i - 1 \in 0 .. m + 1 BY <1>0
  <2> QED BY <1>0, <1>1, <1>2, <2>1
<1>5. E \cup {c} = {r[i] : i \in 1 .. m + 1}
  <2>1. \A i \in 1 .. m : i + 1 \in 1 .. m + 1 /\ r[i + 1] = s[i] BY <1>0, <1>3
  <2>2. \A i \in 1 .. m + 1 : i = 1 \/ (i - 1 \in 1 .. m /\ r[i] = s[i - 1]) BY <1>0, <1>1
  <2>3. 1 \in 1 .. m + 1 BY <1>0
  <2>4. ASSUME NEW x \in E \cup {c} PROVE \E i \in 1 .. m + 1 : x = r[i]
    <3>1. CASE x = c BY <1>3, <2>3, <3>1
    <3>2. CASE x # c
      <4>1. PICK h \in 1 .. m : x = s[h] BY <3>2 DEF IsList
      <4> QED BY <2>1, <4>1
    <3> QED BY <3>1, <3>2
  <2>5. ASSUME NEW i \in 1 .. m + 1 PROVE r[i] \in E \cup {c}
    <3>1. CASE i = 1 BY <1>3, <3>1
    <3>2. CASE i # 1 BY <1>2, <2>2, <3>2
    <3> QED BY <3>1, <3>2
  <2> QED BY <2>4, <2>5
<1>6. ASSUME NEW i \in 0 .. m + 1, NEW j \in 0 .. m + 1, r[i] = r[j] PROVE i = j
  <2>1. \A h \in 0 .. m + 1 : h = 0 \/ h = 1 \/ (h - 1 \in 1 .. m /\ h - 1 \in 0 .. m /\ r[h] = s[h - 1])
    BY <1>0, <1>1
  <2>2. CASE i \in {0, 1} \/ j \in {0, 1} BY <1>0, <1>2, <1>3, <1>6, <2>1, <2>2
  <2>3. CASE i \notin {0, 1} /\ j \notin {0, 1}
    <3>1. s[i - 1] = s[j - 1] /\ i - 1 \in 0 .. m /\ j - 1 \in 0 .. m BY <1>6, <2>1, <2>3
    <3>2. i - 1 = j - 1 BY <3>1 DEF IsList
    <3> QED BY <3>2
  <2> QED BY <2>2, <2>3
<1>7. ASSUME NEW i \in 0 .. m + 1 PROVE K[r[i]].next = r[i + 1] /\ K[r[i + 1]].prev = r[i]
  <2>1. CASE i = 0
    <3>1. r[0] = Root /\ r[0 + 1] = c BY <1>3
    <3> QED BY <1>0, <2>1, <3>1
  <2>2. CASE i = 1
    <3>1. r[i] = c /\ r[i + 1] = s[1] /\ s[1] \in Nodes /\ s[1] # c
      <4>1. 1 \in 1 .. m + 1 /\ 1 \in 0 .. m + 1 /\ (1 = m + 1 \/ 1 \in 1 .. m) BY <1>0
      <4>2. r[1 + 1] = s[1] BY <1>3, <4>1
      <4> QED BY <1>0, <1>2, <1>3, <2>2, <4>1, <4>2
    <3> QED BY <1>0, <1>2, <3>1
  <2>3. CASE i # 0 /\ i # 1
    <3>1. PICK h \in 1 .. m : h = i - 1 BY <1>0, <2>3
    <3>2. h \in 0 .. m /\ h + 1 = i /\ h \in 1 .. m + 1 /\ h + 1 \in 1 .. m + 1 BY <1>0, <3>1
    <3>3. r[i] = s[h] /\ r[i + 1] = s[h + 1] BY <1>3, <3>2
    <3>4. L[s[h]].next = s[h + 1] /\ L[s[h + 1]].prev = s[h] BY <3>2 DEF IsList
    <3>5. s[h] # Root /\ s[h] # c /\ s[h] \in Nodes BY <1>2, <3>2
    <3>6. s[h + 1] # c /\ s[h + 1] \in Nodes
      <4>1. h + 1 = m + 1 \/ h + 1 \in 1 .. m BY <1>0, <3>1
      <4> QED BY <1>0, <1>2, <4>1
    <3>7. s[h + 1] # s[1]
      <4>1. h + 1 = m + 1 \/ h + 1 \in 0 .. m BY <1>0, <3>1
      <4>2. 1 \in 0 .. m /\ 1 \in 1 .. m BY <1>0, <3>1
      <4>3. h + 1 # 1 BY <3>1
      <4> QED BY <1>2, <4>1, <4>2, <4>3 DEF IsList
    <3> QED BY <1>2, <3>3, <3>4, <3>5, <3>6, <3>7
  <2> QED BY <2>1, <2>2, <2>3
<1>8. m + 1 \in Nat /\ E \cup {c} \subseteq Calls BY <1>0 DEF IsList
<1>9. IsList(m + 1, r, K, E \cup {c}) BY <1>3, <1>4, <1>5, <1>6, <1>7, <1>8 DEF IsList
<1> QED BY <1>9

\* list_remove.
LEMMA RemoveEntry ==
    ASSUME NEW m, NEW s, NEW L, NEW E, IsList(m, s, L, E), NEW c \in E, NEW K,
           \A n \in Nodes :
              /\ K[n].next = IF n = L[c].prev THEN L[c].next ELSE L[n].next
              /\ K[n].prev = IF n = L[c].next THEN L[c].prev ELSE L[n].prev
    PROVE  \E r : IsList(m - 1, r, K, E \ {c})
<1>0. m \in Nat /\ Root \notin Calls /\ Calls \subseteq Nodes /\ Root \in Nodes
  BY XodusAssumption DEF IsList, Nodes
<1>1. PICK a \in 1 .. m : s[a] = c BY DEF IsList
<1>2. a - 1 \in 0 .. m /\ a \in 0 .. m /\ (a - 1) + 1 = a /\ m - 1 \in Nat /\ (m - 1) + 1 = m BY <1>0, <1>1
<1>3. L[c].next = s[a + 1] /\ L[c].prev = s[a - 1]
  <2>1. L[s[a]].next = s[a + 1] /\ L[s[(a - 1) + 1]].prev = s[a - 1] BY <1>2 DEF IsList
  <2> QED BY <1>1, <1>2, <2>1
<1>4. /\ s \in [0 .. m + 1 -> Nodes] /\ s[0] = Root /\ s[m + 1] = Root
      /\ \A i \in 1 .. m : s[i] \in E /\ s[i] # Root
      /\ \A i, j \in 0 .. m : s[i] = s[j] => i = j
  <2>1. \A i \in 1 .. m : s[i] \in E BY DEF IsList
  <2> QED BY <1>0, <2>1 DEF IsList
<1>5. \A i, j \in 1 .. m + 1 : s[i] = s[j] => i = j
  <2>1. \A i \in 1 .. m + 1 : i = m + 1 \/ (i \in 1 .. m /\ i \in 0 .. m) BY <1>0
  <2> QED BY <1>4, <2>1
<1>6. PICK r : r = [i \in 0 .. m |-> IF i < a THEN s[i] ELSE s[i + 1]] OBVIOUS
<1>7. /\ \A i \in 0 .. m : /\ i < a => r[i] = s[i] /\ i \in 0 .. m + 1
                           /\ i >= a => r[i] = s[i + 1] /\ i + 1 \in 0 .. m + 1
      /\ \A i \in 0 .. m : i < a \/ i >= a
  BY <1>0, <1>2, <1>6
<1>8. r \in [0 .. (m - 1) + 1 -> Nodes] /\ r[0] = Root /\ r[(m - 1) + 1] = Root
  <2>1. r \in [0 .. m -> Nodes] BY <1>4, <1>6, <1>7
  <2>2. 0 \in 0 .. m /\ 0 < a /\ m \in 0 .. m /\ m >= a BY <1>0, <1>1
  <2> QED BY <1>2, <1>4, <1>7, <2>1, <2>2
<1>9. E \ {c} = {r[i] : i \in 1 .. m - 1}
  <2>1. ASSUME NEW x \in E \ {c} PROVE \E i \in 1 .. m - 1 : x = r[i]
    <3>1. PICK h \in 1 .. m : x = s[h] BY DEF IsList
    <3>2. h # a BY <1>1, <2>1, <3>1
    <3>3. CASE h < a
      <4>1. h \in 1 .. m - 1 /\ h \in 0 .. m BY <1>0, <1>1, <3>3
      <4> QED BY <1>7, <3>1, <3>3, <4>1
    <3>4. CASE h > a
      <4>1. h - 1 \in 1 .. m - 1 /\ h - 1 \in 0 .. m /\ h - 1 >= a /\ (h - 1) + 1 = h
        BY <1>0, <1>1, <3>4
      <4> QED BY <1>7, <3>1, <4>1
    <3> QED BY <1>0, <1>1, <3>1, <3>2, <3>3, <3>4
  <2>2. ASSUME NEW i \in 1 .. m - 1 PROVE r[i] \in E \ {c}
    <3>1. i \in 0 .. m /\ i \in 1 .. m /\ i + 1 \in 1 .. m /\ i + 1 \in 0 .. m BY <1>0
    <3>2. CASE i < a
      <4>1. r[i] = s[i] /\ i # a BY <1>7, <3>1, <3>2
      <4> QED BY <1>1, <1>2, <1>4, <3>1, <4>1
    <3>3. CASE i >= a
      <4>1. r[i] = s[i + 1] /\ i + 1 # a BY <1>7, <1>1, <3>1, <3>3
      <4> QED BY <1>1, <1>2, <1>4, <3>1, <4>1
    <3> QED BY <1>7, <3>1, <3>2, <3>3
  <2> QED BY <2>1, <2>2
<1>10. ASSUME NEW i \in 0 .. m - 1, NEW j \in 0 .. m - 1, r[i] = r[j] PROVE i = j
  <2>1. /\ i \in 0 .. m /\ i + 1 \in 0 .. m /\ j \in 0 .. m /\ j + 1 \in 0 .. m BY <1>0
  <2>2. CASE i < a /\ j < a BY <1>4, <1>7, <1>10, <2>1, <2>2
  <2>3. CASE i >= a /\ j >= a
    <3>1. i + 1 = j + 1 BY <1>4, <1>7, <1>10, <2>1, <2>3
    <3> QED BY <3>1
  <2>4. CASE i < a /\ j >= a
    <3>1. i = j + 1 BY <1>4, <1>7, <1>10, <2>1, <2>4
    <3> QED BY <1>1, <2>4, <3>1
  <2>5. CASE i >= a /\ j < a
    <3>1. i + 1 = j BY <1>4, <1>7, <1>10, <2>1, <2>5
    <3> QED BY <1>1, <2>5, <3>1
  <2> QED BY <1>7, <2>1, <2>2, <2>3, <2>4, <2>5
<1>11. ASSUME NEW i \in 0 .. m - 1 PROVE K[r[i]].next = r[i + 1] /\ K[r[i + 1]].prev = r[i]
  <2>1. i \in 0 .. m /\ i + 1 \in 0 .. m /\ i + 1 \in 1 .. m + 1 /\ a + 1 \in 1 .. m + 1 BY <1>0, <1>1
  <2>2. CASE i + 1 < a
    <3>1. i < a /\ i # a - 1 /\ i + 1 # a + 1 BY <1>1, <2>2
    <3>2. r[i] = s[i] /\ r[i + 1] = s[i + 1] BY <1>7, <2>1, <2>2, <3>1
    <3>3. s[i] # s[a - 1] /\ s[i + 1] # s[a + 1] BY <1>2, <1>4, <1>5, <2>1, <3>1
    <3>4. L[s[i]].next = s[i + 1] /\ L[s[i + 1]].prev = s[i] BY <2>1 DEF IsList
    <3>5. s[i] \in Nodes /\ s[i + 1] \in Nodes
      <4>1. i \in 0 .. m + 1 /\ i + 1 \in 0 .. m + 1 BY <1>0
      <4> QED BY <1>4, <4>1
    <3> QED BY <1>3, <3>2, <3>3, <3>4, <3>5
  <2>3. CASE i + 1 = a
    <3>1. i < a /\ i = a - 1 /\ i + 1 >= a /\ i + 1 + 1 = a + 1 BY <1>1, <2>3
    <3>2. r[i] = s[a - 1] /\ r[i + 1] = s[a + 1] BY <1>7, <2>1, <3>1
    <3>3. s[a - 1] \in Nodes /\ s[a + 1] \in Nodes
      <4>1. a - 1 \in 0 .. m + 1 /\ a + 1 \in 0 .. m + 1 BY <1>0, <1>1
      <4> QED BY <1>4, <4>1
    <3> QED BY <1>3, <3>2, <3>3
  <2>4. CASE i + 1 > a
    <3>1. i >= a /\ i + 1 >= a BY <1>1, <2>4
    <3>2. r[i] = s[i + 1] /\ r[i + 1] = s[i + 1 + 1] BY <1>7, <2>1, <3>1
    <3>3. i + 1 # a - 1 /\ i + 1 + 1 # a + 1 /\ i + 1 + 1 \in 1 .. m + 1 BY <1>0, <1>1, <2>4
    <3>4. s[i + 1] # s[a - 1] /\ s[i + 1 + 1] # s[a + 1] BY <1>2, <1>4, <1>5, <2>1, <3>3
    <3>5. L[s[i + 1]].next = s[i + 1 + 1] /\ L[s[i + 1 + 1]].prev = s[i + 1] BY <2>1 DEF IsList
    <3>6. s[i + 1] \in Nodes /\ s[i + 1 + 1] \in Nodes
      <4>1. i + 1 \in 0 .. m + 1 /\ i + 1 + 1 \in 0 .. m + 1 BY <1>0
      <4> QED BY <1>4, <4>1
    <3> QED BY <1>3, <3>2, <3>4, <3>5, <3>6
  <2> QED BY <1>1, <2>1, <2>2, <2>3, <2>4
<1>12. IsList(m - 1, r, K, E \ {c})
  <2>1. E \ {c} \subseteq Calls BY DEF IsList
  <2> QED BY <1>2, <1>8, <1>9, <1>10, <1>11, <2>1 DEF IsList
<1> QED BY <1>12

-----------------------------------------------------------------------------
(* The list as long as no two threads change it at the same time.          *)

Registered == {"send", "rest", "wait", "unlink", "unlinkLate"}

\* The entry of request c is in the list: it has not unregistered, or its write failed.
InList(c) == req[c] \in Registered \/ c \in unsent

Intact ==
    /\ \E m, s : IsList(m, s, links, entered)
    /\ \A c, d \in Updating : c = d
    /\ \A c \in Calls : req[c] = "link" => snap[c].next = links[Root].next /\ snap[c].prev = Root
    /\ \A c \in Calls : req[c] \in {"unlink", "unlinkLate"} => snap[c] = links[c]
    /\ \A c \in Calls : c \in entered <=> InList(c)

ShapeInv == (\A c \in unsent : req[c] = "done") /\ (torn \/ Intact)

\* The pump stands at an entry, or at one that was removed in this walk.
WalkInv == torn \/ (stray = {} /\ (Walking => cursor \in entered \/ disturbed))

\* The types that OpTypes, StreamTypes and RegTypes leave out.
RestTypes ==
    /\ ready \in [Calls -> BOOLEAN]
    /\ unsent \subseteq Calls /\ entered \subseteq Calls /\ stray \subseteq Calls
    /\ deaf \in BOOLEAN /\ closed \in BOOLEAN /\ torn \in BOOLEAN /\ disturbed \in BOOLEAN
    /\ full \in BOOLEAN /\ broken \in BOOLEAN
    /\ faults \in 0 .. MaxFaults

LEMMA InitList == Init => ShapeInv /\ WalkInv /\ RestTypes
<1> SUFFICES ASSUME Init PROVE ShapeInv /\ WalkInv /\ RestTypes OBVIOUS
<1>1. /\ req = [c \in Calls |-> "idle"] /\ links = [n \in Nodes |-> Nowhere] /\ unsent = {}
      /\ entered = {} /\ stray = {} /\ torn = FALSE /\ disturbed = FALSE /\ pump = "poll"
      /\ ready = [c \in Calls |-> FALSE] /\ deaf = FALSE /\ closed = FALSE /\ faults = 0
      /\ full = FALSE /\ broken = FALSE
  BY DEF Init
<1>2. Root \in Nodes /\ Nowhere.next = Root /\ Nowhere.prev = Root /\ MaxFaults \in Nat
  BY XodusAssumption DEF Nodes, Nowhere
<1>3. IsList(0, [i \in 0 .. 1 |-> Root], links, entered)
  <2>1. PICK s : s = [i \in 0 .. 1 |-> Root] OBVIOUS
  <2>2. s \in [0 .. 0 + 1 -> Nodes] /\ s[0] = Root /\ s[0 + 1] = Root BY <1>2, <2>1
  <2>3. \A i \in 0 .. 0 : i = 0 OBVIOUS
  <2>4. {s[i] : i \in 1 .. 0} = {} OBVIOUS
  <2>5. IsList(0, s, links, entered) BY <1>1, <1>2, <2>2, <2>3, <2>4 DEF IsList
  <2> QED BY <2>1, <2>5
<1>4. Intact BY <1>1, <1>3 DEF Intact, Updating, InList, Registered
<1>5. RestTypes
  <2>1. faults \in 0 .. MaxFaults BY <1>1, <1>2
  <2>2. ready \in [Calls -> BOOLEAN] BY <1>1
  <2>3. deaf \in BOOLEAN /\ closed \in BOOLEAN /\ torn \in BOOLEAN /\ disturbed \in BOOLEAN
        /\ full \in BOOLEAN /\ broken \in BOOLEAN
    BY <1>1
  <2> QED BY <1>1, <2>1, <2>2, <2>3 DEF RestTypes
<1> QED BY <1>1, <1>4, <1>5 DEF ShapeInv, WalkInv, Walking

\* The walk of a list.
LEMMA NextListed ==
    ASSUME NEW m, NEW s, NEW L, NEW E, IsList(m, s, L, E), NEW n \in E \cup {Root}
    PROVE  L[n].next \in E \cup {Root} /\ L[L[n].next].prev = n
<1>0. m \in Nat BY DEF IsList
<1>1. PICK i \in 0 .. m : n = s[i]
  <2>1. CASE n = Root
    <3>1. 0 \in 0 .. m /\ s[0] = Root BY <1>0 DEF IsList
    <3> QED BY <2>1, <3>1
  <2>2. CASE n # Root
    <3>1. PICK i \in 1 .. m : n = s[i] BY <2>2 DEF IsList
    <3>2. i \in 0 .. m BY <1>0
    <3> QED BY <3>1, <3>2
  <2> QED BY <2>1, <2>2
<1>2. L[n].next = s[i + 1] /\ L[s[i + 1]].prev = n BY <1>1 DEF IsList
<1>3. i + 1 \in 1 .. m \/ i + 1 = m + 1 BY <1>0
<1>4. s[i + 1] \in E \cup {Root} BY <1>3 DEF IsList
<1> QED BY <1>2, <1>4

\* Steps that leave the list alone.
LEMMA ShapeSame ==
    ASSUME ShapeInv, UNCHANGED <<links, snap, entered, torn>>, \A c \in unsent' : req'[c] = "done",
           ~torn => \A c \in Calls :
             /\ req'[c] = "link" <=> req[c] = "link"
             /\ req'[c] = "unlink" <=> req[c] = "unlink"
             /\ req'[c] = "unlinkLate" <=> req[c] = "unlinkLate"
             /\ InList(c)' <=> InList(c)
    PROVE  ShapeInv'
<1>1. ASSUME ~torn PROVE Intact'
  <2>1. Intact BY <1>1 DEF ShapeInv
  <2>2. (\E m, s : IsList(m, s, links, entered))'
    <3>1. PICK m, s : IsList(m, s, links, entered) BY <2>1 DEF Intact
    <3>2. IsList(m, s, links', entered') BY <3>1
    <3> QED BY <3>2
  <2>3. Updating' = Updating BY <1>1 DEF Updating
  <2>4. (\A c, d \in Updating : c = d)' BY <2>1, <2>3 DEF Intact
  <2>5. \A c \in Calls : /\ req'[c] = "link" => snap'[c].next = links'[Root].next /\ snap'[c].prev = Root
                         /\ req'[c] \in {"unlink", "unlinkLate"} => snap'[c] = links'[c]
                         /\ c \in entered' <=> InList(c)'
    BY <1>1, <2>1 DEF Intact
  <2> QED BY <2>2, <2>4, <2>5 DEF Intact
<1> QED BY <1>1 DEF ShapeInv

\* A request that waits for its response finds its entry.
LEMMA WaitsListed ==
    ASSUME ShapeInv, RegTypes, ~torn, NEW c \in Calls, req[c] = "wait"
    PROVE  c \in Listed
<1>1. Intact BY DEF ShapeInv
<1>2. c \in entered BY <1>1 DEF Intact, InList, Registered
<1>3. PICK m, s : IsList(m, s, links, entered) BY <1>1 DEF Intact
<1>4. Listed = entered BY <1>3, PointerFacts, ForwardList
<1> QED BY <1>2, <1>4

\* Requests that go on without touching the list.
LEMMA ShapeMoves ==
    ASSUME ShapeInv, RegTypes, OpTypes, OpsInv, NEW c \in Calls,
           \/ Call(c) \/ Write(c) \/ WriteRest(c) \/ WriteFails(c) \/ RemoveFails(c)
           \/ RequestReturns(c)
    PROVE  ShapeInv'
<1>0. UNCHANGED <<links, snap, entered, torn>>
  BY DEF Call, Write, WriteRest, WriteFails, RemoveFails, RequestReturns, listVars
<1>1. ASSUME NEW p, NEW from, req[c] = from, req' = [req EXCEPT ![c] = p], unsent' = unsent,
             from # "done", p # "link" /\ p # "unlink" /\ p # "unlinkLate",
             from # "link" /\ from # "unlink" /\ from # "unlinkLate",
             ~torn => (p \in Registered <=> from \in Registered)
      PROVE  ShapeInv'
  <2>1. \A d \in Calls : req'[d] = IF d = c THEN p ELSE req[d] BY <1>1 DEF OpTypes
  <2>2. c \notin unsent BY <1>1 DEF ShapeInv
  <2>3. \A d \in unsent' : req'[d] = "done" 
    <3>1. \A d \in unsent : d # c /\ req[d] = "done" BY <2>2 DEF ShapeInv
    <3>2. \A d : d # c => req'[d] = req[d] BY <1>1 DEF OpTypes
    <3> QED BY <1>1, <3>1, <3>2
  <2>4. ~torn => \A d \in Calls : InList(d)' <=> InList(d) BY <1>1, <2>1 DEF InList
  <2> QED BY <1>0, <1>1, <2>1, <2>3, <2>4, ShapeSame
<1>2. CASE Call(c)
  <2>1. req[c] = "idle" /\ req' = [req EXCEPT ![c] = "queued"] /\ unsent' = unsent
    BY <1>2, XodusAssumption DEF Call, Create, SetReq, OpsInv, OpInv
  <2> QED BY <1>1, <2>1 DEF Registered
<1>3. CASE Write(c)
  <2>1. req[c] = "send" /\ unsent' = unsent /\ \E p \in {"wait", "rest"} : req' = [req EXCEPT ![c] = p]
    BY <1>3 DEF Write, SetReq
  <2> QED BY <1>1, <2>1 DEF Registered
<1>4. CASE WriteRest(c)
  <2>1. req[c] = "rest" /\ unsent' = unsent /\ req' = [req EXCEPT ![c] = "wait"]
    BY <1>4 DEF WriteRest, SetReq
  <2> QED BY <1>1, <2>1 DEF Registered
<1>5. CASE WriteFails(c)
  <2>1. /\ req[c] \in {"send", "rest"} /\ req' = [req EXCEPT ![c] = "done"]
        /\ unsent' = unsent \cup {c}
    BY <1>5 DEF WriteFails, SetReq
  <2>2. \A d \in Calls : req'[d] = IF d = c THEN "done" ELSE req[d] BY <2>1 DEF OpTypes
  <2>3. \A d : d # c => req'[d] = req[d] BY <2>1 DEF OpTypes
  <2>4. \A d \in unsent' : req'[d] = "done" BY <2>1, <2>2, <2>3 DEF ShapeInv
  <2>5. \A d \in Calls : InList(d)' <=> InList(d) BY <2>1, <2>2 DEF InList, Registered
  <2>6. \A d \in Calls : /\ req'[d] = "link" <=> req[d] = "link"
                         /\ req'[d] = "unlink" <=> req[d] = "unlink"
                         /\ req'[d] = "unlinkLate" <=> req[d] = "unlinkLate"
    BY <2>1, <2>2
  <2> QED BY <1>0, <2>4, <2>5, <2>6, ShapeSame
<1>6. CASE RemoveFails(c)
  <2>1. req[c] = "wait" /\ unsent' = unsent /\ req' = [req EXCEPT ![c] = "timeout"] /\ c \notin Listed
    BY <1>6 DEF RemoveFails, SetReq, Unregisters
  <2>2. torn BY <2>1, WaitsListed
  <2> QED BY <1>1, <2>1, <2>2
<1>7. CASE RequestReturns(c)
  <2>1. req[c] \in {"respond", "timeout"} /\ unsent' = unsent /\ req' = [req EXCEPT ![c] = "done"]
    BY <1>7 DEF RequestReturns, SetReq
  <2> QED BY <1>1, <2>1 DEF Registered
<1> QED BY <1>2, <1>3, <1>4, <1>5, <1>6, <1>7

\* A request that is not done is not among those whose write failed, and moves on.
LEMMA ShapeReq ==
    ASSUME ShapeInv, OpTypes, NEW c \in Calls, NEW p, req[c] # "done",
           req' = [req EXCEPT ![c] = p], unsent' = unsent
    PROVE  /\ \A d \in Calls : req'[d] = IF d = c THEN p ELSE req[d]
           /\ c \notin unsent /\ \A d \in unsent' : req'[d] = "done"
<1>1. c \notin unsent BY DEF ShapeInv
<1>2. \A d : d # c => req'[d] = req[d] BY DEF OpTypes
<1>3. \A d \in unsent : d # c /\ req[d] = "done" BY <1>1 DEF ShapeInv
<1> QED BY <1>1, <1>2, <1>3 DEF OpTypes

LEMMA ShapeAddReads ==
    ASSUME ShapeInv, RegTypes, OpTypes, RestTypes, NEW c \in Calls, AddReads(c)
    PROVE  ShapeInv'
<1>0. /\ req[c] = "queued" /\ req' = [req EXCEPT ![c] = "link"] /\ UNCHANGED <<links, entered, unsent>>
      /\ snap' = [snap EXCEPT ![c] = [next |-> links[Root].next, prev |-> Root]]
      /\ torn' = (torn \/ Updating # {})
  BY DEF AddReads, AddAfter, SetReq
<1>1. /\ \A d \in Calls : req'[d] = IF d = c THEN "link" ELSE req[d]
      /\ \A d \in unsent' : req'[d] = "done"
  BY <1>0, ShapeReq
<1>2. ASSUME ~torn' PROVE Intact'
  <2>0. Updating = {} /\ Intact BY <1>0, <1>2 DEF ShapeInv
  <2>1. PICK m, s : IsList(m, s, links, entered) BY <2>0 DEF Intact
  <2>2. IsList(m, s, links', entered') BY <1>0, <2>1
  <2>3. Updating' \subseteq {c} BY <1>1, <2>0 DEF Updating
  <2>4. \A d \in Calls : d # c => req'[d] \notin {"link", "unlink", "unlinkLate"}
    BY <1>1, <2>0 DEF Updating
  <2>5. snap'[c].next = links'[Root].next /\ snap'[c].prev = Root BY <1>0 DEF RegTypes
  <2>6. \A d \in Calls : InList(d)' <=> InList(d) BY <1>0, <1>1 DEF InList, Registered
  <2>7. \A d \in Calls : d \in entered' <=> InList(d)' BY <1>0, <2>0, <2>6 DEF Intact
  <2> QED BY <1>1, <2>2, <2>3, <2>4, <2>5, <2>7 DEF Intact
<1> QED BY <1>1, <1>2 DEF ShapeInv

LEMMA ShapeAddWrites ==
    ASSUME ShapeInv, RegTypes, OpTypes, NEW c \in Calls, AddWrites(c)
    PROVE  ShapeInv'
<1>0. /\ req[c] = "link" /\ req' = [req EXCEPT ![c] = "send"] /\ UNCHANGED <<torn, unsent>>
      /\ links' = [links EXCEPT ![c] = snap[c], ![snap[c].next].prev = c, ![snap[c].prev].next = c]
      /\ entered' = entered \cup {c}
  BY DEF AddWrites, SetReq
<1>1. /\ \A d \in Calls : req'[d] = IF d = c THEN "send" ELSE req[d]
      /\ c \notin unsent /\ \A d \in unsent' : req'[d] = "done"
  BY <1>0, ShapeReq
<1>2. ASSUME ~torn PROVE Intact'
  <2>0. Intact BY <1>2 DEF ShapeInv
  <2>1. PICK m, s : IsList(m, s, links, entered) BY <2>0 DEF Intact
  <2>2. c \notin entered BY <1>0, <1>1, <2>0 DEF Intact, InList, Registered
  <2>3. snap[c].next = links[Root].next /\ snap[c].prev = Root BY <1>0, <2>0 DEF Intact
  <2>f. /\ Root \in Nodes /\ Root \notin Calls /\ Calls \subseteq Nodes /\ snap[c] \in Pointers
        /\ links[Root].next \in Nodes
    BY PointerFacts DEF RegTypes
  <2>4. links[Root].next # c
    <3>1. links[Root].next \in entered \cup {Root} BY <2>1, NextListed
    <3> QED BY <2>2, <2>f, <3>1
  <2>5. \A n \in Nodes :
          /\ links'[n].next = IF n = c THEN links[Root].next ELSE IF n = Root THEN c ELSE links[n].next
          /\ links'[n].prev = IF n = c THEN Root ELSE IF n = links[Root].next THEN c ELSE links[n].prev
    <3>1. PICK a \in Pointers : a = snap[c] BY <2>f
    <3>2. /\ a.next = links[Root].next /\ a.prev = Root
          /\ links' = [links EXCEPT ![c] = a, ![a.next].prev = c, ![a.prev].next = c]
      BY <1>0, <2>3, <3>1
    <3> QED BY <2>4, <2>f, <3>2 DEF RegTypes, Pointers
  <2>6. \E r : IsList(m + 1, r, links', entered')
    <3>1. \E r : IsList(m + 1, r, links', entered \cup {c}) BY <2>1, <2>2, <2>5, InsertHead
    <3> QED BY <1>0, <3>1
  <2>7. Updating = {c}
    <3>1. c \in Updating BY <1>0 DEF Updating
    <3> QED BY <2>0, <3>1 DEF Intact
  <2>8. \A d \in Calls : req'[d] \notin {"link", "unlink", "unlinkLate"} BY <1>1, <2>7 DEF Updating
  <2>9. Updating' = {} BY <2>8 DEF Updating
  <2>10. \A d \in Calls : InList(d)' <=> InList(d) \/ d = c BY <1>0, <1>1 DEF InList, Registered
  <2>11. \A d \in Calls : d \in entered' <=> InList(d)' BY <1>0, <2>0, <2>10 DEF Intact
  <2> QED BY <2>6, <2>8, <2>9, <2>11 DEF Intact
<1> QED BY <1>0, <1>1, <1>2 DEF ShapeInv

LEMMA ShapeRemoveReads ==
    ASSUME ShapeInv, RegTypes, OpTypes, RestTypes, NEW c \in Calls, RemoveReads(c)
    PROVE  ShapeInv'
<1>0. /\ req[c] = "wait" /\ UNCHANGED <<links, entered, unsent>>
      /\ snap' = [snap EXCEPT ![c] = links[c]] /\ torn' = (torn \/ Updating # {})
  BY DEF RemoveReads
<1>p. PICK p \in {"unlink", "unlinkLate"} : req' = [req EXCEPT ![c] = p] BY DEF RemoveReads, SetReq
<1>1. /\ \A d \in Calls : req'[d] = IF d = c THEN p ELSE req[d]
      /\ \A d \in unsent' : req'[d] = "done"
  BY <1>0, <1>p, ShapeReq
<1>2. ASSUME ~torn' PROVE Intact'
  <2>0. Updating = {} /\ Intact BY <1>0, <1>2 DEF ShapeInv
  <2>1. PICK m, s : IsList(m, s, links, entered) BY <2>0 DEF Intact
  <2>2. IsList(m, s, links', entered') BY <1>0, <2>1
  <2>3. Updating' \subseteq {c} BY <1>1, <2>0 DEF Updating
  <2>4. \A d \in Calls : d # c => req'[d] \notin {"link", "unlink", "unlinkLate"}
    BY <1>1, <2>0 DEF Updating
  <2>5. snap'[c] = links'[c] /\ req'[c] # "link" BY <1>0, <1>1, <1>p DEF RegTypes
  <2>6. \A d \in Calls : InList(d)' <=> InList(d) BY <1>0, <1>1, <1>p DEF InList, Registered
  <2>7. \A d \in Calls : d \in entered' <=> InList(d)' BY <1>0, <2>0, <2>6 DEF Intact
  <2> QED BY <1>1, <2>2, <2>3, <2>4, <2>5, <2>7 DEF Intact
<1> QED BY <1>1, <1>2 DEF ShapeInv

LEMMA ShapeRemoveWrites ==
    ASSUME ShapeInv, RegTypes, OpTypes, NEW c \in Calls, RemoveWrites(c)
    PROVE  ShapeInv'
<1>0. /\ req[c] \in {"unlink", "unlinkLate"} /\ UNCHANGED <<torn, unsent>>
      /\ links' = [links EXCEPT ![snap[c].next].prev = snap[c].prev, ![snap[c].prev].next = snap[c].next]
      /\ entered' = entered \ {c}
  BY DEF RemoveWrites, Unlinked
<1>p. PICK p \in {"respond", "timeout"} : req' = [req EXCEPT ![c] = p] BY DEF RemoveWrites, SetReq
<1>1. /\ \A d \in Calls : req'[d] = IF d = c THEN p ELSE req[d]
      /\ c \notin unsent /\ \A d \in unsent' : req'[d] = "done"
  BY <1>0, <1>p, ShapeReq
<1>2. ASSUME ~torn PROVE Intact'
  <2>0. Intact BY <1>2 DEF ShapeInv
  <2>1. PICK m, s : IsList(m, s, links, entered) BY <2>0 DEF Intact
  <2>2. c \in entered BY <1>0, <2>0 DEF Intact, InList, Registered
  <2>3. snap[c] = links[c] BY <1>0, <2>0 DEF Intact
  <2>f. Calls \subseteq Nodes /\ links[c].next \in Nodes /\ links[c].prev \in Nodes
    BY PointerFacts DEF RegTypes
  <2>5. \A n \in Nodes :
          /\ links'[n].next = IF n = links[c].prev THEN links[c].next ELSE links[n].next
          /\ links'[n].prev = IF n = links[c].next THEN links[c].prev ELSE links[n].prev
    <3>1. PICK a \in Nodes, b \in Nodes : a = links[c].next /\ b = links[c].prev BY <2>f
    <3>2. links' = [links EXCEPT ![a].prev = b, ![b].next = a] BY <1>0, <2>3, <3>1
    <3>3. \A n \in Nodes : /\ links'[n].next = IF n = b THEN a ELSE links[n].next
                           /\ links'[n].prev = IF n = a THEN b ELSE links[n].prev
      BY <3>2 DEF RegTypes, Pointers
    <3> QED BY <3>1, <3>3
  <2>6. \E r : IsList(m - 1, r, links', entered')
    <3>1. \E r : IsList(m - 1, r, links', entered \ {c}) BY <2>1, <2>2, <2>5, RemoveEntry
    <3> QED BY <1>0, <3>1
  <2>7. Updating = {c}
    <3>1. c \in Updating BY <1>0 DEF Updating
    <3> QED BY <2>0, <3>1 DEF Intact
  <2>8. \A d \in Calls : req'[d] \notin {"link", "unlink", "unlinkLate"}
    BY <1>1, <1>p, <2>7 DEF Updating
  <2>9. Updating' = {} BY <2>8 DEF Updating
  <2>10. \A d \in Calls : InList(d)' <=> InList(d) /\ d # c BY <1>0, <1>1, <1>p DEF InList, Registered
  <2>11. \A d \in Calls : d \in entered' <=> InList(d)' BY <1>0, <2>0, <2>10 DEF Intact
  <2> QED BY <2>6, <2>8, <2>9, <2>11 DEF Intact
<1> QED BY <1>0, <1>1, <1>2 DEF ShapeInv

\* Steps that touch neither the list nor what a request needs of it.
LEMMA ShapeStill ==
    ASSUME ShapeInv, UNCHANGED <<links, snap, entered, torn, req, unsent>>
    PROVE  ShapeInv'
<1>1. \A c \in unsent' : req'[c] = "done" BY DEF ShapeInv
<1>2. \A c \in Calls : InList(c)' <=> InList(c) BY DEF InList
<1> QED BY <1>1, <1>2, ShapeSame

LEMMA ShapeSteps ==
    ASSUME ShapeInv, RegTypes, OpTypes, OpsInv, RestTypes, [Next]_vars
    PROVE  ShapeInv'
<1>1. ASSUME NEW c \in Calls, SendRequest(c) \/ Call(c) PROVE ShapeInv'
  BY <1>1, ShapeMoves, ShapeAddReads, ShapeAddWrites, ShapeRemoveReads, ShapeRemoveWrites
     DEF SendRequest
<1>2. ASSUME NEW c \in Calls, Await(c) \/ HandlerInvoked(c) \/ CloseCall(c) \/ GivesUp(c) \/ Answer(c)
      PROVE  ShapeInv'
  <2>1. UNCHANGED <<links, snap, entered, torn, req, unsent>>
    BY <1>2 DEF Await, HandlerInvoked, CloseCall, GivesUp, Answer, reqVars, listVars
  <2> QED BY <2>1, ShapeStill
<1>3. ASSUME \/ Pump \/ Around \/ UNCHANGED vars
             \/ (\E k \in {"ping", "echo", "proto"} : SendUnasked(k))
      PROVE  ShapeInv'
  <2>1. UNCHANGED <<links, snap, entered, torn, req, unsent>>
    BY <1>3, AroundChanges DEF Pump, Read, ReadFails, Parse, ParseEnds, Invoke, Advance, SendUnasked,
       vars, reqVars, listVars
  <2> QED BY <2>1, ShapeStill
<1> QED BY <1>1, <1>2, <1>3 DEF Next, System, External, Around

LEMMA WalkSteps ==
    ASSUME WalkInv, ShapeInv, RegTypes, ReplayInv, OpTypes, RestTypes, [Next]_vars
    PROVE  WalkInv'
<1>1. ASSUME NEW c \in Calls, SendRequest(c), ~RemoveWrites(c) PROVE WalkInv'
  <2>1. UNCHANGED <<pump, cursor, disturbed, stray>>
    BY <1>1 DEF SendRequest, AddReads, AddWrites, Write, WriteRest, WriteFails, RemoveReads,
       RemoveFails, RequestReturns, listVars, pumpVars
  <2>2. entered \subseteq entered'
    BY <1>1 DEF SendRequest, AddReads, AddWrites, Write, WriteRest, WriteFails, RemoveReads,
       RemoveFails, RequestReturns, listVars, pumpVars
  <2>3. torn => torn'
    BY <1>1 DEF SendRequest, AddReads, AddWrites, Write, WriteRest, WriteFails, RemoveReads,
       RemoveFails, RequestReturns, listVars, pumpVars
  <2> QED BY <2>1, <2>2, <2>3 DEF WalkInv, Walking
<1>2. ASSUME NEW c \in Calls, RemoveWrites(c) PROVE WalkInv'
  <2>1. /\ entered' = entered \ {c} /\ UNCHANGED <<torn, pump, cursor, stray>>
        /\ disturbed' = (disturbed \/ (pump \in {"invoke", "advance"} /\ cursor = c))
    BY <1>2 DEF RemoveWrites, pumpVars
  <2> QED BY <2>1 DEF WalkInv, Walking
<1>3. ASSUME NEW c \in Calls,
             \/ Await(c) \/ HandlerInvoked(c) \/ Call(c) \/ CloseCall(c) \/ GivesUp(c) \/ Answer(c)
      PROVE  WalkInv'
  <2>1. UNCHANGED <<entered, torn, pump, cursor, disturbed, stray>>
    BY <1>3 DEF Await, HandlerInvoked, Call, CloseCall, GivesUp, Answer, listVars, pumpVars
  <2> QED BY <2>1 DEF WalkInv, Walking
<1>4. ASSUME \/ Read \/ ReadFails \/ ParseEnds \/ Around \/ UNCHANGED vars
             \/ (\E k \in {"ping", "echo", "proto"} : SendUnasked(k))
      PROVE  WalkInv'
  <2>1. /\ UNCHANGED <<entered, torn, cursor, disturbed, stray>>
        /\ pump' = pump \/ pump' \in {"poll", "parse", "stopped"}
    BY <1>4, AroundChanges DEF Read, ReadFails, ParseEnds, SendUnasked, vars, listVars, pumpVars
  <2> QED BY <2>1 DEF WalkInv, Walking
<1>5. CASE Invoke
  <2>1. /\ pump = "invoke" /\ pump' = "advance" /\ UNCHANGED <<entered, torn, cursor, disturbed>>
        /\ stray' = IF Alive(cursor) \/ cursor \in unsent \/ disturbed THEN stray ELSE stray \cup {cursor}
    BY <1>5 DEF Invoke, listVars
  <2>2. cursor \in Calls BY <2>1 DEF ReplayInv, Walking
  <2>3. ASSUME ~torn PROVE stray' = stray /\ stray = {} /\ (cursor \in entered \/ disturbed)
    <3>1. stray = {} /\ (cursor \in entered \/ disturbed) BY <2>1, <2>3 DEF WalkInv, Walking
    <3>2. cursor \in entered => InList(cursor) BY <2>2, <2>3 DEF ShapeInv, Intact
    <3>3. InList(cursor) => Alive(cursor) \/ cursor \in unsent BY DEF InList, Registered, Alive
    <3> QED BY <2>1, <3>1, <3>2, <3>3
  <2> QED BY <2>1, <2>3 DEF WalkInv, Walking
<1>6. CASE Parse \/ Advance
  <2>1. /\ UNCHANGED <<entered, torn, stray>> /\ disturbed' = (disturbed /\ cursor' # Root)
        /\ pump' = IF cursor' = Root THEN "parse" ELSE "invoke"
    BY <1>6 DEF Parse, Advance, WalkTo
  <2>2. ASSUME ~torn, cursor' # Root PROVE cursor' \in entered \/ disturbed
    <3>0. Intact BY <2>2 DEF ShapeInv
    <3>1. PICK m, s : IsList(m, s, links, entered) BY <3>0 DEF Intact
    <3>2. CASE Parse
      <4>1. cursor' = links[Root].next BY <3>2 DEF Parse, WalkTo
      <4> QED BY <2>2, <3>1, <4>1, NextListed
    <3>3. CASE Advance
      <4>1. cursor' = links[cursor].next /\ (cursor \in entered \/ disturbed)
        BY <2>2, <3>3 DEF Advance, WalkTo, WalkInv, Walking
      <4> QED BY <2>2, <3>1, <4>1, NextListed
    <3> QED BY <1>6, <3>2, <3>3
  <2> QED BY <2>1, <2>2 DEF WalkInv, Walking
<1> QED BY <1>1, <1>2, <1>3, <1>4, <1>5, <1>6 DEF Next, System, External, Pump, Around

LEMMA RestSteps ==
    ASSUME RestTypes, ReplayInv, [Next]_vars
    PROVE  RestTypes'
<1>0. MaxFaults \in Nat BY XodusAssumption
<1>1. faults' \in 0 .. MaxFaults
  <2>1. faults' = faults \/ Unusual
    BY AroundChanges DEF Next, System, External, Pump, SendRequest, AddReads, AddWrites, Write, WriteRest,
       WriteFails, RemoveReads, RemoveWrites, RemoveFails, RequestReturns, Await, HandlerInvoked,
       Call, CloseCall, GivesUp, Answer, SendUnasked, Around, Read, ReadFails, Parse, ParseEnds,
       Invoke, Advance, vars, sockVars
  <2> QED BY <1>0, <2>1 DEF Unusual, RestTypes
<1>2. ready' \in [Calls -> BOOLEAN]
  <2>1. ready' = ready \/ (\E c \in Calls : \E b \in BOOLEAN : ready' = [ready EXCEPT ![c] = b])
    <3>1. CASE Invoke
      <4>1. cursor \in Calls BY <3>1 DEF ReplayInv, Walking, Invoke
      <4>2. ready' = ready \/ ready' = [ready EXCEPT ![cursor] = TRUE] BY <3>1 DEF Invoke
      <4> QED BY <4>1, <4>2
    <3>2. ASSUME NEW c \in Calls, RequestReturns(c) PROVE \E b \in BOOLEAN : ready' = [ready EXCEPT ![c] = b]
      BY <3>2 DEF RequestReturns
    <3>3. CASE ~Invoke /\ \A c \in Calls : ~RequestReturns(c)
      BY <3>3, AroundChanges DEF Next, System, External, Pump, SendRequest, AddReads, AddWrites, Write, WriteRest,
         WriteFails, RemoveReads, RemoveWrites, RemoveFails, Await, HandlerInvoked,
         Call, CloseCall, GivesUp, Answer, SendUnasked, Around, Read, ReadFails, Parse, ParseEnds,
         Advance, vars, reqVars
    <3> QED BY <3>1, <3>2, <3>3
  <2> QED BY <2>1 DEF RestTypes
<1>3. unsent' \subseteq Calls /\ entered' \subseteq Calls
  <2>1. \A c \in Calls : unsent \cup {c} \subseteq Calls /\ entered \cup {c} \subseteq Calls
                         /\ entered \ {c} \subseteq Calls
    BY DEF RestTypes
  <2>2. unsent' = unsent \/ (\E c \in Calls : unsent' = unsent \cup {c})
    BY AroundChanges DEF Next, System, External, Pump, SendRequest, AddReads, AddWrites, Write, WriteRest,
       WriteFails, RemoveReads, RemoveWrites, RemoveFails, RequestReturns, Await, HandlerInvoked,
       Call, CloseCall, GivesUp, Answer, SendUnasked, Around, Read, ReadFails, Parse, ParseEnds,
       Invoke, Advance, vars
  <2>3. entered' = entered \/ (\E c \in Calls : entered' = entered \cup {c} \/ entered' = entered \ {c})
    BY AroundChanges DEF Next, System, External, Pump, SendRequest, AddReads, AddWrites, Write, WriteRest,
       WriteFails, RemoveReads, RemoveWrites, RemoveFails, RequestReturns, Await, HandlerInvoked,
       Call, CloseCall, GivesUp, Answer, SendUnasked, Around, Read, ReadFails, Parse, ParseEnds,
       Invoke, Advance, vars, listVars
  <2>4. unsent' \subseteq Calls BY <2>1, <2>2 DEF RestTypes
  <2>5. entered' \subseteq Calls BY <2>1, <2>3 DEF RestTypes
  <2> QED BY <2>4, <2>5
<1>4. stray' \subseteq Calls
  <2>1. CASE Invoke
    <3>1. cursor \in Calls BY <2>1 DEF ReplayInv, Walking, Invoke
    <3>2. stray' = stray \/ stray' = stray \cup {cursor} BY <2>1 DEF Invoke
    <3> QED BY <3>1, <3>2 DEF RestTypes
  <2>2. CASE ~Invoke
    <3>1. stray' = stray
      BY <2>2, AroundChanges DEF Next, System, External, Pump, SendRequest, AddReads, AddWrites, Write, WriteRest,
         WriteFails, RemoveReads, RemoveWrites, RemoveFails, RequestReturns, Await, HandlerInvoked,
         Call, CloseCall, GivesUp, Answer, SendUnasked, Around, Read, ReadFails, Parse, ParseEnds,
         Advance, vars, pumpVars
    <3> QED BY <3>1 DEF RestTypes
  <2> QED BY <2>1, <2>2
<1>5. deaf' \in BOOLEAN /\ closed' \in BOOLEAN
  <2>1. deaf' = deaf \/ \E c \in Calls : deaf' = (deaf \/ Mixed(c))
    BY AroundChanges DEF Next, System, External, Pump, SendRequest, AddReads, AddWrites, Write, WriteRest,
       WriteFails, RemoveReads, RemoveWrites, RemoveFails, RequestReturns, Await, HandlerInvoked,
       Call, CloseCall, GivesUp, Answer, SendUnasked, Around, Read, ReadFails, Parse, ParseEnds,
       Invoke, Advance, vars, sockVars
  <2>2. closed' = closed \/ closed' = TRUE
    BY AroundChanges DEF Next, System, External, Pump, SendRequest, AddReads, AddWrites, Write, WriteRest,
       WriteFails, RemoveReads, RemoveWrites, RemoveFails, RequestReturns, Await, HandlerInvoked,
       Call, CloseCall, GivesUp, Answer, SendUnasked, Around, Read, ReadFails, Parse, ParseEnds,
       Invoke, Advance, vars, sockVars, Transmit
  <2>3. deaf' \in BOOLEAN BY <2>1 DEF RestTypes
  <2>4. closed' \in BOOLEAN BY <2>2 DEF RestTypes
  <2> QED BY <2>3, <2>4
<1>6. torn' \in BOOLEAN /\ disturbed' \in BOOLEAN
  <2>1. torn' = torn \/ torn' = (torn \/ Updating # {})
    BY AroundChanges DEF Next, System, External, Pump, SendRequest, AddReads, AddWrites, Write, WriteRest,
       WriteFails, RemoveReads, RemoveWrites, RemoveFails, RequestReturns, Await, HandlerInvoked,
       Call, CloseCall, GivesUp, Answer, SendUnasked, Around, Read, ReadFails, Parse, ParseEnds,
       Invoke, Advance, vars, listVars
  <2>2. disturbed' = disturbed \/ disturbed' \in BOOLEAN
    BY AroundChanges DEF Next, System, External, Pump, SendRequest, AddReads, AddWrites, Write, WriteRest,
       WriteFails, RemoveReads, RemoveWrites, RemoveFails, RequestReturns, Await, HandlerInvoked,
       Call, CloseCall, GivesUp, Answer, SendUnasked, Around, Read, ReadFails, Parse, ParseEnds,
       Invoke, Advance, WalkTo, vars, listVars
  <2>3. torn' \in BOOLEAN BY <2>1 DEF RestTypes
  <2>4. disturbed' \in BOOLEAN BY <2>2 DEF RestTypes
  <2> QED BY <2>3, <2>4
<1>7. full' \in BOOLEAN /\ broken' \in BOOLEAN
  <2>1. full' \in {full, TRUE, FALSE}
    BY AroundChanges DEF Next, System, External, Pump, SendRequest, AddReads, AddWrites, Write, WriteRest,
       WriteFails, RemoveReads, RemoveWrites, RemoveFails, RequestReturns, Await, HandlerInvoked,
       Call, CloseCall, GivesUp, Answer, SendUnasked, Around, Read, ReadFails, Parse, ParseEnds,
       Invoke, Advance, vars, sockVars
  <2>2. broken' \in {broken, TRUE}
    BY AroundChanges DEF Next, System, External, Pump, SendRequest, AddReads, AddWrites, Write, WriteRest,
       WriteFails, RemoveReads, RemoveWrites, RemoveFails, RequestReturns, Await, HandlerInvoked,
       Call, CloseCall, GivesUp, Answer, SendUnasked, Around, Read, ReadFails, Parse, ParseEnds,
       Invoke, Advance, vars, pumpVars
  <2> QED BY <2>1, <2>2 DEF RestTypes
<1> QED BY <1>1, <1>2, <1>3, <1>4, <1>5, <1>6, <1>7 DEF RestTypes

LEMMA ListInvariant == Spec => [](ShapeInv /\ WalkInv /\ RestTypes)
<1> DEFINE Inv == ShapeInv /\ WalkInv /\ RestTypes
           Others == OpTypes /\ OpsInv /\ RegInv
<1>1. ASSUME Inv, Others, [Next]_vars PROVE Inv'
  <2>1. RegTypes /\ ReplayInv BY <1>1 DEF RegInv
  <2> QED BY <1>1, <2>1, ShapeSteps, WalkSteps, RestSteps
<1>2. Spec => []Others BY OpsInvariant, RegInvariant, PTL
<1>3. Init => Inv BY InitList
<1> QED BY <1>1, <1>2, <1>3, PTL DEF Spec

(* The handler list has no lock.  As long as no two threads happen to      *)
(* change it at the same time, list_add_head and list_remove keep it       *)
(* whole: what the pump walks is the entries added and not removed, and    *)
(* prev leads back where next came from.  However it is torn, no pointer   *)
(* leads out of the entries (TypeOK).  For any number of calls.            *)
THEOREM ListWhole == Spec => []ListIntact
<1> DEFINE Inv == /\ ShapeInv /\ WalkInv /\ RestTypes /\ OpTypes /\ OpsInv /\ RegInv
                  /\ StreamTypes /\ StreamInv
<1>1. ASSUME Inv PROVE ListIntact
  <2>1. TypeOK
    <3>1. Cap \in Nat BY XodusAssumption
    <3>2. offset \in 0 .. Cap /\ Len(buffer) <= Cap
      <4>1. Len(buffer) \in Nat /\ offset \in Nat /\ offset <= Len(buffer) /\ Len(buffer) <= Cap
        BY <1>1 DEF StreamTypes
      <4> QED BY <3>1, <4>1
    <3>3. RegTypes BY <1>1 DEF RegInv
    <3> QED BY <1>1, <3>2, <3>3 DEF TypeOK, OpTypes, ReqStates, RegTypes, Pointers, RestTypes
  <2>2. ASSUME ~torn
        PROVE  Listed = entered /\ \A n \in entered \cup {Root} : links[links[n].next].prev = n
    <3>0. Intact /\ RegTypes BY <1>1, <2>2 DEF ShapeInv, RegInv
    <3>1. PICK m, s : IsList(m, s, links, entered) BY <3>0 DEF Intact
    <3>2. Listed = entered BY <3>0, <3>1, PointerFacts, ForwardList
    <3> QED BY <3>1, <3>2, NextListed
  <2> QED BY <2>1, <2>2 DEF ListIntact
<1>2. Spec => []Inv BY ListInvariant, OpsInvariant, RegInvariant, StreamInvariant, PTL
<1> QED BY <1>1, <1>2, PTL

(* A handler outlives its registration only where SendRequest lets it: the *)
(* early return after a failed write, the pump standing at the entry that  *)
(* is removed, or a list torn by unlocked updates.  A timeout as such      *)
(* unregisters, since the entry is found in a list that is whole.          *)
THEOREM StrayOnlyThere == Spec => []StrayExplained
<1>1. WalkInv => StrayExplained BY DEF WalkInv, StrayExplained
<1> QED BY <1>1, ListInvariant, PTL
-----------------------------------------------------------------------------
(* Nobody waits for ever.                                                  *)

\* An awaiter that waits has its event signaled, or somebody about to signal it: the pool
\* thread that has taken the handler, or the request that will complete and find it.
AwaitedInv(o) ==
    /\ awaiter[o] = "waiting" => event[o] \/ o \in invoking \/ handler[o] = "set"
    /\ handler[o] = "set" => req[o] \notin {"idle", "done"}
    /\ req[o] = "done" => status[o] # "Started" /\ outcome[o] # "none"

AwaitInv == \A o \in Ops : AwaitedInv(o)

LEMMA AwaitSteps ==
    ASSUME OpTypes, OpsInv, AwaitInv, [Next]_vars
    PROVE  AwaitInv'
<1> USE XodusAssumption DEF OpTypes
<1>1. CASE UNCHANGED <<infoVars, req>> BY <1>1 DEF infoVars, AwaitInv, AwaitedInv
<1>2. ASSUME NEW c \in Calls, UNCHANGED infoVars, NEW p \in ReqStates \ {"idle", "done"}, SetReq(c, p)
      PROVE  AwaitInv'
  BY <1>2 DEF infoVars, SetReq, AwaitInv, AwaitedInv
<1>3. ASSUME NEW c \in Calls, NEW out \in {"ok", "failed"}, Complete(c, out), SetReq(c, "done")
      PROVE  AwaitInv'
  <2>1. ASSUME NEW o \in Ops, o # c PROVE AwaitedInv(o)'
    BY <1>3, <2>1 DEF Complete, SetReq, InfoTypeOK, AwaitInv, AwaitedInv
  <2>2. AwaitedInv(c)'
    <3>1. /\ req'[c] = "done" /\ outcome'[c] = out /\ status'[c] = FinalStatus(c, out)
          /\ awaiter'[c] = awaiter[c] /\ event'[c] = event[c]
          /\ handler'[c] # "set" /\ (handler[c] = "set" \/ c \in invoking => c \in invoking')
      BY <1>3 DEF Complete, SetReq, InfoTypeOK
    <3>2. FinalStatus(c, out) # "Started" BY DEF FinalStatus
    <3> QED BY <3>1, <3>2 DEF AwaitInv, AwaitedInv
  <2> QED BY <2>1, <2>2 DEF AwaitInv
<1>4. ASSUME NEW c \in Calls, UNCHANGED req, PutCompleted(c) PROVE AwaitInv'
  <2>1. ASSUME NEW o \in Ops, o # c PROVE AwaitedInv(o)'
    BY <1>4, <2>1 DEF PutCompleted, InvokeHandler, InfoTypeOK, AwaitInv, AwaitedInv
  <2>2. status[c] = "Started" => req[c] \notin {"idle", "done"}
    BY DEF OpsInv, OpInv, AwaitInv, AwaitedInv
  <2>3. /\ status'[c] = status[c] /\ outcome'[c] = outcome[c]
        /\ \/ awaiter'[c] = "refused" /\ handler'[c] = handler[c]
           \/ event'[c] = TRUE /\ handler'[c] = "null"
           \/ handler'[c] = "set" /\ status[c] = "Started"
    BY <1>4 DEF PutCompleted, InvokeHandler, HandlerAfter, OverAlready, InfoTypeOK
  <2>4. AwaitedInv(c)' BY <1>4, <2>2, <2>3 DEF AwaitInv, AwaitedInv
  <2> QED BY <2>1, <2>4 DEF AwaitInv
<1>5. ASSUME NEW c \in Calls, UNCHANGED req,
             \/ AwaitWakes(c) \/ AwaitTimesOut(c) \/ Cancel(c) \/ Close(c) \/ CallbackInvokes(c)
      PROVE  AwaitInv'
  <2>1. ASSUME NEW o \in Ops, o # c PROVE AwaitedInv(o)'
    BY <1>5, <2>1 DEF AwaitWakes, AwaitTimesOut, Cancel, Close, CallbackInvokes, InvokeHandler,
       InfoTypeOK, AwaitInv, AwaitedInv
  <2>2. /\ handler'[c] = handler[c] /\ outcome'[c] = outcome[c]
        /\ status'[c] = "Started" => status[c] = "Started"
        /\ \/ awaiter'[c] # "waiting"
           \/ event'[c] = TRUE
           \/ awaiter'[c] = awaiter[c] /\ event'[c] = event[c] /\ invoking' = invoking
    BY <1>5 DEF AwaitWakes, AwaitTimesOut, Cancel, Close, CallbackInvokes, InvokeHandler, InfoTypeOK
  <2>3. AwaitedInv(c)' BY <1>5, <2>2 DEF AwaitInv, AwaitedInv
  <2> QED BY <2>1, <2>3 DEF AwaitInv
<1>6. ASSUME NEW c \in Calls, Call(c) PROVE AwaitInv'
  BY <1>6 DEF Call, Create, SetReq, InfoTypeOK, AwaitInv, AwaitedInv
<1>7. ASSUME NEW c \in Calls, SendRequest(c) PROVE AwaitInv'
  <2>1. CASE WriteFails(c) BY <2>1, <1>3 DEF WriteFails
  <2>2. CASE RequestReturns(c) BY <2>2, <1>3 DEF RequestReturns
  <2>3. CASE ~(WriteFails(c) \/ RequestReturns(c))
    <3>1. UNCHANGED infoVars /\ \E p \in ReqStates \ {"idle", "done"} : SetReq(c, p)
      BY <1>7, <2>3 DEF SendRequest, AddReads, AddWrites, Write, WriteRest, RemoveReads,
         RemoveWrites, RemoveFails, ReqStates
    <3> QED BY <3>1, <1>2
  <2> QED BY <2>1, <2>2, <2>3
<1>8. ASSUME NEW c \in Calls, Await(c) \/ HandlerInvoked(c) \/ CloseCall(c) \/ GivesUp(c)
      PROVE  AwaitInv'
  BY <1>8, <1>4, <1>5 DEF Await, HandlerInvoked, CloseCall, GivesUp, reqVars
<1>9. ASSUME \/ Pump \/ Around \/ (\E c \in Calls : Answer(c))
             \/ (\E k \in {"ping", "echo", "proto"} : SendUnasked(k)) \/ UNCHANGED vars
      PROVE  UNCHANGED <<infoVars, req>>
  <2>1. CASE Around BY <2>1, AroundChanges DEF reqVars
  <2> QED BY <1>9, <2>1 DEF Pump, Read, ReadFails, Parse, ParseEnds, Invoke, Advance, Answer,
     SendUnasked, reqVars, vars
<1> QED BY <1>1, <1>6, <1>7, <1>8, <1>9 DEF Next, System, External, Around

LEMMA AwaitInvariant == Spec => []AwaitInv
<1>1. Init => AwaitInv
  BY XodusAssumption DEF Init, InfoInit, AwaitInv, AwaitedInv
<1>2. OpTypes /\ OpsInv /\ AwaitInv /\ [Next]_vars => AwaitInv' BY AwaitSteps
<1> QED BY <1>1, <1>2, OpsInvariant, PTL DEF Spec

(* No call and no awaiter of the service waits for ever, whatever is lost  *)
(* and whatever becomes of the pump, but for a write that the service, not *)
(* reading, blocks: any other registered request goes on to its end by     *)
(* itself, answered, timed out or refused by the socket, and between       *)
(* put_Completed and the completion one of them always finds the other's   *)
(* mark and signals the awaiter's event.                                   *)
THEOREM NobodyWaits == Spec => []NothingStuck
<1>1. ASSUME OpTypes /\ OpsInv, AwaitInv PROVE NothingStuck
  <2> SUFFICES ASSUME ~Busy, NEW c \in Calls
               PROVE  /\ req[c] \in {"idle", "done"} \/ Blocked(c)
                      /\ req[c] = "done" => outcome[c] # "none"
                      /\ awaiter[c] = "waiting" => Blocked(c)
    BY DEF NothingStuck
  <2>1. ~RequestGoesOn(c) /\ ~AwaitGoesOn(c) BY DEF Busy
  <2>2. AwaitedInv(c) BY <1>1, XodusAssumption DEF AwaitInv
  <2> QED BY <2>1, <2>2 DEF RequestGoesOn, AwaitGoesOn, AwaitedInv
<1> QED BY <1>1, OpsInvariant, AwaitInvariant, PTL
=============================================================================
