----------------------- MODULE TaskQueuePromiseProofs -----------------------
(* TaskQueuePort keeps the promise of a port: every step of a thread is a  *)
(* step of PortPromise or changes nothing that PortPromise speaks of.      *)
EXTENDS TaskQueueCallbackProofs

(* What the port shows of its state (the WITH of Promise); the other parts *)
(* have their names in TaskQueuePort.                                      *)
Accepted == pending \cup UNION {InTransit(t) : t \in Threads}
Invoked  == {i \in 1 .. MaxItems : calls[i] > 0}
Prepared == {MyTerm(t) : t \in {u \in Threads : pc[u] = "prepared"}}
Signaled == UNION {loc[t].signal : t \in Threads}
Held     == [c \in Contexts |-> Cardinality({h \in holders : h[2] = c})]

ItemsStay == UNCHANGED <<Accepted, ReadyEntries, RunningEntries, Invoked, raced>>
TermsStay == UNCHANGED <<Prepared, BeingTerminated, Signaled, termDone>>
HoldsStay == UNCHANGED <<Held, overlap>>

Promised == Promise!PortNext \/ UNCHANGED Promise!portVars

LEMMA StutterMaps ==
    ASSUME UNCHANGED status, ItemsStay, TermsStay, HoldsStay
    PROVE  Promised
BY DEF Promised, ItemsStay, TermsStay, HoldsStay, Accepted, Invoked, Prepared, MyTerm, Signaled,
   Held, Promise!portVars, Promise!itemVars, Promise!termVars, Promise!holdVars

-----------------------------------------------------------------------------
(* The steps of PortPromise, in these terms.                               *)

LEMMA AcceptMaps ==
    ASSUME NEW e, status[e.ctx] \notin Terminal, e.id \notin Invoked,
           \A x \in Accepted \cup ReadyEntries \cup RunningEntries : x.id # e.id,
           Accepted' = Accepted \cup {e},
           UNCHANGED <<status, ReadyEntries, RunningEntries, Invoked, raced>>,
           TermsStay, HoldsStay
    PROVE  Promised
<1>1. Promise!Accept(e)
  BY DEF Promise!Accept, Promise!Open, Promise!Closed, Terminal, Promise!termVars,
     Promise!holdVars, TermsStay, HoldsStay, Accepted, Invoked, Prepared, MyTerm, Signaled, Held
<1>2. e \in Accepted' OBVIOUS
<1> QED BY <1>1, <1>2 DEF Promised, Promise!PortNext, Accepted

LEMMA RefuseMaps ==
    ASSUME NEW e \in Accepted, Accepted' = Accepted \ {e},
           UNCHANGED <<status, ReadyEntries, RunningEntries, Invoked, raced>>,
           TermsStay, HoldsStay
    PROVE  Promised
<1>1. Promise!Refuse(e)
  BY DEF Promise!Refuse, Promise!termVars, Promise!holdVars, TermsStay, HoldsStay, Accepted,
     Invoked, Prepared, MyTerm, Signaled, Held
<1> QED BY <1>1 DEF Promised, Promise!PortNext, Accepted

LEMMA EnqueueMaps ==
    ASSUME NEW e \in Accepted, Accepted' = Accepted \ {e},
           ReadyEntries' = ReadyEntries \cup {e},
           raced' = raced \cup {e.id} \/ raced' = raced,
           UNCHANGED <<status, RunningEntries, Invoked>>, TermsStay, HoldsStay
    PROVE  Promised
<1>1. Promise!Enqueue(e, TRUE) \/ Promise!Enqueue(e, FALSE)
  BY DEF Promise!Enqueue, Promise!termVars, Promise!holdVars, TermsStay, HoldsStay, Accepted,
     Invoked, Prepared, MyTerm, Signaled, Held
<1> QED BY <1>1 DEF Promised, Promise!PortNext, Accepted

LEMMA InvokeMaps ==
    ASSUME NEW e \in ReadyEntries, e.id \notin Invoked, ReadyEntries' = ReadyEntries \ {e},
           RunningEntries' = RunningEntries \cup {e}, Invoked' = Invoked \cup {e.id},
           UNCHANGED <<status, Accepted, raced>>, TermsStay, HoldsStay
    PROVE  Promised
<1>1. Promise!Invoke(e)
  BY DEF Promise!Invoke, Promise!termVars, Promise!holdVars, TermsStay, HoldsStay, Accepted,
     Invoked, Prepared, MyTerm, Signaled, Held
<1> QED BY <1>1 DEF Promised, Promise!PortNext

LEMMA ReturnMaps ==
    ASSUME NEW e \in RunningEntries, RunningEntries' = RunningEntries \ {e},
           UNCHANGED <<status, Accepted, ReadyEntries, Invoked, raced>>, TermsStay, HoldsStay
    PROVE  Promised
<1>1. Promise!Return(e)
  BY DEF Promise!Return, Promise!termVars, Promise!holdVars, TermsStay, HoldsStay, Accepted,
     Invoked, Prepared, MyTerm, Signaled, Held
<1> QED BY <1>1 DEF Promised, Promise!PortNext

LEMMA PrepareMaps ==
    ASSUME NEW x, x.id \notin termDone,
           \A y \in Prepared \cup BeingTerminated \cup Signaled : y.id # x.id,
           Prepared' = Prepared \cup {x},
           status' = [status EXCEPT ![x.ctx] = IF @ = "Active" THEN "Canceled" ELSE @],
           UNCHANGED <<BeingTerminated, Signaled, termDone>>, ItemsStay, HoldsStay
    PROVE  Promised
<1>1. Promise!Prepare(x)
  BY DEF Promise!Prepare, Promise!itemVars, Promise!holdVars, ItemsStay, HoldsStay, Accepted,
     Invoked, Prepared, MyTerm, Signaled, Held
<1>2. x \in Prepared' OBVIOUS
<1> QED BY <1>1, <1>2 DEF Promised, Promise!PortNext, Prepared, MyTerm

LEMMA RollBackMaps ==
    ASSUME NEW x \in Prepared, Prepared' = Prepared \ {x}, termDone' = termDone \cup {x.id},
           status' = [status EXCEPT ![x.ctx] = IF @ = "Canceled" THEN "Active" ELSE @],
           UNCHANGED <<BeingTerminated, Signaled>>, ItemsStay, HoldsStay
    PROVE  Promised
<1>1. Promise!RollBack(x)
  BY DEF Promise!RollBack, Promise!itemVars, Promise!holdVars, ItemsStay, HoldsStay, Accepted,
     Invoked, Prepared, MyTerm, Signaled, Held
<1> QED BY <1>1 DEF Promised, Promise!PortNext, Prepared, MyTerm

LEMMA BeginMaps ==
    ASSUME NEW x \in Prepared, Prepared' = Prepared \ {x},
           BeingTerminated' = BeingTerminated \cup {x},
           status' = [status EXCEPT ![x.ctx] = "Terminating"],
           UNCHANGED <<Signaled, termDone>>, ItemsStay, HoldsStay
    PROVE  Promised
<1>1. Promise!BeginTermination(x)
  BY DEF Promise!BeginTermination, Promise!itemVars, Promise!holdVars, ItemsStay, HoldsStay,
     Accepted, Invoked, Prepared, MyTerm, Signaled, Held
<1> QED BY <1>1 DEF Promised, Promise!PortNext, Prepared, MyTerm

LEMMA SignalMaps ==
    ASSUME NEW hit, hit # {}, hit \subseteq BeingTerminated,
           \A x \in hit : \A e \in ReadyEntries \cup RunningEntries :
               e.ctx = x.ctx => e.id \in raced,
           \A x \in hit : Held[x.ctx] = 0 \/ x.ctx \in overlap,
           BeingTerminated' = BeingTerminated \ hit, Signaled' = Signaled \cup hit,
           status' = [c \in Contexts |-> IF \E x \in hit : x.ctx = c THEN "Terminated"
                                         ELSE status[c]],
           UNCHANGED <<Prepared, termDone>>, ItemsStay, HoldsStay
    PROVE  Promised
<1>1. BeingTerminated \ BeingTerminated' = hit OBVIOUS
<1>2. Promise!Signal(BeingTerminated \ BeingTerminated')
  BY <1>1 DEF Promise!Signal, Promise!Drained, Promise!Loose, Promise!itemVars,
     Promise!holdVars, ItemsStay, HoldsStay, Accepted, Invoked, Prepared, MyTerm, Signaled, Held
<1> QED BY <1>2 DEF Promised, Promise!PortNext

LEMMA CalledBackMaps ==
    ASSUME NEW x \in Signaled, Signaled' = Signaled \ {x}, termDone' = termDone \cup {x.id},
           UNCHANGED <<status, Prepared, BeingTerminated>>, ItemsStay, HoldsStay
    PROVE  Promised
<1>1. Promise!CalledBack(x)
  BY DEF Promise!CalledBack, Promise!itemVars, Promise!holdVars, ItemsStay, HoldsStay, Accepted,
     Invoked, Prepared, MyTerm, Signaled, Held
<1> QED BY <1>1 DEF Promised, Promise!PortNext, Signaled

LEMMA HoldMaps ==
    ASSUME NEW c \in Contexts, UNCHANGED status, ItemsStay, TermsStay,
           \/ /\ status[c] \notin Terminal /\ overlap' = overlap
              /\ Held' = [Held EXCEPT ![c] = @ + 1]
           \/ /\ Held[c] > 0 /\ overlap' = overlap
              /\ Held' = [Held EXCEPT ![c] = @ - 1]
           \/ overlap' = overlap \cup {c} /\ Held' = Held
    PROVE  Promised
<1>1. Promise!Hold(c) \/ Promise!Unhold(c) \/ Promise!Weaken(c)
  BY DEF Promise!Hold, Promise!Unhold, Promise!Weaken, Promise!Open, Promise!Closed, Terminal,
     Promise!itemVars, Promise!termVars, ItemsStay, TermsStay, Accepted, Invoked, Prepared, MyTerm,
     Signaled, Held
<1> QED BY <1>1 DEF Promised, Promise!PortNext

LEMMA InitMaps == Init => Promise!PortInit
<1> SUFFICES ASSUME Init PROVE Promise!PortInit OBVIOUS
<1>1. \A t \in Threads : pc[t] = "idle" /\ inner[t] = "none" /\ loc[t] = Fresh BY DEF Init
<1>2. Fresh.batch = {} /\ Fresh.signal = {} /\ Fresh.sched = {} BY DEF Fresh
<1>3. \A t \in Threads : InTransit(t) = {} BY <1>1, <1>2 DEF InTransit
<1>4. Accepted = {} BY <1>3 DEF Accepted, Init
<1>5. ReadyEntries = {} /\ RunningEntries = {} /\ Invoked = {}
  BY <1>1 DEF ReadyEntries, RunningEntries, InCallback, Invoked, Init
<1>6. Prepared = {} /\ Signaled = {} BY <1>1, <1>2 DEF Prepared, Signaled
<1>7. BeingTerminated = {} BY <1>1, <1>2 DEF BeingTerminated, MyTerm, Init
<1>8. Held = [c \in Contexts |-> 0]
  <2>1. Cardinality({}) = 0 BY FS_EmptySet
  <2>2. \A c : {h \in holders : h[2] = c} = {} BY DEF Init
  <2> QED BY <2>1, <2>2 DEF Held
<1>9. status = [c \in Contexts |-> "Active"] /\ raced = {} /\ termDone = {} /\ overlap = {}
  BY DEF Init
<1> QED BY <1>4, <1>5, <1>6, <1>7, <1>8, <1>9
        DEF Promise!PortInit, Accepted, Invoked, Prepared, MyTerm, Signaled, Held

-----------------------------------------------------------------------------
(* Where entries and terminations are, thread by thread.                   *)

\* A thread has an entry ready when it has popped it, and running in its callback.
ReadyOf(t) == IF inner[t] = "invoke" THEN {loc[t].item} ELSE {}
RunOf(t)   == IF InCallback(t) THEN {loc[t].item} ELSE {}

\* Terminate has begun with the token the thread carries, and has not parked or scheduled it.
Began(t) == \/ pc[t] \in {"suspend", "park"}
            \/ pc[t] \in {"cancel", "flush"} /\ loc[t].ret = "suspend"

PrepOf(t)  == IF pc[t] = "prepared" THEN {MyTerm(t)} ELSE {}
BegunOf(t) == loc[t].sched \cup IF Began(t) THEN {MyTerm(t)} ELSE {}
Has(t)     == PrepOf(t) \cup BegunOf(t) \cup loc[t].signal

\* Entries are named by QueueItem, and no two threads run the same callback.
EntryInv ==
    /\ \A t \in Threads : inner[t] = "invoke" => loc[t].popped
    /\ \A e \in Accepted \cup ReadyEntries \cup RunningEntries : e.id \in 1 .. MaxItems
    /\ \A e \in RunningEntries : calls[e.id] = 1
    /\ \A t, u \in Threads :
          InCallback(t) /\ InCallback(u) /\ loc[t].item.id = loc[u].item.id => t = u

\* A termination is in one place, from PrepareTerminate to its callback.
TokenInv ==
    /\ termList \cap pendTerms = {}
    /\ \A t \in Threads : Has(t) \cap (termList \cup pendTerms) = {}
    /\ \A t, u \in Threads : t # u => Has(t) \cap Has(u) = {}
    /\ \A x \in termList \cup pendTerms : x.id < nextTerm
    /\ \A t \in Threads : \A x \in Has(t) : x.id < nextTerm
    /\ \A i \in termDone : i < nextTerm
    /\ \A t \in Threads : loc[t].sched # {} => pc[t] = "schedule"

PromiseInv == EntryInv /\ TokenInv

\* The port's sets are put together from what each thread has.
LEMMA Views ==
    /\ ReadyEntries = {queue[k] : k \in DOMAIN queue}
                            \cup UNION {ReadyOf(t) : t \in Threads}
    /\ RunningEntries = UNION {RunOf(t) : t \in Threads}
    /\ Prepared = UNION {PrepOf(t) : t \in Threads}
    /\ BeingTerminated = termList \cup pendTerms \cup UNION {BegunOf(t) : t \in Threads}
    /\ ReadyEntries' = {queue'[k] : k \in DOMAIN queue'}
                            \cup UNION {ReadyOf(t)' : t \in Threads}
    /\ RunningEntries' = UNION {RunOf(t)' : t \in Threads}
    /\ Prepared' = UNION {PrepOf(t)' : t \in Threads}
    /\ BeingTerminated' = termList' \cup pendTerms' \cup UNION {BegunOf(t)' : t \in Threads}
<1>11. UNION {ReadyOf(t) : t \in Threads}
         = {loc[t].item : t \in {u \in Threads : inner[u] = "invoke"}}
  BY DEF ReadyOf
<1>12. RunningEntries = UNION {RunOf(t) : t \in Threads}
  BY DEF RunningEntries, RunOf, InCallback
<1>13. Prepared = UNION {PrepOf(t) : t \in Threads} BY DEF Prepared, PrepOf, MyTerm
<1>14. BeingTerminated = termList \cup pendTerms \cup UNION {BegunOf(t) : t \in Threads}
  <2> DEFINE Mine(t) == [id |-> loc[t].term, ctx |-> loc[t].ctx]
             On == {u \in Threads : Began(u)}
  <2>1. BeingTerminated = termList \cup pendTerms \cup (UNION {loc[t].sched : t \in Threads})
                         \cup {Mine(t) : t \in On}
    BY DEF BeingTerminated, Began, MyTerm
  <2>2. \A t \in Threads :
            BegunOf(t) = loc[t].sched \cup IF t \in On THEN {Mine(t)} ELSE {}
    BY DEF BegunOf, MyTerm
  <2>3. On \subseteq Threads OBVIOUS
  <2> HIDE DEF Mine, On
  <2>4. UNION {BegunOf(t) : t \in Threads}
            = (UNION {loc[t].sched : t \in Threads}) \cup {Mine(t) : t \in On}
    <3>1. ASSUME NEW x, \E t \in Threads : x \in BegunOf(t)
          PROVE  (\E t \in Threads : x \in loc[t].sched) \/ (\E t \in On : x = Mine(t))
      BY <3>1, <2>2
    <3>2. ASSUME NEW t \in Threads PROVE loc[t].sched \subseteq BegunOf(t) BY <2>2
    <3>3. ASSUME NEW t \in On PROVE t \in Threads /\ Mine(t) \in BegunOf(t) BY <2>2, <2>3
    <3> QED BY <3>1, <3>2, <3>3
  <2> QED BY <2>1, <2>4
<1>15. ReadyEntries = {queue[k] : k \in DOMAIN queue} \cup UNION {ReadyOf(t) : t \in Threads}
  BY <1>11 DEF ReadyEntries
<1>21. UNION {ReadyOf(t)' : t \in Threads}
         = {loc'[t].item : t \in {u \in Threads : inner'[u] = "invoke"}}
  BY DEF ReadyOf
<1>22. RunningEntries' = UNION {RunOf(t)' : t \in Threads}
  BY DEF RunningEntries, RunOf, InCallback
<1>23. Prepared' = UNION {PrepOf(t)' : t \in Threads} BY DEF Prepared, PrepOf, MyTerm
<1>24. BeingTerminated' = termList' \cup pendTerms' \cup UNION {BegunOf(t)' : t \in Threads}
  <2> DEFINE Mine(t) == [id |-> loc'[t].term, ctx |-> loc'[t].ctx]
             On == {u \in Threads : Began(u)'}
  <2>1. BeingTerminated' = termList' \cup pendTerms' \cup (UNION {loc'[t].sched : t \in Threads})
                         \cup {Mine(t) : t \in On}
    BY DEF BeingTerminated, Began, MyTerm
  <2>2. \A t \in Threads :
            BegunOf(t)' = loc'[t].sched \cup IF t \in On THEN {Mine(t)} ELSE {}
    BY DEF BegunOf, MyTerm
  <2>3. On \subseteq Threads OBVIOUS
  <2> HIDE DEF Mine, On
  <2>4. UNION {BegunOf(t)' : t \in Threads}
            = (UNION {loc'[t].sched : t \in Threads}) \cup {Mine(t) : t \in On}
    <3>1. ASSUME NEW x, \E t \in Threads : x \in BegunOf(t)'
          PROVE  (\E t \in Threads : x \in loc'[t].sched) \/ (\E t \in On : x = Mine(t))
      BY <3>1, <2>2
    <3>2. ASSUME NEW t \in Threads PROVE loc'[t].sched \subseteq BegunOf(t)' BY <2>2
    <3>3. ASSUME NEW t \in On PROVE t \in Threads /\ Mine(t) \in BegunOf(t)' BY <2>2, <2>3
    <3> QED BY <3>1, <3>2, <3>3
  <2> QED BY <2>1, <2>4
<1>25. ReadyEntries' = {queue'[k] : k \in DOMAIN queue'} \cup UNION {ReadyOf(t)' : t \in Threads}
  BY <1>21 DEF ReadyEntries
<1> QED BY <1>12, <1>13, <1>14, <1>15, <1>22, <1>23, <1>24, <1>25

\* When t moves the others keep what they have.
LEMMA OthersKeep ==
    ASSUME NEW t \in Threads, NEW l, NEW n, Moves(t, l, n)
    PROVE  \A u \in Threads \ {t} :
               /\ InTransit(u)' = InTransit(u) /\ ReadyOf(u)' = ReadyOf(u)
               /\ RunOf(u)' = RunOf(u) /\ InCallback(u)' = InCallback(u)
               /\ PrepOf(u)' = PrepOf(u)
               /\ BegunOf(u)' = BegunOf(u) /\ Has(u)' = Has(u)
<1> SUFFICES ASSUME NEW u \in Threads \ {t}
             PROVE  /\ InTransit(u)' = InTransit(u) /\ ReadyOf(u)' = ReadyOf(u)
                    /\ RunOf(u)' = RunOf(u) /\ InCallback(u)' = InCallback(u)
                    /\ PrepOf(u)' = PrepOf(u)
                    /\ BegunOf(u)' = BegunOf(u) /\ Has(u)' = Has(u)
  OBVIOUS
<1>1. pc'[u] = pc[u] /\ inner'[u] = inner[u] /\ loc'[u] = loc[u] BY DEF Moves
<1>2. InTransit(u)' = InTransit(u) BY <1>1 DEF InTransit
<1>3. ReadyOf(u)' = ReadyOf(u) BY <1>1 DEF ReadyOf
<1>4. InCallback(u)' = InCallback(u) BY <1>1 DEF InCallback
<1>5. RunOf(u)' = RunOf(u) BY <1>1, <1>4 DEF RunOf
<1>6. MyTerm(u)' = MyTerm(u) BY <1>1 DEF MyTerm
<1>7. PrepOf(u)' = PrepOf(u) BY <1>1, <1>6 DEF PrepOf
<1>8. Began(u)' = Began(u) BY <1>1 DEF Began
<1>9. BegunOf(u)' = BegunOf(u) BY <1>1, <1>6, <1>8 DEF BegunOf
<1>10. Has(u)' = Has(u) BY <1>1, <1>7, <1>9 DEF Has
<1> QED BY <1>2, <1>3, <1>4, <1>5, <1>7, <1>9, <1>10

\* So the sets change by what t has more or less.
LEMMA ItemSets ==
    ASSUME NEW t \in Threads, NEW l, NEW n, Moves(t, l, n)
    PROVE  /\ Accepted = pending \cup InTransit(t)
                             \cup UNION {InTransit(u) : u \in Threads \ {t}}
           /\ Accepted' = pending' \cup InTransit(t)'
                             \cup UNION {InTransit(u) : u \in Threads \ {t}}
           /\ ReadyEntries = {queue[k] : k \in DOMAIN queue} \cup ReadyOf(t)
                             \cup UNION {ReadyOf(u) : u \in Threads \ {t}}
           /\ ReadyEntries' = {queue'[k] : k \in DOMAIN queue'} \cup ReadyOf(t)'
                             \cup UNION {ReadyOf(u) : u \in Threads \ {t}}
           /\ RunningEntries = RunOf(t) \cup UNION {RunOf(u) : u \in Threads \ {t}}
           /\ RunningEntries' = RunOf(t)' \cup UNION {RunOf(u) : u \in Threads \ {t}}
<1>1. \A u \in Threads \ {t} :
          InTransit(u)' = InTransit(u) /\ ReadyOf(u)' = ReadyOf(u) /\ RunOf(u)' = RunOf(u)
  BY OthersKeep
<1>2. /\ Accepted = pending \cup InTransit(t) \cup UNION {InTransit(u) : u \in Threads \ {t}}
      /\ Accepted' = pending' \cup InTransit(t)'
                             \cup UNION {InTransit(u) : u \in Threads \ {t}}
  BY <1>1 DEF Accepted
<1>3. ReadyEntries' = {queue'[k] : k \in DOMAIN queue'} \cup UNION {ReadyOf(u)' : u \in Threads}
  BY Views
<1>4. RunningEntries' = UNION {RunOf(u)' : u \in Threads} BY Views
<1> QED BY <1>1, <1>2, <1>3, <1>4, Views

LEMMA TermSets ==
    ASSUME NEW t \in Threads, NEW l, NEW n, Moves(t, l, n)
    PROVE  /\ Prepared = PrepOf(t) \cup UNION {PrepOf(u) : u \in Threads \ {t}}
           /\ Prepared' = PrepOf(t)' \cup UNION {PrepOf(u) : u \in Threads \ {t}}
           /\ BeingTerminated = termList \cup pendTerms \cup BegunOf(t)
                             \cup UNION {BegunOf(u) : u \in Threads \ {t}}
           /\ BeingTerminated' = termList' \cup pendTerms' \cup BegunOf(t)'
                             \cup UNION {BegunOf(u) : u \in Threads \ {t}}
           /\ Signaled = loc[t].signal \cup UNION {loc[u].signal : u \in Threads \ {t}}
           /\ Signaled' = loc'[t].signal \cup UNION {loc[u].signal : u \in Threads \ {t}}
<1>1. \A u \in Threads \ {t} : PrepOf(u)' = PrepOf(u) /\ BegunOf(u)' = BegunOf(u)
  BY OthersKeep
<1>2. \A u \in Threads \ {t} : loc'[u].signal = loc[u].signal BY DEF Moves
<1>3. /\ Signaled = loc[t].signal \cup UNION {loc[u].signal : u \in Threads \ {t}}
      /\ Signaled' = loc'[t].signal \cup UNION {loc[u].signal : u \in Threads \ {t}}
  BY <1>2 DEF Signaled
<1>4. Prepared' = UNION {PrepOf(u)' : u \in Threads} BY Views
<1>5. BeingTerminated' = termList' \cup pendTerms' \cup UNION {BegunOf(u)' : u \in Threads}
  BY Views
<1> QED BY <1>1, <1>3, <1>4, <1>5, Views

-----------------------------------------------------------------------------
(* Steps that leave entries, or terminations, where they are.              *)

LEMMA ItemFrame ==
    ASSUME NEW t \in Threads, NEW l, NEW n, Moves(t, l, n), EntryInv,
           UNCHANGED <<queue, pending, calls, raced>>, loc'[t].batch = loc[t].batch,
           \/ l = pc[t] /\ loc'[t].entry = loc[t].entry
           \/ {l, pc[t]} \cap {"append", "delay"} = {},
           {n, inner[t]} \cap {"invoke", "leave"} = {}
    PROVE  ItemsStay /\ EntryInv'
<1>1. InTransit(t)' = InTransit(t) BY DEF InTransit, Moves
<1>2. ReadyOf(t)' = ReadyOf(t) BY DEF ReadyOf, Moves
<1>3. ~InCallback(t) /\ ~InCallback(t)' BY DEF InCallback, Moves
<1>4. RunOf(t)' = RunOf(t) BY <1>3 DEF RunOf
<1>5. {queue'[k] : k \in DOMAIN queue'} = {queue[k] : k \in DOMAIN queue} OBVIOUS
<1>6. /\ Accepted' = Accepted /\ ReadyEntries' = ReadyEntries
      /\ RunningEntries' = RunningEntries
  BY <1>1, <1>2, <1>4, <1>5, ItemSets
<1>7. ItemsStay BY <1>6 DEF ItemsStay, Invoked
<1>8. EntryInv'
  <2>1. \A u \in Threads : /\ InCallback(u)' <=> InCallback(u)
                           /\ InCallback(u) => loc'[u] = loc[u]
    BY <1>3 DEF Moves, InCallback
  <2>2. \A u \in Threads : inner'[u] = "invoke" => loc'[u].popped BY DEF EntryInv, Moves
  <2> QED BY <1>6, <2>1, <2>2 DEF EntryInv
<1> QED BY <1>7, <1>8

\* Terminations move only between thread t and the lists, and a new one may come.
LEMMA TokenStep ==
    ASSUME NEW t \in Threads, NEW l, NEW n, Moves(t, l, n), TypeInv, TokenInv,
           nextTerm' \in {nextTerm, nextTerm + 1},
           \A x \in termList' \cup pendTerms' \cup Has(t)' :
               \/ x \in termList \cup pendTerms \cup Has(t)
               \/ x.id = nextTerm /\ nextTerm' = nextTerm + 1,
           \A i \in termDone' \ termDone : \E x \in Has(t) : i = x.id,
           termList' \cap pendTerms' = {}, Has(t)' \cap (termList' \cup pendTerms') = {},
           loc'[t].sched # {} => l = "schedule"
    PROVE  TokenInv'
<1>n. nextTerm \in Nat /\ nextTerm' \in Nat /\ nextTerm <= nextTerm'
  BY DEF TypeInv, SharedTypeOK
<1>i. /\ \A x \in termList \cup pendTerms : x.id \in Nat
      /\ \A u \in Threads : \A x \in Has(u) : x.id \in Nat
      /\ termDone \subseteq Nat
  BY DEF TypeInv, SharedTypeOK, ThreadTypeOK, Locals, Term, Has, PrepOf, BegunOf, MyTerm
<1>1. \A u \in Threads \ {t} : Has(u)' = Has(u) BY OthersKeep
<1>2. \A x \in termList \cup pendTerms : x.id < nextTerm BY DEF TokenInv
<1>3. \A u \in Threads : \A x \in Has(u) : x.id < nextTerm BY DEF TokenInv
<1>4. \A u \in Threads \ {t} : Has(u) \cap (termList \cup pendTerms \cup Has(t)) = {}
  BY DEF TokenInv
<1>5. \A u \in Threads \ {t} : Has(u) \cap (termList' \cup pendTerms' \cup Has(t)') = {}
  <2> SUFFICES ASSUME NEW u \in Threads \ {t}, NEW x \in Has(u),
                      x \in termList' \cup pendTerms' \cup Has(t)'
               PROVE  FALSE
    OBVIOUS
  <2>1. x.id # nextTerm BY <1>3, <1>n, <1>i
  <2> QED BY <2>1, <1>4
<1>6. \A u \in Threads : Has(u)' \cap (termList' \cup pendTerms') = {} BY <1>1, <1>5
<1>7. \A u, v \in Threads : u # v => Has(u)' \cap Has(v)' = {}
  <2>1. \A u, v \in Threads : u # v => Has(u) \cap Has(v) = {} BY DEF TokenInv
  <2> QED BY <2>1, <1>1, <1>5
<1>8. \A x \in termList' \cup pendTerms' \cup Has(t)' : x.id < nextTerm'
  <2> SUFFICES ASSUME NEW x \in termList' \cup pendTerms' \cup Has(t)' PROVE x.id < nextTerm'
    OBVIOUS
  <2>1. CASE x \in termList \cup pendTerms \cup Has(t)
    <3>1. x.id \in Nat /\ x.id < nextTerm BY <2>1, <1>i, <1>2, <1>3
    <3> QED BY <3>1, <1>n
  <2>2. CASE x.id = nextTerm /\ nextTerm' = nextTerm + 1 BY <2>2, <1>n
  <2> QED BY <2>1, <2>2
<1>9. \A u \in Threads : \A x \in Has(u)' : x.id < nextTerm'
  <2>1. \A u \in Threads \ {t} : \A x \in Has(u) : x.id < nextTerm' BY <1>3, <1>i, <1>n
  <2> QED BY <2>1, <1>1, <1>8
<1>10. \A i \in termDone' : i < nextTerm'
  <2>1. \A i \in termDone : i < nextTerm BY DEF TokenInv
  <2>2. \A i \in termDone : i < nextTerm' BY <2>1, <1>i, <1>n
  <2>3. \A x \in Has(t) : x.id < nextTerm' BY <1>3, <1>i, <1>n
  <2> QED BY <2>2, <2>3
<1>11. \A u \in Threads : loc'[u].sched # {} => pc'[u] = "schedule"
  BY DEF TokenInv, Moves
<1> QED BY <1>6, <1>7, <1>8, <1>9, <1>10, <1>11 DEF TokenInv

LEMMA TermFrame ==
    ASSUME NEW t \in Threads, NEW l, NEW n, Moves(t, l, n), TypeInv, TokenInv,
           UNCHANGED <<termList, pendTerms, nextTerm, termDone>>,
           loc'[t].sched = loc[t].sched, loc'[t].signal = loc[t].signal,
           loc[t].sched # {} => l = "schedule",
           l = "prepared" <=> pc[t] = "prepared", Began(t)' <=> Began(t),
           Began(t) \/ pc[t] = "prepared" =>
               loc'[t].term = loc[t].term /\ loc'[t].ctx = loc[t].ctx
    PROVE  TermsStay /\ TokenInv'
<1>1. Began(t) \/ pc[t] = "prepared" => MyTerm(t)' = MyTerm(t) BY DEF MyTerm
<1>2. PrepOf(t)' = PrepOf(t) BY <1>1 DEF PrepOf, Moves
<1>3. BegunOf(t)' = BegunOf(t) BY <1>1 DEF BegunOf
<1>4. Has(t)' = Has(t) BY <1>2, <1>3 DEF Has
<1>5. TermsStay BY <1>2, <1>3, TermSets DEF TermsStay
<1>6. termList \cap pendTerms = {} /\ Has(t) \cap (termList \cup pendTerms) = {}
  BY DEF TokenInv
<1>7. TokenInv' BY <1>4, <1>6, TokenStep
<1> QED BY <1>5, <1>7

\* The steps that move no entry; LeaveCallback returns from one.
LEMMA ItemSteps ==
    ASSUME NEW t \in Threads, TypeInv, OnceInv, EntryInv,
           \/ (\E c \in Contexts : \/ PrepareTerminate(t, c) \/ SuspendTermination(t, c)
                                   \/ ResumeTermination(t, c) \/ Dispatch(t, c))
           \/ LowerTimerDue(t) \/ StartTimer(t) \/ QueueItemReturns(t)
           \/ FlushDone(t)
           \/ CancelTermination(t) \/ Terminate(t) \/ TerminateAddSuspend(t)
           \/ ParkTermination(t) \/ SuspendVerify(t) \/ RemoveSuspend(t)
           \/ CollectTerminations(t) \/ (\E x \in loc[t].sched : ScheduleTermination(t, x))
           \/ ScheduleDone(t) \/ NotifyItemQueued(t)
           \/ PoolCallback(t) \/ PoolDrained(t) \/ PoolLeave(t)
           \/ Dispatched(t) \/ Wait(t) \/ Wake(t) \/ WaitTimesOut(t) \/ TimerFires(t)
           \/ SubmitPendingCallbacks(t) \/ RestartTimer(t) \/ RecheckTimerDue(t)
           \/ RearmTimer(t) \/ ExchangeTimerDue(t)
           \/ StartTimerForNext(t) \/ ClearTimerDue(t)
           \/ DrainOneItem(t)
           \/ CheckQueueEmpty(t) \/ CheckNotProcessing(t) \/ SignalTerminations(t)
           \/ (\E x \in loc[t].signal : TerminationCallback(t, x)) \/ SignalDone(t)
    PROVE  ItemsStay /\ EntryInv'
<1>s. ThreadTypeOK /\ loc[t] \in Locals BY DEF TypeInv, ThreadTypeOK
<1>f. Fresh.batch = {} BY DEF Fresh
<1>b. loc[t].batch # {} => pc[t] = "flush" BY DEF OnceInv, BatchInv
<1>u. UNCHANGED <<queue, pending, calls, raced>>
  BY DEF PrepareTerminate, SuspendTermination, ResumeTermination, Dispatch,
     LowerTimerDue, StartTimer, QueueItemReturns,
     FlushDone, CancelTermination, Terminate,
     TerminateAddSuspend, ParkTermination, SuspendVerify, RemoveSuspend, CollectTerminations,
     ScheduleTermination, ScheduleDone, NotifyItemQueued, PoolCallback, PoolDrained,
     PoolLeave, Dispatched, Wait, Wake, WaitTimesOut, TimerFires, SubmitPendingCallbacks,
     RestartTimer, RecheckTimerDue, RearmTimer,
     ExchangeTimerDue, StartTimerForNext, ClearTimerDue, DrainOneItem,
     CheckQueueEmpty, CheckNotProcessing, SignalTerminations, TerminationCallback, SignalDone,
     exCtx, exList, exTerm, exDrain, exWake, exTime, shared, base, listVars
<1> DEFINE Bearing == {"append", "delay", "flush"}
           Calling == {"invoke", "leave"}
\* An outer step, with nothing carried before or after it.
<1>c. ASSUME NEW l, NEW n, Moves(t, l, n), inner[t] = "none", n \notin Calling,
             pc[t] \notin Bearing, l \notin {"append", "delay"}, loc'[t].batch = {}
      PROVE  ItemsStay /\ EntryInv'
  BY <1>c, <1>u, <1>b, ItemFrame
<1>k. ASSUME NEW l, NEW n, NEW ch, Moves(t, l, n), inner[t] = "none", n \notin Calling,
             pc[t] \notin Bearing, l \notin {"append", "delay"},
             Keeps(t, ch), "batch" \notin ch
      PROVE  ItemsStay /\ EntryInv'
  <2>1. loc'[t].batch = loc[t].batch BY <1>k DEF Keeps, Fields
  <2> QED BY <1>k, <2>1, <1>c, <1>b
<1>r. ASSUME NEW l, NEW n, NEW ch, Moves(t, l, n), inner[t] = "none", n \notin Calling,
             pc[t] \notin Bearing, l \notin {"append", "delay"},
             FreshBut(t, ch), "batch" \notin ch
      PROVE  ItemsStay /\ EntryInv'
  <2>1. loc'[t].batch = {} BY <1>r, <1>f DEF FreshBut, Fields
  <2> QED BY <1>r, <2>1, <1>c
<1>x. ASSUME NEW l, NEW n, Moves(t, l, n), loc'[t] = loc[t] \/ loc'[t] = Fresh,
             inner[t] = "none", n \notin Calling,
             pc[t] \notin Bearing, l \notin {"append", "delay"}
      PROVE  ItemsStay /\ EntryInv'
  BY <1>x, <1>f, <1>b, <1>c
<1>g. ASSUME NEW l, Goto(t, l), inner[t] = "none", pc[t] \notin Bearing,
             l \notin {"append", "delay"}
      PROVE  ItemsStay /\ EntryInv'
  <2>1. "none" \notin Calling OBVIOUS
  <2> QED BY <1>g, <2>1, <1>s, <1>x, GotoEffect
\* A nested step.
<1>n. ASSUME NEW n, NEW ch, Moves(t, pc[t], n), inner[t] \notin Calling, n \notin Calling,
             Keeps(t, ch), ch \cap {"batch", "entry"} = {}
      PROVE  ItemsStay /\ EntryInv'
  <2>1. loc'[t].batch = loc[t].batch /\ loc'[t].entry = loc[t].entry
    BY <1>n DEF Keeps, Fields
  <2> QED BY <1>n, <2>1, <1>u, ItemFrame
<1>e. ASSUME NEW n, Enter(t, n), inner[t] \notin Calling, n \notin Calling
      PROVE  ItemsStay /\ EntryInv'
  <2>1. Moves(t, pc[t], n) /\ loc'[t] = loc[t] BY <1>e, <1>s, EnterEffect
  <2> QED BY <1>e, <2>1, <1>u, ItemFrame
<1>1. CASE \/ LowerTimerDue(t) \/ StartTimer(t)
           \/ CancelTermination(t) \/ ParkTermination(t) \/ SuspendVerify(t)
           \/ RemoveSuspend(t) \/ PoolLeave(t) \/ Dispatched(t) \/ Wake(t)
           \/ WaitTimesOut(t) \/ TimerFires(t) \/ RestartTimer(t) \/ RecheckTimerDue(t)
           \/ StartTimerForNext(t)
  <2>1. /\ inner[t] = "none" /\ pc[t] \notin Bearing
        /\ \E l : Goto(t, l) /\ l \notin {"append", "delay"}
    BY <1>1 DEF LowerTimerDue, StartTimer, CancelTermination,
       ParkTermination, SuspendVerify, RemoveSuspend, PoolLeave, Dispatched, Wake,
       WaitTimesOut, TimerFires, RestartTimer, RecheckTimerDue, StartTimerForNext, At
  <2> QED BY <2>1, <1>g
<1>2. CASE FlushDone(t)
  <2>1. loc[t].ret \in Returns BY <1>s DEF Locals
  <2>2. /\ loc[t].batch = {} /\ pc[t] = "flush" /\ inner[t] = "none"
        /\ Moves(t, loc[t].ret, "none") /\ (loc'[t] = loc[t] \/ loc'[t] = Fresh)
    BY <1>2, <1>s, GotoEffect DEF FlushDone, At
  <2> QED BY <2>1, <2>2, <1>f, <1>u, ItemFrame DEF Returns
<1>3. CASE ScheduleDone(t)
  <2>1. loc[t].ret \in Returns BY <1>s DEF Locals
  <2> QED BY <1>3, <2>1, <1>g DEF ScheduleDone, Returns, At
<1>4. CASE \/ NotifyItemQueued(t) \/ DrainOneItem(t)
           \/ CheckQueueEmpty(t) \/ CheckNotProcessing(t) \/ SignalDone(t)
  <2>1. inner[t] \notin Calling /\ \E n : Enter(t, n) /\ n \notin Calling
    BY <1>4 DEF NotifyItemQueued, AfterNotify, DrainOneItem, CheckQueueEmpty,
       CheckNotProcessing, SignalDone
  <2> QED BY <2>1, <1>e
<1>5. ASSUME NEW c \in Contexts, PrepareTerminate(t, c) PROVE ItemsStay /\ EntryInv'
  BY <1>5, <1>r, PrepareTerminateEffect DEF PrepareTerminate, At
<1>6. ASSUME NEW c \in Contexts,
             \/ SuspendTermination(t, c) \/ ResumeTermination(t, c) \/ Dispatch(t, c)
      PROVE  ItemsStay /\ EntryInv'
  <2>1. PICK l \in {"verify", "resume", "dispatch"}, n \in {"none", "drain"} :
            Moves(t, l, n) /\ FreshBut(t, {"ctx"}) /\ inner[t] = "none" /\ pc[t] = "idle"
    BY <1>6, StartEffect DEF SuspendTermination, ResumeTermination, Dispatch, At
  <2> QED BY <2>1, <1>r
<1>7. CASE QueueItemReturns(t)
  BY <1>7, <1>x, <1>k, QueueItemReturnsEffect DEF QueueItemReturns, At
<1>8. CASE Terminate(t) BY <1>8, <1>k, TerminateEffect DEF Terminate, At
<1>9. CASE TerminateAddSuspend(t)
  BY <1>9, <1>k, <1>x, TerminateAddSuspendEffect DEF TerminateAddSuspend, At
<1>10. CASE CollectTerminations(t)
  BY <1>10, <1>k, CollectTerminationsEffect DEF CollectTerminations, At
<1>11. CASE \E x \in loc[t].sched : ScheduleTermination(t, x)
  BY <1>11, <1>k, ScheduleTerminationEffect DEF ScheduleTermination, At
<1>12. CASE \E x \in loc[t].signal : TerminationCallback(t, x)
  BY <1>12, <1>n, TerminationCallbackEffect DEF TerminationCallback
<1>13. CASE SignalTerminations(t)
  BY <1>13, <1>n, SignalTerminationsEffect DEF SignalTerminations
<1>14. CASE PoolCallback(t) BY <1>14, <1>x, PoolCallbackEffect DEF PoolCallback, At
<1>15. CASE PoolDrained(t) BY <1>15, <1>g, <1>e DEF PoolDrained, At
<1>16. CASE Wait(t)
  <2>1. /\ inner[t] = "none" /\ pc[t] = "wait"
        /\ Go(t, "dispatch", "drain", loc[t]) \/ Goto(t, "idle") \/ Goto(t, "blocked")
    BY <1>16 DEF Wait, At
  <2> QED BY <2>1, <1>s, <1>x, <1>g, GoEffect
<1>17. CASE SubmitPendingCallbacks(t)
  BY <1>17, <1>x, <1>k, SubmitPendingCallbacksEffect DEF SubmitPendingCallbacks, At
<1>18. CASE RearmTimer(t) BY <1>18, <1>x, <1>k, RearmTimerEffect DEF RearmTimer, At
<1>19. CASE ExchangeTimerDue(t)
  BY <1>19, <1>x, <1>k, ExchangeTimerDueEffect DEF ExchangeTimerDue, At
<1>20. CASE ClearTimerDue(t)
  BY <1>20, <1>x, <1>k, ClearTimerDueEffect DEF ClearTimerDue, At
<1> QED BY <1>1, <1>2, <1>3, <1>4, <1>5, <1>6, <1>7, <1>8, <1>9, <1>10, <1>11, <1>12,
           <1>13, <1>14, <1>15, <1>16, <1>17, <1>18, <1>19, <1>20

\* The steps that move no termination.
LEMMA TokenSteps ==
    ASSUME NEW t \in Threads, TypeInv, TokenInv, RetInv, SignalInv,
           \/ (\E c \in Contexts, w \in Delays : QueueItem(t, c, w))
           \/ (\E c \in Contexts : \/ SuspendTermination(t, c)
                                   \/ ResumeTermination(t, c) \/ Dispatch(t, c))
           \/ QueueItemFails(t) \/ AppendEntry(t) \/ DelayEntry(t)
           \/ LowerTimerDue(t) \/ StartTimer(t) \/ QueueItemReturns(t)
           \/ CancelPendingEntries(t) \/ (\E e \in loc[t].batch : FlushEntry(t, e))
           \/ FlushDone(t) \/ SuspendVerify(t) \/ RemoveSuspend(t)
           \/ ScheduleDone(t) \/ NotifyItemQueued(t)
           \/ DrainOneItem(t) \/ PopFront(t) \/ InvokeCallback(t) \/ LeaveCallback(t)
           \/ CheckQueueEmpty(t) \/ CheckNotProcessing(t) \/ SignalDone(t)
           \/ PoolCallback(t) \/ PoolDrained(t) \/ PoolLeave(t)
           \/ Dispatched(t) \/ Wait(t) \/ Wake(t) \/ WaitTimesOut(t) \/ TimerFires(t)
           \/ SubmitPendingCallbacks(t) \/ RestartTimer(t) \/ RecheckTimerDue(t)
           \/ PromoteReadyPendingCallbacks(t) \/ RearmTimer(t) \/ ExchangeTimerDue(t)
           \/ StartTimerForNext(t) \/ ClearTimerDue(t)
    PROVE  TermsStay /\ TokenInv'
<1>s. ThreadTypeOK /\ loc[t] \in Locals BY DEF TypeInv, ThreadTypeOK
<1>f. Fresh.sched = {} /\ Fresh.signal = {} BY DEF Fresh
<1>b. loc[t].sched # {} => pc[t] = "schedule" BY DEF TokenInv
<1>i. inner[t] = "none" => loc[t].signal = {} BY DEF SignalInv
<1>u. UNCHANGED <<termList, pendTerms, nextTerm, termDone>>
  BY DEF QueueItem, SuspendTermination, ResumeTermination, Dispatch, QueueItemFails,
     AppendEntry, DelayEntry, LowerTimerDue, StartTimer, QueueItemReturns,
     CancelPendingEntries, FlushEntry, FlushDone, SuspendVerify, RemoveSuspend, ScheduleDone,
     NotifyItemQueued, DrainOneItem, PopFront, InvokeCallback, LeaveCallback, CheckQueueEmpty,
     CheckNotProcessing, SignalDone, PoolCallback, PoolDrained, PoolLeave, Dispatched, Wait,
     Wake, WaitTimesOut, TimerFires, SubmitPendingCallbacks, RestartTimer, RecheckTimerDue,
     PromoteReadyPendingCallbacks, RearmTimer, ExchangeTimerDue, StartTimerForNext,
     ClearTimerDue, exCtx, exList, exTerm, exDrain, exWake, exTime, shared, base, termVars
<1> DEFINE Bearing == {"prepared", "suspend", "park", "cancel", "flush"}
\* An outer step, with nothing carried before or after it.
<1>c. ASSUME NEW l, NEW n, Moves(t, l, n), inner[t] = "none",
             pc[t] \notin Bearing, loc[t].sched = {},
             l \notin {"prepared", "suspend", "park"},
             l \in {"cancel", "flush"} => loc'[t].ret # "suspend",
             loc'[t].sched = {}, loc'[t].signal = {}
      PROVE  TermsStay /\ TokenInv'
  <2>1. ~Began(t) /\ ~Began(t)' BY <1>c DEF Began, Moves
  <2> QED BY <1>c, <2>1, <1>u, <1>i, TermFrame
<1>k. ASSUME NEW l, NEW n, NEW ch, Moves(t, l, n), inner[t] = "none",
             pc[t] \notin Bearing, loc[t].sched = {},
             l \notin {"prepared", "suspend", "park"},
             l \in {"cancel", "flush"} => loc'[t].ret # "suspend",
             Keeps(t, ch), ch \cap {"sched", "signal"} = {}
      PROVE  TermsStay /\ TokenInv'
  <2>1. loc'[t].sched = loc[t].sched /\ loc'[t].signal = loc[t].signal
    BY <1>k DEF Keeps, Fields
  <2> QED BY <1>k, <2>1, <1>c, <1>i
<1>r. ASSUME NEW l, NEW n, NEW ch, Moves(t, l, n), At(t, "idle"), l \notin Bearing,
             FreshBut(t, ch), ch \cap {"sched", "signal"} = {}
      PROVE  TermsStay /\ TokenInv'
  <2>1. loc'[t].sched = {} /\ loc'[t].signal = {} BY <1>r, <1>f DEF FreshBut, Fields
  <2>2. pc[t] \notin Bearing /\ inner[t] = "none" BY <1>r DEF At
  <2>3. loc[t].sched = {} BY <1>r, <1>b DEF At
  <2> QED BY <1>r, <2>1, <2>2, <2>3, <1>c
<1>x. ASSUME NEW l, NEW n, Moves(t, l, n), loc'[t] = loc[t] \/ loc'[t] = Fresh,
             inner[t] = "none", pc[t] \notin Bearing, loc[t].sched = {}, l \notin Bearing
      PROVE  TermsStay /\ TokenInv'
  BY <1>x, <1>f, <1>i, <1>c
<1>g. ASSUME NEW l, Goto(t, l), inner[t] = "none", pc[t] \notin Bearing,
             loc[t].sched = {}, l \notin Bearing
      PROVE  TermsStay /\ TokenInv'
  BY <1>g, <1>s, <1>x, GotoEffect
\* A step that stays at its label.
<1>n. ASSUME NEW n, NEW ch, Moves(t, pc[t], n), Keeps(t, ch),
             ch \cap {"sched", "signal", "term", "ctx", "ret"} = {}
      PROVE  TermsStay /\ TokenInv'
  <2>1. /\ loc'[t].sched = loc[t].sched /\ loc'[t].signal = loc[t].signal
        /\ loc'[t].term = loc[t].term /\ loc'[t].ctx = loc[t].ctx /\ loc'[t].ret = loc[t].ret
    BY <1>n DEF Keeps, Fields
  <2>2. Began(t)' <=> Began(t) BY <1>n, <2>1 DEF Began, Moves
  <2> QED BY <1>n, <2>1, <2>2, <1>u, <1>b, TermFrame
<1>e. ASSUME NEW n, Enter(t, n) PROVE TermsStay /\ TokenInv'
  <2>1. Moves(t, pc[t], n) /\ loc'[t] = loc[t] BY <1>e, <1>s, EnterEffect
  <2>2. Keeps(t, {}) BY <2>1 DEF Keeps
  <2> QED BY <2>1, <2>2, <1>n
<1>1. CASE \/ QueueItemFails(t) \/ DelayEntry(t) \/ LowerTimerDue(t) \/ StartTimer(t)
           \/ SuspendVerify(t) \/ RemoveSuspend(t) \/ PoolLeave(t) \/ Dispatched(t)
           \/ Wake(t) \/ WaitTimesOut(t) \/ TimerFires(t) \/ RestartTimer(t)
           \/ RecheckTimerDue(t) \/ StartTimerForNext(t)
  <2>1. /\ inner[t] = "none" /\ pc[t] \notin Bearing /\ pc[t] # "schedule"
        /\ \E l : Goto(t, l) /\ l \notin Bearing
    BY <1>1 DEF QueueItemFails, DelayEntry, LowerTimerDue, StartTimer, SuspendVerify,
       RemoveSuspend, PoolLeave, Dispatched, Wake, WaitTimesOut, TimerFires, RestartTimer,
       RecheckTimerDue, StartTimerForNext, At
  <2> QED BY <2>1, <1>g, <1>b
<1>2. CASE FlushDone(t)
  <2>1. loc[t].ret \in Returns BY <1>s DEF Locals
  <2>2. /\ pc[t] = "flush" /\ inner[t] = "none" /\ Moves(t, loc[t].ret, "none")
        /\ loc'[t] = IF loc[t].ret = "idle" THEN Fresh ELSE loc[t]
    BY <1>2, <1>s, GotoEffect DEF FlushDone, At
  <2>3. loc[t].sched = {} /\ loc[t].signal = {} BY <2>2, <1>b, <1>i
  <2>4. /\ Began(t) <=> loc[t].ret = "suspend"
        /\ Began(t)' <=> loc[t].ret = "suspend"
    BY <2>1, <2>2 DEF Began, Moves, Returns
  <2>5. loc'[t].sched = {} /\ loc'[t].signal = {} BY <2>2, <2>3, <1>f
  <2>6. loc[t].ret # "prepared" BY <2>1 DEF Returns
  <2>7. Began(t) => loc'[t] = loc[t] BY <2>2, <2>4
  <2> QED BY <2>2, <2>3, <2>4, <2>5, <2>6, <2>7, <1>u, TermFrame
<1>3. CASE ScheduleDone(t)
  <2>1. /\ pc[t] = "schedule" /\ inner[t] = "none" /\ loc[t].sched = {}
        /\ Goto(t, loc[t].ret)
    BY <1>3 DEF ScheduleDone, At
  <2>2. loc[t].ret \in {"idle", "resume"} BY <2>1 DEF RetInv
  <2> QED BY <2>1, <2>2, <1>g
<1>4. CASE \/ NotifyItemQueued(t) \/ DrainOneItem(t) \/ InvokeCallback(t)
           \/ CheckQueueEmpty(t) \/ CheckNotProcessing(t) \/ SignalDone(t)
  BY <1>4, <1>e DEF NotifyItemQueued, DrainOneItem, InvokeCallback, CheckQueueEmpty,
     CheckNotProcessing, SignalDone
<1>5. ASSUME NEW c \in Contexts, NEW w \in Delays, QueueItem(t, c, w)
      PROVE  TermsStay /\ TokenInv'
  <2>1. PICK l \in {"append", "delay"} : Moves(t, l, "none")
    <3>1. Moves(t, IF w = 0 THEN "append" ELSE "delay", "none") BY <1>5, QueueItemEffect
    <3> QED BY <3>1
  <2>2. FreshBut(t, {"ctx", "entry"}) /\ At(t, "idle")
    BY <1>5, QueueItemEffect DEF QueueItem
  <2> QED BY <2>1, <2>2, <1>r
<1>6. ASSUME NEW c \in Contexts,
             \/ SuspendTermination(t, c) \/ ResumeTermination(t, c) \/ Dispatch(t, c)
      PROVE  TermsStay /\ TokenInv'
  <2>1. PICK l \in {"verify", "resume", "dispatch"}, n \in {"none", "drain"} :
            Moves(t, l, n) /\ FreshBut(t, {"ctx"}) /\ At(t, "idle")
    BY <1>6, StartEffect DEF SuspendTermination, ResumeTermination, Dispatch
  <2> QED BY <2>1, <1>r
<1>7. CASE AppendEntry(t)
  <2>1. /\ Moves(t, "queued", "notify") /\ loc'[t] = loc[t]
        /\ pc[t] = "append" /\ inner[t] = "none"
    BY <1>7, <1>s, GoEffect DEF AppendEntry, At
  <2> QED BY <2>1, <1>x, <1>b
<1>8. CASE QueueItemReturns(t)
  <2>1. pc[t] = "queued" /\ inner[t] = "none" BY <1>8 DEF QueueItemReturns, At
  <2> QED BY <1>8, <2>1, <1>x, <1>k, <1>b, QueueItemReturnsEffect
<1>9. CASE CancelPendingEntries(t)
  <2>1. /\ Moves(t, "flush", "none") /\ Keeps(t, {"batch"})
        /\ pc[t] = "cancel" /\ inner[t] = "none"
    BY <1>9, CancelPendingEntriesEffect DEF CancelPendingEntries, At
  <2>2. /\ loc'[t].sched = loc[t].sched /\ loc'[t].signal = loc[t].signal
        /\ loc'[t].term = loc[t].term /\ loc'[t].ctx = loc[t].ctx /\ loc'[t].ret = loc[t].ret
    BY <2>1 DEF Keeps, Fields
  <2>3. Began(t)' <=> Began(t) BY <2>1, <2>2 DEF Began, Moves
  <2> QED BY <2>1, <2>2, <2>3, <1>u, <1>b, TermFrame
<1>10. CASE \E e \in loc[t].batch : FlushEntry(t, e)
  <2>1. pc[t] = "flush" /\ Moves(t, pc[t], "notify") /\ Keeps(t, {"batch"})
    BY <1>10, FlushEntryEffect DEF FlushEntry, At
  <2> QED BY <2>1, <1>n
<1>11. CASE PopFront(t)
  BY <1>11, <1>n, PopFrontEffect
<1>12. CASE LeaveCallback(t) BY <1>12, <1>n, LeaveCallbackEffect
<1>13. CASE PoolCallback(t)
  <2>1. pc[t] = "idle" /\ inner[t] = "none" BY <1>13 DEF PoolCallback, At
  <2> QED BY <1>13, <2>1, <1>x, <1>b, PoolCallbackEffect
<1>14. CASE PoolDrained(t)
  <2>1. pc[t] = "pool" /\ inner[t] = "none" BY <1>14 DEF PoolDrained, At
  <2> QED BY <1>14, <2>1, <1>b, <1>g, <1>e DEF PoolDrained
<1>15. CASE Wait(t)
  <2>1. /\ inner[t] = "none" /\ pc[t] = "wait"
        /\ Go(t, "dispatch", "drain", loc[t]) \/ Goto(t, "idle") \/ Goto(t, "blocked")
    BY <1>15 DEF Wait, At
  <2> QED BY <2>1, <1>s, <1>b, <1>x, <1>g, GoEffect
<1>16. CASE SubmitPendingCallbacks(t)
  <2>1. pc[t] = "load" /\ inner[t] = "none" BY <1>16 DEF SubmitPendingCallbacks, At
  <2> QED BY <1>16, <2>1, <1>b, <1>x, <1>k, SubmitPendingCallbacksEffect
<1>17. CASE PromoteReadyPendingCallbacks(t)
  <2>1. pc[t] = "promote" /\ inner[t] = "none" BY <1>17 DEF PromoteReadyPendingCallbacks, At
  <2> QED BY <1>17, <2>1, <1>b, <1>k, PromoteEffect
<1>18. CASE RearmTimer(t)
  <2>1. pc[t] = "rearm" /\ inner[t] = "none" BY <1>18 DEF RearmTimer, At
  <2> QED BY <1>18, <2>1, <1>b, <1>x, <1>k, RearmTimerEffect
<1>19. CASE ExchangeTimerDue(t)
  <2>1. pc[t] = "cas" /\ inner[t] = "none" BY <1>19 DEF ExchangeTimerDue, At
  <2> QED BY <1>19, <2>1, <1>b, <1>x, <1>k, ExchangeTimerDueEffect
<1>20. CASE ClearTimerDue(t)
  <2>1. pc[t] = "clear" /\ inner[t] = "none" BY <1>20 DEF ClearTimerDue, At
  <2> QED BY <1>20, <2>1, <1>b, <1>x, <1>k, ClearTimerDueEffect
<1> QED BY <1>1, <1>2, <1>3, <1>4, <1>5, <1>6, <1>7, <1>8, <1>9, <1>10, <1>11, <1>12,
           <1>13, <1>14, <1>15, <1>16, <1>17, <1>18, <1>19, <1>20

-----------------------------------------------------------------------------
(* Steps that move an entry.                                               *)

\* What they leave alone.
LEMMA Besides ==
    ASSUME NEW t \in Threads, TypeInv, TokenInv, RetInv, SignalInv,
           \/ (\E c \in Contexts, w \in Delays : QueueItem(t, c, w))
           \/ QueueItemFails(t) \/ AppendEntry(t) \/ DelayEntry(t)
           \/ CancelPendingEntries(t) \/ (\E e \in loc[t].batch : FlushEntry(t, e))
           \/ PopFront(t) \/ InvokeCallback(t) \/ LeaveCallback(t)
           \/ PromoteReadyPendingCallbacks(t)
    PROVE  TermsStay /\ TokenInv' /\ HoldsStay /\ UNCHANGED status
<1>1. TermsStay /\ TokenInv' BY TokenSteps
<1>2. UNCHANGED <<status, holders, overlap>> BY NeutralUnchanged
<1> QED BY <1>1, <1>2 DEF HoldsStay, Held

\* An entry is where OnceInv counts it.
LEMMA Whereabouts ==
    ASSUME NEW i
    PROVE  /\ \A x \in Accepted : x.id = i => DelayedAs(i) # {} \/ CarriedBy(i) # {}
           /\ \A x \in ReadyEntries : x.id = i => QueuedAt(i) # {} \/ PoppedBy(i) # {}
<1>1. \A x \in pending : x.id = i => x \in DelayedAs(i) BY DEF DelayedAs
<1>2. \A u \in Threads : \A x \in InTransit(u) : x.id = i => u \in CarriedBy(i)
  BY DEF CarriedBy
<1>3. \A k \in DOMAIN queue : queue[k].id = i => k \in QueuedAt(i) BY DEF QueuedAt
<1>4. \A u \in Threads : inner[u] = "invoke" /\ loc[u].item.id = i => u \in PoppedBy(i)
  BY DEF PoppedBy
<1>5. \A x \in Accepted : x \in pending \/ \E u \in Threads : x \in InTransit(u)
  BY DEF Accepted
<1>6. \A x \in ReadyEntries : \/ \E k \in DOMAIN queue : x = queue[k]
                              \/ \E u \in Threads : inner[u] = "invoke" /\ x = loc[u].item
  BY DEF ReadyEntries
<1> QED BY <1>1, <1>2, <1>3, <1>4, <1>5, <1>6

\* Entries that move while no callback starts or returns.
LEMMA EntriesMove ==
    ASSUME NEW t \in Threads, NEW l, NEW n, Moves(t, l, n), EntryInv, UNCHANGED calls,
           ~InCallback(t), ~InCallback(t)', n = "invoke" => loc'[t].popped,
           \A e \in Accepted' \cup ReadyEntries' :
               e \in Accepted \cup ReadyEntries \/ e.id \in 1 .. MaxItems
    PROVE  RunningEntries' = RunningEntries /\ Invoked' = Invoked /\ EntryInv'
<1>1. RunOf(t) = {} /\ RunOf(t)' = {} BY DEF RunOf
<1>2. RunningEntries' = RunningEntries BY <1>1, ItemSets
<1>3. \A u \in Threads : /\ InCallback(u)' <=> InCallback(u)
                         /\ InCallback(u) => loc'[u] = loc[u]
  BY DEF Moves, InCallback
<1>4. \A u \in Threads : inner'[u] = "invoke" => loc'[u].popped BY DEF EntryInv, Moves
<1>5. EntryInv' BY <1>2, <1>3, <1>4 DEF EntryInv
<1> QED BY <1>2, <1>5 DEF Invoked

\* QueueItem lets a new callback in.
LEMMA QueueItemPromised ==
    ASSUME NEW t \in Threads, NEW c \in Contexts, NEW w \in Delays,
           TypeInv, OnceInv, PromiseInv, RetInv, SignalInv, QueueItem(t, c, w)
    PROVE  Promised /\ PromiseInv'
<1> DEFINE e == loc'[t].entry
<1>b. TermsStay /\ TokenInv' /\ HoldsStay /\ UNCHANGED status BY Besides DEF PromiseInv
<1>u. /\ UNCHANGED <<queue, pending, calls, raced>>
      /\ pc[t] = "idle" /\ inner[t] = "none" /\ status[c] \notin Terminal
  BY DEF QueueItem, exCtx, listVars, At, NotTerminated
<1>i. nextId \in 1 .. MaxItems
  BY BoundsAssumption DEF QueueItem, TypeInv, SharedTypeOK
<1>m. PICK l \in {"append", "delay"} : Moves(t, l, "none")
  <2>1. Moves(t, IF w = 0 THEN "append" ELSE "delay", "none") BY QueueItemEffect
  <2> QED BY <2>1
<1>e. e.id = nextId /\ e.ctx = c
  <2>1. e = [id |-> nextId, ctx |-> c, when |-> IF w = 0 THEN 0 ELSE now + w]
    BY QueueItemEffect
  <2> QED BY <2>1
<1>t. InTransit(t) = {} /\ InTransit(t)' = {e}
  <2>1. loc[t].batch = {} BY <1>u DEF OnceInv, BatchInv
  <2>2. FreshBut(t, {"ctx", "entry"}) BY QueueItemEffect
  <2>3. loc'[t].batch = {} BY <2>2 DEF FreshBut, Fields, Fresh
  <2> QED BY <2>1, <2>3, <1>u, <1>m DEF InTransit, Moves
<1>r. ReadyOf(t) = {} /\ ReadyOf(t)' = {} /\ ~InCallback(t) /\ ~InCallback(t)'
  BY <1>u, <1>m DEF ReadyOf, InCallback, Moves
<1> HIDE DEF e
<1>1. Accepted' = Accepted \cup {e} BY <1>m, <1>t, <1>u, ItemSets
<1>2. ReadyEntries' = ReadyEntries
  <2>1. {queue'[k] : k \in DOMAIN queue'} = {queue[k] : k \in DOMAIN queue} BY <1>u
  <2> QED BY <2>1, <1>m, <1>r, ItemSets
<1>3. RunningEntries' = RunningEntries /\ Invoked' = Invoked /\ EntryInv'
  BY <1>1, <1>2, <1>m, <1>r, <1>u, <1>e, <1>i, EntriesMove DEF PromiseInv
<1>4. calls[e.id] = 0
  BY <1>e, <1>i DEF OnceInv, HistoryInv
<1>5. e.id \notin Invoked BY <1>4 DEF Invoked
<1>6. \A x \in Accepted \cup ReadyEntries : x.id # e.id
  <2>1. ~Waiting(nextId) BY <1>i DEF Waiting
  <2>2. Placed(nextId) BY <1>i DEF OnceInv, PlacedInv
  <2>3. /\ QueuedAt(nextId) = {} /\ DelayedAs(nextId) = {}
        /\ CarriedBy(nextId) = {} /\ PoppedBy(nextId) = {}
    BY <2>1, <2>2 DEF Placed
  <2> QED BY <2>3, <1>e, Whereabouts
<1>7. \A x \in RunningEntries : x.id # e.id BY <1>4 DEF PromiseInv, EntryInv
<1>8. Promised
  BY <1>1, <1>2, <1>3, <1>5, <1>6, <1>7, <1>b, <1>e, <1>u, AcceptMaps
<1> QED BY <1>3, <1>8, <1>b DEF PromiseInv

\* A carried entry is nowhere else.
LEMMA CarriedAlone ==
    ASSUME NEW t \in Threads, OnceInv, EntryInv, NEW e \in InTransit(t)
    PROVE  /\ e \in Accepted /\ e.id \in 1 .. MaxItems
           /\ e \notin pending /\ \A u \in Threads \ {t} : e \notin InTransit(u)
<1>1. e \in Accepted BY DEF Accepted
<1>2. e.id \in 1 .. MaxItems BY <1>1 DEF EntryInv
<1>3. Carries(t, e.id) BY DEF Carries
<1>4. CarriedBy(e.id) = {t} /\ DelayedAs(e.id) = {} BY <1>2, <1>3, FoundThere
<1>5. e \notin pending BY <1>4 DEF DelayedAs
<1>6. \A u \in Threads : e \in InTransit(u) => u \in CarriedBy(e.id) BY DEF CarriedBy
<1> QED BY <1>1, <1>2, <1>4, <1>5, <1>6

\* E_OUTOFMEMORY takes it back.
LEMMA QueueItemFailsPromised ==
    ASSUME NEW t \in Threads, TypeInv, OnceInv, PromiseInv, RetInv, SignalInv,
           QueueItemFails(t)
    PROVE  Promised /\ PromiseInv'
<1> DEFINE e == loc[t].entry
<1>b. TermsStay /\ TokenInv' /\ HoldsStay /\ UNCHANGED status BY Besides DEF PromiseInv
<1>u. /\ UNCHANGED <<queue, pending, calls, raced>>
      /\ pc[t] \in {"append", "delay"} /\ inner[t] = "none"
  BY DEF QueueItemFails, exCtx, listVars, At
<1>m. Moves(t, "idle", "none") /\ loc'[t] = Fresh
  BY GotoEffect DEF QueueItemFails, TypeInv
<1>t. InTransit(t) = {e} /\ InTransit(t)' = {}
  <2>1. loc[t].batch = {} /\ loc'[t].batch = {} BY <1>u, <1>m DEF OnceInv, BatchInv, Fresh
  <2> QED BY <2>1, <1>u, <1>m DEF InTransit, Moves
<1>r. ReadyOf(t) = {} /\ ReadyOf(t)' = {} /\ ~InCallback(t) /\ ~InCallback(t)'
  BY <1>u, <1>m DEF ReadyOf, InCallback, Moves
<1> HIDE DEF e
<1>a. /\ e \in Accepted /\ e \notin pending
      /\ \A u \in Threads \ {t} : e \notin InTransit(u)
  BY <1>t, CarriedAlone DEF PromiseInv
<1>1. Accepted' = Accepted \ {e}
  <2> DEFINE O == UNION {InTransit(u) : u \in Threads \ {t}}
  <2>1. e \notin O BY <1>a
  <2>2. Accepted = pending \cup {e} \cup O /\ Accepted' = pending \cup O
    BY <1>m, <1>t, <1>u, ItemSets
  <2> QED BY <2>1, <2>2, <1>a
<1>2. ReadyEntries' = ReadyEntries
  <2>1. {queue'[k] : k \in DOMAIN queue'} = {queue[k] : k \in DOMAIN queue} BY <1>u
  <2> QED BY <2>1, <1>m, <1>r, ItemSets
<1>3. RunningEntries' = RunningEntries /\ Invoked' = Invoked /\ EntryInv'
  BY <1>1, <1>2, <1>m, <1>r, <1>u, EntriesMove DEF PromiseInv
<1>4. Promised BY <1>1, <1>2, <1>3, <1>a, <1>b, <1>u, RefuseMaps
<1> QED BY <1>3, <1>4, <1>b DEF PromiseInv

\* A carried entry is appended to the list of those to run.
LEMMA AppendPromised ==
    ASSUME NEW t \in Threads, TypeInv, OnceInv, PromiseInv, RetInv, SignalInv,
           AppendEntry(t) \/ \E e \in loc[t].batch : FlushEntry(t, e)
    PROVE  Promised /\ PromiseInv'
<1>b. TermsStay /\ TokenInv' /\ HoldsStay /\ UNCHANGED status BY Besides DEF PromiseInv
<1>s. queue \in Seq(Entry) BY DEF TypeInv, SharedTypeOK
<1>u. UNCHANGED <<pending, calls>> /\ inner[t] = "none"
  BY DEF AppendEntry, FlushEntry, exList, base, At
<1>1. \E e, l :
         /\ e \in Entry /\ PushQueue(e) /\ Moves(t, l, "notify")
         /\ e \in InTransit(t) /\ InTransit(t)' = InTransit(t) \ {e}
  <2>1. CASE AppendEntry(t)
    <3> DEFINE e == loc[t].entry
    <3>1. /\ PushQueue(e) /\ Moves(t, "queued", "notify") /\ loc'[t] = loc[t]
          /\ pc[t] = "append"
      BY <2>1, GoEffect DEF AppendEntry, At, TypeInv
    <3>2. e \in Entry BY <3>1 DEF TypeInv, CarriesEntry
    <3>3. loc[t].batch = {} BY <3>1 DEF OnceInv, BatchInv
    <3>4. InTransit(t) = {e} /\ InTransit(t)' = {} BY <3>1, <3>3 DEF InTransit, Moves
    <3> QED BY <3>1, <3>2, <3>4
  <2>2. ASSUME NEW e \in loc[t].batch, FlushEntry(t, e)
        PROVE  /\ e \in Entry /\ PushQueue(e) /\ Moves(t, "flush", "notify")
               /\ e \in InTransit(t) /\ InTransit(t)' = InTransit(t) \ {e}
    <3>1. /\ PushQueue(e) /\ Moves(t, "flush", "notify") /\ pc[t] = "flush"
          /\ loc'[t].batch = loc[t].batch \ {e}
      BY <2>2, FlushEntryEffect DEF FlushEntry, At
    <3>2. e \in Entry BY <2>2 DEF TypeInv, ThreadTypeOK, Locals
    <3>3. InTransit(t) = loc[t].batch /\ InTransit(t)' = loc[t].batch \ {e}
      BY <3>1 DEF InTransit, Moves
    <3> QED BY <2>2, <3>1, <3>2, <3>3
  <2> QED BY <2>1, <2>2
<1>2. PICK e, l :
         /\ e \in Entry /\ PushQueue(e) /\ Moves(t, l, "notify")
         /\ e \in InTransit(t) /\ InTransit(t)' = InTransit(t) \ {e}
  BY <1>1
<1>a. /\ e \in Accepted /\ e \notin pending /\ e.id \in 1 .. MaxItems
      /\ \A u \in Threads \ {t} : e \notin InTransit(u)
  BY <1>2, CarriedAlone DEF PromiseInv
<1>r. ReadyOf(t) = {} /\ ReadyOf(t)' = {} /\ ~InCallback(t) /\ ~InCallback(t)'
  BY <1>u, <1>2 DEF ReadyOf, InCallback, Moves
<1>3. Accepted' = Accepted \ {e}
  <2> DEFINE O == UNION {InTransit(u) : u \in Threads \ {t}}
  <2>1. e \notin O BY <1>a
  <2>2. /\ Accepted = pending \cup InTransit(t) \cup O
        /\ Accepted' = pending \cup (InTransit(t) \ {e}) \cup O
    BY <1>2, <1>u, ItemSets
  <2> QED BY <2>1, <2>2, <1>a
<1>4. ReadyEntries' = ReadyEntries \cup {e}
  <2>1. queue' = Append(queue, e) BY <1>2 DEF PushQueue
  <2>2. /\ DOMAIN queue = 1 .. Len(queue) /\ DOMAIN queue' = 1 .. Len(queue) + 1
        /\ Len(queue) \in Nat /\ queue'[Len(queue) + 1] = e
        /\ \A k \in 1 .. Len(queue) : queue'[k] = queue[k]
    BY <1>s, <1>2, <2>1
  <2>3. {queue'[k] : k \in DOMAIN queue'} = {queue[k] : k \in DOMAIN queue} \cup {e}
    BY <2>2
  <2> QED BY <2>3, <1>2, <1>r, ItemSets
<1>5. RunningEntries' = RunningEntries /\ Invoked' = Invoked /\ EntryInv'
  BY <1>2, <1>3, <1>4, <1>r, <1>u, <1>a, EntriesMove DEF PromiseInv
<1>6. raced' = raced \cup {e.id} \/ raced' = raced BY <1>2 DEF PushQueue
<1>7. Promised BY <1>3, <1>4, <1>5, <1>6, <1>a, <1>b, EnqueueMaps
<1> QED BY <1>5, <1>7, <1>b DEF PromiseInv

\* Delayed entries change hands: none is let in or made ready.
LEMMA DelayPromised ==
    ASSUME NEW t \in Threads, TypeInv, OnceInv, PromiseInv, RetInv, SignalInv,
           DelayEntry(t) \/ CancelPendingEntries(t) \/ PromoteReadyPendingCallbacks(t)
    PROVE  Promised /\ PromiseInv'
<1>b. TermsStay /\ TokenInv' /\ HoldsStay /\ UNCHANGED status BY Besides DEF PromiseInv
<1>u. /\ UNCHANGED <<queue, calls, raced>> /\ inner[t] = "none"
      /\ pc[t] \in {"delay", "cancel", "promote"}
  BY DEF DelayEntry, CancelPendingEntries, PromoteReadyPendingCallbacks, exList, base, At
<1>c. pc[t] # "flush" => loc[t].batch = {} BY DEF OnceInv, BatchInv
<1>1. PICK l \in {"arm", "flush"} :
         Moves(t, l, "none") /\ pending' \cup InTransit(t)' = pending \cup InTransit(t)
  <2>1. CASE DelayEntry(t)
    <3>1. /\ Moves(t, "arm", "none") /\ loc'[t] = loc[t] /\ pc[t] = "delay"
          /\ pending' = pending \cup {loc[t].entry}
      BY <2>1, GotoEffect DEF DelayEntry, At, TypeInv
    <3>2. InTransit(t) = {loc[t].entry} /\ InTransit(t)' = {}
      BY <3>1, <1>c DEF InTransit, Moves
    <3> QED BY <3>1, <3>2
  <2>2. CASE CancelPendingEntries(t) \/ PromoteReadyPendingCallbacks(t)
    <3>1. PICK B \in SUBSET pending :
             pending' = pending \ B /\ loc'[t].batch = B /\ Moves(t, "flush", "none")
      <4>1. CASE CancelPendingEntries(t)
        BY <4>1, CancelPendingEntriesEffect DEF CancelPendingEntries, RemoveIf
      <4>2. CASE PromoteReadyPendingCallbacks(t)
        BY <4>2, PromoteEffect DEF PromoteReadyPendingCallbacks, RemoveIf
      <4> QED BY <2>2, <4>1, <4>2
    <3>2. pc[t] \in {"cancel", "promote"}
      BY <2>2 DEF CancelPendingEntries, PromoteReadyPendingCallbacks, At
    <3>3. InTransit(t) = {} /\ InTransit(t)' = B
      BY <3>1, <3>2, <1>c DEF InTransit, Moves
    <3> QED BY <3>1, <3>3
  <2> QED BY <2>1, <2>2
<1>r. ReadyOf(t) = {} /\ ReadyOf(t)' = {} /\ ~InCallback(t) /\ ~InCallback(t)'
  BY <1>u, <1>1 DEF ReadyOf, InCallback, Moves
<1>2. Accepted' = Accepted
  <2> DEFINE O == UNION {InTransit(u) : u \in Threads \ {t}}
  <2>1. /\ Accepted = pending \cup InTransit(t) \cup O
        /\ Accepted' = pending' \cup InTransit(t)' \cup O
    BY <1>1, ItemSets
  <2> QED BY <2>1, <1>1
<1>3. ReadyEntries' = ReadyEntries
  <2>1. {queue'[k] : k \in DOMAIN queue'} = {queue[k] : k \in DOMAIN queue} BY <1>u
  <2> QED BY <2>1, <1>1, <1>r, ItemSets
<1>4. RunningEntries' = RunningEntries /\ Invoked' = Invoked /\ EntryInv'
  BY <1>1, <1>2, <1>3, <1>r, <1>u, EntriesMove DEF PromiseInv
<1>5. ItemsStay BY <1>2, <1>3, <1>4, <1>u DEF ItemsStay
<1> QED BY <1>4, <1>5, <1>b, StutterMaps DEF PromiseInv

\* A popped entry is still ready; an empty queue gives none.
LEMMA PopPromised ==
    ASSUME NEW t \in Threads, TypeInv, OnceInv, PromiseInv, RetInv, SignalInv, PopFront(t)
    PROVE  Promised /\ PromiseInv'
<1>b. TermsStay /\ TokenInv' /\ HoldsStay /\ UNCHANGED status BY Besides DEF PromiseInv
<1>s. queue \in Seq(Entry) BY DEF TypeInv, SharedTypeOK
<1>u. UNCHANGED <<pending, calls, raced>> /\ inner[t] = "pop" BY DEF PopFront, exList, base
<1>1. PICK n \in {"invoke", "leave"} :
         /\ Moves(t, pc[t], n) /\ Keeps(t, {"item", "popped"})
         /\ n = "invoke" => loc'[t].popped /\ loc'[t].item = Head(queue)
                            /\ queue # <<>> /\ queue' = Tail(queue)
         /\ n = "leave" => ~loc'[t].popped /\ queue' = queue
  BY PopFrontEffect DEF Keeps
<1>2. InTransit(t)' = InTransit(t)
  <2>1. loc'[t].batch = loc[t].batch /\ loc'[t].entry = loc[t].entry
    BY <1>1 DEF Keeps, Fields
  <2> QED BY <2>1, <1>1 DEF InTransit, Moves
<1>3. ~InCallback(t) /\ ~InCallback(t)' BY <1>u, <1>1 DEF InCallback, Moves
<1>4. {queue'[k] : k \in DOMAIN queue'} \cup ReadyOf(t)'
         = {queue[k] : k \in DOMAIN queue} \cup ReadyOf(t)
  <2>1. ReadyOf(t) = {} BY <1>u DEF ReadyOf
  <2>2. CASE n = "leave"
    <3>1. ReadyOf(t)' = {} BY <2>2, <1>1 DEF ReadyOf, Moves
    <3>2. queue' = queue BY <2>2, <1>1
    <3> QED BY <3>1, <3>2, <2>1
  <2>3. CASE n = "invoke"
    <3>1. ReadyOf(t)' = {Head(queue)} BY <2>3, <1>1 DEF ReadyOf, Moves
    <3>2. /\ DOMAIN queue = 1 .. Len(queue) /\ DOMAIN queue' = 1 .. Len(queue) - 1
          /\ Len(queue) \in Nat /\ Len(queue) # 0 /\ Head(queue) = queue[1]
          /\ \A k \in 1 .. Len(queue) - 1 : queue'[k] = queue[k + 1]
      BY <2>3, <1>1, <1>s
    <3>3. \A k \in DOMAIN queue' : k + 1 \in DOMAIN queue /\ queue'[k] = queue[k + 1]
      BY <3>2
    <3>4. \A k \in DOMAIN queue : k # 1 => k - 1 \in DOMAIN queue' /\ queue[k] = queue'[k - 1]
      BY <3>2
    <3>5. 1 \in DOMAIN queue /\ Head(queue) = queue[1] BY <3>2
    <3> QED BY <3>1, <3>3, <3>4, <3>5, <2>1
  <2> QED BY <2>2, <2>3
<1>5. Accepted' = Accepted BY <1>1, <1>2, <1>u, ItemSets
<1>6. ReadyEntries' = ReadyEntries
  <2> DEFINE O == UNION {ReadyOf(u) : u \in Threads \ {t}}
  <2>1. /\ ReadyEntries = {queue[k] : k \in DOMAIN queue} \cup ReadyOf(t) \cup O
        /\ ReadyEntries' = {queue'[k] : k \in DOMAIN queue'} \cup ReadyOf(t)' \cup O
    BY <1>1, ItemSets
  <2> QED BY <2>1, <1>4
<1>7. RunningEntries' = RunningEntries /\ Invoked' = Invoked /\ EntryInv'
  BY <1>1, <1>3, <1>5, <1>6, <1>u, EntriesMove DEF PromiseInv
<1>8. ItemsStay BY <1>5, <1>6, <1>7, <1>u DEF ItemsStay
<1> QED BY <1>7, <1>8, <1>b, StutterMaps DEF PromiseInv

\* The popped callback starts; nobody has started it before.
LEMMA InvokePromised ==
    ASSUME NEW t \in Threads, TypeInv, OnceInv, PromiseInv, RetInv, SignalInv,
           InvokeCallback(t)
    PROVE  Promised /\ PromiseInv'
<1> DEFINE e == loc[t].item
<1>b. TermsStay /\ TokenInv' /\ HoldsStay /\ UNCHANGED status BY Besides DEF PromiseInv
<1>u. /\ UNCHANGED <<queue, pending, raced>> /\ inner[t] = "invoke"
      /\ calls' = [calls EXCEPT ![e.id] = @ + 1] /\ calls \in [1 .. MaxItems -> Nat]
  BY DEF InvokeCallback, exCtx, listVars, TypeInv, SharedTypeOK
<1>m. Moves(t, pc[t], "leave") /\ loc'[t] = loc[t] /\ loc[t].popped
  BY <1>u, EnterEffect DEF InvokeCallback, TypeInv, PromiseInv, EntryInv
<1>t. InTransit(t)' = InTransit(t) BY <1>m DEF InTransit, Moves
<1>r. /\ ReadyOf(t) = {e} /\ ReadyOf(t)' = {} /\ RunOf(t) = {} /\ RunOf(t)' = {e}
      /\ ~InCallback(t) /\ loc'[t].item = e
  BY <1>u, <1>m DEF ReadyOf, RunOf, InCallback, Moves
<1>p. \A i : i = e.id => Popped(t, i) BY <1>u DEF Popped
<1> HIDE DEF e
<1>1. e \in ReadyEntries BY <1>m, <1>r, ItemSets
<1>2. e.id \in 1 .. MaxItems BY <1>1 DEF PromiseInv, EntryInv
<1>3. Waiting(e.id) /\ PoppedBy(e.id) = {t} /\ QueuedAt(e.id) = {}
  BY <1>2, <1>p, FoundThere
<1>4. calls[e.id] = 0 /\ calls'[e.id] = 1 /\ \A i \in 1 .. MaxItems \ {e.id} : calls'[i] = calls[i]
  BY <1>2, <1>3, <1>u DEF Waiting
<1>5. ReadyEntries' = ReadyEntries \ {e}
  <2> DEFINE O == UNION {ReadyOf(u) : u \in Threads \ {t}}
             Q == {queue[k] : k \in DOMAIN queue}
  <2>1. e \notin Q BY <1>3 DEF QueuedAt
  <2>2. e \notin O
    <3>1. \A u \in Threads : inner[u] = "invoke" /\ loc[u].item.id = e.id => u = t
      BY <1>3 DEF PoppedBy
    <3> QED BY <3>1 DEF ReadyOf
  <2>3. {queue'[k] : k \in DOMAIN queue'} = Q BY <1>u
  <2>4. ReadyEntries = Q \cup {e} \cup O /\ ReadyEntries' = Q \cup O
    BY <2>3, <1>m, <1>r, ItemSets
  <2> QED BY <2>1, <2>2, <2>4
<1>6. RunningEntries' = RunningEntries \cup {e} BY <1>m, <1>r, ItemSets
<1>7. Accepted' = Accepted BY <1>m, <1>t, <1>u, ItemSets
<1>8. Invoked' = Invoked \cup {e.id} /\ e.id \notin Invoked
  BY <1>2, <1>4 DEF Invoked
<1>9. EntryInv'
  <2>1. \A x \in RunningEntries : x.id \in 1 .. MaxItems /\ calls[x.id] = 1
    BY DEF PromiseInv, EntryInv
  <2>2. \A x \in RunningEntries' : calls'[x.id] = 1 BY <2>1, <1>4, <1>6
  <2>3. \A u \in Threads \ {t} : InCallback(u)' =>
            /\ InCallback(u) /\ loc'[u].item = loc[u].item /\ loc[u].item.id # e.id
    <3>1. \A u \in Threads \ {t} : InCallback(u)' =>
              InCallback(u) /\ loc'[u].item = loc[u].item
      BY <1>m DEF Moves, InCallback
    <3>2. \A u \in Threads : InCallback(u) => loc[u].item \in RunningEntries
      BY DEF RunningEntries
    <3> QED BY <3>1, <3>2, <2>1, <1>4
  <2>4. \A u, v \in Threads :
            InCallback(u)' /\ InCallback(v)' /\ loc'[u].item.id = loc'[v].item.id => u = v
    <3>1. \A u, v \in Threads \ {t} :
              InCallback(u)' /\ InCallback(v)' /\ loc'[u].item.id = loc'[v].item.id => u = v
      BY <2>3 DEF PromiseInv, EntryInv
    <3> QED BY <3>1, <2>3, <1>r
  <2>5. \A u \in Threads : inner'[u] = "invoke" => loc'[u].popped
    BY <1>m DEF PromiseInv, EntryInv, Moves
  <2>6. \A x \in Accepted' \cup ReadyEntries' \cup RunningEntries' : x.id \in 1 .. MaxItems
    BY <1>2, <1>5, <1>6, <1>7 DEF PromiseInv, EntryInv
  <2> QED BY <2>2, <2>4, <2>5, <2>6 DEF EntryInv
<1>10. Promised BY <1>1, <1>5, <1>6, <1>7, <1>8, <1>b, <1>u, InvokeMaps
<1> QED BY <1>9, <1>10, <1>b DEF PromiseInv

\* A callback returns, or a thread that found the queue empty leaves.
LEMMA LeavePromised ==
    ASSUME NEW t \in Threads, TypeInv, OnceInv, PromiseInv, RetInv, SignalInv,
           LeaveCallback(t)
    PROVE  Promised /\ PromiseInv'
<1> DEFINE e == loc[t].item
<1>b. TermsStay /\ TokenInv' /\ HoldsStay /\ UNCHANGED status BY Besides DEF PromiseInv
<1>u. UNCHANGED <<queue, pending, raced, calls>> /\ inner[t] = "leave"
  BY DEF LeaveCallback, exDrain, listVars, base
<1>m. Moves(t, pc[t], "check") /\ Keeps(t, {"item"}) BY LeaveCallbackEffect
<1>t. InTransit(t)' = InTransit(t)
  <2>1. loc'[t].batch = loc[t].batch /\ loc'[t].entry = loc[t].entry
    BY <1>m DEF Keeps, Fields
  <2> QED BY <2>1, <1>m DEF InTransit, Moves
<1>r. /\ ReadyOf(t) = {} /\ ReadyOf(t)' = {} /\ RunOf(t)' = {} /\ ~InCallback(t)'
      /\ RunOf(t) = IF InCallback(t) THEN {e} ELSE {}
  BY <1>u, <1>m DEF ReadyOf, RunOf, InCallback, Moves
<1>1. Accepted' = Accepted BY <1>m, <1>t, <1>u, ItemSets
<1>2. ReadyEntries' = ReadyEntries
  <2>1. {queue'[k] : k \in DOMAIN queue'} = {queue[k] : k \in DOMAIN queue} BY <1>u
  <2> QED BY <2>1, <1>m, <1>r, ItemSets
<1>3. RunningEntries' = RunningEntries \ RunOf(t)
  <2> DEFINE O == UNION {RunOf(u) : u \in Threads \ {t}}
  <2>1. RunOf(t) \cap O = {}
    <3> SUFFICES ASSUME NEW u \in Threads \ {t}, NEW x \in RunOf(u), x \in RunOf(t)
                 PROVE  FALSE
      OBVIOUS
    <3>1. InCallback(u) /\ InCallback(t) /\ x = loc[u].item /\ x = loc[t].item BY DEF RunOf
    <3> QED BY <3>1 DEF PromiseInv, EntryInv
  <2>2. RunningEntries = RunOf(t) \cup O /\ RunningEntries' = O BY <1>m, <1>r, ItemSets
  <2> QED BY <2>1, <2>2
<1>4. Invoked' = Invoked BY <1>u DEF Invoked
<1>5. EntryInv'
  <2>1. \A u \in Threads : InCallback(u)' =>
            InCallback(u) /\ loc'[u].item = loc[u].item
    BY <1>m, <1>r DEF Moves, InCallback
  <2>2. \A u, v \in Threads :
            InCallback(u)' /\ InCallback(v)' /\ loc'[u].item.id = loc'[v].item.id => u = v
    BY <2>1 DEF PromiseInv, EntryInv
  <2>3. \A u \in Threads : inner'[u] = "invoke" => loc'[u].popped
    BY <1>m DEF PromiseInv, EntryInv, Moves
  <2>4. /\ \A x \in Accepted' \cup ReadyEntries' \cup RunningEntries' : x.id \in 1 .. MaxItems
        /\ \A x \in RunningEntries' : calls'[x.id] = 1
    BY <1>1, <1>2, <1>3, <1>u DEF PromiseInv, EntryInv
  <2> QED BY <2>2, <2>3, <2>4 DEF EntryInv
<1>6. Promised
  <2>1. CASE InCallback(t)
    <3>1. e \in RunningEntries BY <2>1 DEF RunningEntries
    <3>2. RunningEntries' = RunningEntries \ {e} BY <2>1, <1>3, <1>r
    <3> HIDE DEF e
    <3> QED BY <3>1, <3>2, <1>1, <1>2, <1>4, <1>b, <1>u, ReturnMaps
  <2>2. CASE ~InCallback(t)
    <3>1. ItemsStay BY <2>2, <1>1, <1>2, <1>3, <1>4, <1>r, <1>u DEF ItemsStay
    <3> QED BY <3>1, <1>b, StutterMaps
  <2> QED BY <2>1, <2>2
<1> QED BY <1>5, <1>6, <1>b DEF PromiseInv

-----------------------------------------------------------------------------
(* Steps that move a termination.                                          *)

LEMMA TermsAt ==
    \A y \in Prepared \cup BeingTerminated \cup Signaled :
        y \in termList \cup pendTerms \/ \E u \in Threads : y \in Has(u)
<1>1. \A u \in Threads : PrepOf(u) \cup BegunOf(u) \cup loc[u].signal \subseteq Has(u)
  BY DEF Has
<1>2. \A y \in Signaled : \E u \in Threads : y \in loc[u].signal BY DEF Signaled
<1>3. \A y \in Prepared : \E u \in Threads : y \in PrepOf(u) BY Views
<1>4. \A y \in BeingTerminated :
          y \in termList \cup pendTerms \/ \E u \in Threads : y \in BegunOf(u)
  BY Views
<1> QED BY <1>1, <1>2, <1>3, <1>4

\* What thread t has, nobody else has.
LEMMA OthersLack ==
    ASSUME NEW t \in Threads, TokenInv, NEW x \in Has(t)
    PROVE  /\ x \notin termList \cup pendTerms
           /\ x \notin UNION {PrepOf(u) : u \in Threads \ {t}}
           /\ x \notin UNION {BegunOf(u) : u \in Threads \ {t}}
           /\ x \notin UNION {loc[u].signal : u \in Threads \ {t}}
<1>1. \A u \in Threads \ {t} : x \notin Has(u) BY DEF TokenInv
<1>2. \A u \in Threads : PrepOf(u) \cup BegunOf(u) \cup loc[u].signal \subseteq Has(u)
  BY DEF Has
<1>3. x \notin termList \cup pendTerms BY DEF TokenInv
<1> QED BY <1>1, <1>2, <1>3

\* What a thread has at a label, in no nested call.
LEMMA HasAt ==
    ASSUME NEW t \in Threads, TokenInv, SignalInv, inner[t] = "none"
    PROVE  /\ loc[t].signal = {}
           /\ pc[t] # "schedule" => loc[t].sched = {}
           /\ pc[t] = "prepared" => PrepOf(t) = {MyTerm(t)} /\ BegunOf(t) = {}
           /\ pc[t] \in {"suspend", "park"} => PrepOf(t) = {} /\ BegunOf(t) = {MyTerm(t)}
           /\ pc[t] \in {"idle", "collect"} => PrepOf(t) = {} /\ BegunOf(t) = {}
           /\ pc[t] = "schedule" => PrepOf(t) = {} /\ BegunOf(t) = loc[t].sched
<1>1. loc[t].signal = {} BY DEF SignalInv
<1>2. pc[t] # "schedule" => loc[t].sched = {} BY DEF TokenInv
<1> QED BY <1>1, <1>2 DEF PrepOf, BegunOf, Began

\* PrepareTerminate, CancelTermination and Terminate.
LEMMA PreparePromised ==
    ASSUME NEW t \in Threads, TypeInv, OnceInv, PromiseInv, SignalInv,
           \/ \E c \in Contexts : PrepareTerminate(t, c)
           \/ CancelTermination(t) \/ Terminate(t)
    PROVE  Promised /\ PromiseInv'
<1>s. ThreadTypeOK /\ loc[t] \in Locals BY DEF TypeInv, ThreadTypeOK
<1>i. ItemsStay /\ EntryInv' BY ItemSteps DEF PromiseInv
<1>h. HoldsStay
  <2>1. UNCHANGED <<holders, overlap>>
    BY DEF PrepareTerminate, CancelTermination, Terminate, base
  <2> QED BY <2>1 DEF HoldsStay, Held
<1>l. UNCHANGED <<termList, pendTerms>>
  BY DEF PrepareTerminate, CancelTermination, Terminate, exCtx, termVars
<1>n. nextTerm \in Nat /\ termList \cap pendTerms = {}
  BY DEF TypeInv, SharedTypeOK, PromiseInv, TokenInv
<1>1. ASSUME NEW c \in Contexts, PrepareTerminate(t, c) PROVE Promised /\ PromiseInv'
  <2> DEFINE x == [id |-> nextTerm, ctx |-> c]
  <2>1. /\ pc[t] = "idle" /\ inner[t] = "none" /\ UNCHANGED termDone /\ nextTerm' = nextTerm + 1
        /\ status' = [status EXCEPT ![c] = IF @ = "Active" THEN "Canceled" ELSE @]
    BY <1>1 DEF PrepareTerminate, At
  <2>2. /\ Moves(t, "prepared", "none") /\ FreshBut(t, {"ctx", "term"})
        /\ loc'[t].ctx = c /\ loc'[t].term = nextTerm
    BY <1>1, PrepareTerminateEffect
  <2>3. PrepOf(t) = {} /\ BegunOf(t) = {} /\ loc[t].signal = {}
    BY <2>1, HasAt DEF PromiseInv
  <2>4. loc'[t].sched = {} /\ loc'[t].signal = {} BY <2>2 DEF FreshBut, Fields, Fresh
  <2>5. MyTerm(t)' = x BY <2>2 DEF MyTerm
  <2>6. PrepOf(t)' = {x} /\ BegunOf(t)' = {}
    BY <2>2, <2>4, <2>5 DEF PrepOf, BegunOf, Began, Moves
  <2>7. Has(t) = {} /\ Has(t)' = {x} BY <2>3, <2>4, <2>6 DEF Has
  <2>8. x.id = nextTerm /\ x.ctx = c OBVIOUS
  <2> HIDE DEF x
  <2>9. \A y \in termList \cup pendTerms : y.id # x.id
    BY <2>8, <1>n DEF PromiseInv, TokenInv
  <2>10. \A u \in Threads : \A y \in Has(u) : y.id # x.id
    BY <2>8, <1>n DEF PromiseInv, TokenInv
  <2>11. x.id \notin termDone BY <2>8, <1>n DEF PromiseInv, TokenInv
  <2>12. x \notin termList \cup pendTerms BY <2>9
  <2>13. TokenInv'
    BY <2>1, <2>2, <2>4, <2>7, <2>8, <2>12, <1>l, <1>n, TokenStep DEF PromiseInv
  <2>14. /\ Prepared' = Prepared \cup {x}
         /\ BeingTerminated' = BeingTerminated /\ Signaled' = Signaled
    <3> DEFINE P == UNION {PrepOf(u) : u \in Threads \ {t}}
               B == UNION {BegunOf(u) : u \in Threads \ {t}}
               S == UNION {loc[u].signal : u \in Threads \ {t}}
    <3>1. /\ Prepared = PrepOf(t) \cup P /\ Prepared' = PrepOf(t)' \cup P
          /\ BeingTerminated = termList \cup pendTerms \cup BegunOf(t) \cup B
          /\ BeingTerminated' = termList' \cup pendTerms' \cup BegunOf(t)' \cup B
          /\ Signaled = loc[t].signal \cup S /\ Signaled' = loc'[t].signal \cup S
      BY <2>2, TermSets
    <3> HIDE DEF P, B, S
    <3> QED BY <3>1, <2>3, <2>4, <2>6, <1>l
  <2>15. \A y \in Prepared \cup BeingTerminated \cup Signaled : y.id # x.id
    BY <2>9, <2>10, TermsAt
  <2>16. Promised BY <2>1, <2>8, <2>11, <2>14, <2>15, <1>i, <1>h, PrepareMaps
  <2> QED BY <2>13, <2>16, <1>i DEF PromiseInv
<1>2. CASE CancelTermination(t)
  <2> DEFINE x == MyTerm(t)
  <2>1. /\ pc[t] = "prepared" /\ inner[t] = "none" /\ termDone' = termDone \cup {loc[t].term}
        /\ status' = [status EXCEPT ![loc[t].ctx] = RolledBack(@)] /\ UNCHANGED nextTerm
    BY <1>2 DEF CancelTermination, At
  <2>2. Moves(t, "idle", "none") /\ loc'[t] = Fresh
    BY <1>2, <1>s, GotoEffect DEF CancelTermination
  <2>3. PrepOf(t) = {x} /\ BegunOf(t) = {} /\ loc[t].signal = {}
    BY <2>1, HasAt DEF PromiseInv
  <2>4. loc'[t].sched = {} /\ loc'[t].signal = {} BY <2>2 DEF Fresh
  <2>6. PrepOf(t)' = {} /\ BegunOf(t)' = {}
    BY <2>2, <2>4 DEF PrepOf, BegunOf, Began, Moves
  <2>7. Has(t) = {x} /\ Has(t)' = {} BY <2>3, <2>4, <2>6 DEF Has
  <2>8. x.id = loc[t].term /\ x.ctx = loc[t].ctx BY DEF MyTerm
  <2> HIDE DEF x
  <2>9. TokenInv'
    BY <2>1, <2>2, <2>4, <2>7, <2>8, <1>l, <1>n, TokenStep DEF PromiseInv
  <2>10. x \notin UNION {PrepOf(u) : u \in Threads \ {t}}
    BY <2>7, OthersLack DEF PromiseInv
  <2>11. /\ x \in Prepared /\ Prepared' = Prepared \ {x}
         /\ BeingTerminated' = BeingTerminated /\ Signaled' = Signaled
    <3> DEFINE P == UNION {PrepOf(u) : u \in Threads \ {t}}
               B == UNION {BegunOf(u) : u \in Threads \ {t}}
               S == UNION {loc[u].signal : u \in Threads \ {t}}
    <3>1. /\ Prepared = PrepOf(t) \cup P /\ Prepared' = PrepOf(t)' \cup P
          /\ BeingTerminated = termList \cup pendTerms \cup BegunOf(t) \cup B
          /\ BeingTerminated' = termList' \cup pendTerms' \cup BegunOf(t)' \cup B
          /\ Signaled = loc[t].signal \cup S /\ Signaled' = loc'[t].signal \cup S
      BY <2>2, TermSets
    <3>2. x \notin P BY <2>10
    <3> HIDE DEF P, B, S
    <3> QED BY <3>1, <3>2, <2>3, <2>4, <2>6, <1>l
  <2>12. status' = [status EXCEPT ![x.ctx] = IF @ = "Canceled" THEN "Active" ELSE @]
    BY <2>1, <2>8 DEF RolledBack
  <2>13. Promised BY <2>1, <2>8, <2>11, <2>12, <1>i, <1>h, RollBackMaps
  <2> QED BY <2>9, <2>13, <1>i DEF PromiseInv
<1>3. CASE Terminate(t)
  <2> DEFINE x == MyTerm(t)
  <2>1. /\ pc[t] = "prepared" /\ inner[t] = "none" /\ UNCHANGED <<termDone, nextTerm>>
        /\ status' = [status EXCEPT ![loc[t].ctx] = "Terminating"]
    BY <1>3 DEF Terminate, At, base
  <2>2. Moves(t, "cancel", "none") /\ Keeps(t, {"ret"}) /\ loc'[t].ret = "suspend"
    BY <1>3, TerminateEffect
  <2>3. PrepOf(t) = {x} /\ BegunOf(t) = {} /\ loc[t].signal = {} /\ loc[t].sched = {}
    BY <2>1, HasAt DEF PromiseInv
  <2>4. /\ loc'[t].sched = {} /\ loc'[t].signal = {}
        /\ loc'[t].term = loc[t].term /\ loc'[t].ctx = loc[t].ctx
    BY <2>2, <2>3 DEF Keeps, Fields
  <2>5. MyTerm(t)' = x BY <2>4 DEF MyTerm
  <2>6. PrepOf(t)' = {} /\ BegunOf(t)' = {x}
    BY <2>2, <2>4, <2>5 DEF PrepOf, BegunOf, Began, Moves
  <2>7. Has(t) = {x} /\ Has(t)' = {x} BY <2>3, <2>4, <2>6 DEF Has
  <2>8. x.ctx = loc[t].ctx BY DEF MyTerm
  <2> HIDE DEF x
  <2>9. x \notin termList \cup pendTerms /\ x \notin UNION {PrepOf(u) : u \in Threads \ {t}}
    BY <2>7, OthersLack DEF PromiseInv
  <2>10. TokenInv'
    BY <2>1, <2>2, <2>4, <2>7, <2>9, <1>l, <1>n, TokenStep DEF PromiseInv
  <2>11. /\ x \in Prepared /\ Prepared' = Prepared \ {x}
         /\ BeingTerminated' = BeingTerminated \cup {x} /\ Signaled' = Signaled
    <3> DEFINE P == UNION {PrepOf(u) : u \in Threads \ {t}}
               B == UNION {BegunOf(u) : u \in Threads \ {t}}
               S == UNION {loc[u].signal : u \in Threads \ {t}}
    <3>1. /\ Prepared = PrepOf(t) \cup P /\ Prepared' = PrepOf(t)' \cup P
          /\ BeingTerminated = termList \cup pendTerms \cup BegunOf(t) \cup B
          /\ BeingTerminated' = termList' \cup pendTerms' \cup BegunOf(t)' \cup B
          /\ Signaled = loc[t].signal \cup S /\ Signaled' = loc'[t].signal \cup S
      BY <2>2, TermSets
    <3>2. x \notin P BY <2>9
    <3> HIDE DEF P, B, S
    <3> QED BY <3>1, <3>2, <2>3, <2>4, <2>6, <1>l
  <2>12. Promised BY <2>1, <2>8, <2>11, <1>i, <1>h, BeginMaps
  <2> QED BY <2>10, <2>12, <1>i DEF PromiseInv
<1> QED BY <1>1, <1>2, <1>3

\* A termination under way passes between Terminate, the parked ones, a resumer and the
\* list of those to signal.
LEMMA UnderWayPromised ==
    ASSUME NEW t \in Threads, TypeInv, OnceInv, PromiseInv, SignalInv,
           \/ TerminateAddSuspend(t) \/ ParkTermination(t) \/ CollectTerminations(t)
           \/ \E x \in loc[t].sched : ScheduleTermination(t, x)
    PROVE  Promised /\ PromiseInv'
<1>s. ThreadTypeOK /\ loc[t] \in Locals BY DEF TypeInv, ThreadTypeOK
<1>i. ItemsStay /\ EntryInv' BY ItemSteps DEF PromiseInv
<1>u. UNCHANGED <<holders, overlap, status, termDone, nextTerm>> /\ inner[t] = "none"
  BY DEF TerminateAddSuspend, ParkTermination, CollectTerminations, ScheduleTermination,
     exTerm, ctxVars, base, At
<1>h. HoldsStay BY <1>u DEF HoldsStay, Held
<1>n. nextTerm \in Nat /\ termList \cap pendTerms = {}
  BY DEF TypeInv, SharedTypeOK, PromiseInv, TokenInv
<1>d. Has(t) \cap (termList \cup pendTerms) = {} BY DEF PromiseInv, TokenInv
<1>a. /\ loc[t].signal = {}
      /\ pc[t] # "schedule" => loc[t].sched = {}
      /\ pc[t] \in {"suspend", "park"} => PrepOf(t) = {} /\ BegunOf(t) = {MyTerm(t)}
      /\ pc[t] = "collect" => PrepOf(t) = {} /\ BegunOf(t) = {}
      /\ pc[t] = "schedule" => PrepOf(t) = {} /\ BegunOf(t) = loc[t].sched
  BY <1>u, HasAt DEF PromiseInv
\* It is enough to follow the entry.
<1>0. ASSUME NEW l \in {"schedule", "park", "resume"}, NEW n, Moves(t, l, n),
             PrepOf(t) = {}, PrepOf(t)' = {}, loc'[t].signal = {},
             termList' \cup pendTerms' \cup BegunOf(t)' = termList \cup pendTerms \cup BegunOf(t),
             termList' \cap pendTerms' = {}, BegunOf(t)' \cap (termList' \cup pendTerms') = {},
             loc'[t].sched # {} => l = "schedule"
      PROVE  Promised /\ PromiseInv'
  <2>1. Has(t) = BegunOf(t) /\ Has(t)' = BegunOf(t)' BY <1>0, <1>a DEF Has
  <2>2. TokenInv' BY <1>0, <2>1, <1>u, TokenStep DEF PromiseInv
  <2>3. TermsStay
    <3> DEFINE P == UNION {PrepOf(u) : u \in Threads \ {t}}
               B == UNION {BegunOf(u) : u \in Threads \ {t}}
               S == UNION {loc[u].signal : u \in Threads \ {t}}
    <3>1. /\ Prepared = PrepOf(t) \cup P /\ Prepared' = PrepOf(t)' \cup P
          /\ BeingTerminated = termList \cup pendTerms \cup BegunOf(t) \cup B
          /\ BeingTerminated' = termList' \cup pendTerms' \cup BegunOf(t)' \cup B
          /\ Signaled = loc[t].signal \cup S /\ Signaled' = loc'[t].signal \cup S
      BY <1>0, TermSets
    <3> HIDE DEF P, B, S
    <3>2. Prepared' = Prepared /\ Signaled' = Signaled BY <3>1, <1>0, <1>a
    <3>3. BeingTerminated' = BeingTerminated BY <3>1, <1>0
    <3> QED BY <3>2, <3>3, <1>u DEF TermsStay
  <2>4. Promised BY <2>3, <1>i, <1>h, <1>u, StutterMaps
  <2> QED BY <2>2, <2>4, <1>i DEF PromiseInv
<1>1. CASE TerminateAddSuspend(t)
  <2>1. pc[t] = "suspend" /\ UNCHANGED <<termList, pendTerms>>
    BY <1>1 DEF TerminateAddSuspend, At, exCtx, termVars
  <2>2. Has(t) = {MyTerm(t)} BY <2>1, <1>a DEF Has
  <2>3. CASE /\ Moves(t, "schedule", "none") /\ Keeps(t, {"sched", "ret"})
             /\ loc'[t].sched = {MyTerm(t)}
    <3>1. loc'[t].signal = {} BY <2>3, <1>a DEF Keeps, Fields
    <3>2. PrepOf(t)' = {} /\ BegunOf(t)' = {MyTerm(t)}
      BY <2>3 DEF PrepOf, BegunOf, Began, Moves
    <3> QED BY <2>1, <2>2, <2>3, <3>1, <3>2, <1>0, <1>a, <1>d, <1>n
  <2>4. CASE Moves(t, "park", "none") /\ loc'[t] = loc[t]
    <3>1. loc'[t].signal = {} /\ loc'[t].sched = {} BY <2>1, <2>4, <1>a
    <3>2. MyTerm(t)' = MyTerm(t) BY <2>4 DEF MyTerm
    <3>3. PrepOf(t)' = {} /\ BegunOf(t)' = {MyTerm(t)}
      BY <2>4, <3>1, <3>2 DEF PrepOf, BegunOf, Began, Moves
    <3> QED BY <2>1, <2>2, <2>4, <3>1, <3>3, <1>0, <1>a, <1>d, <1>n
  <2> QED BY <1>1, <2>3, <2>4, TerminateAddSuspendEffect
<1>2. CASE ParkTermination(t)
  <2>1. /\ pc[t] = "park" /\ UNCHANGED termList /\ pendTerms' = pendTerms \cup {MyTerm(t)}
        /\ Goto(t, "resume")
    BY <1>2 DEF ParkTermination, At
  <2>2. Moves(t, "resume", "none") /\ loc'[t] = loc[t] BY <2>1, <1>s, GotoEffect
  <2>3. Has(t) = {MyTerm(t)} BY <2>1, <1>a DEF Has
  <2>4. loc'[t].signal = {} /\ loc'[t].sched = {} BY <2>1, <2>2, <1>a
  <2>5. PrepOf(t)' = {} /\ BegunOf(t)' = {}
    BY <2>2, <2>4 DEF PrepOf, BegunOf, Began, Moves
  <2> QED BY <2>1, <2>2, <2>3, <2>4, <2>5, <1>0, <1>a, <1>d, <1>n
<1>3. CASE CollectTerminations(t)
  <2> DEFINE mine == {x \in pendTerms : x.ctx = loc[t].ctx}
  <2>1. pc[t] = "collect" /\ UNCHANGED termList /\ pendTerms' = pendTerms \ mine
    BY <1>3 DEF CollectTerminations, At, RemoveIf
  <2>2. Moves(t, "schedule", "none") /\ Keeps(t, {"sched", "ret"}) /\ loc'[t].sched = mine
    BY <1>3, CollectTerminationsEffect
  <2>3. mine \subseteq pendTerms OBVIOUS
  <2> HIDE DEF mine
  <2>4. loc'[t].signal = {} BY <2>2, <1>a DEF Keeps, Fields
  <2>5. PrepOf(t)' = {} /\ BegunOf(t)' = mine BY <2>2 DEF PrepOf, BegunOf, Began, Moves
  <2> QED BY <2>1, <2>2, <2>3, <2>4, <2>5, <1>0, <1>a, <1>n
<1>4. ASSUME NEW x \in loc[t].sched, ScheduleTermination(t, x)
      PROVE  Promised /\ PromiseInv'
  <2>1. pc[t] = "schedule" /\ UNCHANGED pendTerms /\ termList' = termList \cup {x}
    BY <1>4 DEF ScheduleTermination, At
  <2>2. /\ Moves(t, "schedule", "notify") /\ Keeps(t, {"sched"})
        /\ loc'[t].sched = loc[t].sched \ {x}
    BY <1>4, ScheduleTerminationEffect
  <2>3. Has(t) = loc[t].sched BY <2>1, <1>a DEF Has
  <2>4. loc'[t].signal = {} BY <2>2, <1>a DEF Keeps, Fields
  <2>5. PrepOf(t)' = {} /\ BegunOf(t)' = loc[t].sched \ {x}
    BY <2>2 DEF PrepOf, BegunOf, Began, Moves
  <2> QED BY <1>4, <2>1, <2>2, <2>3, <2>4, <2>5, <1>0, <1>a, <1>d, <1>n
<1> QED BY <1>1, <1>2, <1>3, <1>4

\* A nested step leaves what the thread carries for its own call.
LEMMA NestedKeeps ==
    ASSUME NEW t \in Threads, NEW n, Moves(t, pc[t], n), Keeps(t, {"signal"})
    PROVE  /\ PrepOf(t)' = PrepOf(t) /\ BegunOf(t)' = BegunOf(t)
           /\ loc'[t].sched = loc[t].sched
<1>1. /\ loc'[t].sched = loc[t].sched /\ loc'[t].ret = loc[t].ret
      /\ loc'[t].term = loc[t].term /\ loc'[t].ctx = loc[t].ctx
  BY DEF Keeps, Fields
<1>2. MyTerm(t)' = MyTerm(t) BY <1>1 DEF MyTerm
<1>3. Began(t)' <=> Began(t) BY <1>1 DEF Began, Moves
<1> QED BY <1>1, <1>2, <1>3 DEF PrepOf, BegunOf, Moves

\* SignalTerminations takes what is terminated off the list: the queue was seen empty and
\* nobody draining, and no suspension holds the contexts.
LEMMA SignalPromised ==
    ASSUME NEW t \in Threads, TypeInv, OnceInv, PromiseInv, DrainInv, HeldInv,
           SignalTerminations(t)
    PROVE  Promised /\ PromiseInv'
<1> DEFINE hit == {x \in termList : status[x.ctx] \in Terminal}
           B == UNION {BegunOf(u) : u \in Threads \ {t}}
<1>i. ItemsStay /\ EntryInv' BY ItemSteps DEF PromiseInv
<1>u. /\ UNCHANGED <<holders, overlap, termDone, nextTerm, pendTerms>> /\ inner[t] = "signal"
      /\ termList' = termList \ hit
      /\ status' = [c \in Contexts |-> IF \E x \in hit : x.ctx = c
                                       THEN "Terminated" ELSE status[c]]
  BY DEF SignalTerminations, base, RemoveIf
<1>h. HoldsStay BY <1>u DEF HoldsStay, Held
<1>m. Moves(t, pc[t], "terms") /\ Keeps(t, {"signal"}) /\ loc'[t].signal = hit
  BY SignalTerminationsEffect
<1>d. \A x \in hit : \A e \in ReadyEntries \cup RunningEntries : e.id \in raced
  <2>1. t \in SawEmpty /\ t \in SawIdle BY <1>u DEF SawEmpty, SawIdle
  <2>2. \A k \in DOMAIN queue : queue[k].id \in raced BY <2>1 DEF DrainInv, EmptyInv
  <2>3. \A u \in Threads : inner[u] = "invoke" \/ InCallback(u) => loc[u].item.id \in raced
    BY <2>1 DEF DrainInv, IdleInv
  <2> QED BY <2>2, <2>3 DEF ReadyEntries, RunningEntries
<1>f. \A x \in hit : Held[x.ctx] = 0 \/ x.ctx \in overlap
  <2> SUFFICES ASSUME NEW x \in hit, x.ctx \notin overlap PROVE Held[x.ctx] = 0 OBVIOUS
  <2>1. x \in termList /\ x.ctx \in Contexts BY DEF TypeInv, SharedTypeOK, Term
  <2>2. Holding(x.ctx) = {} BY <2>1 DEF HeldInv
  <2>3. {h \in holders : h[2] = x.ctx} = {}
    <3> SUFFICES ASSUME NEW h \in holders, h[2] = x.ctx PROVE FALSE OBVIOUS
    <3>1. h[1] \in Threads /\ h = <<h[1], h[2]>> BY DEF TypeInv, SharedTypeOK
    <3> QED BY <3>1, <2>2 DEF Holding
  <2> QED BY <2>1, <2>3, FS_EmptySet DEF Held
<1>g. loc[t].signal = {} BY <1>u DEF DrainInv, SignalInv
<1>k. PrepOf(t)' = PrepOf(t) /\ BegunOf(t)' = BegunOf(t) /\ loc'[t].sched = loc[t].sched
  BY <1>m, NestedKeeps
<1>1. hit \subseteq termList OBVIOUS
<1>2. CASE hit = {}
  <2>1. status' = status BY <1>u, <1>2 DEF TypeInv, SharedTypeOK
  <2> HIDE DEF hit
  <2>2. Has(t)' = Has(t) BY <1>2, <1>m, <1>g, <1>k DEF Has
  <2>3. termList' = termList BY <1>u, <1>2
  <2>4. /\ termList \cap pendTerms = {} /\ Has(t) \cap (termList \cup pendTerms) = {}
        /\ loc[t].sched # {} => pc[t] = "schedule"
    BY DEF PromiseInv, TokenInv
  <2>5. TokenInv' BY <2>2, <2>3, <2>4, <1>u, <1>m, <1>k, TokenStep DEF PromiseInv
  <2>6. TermsStay
    <3>1. Prepared' = Prepared BY <1>m, <1>k, TermSets
    <3>2. BeingTerminated' = BeingTerminated BY <2>3, <1>u, <1>m, <1>k, TermSets
    <3>3. Signaled' = Signaled BY <1>2, <1>m, <1>g, TermSets
    <3> QED BY <3>1, <3>2, <3>3, <1>u DEF TermsStay
  <2>7. Promised BY <2>1, <2>6, <1>i, <1>h, StutterMaps
  <2> QED BY <2>5, <2>7, <1>i DEF PromiseInv
<1>3. CASE hit # {}
  <2> HIDE DEF hit
  <2>1. Has(t)' = Has(t) \cup hit BY <1>m, <1>g, <1>k DEF Has
  <2>2. /\ termList \cap pendTerms = {} /\ Has(t) \cap (termList \cup pendTerms) = {}
        /\ loc[t].sched # {} => pc[t] = "schedule"
    BY DEF PromiseInv, TokenInv
  <2>3. TokenInv' BY <2>1, <2>2, <1>1, <1>u, <1>m, <1>k, TokenStep DEF PromiseInv
  <2>4. hit \cap (pendTerms \cup BegunOf(t) \cup B) = {}
    <3>1. \A u \in Threads : BegunOf(u) \subseteq Has(u) BY DEF Has
    <3>2. \A u \in Threads : Has(u) \cap termList = {} BY DEF PromiseInv, TokenInv
    <3> QED BY <3>1, <3>2, <2>2, <1>1
  <2>5. /\ BeingTerminated = termList \cup pendTerms \cup BegunOf(t) \cup B
        /\ BeingTerminated' = termList' \cup pendTerms' \cup BegunOf(t)' \cup B
    BY <1>m, TermSets
  <2> HIDE DEF B
  <2>6. hit \subseteq BeingTerminated /\ BeingTerminated' = BeingTerminated \ hit
    BY <2>4, <2>5, <1>1, <1>u, <1>k
  <2>7. Prepared' = Prepared /\ Signaled' = Signaled \cup hit
    BY <1>m, <1>g, <1>k, TermSets
  <2>8. Promised BY <2>6, <2>7, <1>3, <1>d, <1>f, <1>u, <1>i, <1>h, SignalMaps
  <2> QED BY <2>3, <2>8, <1>i DEF PromiseInv
<1> QED BY <1>2, <1>3

\* A termination callback is invoked.
LEMMA CallbackPromised ==
    ASSUME NEW t \in Threads, NEW x \in loc[t].signal, TypeInv, OnceInv, PromiseInv,
           TerminationCallback(t, x)
    PROVE  Promised /\ PromiseInv'
<1>i. ItemsStay /\ EntryInv' BY ItemSteps DEF PromiseInv
<1>u. /\ UNCHANGED <<holders, overlap, status, nextTerm, termList, pendTerms>>
      /\ termDone' = termDone \cup {x.id}
  BY DEF TerminationCallback, exCtx, ctxVars, termVars
<1>h. HoldsStay BY <1>u DEF HoldsStay, Held
<1>m. /\ Moves(t, pc[t], "terms") /\ Keeps(t, {"signal"})
      /\ loc'[t].signal = loc[t].signal \ {x}
  BY TerminationCallbackEffect
<1>k. PrepOf(t)' = PrepOf(t) /\ BegunOf(t)' = BegunOf(t) /\ loc'[t].sched = loc[t].sched
  BY <1>m, NestedKeeps
<1>1. x \in Has(t) /\ Has(t)' \subseteq Has(t) BY <1>m, <1>k DEF Has
<1>2. /\ termList \cap pendTerms = {} /\ Has(t) \cap (termList \cup pendTerms) = {}
      /\ loc[t].sched # {} => pc[t] = "schedule"
  BY DEF PromiseInv, TokenInv
<1>3. TokenInv' BY <1>1, <1>2, <1>u, <1>m, <1>k, TokenStep DEF PromiseInv
<1>4. x \notin UNION {loc[u].signal : u \in Threads \ {t}} BY <1>1, OthersLack DEF PromiseInv
<1>5. x \in Signaled /\ Signaled' = Signaled \ {x}
  <2> DEFINE S == UNION {loc[u].signal : u \in Threads \ {t}}
  <2>1. Signaled = loc[t].signal \cup S /\ Signaled' = loc'[t].signal \cup S
    BY <1>m, TermSets
  <2>2. x \notin S BY <1>4
  <2> HIDE DEF S
  <2> QED BY <2>1, <2>2, <1>m
<1>6. Prepared' = Prepared /\ BeingTerminated' = BeingTerminated
  BY <1>m, <1>k, <1>u, TermSets
<1>7. Promised BY <1>5, <1>6, <1>u, <1>i, <1>h, CalledBackMaps
<1> QED BY <1>3, <1>7, <1>i DEF PromiseInv

-----------------------------------------------------------------------------
(* Steps that suspend or resume termination.                               *)

HeldOf(c) == {h \in holders : h[2] = c}

LEMMA HeldFinite ==
    ASSUME SharedTypeOK, NEW c
    PROVE  IsFiniteSet(HeldOf(c))
<1> DEFINE f == [u \in Holding(c) |-> <<u, c>>]
<1>1. f \in [Holding(c) -> HeldOf(c)] BY DEF Holding, HeldOf
<1>2. \A h \in HeldOf(c) : \E u \in Holding(c) : f[u] = h
  <2> SUFFICES ASSUME NEW h \in HeldOf(c) PROVE \E u \in Holding(c) : f[u] = h OBVIOUS
  <2>1. h[1] \in Threads /\ h = <<h[1], h[2]>> /\ h \in holders /\ h[2] = c
    BY DEF SharedTypeOK, HeldOf
  <2>2. h[1] \in Holding(c) BY <2>1 DEF Holding
  <2> QED BY <2>1, <2>2
<1>3. f \in Surjection(Holding(c), HeldOf(c)) BY <1>1, <1>2 DEF Surjection
<1>4. IsFiniteSet(Holding(c)) BY InCallFinite
<1> HIDE DEF f
<1> QED BY <1>3, <1>4, FS_Surjection

\* One more, or one less, suspension of c.
LEMMA HeldUp ==
    ASSUME SharedTypeOK, NEW t, NEW c \in Contexts, <<t, c>> \notin holders,
           holders' = holders \cup {<<t, c>>}
    PROVE  Held' = [Held EXCEPT ![c] = @ + 1]
<1>1. HeldOf(c)' = HeldOf(c) \cup {<<t, c>>} /\ <<t, c>> \notin HeldOf(c) BY DEF HeldOf
<1>2. Cardinality(HeldOf(c)') = Cardinality(HeldOf(c)) + 1
  BY <1>1, HeldFinite, FS_AddElement
<1>3. \A d \in Contexts \ {c} : HeldOf(d)' = HeldOf(d) BY DEF HeldOf
<1>4. /\ Held = [d \in Contexts |-> Cardinality(HeldOf(d))]
      /\ Held' = [d \in Contexts |-> Cardinality(HeldOf(d)')]
  BY DEF Held, HeldOf
<1> QED BY <1>2, <1>3, <1>4

LEMMA HeldDown ==
    ASSUME SharedTypeOK, NEW t, NEW c \in Contexts, <<t, c>> \in holders,
           holders' = holders \ {<<t, c>>}
    PROVE  Held[c] > 0 /\ Held' = [Held EXCEPT ![c] = @ - 1]
<1>1. HeldOf(c)' = HeldOf(c) \ {<<t, c>>} /\ <<t, c>> \in HeldOf(c) BY DEF HeldOf
<1>2. Cardinality(HeldOf(c)') = Cardinality(HeldOf(c)) - 1
  BY <1>1, HeldFinite, FS_RemoveElement
<1>3. \A d \in Contexts \ {c} : HeldOf(d)' = HeldOf(d) BY DEF HeldOf
<1>4. /\ Held = [d \in Contexts |-> Cardinality(HeldOf(d))]
      /\ Held' = [d \in Contexts |-> Cardinality(HeldOf(d)')]
  BY DEF Held, HeldOf
<1>5. Cardinality(HeldOf(c)) \in Nat /\ Cardinality(HeldOf(c)) # 0
  BY <1>1, HeldFinite, FS_CardinalityType, FS_EmptySet
<1> QED BY <1>2, <1>3, <1>4, <1>5

LEMMA HoldPromised ==
    ASSUME NEW t \in Threads, TypeInv, OnceInv, PromiseInv, RetInv, SignalInv,
           \/ \E c \in Contexts : SuspendTermination(t, c) \/ ResumeTermination(t, c)
           \/ SuspendVerify(t)
    PROVE  Promised /\ PromiseInv'
<1>i. ItemsStay /\ EntryInv' BY ItemSteps DEF PromiseInv
<1>t. TermsStay /\ TokenInv' BY TokenSteps DEF PromiseInv
<1>p. PromiseInv' BY <1>i, <1>t DEF PromiseInv
<1>s. SharedTypeOK /\ loc[t].ctx \in Contexts BY DEF TypeInv, ThreadTypeOK, Locals
<1>u. UNCHANGED status
  BY DEF SuspendTermination, ResumeTermination, SuspendVerify, ctxVars
<1>1. ASSUME NEW c \in Contexts, SuspendTermination(t, c) PROVE Promised
  <2>1. UNCHANGED holders /\ (overlap' = overlap \cup {c} \/ overlap' = overlap)
    BY <1>1 DEF SuspendTermination
  <2>2. Held' = Held BY <2>1 DEF Held
  <2>3. CASE overlap' = overlap \cup {c} BY <2>2, <2>3, <1>i, <1>t, <1>u, HoldMaps
  <2>4. CASE overlap' = overlap
    <3>1. HoldsStay BY <2>2, <2>4 DEF HoldsStay
    <3> QED BY <3>1, <1>i, <1>t, <1>u, StutterMaps
  <2> QED BY <2>1, <2>3, <2>4
<1>2. ASSUME NEW c \in Contexts, ResumeTermination(t, c) PROVE Promised
  <2>1. <<t, c>> \in holders /\ holders' = holders \ {<<t, c>>} /\ UNCHANGED overlap
    BY <1>2 DEF ResumeTermination
  <2>2. Held[c] > 0 /\ Held' = [Held EXCEPT ![c] = @ - 1] BY <2>1, <1>s, HeldDown
  <2> QED BY <2>1, <2>2, <1>i, <1>t, <1>u, HoldMaps
<1>3. CASE SuspendVerify(t)
  <2> DEFINE c == loc[t].ctx
  <2>1. /\ pc[t] = "verify" /\ UNCHANGED overlap
        /\ \/ status[c] \notin Terminal /\ holders' = holders \cup {<<t, c>>}
           \/ UNCHANGED holders
    BY <1>3 DEF SuspendVerify, NotTerminated, At
  <2>2. <<t, c>> \notin holders BY <2>1 DEF RetInv
  <2>3. c \in Contexts BY <1>s
  <2> HIDE DEF c
  <2>4. CASE status[c] \notin Terminal /\ holders' = holders \cup {<<t, c>>}
    <3>1. Held' = [Held EXCEPT ![c] = @ + 1] BY <2>2, <2>3, <2>4, <1>s, HeldUp
    <3>2. Promised BY <2>1, <2>3, <2>4, <3>1, <1>i, <1>t, <1>u, HoldMaps
    <3> QED BY <3>2, <1>p
  <2>5. CASE UNCHANGED holders
    <3>1. HoldsStay BY <2>1, <2>5 DEF HoldsStay, Held
    <3>2. Promised BY <3>1, <1>i, <1>t, <1>u, StutterMaps
    <3> QED BY <3>2, <1>p
  <2> QED BY <2>1, <2>4, <2>5
<1> QED BY <1>1, <1>2, <1>3, <1>p

-----------------------------------------------------------------------------

\* All other steps of a thread change nothing of what is promised.
LEMMA SilentPromised ==
    ASSUME NEW t \in Threads, TypeInv, OnceInv, PromiseInv, RetInv, SignalInv,
           \/ (\E c \in Contexts : Dispatch(t, c))
           \/ LowerTimerDue(t) \/ StartTimer(t) \/ QueueItemReturns(t) \/ FlushDone(t)
           \/ RemoveSuspend(t) \/ ScheduleDone(t) \/ NotifyItemQueued(t) \/ DrainOneItem(t)
           \/ CheckQueueEmpty(t) \/ CheckNotProcessing(t) \/ SignalDone(t)
           \/ PoolCallback(t) \/ PoolDrained(t) \/ PoolLeave(t)
           \/ Dispatched(t) \/ Wait(t) \/ Wake(t) \/ WaitTimesOut(t) \/ TimerFires(t)
           \/ SubmitPendingCallbacks(t) \/ RestartTimer(t) \/ RecheckTimerDue(t)
           \/ RearmTimer(t) \/ ExchangeTimerDue(t) \/ StartTimerForNext(t)
           \/ ClearTimerDue(t)
    PROVE  Promised /\ PromiseInv'
<1>1. ItemsStay /\ EntryInv' BY ItemSteps DEF PromiseInv
<1>2. TermsStay /\ TokenInv' BY TokenSteps DEF PromiseInv
<1>3. UNCHANGED <<status, holders, overlap>>
  <2>1. CASE FlushDone(t) \/ RemoveSuspend(t) \/ ScheduleDone(t)
    BY <2>1 DEF FlushDone, RemoveSuspend, ScheduleDone, shared, exTime, base, ctxVars
  <2> QED BY <2>1, NeutralUnchanged
<1>4. HoldsStay BY <1>3 DEF HoldsStay, Held
<1> QED BY <1>1, <1>2, <1>3, <1>4, StutterMaps DEF PromiseInv

LEMMA IdlePromised ==
    ASSUME PromiseInv, Tick \/ UNCHANGED vars
    PROVE  Promised /\ PromiseInv'
<1>1. UNCHANGED <<status, queue, pending, termList, pendTerms, pc, inner, loc, nextTerm, holders,
                  calls, raced, overlap, termDone>>
  BY DEF Tick, vars, exTime, base, ctxVars, listVars, termVars, histVars
<1>2. \A u \in Threads :
          /\ InTransit(u)' = InTransit(u) /\ InCallback(u)' = InCallback(u)
          /\ MyTerm(u)' = MyTerm(u) /\ Began(u)' = Began(u)
  BY <1>1 DEF InTransit, InCallback, MyTerm, Began
<1>3. \A u \in Threads :
          /\ ReadyOf(u)' = ReadyOf(u) /\ RunOf(u)' = RunOf(u)
          /\ PrepOf(u)' = PrepOf(u) /\ BegunOf(u)' = BegunOf(u)
  BY <1>1, <1>2 DEF ReadyOf, RunOf, PrepOf, BegunOf
<1>4. \A u \in Threads : Has(u)' = Has(u) BY <1>1, <1>3 DEF Has
<1>5. {queue'[k] : k \in DOMAIN queue'} = {queue[k] : k \in DOMAIN queue} BY <1>1
<1>6. Accepted' = Accepted /\ Invoked' = Invoked BY <1>1, <1>2 DEF Accepted, Invoked
<1>7. ReadyEntries' = ReadyEntries
  <2>1. ReadyEntries' = {queue'[k] : k \in DOMAIN queue'} \cup UNION {ReadyOf(u)' : u \in Threads}
    BY Views
  <2> QED BY <2>1, <1>3, <1>5, Views
<1>8. RunningEntries' = RunningEntries
  <2>1. RunningEntries' = UNION {RunOf(u)' : u \in Threads} BY Views
  <2> QED BY <2>1, <1>3, Views
<1>9. Prepared' = Prepared
  <2>1. Prepared' = UNION {PrepOf(u)' : u \in Threads} BY Views
  <2> QED BY <2>1, <1>3, Views
<1>10. BeingTerminated' = BeingTerminated
  <2>1. BeingTerminated' = termList' \cup pendTerms' \cup UNION {BegunOf(u)' : u \in Threads}
    BY Views
  <2> QED BY <2>1, <1>1, <1>3, Views
<1>11. ItemsStay BY <1>1, <1>6, <1>7, <1>8 DEF ItemsStay
<1>12. TermsStay BY <1>1, <1>9, <1>10 DEF TermsStay, Signaled
<1>13. HoldsStay BY <1>1 DEF HoldsStay, Held
<1>14. EntryInv' BY <1>1, <1>2, <1>6, <1>7, <1>8 DEF PromiseInv, EntryInv
<1>15. TokenInv' BY <1>1, <1>4 DEF PromiseInv, TokenInv
<1> QED BY <1>1, <1>11, <1>12, <1>13, <1>14, <1>15, StutterMaps DEF PromiseInv

LEMMA InitPromise == Init => PromiseInv
<1> SUFFICES ASSUME Init PROVE PromiseInv OBVIOUS
<1>1. \A t \in Threads : pc[t] = "idle" /\ inner[t] = "none" /\ loc[t] = Fresh BY DEF Init
<1>2. Fresh.batch = {} /\ Fresh.signal = {} /\ Fresh.sched = {} BY DEF Fresh
<1>3. \A t \in Threads : InTransit(t) = {} BY <1>1, <1>2 DEF InTransit
<1>4. Accepted = {} BY <1>3 DEF Accepted, Init
<1>5. ReadyEntries = {} /\ RunningEntries = {}
  BY <1>1 DEF ReadyEntries, RunningEntries, InCallback, Init
<1>6. EntryInv BY <1>1, <1>4, <1>5 DEF EntryInv, InCallback
<1>7. \A t \in Threads : Has(t) = {} BY <1>1, <1>2 DEF Has, PrepOf, BegunOf, Began
<1>8. TokenInv BY <1>1, <1>2, <1>7 DEF TokenInv, Init
<1> QED BY <1>6, <1>8 DEF PromiseInv

\* Every step keeps the invariant and the promise.
LEMMA StepPromised ==
    ASSUME TypeInv, OnceInv, DrainInv, SuspInv, PromiseInv, [Next]_vars
    PROVE  Promised /\ PromiseInv'
<1>0. RetInv /\ SignalInv /\ HeldInv BY DEF SuspInv, DrainInv
<1>1. ASSUME NEW t \in Threads,
             \/ Calls(t) \/ Continue(t)
             \/ QueueItemFails(t) \/ CancelTermination(t) \/ WaitTimesOut(t)
             \/ \E c \in Contexts : Dispatch(t, c) \/ ResumeTermination(t, c)
      PROVE  Promised /\ PromiseInv'
  BY <1>0, <1>1, QueueItemPromised, QueueItemFailsPromised, AppendPromised, DelayPromised,
     PopPromised, InvokePromised, LeavePromised, PreparePromised, UnderWayPromised,
     SignalPromised, CallbackPromised, HoldPromised, SilentPromised DEF Calls, Continue
<1> QED BY <1>1, IdlePromised DEF Next

(* The port, with its lock-free lists, its counters, its timer and any     *)
(* number of threads between any two of their accesses, implements its     *)
(* promise: a callback is accepted once, invoked at most once and only when*)
(* ready; a termination goes from its token to its callback without being  *)
(* lost or doubled, and is signaled only when no suspension that counts    *)
(* holds its context and every callback of the context has returned, the   *)
(* late ones excepted.                                                     *)
THEOREM PromiseKept == Spec => KeepsPromise
<1>1. Promised => [Promise!PortNext]_(Promise!portVars) BY DEF Promised
<1>2. ASSUME TypeInv, OnceInv, DrainInv, SuspInv, PromiseInv, [Next]_vars
      PROVE  Promised /\ PromiseInv'
  BY <1>2, StepPromised
<1> QED BY <1>1, <1>2, InitMaps, InitPromise, TypeInvariant, OnceInvariant, DrainInvariant,
           SuspInvariant, PTL DEF Spec, KeepsPromise, Promise!PortSpec
=============================================================================
