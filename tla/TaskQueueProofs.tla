--------------------------- MODULE TaskQueueProofs ---------------------------
(***************************************************************************)
(* Proofs about TaskQueue: the reference count of a queue covers everybody *)
(* who uses it, and what a termination that was called back means for the  *)
(* callbacks of both ports.                                                *)
(***************************************************************************)
EXTENDS TaskQueue, FiniteSetTheorems, TLAPS

\* The stages of a call of Terminate that has not returned, and of one whose termination
\* of the Work port has begun.
Under == {"prepared", "terminate", "begun", "unwindWork", "unwindCompletion"}
Unwinding == {"unwindWork", "unwindCompletion"}
Begun == {"begun", "unwindWork", "unwindCompletion", "done"}
CalledLevels == {"called", "signaled", "over"}

Statuses == {"Active", "Canceled", "Terminating", "Terminated"}
Stages == {"idle", "prepared", "failed", "terminate", "begun", "unwindWork", "unwindCompletion",
           "done"}
Levels == {"none", "chained", "called", "signaled", "over"}
Places == {"idle", "verify", "held", "resuming", "done"}

N(S) == Cardinality(S)
In(x, S) == IF x \in S THEN 1 ELSE 0

-----------------------------------------------------------------------------
(* The references.                                                         *)

\* Two of a submission that has not returned and one of the entry, wherever it is.
ItemRefs == 2 * N(submitting) + N(accepted) + N(ready) + N(running) + N(leaving)

\* A call of Terminate has one, a waiter one more, the termination entry one until it was
\* called back, and each SignalTerminations that calls back one.
InCall     == {k \in Calls : stage[k] \in Under}
InWait     == {k \in waits : stage[k] \in {"begun"} \cup Unwinding}
Entered    == {k \in Calls : stage[k] \in Begun /\ level[k] # "over"}
InWorkBack == {k \in Calls : WorkToken(k) \in signaled /\ level[k] # "none"}
InBack     == {k \in Calls : level[k] \in {"called", "signaled"}}

CallRefs == N(InCall) + N(InWait) + N(Entered) + N(InWorkBack) + N(InBack)

Balance == refs = handles + ItemRefs + CallRefs

ItemInv ==
    /\ accepted \subseteq Entries /\ ready \subseteq Entries /\ running \subseteq Entries
    /\ submitting \subseteq Entries /\ leaving \subseteq Entries
    /\ IsFiniteSet(accepted) /\ IsFiniteSet(ready) /\ IsFiniteSet(running)
    /\ IsFiniteSet(submitting) /\ IsFiniteSet(leaving)
    /\ accepted \cap (ready \cup running \cup leaving) = {}
    /\ ready \cap (running \cup leaving) = {} /\ running \cap leaving = {}
    /\ \A e \in accepted \cup ready \cup running \cup submitting \cup leaving : e.id < nextItem
    /\ nextItem \in 1 .. MaxItems + 1
    /\ invoked \subseteq 1 .. MaxItems /\ late \subseteq 1 .. MaxItems

\* Where the tokens of call k are.
TokenPlaces(k) ==
    /\ stage[k] \notin Begun => level[k] = "none"
    /\ WorkToken(k) \in prepared <=> stage[k] \in {"prepared", "terminate"}
    /\ CompletionToken(k) \in prepared <=>
          stage[k] = "terminate" \/ (stage[k] \in Begun /\ level[k] = "none")
    /\ WorkToken(k) \in terminating \cup signaled => stage[k] \in Begun
    /\ WorkToken(k) \in terminating => level[k] = "none"
    /\ CompletionToken(k) \in terminating => level[k] = "chained"
    /\ CompletionToken(k) \in signaled => level[k] \in {"chained", "called", "signaled"}
    /\ level[k] \in {"called", "signaled"} => CompletionToken(k) \in signaled
    /\ level[k] # "none" => WorkToken(k) \in signaled \/ WorkToken(k).id \in finished
    /\ level[k] = "over" => CompletionToken(k).id \in finished
    /\ called[k] = IF level[k] \in CalledLevels THEN 1 ELSE 0
    /\ stage[k] \in Unwinding => k \in waits
    /\ stage[k] \in Unwinding \cup {"done"} /\ k \in waits => terminated

CallInv ==
    /\ stage \in [Calls -> Stages] /\ waits \subseteq Calls
    /\ level \in [Calls -> Levels] /\ called \in [Calls -> 0 .. 1]
    /\ prepared \subseteq Tokens /\ terminating \subseteq Tokens /\ signaled \subseteq Tokens
    /\ terminating \cap signaled = {}
    /\ finished \subseteq 1 .. 2 * MaxTerms
    /\ terminated \in BOOLEAN
    /\ \A k \in Calls : TokenPlaces(k)
    /\ terminated => \E k \in Calls : called[k] = 1

Suspending == {s \in Suspenders : sus[s] = "held"}

HoldInv ==
    /\ sus \in [Suspenders -> Places] /\ weak \subseteq Ports
    /\ held \in [Ports -> Nat] /\ held["Completion"] = 0 /\ held["Work"] = N(Suspending)
    /\ handles \in 0 .. MaxHandles
    /\ \A s \in Suspenders : Holding(s) => handles > 0

\* What is left of a port's callbacks once it has signaled a termination, and that the
\* Completion port closes after the Work port.
SignalInv ==
    /\ status \in [Ports -> Statuses]
    /\ \A p \in Ports : WasSignaled(p) => status[p] \in Closed /\ Drained(p)
    /\ WasSignaled("Work") => Loose("Work")
    /\ status["Completion"] \in Closed => refs = 0 \/ \E k \in Calls : level[k] # "none"

QueueInv == ItemInv /\ CallInv /\ HoldInv /\ SignalInv /\ Balance /\ deleted \in BOOLEAN

-----------------------------------------------------------------------------
(* Counting.                                                               *)

\* A set that changes at one element changes its size by that.
LEMMA CountChange ==
    ASSUME NEW S, NEW T, NEW k, IsFiniteSet(S), \A j : j # k => (j \in T <=> j \in S)
    PROVE  IsFiniteSet(T) /\ N(S) \in Nat /\ N(T) = N(S) + In(k, T) - In(k, S) /\ N(T) \in Nat
<1>1. N(S) \in Nat BY FS_CardinalityType DEF N
<1>2. CASE k \in T /\ k \notin S
  <2>1. T = S \cup {k} BY <1>2
  <2>2. IsFiniteSet(T) /\ N(T) = N(S) + 1 BY <1>2, <2>1, FS_AddElement DEF N
  <2> QED BY <1>1, <1>2, <2>2 DEF In
<1>3. CASE k \notin T /\ k \in S
  <2>1. T = S \ {k} BY <1>3
  <2>2. IsFiniteSet(T) /\ N(T) = N(S) - 1 BY <1>3, <2>1, FS_RemoveElement DEF N
  <2>3. N(T) \in Nat BY <2>2, FS_CardinalityType DEF N
  <2> QED BY <1>1, <1>3, <2>2, <2>3 DEF In
<1>4. CASE k \in T <=> k \in S
  <2>1. T = S BY <1>4
  <2> QED BY <1>1, <2>1 DEF In
<1> QED BY <1>2, <1>3, <1>4

LEMMA CountNone ==
    ASSUME NEW S, IsFiniteSet(S), N(S) = 0
    PROVE  S = {}
BY FS_EmptySet DEF N

LEMMA CallsFinite == IsFiniteSet(Calls) /\ \A S : S \subseteq Calls => IsFiniteSet(S)
<1>1. IsFiniteSet(Calls)
  <2>1. 1 \in Int /\ MaxTerms \in Int BY TaskQueueBounds
  <2> QED BY <2>1, FS_Interval DEF Calls
<1> QED BY <1>1, FS_Subset

LEMMA TokenFacts ==
    /\ \A k \in Calls : /\ WorkToken(k) \in Tokens /\ CompletionToken(k) \in Tokens
                        /\ WorkToken(k).ctx = "Work" /\ CompletionToken(k).ctx = "Completion"
                        /\ WorkToken(k).id = 2 * k - 1 /\ CompletionToken(k).id = 2 * k
                        /\ WorkToken(k).id \in 1 .. 2 * MaxTerms
                        /\ CompletionToken(k).id \in 1 .. 2 * MaxTerms
    /\ \A j, k \in Calls : /\ WorkToken(j) # CompletionToken(k)
                           /\ WorkToken(j).id # CompletionToken(k).id
                           /\ WorkToken(j) = WorkToken(k) => j = k
                           /\ CompletionToken(j) = CompletionToken(k) => j = k
                           /\ WorkToken(j).id = WorkToken(k).id => j = k
                           /\ CompletionToken(j).id = CompletionToken(k).id => j = k
    /\ \A x \in Tokens : \E k \in Calls : x = WorkToken(k) \/ x = CompletionToken(k)
<1>0. MaxTerms \in Nat BY TaskQueueBounds
<1>1. \A k \in Calls : k \in Nat /\ 1 <= k /\ k <= MaxTerms BY <1>0 DEF Calls
<1>2. \A k : WorkToken(k).id = 2 * k - 1 /\ CompletionToken(k).id = 2 * k
             /\ WorkToken(k).ctx = "Work" /\ CompletionToken(k).ctx = "Completion"
  BY DEF WorkToken, CompletionToken
<1>3. ASSUME NEW k \in Calls
      PROVE  WorkToken(k).id \in 1 .. 2 * MaxTerms /\ CompletionToken(k).id \in 1 .. 2 * MaxTerms
  BY <1>0, <1>1, <1>2
<1>4. ASSUME NEW j \in Calls, NEW k \in Calls
      PROVE  /\ WorkToken(j).id # CompletionToken(k).id
             /\ WorkToken(j).id = WorkToken(k).id => j = k
             /\ CompletionToken(j).id = CompletionToken(k).id => j = k
  <2>1. j \in Nat /\ k \in Nat BY <1>1
  <2>2. 2 * j - 1 # 2 * k /\ (2 * j - 1 = 2 * k - 1 => j = k) /\ (2 * j = 2 * k => j = k) BY <2>1
  <2> QED BY <1>2, <2>2
<1>5. \A j, k \in Calls : /\ WorkToken(j) # CompletionToken(k)
                          /\ WorkToken(j) = WorkToken(k) => j = k
                          /\ CompletionToken(j) = CompletionToken(k) => j = k
  BY <1>4
<1>6. \A k \in Calls : WorkToken(k) \in Tokens /\ CompletionToken(k) \in Tokens BY DEF Tokens
<1>7. \A x \in Tokens : \E k \in Calls : x = WorkToken(k) \/ x = CompletionToken(k) BY DEF Tokens
<1> QED BY <1>2, <1>3, <1>4, <1>5, <1>6, <1>7

-----------------------------------------------------------------------------
(* Callbacks.                                                              *)

\* The references that entry e stands for.
Weight(e) == 2 * In(e, submitting) + In(e, accepted) + In(e, ready) + In(e, running) + In(e, leaving)

OnlyEntry(e) ==
    \A x : x # e => /\ x \in submitting' <=> x \in submitting
                    /\ x \in accepted' <=> x \in accepted
                    /\ x \in ready' <=> x \in ready
                    /\ x \in running' <=> x \in running
                    /\ x \in leaving' <=> x \in leaving

LEMMA ItemCount ==
    ASSUME ItemInv, NEW e, OnlyEntry(e)
    PROVE  /\ ItemRefs \in Nat /\ ItemRefs' \in Nat /\ ItemRefs' = ItemRefs + Weight(e)' - Weight(e)
           /\ IsFiniteSet(accepted') /\ IsFiniteSet(ready') /\ IsFiniteSet(running')
           /\ IsFiniteSet(submitting') /\ IsFiniteSet(leaving')
<1>0. /\ IsFiniteSet(accepted) /\ IsFiniteSet(ready) /\ IsFiniteSet(running)
      /\ IsFiniteSet(submitting) /\ IsFiniteSet(leaving)
  BY DEF ItemInv
<1>1. /\ IsFiniteSet(submitting') /\ N(submitting) \in Nat /\ N(submitting') \in Nat
      /\ N(submitting') = N(submitting) + In(e, submitting') - In(e, submitting)
  <2>1. \A x : x # e => (x \in submitting' <=> x \in submitting) BY DEF OnlyEntry
  <2> QED BY <1>0, <2>1, CountChange
<1>2. /\ IsFiniteSet(accepted') /\ N(accepted) \in Nat /\ N(accepted') \in Nat
      /\ N(accepted') = N(accepted) + In(e, accepted') - In(e, accepted)
  <2>1. \A x : x # e => (x \in accepted' <=> x \in accepted) BY DEF OnlyEntry
  <2> QED BY <1>0, <2>1, CountChange
<1>3. /\ IsFiniteSet(ready') /\ N(ready) \in Nat /\ N(ready') \in Nat
      /\ N(ready') = N(ready) + In(e, ready') - In(e, ready)
  <2>1. \A x : x # e => (x \in ready' <=> x \in ready) BY DEF OnlyEntry
  <2> QED BY <1>0, <2>1, CountChange
<1>4. /\ IsFiniteSet(running') /\ N(running) \in Nat /\ N(running') \in Nat
      /\ N(running') = N(running) + In(e, running') - In(e, running)
  <2>1. \A x : x # e => (x \in running' <=> x \in running) BY DEF OnlyEntry
  <2> QED BY <1>0, <2>1, CountChange
<1>5. /\ IsFiniteSet(leaving') /\ N(leaving) \in Nat /\ N(leaving') \in Nat
      /\ N(leaving') = N(leaving) + In(e, leaving') - In(e, leaving)
  <2>1. \A x : x # e => (x \in leaving' <=> x \in leaving) BY DEF OnlyEntry
  <2> QED BY <1>0, <2>1, CountChange
<1>6. \A S : In(e, S) \in 0 .. 1 BY DEF In
<1>7. ItemRefs \in Nat /\ ItemRefs' \in Nat BY <1>1, <1>2, <1>3, <1>4, <1>5 DEF ItemRefs
<1>8. ItemRefs' = ItemRefs + Weight(e)' - Weight(e)
  BY <1>1, <1>2, <1>3, <1>4, <1>5, <1>6 DEF ItemRefs, Weight
<1> QED BY <1>1, <1>2, <1>3, <1>4, <1>5, <1>7, <1>8

\* What a step of a callback does and leaves alone.
ItemFrame == UNCHANGED <<status, termVars, holdVars, terminated, deleted, handles, callPlace, sus>>

\* The entries are where they may be after the step.
EntriesOk ==
    /\ accepted' \subseteq Entries /\ ready' \subseteq Entries /\ running' \subseteq Entries
    /\ submitting' \subseteq Entries /\ leaving' \subseteq Entries
    /\ accepted' \cap (ready' \cup running' \cup leaving') = {}
    /\ ready' \cap (running' \cup leaving') = {} /\ running' \cap leaving' = {}
    /\ \A e \in accepted' \cup ready' \cup running' \cup submitting' \cup leaving' : e.id < nextItem'
    /\ nextItem' \in 1 .. MaxItems + 1
    /\ invoked' \subseteq 1 .. MaxItems /\ late' \subseteq 1 .. MaxItems

LEMMA EntryStep ==
    ASSUME ItemInv, NEW e, OnlyEntry(e), EntriesOk, NEW d \in Int,
           Weight(e)' = Weight(e) + d, refs' = refs + d
    PROVE  ItemInv' /\ \E c \in Int : refs' = refs + c /\ ItemRefs' = ItemRefs + c
<1>1. /\ ItemRefs \in Nat /\ ItemRefs' \in Nat /\ ItemRefs' = ItemRefs + Weight(e)' - Weight(e)
      /\ IsFiniteSet(accepted') /\ IsFiniteSet(ready') /\ IsFiniteSet(running')
      /\ IsFiniteSet(submitting') /\ IsFiniteSet(leaving')
  BY ItemCount
<1>2. Weight(e) \in Int BY DEF Weight, In
<1>3. ItemRefs' = ItemRefs + d BY <1>1, <1>2
<1>4. ItemInv' BY <1>1 DEF ItemInv, EntriesOk
<1> QED BY <1>3, <1>4

LEMMA SubmitSteps ==
    ASSUME ItemInv, NEW port \in Ports, NEW delayed \in BOOLEAN, Submit(port, delayed)
    PROVE  /\ ItemInv' /\ ItemFrame /\ \E c \in Int : refs' = refs + c /\ ItemRefs' = ItemRefs + c
           /\ UNCHANGED <<ready, running, late>>
<1>0. PICK e : e = [id |-> nextItem, ctx |-> port, delayed |-> delayed] OBVIOUS
<1>1. /\ accepted' = accepted \cup {e} /\ submitting' = submitting \cup {e}
      /\ nextItem' = nextItem + 1 /\ nextItem <= MaxItems /\ refs' = refs + 3
      /\ UNCHANGED <<ready, running, leaving, invoked, late>> /\ ItemFrame
  BY <1>0 DEF Submit, Accept, Holders, ItemFrame
<1>2. MaxItems \in Nat BY TaskQueueBounds
<1>3. nextItem \in 1 .. MaxItems /\ e \in Entries /\ e.id = nextItem
  BY <1>0, <1>1, <1>2 DEF ItemInv, Entries
<1>4. \A x \in accepted \cup ready \cup running \cup submitting \cup leaving :
         x.id \in Nat /\ x.id < nextItem
  BY <1>2 DEF ItemInv, Entries
<1>5. e \notin accepted \cup ready \cup running \cup submitting \cup leaving BY <1>3, <1>4
<1>6. OnlyEntry(e) BY <1>1 DEF OnlyEntry
<1>7. Weight(e) = 0 /\ Weight(e)' = 3 BY <1>1, <1>5 DEF Weight, In
<1>8. EntriesOk
  <2>1. /\ accepted' \subseteq Entries /\ submitting' \subseteq Entries
        /\ accepted' \cap (ready' \cup running' \cup leaving') = {}
    BY <1>1, <1>3, <1>5 DEF ItemInv
  <2>2. nextItem' \in 1 .. MaxItems + 1 BY <1>1, <1>2, <1>3
  <2>3. ASSUME NEW x \in accepted' \cup ready' \cup running' \cup submitting' \cup leaving'
        PROVE  x.id < nextItem'
    <3>1. CASE x = e BY <1>1, <1>3, <3>1
    <3>2. CASE x # e
      <4>1. x \in accepted \cup ready \cup running \cup submitting \cup leaving BY <1>1, <3>2
      <4>2. x.id \in Nat /\ x.id < nextItem BY <1>4, <4>1
      <4> QED BY <1>1, <1>3, <4>2
    <3> QED BY <3>1, <3>2
  <2> QED BY <1>1, <2>1, <2>2, <2>3 DEF EntriesOk, ItemInv
<1>9. Weight(e)' = Weight(e) + 3 /\ 3 \in Int BY <1>7
<1> QED BY <1>1, <1>6, <1>8, <1>9, EntryStep

LEMMA ItemSteps ==
    ASSUME ItemInv, refs \in Int, NEW e,
           \/ SubmitFails(e) \/ Append(e) \/ SubmitReturns(e)
           \/ Run(e) \/ CallbackReturns(e) \/ ReleaseEntry(e)
    PROVE  /\ ItemInv' /\ ItemFrame /\ \E c \in Int : refs' = refs + c /\ ItemRefs' = ItemRefs + c
<1>0. \A x \in accepted \cup ready \cup running \cup submitting \cup leaving : x \in Entries
  BY DEF ItemInv
<1>1. CASE SubmitFails(e)
  <2>1. /\ e \in submitting /\ e \in accepted /\ accepted' = accepted \ {e}
        /\ submitting' = submitting \ {e} /\ refs' = refs - 3 /\ ItemFrame
        /\ UNCHANGED <<ready, running, leaving, invoked, late, nextItem>>
    BY <1>1 DEF SubmitFails, Refuse, ItemFrame
  <2>2. OnlyEntry(e) /\ EntriesOk BY <2>1 DEF OnlyEntry, EntriesOk, ItemInv
  <2>3. Weight(e)' = Weight(e) + (-3) /\ -3 \in Int BY <2>1 DEF Weight, In
  <2>4. refs' = refs + (-3) BY <2>1
  <2> QED BY <2>1, <2>2, <2>3, <2>4, EntryStep
<1>2. CASE Append(e)
  <2>1. /\ e \in accepted /\ accepted' = accepted \ {e} /\ ready' = ready \cup {e}
        /\ late' = late \/ late' = late \cup {e.id}
        /\ UNCHANGED <<refs, submitting, running, leaving, invoked, nextItem>> /\ ItemFrame
    BY <1>2 DEF Append, Enqueue, ItemFrame, queueVars, itemPlace
  <2>2. e.id \in 1 .. MaxItems BY <1>0, <2>1 DEF Entries
  <2>3. late' \subseteq 1 .. MaxItems BY <2>1, <2>2 DEF ItemInv
  <2>4. OnlyEntry(e) /\ EntriesOk BY <2>1, <2>3 DEF OnlyEntry, EntriesOk, ItemInv
  <2>5. e \notin ready BY <2>1 DEF ItemInv
  <2>6. Weight(e)' = Weight(e) + 0 BY <2>1, <2>5 DEF Weight, In
  <2>7. refs' = refs + 0 BY <2>1
  <2> QED BY <2>1, <2>4, <2>6, <2>7, EntryStep
<1>3. CASE SubmitReturns(e)
  <2>1. /\ e \in submitting /\ submitting' = submitting \ {e} /\ refs' = refs - 2 /\ ItemFrame
        /\ UNCHANGED <<accepted, ready, running, leaving, invoked, late, nextItem>>
    BY <1>3 DEF SubmitReturns, ItemFrame, portVars, itemVars
  <2>2. OnlyEntry(e) /\ EntriesOk BY <2>1 DEF OnlyEntry, EntriesOk, ItemInv
  <2>3. Weight(e)' = Weight(e) + (-2) /\ -2 \in Int BY <2>1 DEF Weight, In
  <2>4. refs' = refs + (-2) BY <2>1
  <2> QED BY <2>1, <2>2, <2>3, <2>4, EntryStep
<1>4. CASE Run(e)
  <2>1. /\ e \in ready /\ ready' = ready \ {e} /\ running' = running \cup {e}
        /\ invoked' = invoked \cup {e.id} /\ ItemFrame
        /\ UNCHANGED <<refs, submitting, accepted, leaving, late, nextItem>>
    BY <1>4 DEF Run, Invoke, ItemFrame, queueVars, itemPlace
  <2>2. e.id \in 1 .. MaxItems BY <1>0, <2>1 DEF Entries
  <2>3. invoked' \subseteq 1 .. MaxItems BY <2>1, <2>2 DEF ItemInv
  <2>4. OnlyEntry(e) /\ EntriesOk BY <2>1, <2>3 DEF OnlyEntry, EntriesOk, ItemInv
  <2>5. e \notin running BY <2>1 DEF ItemInv
  <2>6. Weight(e)' = Weight(e) + 0 BY <2>1, <2>5 DEF Weight, In
  <2>7. refs' = refs + 0 BY <2>1
  <2> QED BY <2>1, <2>4, <2>6, <2>7, EntryStep
<1>5. CASE CallbackReturns(e)
  <2>1. /\ e \in running /\ running' = running \ {e} /\ leaving' = leaving \cup {e} /\ ItemFrame
        /\ UNCHANGED <<refs, submitting, accepted, ready, invoked, late, nextItem>>
    BY <1>5 DEF CallbackReturns, Return, ItemFrame, queueVars
  <2>2. OnlyEntry(e) /\ EntriesOk BY <2>1 DEF OnlyEntry, EntriesOk, ItemInv
  <2>3. e \notin leaving BY <2>1 DEF ItemInv
  <2>4. Weight(e)' = Weight(e) + 0 BY <2>1, <2>3 DEF Weight, In
  <2>5. refs' = refs + 0 BY <2>1
  <2> QED BY <2>1, <2>2, <2>4, <2>5, EntryStep
<1>6. CASE ReleaseEntry(e)
  <2>1. /\ e \in leaving /\ leaving' = leaving \ {e} /\ refs' = refs - 1 /\ ItemFrame
        /\ UNCHANGED <<submitting, accepted, ready, running, invoked, late, nextItem>>
    BY <1>6 DEF ReleaseEntry, ItemFrame, portVars, itemVars
  <2>2. OnlyEntry(e) /\ EntriesOk BY <2>1 DEF OnlyEntry, EntriesOk, ItemInv
  <2>3. Weight(e)' = Weight(e) + (-1) /\ -1 \in Int BY <2>1 DEF Weight, In
  <2>4. refs' = refs + (-1) BY <2>1
  <2> QED BY <2>1, <2>2, <2>3, <2>4, EntryStep
<1> QED BY <1>1, <1>2, <1>3, <1>4, <1>5, <1>6

-----------------------------------------------------------------------------
(* Calls of Terminate.                                                     *)

\* The references that call k stands for.
CallWeight(k) == In(k, InCall) + In(k, InWait) + In(k, Entered) + In(k, InWorkBack) + In(k, InBack)

\* A step of call k leaves the others and their tokens where they are.
OnlyCall(k) ==
    \A j \in Calls \ {k} :
        /\ stage'[j] = stage[j] /\ level'[j] = level[j] /\ called'[j] = called[j]
        /\ j \in waits' <=> j \in waits
        /\ \A x \in {WorkToken(j), CompletionToken(j)} :
              /\ x \in prepared' <=> x \in prepared
              /\ x \in terminating' <=> x \in terminating
              /\ x \in signaled' <=> x \in signaled
              /\ x.id \in finished' <=> x.id \in finished

CallTypes ==
    /\ stage \in [Calls -> Stages] /\ waits \subseteq Calls
    /\ level \in [Calls -> Levels] /\ called \in [Calls -> 0 .. 1]
    /\ prepared \subseteq Tokens /\ terminating \subseteq Tokens /\ signaled \subseteq Tokens
    /\ terminating \cap signaled = {}
    /\ finished \subseteq 1 .. 2 * MaxTerms
    /\ terminated \in BOOLEAN

LEMMA CallCount ==
    ASSUME CallTypes, CallTypes', NEW k \in Calls, OnlyCall(k)
    PROVE  CallRefs \in Nat /\ CallRefs' \in Nat /\ CallRefs' = CallRefs + CallWeight(k)' - CallWeight(k)
<1>0. /\ InCall \subseteq Calls /\ InWait \subseteq Calls /\ Entered \subseteq Calls
      /\ InWorkBack \subseteq Calls /\ InBack \subseteq Calls
      /\ InCall' \subseteq Calls /\ InWait' \subseteq Calls /\ Entered' \subseteq Calls
      /\ InWorkBack' \subseteq Calls /\ InBack' \subseteq Calls
  BY DEF CallTypes, InCall, InWait, Entered, InWorkBack, InBack
<1>1. /\ IsFiniteSet(InCall) /\ IsFiniteSet(InWait) /\ IsFiniteSet(Entered)
      /\ IsFiniteSet(InWorkBack) /\ IsFiniteSet(InBack)
  BY <1>0, CallsFinite
<1>2. \A j \in Calls \ {k} :
         /\ stage'[j] = stage[j] /\ level'[j] = level[j] /\ (j \in waits' <=> j \in waits)
         /\ WorkToken(j) \in signaled' <=> WorkToken(j) \in signaled
  BY DEF OnlyCall
<1>3. /\ N(InCall) \in Nat /\ N(InCall') \in Nat
      /\ N(InCall') = N(InCall) + In(k, InCall') - In(k, InCall)
  <2>1. \A j : j # k => (j \in InCall' <=> j \in InCall) BY <1>2 DEF InCall
  <2> QED BY <1>1, <2>1, CountChange
<1>4. /\ N(InWait) \in Nat /\ N(InWait') \in Nat
      /\ N(InWait') = N(InWait) + In(k, InWait') - In(k, InWait)
  <2>1. \A j : j # k => (j \in InWait' <=> j \in InWait) BY <1>2 DEF InWait, CallTypes
  <2> QED BY <1>1, <2>1, CountChange
<1>5. /\ N(Entered) \in Nat /\ N(Entered') \in Nat
      /\ N(Entered') = N(Entered) + In(k, Entered') - In(k, Entered)
  <2>1. \A j : j # k => (j \in Entered' <=> j \in Entered) BY <1>2 DEF Entered
  <2> QED BY <1>1, <2>1, CountChange
<1>6. /\ N(InWorkBack) \in Nat /\ N(InWorkBack') \in Nat
      /\ N(InWorkBack') = N(InWorkBack) + In(k, InWorkBack') - In(k, InWorkBack)
  <2>1. \A j : j # k => (j \in InWorkBack' <=> j \in InWorkBack) BY <1>2 DEF InWorkBack
  <2> QED BY <1>1, <2>1, CountChange
<1>7. /\ N(InBack) \in Nat /\ N(InBack') \in Nat
      /\ N(InBack') = N(InBack) + In(k, InBack') - In(k, InBack)
  <2>1. \A j : j # k => (j \in InBack' <=> j \in InBack) BY <1>2 DEF InBack
  <2> QED BY <1>1, <2>1, CountChange
<1>8. \A S : In(k, S) \in 0 .. 1 BY DEF In
<1>9. CallRefs \in Nat /\ CallRefs' \in Nat BY <1>3, <1>4, <1>5, <1>6, <1>7 DEF CallRefs
<1>10. CallRefs' = CallRefs + CallWeight(k)' - CallWeight(k)
  <2>1. PICK a, b, c, d, e, a1, b1, c1, d1, e1 :
           /\ a = N(InCall) /\ b = N(InWait) /\ c = N(Entered) /\ d = N(InWorkBack) /\ e = N(InBack)
           /\ a1 = In(k, InCall) /\ b1 = In(k, InWait) /\ c1 = In(k, Entered)
           /\ d1 = In(k, InWorkBack) /\ e1 = In(k, InBack)
    OBVIOUS
  <2>2. PICK a2, b2, c2, d2, e2 :
           /\ a2 = In(k, InCall') /\ b2 = In(k, InWait') /\ c2 = In(k, Entered')
           /\ d2 = In(k, InWorkBack') /\ e2 = In(k, InBack')
    OBVIOUS
  <2>3. /\ a \in Nat /\ b \in Nat /\ c \in Nat /\ d \in Nat /\ e \in Nat
        /\ a1 \in Nat /\ b1 \in Nat /\ c1 \in Nat /\ d1 \in Nat /\ e1 \in Nat
        /\ a2 \in Nat /\ b2 \in Nat /\ c2 \in Nat /\ d2 \in Nat /\ e2 \in Nat
    <3>1. \A S : In(k, S) \in Nat BY DEF In
    <3> QED BY <1>3, <1>4, <1>5, <1>6, <1>7, <2>1, <2>2, <3>1
  <2>4. CallRefs = a + b + c + d + e /\ CallWeight(k) = a1 + b1 + c1 + d1 + e1
    BY <2>1 DEF CallRefs, CallWeight
  <2>5. CallWeight(k)' = a2 + b2 + c2 + d2 + e2 BY <2>2 DEF CallWeight
  <2>6. CallRefs' = (a + a2 - a1) + (b + b2 - b1) + (c + c2 - c1) + (d + d2 - d1) + (e + e2 - e1)
    BY <1>3, <1>4, <1>5, <1>6, <1>7, <2>1, <2>2 DEF CallRefs
  <2> QED BY <2>3, <2>4, <2>5, <2>6
<1> QED BY <1>9, <1>10

LEMMA CallStep ==
    ASSUME CallInv, NEW k \in Calls, OnlyCall(k), CallTypes', TokenPlaces(k)',
           terminated => terminated', terminated' => terminated \/ called'[k] = 1,
           called[k] = 1 => called'[k] = 1,
           NEW d \in Int, CallWeight(k)' = CallWeight(k) + d, refs' = refs + d
    PROVE  CallInv' /\ \E c \in Int : refs' = refs + c /\ CallRefs' = CallRefs + c
<1>0. CallTypes BY DEF CallInv, CallTypes
<1>1. CallRefs \in Nat /\ CallRefs' = CallRefs + CallWeight(k)' - CallWeight(k) BY <1>0, CallCount
<1>2. CallWeight(k) \in Int BY DEF CallWeight, In
<1>3. CallRefs' = CallRefs + d BY <1>1, <1>2
<1>4. ASSUME NEW j \in Calls \ {k} PROVE TokenPlaces(j)'
  <2>1. TokenPlaces(j) BY DEF CallInv
  <2>2. /\ stage'[j] = stage[j] /\ level'[j] = level[j] /\ called'[j] = called[j]
        /\ j \in waits' <=> j \in waits
        /\ WorkToken(j) \in prepared' <=> WorkToken(j) \in prepared
        /\ WorkToken(j) \in terminating' <=> WorkToken(j) \in terminating
        /\ WorkToken(j) \in signaled' <=> WorkToken(j) \in signaled
        /\ CompletionToken(j) \in prepared' <=> CompletionToken(j) \in prepared
        /\ CompletionToken(j) \in terminating' <=> CompletionToken(j) \in terminating
        /\ CompletionToken(j) \in signaled' <=> CompletionToken(j) \in signaled
        /\ WorkToken(j).id \in finished' <=> WorkToken(j).id \in finished
        /\ CompletionToken(j).id \in finished' <=> CompletionToken(j).id \in finished
    BY DEF OnlyCall
  <2> QED BY <2>1, <2>2 DEF TokenPlaces
<1>5. \A j \in Calls : TokenPlaces(j)' BY <1>4
<1>6. terminated' => \E j \in Calls : called'[j] = 1
  <2>1. ASSUME terminated PROVE \E j \in Calls : called'[j] = 1
    <3>1. PICK j \in Calls : called[j] = 1 BY <2>1 DEF CallInv
    <3>2. called'[j] = 1 BY <3>1 DEF OnlyCall
    <3> QED BY <3>2
  <2> QED BY <2>1
<1>7. CallInv' BY <1>5, <1>6 DEF CallInv, CallTypes
<1> QED BY <1>3, <1>7

\* What a step of a call leaves alone.
CallFrame == UNCHANGED <<itemVars, itemPlace, handles, deleted, holdVars, sus>>

\* Of the tokens a step of call k moves x at most.
Shifts(k, x) ==
    /\ \A y : y # x => /\ y \in prepared' <=> y \in prepared
                       /\ y \in terminating' <=> y \in terminating
                       /\ y \in signaled' <=> y \in signaled
    /\ \A i : i # x.id => (i \in finished' <=> i \in finished)
    /\ \A j \in Calls \ {k} : /\ stage'[j] = stage[j] /\ level'[j] = level[j]
                              /\ called'[j] = called[j] /\ (j \in waits' <=> j \in waits)

LEMMA CallMoves ==
    ASSUME NEW k \in Calls, NEW x \in {WorkToken(k), CompletionToken(k)}, Shifts(k, x)
    PROVE  OnlyCall(k)
<1> SUFFICES ASSUME NEW j \in Calls \ {k}, NEW y \in {WorkToken(j), CompletionToken(j)}
             PROVE  /\ y \in prepared' <=> y \in prepared
                    /\ y \in terminating' <=> y \in terminating
                    /\ y \in signaled' <=> y \in signaled
                    /\ y.id \in finished' <=> y.id \in finished
  BY DEF OnlyCall, Shifts
<1>1. y # x /\ y.id # x.id BY TokenFacts
<1> QED BY <1>1 DEF Shifts

\* The references of a call, by its stage, its level, whether it waits, and whether Work has
\* signaled it.
Weigh(st, lv, waiting, due) ==
    (IF st \in Under THEN 1 ELSE 0)
      + (IF waiting /\ st \in {"begun"} \cup Unwinding THEN 1 ELSE 0)
      + (IF st \in Begun /\ lv # "over" THEN 1 ELSE 0)
      + (IF due /\ lv # "none" THEN 1 ELSE 0)
      + (IF lv \in {"called", "signaled"} THEN 1 ELSE 0)

LEMMA WeightParts ==
    ASSUME NEW k \in Calls
    PROVE  CallWeight(k) = Weigh(stage[k], level[k], k \in waits, WorkToken(k) \in signaled)
BY DEF CallWeight, Weigh, In, InCall, InWait, Entered, InWorkBack, InBack

LEMMA WeightPartsNext ==
    ASSUME NEW k \in Calls
    PROVE  CallWeight(k)' = Weigh(stage'[k], level'[k], k \in waits', WorkToken(k) \in signaled')
BY DEF CallWeight, Weigh, In, InCall, InWait, Entered, InWorkBack, InBack

LEMMA StageFacts ==
    /\ Under \subseteq Stages /\ Begun \subseteq Stages /\ Unwinding \subseteq Begun
    /\ "idle" \notin Under /\ "idle" \notin Begun /\ "idle" \notin Unwinding
    /\ "failed" \notin Under /\ "failed" \notin Begun /\ "failed" \notin Unwinding
    /\ "prepared" \in Under /\ "prepared" \notin Begun /\ "prepared" \notin Unwinding
    /\ "terminate" \in Under /\ "terminate" \notin Begun /\ "terminate" \notin Unwinding
    /\ "begun" \in Under /\ "begun" \in Begun /\ "begun" \notin Unwinding
    /\ "unwindWork" \in Under /\ "unwindWork" \in Begun /\ "unwindWork" \in Unwinding
    /\ "unwindCompletion" \in Under /\ "unwindCompletion" \in Begun /\ "unwindCompletion" \in Unwinding
    /\ "done" \notin Under /\ "done" \in Begun /\ "done" \notin Unwinding
    /\ "failed" \in Stages /\ CalledLevels = {"called", "signaled", "over"}
    /\ Levels = {"none", "chained", "called", "signaled", "over"}
BY DEF Under, Begun, Unwinding, Stages, CalledLevels, Levels

LEMMA PrepareSteps ==
    ASSUME CallInv, refs \in Int, NEW k \in Calls,
           (\E wait \in BOOLEAN : BeginTerminate(k, wait)) \/ PrepareCompletion(k) \/ PrepareFails(k)
    PROVE  /\ CallInv' /\ CallFrame /\ \E c \in Int : refs' = refs + c /\ CallRefs' = CallRefs + c
<1>0. CallTypes /\ TokenPlaces(k) BY DEF CallInv, CallTypes
<1>1. PICK w, x : w = WorkToken(k) /\ x = CompletionToken(k) OBVIOUS
<1>2. w \in Tokens /\ x \in Tokens /\ w # x /\ w.id # x.id /\ w.id \in 1 .. 2 * MaxTerms
  BY <1>1, TokenFacts
<1>3. CASE \E wait \in BOOLEAN : BeginTerminate(k, wait)
  <2>1. /\ stage[k] = "idle" /\ stage' = [stage EXCEPT ![k] = "prepared"]
        /\ prepared' = prepared \cup {w} /\ refs' = refs + 1
        /\ waits' = waits \/ waits' = waits \cup {k}
        /\ UNCHANGED <<terminating, signaled, finished, level, called, terminated>> /\ CallFrame
    BY <1>1, <1>3 DEF BeginTerminate, Prepare, Goto, CallFrame
  <2>2. /\ stage'[k] = "prepared" /\ \A j \in Calls \ {k} : stage'[j] = stage[j]
        /\ stage' \in [Calls -> Stages]
    BY <1>0, <2>1 DEF CallTypes, Stages
  <2>3. OnlyCall(k)
    <3>1. Shifts(k, w) BY <2>1, <2>2 DEF Shifts
    <3> QED BY <1>1, <3>1, CallMoves
  <2>4. CallTypes' BY <1>0, <1>2, <2>1, <2>2 DEF CallTypes
  <2>5. TokenPlaces(k)' BY <1>0, <1>1, <1>2, <2>1, <2>2, StageFacts DEF TokenPlaces
  <2>6. CallWeight(k)' = CallWeight(k) + 1
    <3>1. level[k] = "none" BY <1>0, <2>1, StageFacts DEF TokenPlaces
    <3> QED BY <2>1, <2>2, <3>1, WeightParts, WeightPartsNext DEF Weigh, Under, Begun, Unwinding
  <2> QED BY <2>1, <2>3, <2>4, <2>5, <2>6, CallStep
<1>4. CASE PrepareCompletion(k)
  <2>1. /\ stage[k] = "prepared" /\ stage' = [stage EXCEPT ![k] = "terminate"]
        /\ prepared' = prepared \cup {x} /\ refs' = refs + 0
        /\ UNCHANGED <<terminating, signaled, finished, waits, level, called, terminated>> /\ CallFrame
    BY <1>1, <1>4 DEF PrepareCompletion, Prepare, Goto, CallFrame, queueVars
  <2>2. /\ stage'[k] = "terminate" /\ \A j \in Calls \ {k} : stage'[j] = stage[j]
        /\ stage' \in [Calls -> Stages]
    BY <1>0, <2>1 DEF CallTypes, Stages
  <2>3. OnlyCall(k)
    <3>1. Shifts(k, x) BY <2>1, <2>2 DEF Shifts
    <3> QED BY <1>1, <3>1, CallMoves
  <2>4. CallTypes' BY <1>0, <1>2, <2>1, <2>2 DEF CallTypes
  <2>5. TokenPlaces(k)' BY <1>0, <1>1, <1>2, <2>1, <2>2, StageFacts DEF TokenPlaces
  <2>6. CallWeight(k)' = CallWeight(k) + 0
    <3>1. level[k] = "none" BY <1>0, <2>1, StageFacts DEF TokenPlaces
    <3> QED BY <2>1, <2>2, <3>1, WeightParts, WeightPartsNext DEF Weigh, Under, Begun, Unwinding
  <2> QED BY <2>1, <2>3, <2>4, <2>5, <2>6, CallStep
<1>5. CASE PrepareFails(k)
  <2>1. /\ stage[k] = "prepared" /\ stage' = [stage EXCEPT ![k] = "failed"]
        /\ prepared' = prepared \ {w} /\ finished' = finished \cup {w.id} /\ refs' = refs + (-1)
        /\ UNCHANGED <<terminating, signaled, waits, level, called, terminated>> /\ CallFrame
    BY <1>1, <1>5 DEF PrepareFails, RollBack, Goto, CallFrame
  <2>2. /\ stage'[k] = "failed" /\ \A j \in Calls \ {k} : stage'[j] = stage[j]
        /\ stage' \in [Calls -> Stages]
    BY <1>0, <2>1 DEF CallTypes, Stages
  <2>3. OnlyCall(k)
    <3>1. Shifts(k, w) BY <2>1, <2>2 DEF Shifts
    <3> QED BY <1>1, <3>1, CallMoves
  <2>4. CallTypes' BY <1>0, <1>2, <2>1, <2>2 DEF CallTypes
  <2>5. TokenPlaces(k)' BY <1>0, <1>1, <1>2, <2>1, <2>2, StageFacts DEF TokenPlaces
  <2>6. CallWeight(k)' = CallWeight(k) + (-1)
    <3>1. level[k] = "none" BY <1>0, <2>1, StageFacts DEF TokenPlaces
    <3> QED BY <2>1, <2>2, <3>1, WeightParts, WeightPartsNext DEF Weigh, Under, Begun, Unwinding
  <2> QED BY <2>1, <2>3, <2>4, <2>5, <2>6, CallStep
<1> QED BY <1>3, <1>4, <1>5

LEMMA TerminateSteps ==
    ASSUME CallInv, refs \in Int, NEW k \in Calls,
           \/ TerminateReturns(k) \/ Woken(k) \/ UnwoundWork(k) \/ WaitReturns(k)
    PROVE  /\ CallInv' /\ CallFrame /\ \E c \in Int : refs' = refs + c /\ CallRefs' = CallRefs + c
<1>0. CallTypes /\ TokenPlaces(k) BY DEF CallInv, CallTypes
<1>1. PICK w, x : w = WorkToken(k) /\ x = CompletionToken(k) OBVIOUS
<1>2. /\ w \in Tokens /\ x \in Tokens /\ w # x /\ w.id # x.id
      /\ w.id \in 1 .. 2 * MaxTerms /\ x.id \in 1 .. 2 * MaxTerms
  BY <1>1, TokenFacts
<1>3. CASE TerminateReturns(k)
  <2>1. /\ stage[k] = "begun" /\ stage' = [stage EXCEPT ![k] = "done"] /\ refs' = refs + (-1)
        /\ k \notin waits
        /\ UNCHANGED <<prepared, terminating, signaled, finished, waits, level, called, terminated>> /\ CallFrame
    BY <1>1, <1>3 DEF TerminateReturns, Goto, CallFrame, portVars, termVars
  <2>2. /\ stage'[k] = "done" /\ \A j \in Calls \ {k} : stage'[j] = stage[j]
        /\ stage' \in [Calls -> Stages]
    BY <1>0, <2>1 DEF CallTypes, Stages
  <2>3. OnlyCall(k)
    <3>1. Shifts(k, w) BY <2>1, <2>2 DEF Shifts
    <3> QED BY <1>1, <3>1, CallMoves
  <2>4. CallTypes' BY <1>0, <1>1, <1>2, <2>1, <2>2, StageFacts DEF CallTypes, TokenPlaces
  <2>5. TokenPlaces(k)' BY <1>0, <1>1, <1>2, <2>1, <2>2, StageFacts DEF TokenPlaces
  <2>6. CallWeight(k)' = CallWeight(k) + (-1)
    BY <2>1, <2>2, WeightParts, WeightPartsNext DEF Weigh, Under, Begun, Unwinding
  <2> QED BY <2>1, <2>3, <2>4, <2>5, <2>6, CallStep
<1>4. CASE Woken(k)
  <2>1. /\ stage[k] = "begun" /\ stage' = [stage EXCEPT ![k] = "unwindWork"] /\ refs' = refs + 0
        /\ k \in waits /\ terminated
        /\ UNCHANGED <<prepared, terminating, signaled, finished, waits, level, called, terminated>> /\ CallFrame
    BY <1>1, <1>4 DEF Woken, Goto, CallFrame, portVars, termVars, queueVars
  <2>2. /\ stage'[k] = "unwindWork" /\ \A j \in Calls \ {k} : stage'[j] = stage[j]
        /\ stage' \in [Calls -> Stages]
    BY <1>0, <2>1 DEF CallTypes, Stages
  <2>3. OnlyCall(k)
    <3>1. Shifts(k, w) BY <2>1, <2>2 DEF Shifts
    <3> QED BY <1>1, <3>1, CallMoves
  <2>4. CallTypes' BY <1>0, <1>1, <1>2, <2>1, <2>2, StageFacts DEF CallTypes, TokenPlaces
  <2>5. TokenPlaces(k)' BY <1>0, <1>1, <1>2, <2>1, <2>2, StageFacts DEF TokenPlaces
  <2>6. CallWeight(k)' = CallWeight(k) + 0
    BY <2>1, <2>2, WeightParts, WeightPartsNext DEF Weigh, Under, Begun, Unwinding
  <2> QED BY <2>1, <2>3, <2>4, <2>5, <2>6, CallStep
<1>5. stage[k] \in Unwinding => k \in waits BY <1>0 DEF TokenPlaces
<1>6. CASE UnwoundWork(k)
  <2>1. /\ stage[k] = "unwindWork" /\ stage' = [stage EXCEPT ![k] = "unwindCompletion"] /\ refs' = refs + 0
        /\ UNCHANGED <<prepared, terminating, signaled, finished, waits, level, called, terminated>> /\ CallFrame
    BY <1>1, <1>6 DEF UnwoundWork, Goto, CallFrame, portVars, termVars, queueVars
  <2>2. /\ stage'[k] = "unwindCompletion" /\ \A j \in Calls \ {k} : stage'[j] = stage[j]
        /\ stage' \in [Calls -> Stages]
    BY <1>0, <2>1 DEF CallTypes, Stages
  <2>3. OnlyCall(k)
    <3>1. Shifts(k, w) BY <2>1, <2>2 DEF Shifts
    <3> QED BY <1>1, <3>1, CallMoves
  <2>4. CallTypes' BY <1>0, <1>1, <1>2, <2>1, <2>2, StageFacts DEF CallTypes, TokenPlaces
  <2>5. TokenPlaces(k)' BY <1>0, <1>1, <1>2, <2>1, <2>2, StageFacts DEF TokenPlaces
  <2>6. CallWeight(k)' = CallWeight(k) + 0
    BY <2>1, <2>2, <1>5, WeightParts, WeightPartsNext DEF Weigh, Under, Begun, Unwinding
  <2> QED BY <2>1, <2>3, <2>4, <2>5, <2>6, CallStep
<1>7. CASE WaitReturns(k)
  <2>1. /\ stage[k] = "unwindCompletion" /\ stage' = [stage EXCEPT ![k] = "done"] /\ refs' = refs + (-2)
        /\ UNCHANGED <<prepared, terminating, signaled, finished, waits, level, called, terminated>> /\ CallFrame
    BY <1>1, <1>7 DEF WaitReturns, Goto, CallFrame, portVars, termVars
  <2>2. /\ stage'[k] = "done" /\ \A j \in Calls \ {k} : stage'[j] = stage[j]
        /\ stage' \in [Calls -> Stages]
    BY <1>0, <2>1 DEF CallTypes, Stages
  <2>3. OnlyCall(k)
    <3>1. Shifts(k, w) BY <2>1, <2>2 DEF Shifts
    <3> QED BY <1>1, <3>1, CallMoves
  <2>4. CallTypes' BY <1>0, <1>1, <1>2, <2>1, <2>2, StageFacts DEF CallTypes, TokenPlaces
  <2>5. TokenPlaces(k)' BY <1>0, <1>1, <1>2, <2>1, <2>2, StageFacts DEF TokenPlaces
  <2>6. CallWeight(k)' = CallWeight(k) + (-2)
    BY <2>1, <2>2, <1>5, WeightParts, WeightPartsNext DEF Weigh, Under, Begun, Unwinding
  <2> QED BY <2>1, <2>3, <2>4, <2>5, <2>6, CallStep
<1> QED BY <1>3, <1>4, <1>6, <1>7

LEMMA TerminateWorkStep ==
    ASSUME CallInv, refs \in Int, NEW k \in Calls, TerminateWork(k)
    PROVE  /\ CallInv' /\ CallFrame /\ \E c \in Int : refs' = refs + c /\ CallRefs' = CallRefs + c
<1>0. CallTypes /\ TokenPlaces(k) BY DEF CallInv, CallTypes
<1>1. PICK w, x : w = WorkToken(k) /\ x = CompletionToken(k) OBVIOUS
<1>2. /\ w \in Tokens /\ x \in Tokens /\ w # x /\ w.id # x.id
      /\ w.id \in 1 .. 2 * MaxTerms /\ x.id \in 1 .. 2 * MaxTerms
  BY <1>1, TokenFacts
<1>3. PICK d \in Int : d = TerminationRefs(k \in waits) BY DEF TerminationRefs
<1>4. /\ stage[k] = "terminate" /\ stage' = [stage EXCEPT ![k] = "begun"] /\ refs' = refs + d
      /\ prepared' = prepared \ {w} /\ terminating' = terminating \cup {w}
      /\ UNCHANGED <<signaled, finished, waits, level, called, terminated>> /\ CallFrame
  BY <1>1, <1>3 DEF TerminateWork, BeginTermination, Goto, CallFrame
<1>5. /\ stage'[k] = "begun" /\ \A j \in Calls \ {k} : stage'[j] = stage[j]
      /\ stage' \in [Calls -> Stages]
  BY <1>0, <1>4 DEF CallTypes, Stages
<1>6. level[k] = "none" /\ w \notin signaled BY <1>0, <1>1, <1>4, StageFacts DEF TokenPlaces
<1>7. OnlyCall(k)
  <2>1. Shifts(k, w) BY <1>4, <1>5 DEF Shifts
  <2> QED BY <1>1, <2>1, CallMoves
<1>8. CallTypes' BY <1>0, <1>1, <1>2, <1>4, <1>5, <1>6 DEF CallTypes
<1>9. TokenPlaces(k)' BY <1>0, <1>1, <1>2, <1>4, <1>5, <1>6, StageFacts DEF TokenPlaces
<1>10. CallWeight(k)' = CallWeight(k) + d
  BY <1>3, <1>4, <1>5, <1>6, WeightParts, WeightPartsNext
  DEF Weigh, Under, Begun, Unwinding, TerminationRefs
<1> QED BY <1>4, <1>7, <1>8, <1>9, <1>10, CallStep

LEMMA CallbackSteps ==
    ASSUME CallInv, refs \in Int, NEW k \in Calls,
           \/ WorkTerminated(k) \/ CompletionTerminated(k) \/ SetTerminated(k)
           \/ CompletionCallbackReturns(k)
    PROVE  /\ CallInv' /\ CallFrame /\ \E c \in Int : refs' = refs + c /\ CallRefs' = CallRefs + c
<1>0. CallTypes /\ TokenPlaces(k) BY DEF CallInv, CallTypes
<1>1. PICK w, x : w = WorkToken(k) /\ x = CompletionToken(k) OBVIOUS
<1>2. /\ w \in Tokens /\ x \in Tokens /\ w # x /\ w.id # x.id
      /\ w.id \in 1 .. 2 * MaxTerms /\ x.id \in 1 .. 2 * MaxTerms
  BY <1>1, TokenFacts
<1>3. CASE WorkTerminated(k)
  <2>1. /\ level[k] = "none" /\ level' = [level EXCEPT ![k] = "chained"] /\ refs' = refs + 1
        /\ w \in signaled /\ x \in prepared
        /\ prepared' = prepared \ {x} /\ terminating' = terminating \cup {x}
        /\ UNCHANGED <<signaled, finished, stage, waits, called, terminated>> /\ CallFrame
    BY <1>1, <1>3 DEF WorkTerminated, SetLevel, CallbackKeeps, CallFrame, BeginTermination
  <2>2. /\ level'[k] = "chained" /\ \A j \in Calls \ {k} : level'[j] = level[j]
        /\ level' \in [Calls -> Levels]
    BY <1>0, <2>1 DEF CallTypes, Levels
  <2>3. stage[k] \in Begun /\ x \notin signaled BY <1>0, <1>1, <2>1 DEF TokenPlaces
  <2>4. w \notin terminating BY <1>0, <2>1 DEF CallTypes
  <2>5. OnlyCall(k)
    <3>1. Shifts(k, x) BY <1>0, <2>1, <2>2, <2>4 DEF Shifts, CallTypes
    <3> QED BY <1>1, <3>1, CallMoves
  <2>6. CallTypes' BY <1>0, <1>1, <1>2, <2>1, <2>2, <2>3, <2>4 DEF CallTypes
  <2>7. TokenPlaces(k)' BY <1>0, <1>1, <1>2, <2>1, <2>2, <2>3, <2>4, StageFacts DEF TokenPlaces
  <2>8. CallWeight(k)' = CallWeight(k) + 1
    BY <1>1, <1>2, <2>1, <2>2, <2>3, <2>4, WeightParts, WeightPartsNext DEF Weigh, Under, Begun, Unwinding
  <2> QED BY <1>0, <2>1, <2>3, <2>4, <2>5, <2>6, <2>7, <2>8, CallStep
<1>4. CASE CompletionTerminated(k)
  <2>1. /\ level[k] = "chained" /\ level' = [level EXCEPT ![k] = "called"] /\ refs' = refs + 1
        /\ x \in signaled /\ called' = [called EXCEPT ![k] = @ + 1]
        /\ UNCHANGED <<prepared, terminating, signaled, finished, stage, waits, terminated>> /\ CallFrame
    BY <1>1, <1>4 DEF CompletionTerminated, SetLevel, CallbackKeeps, CallFrame, CompletionDue, portVars, termVars
  <2>2. /\ level'[k] = "called" /\ \A j \in Calls \ {k} : level'[j] = level[j]
        /\ level' \in [Calls -> Levels]
    BY <1>0, <2>1 DEF CallTypes, Levels
  <2>3. stage[k] \in Begun /\ called[k] = 0 BY <1>0, <2>1 DEF TokenPlaces, CalledLevels
  <2>4. /\ x \notin terminating /\ called'[k] = 1 /\ called' \in [Calls -> 0 .. 1]
        /\ \A j \in Calls \ {k} : called'[j] = called[j]
    BY <1>0, <2>1, <2>3 DEF CallTypes
  <2>5. OnlyCall(k)
    <3>1. Shifts(k, x) BY <1>0, <2>1, <2>2, <2>4 DEF Shifts, CallTypes
    <3> QED BY <1>1, <3>1, CallMoves
  <2>6. CallTypes' BY <1>0, <1>1, <1>2, <2>1, <2>2, <2>3, <2>4 DEF CallTypes
  <2>7. TokenPlaces(k)' BY <1>0, <1>1, <1>2, <2>1, <2>2, <2>3, <2>4, StageFacts DEF TokenPlaces
  <2>8. CallWeight(k)' = CallWeight(k) + 1
    BY <1>1, <1>2, <2>1, <2>2, <2>3, <2>4, WeightParts, WeightPartsNext DEF Weigh, Under, Begun, Unwinding
  <2> QED BY <1>0, <2>1, <2>3, <2>4, <2>5, <2>6, <2>7, <2>8, CallStep
<1>5. CASE SetTerminated(k)
  <2>1. /\ level[k] = "called" /\ level' = [level EXCEPT ![k] = "signaled"] /\ refs' = refs + 0
        /\ terminated'
        /\ terminated' \in BOOLEAN
        /\ UNCHANGED <<prepared, terminating, signaled, finished, stage, waits, called>> /\ CallFrame
    BY <1>1, <1>5 DEF SetTerminated, SetLevel, CallbackKeeps, CallFrame, FlagSet, portVars, termVars
  <2>2. /\ level'[k] = "signaled" /\ \A j \in Calls \ {k} : level'[j] = level[j]
        /\ level' \in [Calls -> Levels]
    BY <1>0, <2>1 DEF CallTypes, Levels
  <2>3. stage[k] \in Begun /\ called[k] = 1 BY <1>0, <2>1 DEF TokenPlaces, CalledLevels
  <2>4. x \in signaled BY <1>0, <1>1, <2>1 DEF TokenPlaces
  <2>5. OnlyCall(k)
    <3>1. Shifts(k, x) BY <1>0, <2>1, <2>2, <2>4 DEF Shifts, CallTypes
    <3> QED BY <1>1, <3>1, CallMoves
  <2>6. CallTypes' BY <1>0, <1>1, <1>2, <2>1, <2>2, <2>3, <2>4 DEF CallTypes
  <2>7. TokenPlaces(k)' BY <1>0, <1>1, <1>2, <2>1, <2>2, <2>3, <2>4, StageFacts DEF TokenPlaces
  <2>8. CallWeight(k)' = CallWeight(k) + 0
    BY <1>1, <1>2, <2>1, <2>2, <2>3, <2>4, WeightParts, WeightPartsNext DEF Weigh, Under, Begun, Unwinding
  <2> QED BY <1>0, <2>1, <2>3, <2>4, <2>5, <2>6, <2>7, <2>8, CallStep
<1>6. CASE CompletionCallbackReturns(k)
  <2>1. /\ level[k] = "signaled" /\ level' = [level EXCEPT ![k] = "over"] /\ refs' = refs + (-2)
        /\ x \in signaled /\ signaled' = signaled \ {x} /\ finished' = finished \cup {x.id}
        /\ UNCHANGED <<prepared, terminating, stage, waits, called, terminated>> /\ CallFrame
    BY <1>1, <1>6 DEF CompletionCallbackReturns, SetLevel, CallbackKeeps, CallFrame, CalledBack
  <2>2. /\ level'[k] = "over" /\ \A j \in Calls \ {k} : level'[j] = level[j]
        /\ level' \in [Calls -> Levels]
    BY <1>0, <2>1 DEF CallTypes, Levels
  <2>3. stage[k] \in Begun /\ called[k] = 1 BY <1>0, <2>1 DEF TokenPlaces, CalledLevels
  <2>4. x \notin terminating BY <1>0, <2>1 DEF CallTypes
  <2>5. OnlyCall(k)
    <3>1. Shifts(k, x) BY <1>0, <2>1, <2>2, <2>4 DEF Shifts, CallTypes
    <3> QED BY <1>1, <3>1, CallMoves
  <2>6. CallTypes' BY <1>0, <1>1, <1>2, <2>1, <2>2, <2>3, <2>4 DEF CallTypes
  <2>7. TokenPlaces(k)' BY <1>0, <1>1, <1>2, <2>1, <2>2, <2>3, <2>4, StageFacts DEF TokenPlaces
  <2>8. CallWeight(k)' = CallWeight(k) + (-2)
    BY <1>1, <1>2, <2>1, <2>2, <2>3, <2>4, WeightParts, WeightPartsNext DEF Weigh, Under, Begun, Unwinding
  <2> QED BY <1>0, <2>1, <2>3, <2>4, <2>5, <2>6, <2>7, <2>8, CallStep
<1> QED BY <1>3, <1>4, <1>5, <1>6

LEMMA WorkCallbackStep ==
    ASSUME CallInv, refs \in Int, NEW k \in Calls, WorkCallbackReturns(k)
    PROVE  /\ CallInv' /\ CallFrame /\ \E c \in Int : refs' = refs + c /\ CallRefs' = CallRefs + c
<1>0. CallTypes /\ TokenPlaces(k) BY DEF CallInv, CallTypes
<1>1. PICK w, x : w = WorkToken(k) /\ x = CompletionToken(k) OBVIOUS
<1>2. /\ w \in Tokens /\ x \in Tokens /\ w # x /\ w.id # x.id
      /\ w.id \in 1 .. 2 * MaxTerms /\ x.id \in 1 .. 2 * MaxTerms
  BY <1>1, TokenFacts
<1>3. /\ level[k] # "none" /\ w \in signaled /\ refs' = refs + (-1)
      /\ signaled' = signaled \ {w} /\ finished' = finished \cup {w.id}
      /\ UNCHANGED <<prepared, terminating, stage, waits, level, called, terminated>> /\ CallFrame
  BY <1>1 DEF WorkCallbackReturns, CalledBack, CallbackKeeps, CallFrame, callPlace
<1>4. OnlyCall(k)
  <2>1. Shifts(k, w) BY <1>3 DEF Shifts
  <2> QED BY <1>1, <2>1, CallMoves
<1>5. CallTypes' BY <1>0, <1>2, <1>3 DEF CallTypes
<1>6. TokenPlaces(k)' BY <1>0, <1>1, <1>2, <1>3 DEF TokenPlaces
<1>7. CallWeight(k)' = CallWeight(k) + (-1)
  BY <1>1, <1>3, WeightParts, WeightPartsNext DEF Weigh, Under, Begun, Unwinding
<1> QED BY <1>3, <1>4, <1>5, <1>6, <1>7, CallStep

\* A port signals terminations: their callbacks are due, which nobody has entered yet.
LEMMA PortSignalsStep ==
    ASSUME CallInv, NEW port \in Ports, PortSignals(port)
    PROVE  CallInv' /\ CallFrame /\ UNCHANGED refs /\ CallRefs' = CallRefs
<1>0. CallTypes /\ \A k \in Calls : TokenPlaces(k) BY DEF CallInv, CallTypes
<1>1. PICK hit : hit \subseteq terminating /\ Signal(hit) BY DEF PortSignals
<1>2. /\ terminating' = terminating \ hit /\ signaled' = signaled \cup hit
      /\ UNCHANGED <<prepared, finished, stage, waits, level, called, terminated, refs>> /\ CallFrame
  BY <1>1 DEF Signal, PortSignals, CallFrame, queueVars, itemPlace, callPlace
<1>3. CallTypes' BY <1>0, <1>1, <1>2 DEF CallTypes
<1>4. ASSUME NEW k \in Calls PROVE TokenPlaces(k)'
  <2>1. TokenPlaces(k) BY <1>0
  <2> QED BY <1>1, <1>2, <2>1 DEF TokenPlaces
<1>5. CallInv' BY <1>2, <1>3, <1>4 DEF CallInv, CallTypes
<1>6. ASSUME NEW k \in Calls, level[k] # "none"
      PROVE  WorkToken(k) \in signaled' <=> WorkToken(k) \in signaled
  <2>1. TokenPlaces(k) BY <1>0
  <2>2. WorkToken(k) \notin hit BY <1>1, <1>6, <2>1 DEF TokenPlaces
  <2> QED BY <1>2, <2>2
<1>7. InWorkBack' = InWorkBack BY <1>2, <1>6 DEF InWorkBack
<1>8. /\ InCall' = InCall /\ InWait' = InWait /\ Entered' = Entered /\ InBack' = InBack
  BY <1>2 DEF InCall, InWait, Entered, InBack
<1>9. CallRefs' = CallRefs BY <1>7, <1>8 DEF CallRefs
<1> QED BY <1>2, <1>5, <1>9

\* Every step of a call, of its callbacks and of the ports.
CallAct(k) == (\E wait \in BOOLEAN : BeginTerminate(k, wait)) \/ Call(k) \/ Callback(k)

LEMMA CallSteps ==
    ASSUME CallInv, refs \in Int, NEW k \in Calls, CallAct(k)
    PROVE  /\ CallInv' /\ CallFrame /\ \E c \in Int : refs' = refs + c /\ CallRefs' = CallRefs + c
BY PrepareSteps, TerminateSteps, TerminateWorkStep, CallbackSteps, WorkCallbackStep
DEF CallAct, Call, Callback

-----------------------------------------------------------------------------
(* Nobody uses a queue without references.                                 *)

LEMMA CallCounts ==
    ASSUME CallInv
    PROVE  /\ CallRefs \in Nat
           /\ CallRefs = 0 => /\ \A k \in Calls : /\ stage[k] \notin Under
                                                  /\ stage[k] \in Begun => level[k] = "over"
                                                  /\ level[k] \notin {"called", "signaled"}
                                                  /\ WorkToken(k) \in signaled => level[k] = "none"
<1>0. /\ InCall \subseteq Calls /\ InWait \subseteq Calls /\ Entered \subseteq Calls
      /\ InWorkBack \subseteq Calls /\ InBack \subseteq Calls
  BY DEF CallInv, InCall, InWait, Entered, InWorkBack, InBack
<1>1. /\ IsFiniteSet(InCall) /\ IsFiniteSet(InWait) /\ IsFiniteSet(Entered)
      /\ IsFiniteSet(InWorkBack) /\ IsFiniteSet(InBack)
  BY <1>0, CallsFinite
<1>2. /\ N(InCall) \in Nat /\ N(InWait) \in Nat /\ N(Entered) \in Nat
      /\ N(InWorkBack) \in Nat /\ N(InBack) \in Nat
  BY <1>1, FS_CardinalityType DEF N
<1>3. CallRefs \in Nat BY <1>2 DEF CallRefs
<1>4. ASSUME CallRefs = 0 PROVE InCall = {} /\ Entered = {} /\ InWorkBack = {} /\ InBack = {}
  <2>1. N(InCall) = 0 /\ N(Entered) = 0 /\ N(InWorkBack) = 0 /\ N(InBack) = 0
    BY <1>2, <1>4 DEF CallRefs
  <2> QED BY <1>1, <2>1, CountNone
<1> QED BY <1>3, <1>4 DEF InCall, Entered, InWorkBack, InBack

LEMMA ItemCounts ==
    ASSUME ItemInv
    PROVE  /\ ItemRefs \in Nat
           /\ ItemRefs = 0 => /\ accepted = {} /\ ready = {} /\ running = {} /\ submitting = {}
                              /\ leaving = {}
<1>1. /\ IsFiniteSet(accepted) /\ IsFiniteSet(ready) /\ IsFiniteSet(running)
      /\ IsFiniteSet(submitting) /\ IsFiniteSet(leaving)
  BY DEF ItemInv
<1>2. /\ N(accepted) \in Nat /\ N(ready) \in Nat /\ N(running) \in Nat
      /\ N(submitting) \in Nat /\ N(leaving) \in Nat
  BY <1>1, FS_CardinalityType DEF N
<1>3. ItemRefs \in Nat BY <1>2 DEF ItemRefs
<1>4. ASSUME ItemRefs = 0
      PROVE  accepted = {} /\ ready = {} /\ running = {} /\ submitting = {} /\ leaving = {}
  <2>1. N(accepted) = 0 /\ N(ready) = 0 /\ N(running) = 0 /\ N(submitting) = 0 /\ N(leaving) = 0
    BY <1>2, <1>4 DEF ItemRefs
  <2> QED BY <1>1, <2>1, CountNone
<1> QED BY <1>3, <1>4

LEMMA CountsUsers ==
    ASSUME ItemInv, CallInv, HoldInv, Balance
    PROVE  refs \in Nat /\ (refs = 0 => ~InUse)
<1>1. handles \in Nat
  <2>1. MaxHandles \in Nat BY TaskQueueBounds
  <2> QED BY <2>1 DEF HoldInv
<1>2. PICK i \in Nat, c \in Nat : i = ItemRefs /\ c = CallRefs BY ItemCounts, CallCounts
<1>3. refs = handles + i + c BY <1>2 DEF Balance
<1>4. refs \in Nat BY <1>1, <1>2, <1>3
<1>5. ASSUME refs = 0 PROVE ~InUse
  <2>1. handles = 0 /\ ItemRefs = 0 /\ CallRefs = 0 BY <1>1, <1>2, <1>3, <1>5
  <2>2. accepted = {} /\ ready = {} /\ running = {} /\ submitting = {} /\ leaving = {}
    BY <2>1, ItemCounts
  <2>3. \A k \in Calls : /\ stage[k] \notin Under /\ level[k] \notin {"called", "signaled"}
                         /\ stage[k] \in Begun => level[k] = "over"
                         /\ WorkToken(k) \in signaled => level[k] = "none"
    BY <2>1, CallCounts
  <2>4. \A k \in Calls : stage[k] \in {"idle", "failed", "done"} BY <2>3 DEF CallInv, Stages, Under
  <2>5. ASSUME NEW k \in Calls
        PROVE  /\ WorkToken(k) \notin prepared \cup terminating \cup signaled
               /\ CompletionToken(k) \notin prepared \cup terminating \cup signaled
    <3>1. TokenPlaces(k) BY DEF CallInv
    <3>2. /\ stage[k] \in Begun => level[k] = "over" /\ WorkToken(k) \notin signaled
      BY <2>3
    <3>3. stage[k] \notin Begun => level[k] = "none" BY <3>1 DEF TokenPlaces
    <3>4. stage[k] \notin {"prepared", "terminate"} BY <2>4
    <3> QED BY <3>1, <3>2, <3>3, <3>4 DEF TokenPlaces
  <2>6. prepared \cup terminating \cup signaled = {}
    <3>1. prepared \cup terminating \cup signaled \subseteq Tokens BY DEF CallInv
    <3> QED BY <2>5, <3>1, TokenFacts
  <2>7. \A s \in Suspenders : ~Holding(s) BY <2>1 DEF HoldInv
  <2> QED BY <2>1, <2>2, <2>4, <2>6, <2>7 DEF InUse
<1> QED BY <1>4, <1>5

\* Whoever takes a step uses the queue, but for the thread that deletes it.
LEMMA StepUses ==
    ASSUME CallInv, Next
    PROVE  InUse \/ Rundown
<1>1. CASE Application
  BY <1>1 DEF Application, DuplicateHandle, CloseHandle, Submit, BeginTerminate,
     SuspendTermination, MayCall, InUse
<1>2. CASE Submission BY <1>2 DEF Submission, SubmitFails, Append, Enqueue, SubmitReturns, InUse
<1>3. CASE Execution
  BY <1>3 DEF Execution, Run, Invoke, CallbackReturns, Return, ReleaseEntry, InUse
<1>4. ASSUME NEW k \in Calls, Call(k) PROVE InUse
  BY <1>4 DEF Call, PrepareCompletion, PrepareFails, TerminateWork, TerminateReturns, Woken,
     UnwoundWork, WaitReturns, InUse
<1>5. ASSUME NEW k \in Calls, Callback(k) PROVE InUse
  <2>1. level[k] \in {"called", "signaled"} => CompletionToken(k) \in signaled
    BY DEF CallInv, TokenPlaces
  <2> QED BY <1>5, <2>1 DEF Callback, WorkTerminated, WorkCallbackReturns, CalledBack,
       CompletionTerminated, CompletionDue, SetTerminated, CompletionCallbackReturns, InUse
<1>6. ASSUME NEW port \in Ports, PortSignals(port) PROVE InUse
  BY <1>6 DEF PortSignals, Signal, InUse
<1>7. ASSUME NEW s \in Suspenders, Suspension(s) PROVE InUse
  BY <1>7 DEF Suspension, Suspended, SuspendFails, ResumeTermination, ResumeReturns, Holding, InUse
<1> QED BY <1>1, <1>2, <1>3, <1>4, <1>5, <1>6, <1>7 DEF Next, System

-----------------------------------------------------------------------------
(* Suspensions.                                                            *)

SusFrame == UNCHANGED <<status, itemVars, termVars, queueVars, itemPlace, callPlace>>

LEMMA SusMoves ==
    ASSUME HoldInv, NEW s \in Suspenders, NEW l \in Places, SetSus(s, l)
    PROVE  /\ sus' \in [Suspenders -> Places] /\ sus'[s] = l
           /\ \A r \in Suspenders \ {s} : sus'[r] = sus[r]
           /\ N(Suspending) \in Nat
           /\ N(Suspending') = N(Suspending) + (IF l = "held" THEN 1 ELSE 0)
                                 - (IF sus[s] = "held" THEN 1 ELSE 0)
<1>1. /\ sus' \in [Suspenders -> Places] /\ sus'[s] = l /\ \A r \in Suspenders \ {s} : sus'[r] = sus[r]
  BY DEF HoldInv, SetSus
<1>2. IsFiniteSet(Suspending)
  <2>1. IsFiniteSet(Suspenders) BY TaskQueueBounds
  <2>2. Suspending \subseteq Suspenders BY DEF Suspending
  <2> QED BY <2>1, <2>2, FS_Subset
<1>3. \A r : r # s => (r \in Suspending' <=> r \in Suspending) BY <1>1 DEF Suspending
<1>4. N(Suspending) \in Nat /\ N(Suspending') = N(Suspending) + In(s, Suspending') - In(s, Suspending)
  BY <1>2, <1>3, CountChange
<1>5. /\ In(s, Suspending') = (IF l = "held" THEN 1 ELSE 0)
      /\ In(s, Suspending) = (IF sus[s] = "held" THEN 1 ELSE 0)
  BY <1>1 DEF In, Suspending
<1> QED BY <1>1, <1>4, <1>5

LEMMA SuspensionSteps ==
    ASSUME HoldInv, NEW s \in Suspenders, SuspendTermination(s) \/ Suspension(s)
    PROVE  /\ HoldInv' /\ SusFrame
           /\ weak \subseteq weak'
           /\ held'["Work"] > held["Work"] => Open("Work")
<1>0. /\ held \in [Ports -> Nat] /\ held["Completion"] = 0 /\ held["Work"] = N(Suspending)
      /\ weak \subseteq Ports /\ \A r \in Suspenders : Holding(r) => handles > 0
      /\ handles \in 0 .. MaxHandles
  BY DEF HoldInv
<1>1. "Work" \in Ports /\ "Completion" \in Ports BY DEF Ports
<1>2. AfterRemove(s) \in {"resuming", "done"} BY DEF AfterRemove
<1>3. CASE SuspendTermination(s)
  <2>1. /\ sus[s] = "idle" /\ SetSus(s, "verify") /\ handles > 0 /\ SusFrame /\ UNCHANGED held
        /\ weak' = weak \/ weak' = weak \cup {"Work"}
    BY <1>3 DEF SuspendTermination, MayCall, Weaken, SusFrame, portVars, holdVars
  <2>2. "verify" \in Places BY DEF Places
  <2>3. /\ sus' \in [Suspenders -> Places] /\ N(Suspending') = N(Suspending)
    BY <2>1, <2>2, SusMoves
  <2>4. HoldInv' BY <1>0, <1>1, <2>1, <2>3 DEF HoldInv, SusFrame, queueVars
  <2> QED BY <1>0, <1>1, <2>1, <2>4
<1>4. CASE Suspended(s)
  <2>1. /\ sus[s] = "verify" /\ SetSus(s, "held") /\ SusFrame /\ Open("Work")
        /\ held' = [held EXCEPT !["Work"] = @ + 1] /\ weak' = weak
    BY <1>4 DEF Suspended, Hold, SusFrame
  <2>2. "held" \in Places BY DEF Places
  <2>3. /\ sus' \in [Suspenders -> Places] /\ N(Suspending) \in Nat
        /\ N(Suspending') = N(Suspending) + 1
    BY <2>1, <2>2, SusMoves
  <2>4. /\ held' \in [Ports -> Nat] /\ held'["Completion"] = 0 /\ held'["Work"] = held["Work"] + 1
    BY <1>0, <1>1, <2>1
  <2>5. handles > 0 BY <1>0, <2>1 DEF Holding
  <2>6. HoldInv' BY <1>0, <2>1, <2>3, <2>4, <2>5 DEF HoldInv, SusFrame, queueVars
  <2> QED BY <2>1, <2>6
<1>5. CASE SuspendFails(s) \/ ResumeReturns(s)
  <2>1. PICK l \in {"resuming", "done"} :
           /\ sus[s] \in {"verify", "resuming"} /\ SetSus(s, l) /\ SusFrame /\ UNCHANGED <<held, weak>>
    BY <1>2, <1>5 DEF SuspendFails, ResumeReturns, SusFrame, portVars, holdVars
  <2>2. l \in Places /\ l # "held" /\ sus[s] # "held" BY <2>1 DEF Places
  <2>3. /\ sus' \in [Suspenders -> Places] /\ N(Suspending') = N(Suspending)
    BY <2>1, <2>2, SusMoves
  <2>4. handles > 0 BY <1>0, <2>1 DEF Holding
  <2>5. HoldInv' BY <1>0, <2>1, <2>3, <2>4 DEF HoldInv, SusFrame, queueVars
  <2> QED BY <1>0, <1>1, <2>1, <2>5
<1>6. CASE ResumeTermination(s)
  <2>1. PICK l \in {"resuming", "done"} :
           /\ sus[s] = "held" /\ SetSus(s, l) /\ SusFrame /\ held["Work"] > 0
           /\ held' = [held EXCEPT !["Work"] = @ - 1] /\ weak' = weak
    BY <1>2, <1>6 DEF ResumeTermination, Unhold, SusFrame
  <2>2. l \in Places /\ l # "held" BY <2>1 DEF Places
  <2>3. /\ sus' \in [Suspenders -> Places] /\ N(Suspending) \in Nat
        /\ N(Suspending') = N(Suspending) - 1
    BY <2>1, <2>2, SusMoves
  <2>4. /\ held' \in [Ports -> Nat] /\ held'["Completion"] = 0 /\ held'["Work"] = held["Work"] - 1
    BY <1>0, <1>1, <2>1
  <2>5. handles > 0 BY <1>0, <2>1 DEF Holding
  <2>6. HoldInv' BY <1>0, <2>1, <2>3, <2>4, <2>5 DEF HoldInv, SusFrame, queueVars
  <2> QED BY <1>0, <1>1, <2>1, <2>4, <2>6
<1> QED BY <1>3, <1>4, <1>5, <1>6 DEF Suspension

-----------------------------------------------------------------------------
(* What a signaled termination means.                                      *)

LEMMA ItemDrains ==
    ASSUME NEW e,
           \/ SubmitFails(e) \/ Append(e) \/ SubmitReturns(e)
           \/ Run(e) \/ CallbackReturns(e) \/ ReleaseEntry(e)
    PROVE  \A p \in Ports : WasSignaled(p) /\ Drained(p) => Drained(p)'
<1> SUFFICES ASSUME NEW p \in Ports, WasSignaled(p), Drained(p),
                    NEW y \in ready' \cup running', y.ctx = p
             PROVE  y.id \in late'
  BY DEF Drained
<1>1. CASE Append(e)
  <2>1. /\ ready' = ready \cup {e} /\ running' = running
        /\ late' = late \cup {e.id} \/ (~WasSignaled(e.ctx) /\ late' = late)
    BY <1>1 DEF Append, Enqueue
  <2>2. CASE y = e BY <2>1, <2>2
  <2>3. CASE y # e BY <2>1, <2>3 DEF Drained
  <2> QED BY <2>2, <2>3
<1>2. CASE ~Append(e)
  <2>1. ready' \cup running' \subseteq ready \cup running /\ late' = late
    BY <1>2 DEF SubmitFails, Refuse, SubmitReturns, Run, Invoke, CallbackReturns, Return, ReleaseEntry,
       portVars, itemVars
  <2> QED BY <2>1 DEF Drained
<1> QED BY <1>1, <1>2

LEMMA SignalSame ==
    ASSUME SignalInv, refs # 0, UNCHANGED <<status, signaled, finished, stage, level>>,
           \A p \in Ports : WasSignaled(p) /\ Drained(p) => Drained(p)',
           WasSignaled("Work") /\ Loose("Work") => Loose("Work")'
    PROVE  SignalInv'
<1>1. \A p : WasSignaled(p)' <=> WasSignaled(p) BY DEF WasSignaled
<1>2. status' \in [Ports -> Statuses] BY DEF SignalInv
<1>3. \A p \in Ports : WasSignaled(p)' => status'[p] \in Closed /\ Drained(p)' BY <1>1 DEF SignalInv
<1>4. WasSignaled("Work")' => Loose("Work")' BY <1>1 DEF SignalInv
<1>5. status'["Completion"] \in Closed => \E k \in Calls : level'[k] # "none" BY DEF SignalInv
<1> QED BY <1>2, <1>3, <1>4, <1>5 DEF SignalInv

\* A step of a call signals nothing, reopens nothing, and closes the Completion port only
\* from the callback of a termination of the Work port.
CallSignals ==
    /\ status' \in [Ports -> Statuses]
    /\ \A p \in Ports : status[p] \in Closed => status'[p] \in Closed
    /\ status'["Completion"] \in Closed =>
          status["Completion"] \in Closed \/ \E k \in Calls : level'[k] # "none"
    /\ \A k \in Calls : level[k] # "none" => level'[k] # "none"
    /\ signaled' \subseteq signaled
    /\ \A j \in Calls : stage[j] = "failed" => stage'[j] = "failed"
    /\ \A j \in Calls : \A x \in {WorkToken(j), CompletionToken(j)} :
          x.id \in finished' => x.id \in finished \/ x \in signaled \/ stage'[j] = "failed"

LEMMA CallSignalsStep ==
    ASSUME SignalInv, refs # 0, CallSignals, UNCHANGED <<ready, running, late, held, weak>>
    PROVE  SignalInv'
<1>1. ASSUME NEW p, WasSignaled(p)' PROVE WasSignaled(p)
  <2>0. PICK k \in Calls : \E x \in {WorkToken(k), CompletionToken(k)} :
           x.ctx = p /\ (x \in signaled' \/ (x.id \in finished' /\ stage'[k] # "failed"))
    BY <1>1 DEF WasSignaled
  <2>1. PICK x \in {WorkToken(k), CompletionToken(k)} :
           x.ctx = p /\ (x \in signaled' \/ (x.id \in finished' /\ stage'[k] # "failed"))
    BY <2>0
  <2>2. x \in signaled \/ (x.id \in finished /\ stage[k] # "failed") BY <2>1 DEF CallSignals
  <2> QED BY <2>1, <2>2 DEF WasSignaled
<1>2. \A p : Drained(p)' <=> Drained(p) BY DEF Drained
<1>3. \A p : Loose(p)' <=> Loose(p) BY DEF Loose
<1>4. \A p \in Ports : WasSignaled(p)' => status'[p] \in Closed /\ Drained(p)'
  BY <1>1, <1>2 DEF SignalInv, CallSignals
<1>5. WasSignaled("Work")' => Loose("Work")' BY <1>1, <1>3 DEF SignalInv
<1>6. status'["Completion"] \in Closed => \E k \in Calls : level'[k] # "none"
  BY DEF SignalInv, CallSignals
<1>7. status' \in [Ports -> Statuses] BY DEF CallSignals
<1> QED BY <1>4, <1>5, <1>6, <1>7 DEF SignalInv

LEMMA CallActSignals ==
    ASSUME SignalInv, CallInv, NEW k \in Calls, CallAct(k)
    PROVE  CallSignals
<1>0. /\ status \in [Ports -> Statuses] /\ stage \in [Calls -> Stages] /\ level \in [Calls -> Levels]
      /\ TokenPlaces(k)
  BY DEF SignalInv, CallInv
<1>1. PICK w, x : w = WorkToken(k) /\ x = CompletionToken(k) OBVIOUS
<1>2. w.ctx = "Work" /\ x.ctx = "Completion" /\ "Work" \in Ports /\ "Completion" \in Ports
  BY <1>1, TokenFacts DEF Ports
<1>3. /\ \A l : Goto(k, l) => \A j \in Calls : stage'[j] = IF j = k THEN l ELSE stage[j]
      /\ \A l : SetLevel(k, l) => \A j \in Calls : level'[j] = IF j = k THEN l ELSE level[j]
  BY <1>0 DEF Goto, SetLevel
<1>4. ASSUME NEW y \in {w, x}, Prepare(y)
      PROVE  /\ status' \in [Ports -> Statuses] /\ UNCHANGED <<signaled, finished>>
             /\ \A p \in Ports : status'[p] \in Closed <=> status[p] \in Closed
  BY <1>0, <1>2, <1>4 DEF Prepare, Closed, Statuses
<1>5. CASE (\E wait \in BOOLEAN : BeginTerminate(k, wait)) \/ PrepareCompletion(k)
  <2>1. /\ status' \in [Ports -> Statuses] /\ UNCHANGED <<signaled, finished>>
        /\ \A p \in Ports : status'[p] \in Closed <=> status[p] \in Closed
    BY <1>1, <1>4, <1>5 DEF BeginTerminate, PrepareCompletion
  <2>2. /\ stage[k] # "failed" /\ UNCHANGED level /\ \E l : Goto(k, l)
    BY <1>5 DEF BeginTerminate, PrepareCompletion
  <2> QED BY <1>2, <1>3, <2>1, <2>2 DEF CallSignals
<1>6. CASE PrepareFails(k)
  <2>1. /\ stage[k] = "prepared" /\ Goto(k, "failed") /\ UNCHANGED <<level, signaled>>
        /\ finished' = finished \cup {w.id}
        /\ status' = [status EXCEPT !["Work"] = IF @ = "Canceled" THEN "Active" ELSE @]
    BY <1>1, <1>2, <1>6 DEF PrepareFails, RollBack
  <2>2. /\ status' \in [Ports -> Statuses]
        /\ \A p \in Ports : status'[p] \in Closed <=> status[p] \in Closed
    BY <1>0, <1>2, <2>1 DEF Closed, Statuses
  <2>3. ASSUME NEW j \in Calls, NEW y \in {WorkToken(j), CompletionToken(j)}, y.id \in finished'
        PROVE  y.id \in finished \/ stage'[j] = "failed"
    <3>1. CASE j = k BY <1>3, <2>1, <3>1
    <3>2. CASE j # k
      <4>1. y.id # w.id BY <1>1, <3>2, TokenFacts
      <4> QED BY <2>1, <2>3, <4>1
    <3> QED BY <3>1, <3>2
  <2> QED BY <1>2, <1>3, <2>1, <2>2, <2>3 DEF CallSignals
<1>7. CASE TerminateWork(k)
  <2>1. /\ stage[k] = "terminate" /\ Goto(k, "begun") /\ UNCHANGED <<level, signaled, finished>>
        /\ status' = [status EXCEPT !["Work"] = "Terminating"]
    BY <1>1, <1>2, <1>7 DEF TerminateWork, BeginTermination
  <2>2. /\ status' \in [Ports -> Statuses] /\ status'["Completion"] = status["Completion"]
        /\ \A p \in Ports : status[p] \in Closed => status'[p] \in Closed
    BY <1>0, <1>2, <2>1 DEF Closed, Statuses
  <2> QED BY <1>3, <2>1, <2>2 DEF CallSignals
<1>8. CASE TerminateReturns(k) \/ Woken(k) \/ UnwoundWork(k) \/ WaitReturns(k)
  <2>1. /\ stage[k] # "failed" /\ UNCHANGED <<level, signaled, finished, status>> /\ \E l : Goto(k, l)
    BY <1>8 DEF TerminateReturns, Woken, UnwoundWork, WaitReturns, portVars, termVars
  <2> QED BY <1>0, <1>3, <2>1 DEF CallSignals
<1>9. CASE WorkTerminated(k)
  <2>1. /\ SetLevel(k, "chained") /\ UNCHANGED <<stage, signaled, finished>>
        /\ status' = [status EXCEPT !["Completion"] = "Terminating"]
    BY <1>1, <1>2, <1>9 DEF WorkTerminated, BeginTermination
  <2>2. /\ status' \in [Ports -> Statuses]
        /\ \A p \in Ports : status[p] \in Closed => status'[p] \in Closed
    BY <1>0, <1>2, <2>1 DEF Closed, Statuses
  <2>3. level'[k] # "none" BY <1>3, <2>1
  <2> QED BY <1>3, <2>1, <2>2, <2>3 DEF CallSignals
<1>10. CASE CompletionTerminated(k) \/ SetTerminated(k)
  <2>1. /\ UNCHANGED <<stage, signaled, finished, status>> /\ \E l : l # "none" /\ SetLevel(k, l)
    BY <1>10 DEF CompletionTerminated, SetTerminated, portVars, termVars
  <2> QED BY <1>0, <1>3, <2>1 DEF CallSignals
<1>11. CASE WorkCallbackReturns(k) \/ CompletionCallbackReturns(k)
  <2>1. PICK y \in {w, x} :
           /\ y \in signaled /\ signaled' = signaled \ {y} /\ finished' = finished \cup {y.id}
           /\ UNCHANGED <<stage, status>> /\ (UNCHANGED level \/ SetLevel(k, "over"))
    BY <1>1, <1>11 DEF WorkCallbackReturns, CompletionCallbackReturns, CalledBack, callPlace
  <2>2. ASSUME NEW j \in Calls, NEW z \in {WorkToken(j), CompletionToken(j)}, z.id \in finished'
        PROVE  z.id \in finished \/ z \in signaled
    <3>1. z.id = y.id => z = y BY <1>1, TokenFacts
    <3> QED BY <2>1, <2>2, <3>1
  <2> QED BY <1>0, <1>3, <2>1, <2>2 DEF CallSignals
<1> QED BY <1>5, <1>6, <1>7, <1>8, <1>9, <1>10, <1>11 DEF CallAct, Call, Callback

LEMMA PortSignalsSignal ==
    ASSUME SignalInv, CallInv, NEW port \in Ports, PortSignals(port)
    PROVE  SignalInv'
<1>0. /\ status \in [Ports -> Statuses] /\ terminating \subseteq Tokens /\ Contexts = Ports
      /\ \A k \in Calls : TokenPlaces(k)
  BY TaskQueueBounds DEF SignalInv, CallInv
<1>1. PICK hit : /\ hit \subseteq terminating /\ hit # {} /\ \A x \in hit : x.ctx = port
                 /\ Drained(port) /\ Loose(port) /\ signaled' = signaled \cup hit
                 /\ status' = [c \in Ports |-> IF c = port THEN "Terminated" ELSE status[c]]
                 /\ UNCHANGED <<finished, stage, level, ready, running, late, held, weak>>
  <2>1. PICK hit : hit \subseteq {x \in terminating : x.ctx = port} /\ Signal(hit) BY DEF PortSignals
  <2>2. hit # {} /\ hit \subseteq terminating /\ \A x \in hit : x.ctx = port BY <2>1 DEF Signal
  <2>3. Drained(port) /\ Loose(port) BY <2>1, <2>2 DEF Signal
  <2>4. status' = [c \in Ports |-> IF c = port THEN "Terminated" ELSE status[c]]
    BY <1>0, <2>1, <2>2 DEF Signal
  <2>5. /\ signaled' = signaled \cup hit
        /\ UNCHANGED <<finished, stage, level, ready, running, late, held, weak>>
    BY <2>1 DEF Signal, PortSignals, itemVars, holdVars, callPlace
  <2> QED BY <2>2, <2>3, <2>4, <2>5
<1>2. ASSUME NEW p, WasSignaled(p)', p # port PROVE WasSignaled(p)
  <2>0. PICK k \in Calls : \E x \in {WorkToken(k), CompletionToken(k)} :
           x.ctx = p /\ (x \in signaled' \/ (x.id \in finished' /\ stage'[k] # "failed"))
    BY <1>2 DEF WasSignaled
  <2>1. PICK x \in {WorkToken(k), CompletionToken(k)} :
           x.ctx = p /\ (x \in signaled' \/ (x.id \in finished' /\ stage'[k] # "failed"))
    BY <2>0
  <2>2. x \notin hit BY <1>1, <1>2, <2>1
  <2>3. x \in signaled \/ (x.id \in finished /\ stage[k] # "failed") BY <1>1, <2>1, <2>2
  <2> QED BY <2>1, <2>3 DEF WasSignaled
<1>3. (\A p : Drained(p)' <=> Drained(p)) /\ (\A p : Loose(p)' <=> Loose(p))
  BY <1>1 DEF Drained, Loose
<1>4. status' \in [Ports -> Statuses] BY <1>0, <1>1 DEF Statuses
<1>5. \A p \in Ports : WasSignaled(p)' => status'[p] \in Closed /\ Drained(p)'
  BY <1>1, <1>2, <1>3 DEF SignalInv, Closed
<1>6. WasSignaled("Work")' => Loose("Work")' BY <1>1, <1>2, <1>3 DEF SignalInv
<1>7. status'["Completion"] \in Closed => refs' = 0 \/ \E k \in Calls : level'[k] # "none"
  <2>1. CASE port = "Completion"
    <3>1. PICK x \in hit : x \in terminating /\ x.ctx = "Completion" BY <1>1, <2>1
    <3>2. PICK k \in Calls : x = CompletionToken(k) BY <1>0, <3>1, TokenFacts
    <3>3. level[k] # "none" BY <1>0, <3>1, <3>2 DEF TokenPlaces
    <3> QED BY <1>1, <3>3
  <2>2. CASE port # "Completion"
    <3>1. "Completion" \in Ports BY DEF Ports
    <3>2. status'["Completion"] = status["Completion"] BY <1>1, <2>2, <3>1
    <3>3. UNCHANGED refs BY DEF PortSignals, queueVars
    <3> QED BY <1>1, <3>2, <3>3 DEF SignalInv
  <2> QED BY <2>1, <2>2
<1> QED BY <1>4, <1>5, <1>6, <1>7 DEF SignalInv

LEMMA RundownSignal ==
    ASSUME SignalInv, Rundown
    PROVE  SignalInv'
<1>1. /\ refs = 0 /\ refs' = 0 /\ status' = [c \in Ports |-> "Terminated"]
      /\ UNCHANGED <<ready, running, late, signaled, finished, stage, held, weak>>
  BY TaskQueueBounds DEF Rundown, Detach, itemVars, termVars, holdVars, callPlace
<1>2. \A p : (WasSignaled(p)' => WasSignaled(p)) /\ (Drained(p)' <=> Drained(p))
             /\ (Loose(p)' <=> Loose(p))
  BY <1>1 DEF WasSignaled, Drained, Loose
<1>3. status' \in [Ports -> Statuses] BY <1>1 DEF Statuses
<1>4. \A p \in Ports : WasSignaled(p)' => status'[p] \in Closed /\ Drained(p)'
  BY <1>1, <1>2 DEF SignalInv, Closed
<1>5. WasSignaled("Work")' => Loose("Work")' BY <1>2 DEF SignalInv
<1> QED BY <1>1, <1>3, <1>4, <1>5 DEF SignalInv

-----------------------------------------------------------------------------
(* The invariant.                                                          *)

LEMMA SameCalls ==
    ASSUME CallInv, UNCHANGED <<termVars, terminated, callPlace>>
    PROVE  CallInv' /\ CallRefs' = CallRefs
<1>1. UNCHANGED <<prepared, terminating, signaled, finished, terminated, stage, waits, level, called>>
  BY DEF termVars, callPlace
<1>2. \A k \in Calls : TokenPlaces(k)' <=> TokenPlaces(k) BY <1>1 DEF TokenPlaces
<1>3. CallInv' BY <1>1, <1>2 DEF CallInv
<1>4. CallRefs' = CallRefs
  BY <1>1 DEF CallRefs, InCall, InWait, Entered, InWorkBack, InBack
<1> QED BY <1>3, <1>4

LEMMA SameItems ==
    ASSUME ItemInv, UNCHANGED <<itemVars, itemPlace>>
    PROVE  ItemInv' /\ ItemRefs' = ItemRefs
BY DEF ItemInv, ItemRefs, itemVars, itemPlace

LEMMA SameHolds ==
    ASSUME HoldInv, UNCHANGED <<holdVars, handles, sus>>
    PROVE  HoldInv'
BY DEF HoldInv, Suspending, Holding, holdVars

LEMMA QueueNext ==
    ASSUME QueueInv, [Next]_vars
    PROVE  QueueInv'
<1>0. ItemInv /\ CallInv /\ HoldInv /\ SignalInv /\ Balance /\ deleted \in BOOLEAN BY DEF QueueInv
<1>1. /\ refs \in Nat /\ (refs = 0 => ~InUse) BY <1>0, CountsUsers
<1>2. handles \in Int /\ ItemRefs \in Int /\ CallRefs \in Int
  <2>1. MaxHandles \in Nat BY TaskQueueBounds
  <2> QED BY <1>0, <2>1, ItemCounts, CallCounts DEF HoldInv
<1>3. ASSUME NEW e,
             \/ SubmitFails(e) \/ Append(e) \/ SubmitReturns(e)
             \/ Run(e) \/ CallbackReturns(e) \/ ReleaseEntry(e)
             \/ \E port \in Ports, delayed \in BOOLEAN : Submit(port, delayed),
             refs # 0
      PROVE  QueueInv'
  <2>1. /\ ItemInv' /\ ItemFrame /\ \E c \in Int : refs' = refs + c /\ ItemRefs' = ItemRefs + c
    BY <1>0, <1>1, <1>3, SubmitSteps, ItemSteps
  <2>2. CallInv' /\ CallRefs' = CallRefs BY <1>0, <2>1, SameCalls DEF ItemFrame
  <2>3. HoldInv' BY <1>0, <2>1, SameHolds DEF ItemFrame
  <2>4. Balance'
    <3>1. PICK c \in Int : refs' = refs + c /\ ItemRefs' = ItemRefs + c BY <2>1
    <3>2. refs' = handles + (ItemRefs + c) + CallRefs BY <1>0, <1>2, <3>1 DEF Balance
    <3> QED BY <2>1, <2>2, <3>1, <3>2 DEF Balance, ItemFrame
  <2>5. \A p \in Ports : WasSignaled(p) /\ Drained(p) => Drained(p)'
    <3>1. ASSUME NEW port \in Ports, NEW delayed \in BOOLEAN, Submit(port, delayed)
          PROVE  \A p : Drained(p)' <=> Drained(p)
      BY <1>0, <3>1, SubmitSteps DEF Drained
    <3> QED BY <1>3, <3>1, ItemDrains
  <2>6. SignalInv'
    <3>1. /\ UNCHANGED <<status, signaled, finished, stage, level, held, weak>>
      BY <2>1 DEF ItemFrame, termVars, holdVars, callPlace
    <3>2. Loose("Work")' <=> Loose("Work") BY <3>1 DEF Loose
    <3> QED BY <1>0, <1>3, <2>5, <3>1, <3>2, SignalSame
  <2> QED BY <1>0, <2>1, <2>2, <2>3, <2>4, <2>6 DEF QueueInv, ItemFrame
<1>4. ASSUME NEW k \in Calls, CallAct(k), refs # 0 PROVE QueueInv'
  <2>1. /\ CallInv' /\ CallFrame /\ \E c \in Int : refs' = refs + c /\ CallRefs' = CallRefs + c
    BY <1>0, <1>1, <1>4, CallSteps
  <2>2. ItemInv' /\ ItemRefs' = ItemRefs BY <1>0, <2>1, SameItems DEF CallFrame
  <2>3. HoldInv' BY <1>0, <2>1, SameHolds DEF CallFrame
  <2>4. Balance'
    <3>1. PICK c \in Int : refs' = refs + c /\ CallRefs' = CallRefs + c BY <2>1
    <3>2. refs' = handles + ItemRefs + (CallRefs + c) BY <1>0, <1>2, <3>1 DEF Balance
    <3> QED BY <2>1, <2>2, <3>1, <3>2 DEF Balance, CallFrame
  <2>5. SignalInv'
    <3>1. UNCHANGED <<ready, running, late, held, weak>> BY <2>1 DEF CallFrame, itemVars, holdVars
    <3> QED BY <1>0, <1>4, <3>1, CallActSignals, CallSignalsStep
  <2> QED BY <1>0, <2>1, <2>2, <2>3, <2>4, <2>5 DEF QueueInv, CallFrame
<1>5. ASSUME NEW port \in Ports, PortSignals(port) PROVE QueueInv'
  <2>1. CallInv' /\ CallFrame /\ UNCHANGED refs /\ CallRefs' = CallRefs BY <1>0, <1>5, PortSignalsStep
  <2>2. ItemInv' /\ ItemRefs' = ItemRefs BY <1>0, <2>1, SameItems DEF CallFrame
  <2>3. HoldInv' BY <1>0, <2>1, SameHolds DEF CallFrame
  <2>4. Balance' BY <1>0, <2>1, <2>2 DEF Balance, CallFrame
  <2>5. SignalInv' BY <1>0, <1>5, PortSignalsSignal
  <2> QED BY <1>0, <2>1, <2>2, <2>3, <2>4, <2>5 DEF QueueInv, CallFrame
<1>6. ASSUME NEW s \in Suspenders, SuspendTermination(s) \/ Suspension(s), refs # 0 PROVE QueueInv'
  <2>1. HoldInv' /\ SusFrame /\ weak \subseteq weak' /\ (held'["Work"] > held["Work"] => Open("Work"))
    BY <1>0, <1>6, SuspensionSteps
  <2>2. CallInv' /\ CallRefs' = CallRefs BY <1>0, <2>1, SameCalls DEF SusFrame, queueVars
  <2>3. ItemInv' /\ ItemRefs' = ItemRefs BY <1>0, <2>1, SameItems DEF SusFrame
  <2>4. Balance' BY <1>0, <2>1, <2>2, <2>3 DEF Balance, SusFrame, queueVars
  <2>5. ASSUME WasSignaled("Work"), Loose("Work") PROVE Loose("Work")'
    <3>1. "Work" \in Ports BY DEF Ports
    <3>2. ~Open("Work") BY <1>0, <2>5, <3>1 DEF SignalInv, Open
    <3>3. held["Work"] \in Nat /\ held'["Work"] \in Nat BY <1>0, <2>1, <3>1 DEF HoldInv
    <3>4. held["Work"] = 0 => held'["Work"] = 0 BY <2>1, <3>2, <3>3
    <3> QED BY <2>1, <2>5, <3>4 DEF Loose
  <2>6. SignalInv'
    <3>1. UNCHANGED <<status, ready, running, late, signaled, finished, stage, level>>
      BY <2>1 DEF SusFrame, itemVars, termVars, callPlace
    <3>2. \A p : Drained(p)' <=> Drained(p) BY <3>1 DEF Drained
    <3> QED BY <1>0, <1>6, <2>5, <3>1, <3>2, SignalSame
  <2> QED BY <1>0, <2>1, <2>2, <2>3, <2>4, <2>6 DEF QueueInv, SusFrame, queueVars
<1>7. CASE (DuplicateHandle \/ CloseHandle) /\ refs # 0
  <2>1. PICK d \in {1, -1} :
           /\ handles' = handles + d /\ refs' = refs + d
           /\ UNCHANGED <<portVars, terminated, deleted, itemPlace, callPlace, sus>>
           /\ handles' \in 0 .. MaxHandles
           /\ handles' = 0 => \A s \in Suspenders : ~Holding(s)
    <3>0. MaxHandles \in Nat /\ handles \in 0 .. MaxHandles BY <1>0, TaskQueueBounds DEF HoldInv
    <3>1. CASE DuplicateHandle BY <3>0, <3>1 DEF DuplicateHandle, MayCall
    <3>2. CASE CloseHandle
      <4>1. /\ handles > 0 /\ handles' = handles - 1 /\ refs' = refs - 1
            /\ handles = 1 => \A s \in Suspenders : ~Holding(s)
            /\ UNCHANGED <<portVars, terminated, deleted, itemPlace, callPlace, sus>>
        BY <3>2 DEF CloseHandle
      <4>2. handles' = handles + (-1) /\ refs' = refs + (-1) /\ handles' \in 0 .. MaxHandles
        BY <1>1, <3>0, <4>1
      <4>3. handles' = 0 => handles = 1 BY <3>0, <4>1
      <4> QED BY <4>1, <4>2, <4>3
    <3> QED BY <1>7, <3>1, <3>2
  <2>2. CallInv' /\ CallRefs' = CallRefs BY <1>0, <2>1, SameCalls DEF portVars
  <2>3. ItemInv' /\ ItemRefs' = ItemRefs BY <1>0, <2>1, SameItems DEF portVars
  <2>4. Balance'
    <3>1. refs' = (handles + d) + ItemRefs + CallRefs BY <1>0, <1>2, <2>1 DEF Balance
    <3> QED BY <2>1, <2>2, <2>3, <3>1 DEF Balance
  <2>5. HoldInv'
    <3>1. UNCHANGED <<held, weak, sus>> BY <2>1 DEF portVars, holdVars
    <3>2. \A s : Holding(s)' <=> Holding(s) BY <3>1 DEF Holding
    <3>3. Suspending' = Suspending BY <3>1 DEF Suspending
    <3>4. MaxHandles \in Nat BY TaskQueueBounds
    <3>5. \A s \in Suspenders : Holding(s)' => handles' > 0 BY <2>1, <3>2, <3>4
    <3> QED BY <1>0, <2>1, <3>1, <3>3, <3>5 DEF HoldInv
  <2>6. SignalInv'
    <3>1. UNCHANGED <<status, ready, running, late, signaled, finished, stage, level, held, weak>>
      BY <2>1 DEF portVars, itemVars, termVars, holdVars, callPlace
    <3>2. (\A p : Drained(p)' <=> Drained(p)) /\ (Loose("Work")' <=> Loose("Work"))
      BY <3>1 DEF Drained, Loose
    <3> QED BY <1>0, <1>7, <3>1, <3>2, SignalSame
  <2> QED BY <1>0, <2>1, <2>2, <2>3, <2>4, <2>5, <2>6 DEF QueueInv
<1>8. CASE Rundown
  <2>1. /\ UNCHANGED <<refs, terminated, handles, itemPlace, callPlace, sus, itemVars, termVars, holdVars>>
        /\ deleted' \in BOOLEAN
    BY <1>8 DEF Rundown, Detach
  <2>2. CallInv' /\ CallRefs' = CallRefs BY <1>0, <2>1, SameCalls
  <2>3. ItemInv' /\ ItemRefs' = ItemRefs BY <1>0, <2>1, SameItems
  <2>4. HoldInv' BY <1>0, <2>1, SameHolds
  <2>5. SignalInv' BY <1>0, <1>8, RundownSignal
  <2>6. Balance' BY <1>0, <2>1, <2>2, <2>3 DEF Balance
  <2> QED BY <2>1, <2>2, <2>3, <2>4, <2>5, <2>6 DEF QueueInv
<1>9. CASE UNCHANGED vars
  <2>1. CallInv' /\ CallRefs' = CallRefs BY <1>0, <1>9, SameCalls DEF vars, portVars, queueVars
  <2>2. ItemInv' /\ ItemRefs' = ItemRefs BY <1>0, <1>9, SameItems DEF vars, portVars
  <2>3. HoldInv' BY <1>0, <1>9, SameHolds DEF vars, portVars, queueVars
  <2>4. /\ UNCHANGED <<status, ready, running, late, signaled, finished, stage, level, held, weak, refs,
                       handles, deleted>>
    BY <1>9 DEF vars, portVars, queueVars, itemVars, termVars, holdVars, callPlace
  <2>5. \A p : (WasSignaled(p)' <=> WasSignaled(p)) /\ (Drained(p)' <=> Drained(p))
               /\ (Loose(p)' <=> Loose(p))
    BY <2>4 DEF WasSignaled, Drained, Loose
  <2>6. SignalInv' BY <1>0, <2>4, <2>5 DEF SignalInv
  <2>7. Balance' BY <1>0, <2>1, <2>2, <2>4 DEF Balance
  <2> QED BY <1>0, <2>1, <2>2, <2>3, <2>4, <2>6, <2>7 DEF QueueInv
<1>10. ASSUME Next, ~Rundown PROVE refs # 0 BY <1>0, <1>1, <1>10, StepUses
<1>11. CASE Next /\ ~Rundown
  <2>1. refs # 0 BY <1>10, <1>11
  <2>2. CASE Application
    BY <1>3, <1>4, <1>6, <1>7, <2>1, <2>2 DEF Application, CallAct
  <2>3. CASE Submission \/ Execution BY <1>3, <2>1, <2>3 DEF Submission, Execution
  <2>4. ASSUME NEW k \in Calls, Call(k) \/ Callback(k) PROVE QueueInv'
    BY <1>4, <2>1, <2>4 DEF CallAct
  <2> QED BY <1>5, <1>6, <1>11, <2>1, <2>2, <2>3, <2>4 DEF Next, System
<1> QED BY <1>8, <1>9, <1>11

-----------------------------------------------------------------------------
(* The invariant and what follows from it.                                 *)

LEMMA QueueInit ==
    ASSUME Init
    PROVE  QueueInv
<1>0. Contexts = Ports /\ MaxItems \in Nat /\ MaxTerms \in Nat /\ MaxHandles \in Nat \ {0}
      /\ IsFiniteSet(Suspenders)
  BY TaskQueueBounds
<1>1. IsFiniteSet({}) /\ N({}) = 0 BY FS_EmptySet DEF N
<1>2. /\ accepted = {} /\ ready = {} /\ running = {} /\ invoked = {} /\ late = {}
      /\ prepared = {} /\ terminating = {} /\ signaled = {} /\ finished = {} /\ weak = {}
      /\ submitting = {} /\ leaving = {} /\ waits = {} /\ nextItem = 1
      /\ refs = 1 /\ handles = 1 /\ terminated = FALSE /\ deleted = FALSE
      /\ status = [c \in Ports |-> "Active"] /\ held = [c \in Ports |-> 0]
  BY <1>0 DEF Init, PortInit
<1>3. /\ stage \in [Calls -> Stages] /\ level \in [Calls -> Levels] /\ called \in [Calls -> 0 .. 1]
      /\ \A k \in Calls : stage[k] = "idle" /\ level[k] = "none" /\ called[k] = 0
  BY DEF Init, Stages, Levels
<1>4. sus \in [Suspenders -> Places] /\ \A s \in Suspenders : sus[s] = "idle" BY DEF Init, Places
<1>5. ItemInv BY <1>0, <1>1, <1>2 DEF ItemInv
<1>6. CallInv
  <2>1. \A k \in Calls : TokenPlaces(k)
    BY <1>2, <1>3 DEF TokenPlaces, Begun, Unwinding, CalledLevels
  <2> QED BY <1>2, <1>3, <2>1 DEF CallInv
<1>7. HoldInv
  <2>1. Suspending = {} BY <1>4 DEF Suspending
  <2>2. held \in [Ports -> Nat] /\ held["Completion"] = 0 /\ held["Work"] = N(Suspending)
    BY <1>1, <1>2, <2>1 DEF Ports
  <2>3. handles \in 0 .. MaxHandles /\ handles > 0 BY <1>0, <1>2
  <2> QED BY <1>2, <1>4, <2>2, <2>3 DEF HoldInv
<1>8. SignalInv
  <2>1. \A p : ~WasSignaled(p) BY <1>2 DEF WasSignaled
  <2>2. status \in [Ports -> Statuses] /\ status["Completion"] \notin Closed
    BY <1>2 DEF Statuses, Ports, Closed
  <2> QED BY <2>1, <2>2 DEF SignalInv
<1>9. Balance
  <2>1. ItemRefs = 0 BY <1>1, <1>2 DEF ItemRefs
  <2>2. InCall = {} /\ InWait = {} /\ Entered = {} /\ InWorkBack = {} /\ InBack = {}
    BY <1>2, <1>3 DEF InCall, InWait, Entered, InWorkBack, InBack, Under, Begun
  <2>3. CallRefs = 0 BY <1>1, <2>2 DEF CallRefs
  <2> QED BY <1>2, <2>1, <2>3 DEF Balance
<1> QED BY <1>2, <1>5, <1>6, <1>7, <1>8, <1>9 DEF QueueInv

LEMMA QueueInvariant == Spec => []QueueInv
<1>1. Init => QueueInv BY QueueInit
<1>2. QueueInv /\ [Next]_vars => QueueInv' BY QueueNext
<1> QED BY <1>1, <1>2, PTL DEF Spec

LEMMA QueueTypes ==
    ASSUME QueueInv
    PROVE  TypeOK
<1>0. ItemInv /\ CallInv /\ HoldInv /\ SignalInv /\ Balance /\ deleted \in BOOLEAN BY DEF QueueInv
<1>1. refs \in Nat BY <1>0, CountsUsers
<1>2. held \in [Ports -> 0 .. Cardinality(Suspenders)]
  <2>1. IsFiniteSet(Suspenders) BY TaskQueueBounds
  <2>2. Suspending \subseteq Suspenders BY DEF Suspending
  <2>3. /\ Cardinality(Suspending) \in Nat /\ Cardinality(Suspenders) \in Nat
        /\ Cardinality(Suspending) <= Cardinality(Suspenders)
    BY <2>1, <2>2, FS_Subset, FS_CardinalityType
  <2>4. held["Work"] \in 0 .. Cardinality(Suspenders) /\ held["Completion"] \in 0 .. Cardinality(Suspenders)
    BY <1>0, <2>3 DEF HoldInv, N
  <2>5. \A p \in Ports : held[p] \in 0 .. Cardinality(Suspenders) BY <2>4 DEF Ports
  <2> QED BY <1>0, <2>5 DEF HoldInv
<1>3. /\ accepted \cup ready \cup running \cup submitting \cup leaving \subseteq Entries
      /\ invoked \cup late \subseteq 1 .. MaxItems /\ nextItem \in 1 .. MaxItems + 1
  BY <1>0 DEF ItemInv
<1>4. /\ prepared \cup terminating \cup signaled \subseteq Tokens /\ finished \subseteq 1 .. 2 * MaxTerms
      /\ stage \in [Calls -> Stages] /\ waits \subseteq Calls
      /\ level \in [Calls -> Levels] /\ called \in [Calls -> 0 .. 1] /\ terminated \in BOOLEAN
  BY <1>0 DEF CallInv
<1>5. status \in [Ports -> Statuses] BY <1>0 DEF SignalInv
<1>6. weak \subseteq Ports /\ handles \in 0 .. MaxHandles /\ sus \in [Suspenders -> Places]
  BY <1>0 DEF HoldInv
<1> QED BY <1>0, <1>1, <1>2, <1>3, <1>4, <1>5, <1>6 DEF TypeOK, Stages, Levels, Statuses, Places

\* A termination of Work that was passed on to Completion was signaled, one that was called
\* back was signaled by both ports.
LEMMA LevelSignaled ==
    ASSUME CallInv, NEW k \in Calls
    PROVE  /\ level[k] # "none" => WasSignaled("Work")
           /\ called[k] = 1 => \A p \in Ports : WasSignaled(p)
<1>1. TokenPlaces(k) BY DEF CallInv
<1>2. /\ WorkToken(k).ctx = "Work" /\ CompletionToken(k).ctx = "Completion" BY TokenFacts
<1>3. level[k] # "none" => stage[k] # "failed" BY <1>1 DEF TokenPlaces, Begun
<1>4. level[k] # "none" => WasSignaled("Work")
  BY <1>1, <1>2, <1>3 DEF TokenPlaces, WasSignaled
<1>5. ASSUME called[k] = 1 PROVE \A p \in Ports : WasSignaled(p)
  <2>1. level[k] \in CalledLevels BY <1>1, <1>5 DEF TokenPlaces
  <2>2. level[k] # "none" /\ (level[k] \in {"called", "signaled"} \/ level[k] = "over")
    BY <2>1 DEF CalledLevels
  <2>3. CompletionToken(k) \in signaled \/ CompletionToken(k).id \in finished
    BY <1>1, <2>2 DEF TokenPlaces
  <2>4. WasSignaled("Completion") BY <1>2, <1>3, <2>2, <2>3 DEF WasSignaled
  <2> QED BY <1>4, <2>2, <2>4 DEF Ports
<1> QED BY <1>4, <1>5

(* The reference count of TaskQueueImpl covers its users.  AddRef and      *)
(* Release of the handles, of a submission and of its entry, of Terminate, *)
(* of its waiter and of SignalTerminations balance in every interleaving:  *)
(* m_refs is never negative, and it is zero, which lets Release run the    *)
(* object down, only when no call, callback, termination or suspension is  *)
(* left.  For any number of suspenders, callbacks, terminations, handles.  *)
THEOREM LastRelease == Spec => []NoUseAfterRundown
<1>1. QueueInv => NoUseAfterRundown
  BY QueueTypes, CountsUsers DEF QueueInv, NoUseAfterRundown
<1> QED BY <1>1, QueueInvariant, PTL

(* OnTerminationCallback of the Work port alone terminates the Completion  *)
(* port, so Completion closes only after Work has drained and nobody       *)
(* suspends it: what a Work callback or a suspender has still to report is *)
(* accepted.                                                               *)
THEOREM ResultsAccepted == Spec => []CompletionOpen
<1>1. ASSUME QueueInv PROVE CompletionOpen
  <2>0. ItemInv /\ CallInv /\ HoldInv /\ SignalInv /\ Balance BY <1>1 DEF QueueInv
  <2>1. CASE status["Completion"] \notin Closed BY <2>1 DEF CompletionOpen
  <2>2. CASE refs = 0
    <3>1. ~InUse BY <2>0, <2>2, CountsUsers
    <3>2. ready \cup running = {} BY <3>1 DEF InUse
    <3>3. Suspending = {} BY <3>1 DEF InUse, Suspending, Holding
    <3>4. held["Work"] = 0 BY <2>0, <3>3, FS_EmptySet DEF HoldInv, N
    <3> QED BY <3>2, <3>4 DEF CompletionOpen
  <2>3. CASE \E k \in Calls : level[k] # "none"
    <3>1. WasSignaled("Work") BY <2>0, <2>3, LevelSignaled
    <3>2. Drained("Work") /\ Loose("Work") BY <2>0, <3>1 DEF SignalInv, Ports
    <3> QED BY <3>2 DEF CompletionOpen, Drained, Loose
  <2> QED BY <2>0, <2>1, <2>2, <2>3 DEF SignalInv
<1> QED BY <1>1, QueueInvariant, PTL

(* The user's termination callback is called when the callbacks of both    *)
(* ports have returned, and none but late ones run after it; a waiting     *)
(* Terminate returns only when m_termination.terminated was set, which     *)
(* OnTerminationCallback does after that callback.                         *)
THEOREM CalledBackLast == Spec => []TerminatedMeansOver
<1>1. ASSUME QueueInv PROVE TerminatedMeansOver
  <2>0. ItemInv /\ CallInv /\ SignalInv BY <1>1 DEF QueueInv
  <2>1. ASSUME NEW k \in waits, stage[k] = "done" PROVE \E j \in Calls : called[j] = 1
    <3>1. k \in Calls /\ TokenPlaces(k) BY <2>0 DEF CallInv
    <3>2. terminated BY <2>1, <3>1 DEF TokenPlaces
    <3> QED BY <2>0, <3>2 DEF CallInv
  <2>2. ASSUME NEW k \in Calls, called[k] = 1, NEW e \in ready \cup running PROVE e.id \in late
    <3>1. \A p \in Ports : WasSignaled(p) BY <2>0, <2>2, LevelSignaled
    <3>2. \A p \in Ports : Drained(p) BY <2>0, <3>1 DEF SignalInv
    <3>3. e.ctx \in Ports BY <2>0 DEF ItemInv, Entries
    <3> QED BY <3>2, <3>3 DEF Drained
  <2> QED BY <2>1, <2>2 DEF TerminatedMeansOver
<1> QED BY <1>1, QueueInvariant, PTL
-----------------------------------------------------------------------------
(* Nothing is left waiting.                                                *)

\* What keeps callbacks going: an immediate one that was not appended has its submitter, and
\* no two that are still to be invoked share a number, which is new.
ItemsGoOn ==
    /\ \A e \in accepted : ~e.delayed => e \in submitting
    /\ \A e, f \in accepted \cup ready : e.id = f.id => e = f
    /\ \A e \in accepted \cup ready : e.id \notin invoked
    /\ \A i \in invoked : i < nextItem

\* What keeps a termination going: it is in the hands of a port until it is called back,
\* and the waiters' flag is set by then.
TokensGoOn(k) ==
    /\ CompletionToken(k).id \in finished => level[k] = "over"
    /\ stage[k] \in Begun /\ level[k] = "none" => WorkToken(k) \in terminating \cup signaled
    /\ level[k] = "chained" => CompletionToken(k) \in terminating \cup signaled
    /\ level[k] \in {"signaled", "over"} => terminated

GoesOnInv == ItemsGoOn /\ \A k \in Calls : TokensGoOn(k)

LEMMA ItemsGoOnSteps ==
    ASSUME ItemInv, ItemsGoOn, NEW e,
           \/ SubmitFails(e) \/ Append(e) \/ SubmitReturns(e)
           \/ Run(e) \/ CallbackReturns(e) \/ ReleaseEntry(e)
           \/ \E port \in Ports, delayed \in BOOLEAN : Submit(port, delayed)
    PROVE  ItemsGoOn'
<1>0. /\ nextItem \in Int /\ \A f \in accepted \cup ready : f.id \in Int /\ f.id < nextItem
      /\ \A i \in invoked : i \in Int
  <2>1. MaxItems \in Nat BY TaskQueueBounds
  <2>2. \A f \in Entries : f.id \in Int BY <2>1 DEF Entries
  <2> QED BY <2>1, <2>2 DEF ItemInv
<1>1. CASE SubmitFails(e) \/ SubmitReturns(e)
  <2>1. /\ submitting' = submitting \ {e} /\ UNCHANGED <<ready, invoked, nextItem>>
        /\ accepted' = accepted \ {e} \/ (UNCHANGED accepted /\ (~e.delayed => e \notin accepted))
    BY <1>1 DEF SubmitFails, SubmitReturns, Refuse, portVars, itemVars
  <2> QED BY <2>1 DEF ItemsGoOn
<1>2. CASE Append(e)
  <2>1. /\ e \in accepted /\ accepted' = accepted \ {e} /\ ready' = ready \cup {e}
        /\ UNCHANGED <<submitting, invoked, nextItem>>
    BY <1>2 DEF Append, Enqueue, itemPlace
  <2> QED BY <2>1 DEF ItemsGoOn
<1>3. CASE Run(e)
  <2>1. /\ e \in ready /\ ready' = ready \ {e} /\ invoked' = invoked \cup {e.id}
        /\ UNCHANGED <<submitting, accepted, nextItem>>
    BY <1>3 DEF Run, Invoke, itemPlace
  <2>2. e \notin accepted BY <2>1 DEF ItemInv
  <2>3. \A f \in accepted' \cup ready' : f \in accepted \cup ready /\ f # e BY <2>1, <2>2
  <2> QED BY <1>0, <2>1, <2>3 DEF ItemsGoOn
<1>4. CASE CallbackReturns(e) \/ ReleaseEntry(e)
  <2>1. UNCHANGED <<submitting, accepted, ready, invoked, nextItem>>
    BY <1>4 DEF CallbackReturns, ReleaseEntry, Return, portVars, itemVars
  <2> QED BY <2>1 DEF ItemsGoOn
<1>5. ASSUME NEW port \in Ports, NEW delayed \in BOOLEAN, Submit(port, delayed) PROVE ItemsGoOn'
  <2> DEFINE n == [id |-> nextItem, ctx |-> port, delayed |-> delayed]
  <2>1. /\ accepted' = accepted \cup {n} /\ submitting' = submitting \cup {n}
        /\ nextItem' = nextItem + 1 /\ UNCHANGED <<ready, invoked>>
    BY <1>5 DEF Submit, Accept
  <2>2. n.id = nextItem OBVIOUS
  <2> HIDE DEF n
  <2>3. /\ \A f \in accepted \cup ready : f.id # n.id
        /\ \A i \in invoked : i # n.id /\ i < nextItem'
    BY <1>0, <2>1, <2>2 DEF ItemsGoOn
  <2>4. \A f, g \in accepted' \cup ready' : f.id = g.id => f = g BY <2>1, <2>3 DEF ItemsGoOn
  <2>5. \A f \in accepted' \cup ready' : f.id \notin invoked' BY <2>1, <2>3 DEF ItemsGoOn
  <2>6. \A f \in accepted' : ~f.delayed => f \in submitting' BY <2>1 DEF ItemsGoOn
  <2> QED BY <2>1, <2>3, <2>4, <2>5, <2>6 DEF ItemsGoOn
<1> QED BY <1>1, <1>2, <1>3, <1>4, <1>5

\* A step of call k may disturb its own termination only.
LEMMA OtherTokensGoOn ==
    ASSUME NEW k \in Calls, NEW x \in {WorkToken(k), CompletionToken(k)}, Shifts(k, x),
           terminated => terminated', \A j \in Calls : TokensGoOn(j), TokensGoOn(k)'
    PROVE  \A j \in Calls : TokensGoOn(j)'
<1> SUFFICES ASSUME NEW j \in Calls, j # k PROVE TokensGoOn(j)' OBVIOUS
<1>1. /\ WorkToken(j) # x /\ CompletionToken(j) # x /\ CompletionToken(j).id # x.id BY TokenFacts
<1>2. /\ stage'[j] = stage[j] /\ level'[j] = level[j]
      /\ CompletionToken(j).id \in finished' <=> CompletionToken(j).id \in finished
      /\ \A y \in {WorkToken(j), CompletionToken(j)} :
            (y \in terminating' <=> y \in terminating) /\ (y \in signaled' <=> y \in signaled)
  BY <1>1 DEF Shifts
<1> QED BY <1>2 DEF TokensGoOn

LEMMA TokensGoOnSteps ==
    ASSUME CallInv, NEW k \in Calls, CallAct(k), \A j \in Calls : TokensGoOn(j)
    PROVE  \A j \in Calls : TokensGoOn(j)'
<1>0. /\ stage \in [Calls -> Stages] /\ level \in [Calls -> Levels] /\ terminated \in BOOLEAN
      /\ called \in [Calls -> 0 .. 1] /\ TokenPlaces(k) /\ TokensGoOn(k)
  BY DEF CallInv
<1>1. PICK w, x : w = WorkToken(k) /\ x = CompletionToken(k) OBVIOUS
<1>2. w # x /\ w.id # x.id BY <1>1, TokenFacts
<1>3. /\ \A l : Goto(k, l) => stage'[k] = l /\ \A j \in Calls \ {k} : stage'[j] = stage[j]
      /\ \A l : SetLevel(k, l) => level'[k] = l /\ \A j \in Calls \ {k} : level'[j] = level[j]
  BY <1>0 DEF Goto, SetLevel
<1>4. CASE \E wait \in BOOLEAN : BeginTerminate(k, wait)
  <2>1. PICK wait \in BOOLEAN : BeginTerminate(k, wait) BY <1>4
  <2>2. /\ Goto(k, "prepared") /\ prepared' = prepared \cup {w}
        /\ UNCHANGED <<terminating, signaled, finished, terminated, level, called>>
        /\ \A j \in Calls \ {k} : j \in waits' <=> j \in waits
    BY <1>1, <2>1 DEF BeginTerminate, Prepare
  <2>3. Shifts(k, w) BY <1>3, <2>2 DEF Shifts
  <2>4. TokensGoOn(k)' BY <1>0, <1>3, <2>2, StageFacts DEF TokensGoOn
  <2> QED BY <1>1, <2>2, <2>3, <2>4, OtherTokensGoOn
<1>5. CASE PrepareCompletion(k)
  <2>1. /\ Goto(k, "terminate") /\ prepared' = prepared \cup {x}
        /\ UNCHANGED <<terminating, signaled, finished, terminated, level, called, waits>>
    BY <1>1, <1>5 DEF PrepareCompletion, Prepare, queueVars
  <2>2. Shifts(k, x) BY <1>3, <2>1 DEF Shifts
  <2>3. TokensGoOn(k)' BY <1>0, <1>3, <2>1, StageFacts DEF TokensGoOn
  <2> QED BY <1>1, <2>1, <2>2, <2>3, OtherTokensGoOn
<1>6. CASE PrepareFails(k)
  <2>1. /\ Goto(k, "failed") /\ prepared' = prepared \ {w} /\ finished' = finished \cup {w.id}
        /\ UNCHANGED <<terminating, signaled, terminated, level, called, waits>>
    BY <1>1, <1>6 DEF PrepareFails, RollBack
  <2>2. Shifts(k, w) BY <1>3, <2>1 DEF Shifts
  <2>3. TokensGoOn(k)' BY <1>0, <1>1, <1>2, <1>3, <2>1, StageFacts DEF TokensGoOn
  <2> QED BY <1>1, <2>1, <2>2, <2>3, OtherTokensGoOn
<1>7. CASE TerminateWork(k)
  <2>1. /\ Goto(k, "begun") /\ prepared' = prepared \ {w} /\ terminating' = terminating \cup {w}
        /\ UNCHANGED <<signaled, finished, terminated, level, called, waits>>
    BY <1>1, <1>7 DEF TerminateWork, BeginTermination
  <2>2. Shifts(k, w) BY <1>3, <2>1 DEF Shifts
  <2>3. TokensGoOn(k)' BY <1>0, <1>1, <1>3, <2>1 DEF TokensGoOn
  <2> QED BY <1>1, <2>1, <2>2, <2>3, OtherTokensGoOn
<1>8. CASE TerminateReturns(k) \/ Woken(k) \/ UnwoundWork(k) \/ WaitReturns(k)
  <2>1. /\ \E l \in Begun : Goto(k, l)
        /\ stage[k] \in Begun
        /\ UNCHANGED <<prepared, terminating, signaled, finished, terminated, level, called, waits>>
    BY <1>8 DEF TerminateReturns, Woken, UnwoundWork, WaitReturns, Begun, portVars, termVars, queueVars
  <2>2. Shifts(k, w) BY <1>3, <2>1 DEF Shifts
  <2>3. TokensGoOn(k)' BY <1>0, <1>3, <2>1 DEF TokensGoOn
  <2> QED BY <1>1, <2>1, <2>2, <2>3, OtherTokensGoOn
<1>9. CASE WorkTerminated(k)
  <2>1. /\ SetLevel(k, "chained") /\ prepared' = prepared \ {x} /\ terminating' = terminating \cup {x}
        /\ level[k] = "none"
        /\ UNCHANGED <<stage, signaled, finished, terminated, called, waits>>
    BY <1>1, <1>9 DEF WorkTerminated, BeginTermination
  <2>2. Shifts(k, x) BY <1>3, <2>1 DEF Shifts
  <2>3. TokensGoOn(k)' BY <1>0, <1>1, <1>3, <2>1 DEF TokensGoOn
  <2> QED BY <1>1, <2>1, <2>2, <2>3, OtherTokensGoOn
<1>10. CASE WorkCallbackReturns(k)
  <2>1. /\ signaled' = signaled \ {w} /\ finished' = finished \cup {w.id} /\ level[k] # "none"
        /\ UNCHANGED <<stage, level, prepared, terminating, terminated, called, waits>>
    BY <1>1, <1>10 DEF WorkCallbackReturns, CalledBack, callPlace
  <2>2. Shifts(k, w) BY <1>3, <2>1 DEF Shifts
  <2>3. TokensGoOn(k)' BY <1>0, <1>1, <1>2, <2>1 DEF TokensGoOn
  <2> QED BY <1>1, <2>1, <2>2, <2>3, OtherTokensGoOn
<1>11. CASE CompletionTerminated(k)
  <2>1. /\ SetLevel(k, "called") /\ level[k] = "chained"
        /\ called' = [called EXCEPT ![k] = @ + 1]
        /\ UNCHANGED <<stage, prepared, terminating, signaled, finished, terminated, waits>>
    BY <1>11 DEF CompletionTerminated, portVars, termVars
  <2>2. \A j \in Calls \ {k} : called'[j] = called[j] BY <1>0, <2>1
  <2>3. Shifts(k, x) BY <1>3, <2>1, <2>2 DEF Shifts
  <2>4. x.id \notin finished BY <1>0, <1>1, <2>1 DEF TokensGoOn
  <2>5. TokensGoOn(k)' BY <1>1, <1>3, <2>1, <2>4 DEF TokensGoOn
  <2> QED BY <1>1, <2>1, <2>3, <2>5, OtherTokensGoOn
<1>12. CASE SetTerminated(k)
  <2>1. /\ SetLevel(k, "signaled") /\ level[k] = "called" /\ terminated' = TRUE
        /\ UNCHANGED <<stage, prepared, terminating, signaled, finished, called, waits>>
    BY <1>12 DEF SetTerminated, FlagSet, portVars, termVars
  <2>2. Shifts(k, x) BY <1>3, <2>1 DEF Shifts
  <2>3. x.id \notin finished BY <1>0, <1>1, <2>1 DEF TokensGoOn
  <2>4. TokensGoOn(k)' BY <1>1, <1>3, <2>1, <2>3 DEF TokensGoOn
  <2> QED BY <1>1, <2>1, <2>2, <2>4, OtherTokensGoOn
<1>13. CASE CompletionCallbackReturns(k)
  <2>1. /\ SetLevel(k, "over") /\ level[k] = "signaled"
        /\ signaled' = signaled \ {x} /\ finished' = finished \cup {x.id}
        /\ UNCHANGED <<stage, prepared, terminating, terminated, called, waits>>
    BY <1>1, <1>13 DEF CompletionCallbackReturns, CalledBack
  <2>2. Shifts(k, x) BY <1>3, <2>1 DEF Shifts
  <2>3. TokensGoOn(k)' BY <1>0, <1>1, <1>3, <2>1 DEF TokensGoOn
  <2> QED BY <1>1, <2>1, <2>2, <2>3, OtherTokensGoOn
<1> QED BY <1>4, <1>5, <1>6, <1>7, <1>8, <1>9, <1>10, <1>11, <1>12, <1>13 DEF CallAct, Call, Callback

LEMMA GoesOnNext ==
    ASSUME QueueInv, GoesOnInv, [Next]_vars
    PROVE  GoesOnInv'
<1>0. ItemInv /\ CallInv /\ HoldInv BY DEF QueueInv
<1>i. ASSUME UNCHANGED <<itemVars, itemPlace>> PROVE ItemsGoOn'
  BY <1>i DEF GoesOnInv, ItemsGoOn, itemVars, itemPlace
<1>t. ASSUME UNCHANGED <<termVars, stage, level, terminated>> PROVE \A k \in Calls : TokensGoOn(k)'
  BY <1>t DEF GoesOnInv, TokensGoOn, termVars
<1>1. ASSUME NEW e,
             \/ SubmitFails(e) \/ Append(e) \/ SubmitReturns(e)
             \/ Run(e) \/ CallbackReturns(e) \/ ReleaseEntry(e)
             \/ \E port \in Ports, delayed \in BOOLEAN : Submit(port, delayed)
      PROVE  GoesOnInv'
  <2>1. ItemsGoOn' BY <1>0, <1>1, ItemsGoOnSteps DEF GoesOnInv
  <2>2. UNCHANGED <<termVars, stage, level, terminated>>
    BY <1>1 DEF SubmitFails, Append, SubmitReturns, Run, CallbackReturns, ReleaseEntry, Submit, Refuse,
       Enqueue, Invoke, Return, Accept, portVars, queueVars, callPlace
  <2> QED BY <1>t, <2>1, <2>2 DEF GoesOnInv
<1>2. ASSUME NEW k \in Calls, CallAct(k) PROVE GoesOnInv'
  <2>1. \A j \in Calls : TokensGoOn(j)' BY <1>0, <1>2, TokensGoOnSteps DEF GoesOnInv
  <2>2. UNCHANGED <<itemVars, itemPlace>>
    BY <1>2 DEF CallAct, Call, Callback, BeginTerminate, PrepareCompletion, PrepareFails, TerminateWork,
       TerminateReturns, Woken, UnwoundWork, WaitReturns, WorkTerminated, WorkCallbackReturns,
       CompletionTerminated, SetTerminated, CompletionCallbackReturns, Prepare, RollBack,
       BeginTermination, CalledBack, portVars
  <2> QED BY <1>i, <2>1, <2>2 DEF GoesOnInv
<1>3. ASSUME NEW port \in Ports, PortSignals(port) PROVE GoesOnInv'
  <2>1. PICK hit : /\ terminating' = terminating \ hit /\ signaled' = signaled \cup hit
                   /\ hit \subseteq terminating
                   /\ UNCHANGED <<itemVars, itemPlace, finished, stage, level, terminated>>
    BY <1>3 DEF PortSignals, Signal, queueVars, callPlace
  <2>2. \A y : y \in terminating \cup signaled => y \in terminating' \cup signaled' BY <2>1
  <2>3. \A k \in Calls : TokensGoOn(k)' BY <2>1, <2>2 DEF GoesOnInv, TokensGoOn
  <2> QED BY <1>i, <2>1, <2>3 DEF GoesOnInv
<1>4. ASSUME NEW s \in Suspenders, SuspendTermination(s) \/ Suspension(s) PROVE GoesOnInv'
  <2>1. SusFrame BY <1>0, <1>4, SuspensionSteps
  <2>2. UNCHANGED <<itemVars, itemPlace, termVars, stage, level, terminated>>
    BY <2>1 DEF SusFrame, queueVars, callPlace
  <2> QED BY <1>i, <1>t, <2>2 DEF GoesOnInv
<1>5. CASE DuplicateHandle \/ CloseHandle \/ Rundown \/ UNCHANGED vars
  <2>1. UNCHANGED <<itemVars, itemPlace, termVars, stage, level, terminated>>
    BY <1>5 DEF DuplicateHandle, CloseHandle, Rundown, Detach, vars, portVars, queueVars, callPlace
  <2> QED BY <1>i, <1>t, <2>1 DEF GoesOnInv
<1>6. CASE Application
  BY <1>1, <1>2, <1>4, <1>5, <1>6 DEF Application, CallAct
<1>7. CASE Submission \/ Execution BY <1>1, <1>7 DEF Submission, Execution
<1>8. ASSUME NEW k \in Calls, Call(k) \/ Callback(k) PROVE GoesOnInv' BY <1>2, <1>8 DEF CallAct
<1>9. CASE System BY <1>3, <1>4, <1>5, <1>7, <1>8, <1>9 DEF System
<1> QED BY <1>5, <1>6, <1>9 DEF Next

LEMMA GoesOnInit == ASSUME Init PROVE GoesOnInv
<1>1. /\ accepted = {} /\ ready = {} /\ invoked = {} /\ finished = {} BY DEF Init, PortInit
<1>2. \A k \in Calls : stage[k] = "idle" /\ level[k] = "none" BY DEF Init
<1>3. \A k \in Calls : TokensGoOn(k) BY <1>1, <1>2, StageFacts DEF TokensGoOn
<1> QED BY <1>1, <1>3 DEF GoesOnInv, ItemsGoOn

LEMMA GoesOnInvariant == Spec => []GoesOnInv
<1>1. Init => GoesOnInv BY GoesOnInit
<1>2. QueueInv /\ GoesOnInv /\ [Next]_vars => GoesOnInv' BY GoesOnNext
<1> QED BY <1>1, <1>2, QueueInvariant, PTL DEF Spec

\* Callbacks come to rest only when there are none.
LEMMA ItemsRest ==
    ASSUME ItemInv, ItemsGoOn, ~Busy
    PROVE  accepted = {} /\ submitting = {} /\ ready = {} /\ running = {} /\ leaving = {}
<1>1. \A e \in accepted \cup submitting : ~SubmissionGoesOn(e) BY DEF Busy
<1>2. \A e \in ready \cup running \cup leaving : ~ExecutionGoesOn(e) BY DEF Busy
<1>3. accepted = {}
  <2>1. ASSUME NEW e \in accepted PROVE FALSE BY <1>1 DEF SubmissionGoesOn, ItemsGoOn
  <2> QED BY <2>1
<1>4. submitting = {}
  <2>1. ASSUME NEW e \in submitting PROVE FALSE BY <1>1, <1>3 DEF SubmissionGoesOn
  <2> QED BY <2>1
<1>5. running = {} /\ leaving = {} BY <1>2 DEF ExecutionGoesOn
<1>6. ready = {} BY <1>2 DEF ExecutionGoesOn, ItemsGoOn
<1> QED BY <1>3, <1>4, <1>5, <1>6

\* A call of Terminate comes to rest when it has returned and its callback is over.
LEMMA CallsRest ==
    ASSUME CallInv, HoldInv, \A k \in Calls : TokensGoOn(k), ready = {}, running = {}, ~Busy
    PROVE  \A k \in Calls : /\ stage[k] \in {"idle", "failed", "done"}
                            /\ stage[k] = "done" => level[k] = "over"
                            /\ WorkToken(k) \notin signaled
<1>0. /\ \A k \in Calls : ~CallGoesOn(k) /\ ~CallbackGoesOn(k)
      /\ \A p \in Ports : ~SignalDue(p)
      /\ \A s \in Suspenders : ~SuspensionGoesOn(s)
  BY DEF Busy
<1>1. /\ stage \in [Calls -> Stages] /\ level \in [Calls -> Levels] /\ terminated \in BOOLEAN
      /\ \A k \in Calls : TokenPlaces(k)
      /\ prepared \subseteq Tokens /\ terminating \subseteq Tokens /\ signaled \subseteq Tokens
  BY DEF CallInv
<1>2. \A p \in Ports : Drained(p) /\ Unwound(p) /\ Loose(p)
  <2>1. Suspending = {}
    <3> SUFFICES ASSUME NEW s \in Suspending PROVE FALSE OBVIOUS
    <3>1. s \in Suspenders /\ sus[s] = "held" BY DEF Suspending
    <3>2. IsFiniteSet(Suspending) BY TaskQueueBounds, FS_Subset DEF Suspending
    <3>3. held["Work"] \in Nat /\ held["Work"] # 0
      BY <3>2, CountNone DEF HoldInv, Ports
    <3> QED BY <1>0, <3>1, <3>3 DEF SuspensionGoesOn
  <2>2. held["Work"] = 0 /\ held["Completion"] = 0 BY <2>1, FS_EmptySet DEF HoldInv, N
  <2> QED BY <2>2 DEF Drained, Unwound, Loose, Ports
<1>3. terminating = {}
  <2> SUFFICES ASSUME NEW y \in terminating PROVE FALSE OBVIOUS
  <2>1. y.ctx \in Ports BY <1>1, TokenFacts DEF Ports
  <2> QED BY <1>0, <1>2, <2>1 DEF SignalDue
<1>4. LockFree BY <1>0, <1>2 DEF LockFree, CallGoesOn, Ports
<1>5. ASSUME NEW k \in Calls
      PROVE  /\ stage[k] \notin {"prepared", "terminate"} /\ WorkToken(k) \notin signaled
             /\ stage[k] \in Begun => level[k] = "over"
  <2>0. ~CallGoesOn(k) /\ ~CallbackGoesOn(k) /\ TokenPlaces(k) /\ TokensGoOn(k)
        /\ stage[k] \in Stages /\ level[k] \in Levels
    BY <1>0, <1>1
  <2>1. stage[k] # "terminate" BY <2>0 DEF CallGoesOn, TokenPlaces
  <2>2. stage[k] # "prepared"
    <3> SUFFICES ASSUME stage[k] = "prepared" PROVE FALSE OBVIOUS
    <3>1. level[k] = "none" BY <2>0, StageFacts DEF TokenPlaces
    <3>2. CompletionToken(k) \notin prepared \cup terminating \cup signaled
      BY <2>0, <3>1, StageFacts DEF TokenPlaces
    <3>3. CompletionToken(k).id \notin finished BY <2>0, <3>1 DEF TokensGoOn
    <3>4. \A y \in Tokens : y.id = CompletionToken(k).id => y = CompletionToken(k) BY TokenFacts
    <3>5. NewToken(CompletionToken(k)) BY <1>1, <3>2, <3>3, <3>4 DEF NewToken
    <3> QED BY <2>0, <3>5 DEF CallGoesOn
  <2>3. WorkToken(k) \notin signaled
    <3> SUFFICES ASSUME WorkToken(k) \in signaled PROVE FALSE OBVIOUS
    <3>1. stage[k] \in Begun BY <2>0 DEF TokenPlaces
    <3>2. level[k] = "none" => CompletionToken(k) \in prepared BY <2>0, <3>1 DEF TokenPlaces
    <3> QED BY <2>0, <3>2 DEF CallbackGoesOn
  <2>4. ASSUME stage[k] \in Begun PROVE level[k] = "over"
    <3>1. level[k] # "none" BY <1>3, <2>0, <2>3, <2>4 DEF TokensGoOn
    <3>2. level[k] # "chained" BY <1>3, <2>0 DEF TokensGoOn, CallbackGoesOn, CompletionDue
    <3>3. level[k] # "called" BY <1>4, <2>0 DEF CallbackGoesOn
    <3>4. level[k] # "signaled" BY <2>0 DEF CallbackGoesOn, TokenPlaces
    <3> QED BY <2>0, <3>1, <3>2, <3>3, <3>4 DEF Levels
  <2> QED BY <2>1, <2>2, <2>3, <2>4
<1>6. ASSUME NEW k \in Calls PROVE stage[k] # "begun"
  <2> SUFFICES ASSUME stage[k] = "begun" PROVE FALSE OBVIOUS
  <2>1. level[k] = "over" BY <1>5, StageFacts
  <2>2. terminated BY <2>1 DEF TokensGoOn
  <2> QED BY <1>0, <1>4, <2>2 DEF CallGoesOn
<1>7. ASSUME NEW k \in Calls PROVE stage[k] \in {"idle", "failed", "done"}
  <2>1. stage[k] \in Stages /\ stage[k] \notin {"prepared", "terminate", "begun", "unwindWork", "unwindCompletion"}
    BY <1>1, <1>4, <1>5, <1>6 DEF LockFree
  <2> QED BY <2>1 DEF Stages
<1> QED BY <1>5, <1>7, StageFacts

(* No call of Terminate and no callback waits for ever: neither for the    *)
(* lock that a waiting Terminate holds while the ports unwind, nor for a   *)
(* termination that a suspension keeps back, nor for m_termination.        *)
(* terminated; and when the last handle is closed the references come down *)
(* to zero and the queue is deleted.  What System has left to do is spelled*)
(* out by Busy, so that no step is possible only when all this is over.    *)
THEOREM ComesToRest == Spec => []NothingStuck
<1>1. ASSUME QueueInv, GoesOnInv PROVE NothingStuck
  <2> SUFFICES ASSUME ~Busy
               PROVE  /\ accepted = {} /\ ready = {} /\ running = {}
                      /\ \A k \in Calls : stage[k] \in {"idle", "failed", "done"}
                      /\ \A k \in Calls : stage[k] = "done" => called[k] = 1
                      /\ handles = 0 => deleted
    BY DEF NothingStuck
  <2>0. /\ ItemInv /\ CallInv /\ HoldInv /\ Balance /\ ItemsGoOn /\ deleted \in BOOLEAN
        /\ \A k \in Calls : TokensGoOn(k) /\ TokenPlaces(k)
        /\ prepared \subseteq Tokens /\ terminating \subseteq Tokens /\ signaled \subseteq Tokens
    BY <1>1 DEF QueueInv, GoesOnInv, CallInv
  <2>1. accepted = {} /\ submitting = {} /\ ready = {} /\ running = {} /\ leaving = {}
    BY <2>0, ItemsRest
  <2>2. \A k \in Calls : /\ stage[k] \in {"idle", "failed", "done"}
                         /\ stage[k] = "done" => level[k] = "over"
                         /\ WorkToken(k) \notin signaled
    BY <2>0, <2>1, CallsRest
  <2>3. ASSUME NEW k \in Calls
        PROVE  /\ stage[k] = "done" => called[k] = 1
               /\ level[k] \in {"none", "over"} /\ (stage[k] \in Begun => level[k] = "over")
    <3>1. stage[k] \in Begun => stage[k] = "done" BY <2>2, StageFacts
    <3> QED BY <2>0, <2>2, <3>1, StageFacts DEF TokenPlaces
  <2>4. ASSUME handles = 0 PROVE deleted
    <3>1. prepared = {} /\ terminating = {} /\ signaled = {}
      <4> SUFFICES ASSUME NEW y \in prepared \cup terminating \cup signaled PROVE FALSE OBVIOUS
      <4>1. PICK k \in Calls : y = WorkToken(k) \/ y = CompletionToken(k) BY <2>0, TokenFacts
      <4>2. TokenPlaces(k) /\ stage[k] \in {"idle", "failed", "done"} BY <2>0, <2>2
      <4>3. y \notin prepared BY <2>3, <4>1, <4>2 DEF TokenPlaces
      <4>4. y \notin terminating BY <2>3, <4>1, <4>2 DEF TokenPlaces
      <4>5. y \notin signaled BY <2>2, <2>3, <4>1, <4>2 DEF TokenPlaces
      <4> QED BY <4>3, <4>4, <4>5
    <3>2. refs = 0
      <4>1. N({}) = 0 BY FS_EmptySet DEF N
      <4>2. ItemRefs = 0 BY <2>1, <4>1 DEF ItemRefs
      <4>3. InCall = {} /\ InWait = {} /\ Entered = {} /\ InWorkBack = {} /\ InBack = {}
        <5>1. InCall = {} /\ InWait = {}
          BY <2>0, <2>2 DEF InCall, InWait, Under, Unwinding, CallInv
        <5>2. Entered = {} /\ InBack = {} BY <2>3 DEF Entered, InBack
        <5>3. InWorkBack = {} BY <2>2 DEF InWorkBack
        <5> QED BY <5>1, <5>2, <5>3
      <4>4. CallRefs = 0 BY <4>1, <4>3 DEF CallRefs
      <4> QED BY <2>0, <2>4, <4>2, <4>4 DEF Balance
    <3>3. ~RundownDue BY DEF Busy
    <3> QED BY <2>0, <2>1, <3>1, <3>2, <3>3 DEF RundownDue
  <2> QED BY <2>1, <2>2, <2>3, <2>4
<1> QED BY <1>1, QueueInvariant, GoesOnInvariant, PTL
=============================================================================
