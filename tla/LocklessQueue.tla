--------------------------- MODULE LocklessQueue ---------------------------
(***************************************************************************)
(* LocklessQueue.h: the lock-free list under every list of a task queue    *)
(* port.  A list is a chain of nodes that starts at a dummy; push links a  *)
(* node behind the tail, pop moves the head one node on and hands out the  *)
(* old dummy together with the data of the new one.  Nodes come from a heap*)
(* whose free nodes form a list of the same kind, and remove_if moves what *)
(* it keeps through a list of its own.  A step is one access to an atomic; *)
(* data written by the only owner of a node goes with the step around it.  *)
(***************************************************************************)
EXTENDS Integers, Sequences, FiniteSets

CONSTANTS
    Producers,  \* threads that call push_back
    Consumers,  \* threads that call pop_front
    Removers,   \* threads that call remove_if; each one's retain list has its name
    Size,       \* nodes of the heap's block (m_blockSize)
    MaxPush,    \* bound: calls of push_back
    MaxRemove,  \* bound: calls of remove_if
    MaxCalls    \* bound: all calls, where a remove_if counts for RemoveWeight

Threads == Producers \cup Consumers \cup Removers
Nodes   == 1 .. Size

\* m_freeList of the heap, the queue's m_activeList, and the retain lists
Lists == {"free", "main"} \cup Removers

ASSUME SizeAssumption == Size \in Nat /\ Size >= 2
ASSUME BoundsAssumption == MaxPush \in Nat /\ MaxRemove \in Nat /\ MaxCalls \in Nat
ASSUME RolesAssumption == {"free", "main"} \cap Removers = {}

VARIABLES
    next,     \* Node::next
    data,     \* Node::data
    head,     \* List::m_head
    tail,     \* List::m_tail
    lock,     \* LocklessQueue::m_lock
    pc, loc,  \* control and locals of each thread
    pushes, pops, removes,  \* calls begun
    accepted, \* history: values whose push_back returned true
    taken,    \* history: values handed out by pop_front, in the order of its exchange
    removed,  \* history: values remove_if took out
    seen,     \* history: the pops during which the queue was empty at some moment
    strayed   \* history: a push was linked behind a node that was not in its list

memory == <<next, data, head, tail, lock>>
counts == <<pushes, pops, removes>>
hist   == <<accepted, taken, removed, seen, strayed>>
vars   == <<memory, pc, loc, counts, hist>>

-----------------------------------------------------------------------------

NoVal == 0

\* An Address: a node and its ABA counter, 16 bits wide.
Aba == 65536
Addr(n, k) == [node |-> n, aba |-> k]

\* address.aba++ of push; the mutant is a push that forgets it.
BumpedNot(a) == a
Bumped(a) == [a EXCEPT !.aba = (@ + 1) % Aba]

\* m_end is block 0, index 0 on the free list and index 1 on every other list.
End(l) == Addr(IF l = "free" THEN 0 ELSE -1, 0)

Address == [node : -1 .. Size, aba : 0 .. Aba - 1]

\* Addresses of a list operation, what it returns to, and its value
Fresh == [list |-> "main", at |-> End("main"), head |-> End("main"), tail |-> End("main"),
          next |-> End("main"), val |-> NoVal, item |-> NoVal, ret |-> "idle"]

(* Heap::init and Initialize: node 1 is the dummy of the main list, the    *)
(* others are free, chained from the last one, the free list's dummy.      *)
Init ==
    /\ next = [n \in Nodes |-> CASE n = 1 -> End("main")
                                 [] n = 2 -> End("free")
                                 [] OTHER -> Addr(n - 1, 0)]
    /\ data = [n \in Nodes |-> NoVal]
    /\ head = [l \in Lists |-> IF l = "free" THEN Addr(Size, 0) ELSE Addr(1, 0)]
    /\ tail = [l \in Lists |-> IF l = "free" THEN Addr(2, 0) ELSE Addr(1, 0)]
    /\ lock = FALSE
    /\ pc = [t \in Threads |-> "idle"]
    /\ loc = [t \in Threads |-> Fresh]
    /\ pushes = 0 /\ pops = 0 /\ removes = 0
    /\ accepted = {} /\ taken = <<>> /\ removed = {}
    /\ seen = {} /\ strayed = FALSE

Goto(t, l)  == pc' = [pc EXCEPT ![t] = l] /\ UNCHANGED loc
Go(t, l, r) == pc' = [pc EXCEPT ![t] = l] /\ loc' = [loc EXCEPT ![t] = r]

(* List::push of address a on list l: node->next = m_end and aba++, then   *)
(* push_range.  When it is done the thread is idle, or pops the list that  *)
(* r belongs to and goes on at r.                                          *)
Push(t, l, a, r) ==
    /\ next' = [next EXCEPT ![a.node] = End(l)]
    /\ Go(t, "loadTail", [loc[t] EXCEPT !.list = l, !.at = Bumped(a), !.ret = r])

\* The locals of List::pop of list l, which goes on at r.
Popping(t, l, r) == [loc[t] EXCEPT !.list = l, !.ret = r, !.val = NoVal]
Pop(t, l, r) == Go(t, "pop", Popping(t, l, r))
From(t, r)   == IF r = "took" THEN "main" ELSE t

\* A bound on the calls that are begun; a remove_if takes many more steps than others.
RemoveWeight == 3
Begun == pushes + pops + RemoveWeight * removes

\* The nodes of list l behind its dummy, in order.
Chain(l) ==
    LET walk[n \in -1 .. Size, k \in 0 .. Size] ==
            IF k = 0 \/ n \notin Nodes THEN <<>>
            ELSE <<n>> \o walk[next[n].node, k - 1]
    IN walk[next[head[l].node].node, Size]

\* Node n is in the queue, as its dummy or behind it.
InQueue(n) == n = head["main"].node \/ \E k \in DOMAIN Chain("main") : Chain("main")[k] = n

Empty == next[head["main"].node] = End("main")

-----------------------------------------------------------------------------
(* push_range                                                              *)

LoadTail(t) ==
    /\ pc[t] = "loadTail"
    /\ Go(t, "loadTailNext", [loc[t] EXCEPT !.tail = tail[loc[t].list]])
    /\ UNCHANGED <<memory, counts, hist>>

\* The load of next and the second look at m_tail are one step: ABA counters do not
\* come round here, so a tail that is still the same has been it throughout.
LoadTailNext(t) ==
    LET l == loc[t].list
        n == next[loc[t].tail.node]
    IN /\ pc[t] = "loadTailNext"
       /\ IF loc[t].tail # tail[l] THEN Goto(t, "loadTail")
          ELSE Go(t, IF n = End(l) THEN "link" ELSE "help", [loc[t] EXCEPT !.next = n])
       /\ UNCHANGED <<memory, counts, hist>>

\* What compare_exchange of next expects; the mutant does not compare.
SameNextAny(t) == TRUE
SameNext(t) == next[loc[t].tail.node] = loc[t].next

\* compare_exchange of the tail node's next: the push takes effect here.
Link(t) ==
    LET n == loc[t].tail.node
    IN /\ pc[t] = "link"
       /\ IF SameNext(t)
          THEN /\ next' = [next EXCEPT ![n] = loc[t].at]
               /\ strayed' = (strayed \/ (loc[t].list = "main" /\ ~InQueue(n)))
               /\ Goto(t, "swing")
          ELSE UNCHANGED <<next, strayed>> /\ Goto(t, "loadTail")
       /\ UNCHANGED <<data, head, tail, lock, counts, accepted, taken, removed, seen>>

\* compare_exchange of m_tail, which may be behind
SwapTail(t, new) ==
    LET l == loc[t].list
    IN tail' = IF tail[l] = loc[t].tail THEN [tail EXCEPT ![l] = new] ELSE tail

Help(t) ==
    /\ pc[t] = "help"
    /\ SwapTail(t, loc[t].next)
    /\ Goto(t, "loadTail")
    /\ UNCHANGED <<next, data, head, lock, counts, hist>>

Swing(t) ==
    /\ pc[t] = "swing"
    /\ SwapTail(t, loc[t].at)
    /\ accepted' = accepted \cup (IF loc[t].list = "main" THEN {loc[t].item} \ {NoVal} ELSE {})
    /\ LET r == loc[t].ret
       IN IF r = "idle" THEN Go(t, "idle", Fresh) ELSE Pop(t, From(t, r), r)
    /\ UNCHANGED <<next, data, head, lock, counts, taken, removed, seen, strayed>>

-----------------------------------------------------------------------------
(* List::pop: at the label ret the locals hold the node, or m_end, and the *)
(* value.                                                                  *)

\* The loads of m_head and m_tail are one step, for the reason given at LoadTailNext.
LoadHead(t) ==
    /\ pc[t] = "pop"
    /\ Go(t, "popNext", [loc[t] EXCEPT !.head = head[loc[t].list], !.tail = tail[loc[t].list]])
    /\ UNCHANGED <<memory, counts, hist>>

\* to_node(next)->data; see DereferencesNodes
Value(a) == IF a.node \in Nodes THEN data[a.node] ELSE NoVal

\* pop finds nothing: head is the tail and has no next.  In the mutant pop_front does
\* not look at next, which is set before the tail follows.
ExhaustedByTail(r, n) == r.head = r.tail /\ (n = End(r.list) \/ r.ret = "popped")
Exhausted(r, n) == r.head = r.tail /\ n = End(r.list)

\* As in LoadTailNext, the second look at m_head goes with the load of next.
PopLoadNext(t) ==
    LET r == loc[t]
        n == next[r.head.node]
    IN /\ pc[t] = "popNext"
       /\ \/ r.head # head[r.list] /\ Goto(t, "pop")
          \/ /\ r.head = head[r.list] /\ Exhausted(r, n)
             /\ Go(t, r.ret, [r EXCEPT !.at = End(r.list)])
          \/ /\ r.head = head[r.list] /\ r.head = r.tail /\ ~Exhausted(r, n)
             /\ Go(t, "popHelp", [r EXCEPT !.next = n])
          \/ /\ r.head = head[r.list] /\ r.head # r.tail
             /\ Go(t, "swapHead", [r EXCEPT !.next = n, !.val = Value(n)])
       /\ UNCHANGED <<memory, counts, hist>>

PopHelp(t) ==
    /\ pc[t] = "popHelp"
    /\ SwapTail(t, loc[t].next)
    /\ Goto(t, "pop")
    /\ UNCHANGED <<next, data, head, lock, counts, hist>>

\* compare_exchange of m_head: the pop takes effect here.
SwapHead(t) ==
    LET r == loc[t]
    IN /\ pc[t] = "swapHead"
       /\ IF head[r.list] = r.head
          THEN /\ head' = [head EXCEPT ![r.list] = r.next]
               /\ data' = [data EXCEPT ![r.head.node] = NoVal]
               /\ Go(t, r.ret, [r EXCEPT !.at = r.head])
               /\ taken' = IF r.ret = "popped" THEN Append(taken, r.val) ELSE taken
               /\ UNCHANGED next
               /\ seen' = IF Empty' THEN seen \cup {c \in Consumers : pc[c] # "idle"} ELSE seen
          ELSE Goto(t, "pop") /\ UNCHANGED <<next, head, data, taken, seen>>
       /\ UNCHANGED <<tail, lock, counts, accepted, removed, strayed>>

-----------------------------------------------------------------------------
(* push_back: Heap::alloc takes a node from the free list; when there is   *)
(* none and no block can be allocated, push_back returns false.            *)

\* The value of a push is its number: all pushed values differ.
PushBack(t) ==
    /\ t \in Producers /\ pc[t] = "idle" /\ pushes < MaxPush /\ Begun < MaxCalls
    /\ pushes' = pushes + 1
    /\ Go(t, "pop", [Fresh EXCEPT !.list = "free", !.ret = "alloc", !.item = pushes + 1])
    /\ UNCHANGED <<memory, pops, removes, hist>>

\* pop returned a node, not nullptr.
Got(t) == loc[t].at # End(loc[t].list)

\* node->data = data, then push on the list
Store(t, l, v, r) ==
    /\ data' = [data EXCEPT ![loc[t].at.node] = v]
    /\ Push(t, l, loc[t].at, r)
    /\ UNCHANGED <<head, tail, lock, counts, hist>>

\* Heap::free
Free(t, a, r) ==
    /\ Push(t, "free", a, r)
    /\ UNCHANGED <<data, head, tail, lock, counts>>

MoveBack(t) ==
    /\ pc[t] = "alloc" /\ Got(t)
    /\ Store(t, "main", loc[t].item, "idle")

\* reserve_node allocates as push_back does; a caller may give the node back, free_node.
FreeNode(t) ==
    /\ pc[t] = "alloc" /\ Got(t)
    /\ Free(t, loc[t].at, "idle")
    /\ UNCHANGED hist

PushFails(t) ==
    /\ pc[t] = "alloc" /\ ~Got(t)
    /\ Go(t, "idle", Fresh)
    /\ UNCHANGED <<memory, counts, hist>>

(* pop_front: the node goes back to the heap, Heap::free.                  *)
PopFront(t) ==
    /\ t \in Consumers /\ pc[t] = "idle" /\ Begun < MaxCalls
    /\ pops' = pops + 1
    /\ seen' = IF Empty THEN seen \cup {t} ELSE seen \ {t}
    /\ Go(t, "pop", [Fresh EXCEPT !.ret = "popped"])
    /\ UNCHANGED <<memory, pushes, removes, accepted, taken, removed, strayed>>

PopReturns(t) ==
    /\ pc[t] = "popped"
    /\ IF Got(t) THEN Free(t, loc[t].at, "idle")
       ELSE Go(t, "idle", Fresh) /\ UNCHANGED <<memory, counts>>
    /\ UNCHANGED hist

-----------------------------------------------------------------------------
(* remove_if: all entries are popped under m_lock, the kept ones pushed on *)
(* a retain list that shares the heap, and from there pushed back.         *)

RemoveIf(t) ==
    /\ t \in Removers /\ pc[t] = "idle" /\ removes < MaxRemove
    /\ Begun + RemoveWeight <= MaxCalls
    /\ removes' = removes + 1
    /\ Go(t, "pop", [Fresh EXCEPT !.list = "free", !.ret = "retain"])
    /\ UNCHANGED <<memory, pushes, pops, hist>>

\* The constructor of retain: Initialize takes its dummy from the shared heap.  (Without
\* one it would go on with m_end as its head; the model stops there.)
Retain(t) ==
    /\ pc[t] = "retain" /\ Got(t)
    /\ next' = [next EXCEPT ![loc[t].at.node] = End(t)]
    /\ head' = [head EXCEPT ![t] = loc[t].at]
    /\ tail' = [tail EXCEPT ![t] = loc[t].at]
    /\ Goto(t, "lock")
    /\ UNCHANGED <<data, lock, counts, hist>>

Lock(t) ==
    /\ pc[t] = "lock" /\ ~lock
    /\ lock' = TRUE
    /\ Pop(t, "main", "took")
    /\ UNCHANGED <<next, data, head, tail, counts, hist>>

\* The callback keeps the entry (the mutant forgets it) ...
KeepNot(t) ==
    /\ pc[t] = "took" /\ Got(t)
    /\ Free(t, loc[t].at, "took")
    /\ UNCHANGED hist

Keep(t) ==
    /\ pc[t] = "took" /\ Got(t)
    /\ Store(t, t, loc[t].val, "took")

\* ... or takes it out, and with it the node, which it frees.
TakeOut(t) ==
    /\ pc[t] = "took" /\ Got(t)
    /\ removed' = removed \cup {loc[t].val}
    /\ Free(t, loc[t].at, "took")
    /\ UNCHANGED <<accepted, taken, seen, strayed>>

\* The main list is empty: give back.
GiveBack(t) ==
    /\ pc[t] = "took" /\ ~Got(t)
    /\ Pop(t, t, "gave")
    /\ UNCHANGED <<memory, counts, hist>>

Give(t) ==
    /\ pc[t] = "gave" /\ Got(t)
    /\ Store(t, "main", loc[t].val, "gave")

Unlock(t) ==
    /\ pc[t] = "gave" /\ ~Got(t)
    /\ lock' = FALSE
    /\ Pop(t, t, "drop")
    /\ UNCHANGED <<next, data, head, tail, counts, hist>>

\* The destructor of retain frees what is left in it and then its dummy.
Drop(t) ==
    /\ pc[t] = "drop" /\ Got(t)
    /\ Free(t, loc[t].at, "drop")
    /\ UNCHANGED hist

FreeDummy(t) ==
    /\ pc[t] = "drop" /\ ~Got(t)
    /\ Free(t, head[t], "idle")
    /\ UNCHANGED hist

-----------------------------------------------------------------------------

Contents == LET c == Chain("main") IN [k \in DOMAIN c |-> data[c[k]]]

Step(t) ==
    \/ LoadTail(t) \/ LoadTailNext(t) \/ Link(t) \/ Help(t) \/ Swing(t)
    \/ LoadHead(t) \/ PopLoadNext(t) \/ PopHelp(t) \/ SwapHead(t)
    \/ MoveBack(t) \/ FreeNode(t) \/ PushFails(t) \/ PopReturns(t)
    \/ Retain(t) \/ Lock(t) \/ Keep(t) \/ TakeOut(t) \/ GiveBack(t) \/ Give(t)
    \/ Unlock(t) \/ Drop(t) \/ FreeDummy(t)

Next == \E t \in Threads : PushBack(t) \/ PopFront(t) \/ RemoveIf(t) \/ Step(t)

Spec == Init /\ [][Next]_vars

-----------------------------------------------------------------------------
(* Properties                                                              *)

Labels == {"idle", "loadTail", "loadTailNext", "link", "help", "swing", "pop", "popNext",
           "popHelp", "swapHead", "alloc", "popped", "retain", "lock", "took", "gave", "drop"}

\* Types; every head and tail is the address of a node, and a next that is no node's
\* address is the m_end of some list.
TypeOK ==
    /\ \A n \in Nodes : next[n] \in Address
    /\ \A n \in Nodes : next[n].node \in Nodes \/ \E l \in Lists : next[n] = End(l)
    /\ data \in [Nodes -> 0 .. MaxPush]
    /\ \A l \in Lists : head[l].node \in Nodes /\ tail[l].node \in Nodes
    /\ lock \in BOOLEAN /\ strayed \in BOOLEAN
    /\ pc \in [Threads -> Labels]
    /\ accepted \subseteq 1 .. MaxPush /\ removed \subseteq 1 .. MaxPush
    /\ seen \subseteq Consumers

\* The lists are well formed, and the address a thread is about to follow is that of a
\* node: a counter that does not tell a recycled head from the one that was read would
\* send pop through m_end, which to_node resolves to no block.
DereferencesNodes ==
    /\ TypeOK
    /\ \A t \in Threads :
        pc[t] \in {"swapHead", "popHelp", "help"} => loc[t].next.node \in Nodes

Quiet == \A t \in Threads : pc[t] = "idle"

\* Where value v is: in the queue, handed out, or taken out by remove_if.
Places(v) ==
    Cardinality({k \in DOMAIN Contents : Contents[k] = v})
    + Cardinality({k \in DOMAIN taken : taken[k] = v})
    + Cardinality(removed \cap {v})

\* What push_back accepted is in the queue until pop_front or remove_if takes it.
NothingLost == Quiet => \A v \in accepted : Places(v) = 1

\* A stale push that met remove_if: node->next = m_end carries no counter, and the
\* retain list has the queue's own m_end, so the exchange of Link may succeed on a
\* node that has left the list (the run list_lost shows what becomes of the value).
Crossed == strayed /\ removes > 0

\* No node leaks and none is in two lists: the chain of the queue, that of the heap
\* and the two dummies are the whole block again when nobody is inside.
NodesReturned == Quiet => Len(Chain("main")) + Len(Chain("free")) + 2 = Size

\* With stale pushes, recycled nodes and remove_if, but for Crossed, no accepted value
\* and no node is lost, and none is in two places.
Conserved == Crossed \/ (NothingLost /\ NodesReturned)

\* pop_front returns false only if the queue was empty at some moment of the call.
MissesOnlyEmpty == \A t \in Consumers : (pc[t] = "popped" /\ ~Got(t)) => t \in seen

Fifo == INSTANCE FifoQueue WITH q <- Contents, moving <- lock, stray <- strayed

\* The list with its heap, retries and helping implements a first-in-first-out queue
\* whose push is the exchange of next and whose pop is the exchange of m_head.
FifoOrder == Fifo!Spec
=============================================================================
