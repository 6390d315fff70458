------------------------ MODULE LocklessQueueProofs ------------------------
(* Proofs about LocklessQueue, for any threads, block size and bounds: no  *)
(* operation ever follows an address that is not a node's, and pop_front   *)
(* misses only an empty queue.                                             *)
EXTENDS LocklessQueue, TLAPS

Rets == {"idle", "alloc", "popped", "retain", "took", "gave", "drop"}

Locals == [list : Lists, at : Address, head : Address, tail : Address, next : Address,
           val : 0 .. MaxPush, item : 0 .. MaxPush, ret : Rets]

MemType ==
    /\ next \in [Nodes -> Address]
    /\ \A n \in Nodes : next[n].node \in Nodes \/ \E l \in Lists : next[n] = End(l)
    /\ data \in [Nodes -> 0 .. MaxPush]
    /\ head \in [Lists -> Address] /\ tail \in [Lists -> Address]
    /\ \A l \in Lists : head[l].node \in Nodes /\ tail[l].node \in Nodes

LocType == pc \in [Threads -> Labels] /\ loc \in [Threads -> Locals]

HistInv ==
    /\ lock \in BOOLEAN /\ strayed \in BOOLEAN /\ pushes \in Nat
    /\ accepted \subseteq 1 .. MaxPush /\ removed \subseteq 1 .. MaxPush
    /\ seen \subseteq Consumers

\* Inside List::pop, inside push_range before the exchange of next, and back from pop.
PopPcs  == {"pop", "popNext", "popHelp", "swapHead"}
LinkPcs == {"loadTail", "loadTailNext", "link", "help"}
HoldPcs == {"alloc", "popped", "retain", "took", "gave", "drop"}

\* The list that a pop which returns to r looks at.
ListOf(t, r) == IF r \in {"alloc", "retain"} THEN "free"
                ELSE IF r \in {"popped", "took"} THEN "main" ELSE t

\* Which list thread t, at p with locals r, works on and where it returns to.
Ctl(t, p, r) ==
    /\ p \in PopPcs \cup HoldPcs => r.ret \in HoldPcs /\ r.list = ListOf(t, r.ret)
    /\ p \in HoldPcs => r.ret = p
    /\ p \in LinkPcs \cup {"swing"} =>
          /\ r.ret \in {"idle", "took", "gave", "drop"}
          /\ r.list = "free" \/ r.list = "main" \/ (r.list = t /\ r.ret = "took")
    /\ p = "idle" => r.ret = "idle"
    /\ p = "lock" => r.ret = "retain"
    /\ r.ret \in {"retain", "took", "gave", "drop"} => t \in Removers
    /\ r.ret = "popped" => t \in Consumers
    /\ r.ret = "alloc" => r.item >= 1

CtlInv == \A t \in Threads : Ctl(t, pc[t], loc[t])

Kinds == MemType /\ LocType /\ HistInv /\ CtlInv

\* What a step follows or hands over is a node, and a value that was pushed.
Sound(t) ==
    /\ pc[t] \in {"loadTailNext", "link"} => loc[t].tail.node \in Nodes
    /\ pc[t] \in {"popNext", "swapHead"} => loc[t].head.node \in Nodes
    /\ pc[t] \in LinkPcs \cup {"swing"} => loc[t].at.node \in Nodes
    /\ pc[t] \in {"help", "popHelp", "swapHead"} => loc[t].next.node \in Nodes
    /\ pc[t] \in HoldPcs /\ Got(t) =>
          loc[t].at.node \in Nodes /\ (loc[t].list # "free" => loc[t].val >= 1)

\* t moves to l; no other thread moves.
Moves(t, l) ==
    /\ pc'[t] = l
    /\ \A u \in Threads \ {t} : pc'[u] = pc[u] /\ loc'[u] = loc[u]

-----------------------------------------------------------------------------

LEMMA EndFacts ==
    /\ \A l : End(l).node \notin Nodes /\ End(l) \in Address
    /\ \A l, m : End(l) = End(m) <=> (l = "free" <=> m = "free")
<1>1. \A l : End(l).node = (IF l = "free" THEN 0 ELSE -1) /\ End(l).aba = 0 BY DEF End, Addr
<1>2. \A l : End(l) \in Address BY SizeAssumption DEF End, Addr, Address, Aba
<1>3. \A l, m : End(l) = End(m) <=> (l = "free" <=> m = "free") BY DEF End, Addr
<1> QED BY <1>1, <1>2, <1>3 DEF Nodes

LEMMA BumpType == \A a \in Address : /\ Bumped(a) \in Address
                                     /\ Bumped(a).node = a.node
                                     /\ a.aba + 1 < Aba => Bumped(a).aba = a.aba + 1
<1>1. \A k \in Nat : k % Aba \in 0 .. Aba - 1 BY DEF Aba
<1>2. \A k \in Nat : k < Aba => k % Aba = k BY DEF Aba
<1>3. \A k \in 0 .. Aba - 1 : k + 1 \in Nat BY DEF Aba
<1> QED BY <1>1, <1>2, <1>3 DEF Bumped, Address

LEMMA SameAddress ==
    \A a, b \in Address : a.node = b.node /\ a.aba = b.aba => a = b
<1>1. \A a \in Address : a = [node |-> a.node, aba |-> a.aba] BY DEF Address
<1> QED BY <1>1

LEMMA FreshType == Fresh \in Locals
BY EndFacts, BoundsAssumption DEF Fresh, Locals, Lists, Rets, NoVal

LEMMA NodeFacts ==
    /\ 1 \in Nodes /\ 2 \in Nodes /\ Size \in Nodes
    /\ \A n \in Nodes : n # 1 => n - 1 \in Nodes
    /\ \A n \in Nodes : Addr(n, 0) \in Address /\ Addr(n, 0).node = n /\ Addr(n, 0).aba = 0
<1>1. 1 \in Nodes /\ 2 \in Nodes /\ Size \in Nodes BY SizeAssumption DEF Nodes
<1>2. \A n \in Nodes : n # 1 => n - 1 \in Nodes BY SizeAssumption DEF Nodes
<1>3. \A n \in Nodes : Addr(n, 0) \in Address /\ Addr(n, 0).node = n /\ Addr(n, 0).aba = 0
  BY DEF Addr, Address, Nodes, Aba
<1> QED BY <1>1, <1>2, <1>3

LEMMA GoEffect ==
    ASSUME NEW t \in Threads, NEW l, NEW r, LocType, Go(t, l, r)
    PROVE  Moves(t, l) /\ loc'[t] = r
BY DEF LocType, Go, Moves

LEMMA GotoEffect ==
    ASSUME NEW t \in Threads, NEW l, LocType, Goto(t, l)
    PROVE  Moves(t, l) /\ loc'[t] = loc[t] /\ Go(t, l, loc[t])
BY DEF LocType, Goto, Moves, Go

LEMMA GoKinds ==
    ASSUME NEW t \in Threads, NEW l \in Labels, NEW r \in Locals, LocType, CtlInv,
           Go(t, l, r), Ctl(t, l, r)
    PROVE  LocType' /\ CtlInv'
<1>1. LocType' BY DEF LocType, Go
<1>2. ASSUME NEW u \in Threads PROVE Ctl(u, pc[u], loc[u])'
  <2>1. CASE u = t
    <3>1. pc'[t] = l /\ loc'[t] = r BY DEF LocType, Go
    <3> QED BY <2>1, <3>1 DEF Ctl, ListOf
  <2>2. CASE u # t
    <3>1. pc'[u] = pc[u] /\ loc'[u] = loc[u] BY <2>2 DEF LocType, Go
    <3>2. Ctl(u, pc[u], loc[u]) BY DEF CtlInv
    <3> QED BY <3>1, <3>2 DEF Ctl, ListOf
  <2> QED BY <2>1, <2>2
<1> QED BY <1>1, <1>2 DEF CtlInv

LEMMA InitKinds == Init => Kinds
<1> SUFFICES ASSUME Init PROVE Kinds OBVIOUS
<1>1. ASSUME NEW n \in Nodes
      PROVE  next[n] \in Address /\ (next[n].node \in Nodes \/ \E l \in Lists : next[n] = End(l))
  <2>0. "free" \in Lists /\ "main" \in Lists BY DEF Lists
  <2>1. CASE n = 1 BY <2>0, <2>1, EndFacts DEF Init
  <2>2. CASE n = 2 BY <2>0, <2>2, EndFacts DEF Init
  <2>3. CASE n # 1 /\ n # 2
    <3>1. next[n] = Addr(n - 1, 0) BY <2>3 DEF Init
    <3> QED BY <3>1, <2>3, NodeFacts
  <2> QED BY <2>1, <2>2, <2>3
<1>2. next \in [Nodes -> Address] BY <1>1 DEF Init
<1>3. /\ head \in [Lists -> Address] /\ tail \in [Lists -> Address]
      /\ \A l \in Lists : head[l].node \in Nodes /\ tail[l].node \in Nodes
  BY NodeFacts DEF Init
<1>4. data \in [Nodes -> 0 .. MaxPush] BY BoundsAssumption DEF Init, NoVal
<1>5. pc \in [Threads -> Labels] /\ loc \in [Threads -> Locals]
  BY FreshType DEF Init, Labels
<1>6. HistInv BY DEF Init, HistInv
<1>7. CtlInv
  <2>1. \A t \in Threads : pc[t] = "idle" /\ loc[t].ret = "idle" BY DEF Init, Fresh
  <2> QED BY <2>1 DEF CtlInv, Ctl, PopPcs, LinkPcs, HoldPcs
<1> QED BY <1>1, <1>2, <1>3, <1>4, <1>5, <1>6, <1>7 DEF Kinds, MemType, LocType

-----------------------------------------------------------------------------
(* Types and control.                                                      *)

LEMMA SameMem ==
    ASSUME MemType, UNCHANGED <<next, data, head, tail>>
    PROVE  MemType'
BY DEF MemType

LEMMA TailMem ==
    ASSUME NEW t \in Threads, NEW a \in Address, a.node \in Nodes, loc[t].list \in Lists,
           MemType, SwapTail(t, a), UNCHANGED <<next, data, head>>
    PROVE  MemType'
<1>1. tail' \in [Lists -> Address] /\ \A l \in Lists : tail'[l].node \in Nodes
  <2>1. CASE tail[loc[t].list] = loc[t].tail
    <3>1. tail' = [tail EXCEPT ![loc[t].list] = a] BY <2>1 DEF SwapTail
    <3> QED BY <3>1 DEF MemType
  <2>2. CASE tail[loc[t].list] # loc[t].tail
    <3>1. tail' = tail BY <2>2 DEF SwapTail
    <3> QED BY <3>1 DEF MemType
  <2> QED BY <2>1, <2>2
<1> QED BY <1>1 DEF MemType

LEMMA NextMem ==
    ASSUME NEW n \in Nodes, NEW a \in Address,
           a.node \in Nodes \/ \E l \in Lists : a = End(l), MemType,
           next' = [next EXCEPT ![n] = a], UNCHANGED <<head, tail>>,
           data' \in [Nodes -> 0 .. MaxPush]
    PROVE  MemType'
BY DEF MemType

LEMMA PushKinds ==
    ASSUME NEW t \in Threads, NEW l \in Lists, NEW a \in Address, NEW r \in Rets,
           a.node \in Nodes, MemType, LocType, CtlInv, Push(t, l, a, r),
           data' \in [Nodes -> 0 .. MaxPush], UNCHANGED <<head, tail>>,
           r \in {"idle", "took", "gave", "drop"}, r # "idle" => t \in Removers,
           l = "free" \/ l = "main" \/ (l = t /\ r = "took")
    PROVE  MemType' /\ LocType' /\ CtlInv'
<1>1. MemType'
  <2>1. next' = [next EXCEPT ![a.node] = End(l)] BY DEF Push
  <2> QED BY <2>1, NextMem, EndFacts
<1> DEFINE m == [loc[t] EXCEPT !.list = l, !.at = Bumped(a), !.ret = r]
<1>2. m \in Locals
  <2>1. Bumped(a) \in Address BY BumpType
  <2>2. loc[t] \in Locals BY DEF LocType
  <2> QED BY <2>1, <2>2 DEF Locals
<1>3. Ctl(t, "loadTail", m)
  <2>1. m.ret = r /\ m.list = l BY DEF LocType, Locals
  <2> HIDE DEF m
  <2> QED BY <2>1 DEF Ctl, PopPcs, HoldPcs, LinkPcs
<1>4. "loadTail" \in Labels BY DEF Labels
<1> QED BY <1>1, <1>2, <1>3, <1>4, GoKinds DEF Push

LEMMA PopKinds ==
    ASSUME NEW t \in Threads, NEW r \in {"took", "gave", "drop"}, t \in Removers,
           LocType, CtlInv, Pop(t, ListOf(t, r), r)
    PROVE  LocType' /\ CtlInv'
<1> DEFINE l == ListOf(t, r)
<1> DEFINE m == Popping(t, l, r)
<1>1. l \in Lists BY DEF ListOf, Lists
<1>2. m \in Locals
  <2>1. loc[t] \in Locals /\ r \in Rets /\ NoVal \in 0 .. MaxPush
    BY BoundsAssumption DEF LocType, Rets, NoVal
  <2> HIDE DEF l
  <2> QED BY <1>1, <2>1 DEF Locals, Popping
<1>3. Ctl(t, "pop", m)
  <2>1. m.ret = r /\ m.list = l BY DEF LocType, Locals, Popping
  <2> HIDE DEF m
  <2> QED BY <2>1 DEF Ctl, PopPcs, HoldPcs, LinkPcs
<1>4. "pop" \in Labels BY DEF Labels
<1> QED BY <1>2, <1>3, <1>4, GoKinds DEF Pop

LEMMA IdleKinds ==
    ASSUME NEW t \in Threads, LocType, CtlInv, Go(t, "idle", Fresh)
    PROVE  LocType' /\ CtlInv'
<1>1. Ctl(t, "idle", Fresh) BY DEF Ctl, Fresh, PopPcs, HoldPcs, LinkPcs
<1>2. "idle" \in Labels BY DEF Labels
<1> QED BY <1>1, <1>2, FreshType, GoKinds

\* A step inside pop or inside push_range keeps the list and the way back.
LEMMA InsideKinds ==
    ASSUME NEW t \in Threads, NEW l \in Labels, NEW r \in Locals, LocType, CtlInv, Go(t, l, r),
           r.ret = loc[t].ret /\ r.list = loc[t].list /\ r.item = loc[t].item,
           \/ pc[t] \in PopPcs /\ l \in PopPcs \cup {r.ret}
           \/ pc[t] \in LinkPcs /\ l \in LinkPcs \cup {"swing"}
    PROVE  LocType' /\ CtlInv'
<1>1. Ctl(t, pc[t], loc[t]) BY DEF CtlInv
<1>2. Ctl(t, l, r) BY <1>1 DEF Ctl, PopPcs, HoldPcs, LinkPcs, ListOf
<1> QED BY <1>2, GoKinds

LEMMA LoadTailKinds == ASSUME NEW t \in Threads, Kinds, Sound(t), LoadTail(t) PROVE Kinds'
<1> DEFINE r == [loc[t] EXCEPT !.tail = tail[loc[t].list]]
<1>1. loc[t] \in Locals /\ tail[loc[t].list] \in Address BY DEF Kinds, LocType, MemType, Locals
<1>2. r \in Locals /\ r.ret = loc[t].ret /\ r.list = loc[t].list /\ r.item = loc[t].item
  BY <1>1 DEF Locals
<1>3. LocType' /\ CtlInv'
  <2>1. Go(t, "loadTailNext", r) BY DEF LoadTail
  <2>2. pc[t] \in LinkPcs /\ "loadTailNext" \in LinkPcs /\ "loadTailNext" \in Labels
    BY DEF LoadTail, LinkPcs, Labels
  <2> HIDE DEF r
  <2> QED BY <1>2, <2>1, <2>2, InsideKinds DEF Kinds
<1>4. MemType' /\ HistInv' BY SameMem DEF Kinds, HistInv, LoadTail, memory, counts, hist
<1> QED BY <1>3, <1>4 DEF Kinds

LEMMA LoadTailNextKinds == ASSUME NEW t \in Threads, Kinds, Sound(t), LoadTailNext(t) PROVE Kinds'
<1> DEFINE r == [loc[t] EXCEPT !.next = next[loc[t].tail.node]]
<1>0. loc[t] \in Locals /\ pc[t] \in LinkPcs BY DEF Kinds, LocType, LoadTailNext, LinkPcs
<1>1. next[loc[t].tail.node] \in Address BY DEF Kinds, MemType, Sound, LoadTailNext
<1>2. r \in Locals /\ r.ret = loc[t].ret /\ r.list = loc[t].list /\ r.item = loc[t].item
  BY <1>0, <1>1 DEF Locals
<1>3. LocType' /\ CtlInv'
  <2>1. CASE Goto(t, "loadTail")
    <3>1. Go(t, "loadTail", loc[t]) BY <2>1, GotoEffect DEF Kinds
    <3> QED BY <1>0, <3>1, InsideKinds DEF Kinds, LinkPcs, Labels
  <2>2. CASE Go(t, "link", r) \/ Go(t, "help", r)
    <3>1. {"link", "help"} \subseteq LinkPcs \cap Labels BY DEF LinkPcs, Labels
    <3> HIDE DEF r
    <3> QED BY <1>0, <1>2, <2>2, <3>1, InsideKinds DEF Kinds
  <2> QED BY <2>1, <2>2 DEF LoadTailNext
<1>4. MemType' /\ HistInv' BY SameMem DEF Kinds, HistInv, LoadTailNext, memory, counts, hist
<1> QED BY <1>3, <1>4 DEF Kinds

LEMMA LoadHeadKinds == ASSUME NEW t \in Threads, Kinds, Sound(t), LoadHead(t) PROVE Kinds'
<1> DEFINE r == [loc[t] EXCEPT !.head = head[loc[t].list], !.tail = tail[loc[t].list]]
<1>1. /\ loc[t] \in Locals
      /\ tail[loc[t].list] \in Address /\ head[loc[t].list] \in Address
  BY DEF Kinds, LocType, MemType, Locals
<1>2. r \in Locals /\ r.ret = loc[t].ret /\ r.list = loc[t].list /\ r.item = loc[t].item
  BY <1>1 DEF Locals
<1>3. LocType' /\ CtlInv'
  <2>1. Go(t, "popNext", r) BY DEF LoadHead
  <2>2. pc[t] \in PopPcs /\ "popNext" \in PopPcs /\ "popNext" \in Labels
    BY DEF LoadHead, PopPcs, Labels
  <2> HIDE DEF r
  <2> QED BY <1>2, <2>1, <2>2, InsideKinds DEF Kinds
<1>4. MemType' /\ HistInv' BY SameMem DEF Kinds, HistInv, LoadHead, memory, counts, hist
<1> QED BY <1>3, <1>4 DEF Kinds

LEMMA PopLoadNextKinds == ASSUME NEW t \in Threads, Kinds, Sound(t), PopLoadNext(t) PROVE Kinds'
<1> DEFINE n == next[loc[t].head.node]
<1> DEFINE r1 == [loc[t] EXCEPT !.at = End(loc[t].list)]
<1> DEFINE r2 == [loc[t] EXCEPT !.next = n]
<1> DEFINE r3 == [loc[t] EXCEPT !.next = n, !.val = Value(n)]
<1>0. loc[t] \in Locals /\ pc[t] \in PopPcs BY DEF Kinds, LocType, PopLoadNext, PopPcs
<1>1. n \in Address BY DEF Kinds, MemType, Sound, PopLoadNext
<1>2. Value(n) \in 0 .. MaxPush BY BoundsAssumption DEF Value, NoVal, Kinds, MemType
<1>3. End(loc[t].list) \in Address BY EndFacts
<1>4. /\ {"pop", "popHelp", "swapHead"} \subseteq PopPcs \cap Labels
      /\ loc[t].ret \in Labels
  <2>1. Ctl(t, pc[t], loc[t]) BY DEF Kinds, CtlInv
  <2> QED BY <1>0, <2>1 DEF PopPcs, Labels, HoldPcs, Ctl
<1>5. LocType' /\ CtlInv'
  <2>1. CASE Goto(t, "pop")
    <3>1. Go(t, "pop", loc[t]) BY <2>1, GotoEffect DEF Kinds
    <3> QED BY <1>0, <1>4, <3>1, InsideKinds DEF Kinds
  <2>2. CASE Go(t, loc[t].ret, r1)
    <3>1. r1 \in Locals /\ r1.ret = loc[t].ret /\ r1.list = loc[t].list /\ r1.item = loc[t].item
      BY <1>0, <1>3 DEF Locals
    <3> HIDE DEF r1
    <3> QED BY <1>0, <1>4, <2>2, <3>1, InsideKinds DEF Kinds
  <2>3. CASE Go(t, "popHelp", r2)
    <3>1. r2 \in Locals /\ r2.ret = loc[t].ret /\ r2.list = loc[t].list /\ r2.item = loc[t].item
      BY <1>0, <1>1 DEF Locals
    <3> HIDE DEF r2
    <3> QED BY <1>0, <1>4, <2>3, <3>1, InsideKinds DEF Kinds
  <2>4. CASE Go(t, "swapHead", r3)
    <3>1. r3 \in Locals /\ r3.ret = loc[t].ret /\ r3.list = loc[t].list /\ r3.item = loc[t].item
      BY <1>0, <1>1, <1>2 DEF Locals
    <3> HIDE DEF r3
    <3> QED BY <1>0, <1>4, <2>4, <3>1, InsideKinds DEF Kinds
  <2> QED BY <2>1, <2>2, <2>3, <2>4 DEF PopLoadNext
<1>6. MemType' /\ HistInv' BY SameMem DEF Kinds, HistInv, PopLoadNext, memory, counts, hist
<1> QED BY <1>5, <1>6 DEF Kinds

LEMMA HelpKinds ==
    ASSUME NEW t \in Threads, Kinds, Sound(t), Help(t) \/ PopHelp(t) PROVE Kinds'
<1>0. loc[t] \in Locals /\ loc[t].list \in Lists /\ loc[t].next \in Address
  BY DEF Kinds, LocType, Locals
<1>1. loc[t].next.node \in Nodes BY DEF Sound, Help, PopHelp
<1>2. MemType' BY <1>0, <1>1, TailMem DEF Help, PopHelp, Kinds
<1>3. HistInv' BY DEF Kinds, HistInv, Help, PopHelp, counts, hist
<1>4. LocType' /\ CtlInv'
  <2>1. Help(t) => Go(t, "loadTail", loc[t]) /\ pc[t] \in LinkPcs
    BY GotoEffect DEF Help, Kinds, LinkPcs
  <2>2. PopHelp(t) => Go(t, "pop", loc[t]) /\ pc[t] \in PopPcs
    BY GotoEffect DEF PopHelp, Kinds, PopPcs
  <2>3. /\ "pop" \in Labels /\ "loadTail" \in Labels
        /\ "pop" \in PopPcs /\ "loadTail" \in LinkPcs
    BY DEF Labels, PopPcs, LinkPcs
  <2> QED BY <1>0, <2>1, <2>2, <2>3, InsideKinds DEF Kinds
<1> QED BY <1>2, <1>3, <1>4 DEF Kinds

LEMMA SwingKinds == ASSUME NEW t \in Threads, Kinds, Sound(t), Swing(t) PROVE Kinds'
<1>0. /\ loc[t] \in Locals /\ loc[t].list \in Lists /\ loc[t].at \in Address
      /\ loc[t].item \in 0 .. MaxPush
  BY DEF Kinds, LocType, Locals
<1>1. loc[t].at.node \in Nodes BY DEF Sound, Swing
<1>2. MemType' BY <1>0, <1>1, TailMem DEF Swing, Kinds
<1>3. HistInv'
  <2>1. accepted' \subseteq 1 .. MaxPush
    <3>1. {loc[t].item} \ {NoVal} \subseteq 1 .. MaxPush
      BY <1>0, BoundsAssumption DEF NoVal
    <3> QED BY <3>1 DEF Swing, Kinds, HistInv
  <2> QED BY <2>1 DEF Kinds, HistInv, Swing, counts
<1>4. LocType' /\ CtlInv'
  <2>0. Ctl(t, pc[t], loc[t]) BY DEF Kinds, CtlInv
  <2>1. CASE loc[t].ret = "idle" BY <2>1, IdleKinds DEF Swing, Kinds
  <2>2. CASE loc[t].ret # "idle"
    <3>1. loc[t].ret \in {"took", "gave", "drop"} /\ t \in Removers
      BY <2>0, <2>2 DEF Ctl, Swing
    <3>2. From(t, loc[t].ret) = ListOf(t, loc[t].ret) BY <3>1 DEF From, ListOf
    <3> QED BY <2>2, <3>1, <3>2, PopKinds DEF Swing, Kinds
  <2> QED BY <2>1, <2>2
<1> QED BY <1>2, <1>3, <1>4 DEF Kinds

LEMMA LinkKinds == ASSUME NEW t \in Threads, Kinds, Sound(t), Link(t) PROVE Kinds'
<1>0. loc[t] \in Locals /\ loc[t].at \in Address BY DEF Kinds, LocType, Locals
<1>1. pc[t] \in LinkPcs /\ loc[t].at.node \in Nodes /\ loc[t].tail.node \in Nodes
  BY DEF Link, Sound, LinkPcs
<1>2. MemType'
  <2>1. CASE next' = [next EXCEPT ![loc[t].tail.node] = loc[t].at]
    <3>1. data' \in [Nodes -> 0 .. MaxPush] BY DEF Link, Kinds, MemType
    <3> QED BY <1>0, <1>1, <2>1, <3>1, NextMem DEF Link, Kinds
  <2>2. CASE UNCHANGED next BY <2>2, SameMem DEF Link, Kinds
  <2> QED BY <2>1, <2>2 DEF Link
<1>3. HistInv'
  <2>1. strayed' \in BOOLEAN
    <3>1. CASE SameNext(t)
      <4>1. strayed' = (strayed \/ (loc[t].list = "main" /\ ~InQueue(loc[t].tail.node)))
        BY <3>1 DEF Link
      <4> QED BY <4>1, Zenon
    <3>2. CASE ~SameNext(t) BY <3>2 DEF Link, Kinds, HistInv
    <3> QED BY <3>1, <3>2
  <2> QED BY <2>1 DEF Kinds, HistInv, Link, counts
<1>4. LocType' /\ CtlInv'
  <2>1. Go(t, "swing", loc[t]) \/ Go(t, "loadTail", loc[t]) BY GotoEffect DEF Link, Kinds
  <2>2. "swing" \in Labels /\ "loadTail" \in Labels /\ "loadTail" \in LinkPcs
    BY DEF Labels, LinkPcs
  <2> QED BY <1>0, <1>1, <2>1, <2>2, InsideKinds DEF Kinds
<1> QED BY <1>2, <1>3, <1>4 DEF Kinds

LEMMA SwapHeadKinds == ASSUME NEW t \in Threads, Kinds, Sound(t), SwapHead(t) PROVE Kinds'
<1>0. /\ loc[t] \in Locals /\ loc[t].head \in Address /\ loc[t].next \in Address
      /\ loc[t].list \in Lists
  BY DEF Kinds, LocType, Locals
<1>1. pc[t] \in PopPcs /\ loc[t].head.node \in Nodes /\ loc[t].next.node \in Nodes
  BY DEF SwapHead, Sound, PopPcs
<1>2. MemType'
  <2>1. CASE head[loc[t].list] = loc[t].head
    <3>1. /\ head' = [head EXCEPT ![loc[t].list] = loc[t].next]
          /\ data' = [data EXCEPT ![loc[t].head.node] = NoVal]
          /\ UNCHANGED <<next, tail>>
      BY <2>1 DEF SwapHead
    <3>2. NoVal \in 0 .. MaxPush BY BoundsAssumption DEF NoVal
    <3> QED BY <1>0, <1>1, <3>1, <3>2 DEF Kinds, MemType
  <2>2. CASE head[loc[t].list] # loc[t].head BY <2>2, SameMem DEF SwapHead, Kinds
  <2> QED BY <2>1, <2>2
<1>3. HistInv'
  <2>1. seen' \subseteq Consumers
    <3>1. CASE head[loc[t].list] = loc[t].head
      <4>1. seen' = seen \/ seen' = seen \cup {c \in Consumers : pc[c] # "idle"}
        BY <3>1 DEF SwapHead
      <4> QED BY <4>1 DEF Kinds, HistInv
    <3>2. CASE head[loc[t].list] # loc[t].head BY <3>2 DEF SwapHead, Kinds, HistInv
    <3> QED BY <3>1, <3>2
  <2> QED BY <2>1 DEF Kinds, HistInv, SwapHead, counts
<1>4. LocType' /\ CtlInv'
  <2> DEFINE r == [loc[t] EXCEPT !.at = loc[t].head]
  <2>1. Go(t, loc[t].ret, r) \/ Go(t, "pop", loc[t]) BY GotoEffect DEF SwapHead, Kinds
  <2>2. r \in Locals /\ r.ret = loc[t].ret /\ r.list = loc[t].list /\ r.item = loc[t].item
    BY <1>0 DEF Locals
  <2>3. "pop" \in Labels /\ loc[t].ret \in Labels /\ "pop" \in PopPcs
    <3>1. Ctl(t, pc[t], loc[t]) BY DEF Kinds, CtlInv
    <3> QED BY <1>1, <3>1 DEF PopPcs, Labels, HoldPcs, Ctl
  <2> HIDE DEF r
  <2> QED BY <1>0, <1>1, <2>1, <2>2, <2>3, InsideKinds DEF Kinds
<1> QED BY <1>2, <1>3, <1>4 DEF Kinds

LEMMA EnterKinds ==
    ASSUME NEW t \in Threads, Kinds, PushBack(t) \/ PopFront(t) \/ RemoveIf(t) PROVE Kinds'
<1>0. /\ {"alloc", "popped", "retain"} \subseteq Rets \cap HoldPcs
      /\ "pop" \in Labels /\ {"free", "main"} \subseteq Lists
  BY DEF Rets, HoldPcs, Labels, Lists
<1>1. MemType' BY SameMem DEF Kinds, PushBack, PopFront, RemoveIf, memory
<1>2. HistInv'
  <2>1. seen' \subseteq Consumers BY DEF Kinds, HistInv, PushBack, PopFront, RemoveIf, hist
  <2>2. pushes' \in Nat BY DEF Kinds, HistInv, PushBack, PopFront, RemoveIf
  <2>3. UNCHANGED <<lock, strayed, accepted, removed>>
    BY DEF PushBack, PopFront, RemoveIf, hist, memory
  <2> QED BY <2>1, <2>2, <2>3 DEF Kinds, HistInv
<1>3. LocType' /\ CtlInv'
  <2>1. CASE PushBack(t)
    <3> DEFINE r == [Fresh EXCEPT !.list = "free", !.ret = "alloc", !.item = pushes + 1]
    <3>1. pushes + 1 \in 1 .. MaxPush
      BY <2>1, BoundsAssumption DEF PushBack, Kinds, HistInv
    <3>2. r \in Locals /\ r.ret = "alloc" /\ r.list = "free" /\ r.item >= 1
      <4>1. pushes + 1 \in 0 .. MaxPush /\ pushes + 1 >= 1 BY <3>1
      <4> QED BY <1>0, <4>1, FreshType DEF Locals
    <3>3. Go(t, "pop", r) BY <2>1 DEF PushBack
    <3> HIDE DEF r
    <3>4. Ctl(t, "pop", r) BY <3>2 DEF Ctl, ListOf, PopPcs, HoldPcs, LinkPcs
    <3> QED BY <1>0, <3>2, <3>3, <3>4, GoKinds DEF Kinds
  <2>2. CASE PopFront(t)
    <3> DEFINE r == [Fresh EXCEPT !.ret = "popped"]
    <3>1. r \in Locals /\ r.ret = "popped" BY <1>0, FreshType DEF Locals
    <3>2. r.list = "main" BY DEF Fresh
    <3>3. Go(t, "pop", r) /\ t \in Consumers BY <2>2 DEF PopFront
    <3> HIDE DEF r
    <3>4. Ctl(t, "pop", r) BY <3>1, <3>2, <3>3 DEF Ctl, ListOf, PopPcs, HoldPcs, LinkPcs
    <3> QED BY <1>0, <3>1, <3>3, <3>4, GoKinds DEF Kinds
  <2>3. CASE RemoveIf(t)
    <3> DEFINE r == [Fresh EXCEPT !.list = "free", !.ret = "retain"]
    <3>1. r \in Locals /\ r.ret = "retain" /\ r.list = "free" BY <1>0, FreshType DEF Locals
    <3>2. Go(t, "pop", r) /\ t \in Removers BY <2>3 DEF RemoveIf
    <3> HIDE DEF r
    <3>3. Ctl(t, "pop", r) BY <3>1, <3>2 DEF Ctl, ListOf, PopPcs, HoldPcs, LinkPcs
    <3> QED BY <1>0, <3>1, <3>2, <3>3, GoKinds DEF Kinds
  <2> QED BY <2>1, <2>2, <2>3
<1> QED BY <1>1, <1>2, <1>3 DEF Kinds

LEMMA LeaveKinds ==
    ASSUME NEW t \in Threads, Kinds, PushFails(t) \/ (PopReturns(t) /\ ~Got(t)) PROVE Kinds'
<1>1. /\ UNCHANGED <<next, data, head, tail, lock, pushes, accepted, removed, seen, strayed>>
      /\ Go(t, "idle", Fresh)
  BY DEF PushFails, PopReturns, memory, counts, hist
<1>2. LocType' /\ CtlInv' BY <1>1, IdleKinds DEF Kinds
<1>3. MemType' BY <1>1, SameMem DEF Kinds
<1>4. HistInv' BY <1>1 DEF Kinds, HistInv
<1> QED BY <1>2, <1>3, <1>4 DEF Kinds

LEMMA RetainKinds == ASSUME NEW t \in Threads, Kinds, Sound(t), Retain(t) PROVE Kinds'
<1>0. loc[t] \in Locals /\ loc[t].at \in Address BY DEF Kinds, LocType, Locals
<1>1. Ctl(t, pc[t], loc[t]) BY DEF Kinds, CtlInv
<1>2. loc[t].at.node \in Nodes /\ loc[t].ret = "retain" /\ t \in Removers /\ t \in Lists
  BY <1>1 DEF Retain, Sound, HoldPcs, Ctl, Lists
<1>3. MemType'
  <2>1. /\ next' = [next EXCEPT ![loc[t].at.node] = End(t)]
        /\ head' = [head EXCEPT ![t] = loc[t].at]
        /\ tail' = [tail EXCEPT ![t] = loc[t].at]
        /\ data' = data
    BY DEF Retain
  <2>2. End(t) \in Address BY EndFacts
  <2>3. next' \in [Nodes -> Address]
    BY <1>2, <2>1, <2>2 DEF Kinds, MemType
  <2>4. \A n \in Nodes : next'[n].node \in Nodes \/ \E l \in Lists : next'[n] = End(l)
    BY <1>2, <2>1 DEF Kinds, MemType
  <2>5. /\ head' \in [Lists -> Address] /\ tail' \in [Lists -> Address]
        /\ \A l \in Lists : head'[l].node \in Nodes /\ tail'[l].node \in Nodes
    BY <1>0, <1>2, <2>1 DEF Kinds, MemType
  <2> QED BY <2>1, <2>3, <2>4, <2>5 DEF Kinds, MemType
<1>4. HistInv' BY DEF Kinds, HistInv, Retain, counts, hist
<1>5. LocType' /\ CtlInv'
  <2>1. Go(t, "lock", loc[t]) BY GotoEffect DEF Retain, Kinds
  <2>2. Ctl(t, "lock", loc[t]) BY <1>1, <1>2 DEF Ctl, PopPcs, HoldPcs, LinkPcs
  <2>3. "lock" \in Labels BY DEF Labels
  <2> QED BY <1>0, <2>1, <2>2, <2>3, GoKinds DEF Kinds
<1> QED BY <1>3, <1>4, <1>5 DEF Kinds

LEMMA NextPopKinds ==
    ASSUME NEW t \in Threads, Kinds, Lock(t) \/ GiveBack(t) \/ Unlock(t) PROVE Kinds'
<1>1. Ctl(t, pc[t], loc[t]) BY DEF Kinds, CtlInv
<1>2. t \in Removers BY <1>1 DEF Ctl, Lock, GiveBack, Unlock, HoldPcs
<1>3. \E r \in {"took", "gave", "drop"} : Pop(t, ListOf(t, r), r)
  BY DEF Lock, GiveBack, Unlock, ListOf
<1>4. LocType' /\ CtlInv' BY <1>2, <1>3, PopKinds DEF Kinds
<1>5. MemType' BY SameMem DEF Lock, GiveBack, Unlock, Kinds, memory
<1>6. HistInv' BY DEF Kinds, HistInv, Lock, GiveBack, Unlock, counts, hist, memory
<1> QED BY <1>4, <1>5, <1>6 DEF Kinds

\* The steps that push a node: on which list, which node, and where they go on.
Pushes(t, l, a, r) ==
    /\ Push(t, l, a, r)
    /\ r \in {"idle", "took", "gave", "drop"} /\ (r # "idle" => t \in Removers)
    /\ l = "free" \/ l = "main" \/ (l = t /\ r = "took")
    /\ UNCHANGED <<head, tail, lock, pushes, accepted, seen, strayed>>
    /\ \/ data' = data /\ l = "free"
       \/ \E v \in 1 .. MaxPush : data' = [data EXCEPT ![a.node] = v]

LEMMA PushSteps ==
    ASSUME NEW t \in Threads, Kinds, Sound(t), 
           \/ MoveBack(t) \/ FreeNode(t) \/ (PopReturns(t) /\ Got(t)) \/ Keep(t) \/ TakeOut(t)
           \/ Give(t) \/ Drop(t)
    PROVE  /\ pc[t] \in HoldPcs /\ Got(t) /\ loc[t].at \in Address
           /\ \E l \in Lists, r \in Rets :
                 /\ Pushes(t, l, loc[t].at, r)
                 /\ r = IF pc[t] \in {"took", "gave", "drop"} THEN pc[t] ELSE "idle"
           /\ removed' \subseteq 1 .. MaxPush
<1>0. /\ loc[t].at \in Address /\ loc[t].item \in 0 .. MaxPush /\ loc[t].val \in 0 .. MaxPush
      /\ removed \subseteq 1 .. MaxPush
  BY DEF Kinds, LocType, Locals, HistInv
<1>1. pc[t] \in HoldPcs /\ Got(t)
  BY DEF MoveBack, FreeNode, PopReturns, Keep, TakeOut, Give, Drop, HoldPcs
<1>2. loc[t].ret = pc[t] /\ loc[t].list = ListOf(t, pc[t])
      /\ (pc[t] \in {"took", "gave", "drop"} => t \in Removers)
      /\ (pc[t] = "alloc" => loc[t].item >= 1)
  <2>1. Ctl(t, pc[t], loc[t]) BY DEF Kinds, CtlInv
  <2> QED BY <1>1, <2>1 DEF Ctl
<1>3. {"free", "main"} \subseteq Lists /\ {"idle", "took", "gave", "drop"} \subseteq Rets
  BY DEF Lists, Rets
<1>4. pc[t] \in {"took", "gave"} => loc[t].val \in 1 .. MaxPush /\ t \in Lists
  <2>1. SUFFICES ASSUME pc[t] \in {"took", "gave"} PROVE loc[t].val >= 1 /\ t \in Lists
    BY <1>0
  <2>2. t \in Removers BY <1>2, <2>1
  <2>3. loc[t].list # "free" BY <1>2, <2>1, <2>2, RolesAssumption DEF ListOf
  <2> QED BY <1>1, <2>2, <2>3 DEF Sound, Lists
<1>5. CASE MoveBack(t)
  <2>1. loc[t].item \in 1 .. MaxPush BY <1>0, <1>2, <1>5 DEF MoveBack
  <2>2. Pushes(t, "main", loc[t].at, "idle")
    BY <1>5, <2>1 DEF MoveBack, Store, Pushes, counts, hist
  <2> QED BY <1>0, <1>1, <1>3, <1>5, <2>2 DEF MoveBack, Store, hist
<1>6. CASE FreeNode(t) \/ (PopReturns(t) /\ Got(t))
  <2>1. Pushes(t, "free", loc[t].at, "idle")
    BY <1>6 DEF FreeNode, PopReturns, Free, Pushes, counts, hist
  <2> QED BY <1>0, <1>1, <1>3, <1>6, <2>1 DEF FreeNode, PopReturns, hist
<1>7. CASE Keep(t)
  <2>1. Pushes(t, t, loc[t].at, "took")
    BY <1>2, <1>4, <1>7 DEF Keep, Store, Pushes, counts, hist
  <2> QED BY <1>0, <1>1, <1>3, <1>4, <1>7, <2>1 DEF Keep, Store, hist
<1>8. CASE TakeOut(t)
  <2>1. Pushes(t, "free", loc[t].at, "took")
    BY <1>2, <1>8 DEF TakeOut, Free, Pushes, counts
  <2> QED BY <1>0, <1>1, <1>3, <1>4, <1>8, <2>1 DEF TakeOut
<1>9. CASE Give(t)
  <2>1. Pushes(t, "main", loc[t].at, "gave")
    BY <1>2, <1>4, <1>9 DEF Give, Store, Pushes, counts, hist
  <2> QED BY <1>0, <1>1, <1>3, <1>4, <1>9, <2>1 DEF Give, Store, hist
<1>10. CASE Drop(t)
  <2>1. Pushes(t, "free", loc[t].at, "drop")
    BY <1>2, <1>10 DEF Drop, Free, Pushes, counts, hist
  <2> QED BY <1>0, <1>1, <1>3, <1>10, <2>1 DEF Drop, hist
<1> QED BY <1>5, <1>6, <1>7, <1>8, <1>9, <1>10

LEMMA PushesKinds ==
    ASSUME NEW t \in Threads, NEW l \in Lists, NEW a \in Address, NEW r \in Rets, Kinds,
           a.node \in Nodes, Pushes(t, l, a, r), removed' \subseteq 1 .. MaxPush
    PROVE  Kinds'
<1>1. data' \in [Nodes -> 0 .. MaxPush]
  <2>1. 1 .. MaxPush \subseteq 0 .. MaxPush BY BoundsAssumption
  <2> QED BY <2>1 DEF Pushes, Kinds, MemType
<1>2. MemType' /\ LocType' /\ CtlInv' BY <1>1, PushKinds DEF Kinds, Pushes
<1>3. HistInv' BY DEF Kinds, HistInv, Pushes
<1> QED BY <1>2, <1>3 DEF Kinds

-----------------------------------------------------------------------------
(* The shape of the heap.  Every node has a tag: it is in a list, it is in *)
(* the chain that a push has not linked yet, its popper owns it, or it is  *)
(* lost.  It also has a rank in its chain and a version, the counter of    *)
(* the address it has now.  The pushes are numbered in the order in which  *)
(* they begin: one that is linked behind the unlinked node of another read *)
(* the tail before that other began, so that no cycle can come about.      *)

In(l)  == <<"in", l>>
New(t) == <<"new", t>>
Own(t) == <<"own", t>>
Lost   == <<"lost", "lost">>

\* List l has a dummy: a retain list from its constructor to its destructor.
Active(l) ==
    \/ l \in {"free", "main"}
    \/ l \in Removers /\ (pc[l] = "lock" \/ loc[l].ret \in {"took", "gave", "drop"})

\* a is the address that its node has now, and the tag of the node is c.
Tagged(tag, ver, a, c) == a.node \in Nodes /\ tag[a.node] = c /\ ver[a.node] = a.aba

\* The nodes tagged c are one chain, in the order of their ranks, and it ends with e.
Chained(tag, rank, ver, c, e) ==
    /\ \A n \in Nodes : tag[n] = c =>
          \/ /\ Tagged(tag, ver, next[n], c)
             /\ rank[next[n].node] = rank[n] + 1
          \/ /\ next[n] = e
             /\ \A m \in Nodes : tag[m] = c => rank[m] <= rank[n]
    /\ \A m, n \in Nodes : tag[m] = c /\ tag[n] = c /\ rank[m] = rank[n] => m = n

ListOK(tag, rank, ver, l) ==
    IF Active(l)
    THEN /\ Chained(tag, rank, ver, In(l), End(l))
         /\ Tagged(tag, ver, head[l], In(l)) /\ Tagged(tag, ver, tail[l], In(l))
         /\ \A n \in Nodes : tag[n] = In(l) => rank[head[l].node] <= rank[n]
         /\ l # "free" => \A n \in Nodes : tag[n] = In(l) /\ n # head[l].node => data[n] >= 1
    ELSE \A n \in Nodes : tag[n] # In(l)

\* The chain of a push that is not linked yet starts at its own node.
NewOK(tag, rank, ver, t) ==
    IF pc[t] \in LinkPcs
    THEN /\ Chained(tag, rank, ver, New(t), End(loc[t].list))
         /\ Tagged(tag, ver, loc[t].at, New(t)) /\ rank[loc[t].at.node] = 0
         /\ loc[t].list # "free" => \A n \in Nodes : tag[n] = New(t) => data[n] >= 1
    ELSE \A n \in Nodes : tag[n] # New(t)

OwnOK(tag) == \A t \in Threads, n \in Nodes : tag[n] = Own(t) => next[n].node \in Nodes

\* An address that was read from m_head or m_tail: a version of the node that was linked.
Seen(tag, ver, a) ==
    /\ a.node \in Nodes
    /\ a.aba <= ver[a.node]
    /\ a.aba = ver[a.node] => \A t \in Threads : tag[a.node] # New(t)

\* m_tail is not behind a tail that was read and is still in the list.
TailAt(tag, rank, ver, r) ==
    /\ Seen(tag, ver, r.tail)
    /\ Tagged(tag, ver, r.tail, In(r.list)) => rank[r.tail.node] <= rank[tail[r.list].node]

\* A head that was read is m_head for as long as it is in the list, and unless the tail
\* read with it was the same node, m_tail is further on.
HeadAt(tag, rank, ver, r) ==
    /\ Seen(tag, ver, r.head)
    /\ Tagged(tag, ver, r.head, In(r.list)) => r.head.node = head[r.list].node
    /\ head[r.list] = r.head /\ r.head # r.tail => rank[r.head.node] < rank[tail[r.list].node]

At(tag, rank, ver, ord, u, p, r) ==
    /\ p \in {"loadTailNext", "link", "help", "swing", "popNext", "popHelp"} =>
          TailAt(tag, rank, ver, r)
    /\ p \in {"popNext", "swapHead"} => HeadAt(tag, rank, ver, r)
    /\ p \in {"loadTailNext", "link", "help"} =>
          \A t \in Threads : tag[r.tail.node] = New(t) => ord[u] < ord[t]
    /\ p = "link" => r.next = End(r.list)
    /\ p \in {"help", "popHelp"} =>
          r.next.node \in Nodes /\ (tail[r.list] = r.tail => next[r.tail.node] = r.next)
    /\ p = "swing" =>
          r.at.node \in Nodes /\ (tail[r.list] = r.tail => next[r.tail.node] = r.at)
    /\ p = "swapHead" =>
          /\ r.next.node \in Nodes /\ (head[r.list] = r.head => next[r.head.node] = r.next)
          /\ r.head # r.tail /\ (r.list # "free" => r.val >= 1)
    /\ p \in HoldPcs /\ r.at # End(r.list) =>
          Tagged(tag, ver, r.at, Own(u)) /\ (r.list # "free" => r.val >= 1)

Numbers(rank, ver, ord, top) ==
    /\ rank \in [Nodes -> Nat] /\ ver \in [Nodes -> Nat]
    /\ ord \in [Threads -> Nat] /\ top \in Nat
    /\ \A u \in Threads : ord[u] <= top

Graph(tag, rank, ver, ord, top) ==
    /\ Numbers(rank, ver, ord, top)
    /\ \A l \in Lists : ListOK(tag, rank, ver, l)
    /\ \A t \in Threads : NewOK(tag, rank, ver, t)
    /\ OwnOK(tag)
    /\ \A u \in Threads : At(tag, rank, ver, ord, u, pc[u], loc[u])

LEMMA TagFacts ==
    /\ \A l, m : (In(l) = In(m) => l = m) /\ (New(l) = New(m) => l = m) /\ (Own(l) = Own(m) => l = m)
    /\ \A l, m : In(l) # New(m) /\ In(l) # Own(m) /\ New(l) # Own(m)
    /\ \A l : In(l) # Lost /\ New(l) # Lost /\ Own(l) # Lost
BY DEF In, New, Own, Lost

LEMMA ActiveOther ==
    ASSUME NEW t \in Threads, NEW p, Moves(t, p), NEW l \in Lists, l # t
    PROVE  Active(l)' <=> Active(l)
BY DEF Active, Moves, Threads

\* A thread works on a list that has a dummy, and on no other's retain list.
LEMMA ActiveList ==
    ASSUME NEW t \in Threads, Kinds, pc[t] \in PopPcs \cup HoldPcs \cup LinkPcs \cup {"swing"}
    PROVE  /\ loc[t].list \in Lists /\ Active(loc[t].list)
           /\ loc[t].list \in {"free", "main"} \/ (loc[t].list = t /\ t \in Removers)
<1>1. Ctl(t, pc[t], loc[t]) BY DEF Kinds, CtlInv
<1>2. loc[t].list \in Lists BY DEF Kinds, LocType, Locals
<1>3. pc[t] \in PopPcs \cup HoldPcs \/ pc[t] \in LinkPcs \cup {"swing"} OBVIOUS
<1>4. CASE pc[t] \in PopPcs \cup HoldPcs
  BY <1>1, <1>2, <1>4 DEF Ctl, ListOf, Active, HoldPcs
<1>5. CASE pc[t] \in LinkPcs \cup {"swing"} BY <1>1, <1>2, <1>5 DEF Ctl, Active
<1> QED BY <1>3, <1>4, <1>5

LEMMA AtRest ==
    ASSUME NEW tag, NEW rank, NEW ver, NEW ord, NEW u, NEW r,
           NEW p \in {"idle", "loadTail", "pop", "lock"}
    PROVE  At(tag, rank, ver, ord, u, p, r)
BY DEF At, HoldPcs

LEMMA GraphSound ==
    ASSUME NEW tag, NEW rank, NEW ver, NEW ord, NEW top, Graph(tag, rank, ver, ord, top),
           NEW t \in Threads
    PROVE  Sound(t)
<1>1. At(tag, rank, ver, ord, t, pc[t], loc[t]) /\ NewOK(tag, rank, ver, t) BY DEF Graph
<1> QED BY <1>1 DEF At, NewOK, TailAt, HeadAt, Seen, Tagged, Sound, Got, HoldPcs, LinkPcs

\* A step that changes neither the nodes nor the set of the chains: what is left to show
\* is about the heads and tails and about the threads.
LEMMA SameChains ==
    ASSUME NEW tag, NEW rank, NEW ver, NEW ord, NEW top, Graph(tag, rank, ver, ord, top),
           NEW t \in Threads, NEW p, Moves(t, p), UNCHANGED <<next, data>>,
           p \in LinkPcs <=> pc[t] \in LinkPcs,
           p \in LinkPcs => loc'[t].at = loc[t].at /\ loc'[t].list = loc[t].list,
           \A l \in Lists : ListOK(tag, rank, ver, l)',
           \A u \in Threads : At(tag, rank, ver, ord, u, pc[u], loc[u])'
    PROVE  Graph(tag, rank, ver, ord, top)'
<1>1. ASSUME NEW u \in Threads PROVE NewOK(tag, rank, ver, u)'
  <2>0. NewOK(tag, rank, ver, u) BY DEF Graph
  <2>1. /\ pc'[u] \in LinkPcs <=> pc[u] \in LinkPcs
        /\ pc[u] \in LinkPcs => loc'[u].at = loc[u].at /\ loc'[u].list = loc[u].list
    BY DEF Moves
  <2>2. CASE pc[u] \notin LinkPcs BY <2>0, <2>1, <2>2 DEF NewOK
  <2>3. CASE pc[u] \in LinkPcs BY <2>0, <2>1, <2>3 DEF NewOK, Chained, Tagged
  <2> QED BY <2>2, <2>3
<1>2. OwnOK(tag)' BY DEF Graph, OwnOK
<1> QED BY <1>1, <1>2 DEF Graph, Numbers

LEMMA LocalGraph ==
    ASSUME NEW tag, NEW rank, NEW ver, NEW ord, NEW top, Graph(tag, rank, ver, ord, top),
           NEW t \in Threads, NEW p, Moves(t, p), UNCHANGED <<next, data, head, tail>>,
           p \in LinkPcs <=> pc[t] \in LinkPcs,
           p \in LinkPcs => loc'[t].at = loc[t].at /\ loc'[t].list = loc[t].list,
           Active(t)' <=> Active(t),
           At(tag, rank, ver, ord, t, pc[t], loc[t])'
    PROVE  Graph(tag, rank, ver, ord, top)'
<1>1. ASSUME NEW l \in Lists PROVE ListOK(tag, rank, ver, l)'
  <2>1. Active(l)' <=> Active(l) BY ActiveOther
  <2>2. ListOK(tag, rank, ver, l) BY DEF Graph
  <2> QED BY <2>1, <2>2 DEF ListOK, Chained, Tagged
<1>2. ASSUME NEW u \in Threads PROVE At(tag, rank, ver, ord, u, pc[u], loc[u])'
  <2>1. CASE u = t BY <2>1
  <2>2. CASE u # t
    <3>1. At(tag, rank, ver, ord, u, pc[u], loc[u]) BY DEF Graph
    <3>2. pc'[u] = pc[u] /\ loc'[u] = loc[u] BY <2>2 DEF Moves
    <3> QED BY <3>1, <3>2 DEF At, TailAt, HeadAt, Seen, Tagged
  <2> QED BY <2>1, <2>2
<1> QED BY <1>1, <1>2, SameChains

\* The node behind the tail of a list, if there is one, is in the list and further on.
LEMMA BehindTail ==
    ASSUME NEW tag, NEW rank, NEW ver, NEW ord, NEW top, Graph(tag, rank, ver, ord, top),
           NEW l \in Lists, Active(l), next[tail[l].node].node \in Nodes
    PROVE  /\ Tagged(tag, ver, next[tail[l].node], In(l))
           /\ rank[next[tail[l].node].node] = rank[tail[l].node] + 1
<1>1. ListOK(tag, rank, ver, l) BY DEF Graph
<1> QED BY <1>1, EndFacts DEF ListOK, Chained, Tagged

\* m_tail goes on to the next node, or stays.
LEMMA TailGraph ==
    ASSUME NEW tag, NEW rank, NEW ver, NEW ord, NEW top, Graph(tag, rank, ver, ord, top), Kinds,
           NEW t \in Threads, NEW p \in {"idle", "loadTail", "pop"}, Moves(t, p),
           NEW a, SwapTail(t, a), UNCHANGED <<next, data, head>>,
           pc[t] \in {"help", "popHelp", "swing"}, a.node \in Nodes,
           tail[loc[t].list] = loc[t].tail => next[loc[t].tail.node] = a,
           p \in LinkPcs <=> pc[t] \in LinkPcs,
           p \in LinkPcs => loc'[t].at = loc[t].at /\ loc'[t].list = loc[t].list,
           Active(t)' <=> Active(t)
    PROVE  Graph(tag, rank, ver, ord, top)'
<1>0. At(tag, rank, ver, ord, t, pc[t], loc[t])'
  <2>1. pc'[t] = p BY DEF Moves
  <2> QED BY <2>1 DEF At, HoldPcs
<1>1. CASE tail[loc[t].list] # loc[t].tail
  <2>1. tail' = tail BY <1>1 DEF SwapTail
  <2> QED BY <1>0, <2>1, LocalGraph
<1>2. CASE tail[loc[t].list] = loc[t].tail
  <2> DEFINE l0 == loc[t].list
  <2>1. l0 \in Lists /\ Active(l0)
    <3>1. pc[t] \in PopPcs \cup HoldPcs \cup LinkPcs \cup {"swing"} BY DEF PopPcs, LinkPcs
    <3> QED BY <3>1, ActiveList
  <2>2. tail' = [tail EXCEPT ![l0] = a] /\ next[tail[l0].node] = a BY <1>2 DEF SwapTail
  <2>3. tail'[l0] = a /\ \A l \in Lists : l # l0 => tail'[l] = tail[l]
    BY <2>1, <2>2 DEF Kinds, MemType
  <2>4. Tagged(tag, ver, a, In(l0)) /\ rank[a.node] = rank[tail[l0].node] + 1
    BY <2>1, <2>2, BehindTail
  <2>5. rank[tail[l0].node] \in Nat
    BY <2>1 DEF Kinds, MemType, Graph, Numbers
  <2> HIDE DEF l0
  <2>6. ASSUME NEW l \in Lists PROVE ListOK(tag, rank, ver, l)'
    <3>1. Active(l)' <=> Active(l) BY ActiveOther
    <3>2. ListOK(tag, rank, ver, l) BY DEF Graph
    <3>3. tail'[l] = tail[l] \/ Tagged(tag, ver, tail'[l], In(l)) BY <2>3, <2>4
    <3> QED BY <3>1, <3>2, <3>3 DEF ListOK, Chained, Tagged
  <2>7. ASSUME NEW u \in Threads PROVE At(tag, rank, ver, ord, u, pc[u], loc[u])'
    <3>1. CASE u = t BY <1>0, <3>1
    <3>2. CASE u # t
      <4>1. At(tag, rank, ver, ord, u, pc[u], loc[u]) BY DEF Graph
      <4>2. pc'[u] = pc[u] /\ loc'[u] = loc[u] BY <3>2 DEF Moves
      <4> DEFINE r == loc[u]
      <4>3. r.list \in Lists BY DEF Kinds, LocType, Locals
      <4>4. /\ \A n \in Nodes : rank[n] \in Nat
            /\ rank[tail[r.list].node] \in Nat /\ rank[tail'[r.list].node] \in Nat
            /\ rank[tail[r.list].node] <= rank[tail'[r.list].node]
        BY <2>3, <2>4, <2>5, <4>3 DEF Kinds, MemType, Graph, Numbers, Tagged
      <4>5. TailAt(tag, rank, ver, r) /\ r.list = l0 => r.tail # a
        BY <2>4, <2>5 DEF TailAt, Tagged
      <4>6. TailAt(tag, rank, ver, r) => TailAt(tag, rank, ver, loc[u])'
        BY <4>2, <4>4 DEF TailAt, Seen, Tagged
      <4>7. HeadAt(tag, rank, ver, r) => HeadAt(tag, rank, ver, loc[u])'
        BY <4>2, <4>4 DEF HeadAt, Seen, Tagged
      <4>8. TailAt(tag, rank, ver, r) /\ tail'[r.list] = r.tail => tail[r.list] = r.tail
        BY <2>3, <4>3, <4>5
      <4> QED BY <4>1, <4>2, <4>6, <4>7, <4>8 DEF At, Tagged
    <3> QED BY <3>1, <3>2
  <2>8. QED BY <2>6, <2>7, SameChains
<1> QED BY <1>1, <1>2

\* m_head goes on to the next node, and the popper owns the old dummy.
LEMMA HeadGraph ==
    ASSUME NEW tag, NEW rank, NEW ver, NEW ord, NEW top, Graph(tag, rank, ver, ord, top), Kinds,
           NEW t \in Threads, SwapHead(t), head[loc[t].list] = loc[t].head, NEW tag2,
           tag2 = [n \in Nodes |-> IF n = loc[t].head.node THEN Own(t) ELSE tag[n]]
    PROVE  Graph(tag2, rank, ver, ord, top)'
<1> DEFINE l0 == loc[t].list
<1> DEFINE h == loc[t].head.node
<1> DEFINE a == loc[t].next
<1>1. l0 \in Lists /\ Active(l0) /\ pc[t] \in PopPcs
  <2>1. pc[t] \in PopPcs BY DEF SwapHead, PopPcs
  <2> QED BY <2>1, ActiveList
<1>2. At(tag, rank, ver, ord, t, "swapHead", loc[t]) BY DEF SwapHead, Graph
<1>3. /\ h \in Nodes /\ a.node \in Nodes /\ next[h] = a
      /\ rank[h] < rank[tail[l0].node] /\ (l0 # "free" => loc[t].val >= 1)
  BY <1>2 DEF At, HeadAt, Seen
<1>4. ListOK(tag, rank, ver, l0) BY <1>1 DEF Graph
<1>5. /\ tag[h] = In(l0) /\ ver[h] = loc[t].head.aba
      /\ Tagged(tag, ver, a, In(l0)) /\ rank[a.node] = rank[h] + 1
  BY <1>1, <1>3, <1>4, EndFacts DEF ListOK, Chained, Tagged
<1>6. \A n \in Nodes : rank[n] \in Nat BY DEF Graph, Numbers
<1>7. /\ head' = [head EXCEPT ![l0] = a] /\ data' = [data EXCEPT ![h] = NoVal]
      /\ UNCHANGED <<next, tail>>
  BY DEF SwapHead
<1>8. /\ head'[l0] = a /\ \A l \in Lists : l # l0 => head'[l] = head[l]
      /\ \A n \in Nodes : n # h => data'[n] = data[n]
  BY <1>1, <1>7 DEF Kinds, MemType
<1>9. /\ Moves(t, loc[t].ret) /\ loc'[t] = [loc[t] EXCEPT !.at = loc[t].head]
      /\ loc[t].ret \in HoldPcs
  <2>1. Ctl(t, pc[t], loc[t]) BY DEF Kinds, CtlInv
  <2> QED BY <1>1, <2>1, GoEffect DEF SwapHead, Kinds, Ctl
<1>10. /\ loc'[t].at = loc[t].head /\ loc'[t].ret = loc[t].ret
       /\ loc'[t].list = l0 /\ loc'[t].val = loc[t].val
  BY <1>9 DEF Kinds, LocType, Locals
<1>11. ASSUME NEW l \in Lists PROVE Active(l)' <=> Active(l)
  <2>1. CASE l # t BY <1>9, <2>1, ActiveOther
  <2>2. CASE l = t
    <3>1. pc[t] # "lock" /\ pc'[t] # "lock" BY <1>9 DEF SwapHead, Moves, HoldPcs
    <3> QED BY <1>10, <2>2, <3>1 DEF Active
  <2> QED BY <2>1, <2>2
<1>12. /\ \A n \in Nodes : n # h => tag2[n] = tag[n]
       /\ tag2[h] = Own(t)
  BY <1>3
<1>13. /\ \A n \in Nodes, l \in Lists : tag2[n] = In(l) <=> tag[n] = In(l) /\ n # h
       /\ \A n \in Nodes, u \in Threads : tag2[n] = New(u) <=> tag[n] = New(u)
       /\ \A u \in Threads : tag[h] # New(u) /\ tag[h] # Own(u)
  BY <1>5, <1>12, TagFacts
<1> HIDE DEF l0, h, a
<1>14. ASSUME NEW l \in Lists PROVE ListOK(tag2, rank, ver, l)'
  <2>0. ListOK(tag, rank, ver, l) BY DEF Graph
  <2>1. CASE ~Active(l) BY <1>11, <1>13, <2>0, <2>1 DEF ListOK
  <2>2. CASE Active(l) /\ l # l0
    <3>1. tag[h] # In(l) BY <1>5, <2>2, TagFacts
    <3>2. \A n \in Nodes : tag2[n] = In(l) <=> tag[n] = In(l) BY <1>13, <3>1
    <3>3. Chained(tag2, rank, ver, In(l), End(l))'
      BY <1>7, <2>0, <2>2, <3>2 DEF ListOK, Chained, Tagged
    <3> QED BY <1>7, <1>8, <1>11, <2>0, <2>2, <3>1, <3>2, <3>3 DEF ListOK, Tagged
  <2>3. CASE l = l0
    <3>1. ASSUME NEW n \in Nodes, tag[n] = In(l0), n # h
          PROVE  rank[h] < rank[n] /\ next[n].node # h
      <4>1. rank[h] <= rank[n] /\ rank[h] # rank[n]
        BY <1>3, <1>4, <1>1, <1>5, <3>1 DEF ListOK, Chained, h, l0
      <4>2. next[n].node # h
        BY <1>6, <1>1, <1>3, <1>4, <3>1, <4>1, EndFacts DEF ListOK, Chained, Tagged
      <4> QED BY <1>3, <1>6, <4>1, <4>2
    <3>2. Chained(tag2, rank, ver, In(l), End(l))'
      <4>1. ASSUME NEW n \in Nodes, tag[n] = In(l0), n # h
            PROVE  \/ Tagged(tag2, ver, next[n], In(l0)) /\ rank[next[n].node] = rank[n] + 1
                   \/ /\ next[n] = End(l0)
                      /\ \A m \in Nodes : tag2[m] = In(l0) => rank[m] <= rank[n]
        BY <1>1, <1>4, <1>13, <3>1, <4>1 DEF ListOK, Chained, Tagged
      <4>2. \A m, n \in Nodes : tag2[m] = In(l0) /\ tag2[n] = In(l0) /\ rank[m] = rank[n] => m = n
        BY <1>1, <1>4, <1>13 DEF ListOK, Chained
      <4> QED BY <1>7, <1>13, <2>3, <4>1, <4>2 DEF Chained, Tagged
    <3>3. a.node # h /\ tail[l0].node # h BY <1>3, <1>5, <1>6
    <3>4. Tagged(tag2, ver, a, In(l0)) /\ Tagged(tag2, ver, tail[l0], In(l0))
      BY <1>1, <1>4, <1>5, <1>13, <3>3 DEF ListOK, Tagged
    <3>5. \A n \in Nodes : tag2[n] = In(l0) => rank[a.node] <= rank[n]
      BY <1>1, <1>3, <1>5, <1>6, <1>13, <3>1
    <3>6. l0 # "free" => \A n \in Nodes : tag2[n] = In(l0) => data'[n] >= 1
      BY <1>1, <1>4, <1>8, <1>13 DEF ListOK, h, l0
    <3> QED BY <1>1, <1>7, <1>8, <1>11, <2>3, <3>2, <3>4, <3>5, <3>6 DEF ListOK, Tagged
  <2> QED BY <1>1, <2>1, <2>2, <2>3
<1>15. ASSUME NEW u \in Threads PROVE NewOK(tag2, rank, ver, u)'
  <2>0. NewOK(tag, rank, ver, u) BY DEF Graph
  <2>1. CASE u = t
    <3>1. pc[t] \notin LinkPcs /\ pc'[t] \notin LinkPcs
      BY <1>1, <1>9 DEF Moves, PopPcs, LinkPcs, HoldPcs
    <3> QED BY <1>13, <2>0, <2>1, <3>1 DEF NewOK
  <2>2. CASE u # t
    <3>1. pc'[u] = pc[u] /\ loc'[u] = loc[u] BY <1>9, <2>2 DEF Moves
    <3>2. Chained(tag, rank, ver, New(u), End(loc[u].list)) =>
            Chained(tag2, rank, ver, New(u), End(loc[u].list))'
      BY <1>7, <1>13, <3>1 DEF Chained, Tagged
    <3> QED BY <1>8, <1>13, <2>0, <3>1, <3>2 DEF NewOK, Tagged
  <2> QED BY <2>1, <2>2
<1>16. OwnOK(tag2)' BY <1>3, <1>7, <1>12 DEF OwnOK, Graph
<1>17. ASSUME NEW u \in Threads PROVE At(tag2, rank, ver, ord, u, pc[u], loc[u])'
  <2>1. CASE u = t
    <3>1. Tagged(tag2, ver, loc[t].head, Own(t)) BY <1>3, <1>5, <1>12 DEF Tagged, h
    <3>2. pc'[t] \in HoldPcs BY <1>9 DEF Moves
    <3> QED BY <1>3, <1>10, <2>1, <3>1, <3>2 DEF At, HoldPcs, Tagged
  <2>2. CASE u # t
    <3>1. At(tag, rank, ver, ord, u, pc[u], loc[u]) BY DEF Graph
    <3>2. pc'[u] = pc[u] /\ loc'[u] = loc[u] BY <1>9, <2>2 DEF Moves
    <3> DEFINE r == loc[u]
    <3>3. r.list \in Lists BY DEF Kinds, LocType, Locals
    <3>4. TailAt(tag, rank, ver, r) => TailAt(tag2, rank, ver, loc[u])'
      BY <1>7, <1>13, <3>2, <3>3 DEF TailAt, Seen, Tagged
    <3>5. HeadAt(tag, rank, ver, r) /\ r.list = l0 =>
             /\ r.head # a /\ ~Tagged(tag2, ver, r.head, In(l0))
             /\ r.head.node \in Nodes
      BY <1>1, <1>3, <1>5, <1>6, <1>13 DEF HeadAt, Seen, Tagged, h, l0
    <3>6. HeadAt(tag, rank, ver, r) =>
             HeadAt(tag2, rank, ver, loc[u])' /\ (head'[r.list] = r.head => head[r.list] = r.head)
      <4>1. CASE r.list = l0
        BY <1>7, <1>8, <1>13, <3>2, <3>5, <4>1 DEF HeadAt, Seen, Tagged
      <4>2. CASE r.list # l0
        BY <1>7, <1>8, <1>13, <3>2, <3>3, <4>2 DEF HeadAt, Seen, Tagged
      <4> QED BY <4>1, <4>2
    <3>7. \A b : Tagged(tag, ver, b, Own(u)) => Tagged(tag2, ver, b, Own(u))
      BY <1>12, <1>13 DEF Tagged
    <3>8. \A b, w : TailAt(tag, rank, ver, r) /\ w \in Threads /\ tag2[r.tail.node] = New(w) =>
               tag[r.tail.node] = New(w)
      BY <1>13 DEF TailAt, Seen
    <3>9. \A b : Tagged(tag2, ver, b, Own(u))' <=> Tagged(tag2, ver, b, Own(u))
      BY DEF Tagged
    <3> QED BY <1>7, <3>1, <3>2, <3>4, <3>6, <3>7, <3>8, <3>9 DEF At
  <2> QED BY <2>1, <2>2
<1> QED BY <1>14, <1>15, <1>16, <1>17 DEF Graph, Numbers

\* The heads and tails of the lists that others work on are in those lists.
LEMMA EndsOf ==
    ASSUME NEW tag, NEW rank, NEW ver, NEW ord, NEW top, Graph(tag, rank, ver, ord, top), Kinds,
           NEW u \in Threads, pc[u] \in PopPcs \cup HoldPcs \cup LinkPcs \cup {"swing"}
    PROVE  /\ loc[u].list \in Lists
           /\ loc[u].list \in {"free", "main"} \/ (loc[u].list = u /\ u \in Removers)
           /\ Tagged(tag, ver, head[loc[u].list], In(loc[u].list))
           /\ Tagged(tag, ver, tail[loc[u].list], In(loc[u].list))
<1>1. loc[u].list \in Lists /\ Active(loc[u].list) BY ActiveList
<1>2. ListOK(tag, rank, ver, loc[u].list) BY <1>1 DEF Graph
<1> QED BY <1>1, <1>2, ActiveList DEF ListOK

\* A push begins: its node is a chain of its own, with a new version.  When it is the
\* dummy of a retain list, the list is no more, and what is still in it is lost.
LEMMA PushGraph ==
    ASSUME NEW tag, NEW rank, NEW ver, NEW ord, NEW top, Graph(tag, rank, ver, ord, top), Kinds,
           NEW t \in Threads, NEW l \in Lists, NEW a \in Address, NEW r \in Rets,
           pc[t] \in HoldPcs, a.node \in Nodes, a.aba + 1 < Aba, ver[a.node] = a.aba,
           Pushes(t, l, a, r), NEW gone \in BOOLEAN,
           gone => tag[a.node] = In(t) /\ t \in Removers /\ ~Active(t)',
           ~gone => tag[a.node] = Own(t) /\ (Active(t)' <=> Active(t)),
           NEW tag2, NEW rank2, NEW ver2, NEW ord2,
           tag2 = [n \in Nodes |-> IF n = a.node THEN New(t)
                                   ELSE IF gone /\ tag[n] = In(t) THEN Lost ELSE tag[n]],
           rank2 = [n \in Nodes |-> IF n = a.node THEN 0 ELSE rank[n]],
           ver2 = [n \in Nodes |-> IF n = a.node THEN a.aba + 1 ELSE ver[n]],
           ord2 = [u \in Threads |-> IF u = t THEN top + 1 ELSE ord[u]]
    PROVE  Graph(tag2, rank2, ver2, ord2, top + 1)'
<1> DEFINE d == a.node
<1> DEFINE b == Bumped(a)
<1>1. Numbers(rank, ver, ord, top) BY DEF Graph
<1>2. Numbers(rank2, ver2, ord2, top + 1)
  <2>1. a.aba + 1 \in Nat BY DEF Address
  <2> QED BY <1>1, <2>1 DEF Numbers
<1>3. b.node = d /\ b.aba = a.aba + 1 BY BumpType
<1>4. /\ Moves(t, "loadTail") /\ loc'[t] = [loc[t] EXCEPT !.list = l, !.at = b, !.ret = r]
      /\ next' = [next EXCEPT ![d] = End(l)] /\ UNCHANGED <<head, tail>>
  BY GoEffect DEF Pushes, Push, Kinds
<1>5. loc'[t].at = b /\ loc'[t].list = l /\ pc'[t] = "loadTail"
  BY <1>4 DEF Kinds, LocType, Locals, Moves
<1>6. /\ next'[d] = End(l) /\ (l # "free" => data'[d] >= 1)
      /\ \A n \in Nodes : n # d => next'[n] = next[n] /\ data'[n] = data[n]
  BY <1>4 DEF Pushes, Kinds, MemType
<1>7. /\ \A n \in Nodes : n # d => rank2[n] = rank[n] /\ ver2[n] = ver[n]
      /\ tag2[d] = New(t) /\ rank2[d] = 0 /\ ver2[d] = a.aba + 1
  OBVIOUS
<1>8. \A n \in Nodes : tag[n] # New(t)
  BY DEF Graph, NewOK, HoldPcs, LinkPcs
<1>9. /\ \A n \in Nodes, m \in Lists : tag2[n] = In(m) <=> tag[n] = In(m) /\ n # d /\ ~(gone /\ m = t)
      /\ \A n \in Nodes, u \in Threads : u # t => (tag2[n] = New(u) <=> tag[n] = New(u))
      /\ \A n \in Nodes : tag2[n] = New(t) <=> n = d
      /\ \A n \in Nodes, u \in Threads : tag2[n] = Own(u) <=> tag[n] = Own(u) /\ n # d
  BY <1>8, TagFacts
<1>10. \A m \in Lists : ~(gone /\ m = t) => tag[d] # In(m)
  BY TagFacts
<1>11. \A u \in Threads : tag[d] # New(u) /\ (u # t => tag[d] # Own(u))
  BY TagFacts
<1> HIDE DEF d, b
<1>12. ASSUME NEW m \in Lists PROVE ListOK(tag2, rank2, ver2, m)'
  <2>0. ListOK(tag, rank, ver, m) BY DEF Graph
  <2>1. CASE gone /\ m = t BY <1>9, <2>1 DEF ListOK
  <2>2. CASE ~(gone /\ m = t)
    <3>1. Active(m)' <=> Active(m) BY <1>4, <2>2, ActiveOther
    <3>2. \A n \in Nodes : tag2[n] = In(m) <=> tag[n] = In(m) BY <1>9, <1>10, <2>2
    <3>3. \A n \in Nodes : tag[n] = In(m) => n # d BY <1>10, <2>2
    <3>4. CASE ~Active(m) BY <2>0, <3>1, <3>2, <3>4 DEF ListOK
    <3>5. CASE Active(m)
      <4>1. Chained(tag2, rank2, ver2, In(m), End(m))'
        BY <1>6, <1>7, <2>0, <3>2, <3>3, <3>5 DEF ListOK, Chained, Tagged
      <4> QED BY <1>4, <1>6, <1>7, <2>0, <3>1, <3>2, <3>3, <3>5, <4>1 DEF ListOK, Tagged
    <3> QED BY <3>4, <3>5
  <2> QED BY <2>1, <2>2
<1>13. ASSUME NEW u \in Threads PROVE NewOK(tag2, rank2, ver2, u)'
  <2>0. NewOK(tag, rank, ver, u) BY DEF Graph
  <2>1. CASE u = t
    <3>1. Chained(tag2, rank2, ver2, New(t), End(loc[t].list))'
      BY <1>1, <1>5, <1>6, <1>7, <1>9 DEF Chained, Numbers, d
    <3>2. Tagged(tag2, ver2, b, New(t)) /\ rank2[b.node] = 0 BY <1>3, <1>7 DEF Tagged, d
    <3> QED BY <1>5, <1>6, <1>9, <2>1, <3>1, <3>2 DEF NewOK, Tagged, LinkPcs
  <2>2. CASE u # t
    <3>1. pc'[u] = pc[u] /\ loc'[u] = loc[u] BY <1>4, <2>2 DEF Moves
    <3>2. \A n \in Nodes : (tag2[n] = New(u) <=> tag[n] = New(u)) /\ (tag[n] = New(u) => n # d)
      BY <1>9, <1>11, <2>2
    <3>3. CASE pc[u] \notin LinkPcs BY <2>0, <3>1, <3>2, <3>3 DEF NewOK
    <3>4. CASE pc[u] \in LinkPcs
      <4>1. Chained(tag2, rank2, ver2, New(u), End(loc[u].list))'
        BY <1>6, <1>7, <2>0, <3>1, <3>2, <3>4 DEF NewOK, Chained, Tagged
      <4> QED BY <1>6, <1>7, <2>0, <3>1, <3>2, <3>4, <4>1 DEF NewOK, Tagged
    <3> QED BY <3>3, <3>4
  <2> QED BY <2>1, <2>2
<1>14. OwnOK(tag2)' BY <1>6, <1>9 DEF OwnOK, Graph
<1>15. ASSUME NEW u \in Threads PROVE At(tag2, rank2, ver2, ord2, u, pc[u], loc[u])'
  <2>1. CASE u = t BY <1>5, <2>1 DEF At, HoldPcs
  <2>2. CASE u # t
    <3> DEFINE s == loc[u]
    <3>1. At(tag, rank, ver, ord, u, pc[u], loc[u]) BY DEF Graph
    <3>2. pc'[u] = pc[u] /\ loc'[u] = loc[u] BY <1>4, <2>2 DEF Moves
    <3>3. s.list \in Lists /\ s.head \in Address /\ s.tail \in Address
      BY DEF Kinds, LocType, Locals
    <3>4. CASE pc[u] \notin PopPcs \cup HoldPcs \cup LinkPcs \cup {"swing"}
      BY <3>2, <3>4 DEF At, PopPcs, HoldPcs, LinkPcs
    <3>5. CASE pc[u] \in PopPcs \cup HoldPcs \cup LinkPcs \cup {"swing"}
      <4>1. /\ Tagged(tag, ver, head[s.list], In(s.list)) /\ Tagged(tag, ver, tail[s.list], In(s.list))
            /\ ~(gone /\ s.list = t)
        BY <2>2, <3>5, EndsOf, RolesAssumption
      <4>2. tail[s.list].node \in Nodes \ {d} /\ head[s.list].node \in Nodes \ {d}
        BY <1>10, <3>3, <4>1 DEF Tagged
      <4>3. \A c \in Address : Seen(tag, ver, c) => Seen(tag2, ver2, c)
        <5> SUFFICES ASSUME NEW c \in Address, Seen(tag, ver, c) PROVE Seen(tag2, ver2, c)
          OBVIOUS
        <5>1. CASE c.node = d
          <6>1. c.aba \in Nat /\ ver[d] \in Nat /\ ver2[d] = ver[d] + 1
            BY <1>1, <1>7 DEF Address, Numbers, d
          <6> QED BY <5>1, <6>1 DEF Seen
        <5>2. CASE c.node # d
          <6>1. \A w \in Threads : tag2[c.node] = New(w) => tag[c.node] = New(w)
            BY <1>9, <5>2 DEF Seen
          <6> QED BY <1>7, <5>2, <6>1 DEF Seen
        <5> QED BY <5>1, <5>2
      <4>4. \A c : Tagged(tag2, ver2, c, In(s.list)) => Tagged(tag, ver, c, In(s.list)) /\ c.node # d
        BY <1>7, <1>9, <3>3 DEF Tagged
      <4>5. TailAt(tag, rank, ver, s) => TailAt(tag2, rank2, ver2, loc[u])'
        <5>1. SUFFICES ASSUME TailAt(tag, rank, ver, s) PROVE TailAt(tag2, rank2, ver2, loc[u])'
          OBVIOUS
        <5>2. Seen(tag2, ver2, s.tail) BY <3>3, <4>3, <5>1 DEF TailAt
        <5>3. Tagged(tag2, ver2, s.tail, In(s.list)) => rank2[s.tail.node] <= rank2[tail[s.list].node]
          BY <1>7, <4>2, <4>4, <5>1 DEF TailAt, Tagged
        <5> QED BY <1>4, <3>2, <5>2, <5>3 DEF TailAt, Seen, Tagged
      <4>6. HeadAt(tag, rank, ver, s) => HeadAt(tag2, rank2, ver2, loc[u])'
        <5>1. SUFFICES ASSUME HeadAt(tag, rank, ver, s) PROVE HeadAt(tag2, rank2, ver2, loc[u])'
          OBVIOUS
        <5>2. Seen(tag2, ver2, s.head) BY <3>3, <4>3, <5>1 DEF HeadAt
        <5>3. Tagged(tag2, ver2, s.head, In(s.list)) => s.head.node = head[s.list].node
          BY <4>4, <5>1 DEF HeadAt
        <5>4. head[s.list] = s.head /\ s.head # s.tail => rank2[s.head.node] < rank2[tail[s.list].node]
          BY <1>7, <4>2, <5>1 DEF HeadAt
        <5> QED BY <1>4, <3>2, <5>2, <5>3, <5>4 DEF HeadAt, Seen, Tagged
      <4>7. \A w \in Threads : TailAt(tag, rank, ver, s) /\ tag2[s.tail.node] = New(w)
               /\ (tag[s.tail.node] = New(w) => ord[u] < ord[w]) => ord2[u] < ord2[w]
        <5>1. ord2[u] = ord[u] /\ ord2[t] = top + 1 /\ ord[u] < top + 1
          BY <1>1, <2>2 DEF Numbers
        <5>2. \A w \in Threads : w # t => ord2[w] = ord[w] OBVIOUS
        <5> QED BY <1>9, <5>1, <5>2 DEF TailAt, Seen
      <4>8. /\ tail[s.list] = s.tail => next'[s.tail.node] = next[s.tail.node]
            /\ head[s.list] = s.head => next'[s.head.node] = next[s.head.node]
        BY <1>6, <4>2
      <4>9. \A c : Tagged(tag, ver, c, Own(u)) => Tagged(tag2, ver2, c, Own(u))
        BY <1>7, <1>9, <1>11, <2>2 DEF Tagged
      <4>10. \A c : Tagged(tag2, ver2, c, Own(u))' <=> Tagged(tag2, ver2, c, Own(u))
        BY DEF Tagged
      <4> HIDE DEF s
      <4>11. s = loc[u] BY DEF s
      <4> QED BY <1>4, <3>1, <3>2, <4>5, <4>6, <4>7, <4>8, <4>9, <4>10, <4>11 DEF At
    <3> QED BY <3>4, <3>5
  <2> QED BY <2>1, <2>2
<1> QED BY <1>2, <1>12, <1>13, <1>14, <1>15 DEF Graph, Numbers

\* The chain of tag x is hung behind node n, the last one of its chain.
Joined(tag, rank, tag2, rank2, x, n) ==
    /\ tag2 = [m \in Nodes |-> IF tag[m] = x THEN tag[n] ELSE tag[m]]
    /\ rank2 = [m \in Nodes |-> IF tag[m] = x THEN rank[n] + 1 + rank[m] ELSE rank[m]]

LEMMA JoinedChain ==
    ASSUME NEW tag, NEW rank \in [Nodes -> Nat], NEW ver, NEW tag2, NEW rank2, NEW x, NEW n \in Nodes,
           Joined(tag, rank, tag2, rank2, x, n), tag[n] # x, NEW a, NEW e, e.node \notin Nodes,
           next \in [Nodes -> Address], next' = [next EXCEPT ![n] = a], next[n] = e,
           Chained(tag, rank, ver, x, e), Tagged(tag, ver, a, x), rank[a.node] = 0,
           NEW c, c = tag[n], Chained(tag, rank, ver, c, e)
    PROVE  /\ Chained(tag2, rank2, ver, c, e)'
           /\ \A m \in Nodes : tag[m] = c => rank[m] <= rank[n]
<1>0. /\ \A m \in Nodes : tag[m] = x => tag2[m] = c /\ rank2[m] = rank[n] + 1 + rank[m]
      /\ \A m \in Nodes : tag[m] # x => tag2[m] = tag[m] /\ rank2[m] = rank[m]
      /\ \A m \in Nodes : rank[m] \in Nat
  BY DEF Joined
<1>1. next'[n] = a /\ \A m \in Nodes : m # n => next'[m] = next[m] OBVIOUS
<1>2. \A m \in Nodes : tag[m] = c => rank[m] <= rank[n]
  BY DEF Chained, Tagged
<1>3. \A m \in Nodes : tag2[m] = c => tag[m] = c \/ tag[m] = x BY <1>0
<1>4. ASSUME NEW m \in Nodes, tag2[m] = c
      PROVE  \/ Tagged(tag2, ver, next'[m], c) /\ rank2[next'[m].node] = rank2[m] + 1
             \/ next'[m] = e /\ \A k \in Nodes : tag2[k] = c => rank2[k] <= rank2[m]
  <2>1. CASE m = n
    <3>1. rank2[n] = rank[n] /\ rank2[a.node] = rank[n] + 1 /\ Tagged(tag2, ver, a, c)
      BY <1>0 DEF Tagged
    <3> QED BY <1>1, <2>1, <3>1
  <2>2. CASE m # n /\ tag[m] = c
    <3>1. Tagged(tag, ver, next[m], c) /\ rank[next[m].node] = rank[m] + 1
      BY <1>0, <1>2, <2>2 DEF Chained
    <3>2. next[m].node \in Nodes /\ tag[next[m].node] # x BY <3>1 DEF Tagged
    <3> QED BY <1>0, <1>1, <2>2, <3>1, <3>2 DEF Tagged
  <2>3. CASE tag[m] = x
    <3>0. m # n BY <2>3
    <3>1. CASE Tagged(tag, ver, next[m], x) /\ rank[next[m].node] = rank[m] + 1
      <4>1. next[m].node \in Nodes /\ tag[next[m].node] = x /\ ver[next[m].node] = next[m].aba
        BY <3>1 DEF Tagged
      <4>2. rank2[m] = rank[n] + 1 + rank[m] /\ rank2[next[m].node] = rank[n] + 1 + (rank[m] + 1)
        BY <1>0, <2>3, <3>1, <4>1
      <4>3. rank2[next[m].node] = rank2[m] + 1 BY <1>0, <4>2
      <4> QED BY <1>0, <1>1, <3>0, <4>1, <4>3 DEF Tagged
    <3>2. CASE next[m] = e /\ \A k \in Nodes : tag[k] = x => rank[k] <= rank[m]
      <4>1. ASSUME NEW k \in Nodes, tag2[k] = c PROVE rank2[k] <= rank2[m]
        <5>1. rank2[m] = rank[n] + 1 + rank[m] BY <1>0, <2>3
        <5>2. CASE tag[k] = x
          <6>1. rank2[k] = rank[n] + 1 + rank[k] /\ rank[k] <= rank[m] BY <1>0, <3>2, <5>2
          <6> QED BY <1>0, <5>1, <6>1
        <5>3. CASE tag[k] # x
          <6>1. rank2[k] = rank[k] /\ rank[k] <= rank[n] BY <1>0, <1>2, <1>3, <4>1, <5>3
          <6> QED BY <1>0, <5>1, <6>1
        <5> QED BY <5>2, <5>3
      <4> QED BY <1>1, <3>0, <3>2, <4>1
    <3> QED BY <2>3, <3>1, <3>2 DEF Chained
  <2> QED BY <1>3, <1>4, <2>1, <2>2, <2>3
<1>5. ASSUME NEW m \in Nodes, NEW k \in Nodes, tag2[m] = c, tag2[k] = c, rank2[m] = rank2[k]
      PROVE  m = k
  <2>1. CASE tag[m] = x /\ tag[k] = x
    <3>1. rank[n] + 1 + rank[m] = rank[n] + 1 + rank[k] BY <1>0, <1>5, <2>1
    <3>2. rank[m] = rank[k] BY <1>0, <3>1
    <3> QED BY <2>1, <3>2 DEF Chained
  <2>2. CASE tag[m] # x /\ tag[k] # x
    <3>1. rank[m] = rank[k] /\ tag[m] = c /\ tag[k] = c BY <1>0, <1>5, <2>2
    <3> QED BY <3>1 DEF Chained
  <2>3. CASE tag[m] = x /\ tag[k] # x
    <3>1. rank2[m] = rank[n] + 1 + rank[m] /\ rank2[k] = rank[k] /\ rank[k] <= rank[n]
      BY <1>0, <1>2, <1>3, <1>5, <2>3
    <3>2. rank[n] \in Nat /\ rank[m] \in Nat /\ rank[k] \in Nat BY <1>0
    <3>3. rank[k] # rank[n] + 1 + rank[m] BY <3>1, <3>2
    <3> QED BY <1>5, <3>1, <3>3
  <2>4. CASE tag[m] # x /\ tag[k] = x
    <3>1. rank2[k] = rank[n] + 1 + rank[k] /\ rank2[m] = rank[m] /\ rank[m] <= rank[n]
      BY <1>0, <1>2, <1>3, <1>5, <2>4
    <3>2. rank[n] \in Nat /\ rank[m] \in Nat /\ rank[k] \in Nat BY <1>0
    <3>3. rank[m] # rank[n] + 1 + rank[k] BY <3>1, <3>2
    <3> QED BY <1>5, <3>1, <3>3
  <2> QED BY <2>1, <2>2, <2>3, <2>4
<1>6. Chained(tag2, rank2, ver, c, e)' BY <1>4, <1>5 DEF Chained, Tagged
<1> QED BY <1>2, <1>6

LEMMA OtherChain ==
    ASSUME NEW tag, NEW rank \in [Nodes -> Nat], NEW ver, NEW tag2, NEW rank2, NEW x, NEW n \in Nodes,
           Joined(tag, rank, tag2, rank2, x, n), NEW a,
           next \in [Nodes -> Address], next' = [next EXCEPT ![n] = a],
           NEW c, c # tag[n], c # x, NEW e, Chained(tag, rank, ver, c, e)
    PROVE  Chained(tag2, rank2, ver, c, e)'
<1>1. \A m \in Nodes : tag2[m] = c <=> tag[m] = c BY DEF Joined
<1>2. \A m \in Nodes : tag[m] = c => rank2[m] = rank[m] /\ next'[m] = next[m] BY DEF Joined
<1> QED BY <1>1, <1>2 DEF Chained, Tagged

\* The exchange of next succeeds: the chain of the push is hung behind the node that was
\* read as the tail, wherever that node is by now.
LEMMA LinkGraph ==
    ASSUME NEW tag, NEW rank, NEW ver, NEW ord, NEW top, Graph(tag, rank, ver, ord, top), Kinds,
           NEW t \in Threads, Link(t), SameNext(t), NEW tag2, NEW rank2,
           Joined(tag, rank, tag2, rank2, New(t), loc[t].tail.node)
    PROVE  Graph(tag2, rank2, ver, ord, top)'
<1> DEFINE n == loc[t].tail.node
<1> DEFINE a == loc[t].at
<1>1. At(tag, rank, ver, ord, t, "link", loc[t]) BY DEF Link, Graph
<1>2. /\ TailAt(tag, rank, ver, loc[t]) /\ n \in Nodes
      /\ next[n] = End(loc[t].list)
      /\ \A w \in Threads : tag[n] = New(w) => ord[t] < ord[w]
  BY <1>1 DEF At, TailAt, Seen, SameNext
<1>3. Numbers(rank, ver, ord, top) BY DEF Graph
<1>4. tag[n] # New(t) BY <1>2, <1>3 DEF Numbers
<1>5. \A u \in Threads : tag[n] # Own(u) BY <1>2, EndFacts DEF Graph, OwnOK
<1>6. /\ pc[t] = "link" /\ Moves(t, "swing") /\ loc'[t] = loc[t]
      /\ next' = [next EXCEPT ![n] = a] /\ UNCHANGED <<data, head, tail>>
  BY GotoEffect DEF Link, Kinds
<1>7. NewOK(tag, rank, ver, t) BY DEF Graph
<1>8. /\ Chained(tag, rank, ver, New(t), End(loc[t].list)) /\ Tagged(tag, ver, a, New(t))
      /\ rank[a.node] = 0
      /\ loc[t].list # "free" => \A m \in Nodes : tag[m] = New(t) => data[m] >= 1
  BY <1>6, <1>7 DEF NewOK, LinkPcs
<1>9. /\ \A m \in Nodes : tag[m] = New(t) => tag2[m] = tag[n] /\ rank2[m] = rank[n] + 1 + rank[m]
      /\ \A m \in Nodes : tag[m] # New(t) => tag2[m] = tag[m] /\ rank2[m] = rank[m]
      /\ rank \in [Nodes -> Nat] /\ \A m \in Nodes : rank[m] \in Nat
  BY <1>3 DEF Joined, Numbers
<1>10. Numbers(rank2, ver, ord, top)
  <2>1. rank2 \in [Nodes -> Nat] BY <1>2, <1>3 DEF Numbers, Joined
  <2> QED BY <1>3, <2>1 DEF Numbers
<1>11. /\ next \in [Nodes -> Address] /\ next'[n] = a
       /\ \A m \in Nodes : m # n => next'[m] = next[m]
  BY <1>2, <1>6 DEF Kinds, MemType
\* What holds of the chain that grows, and of the others.
<1>12. ASSUME NEW c, NEW e, Chained(tag, rank, ver, c, e), e.node \notin Nodes, c = tag[n]
       PROVE  /\ e = End(loc[t].list)
              /\ Chained(tag2, rank2, ver, c, e)'
              /\ \A m \in Nodes : tag[m] = c => rank[m] <= rank[n]
  <2>1. e = End(loc[t].list) BY <1>2, <1>12, EndFacts DEF Chained, Tagged
  <2>2. /\ n \in Nodes /\ next[n] = e /\ tag[n] # New(t) /\ rank \in [Nodes -> Nat]
        /\ next \in [Nodes -> Address] /\ next' = [next EXCEPT ![n] = a]
    BY <1>2, <1>4, <1>6, <1>9, <1>11, <2>1
  <2>3. Chained(tag, rank, ver, New(t), e) /\ Tagged(tag, ver, a, New(t)) /\ rank[a.node] = 0
    BY <1>8, <2>1
  <2>4. Joined(tag, rank, tag2, rank2, New(t), n) OBVIOUS
  <2>5. PICK x : x = New(t) OBVIOUS
  <2> HIDE DEF n, a
  <2>6. /\ Chained(tag2, rank2, ver, c, e)'
        /\ \A m \in Nodes : tag[m] = c => rank[m] <= rank[n]
    BY <1>12, <2>2, <2>3, <2>4, <2>5, JoinedChain
  <2> QED BY <2>1, <2>6
<1>13. ASSUME NEW c, NEW e, Chained(tag, rank, ver, c, e), c # tag[n], c # New(t)
       PROVE  Chained(tag2, rank2, ver, c, e)'
  BY <1>2, <1>6, <1>9, <1>11, <1>13, OtherChain
<1>14. \A c, b : c # New(t) => (Tagged(tag, ver, b, c) => Tagged(tag2, ver, b, c))
  BY <1>9 DEF Tagged
<1>15. ASSUME NEW l \in Lists PROVE ListOK(tag2, rank2, ver, l)'
  <2>0. ListOK(tag, rank, ver, l) /\ In(l) # New(t) BY TagFacts DEF Graph
  <2>1. Active(l)' <=> Active(l)
    <3>1. CASE l # t BY <1>6, <3>1, ActiveOther
    <3>2. CASE l = t
      <4>1. pc'[t] = "swing" BY <1>6 DEF Moves
      <4> QED BY <1>6, <3>2, <4>1 DEF Active
    <3> QED BY <3>1, <3>2
  <2>2. CASE ~Active(l) BY <1>2, <1>9, <2>0, <2>1, <2>2 DEF ListOK
  <2>3. CASE Active(l)
    <3> DEFINE h == head[l].node
    <3>1. /\ Chained(tag, rank, ver, In(l), End(l))
          /\ Tagged(tag, ver, head[l], In(l)) /\ Tagged(tag, ver, tail[l], In(l))
          /\ \A m \in Nodes : tag[m] = In(l) => rank[h] <= rank[m]
          /\ l # "free" => \A m \in Nodes : tag[m] = In(l) /\ m # h => data[m] >= 1
      BY <2>0, <2>3 DEF ListOK
    <3>2. Tagged(tag2, ver, head[l], In(l)) /\ Tagged(tag2, ver, tail[l], In(l))
      BY <1>14, <2>0, <3>1
    <3>3. h \in Nodes /\ rank2[h] = rank[h] /\ rank[h] \in Nat BY <1>9, <2>0, <3>1 DEF Tagged
    <3>4. CASE tag[n] # In(l)
      <4>1. \A m \in Nodes : tag2[m] = In(l) => tag[m] = In(l) /\ rank2[m] = rank[m]
        BY <1>9, <3>4
      <4>2. Chained(tag2, rank2, ver, In(l), End(l))' BY <1>13, <2>0, <3>1, <3>4
      <4> QED BY <1>6, <2>1, <2>3, <3>1, <3>2, <3>3, <4>1, <4>2 DEF ListOK, Tagged
    <3>5. CASE tag[n] = In(l)
      <4>1. /\ End(l) = End(loc[t].list) /\ Chained(tag2, rank2, ver, In(l), End(l))'
        BY <1>12, <3>1, <3>5, EndFacts
      <4>2. l # "free" => loc[t].list # "free" BY <4>1, EndFacts
      <4>3. ASSUME NEW m \in Nodes, tag2[m] = In(l)
            PROVE  rank2[h] <= rank2[m] /\ (l # "free" /\ m # h => data[m] >= 1)
        <5>1. CASE tag[m] = New(t)
          <6>1. rank2[m] = rank[n] + 1 + rank[m] /\ rank[h] <= rank[n]
            BY <1>2, <1>9, <3>1, <3>5, <5>1
          <6>2. rank[n] \in Nat /\ rank[m] \in Nat BY <1>2, <1>9
          <6>3. rank2[h] <= rank2[m] BY <3>3, <6>1, <6>2
          <6> QED BY <1>8, <4>2, <5>1, <6>3
        <5>2. CASE tag[m] # New(t) BY <1>9, <3>1, <3>3, <4>3, <5>2
        <5> QED BY <5>1, <5>2
      <4> QED BY <1>6, <2>1, <2>3, <3>2, <4>1, <4>3 DEF ListOK, Tagged
    <3> QED BY <3>4, <3>5
  <2> QED BY <2>2, <2>3
<1>16. ASSUME NEW u \in Threads PROVE NewOK(tag2, rank2, ver, u)'
  <2>0. NewOK(tag, rank, ver, u) BY DEF Graph
  <2>1. CASE u = t
    <3>1. \A m \in Nodes : tag2[m] # New(t) BY <1>4, <1>9
    <3>2. pc'[t] = "swing" BY <1>6 DEF Moves
    <3> QED BY <2>1, <3>1, <3>2 DEF NewOK, LinkPcs
  <2>2. CASE u # t
    <3>0. New(u) # New(t) BY <2>2, TagFacts
    <3>1. pc'[u] = pc[u] /\ loc'[u] = loc[u] BY <1>6, <2>2 DEF Moves
    <3>2. CASE pc[u] \notin LinkPcs
      <4>1. \A m \in Nodes : tag[m] # New(u) BY <2>0, <3>2 DEF NewOK
      <4>2. \A m \in Nodes : tag2[m] # New(u) BY <1>2, <1>9, <4>1
      <4> QED BY <3>1, <3>2, <4>2 DEF NewOK
    <3>3. CASE pc[u] \in LinkPcs
      <4>1. /\ Chained(tag, rank, ver, New(u), End(loc[u].list))
            /\ Tagged(tag, ver, loc[u].at, New(u)) /\ rank[loc[u].at.node] = 0
            /\ loc[u].list # "free" => \A m \in Nodes : tag[m] = New(u) => data[m] >= 1
        BY <2>0, <3>3 DEF NewOK
      <4>2. Tagged(tag2, ver, loc[u].at, New(u)) /\ rank2[loc[u].at.node] = 0
        BY <1>9, <1>14, <3>0, <4>1 DEF Tagged
      <4>3. PICK e : e = End(loc[u].list) OBVIOUS
      <4>4. CASE tag[n] # New(u)
        <5>1. \A m \in Nodes : tag2[m] = New(u) => tag[m] = New(u) BY <1>9, <4>4
        <5>2. Chained(tag2, rank2, ver, New(u), e)' BY <1>13, <3>0, <4>1, <4>3, <4>4
        <5>3. Chained(tag2, rank2, ver, New(u), End(loc[u].list))'
          BY <3>1, <4>3, <5>2 DEF Chained
        <5> QED BY <1>6, <3>1, <3>3, <4>1, <4>2, <5>1, <5>3 DEF NewOK, Tagged
      <4>5. CASE tag[n] = New(u)
        <5>1. e = End(loc[t].list) /\ Chained(tag2, rank2, ver, New(u), e)'
          BY <1>12, <4>1, <4>3, <4>5, EndFacts
        <5>2. loc[u].list # "free" => loc[t].list # "free" BY <4>3, <5>1, EndFacts
        <5>3. loc[u].list # "free" => \A m \in Nodes : tag2[m] = New(u) => data[m] >= 1
          BY <1>8, <1>9, <4>1, <5>2
        <5>4. Chained(tag2, rank2, ver, New(u), End(loc[u].list))'
          BY <3>1, <4>3, <5>1 DEF Chained
        <5> QED BY <1>6, <3>1, <3>3, <4>2, <5>3, <5>4 DEF NewOK, Tagged
      <4> QED BY <4>4, <4>5
    <3> QED BY <3>2, <3>3
  <2> QED BY <2>1, <2>2
<1>17. OwnOK(tag2)'
  <2>1. \A u \in Threads, m \in Nodes : tag2[m] = Own(u) => tag[m] = Own(u) /\ m # n
    BY <1>2, <1>5, <1>9
  <2> QED BY <1>11, <2>1 DEF OwnOK, Graph
<1>18. \A b : Seen(tag, ver, b) => Seen(tag2, ver, b)
  BY <1>9 DEF Seen
<1>19. \A b, l : l \in Lists /\ Seen(tag, ver, b) /\ Tagged(tag2, ver, b, In(l)) =>
          Tagged(tag, ver, b, In(l)) /\ rank2[b.node] = rank[b.node]
  BY <1>9 DEF Seen, Tagged
<1>20. ASSUME NEW u \in Threads, pc[u] \in PopPcs \cup HoldPcs \cup LinkPcs \cup {"swing"}
       PROVE  /\ TailAt(tag, rank, ver, loc[u]) => TailAt(tag2, rank2, ver, loc[u])'
              /\ HeadAt(tag, rank, ver, loc[u]) => HeadAt(tag2, rank2, ver, loc[u])'
  <2> DEFINE s == loc[u]
  <2>1. loc'[u] = loc[u] BY <1>6 DEF Moves
  <2>2. /\ s.list \in Lists
        /\ Tagged(tag, ver, head[s.list], In(s.list)) /\ Tagged(tag, ver, tail[s.list], In(s.list))
    BY <1>20, EndsOf
  <2>3. /\ rank2[tail[s.list].node] = rank[tail[s.list].node]
        /\ rank2[head[s.list].node] = rank[head[s.list].node]
    BY <1>9, <2>2, TagFacts DEF Tagged
  <2>4. ASSUME TailAt(tag, rank, ver, s) PROVE TailAt(tag2, rank2, ver, loc[u])'
    <3>1. Seen(tag2, ver, s.tail) BY <1>18, <2>4 DEF TailAt
    <3>2. Tagged(tag2, ver, s.tail, In(s.list)) => rank2[s.tail.node] <= rank2[tail[s.list].node]
      BY <1>19, <2>2, <2>3, <2>4 DEF TailAt
    <3> QED BY <1>6, <2>1, <3>1, <3>2 DEF TailAt, Seen, Tagged
  <2>5. ASSUME HeadAt(tag, rank, ver, s) PROVE HeadAt(tag2, rank2, ver, loc[u])'
    <3>1. Seen(tag2, ver, s.head) BY <1>18, <2>5 DEF HeadAt
    <3>2. Tagged(tag2, ver, s.head, In(s.list)) => s.head.node = head[s.list].node
      BY <1>19, <2>2, <2>5 DEF HeadAt
    <3>3. head[s.list] = s.head /\ s.head # s.tail => rank2[s.head.node] < rank2[tail[s.list].node]
      BY <2>3, <2>5 DEF HeadAt
    <3> QED BY <1>6, <2>1, <3>1, <3>2, <3>3 DEF HeadAt, Seen, Tagged
  <2> QED BY <2>4, <2>5
<1>21. ASSUME NEW u \in Threads PROVE At(tag2, rank2, ver, ord, u, pc[u], loc[u])'
  <2>1. CASE u = t
    <3>1. pc'[t] = "swing" BY <1>6 DEF Moves
    <3>2. TailAt(tag2, rank2, ver, loc[t])' BY <1>2, <1>6, <1>20 DEF LinkPcs
    <3>3. a.node \in Nodes BY <1>8 DEF Tagged
    <3> QED BY <1>6, <1>11, <2>1, <3>1, <3>2, <3>3 DEF At, HoldPcs
  <2>2. CASE u # t
    <3> DEFINE s == loc[u]
    <3>1. At(tag, rank, ver, ord, u, pc[u], loc[u]) BY DEF Graph
    <3>2. pc'[u] = pc[u] /\ loc'[u] = loc[u] BY <1>6, <2>2 DEF Moves
    <3>4. CASE pc[u] \notin PopPcs \cup HoldPcs \cup LinkPcs \cup {"swing"}
      BY <3>2, <3>4 DEF At, PopPcs, HoldPcs, LinkPcs
    <3>5. CASE pc[u] \in PopPcs \cup HoldPcs \cup LinkPcs \cup {"swing"}
      <4>1. TailAt(tag, rank, ver, s) => TailAt(tag2, rank2, ver, loc[u])' BY <1>20, <3>5
      <4>2. HeadAt(tag, rank, ver, s) => HeadAt(tag2, rank2, ver, loc[u])' BY <1>20, <3>5
      <4>3. TailAt(tag, rank, ver, s) /\ (\A w \in Threads : tag[s.tail.node] = New(w) => ord[u] < ord[w])
             => \A w \in Threads : tag2[s.tail.node] = New(w) => ord[u] < ord[w]
        <5> SUFFICES ASSUME TailAt(tag, rank, ver, s), NEW w \in Threads, tag2[s.tail.node] = New(w),
                            \A v \in Threads : tag[s.tail.node] = New(v) => ord[u] < ord[v]
                     PROVE  ord[u] < ord[w]
          OBVIOUS
        <5>1. s.tail.node \in Nodes BY DEF TailAt, Seen
        <5>2. CASE tag[s.tail.node] # New(t) BY <1>9, <5>1, <5>2
        <5>3. CASE tag[s.tail.node] = New(t)
          <6>1. ord[u] < ord[t] /\ ord[t] < ord[w] BY <1>2, <1>9, <5>1, <5>3
          <6>2. ord[u] \in Nat /\ ord[t] \in Nat /\ ord[w] \in Nat BY <1>3 DEF Numbers
          <6> QED BY <6>1, <6>2
        <5> QED BY <5>2, <5>3
      <4>4. \A m \in Nodes : next[m].node \in Nodes => next'[m] = next[m]
        BY <1>2, <1>11, EndFacts
      <4>5. \A c : Tagged(tag, ver, c, Own(u)) => Tagged(tag2, ver, c, Own(u))
        BY <1>14, TagFacts
      <4>6. \A c : Tagged(tag2, ver, c, Own(u))' <=> Tagged(tag2, ver, c, Own(u)) BY DEF Tagged
      <4>7. TailAt(tag, rank, ver, s) => s.tail.node \in Nodes BY DEF TailAt, Seen
      <4>8. HeadAt(tag, rank, ver, s) => s.head.node \in Nodes BY DEF HeadAt, Seen
      <4> QED BY <1>6, <3>1, <3>2, <4>1, <4>2, <4>3, <4>4, <4>5, <4>6, <4>7, <4>8 DEF At
    <3> QED BY <3>4, <3>5
  <2> QED BY <2>1, <2>2
<1> QED BY <1>10, <1>15, <1>16, <1>17, <1>21 DEF Graph, Numbers

\* The dummy of a retain list is a list of its own.
LEMMA RetainGraph ==
    ASSUME NEW tag, NEW rank, NEW ver, NEW ord, NEW top, Graph(tag, rank, ver, ord, top), Kinds,
           NEW t \in Threads, Retain(t), NEW tag2,
           tag2 = [n \in Nodes |-> IF n = loc[t].at.node THEN In(t) ELSE tag[n]]
    PROVE  Graph(tag2, rank, ver, ord, top)'
<1> DEFINE a == loc[t].at
<1> DEFINE d == a.node
<1>1. pc[t] = "retain" /\ loc[t].ret = "retain" /\ t \in Removers /\ t \in Lists
  <2>1. Ctl(t, pc[t], loc[t]) BY DEF Kinds, CtlInv
  <2> QED BY <2>1 DEF Ctl, Retain, HoldPcs, Lists
<1>2. Tagged(tag, ver, a, Own(t)) BY DEF Graph, At, Retain, Got, HoldPcs
<1>3. d \in Nodes /\ tag[d] = Own(t) /\ ver[d] = a.aba BY <1>2 DEF Tagged
<1>4. t \notin {"free", "main"} BY <1>1, RolesAssumption
<1>5. \A n \in Nodes : tag[n] # In(t)
  <2>1. ~Active(t) BY <1>1, <1>4 DEF Active
  <2> QED BY <1>1, <2>1 DEF Graph, ListOK
<1>6. /\ Moves(t, "lock") /\ loc'[t] = loc[t] /\ UNCHANGED data
      /\ next' = [next EXCEPT ![d] = End(t)]
      /\ head' = [head EXCEPT ![t] = a] /\ tail' = [tail EXCEPT ![t] = a]
  BY GotoEffect DEF Retain, Kinds
<1>7. /\ next'[d] = End(t) /\ \A n \in Nodes : n # d => next'[n] = next[n]
      /\ head'[t] = a /\ tail'[t] = a
      /\ \A l \in Lists : l # t => head'[l] = head[l] /\ tail'[l] = tail[l]
  BY <1>1, <1>3, <1>6 DEF Kinds, MemType
<1>8. /\ tag2[d] = In(t) /\ \A n \in Nodes : tag2[n] = In(t) <=> n = d
      /\ \A n \in Nodes, l \in Lists : l # t => (tag2[n] = In(l) <=> tag[n] = In(l))
      /\ \A n \in Nodes, u \in Threads : tag2[n] = New(u) <=> tag[n] = New(u)
      /\ \A n \in Nodes, u \in Threads : tag2[n] = Own(u) <=> tag[n] = Own(u) /\ n # d
  BY <1>3, <1>5, TagFacts
<1>9. /\ \A l \in Lists : tag[d] # In(l)
      /\ \A u \in Threads : tag[d] # New(u) /\ (u # t => tag[d] # Own(u))
  BY <1>3, TagFacts
<1>10. Numbers(rank, ver, ord, top) BY DEF Graph
<1> HIDE DEF a, d
<1>11. ASSUME NEW l \in Lists PROVE ListOK(tag2, rank, ver, l)'
  <2>1. CASE l = t
    <3>1. Active(t)'
      <4>1. pc'[t] = "lock" BY <1>6 DEF Moves
      <4> QED BY <1>1, <4>1 DEF Active
    <3>2. Chained(tag2, rank, ver, In(t), End(t))'
      BY <1>3, <1>7, <1>8, <1>10 DEF Chained, Numbers
    <3>3. Tagged(tag2, ver, a, In(t)) BY <1>3, <1>8 DEF Tagged, d
    <3>4. rank[d] \in Nat BY <1>3, <1>10 DEF Numbers
    <3> QED BY <1>7, <1>8, <2>1, <3>1, <3>2, <3>3, <3>4 DEF ListOK, Tagged, d
  <2>2. CASE l # t
    <3>0. ListOK(tag, rank, ver, l) BY DEF Graph
    <3>1. Active(l)' <=> Active(l) BY <1>6, <2>2, ActiveOther
    <3>2. \A n \in Nodes : (tag2[n] = In(l) <=> tag[n] = In(l)) /\ (tag[n] = In(l) => n # d)
      BY <1>8, <1>9, <2>2
    <3>3. CASE ~Active(l) BY <3>0, <3>1, <3>2, <3>3 DEF ListOK
    <3>4. CASE Active(l)
      <4>1. Chained(tag2, rank, ver, In(l), End(l))'
        BY <1>7, <3>0, <3>2, <3>4 DEF ListOK, Chained, Tagged
      <4> QED BY <1>6, <1>7, <2>2, <3>0, <3>1, <3>2, <3>4, <4>1 DEF ListOK, Tagged
    <3> QED BY <3>3, <3>4
  <2> QED BY <2>1, <2>2
<1>12. ASSUME NEW u \in Threads PROVE NewOK(tag2, rank, ver, u)'
  <2>0. NewOK(tag, rank, ver, u) BY DEF Graph
  <2>1. \A n \in Nodes : (tag2[n] = New(u) <=> tag[n] = New(u)) /\ (tag[n] = New(u) => n # d)
    BY <1>8, <1>9
  <2>2. loc'[u] = loc[u] /\ (pc'[u] \in LinkPcs <=> pc[u] \in LinkPcs)
    BY <1>1, <1>6 DEF Moves, LinkPcs
  <2>3. CASE pc[u] \notin LinkPcs BY <2>0, <2>1, <2>2, <2>3 DEF NewOK
  <2>4. CASE pc[u] \in LinkPcs
    <3>1. Chained(tag2, rank, ver, New(u), End(loc[u].list))'
      BY <1>7, <2>0, <2>1, <2>2, <2>4 DEF NewOK, Chained, Tagged
    <3> QED BY <1>6, <2>0, <2>1, <2>2, <2>4, <3>1 DEF NewOK, Tagged
  <2> QED BY <2>3, <2>4
<1>13. OwnOK(tag2)' BY <1>7, <1>8 DEF OwnOK, Graph
<1>14. ASSUME NEW u \in Threads PROVE At(tag2, rank, ver, ord, u, pc[u], loc[u])'
  <2>1. CASE u = t
    <3>1. pc'[t] = "lock" BY <1>6 DEF Moves
    <3> QED BY <2>1, <3>1 DEF At, HoldPcs
  <2>2. CASE u # t
    <3> DEFINE s == loc[u]
    <3>1. At(tag, rank, ver, ord, u, pc[u], loc[u]) BY DEF Graph
    <3>2. pc'[u] = pc[u] /\ loc'[u] = loc[u] BY <1>6, <2>2 DEF Moves
    <3>3. CASE pc[u] \notin PopPcs \cup HoldPcs \cup LinkPcs \cup {"swing"}
      BY <3>2, <3>3 DEF At, PopPcs, HoldPcs, LinkPcs
    <3>4. CASE pc[u] \in PopPcs \cup HoldPcs \cup LinkPcs \cup {"swing"}
      <4>1. /\ Tagged(tag, ver, head[s.list], In(s.list)) /\ Tagged(tag, ver, tail[s.list], In(s.list))
            /\ s.list # t /\ s.list \in Lists
        BY <1>4, <2>2, <3>4, EndsOf
      <4>2. tail[s.list].node \in Nodes \ {d} /\ head[s.list].node \in Nodes \ {d}
        BY <1>9, <4>1 DEF Tagged
      <4>3. \A c : Seen(tag, ver, c) => Seen(tag2, ver, c) BY <1>8 DEF Seen
      <4>4. \A c : Tagged(tag2, ver, c, In(s.list)) <=> Tagged(tag, ver, c, In(s.list))
        BY <1>8, <4>1 DEF Tagged
      <4>5. head'[s.list] = head[s.list] /\ tail'[s.list] = tail[s.list] BY <1>7, <4>1
      <4>6. TailAt(tag, rank, ver, s) => TailAt(tag2, rank, ver, loc[u])'
        BY <3>2, <4>3, <4>4, <4>5 DEF TailAt, Seen, Tagged
      <4>7. HeadAt(tag, rank, ver, s) => HeadAt(tag2, rank, ver, loc[u])'
        BY <3>2, <4>3, <4>4, <4>5 DEF HeadAt, Seen, Tagged
      <4>8. \A w \in Threads : TailAt(tag, rank, ver, s) =>
               (tag2[s.tail.node] = New(w) <=> tag[s.tail.node] = New(w))
        BY <1>8 DEF TailAt, Seen
      <4>9. /\ tail[s.list] = s.tail => next'[s.tail.node] = next[s.tail.node]
            /\ head[s.list] = s.head => next'[s.head.node] = next[s.head.node]
        BY <1>7, <4>2
      <4>10. \A c : Tagged(tag, ver, c, Own(u)) => Tagged(tag2, ver, c, Own(u))
        BY <1>8, <1>9, <2>2 DEF Tagged
      <4>11. \A c : Tagged(tag2, ver, c, Own(u))' <=> Tagged(tag2, ver, c, Own(u))
        BY DEF Tagged
      <4> HIDE DEF s
      <4>12. s = loc[u] BY DEF s
      <4> QED BY <3>1, <3>2, <4>5, <4>6, <4>7, <4>8, <4>9, <4>10, <4>11, <4>12 DEF At
    <3> QED BY <3>3, <3>4
  <2> QED BY <2>1, <2>2
<1> QED BY <1>10, <1>11, <1>12, <1>13, <1>14 DEF Graph, Numbers

LEMMA InitGraph ==
    ASSUME Init PROVE \E tag, rank, ver, ord, top : Graph(tag, rank, ver, ord, top)
<1>1. PICK tag : tag = [n \in Nodes |-> IF n = 1 THEN In("main") ELSE In("free")] OBVIOUS
<1>2. PICK rank : rank = [n \in Nodes |-> Size - n] OBVIOUS
<1>3. PICK ver : ver = [n \in Nodes |-> 0] OBVIOUS
<1>4. PICK ord : ord = [u \in Threads |-> 0] OBVIOUS
<1>5. Numbers(rank, ver, ord, 0)
  <2>1. \A n \in Nodes : Size - n \in Nat BY SizeAssumption DEF Nodes
  <2> QED BY <1>2, <1>3, <1>4, <2>1 DEF Numbers
<1>6. \A u \in Threads : pc[u] = "idle" /\ loc[u].ret = "idle" BY DEF Init, Fresh
<1>7. /\ \A l \in Lists : Active(l) <=> l \in {"free", "main"}
      /\ \A l \in Lists : l \notin {"free", "main"} => l \in Removers
  BY <1>6 DEF Active, Threads, Lists
<1>8. In("main") # In("free") BY TagFacts
<1>9. ASSUME NEW l \in Lists PROVE ListOK(tag, rank, ver, l)
  <2>1. CASE l \notin {"free", "main"}
    <3>1. In(l) # In("main") /\ In(l) # In("free") BY <2>1, TagFacts
    <3>2. \A n \in Nodes : tag[n] # In(l) BY <1>1, <3>1
    <3> QED BY <1>7, <2>1, <3>2 DEF ListOK
  <2>2. CASE l = "main"
    <3>1. \A n \in Nodes : tag[n] = In("main") <=> n = 1 BY <1>1, <1>8
    <3>2. next[1] = End("main") /\ head["main"] = Addr(1, 0) /\ tail["main"] = Addr(1, 0)
      BY NodeFacts DEF Init, Lists
    <3>3. Tagged(tag, ver, Addr(1, 0), In("main")) BY <1>3, <3>1, NodeFacts DEF Tagged
    <3>4. rank[1] \in Nat BY <1>5, NodeFacts DEF Numbers
    <3>5. Chained(tag, rank, ver, In("main"), End("main")) BY <3>1, <3>2, <3>4 DEF Chained
    <3> QED BY <1>7, <2>2, <3>1, <3>2, <3>3, <3>4, <3>5, NodeFacts DEF ListOK
  <2>3. CASE l = "free"
    <3>1. \A n \in Nodes : tag[n] = In("free") <=> n # 1 BY <1>1, <1>8
    <3>2. /\ next[2] = End("free") /\ head["free"] = Addr(Size, 0) /\ tail["free"] = Addr(2, 0)
          /\ \A n \in Nodes : n # 1 /\ n # 2 => next[n] = Addr(n - 1, 0)
      BY NodeFacts DEF Init, Lists
    <3>3. Tagged(tag, ver, Addr(Size, 0), In("free")) /\ Tagged(tag, ver, Addr(2, 0), In("free"))
      BY <1>3, <3>1, NodeFacts, SizeAssumption DEF Tagged
    <3>4. \A n \in Nodes : n # 1 => rank[n] <= rank[2] /\ rank[Size] <= rank[n]
      BY <1>2, SizeAssumption, NodeFacts DEF Nodes
    <3>5. ASSUME NEW n \in Nodes, n # 1, n # 2
          PROVE  Tagged(tag, ver, next[n], In("free")) /\ rank[next[n].node] = rank[n] + 1
      <4>1. n - 1 \in Nodes /\ n - 1 # 1 /\ next[n] = Addr(n - 1, 0)
        BY <3>2, <3>5, NodeFacts DEF Nodes
      <4>2. next[n].node = n - 1 /\ next[n].aba = 0 BY <4>1, NodeFacts
      <4>3. rank[n - 1] = rank[n] + 1 BY <1>2, <4>1, SizeAssumption DEF Nodes
      <4> QED BY <1>3, <3>1, <4>1, <4>2, <4>3 DEF Tagged
    <3>6. \A m, n \in Nodes : rank[m] = rank[n] => m = n BY <1>2, SizeAssumption DEF Nodes
    <3>7. Chained(tag, rank, ver, In("free"), End("free"))
      BY <3>1, <3>2, <3>4, <3>5, <3>6 DEF Chained
    <3> QED BY <1>7, <2>3, <3>1, <3>2, <3>3, <3>4, <3>7, NodeFacts DEF ListOK
  <2> QED BY <2>1, <2>2, <2>3
<1>10. \A u \in Threads : NewOK(tag, rank, ver, u) BY <1>1, <1>6, TagFacts DEF NewOK, LinkPcs
<1>11. OwnOK(tag) BY <1>1, TagFacts DEF OwnOK
<1>12. \A u \in Threads : At(tag, rank, ver, ord, u, pc[u], loc[u]) BY <1>6, AtRest
<1>13. Graph(tag, rank, ver, ord, 0) BY <1>5, <1>9, <1>10, <1>11, <1>12 DEF Graph
<1> QED BY <1>13

-----------------------------------------------------------------------------
(* The steps that leave the nodes alone.                                   *)

LEMMA ActiveSame ==
    ASSUME NEW t \in Threads, NEW p, Moves(t, p),
           (p = "lock" \/ loc'[t].ret \in {"took", "gave", "drop"})
             <=> (pc[t] = "lock" \/ loc[t].ret \in {"took", "gave", "drop"})
    PROVE  Active(t)' <=> Active(t)
BY DEF Active, Moves

\* A thread goes to a place where nothing is known of what it read.
LEMMA RestGraph ==
    ASSUME NEW tag, NEW rank, NEW ver, NEW ord, NEW top, Graph(tag, rank, ver, ord, top),
           NEW t \in Threads, NEW p \in {"idle", "loadTail", "pop"}, Moves(t, p),
           UNCHANGED <<next, data, head, tail>>,
           p \in LinkPcs <=> pc[t] \in LinkPcs,
           p \in LinkPcs => loc'[t].at = loc[t].at /\ loc'[t].list = loc[t].list,
           loc'[t].ret \in {"took", "gave", "drop"}
             <=> (pc[t] = "lock" \/ loc[t].ret \in {"took", "gave", "drop"})
    PROVE  Graph(tag, rank, ver, ord, top)'
<1>1. Active(t)' <=> Active(t) BY ActiveSame
<1>2. At(tag, rank, ver, ord, t, pc[t], loc[t])'
  <2>1. pc'[t] = p BY DEF Moves
  <2> QED BY <2>1 DEF At, HoldPcs
<1> QED BY <1>1, <1>2, LocalGraph

LEMMA InSeen ==
    ASSUME NEW tag, NEW ver, NEW a, NEW l, Tagged(tag, ver, a, In(l)), NEW rank, NEW ord, NEW top,
           Numbers(rank, ver, ord, top)
    PROVE  Seen(tag, ver, a)
BY TagFacts DEF Tagged, Seen, Numbers

LEMMA LoadTailGraph ==
    ASSUME NEW tag, NEW rank, NEW ver, NEW ord, NEW top, Graph(tag, rank, ver, ord, top), Kinds,
           NEW t \in Threads, LoadTail(t)
    PROVE  Graph(tag, rank, ver, ord, top)'
<1>1. /\ Moves(t, "loadTailNext") /\ pc[t] = "loadTail"
      /\ loc'[t] = [loc[t] EXCEPT !.tail = tail[loc[t].list]]
      /\ UNCHANGED <<next, data, head, tail>>
  BY GoEffect DEF LoadTail, Kinds, memory
<1>2. /\ loc'[t].tail = tail[loc[t].list] /\ loc'[t].list = loc[t].list
      /\ loc'[t].at = loc[t].at /\ loc'[t].ret = loc[t].ret
  BY <1>1 DEF Kinds, LocType, Locals
<1>3. /\ loc[t].list \in Lists
      /\ Tagged(tag, ver, tail[loc[t].list], In(loc[t].list))
  BY <1>1, EndsOf DEF LinkPcs
<1>4. Seen(tag, ver, tail[loc[t].list]) BY <1>3, InSeen DEF Graph
<1>5. Active(t)' <=> Active(t) BY <1>1, <1>2, ActiveSame
<1>6. TailAt(tag, rank, ver, loc[t])'
  <2>1. rank[tail[loc[t].list].node] <= rank[tail[loc[t].list].node]
    BY <1>3 DEF Graph, Numbers, Tagged
  <2> QED BY <1>1, <1>2, <1>4, <2>1 DEF TailAt, Seen, Tagged
<1>7. \A u \in Threads : tag[tail[loc[t].list].node] # New(u) BY <1>3, TagFacts DEF Tagged
<1>8. At(tag, rank, ver, ord, t, pc[t], loc[t])'
  <2>1. pc'[t] = "loadTailNext" BY <1>1 DEF Moves
  <2> QED BY <1>2, <1>6, <1>7, <2>1 DEF At, HoldPcs
<1> QED BY <1>1, <1>2, <1>5, <1>8, LocalGraph DEF LinkPcs

LEMMA LoadTailNextGraph ==
    ASSUME NEW tag, NEW rank, NEW ver, NEW ord, NEW top, Graph(tag, rank, ver, ord, top), Kinds,
           NEW t \in Threads, LoadTailNext(t)
    PROVE  Graph(tag, rank, ver, ord, top)'
<1> DEFINE l == loc[t].list
<1> DEFINE n == next[loc[t].tail.node]
<1>1. pc[t] = "loadTailNext" /\ UNCHANGED <<next, data, head, tail>> BY DEF LoadTailNext, memory
<1>2. CASE loc[t].tail # tail[l]
  <2>1. Moves(t, "loadTail") /\ loc'[t] = loc[t]
    BY <1>2, GotoEffect DEF LoadTailNext, Kinds
  <2> QED BY <1>1, <2>1, RestGraph DEF LinkPcs
<1>3. CASE loc[t].tail = tail[l]
  <2> DEFINE p == IF n = End(l) THEN "link" ELSE "help"
  <2>1. Moves(t, p) /\ loc'[t] = [loc[t] EXCEPT !.next = n]
    BY <1>3, GoEffect DEF LoadTailNext, Kinds
  <2>2. /\ loc'[t].tail = loc[t].tail /\ loc'[t].list = loc[t].list /\ loc'[t].next = n
        /\ loc'[t].at = loc[t].at /\ loc'[t].ret = loc[t].ret
    BY <2>1 DEF Kinds, LocType, Locals
  <2>3. l \in Lists /\ Active(l)
    <3>1. pc[t] \in LinkPcs BY <1>1 DEF LinkPcs
    <3> QED BY <3>1, ActiveList
  <2>4. n # End(l) => n.node \in Nodes
    <3>1. ListOK(tag, rank, ver, l) BY <2>3 DEF Graph
    <3> QED BY <1>3, <2>3, <3>1 DEF ListOK, Chained, Tagged
  <2>5. At(tag, rank, ver, ord, t, "loadTailNext", loc[t]) BY <1>1 DEF Graph
  <2>6. TailAt(tag, rank, ver, loc[t])'
    BY <1>1, <2>2, <2>5 DEF At, TailAt, Seen, Tagged
  <2>7. \A u \in Threads : tag[loc[t].tail.node] = New(u) => ord[t] < ord[u]
    BY <2>5 DEF At
  <2>8. At(tag, rank, ver, ord, t, pc[t], loc[t])'
    <3>1. pc'[t] = p BY <2>1 DEF Moves
    <3>2. CASE n = End(l) BY <2>2, <2>6, <2>7, <3>1, <3>2 DEF At, HoldPcs
    <3>3. CASE n # End(l) BY <1>1, <2>2, <2>4, <2>6, <2>7, <3>1, <3>3 DEF At, HoldPcs
    <3> QED BY <3>2, <3>3
  <2>9. Active(t)' <=> Active(t) BY <1>1, <2>1, <2>2, ActiveSame
  <2>10. p \in LinkPcs BY DEF LinkPcs
  <2> HIDE DEF p
  <2> QED BY <1>1, <2>1, <2>2, <2>8, <2>9, <2>10, LocalGraph DEF LinkPcs
<1> QED BY <1>2, <1>3

LEMMA LoadHeadGraph ==
    ASSUME NEW tag, NEW rank, NEW ver, NEW ord, NEW top, Graph(tag, rank, ver, ord, top), Kinds,
           NEW t \in Threads, LoadHead(t)
    PROVE  Graph(tag, rank, ver, ord, top)'
<1> DEFINE l == loc[t].list
<1>1. /\ Moves(t, "popNext") /\ pc[t] = "pop"
      /\ loc'[t] = [loc[t] EXCEPT !.head = head[l], !.tail = tail[l]]
      /\ UNCHANGED <<next, data, head, tail>>
  BY GoEffect DEF LoadHead, Kinds, memory
<1>2. /\ loc'[t].tail = tail[l] /\ loc'[t].head = head[l] /\ loc'[t].list = l
      /\ loc'[t].ret = loc[t].ret
  BY <1>1 DEF Kinds, LocType, Locals
<1>3. l \in Lists /\ Active(l)
  <2>1. pc[t] \in PopPcs BY <1>1 DEF PopPcs
  <2> QED BY <2>1, ActiveList
<1>4. ListOK(tag, rank, ver, l) BY <1>3 DEF Graph
<1>5. /\ Tagged(tag, ver, head[l], In(l)) /\ Tagged(tag, ver, tail[l], In(l))
      /\ \A n \in Nodes : tag[n] = In(l) => rank[head[l].node] <= rank[n]
      /\ \A m, n \in Nodes : tag[m] = In(l) /\ tag[n] = In(l) /\ rank[m] = rank[n] => m = n
  BY <1>3, <1>4 DEF ListOK, Chained
<1>6. Seen(tag, ver, head[l]) /\ Seen(tag, ver, tail[l]) BY <1>5, InSeen DEF Graph
<1>7. rank[tail[l].node] \in Nat /\ rank[head[l].node] \in Nat BY <1>5 DEF Graph, Numbers, Tagged
<1>8. head[l] # tail[l] => rank[head[l].node] < rank[tail[l].node]
  <2>1. head[l] # tail[l] => head[l].node # tail[l].node
    <3>1. head[l] \in Address /\ tail[l] \in Address BY <1>3 DEF Kinds, MemType
    <3>2. head[l].node = tail[l].node => head[l].aba = tail[l].aba BY <1>5 DEF Tagged
    <3> QED BY <3>1, <3>2, SameAddress
  <2>2. head[l] # tail[l] => rank[head[l].node] # rank[tail[l].node]
    BY <1>5, <2>1 DEF Tagged
  <2> QED BY <1>5, <1>7, <2>2 DEF Tagged
<1>9. TailAt(tag, rank, ver, loc[t])'
  <2>1. rank[tail[l].node] <= rank[tail[l].node] BY <1>7
  <2> QED BY <1>1, <1>2, <1>6, <2>1 DEF TailAt, Seen, Tagged
<1>10. HeadAt(tag, rank, ver, loc[t])' BY <1>1, <1>2, <1>6, <1>8 DEF HeadAt, Seen, Tagged
<1>11. At(tag, rank, ver, ord, t, pc[t], loc[t])'
  <2>1. pc'[t] = "popNext" BY <1>1 DEF Moves
  <2> QED BY <1>9, <1>10, <2>1 DEF At, HoldPcs
<1>12. Active(t)' <=> Active(t) BY <1>1, <1>2, ActiveSame
<1> QED BY <1>1, <1>11, <1>12, LocalGraph DEF LinkPcs

LEMMA PopLoadNextGraph ==
    ASSUME NEW tag, NEW rank, NEW ver, NEW ord, NEW top, Graph(tag, rank, ver, ord, top), Kinds,
           NEW t \in Threads, PopLoadNext(t)
    PROVE  Graph(tag, rank, ver, ord, top)'
<1> DEFINE l == loc[t].list
<1> DEFINE n == next[loc[t].head.node]
<1>1. pc[t] = "popNext" /\ UNCHANGED <<next, data, head, tail>> BY DEF PopLoadNext, memory
<1>2. l \in Lists /\ Active(l) /\ loc[t].ret \in HoldPcs
  <2>1. pc[t] \in PopPcs BY <1>1 DEF PopPcs
  <2>2. Ctl(t, pc[t], loc[t]) BY DEF Kinds, CtlInv
  <2> QED BY <2>1, <2>2, ActiveList DEF Ctl
<1>3. ListOK(tag, rank, ver, l) BY <1>2 DEF Graph
<1>4. At(tag, rank, ver, ord, t, "popNext", loc[t]) BY <1>1 DEF Graph
<1>5. TailAt(tag, rank, ver, loc[t]) /\ HeadAt(tag, rank, ver, loc[t]) BY <1>4 DEF At
<1>6. CASE Goto(t, "pop")
  <2>1. Moves(t, "pop") /\ loc'[t] = loc[t] BY <1>6, GotoEffect DEF Kinds
  <2> QED BY <1>1, <2>1, RestGraph DEF LinkPcs
<1>7. CASE Go(t, loc[t].ret, [loc[t] EXCEPT !.at = End(l)])
  <2>1. Moves(t, loc[t].ret) /\ loc'[t] = [loc[t] EXCEPT !.at = End(l)]
    BY <1>7, GoEffect DEF Kinds
  <2>2. loc'[t].at = End(l) /\ loc'[t].list = l /\ loc'[t].ret = loc[t].ret
    BY <2>1 DEF Kinds, LocType, Locals
  <2>3. loc[t].ret \notin LinkPcs /\ loc[t].ret # "lock" BY <1>2 DEF LinkPcs, HoldPcs
  <2>4. Active(t)' <=> Active(t) BY <1>1, <2>1, <2>2, <2>3, ActiveSame
  <2>5. At(tag, rank, ver, ord, t, pc[t], loc[t])'
    <3>1. pc'[t] \in HoldPcs BY <1>2, <2>1 DEF Moves
    <3> QED BY <2>2, <3>1 DEF At, HoldPcs
  <2> QED BY <1>1, <2>1, <2>3, <2>4, <2>5, LocalGraph DEF LinkPcs
<1>8. CASE /\ loc[t].head = head[l] /\ loc[t].head = loc[t].tail /\ ~Exhausted(loc[t], n)
           /\ Go(t, "popHelp", [loc[t] EXCEPT !.next = n])
  <2>1. Moves(t, "popHelp") /\ loc'[t] = [loc[t] EXCEPT !.next = n]
    BY <1>8, GoEffect DEF Kinds
  <2>2. /\ loc'[t].tail = loc[t].tail /\ loc'[t].list = l /\ loc'[t].next = n
        /\ loc'[t].ret = loc[t].ret
    BY <2>1 DEF Kinds, LocType, Locals
  <2>3. n.node \in Nodes
    <3>1. n # End(l) BY <1>8 DEF Exhausted
    <3> QED BY <1>2, <1>3, <1>8, <3>1 DEF ListOK, Chained, Tagged
  <2>4. Active(t)' <=> Active(t) BY <1>1, <2>1, <2>2, ActiveSame
  <2>5. TailAt(tag, rank, ver, loc[t])' BY <1>1, <1>5, <2>2 DEF TailAt, Seen, Tagged
  <2>6. At(tag, rank, ver, ord, t, pc[t], loc[t])'
    <3>1. pc'[t] = "popHelp" BY <2>1 DEF Moves
    <3> QED BY <1>1, <1>8, <2>2, <2>3, <2>5, <3>1 DEF At, HoldPcs
  <2> QED BY <1>1, <2>1, <2>4, <2>6, LocalGraph DEF LinkPcs
<1>9. CASE /\ loc[t].head = head[l] /\ loc[t].head # loc[t].tail
           /\ Go(t, "swapHead", [loc[t] EXCEPT !.next = n, !.val = Value(n)])
  <2>1. Moves(t, "swapHead") /\ loc'[t] = [loc[t] EXCEPT !.next = n, !.val = Value(n)]
    BY <1>9, GoEffect DEF Kinds
  <2>2. /\ loc'[t].tail = loc[t].tail /\ loc'[t].list = l /\ loc'[t].next = n
        /\ loc'[t].ret = loc[t].ret /\ loc'[t].head = loc[t].head /\ loc'[t].val = Value(n)
    BY <2>1 DEF Kinds, LocType, Locals
  <2>3. /\ rank[head[l].node] < rank[tail[l].node] /\ head[l].node \in Nodes
        /\ Tagged(tag, ver, head[l], In(l)) /\ Tagged(tag, ver, tail[l], In(l))
    BY <1>2, <1>3, <1>5, <1>9 DEF HeadAt, Seen, ListOK
  <2>4. \A m \in Nodes : rank[m] \in Nat BY DEF Graph, Numbers
  <2>5. Tagged(tag, ver, n, In(l)) /\ rank[n.node] = rank[head[l].node] + 1
    <3>1. ~(rank[tail[l].node] <= rank[head[l].node]) BY <2>3, <2>4 DEF Tagged
    <3> QED BY <1>2, <1>3, <1>9, <2>3, <3>1 DEF ListOK, Chained, Tagged
  <2>6. n.node \in Nodes /\ (l # "free" => Value(n) >= 1)
    <3>1. n.node \in Nodes /\ n.node # head[l].node BY <2>3, <2>4, <2>5 DEF Tagged
    <3> QED BY <1>2, <1>3, <2>5, <3>1 DEF ListOK, Tagged, Value
  <2>7. Active(t)' <=> Active(t) BY <1>1, <2>1, <2>2, ActiveSame
  <2>8. HeadAt(tag, rank, ver, loc[t])' BY <1>1, <1>5, <2>2 DEF HeadAt, Seen, Tagged
  <2>9. At(tag, rank, ver, ord, t, pc[t], loc[t])'
    <3>1. pc'[t] = "swapHead" BY <2>1 DEF Moves
    <3> QED BY <1>1, <1>9, <2>2, <2>6, <2>8, <3>1 DEF At, HoldPcs
  <2> QED BY <1>1, <2>1, <2>7, <2>9, LocalGraph DEF LinkPcs
<1> QED BY <1>6, <1>7, <1>8, <1>9 DEF PopLoadNext

-----------------------------------------------------------------------------
(* All steps.                                                              *)

Shaped == \E tag, rank, ver, ord, top : Graph(tag, rank, ver, ord, top)

\* No node has been recycled 65535 times: where push bumps a counter it does not come
\* round.  With a counter that does, a stale exchange could succeed.
NoWrap ==
    /\ \A t \in Threads : loc[t].at.aba + 1 < Aba
    /\ \A l \in Lists : head[l].aba + 1 < Aba

Calls(t)  == PushBack(t) \/ PopFront(t) \/ RemoveIf(t)
Leaves(t) == PushFails(t) \/ (PopReturns(t) /\ ~Got(t))
Hands(t)  == \/ MoveBack(t) \/ FreeNode(t) \/ (PopReturns(t) /\ Got(t)) \/ Keep(t) \/ TakeOut(t)
             \/ Give(t) \/ Drop(t)

LEMMA CallsGraph ==
    ASSUME NEW tag, NEW rank, NEW ver, NEW ord, NEW top, Graph(tag, rank, ver, ord, top), Kinds,
           NEW t \in Threads, Calls(t) \/ Leaves(t)
    PROVE  Graph(tag, rank, ver, ord, top)'
<1>0. Ctl(t, pc[t], loc[t]) BY DEF Kinds, CtlInv
<1>1. UNCHANGED <<next, data, head, tail>>
  BY DEF Calls, Leaves, PushBack, PopFront, RemoveIf, PushFails, PopReturns, memory
<1>2. CASE Calls(t)
  <2>1. \E r : Go(t, "pop", r) /\ r.ret \in {"alloc", "popped", "retain"}
    <3>1. CASE PushBack(t)
      <4> DEFINE r == [Fresh EXCEPT !.list = "free", !.ret = "alloc", !.item = pushes + 1]
      <4>1. Go(t, "pop", r) BY <3>1 DEF PushBack
      <4>2. r.ret = "alloc" BY FreshType DEF Locals
      <4> QED BY <4>1, <4>2
    <3>2. CASE PopFront(t) BY <3>2 DEF PopFront, Fresh
    <3>3. CASE RemoveIf(t)
      <4> DEFINE r == [Fresh EXCEPT !.list = "free", !.ret = "retain"]
      <4>1. Go(t, "pop", r) BY <3>3 DEF RemoveIf
      <4>2. r.ret = "retain" BY FreshType DEF Locals
      <4> QED BY <4>1, <4>2
    <3> QED BY <1>2, <3>1, <3>2, <3>3 DEF Calls
  <2>2. Moves(t, "pop") /\ loc'[t].ret \in {"alloc", "popped", "retain"}
    BY <2>1, GoEffect DEF Kinds
  <2>3. pc[t] = "idle" BY <1>2 DEF Calls, PushBack, PopFront, RemoveIf
  <2>4. loc[t].ret = "idle" BY <1>0, <2>3 DEF Ctl
  <2> QED BY <1>1, <2>2, <2>3, <2>4, RestGraph DEF LinkPcs
<1>3. CASE Leaves(t)
  <2>1. Moves(t, "idle") /\ loc'[t].ret = "idle"
    BY <1>3, GoEffect DEF Leaves, PushFails, PopReturns, Kinds, Fresh
  <2>2. pc[t] \in {"alloc", "popped"} BY <1>3 DEF Leaves, PushFails, PopReturns
  <2>3. loc[t].ret = pc[t] BY <1>0, <2>2 DEF Ctl, HoldPcs
  <2> QED BY <1>1, <2>1, <2>2, <2>3, RestGraph DEF LinkPcs
<1> QED BY <1>2, <1>3

LEMMA NextPopGraph ==
    ASSUME NEW tag, NEW rank, NEW ver, NEW ord, NEW top, Graph(tag, rank, ver, ord, top), Kinds,
           NEW t \in Threads, Lock(t) \/ GiveBack(t) \/ Unlock(t)
    PROVE  Graph(tag, rank, ver, ord, top)'
<1>0. Ctl(t, pc[t], loc[t]) BY DEF Kinds, CtlInv
<1>1. UNCHANGED <<next, data, head, tail>> BY DEF Lock, GiveBack, Unlock, memory
<1>2. PICK l, r : Go(t, "pop", Popping(t, l, r)) /\ r \in {"took", "gave", "drop"}
  BY DEF Lock, GiveBack, Unlock, Pop
<1>3. Moves(t, "pop") /\ loc'[t].ret \in {"took", "gave", "drop"}
  <2>1. Moves(t, "pop") /\ loc'[t] = Popping(t, l, r) BY <1>2, GoEffect DEF Kinds
  <2>2. Popping(t, l, r).ret = r BY DEF Popping, Kinds, LocType, Locals
  <2> QED BY <1>2, <2>1, <2>2
<1>4. pc[t] = "lock" \/ (pc[t] \in {"took", "gave"} /\ loc[t].ret = pc[t])
  BY <1>0 DEF Lock, GiveBack, Unlock, Ctl, HoldPcs
<1> QED BY <1>1, <1>3, <1>4, RestGraph DEF LinkPcs

LEMMA HelpGraph ==
    ASSUME NEW tag, NEW rank, NEW ver, NEW ord, NEW top, Graph(tag, rank, ver, ord, top), Kinds,
           NEW t \in Threads, Help(t) \/ PopHelp(t) \/ Swing(t)
    PROVE  Graph(tag, rank, ver, ord, top)'
<1>0. At(tag, rank, ver, ord, t, pc[t], loc[t]) BY DEF Graph
<1>1. CASE Help(t)
  <2>1. pc[t] = "help" /\ Moves(t, "loadTail") /\ loc'[t] = loc[t]
    BY <1>1, GotoEffect DEF Help, Kinds
  <2>2. /\ loc[t].next.node \in Nodes
        /\ tail[loc[t].list] = loc[t].tail => next[loc[t].tail.node] = loc[t].next
    BY <1>0, <2>1 DEF At
  <2>3. Active(t)' <=> Active(t) BY <2>1, ActiveSame
  <2>4. SwapTail(t, loc[t].next) /\ UNCHANGED <<next, data, head>> BY <1>1 DEF Help
  <2> QED BY <2>1, <2>2, <2>3, <2>4, TailGraph DEF LinkPcs
<1>2. CASE PopHelp(t)
  <2>1. pc[t] = "popHelp" /\ Moves(t, "pop") /\ loc'[t] = loc[t]
    BY <1>2, GotoEffect DEF PopHelp, Kinds
  <2>2. /\ loc[t].next.node \in Nodes
        /\ tail[loc[t].list] = loc[t].tail => next[loc[t].tail.node] = loc[t].next
    BY <1>0, <2>1 DEF At
  <2>3. Active(t)' <=> Active(t) BY <2>1, ActiveSame
  <2>4. SwapTail(t, loc[t].next) /\ UNCHANGED <<next, data, head>> BY <1>2 DEF PopHelp
  <2> QED BY <2>1, <2>2, <2>3, <2>4, TailGraph DEF LinkPcs
<1>3. CASE Swing(t)
  <2>0. Ctl(t, pc[t], loc[t]) /\ pc[t] = "swing" BY <1>3 DEF Kinds, CtlInv, Swing
  <2>1. \E p \in {"idle", "pop"} : Moves(t, p) /\ loc'[t].ret = loc[t].ret
    <3>1. CASE loc[t].ret = "idle"
      <4>1. Go(t, "idle", Fresh) BY <1>3, <3>1 DEF Swing
      <4>2. Moves(t, "idle") /\ loc'[t] = Fresh BY <4>1, GoEffect DEF Kinds
      <4> QED BY <3>1, <4>2 DEF Fresh
    <3>2. CASE loc[t].ret # "idle"
      <4> DEFINE r == Popping(t, From(t, loc[t].ret), loc[t].ret)
      <4>1. Go(t, "pop", r) BY <1>3, <3>2 DEF Swing, Pop
      <4>2. r.ret = loc[t].ret BY DEF Popping, Kinds, LocType, Locals
      <4> HIDE DEF r
      <4>3. Moves(t, "pop") /\ loc'[t] = r BY <4>1, GoEffect DEF Kinds
      <4> QED BY <4>2, <4>3
    <3> QED BY <3>1, <3>2
  <2>2. /\ loc[t].at.node \in Nodes
        /\ tail[loc[t].list] = loc[t].tail => next[loc[t].tail.node] = loc[t].at
    BY <1>0, <2>0 DEF At
  <2>3. Active(t)' <=> Active(t) BY <2>0, <2>1, ActiveSame
  <2>4. SwapTail(t, loc[t].at) /\ UNCHANGED <<next, data, head>> BY <1>3 DEF Swing
  <2> QED BY <2>0, <2>1, <2>2, <2>3, <2>4, TailGraph DEF LinkPcs
<1> QED BY <1>1, <1>2, <1>3

LEMMA HandsGraph ==
    ASSUME NEW tag, NEW rank, NEW ver, NEW ord, NEW top, Graph(tag, rank, ver, ord, top), Kinds,
           NoWrap, NEW t \in Threads, Hands(t)
    PROVE  Shaped'
<1>0. Sound(t) BY GraphSound
<1>1. PICK l \in Lists, r \in Rets :
          /\ Pushes(t, l, loc[t].at, r)
          /\ r = IF pc[t] \in {"took", "gave", "drop"} THEN pc[t] ELSE "idle"
  BY <1>0, PushSteps DEF Hands
<1>2. pc[t] \in HoldPcs /\ Got(t) /\ loc[t].at \in Address BY <1>0, PushSteps DEF Hands
<1> DEFINE a == loc[t].at
<1>3. Tagged(tag, ver, a, Own(t)) BY <1>2 DEF Graph, At, Got
<1>4. a.aba + 1 < Aba BY DEF NoWrap
<1>5. Active(t)' <=> Active(t)
  <2>1. Ctl(t, pc[t], loc[t]) BY DEF Kinds, CtlInv
  <2>2. loc[t].ret = pc[t] BY <1>2, <2>1 DEF Ctl
  <2>3. Moves(t, "loadTail") /\ loc'[t].ret = r
    BY <1>1, GoEffect DEF Pushes, Push, Kinds, LocType, Locals
  <2>5. r \in {"took", "gave", "drop"} <=> pc[t] \in {"took", "gave", "drop"}
    BY <1>1
  <2>6. pc[t] # "lock" BY <1>2 DEF HoldPcs
  <2> QED BY <2>2, <2>3, <2>5, <2>6, ActiveSame
<1> PICK gone \in BOOLEAN : ~gone OBVIOUS
<1>6. PICK tag2, rank2, ver2, ord2 :
        /\ tag2 = [n \in Nodes |-> IF n = a.node THEN New(t)
                                   ELSE IF gone /\ tag[n] = In(t) THEN Lost ELSE tag[n]]
        /\ rank2 = [n \in Nodes |-> IF n = a.node THEN 0 ELSE rank[n]]
        /\ ver2 = [n \in Nodes |-> IF n = a.node THEN a.aba + 1 ELSE ver[n]]
        /\ ord2 = [u \in Threads |-> IF u = t THEN top + 1 ELSE ord[u]]
  OBVIOUS
<1>7. a.node \in Nodes /\ tag[a.node] = Own(t) /\ ver[a.node] = a.aba BY <1>3 DEF Tagged
<1> HIDE DEF a
<1>8. Graph(tag2, rank2, ver2, ord2, top + 1)'
  <2>1. Pushes(t, l, a, r) /\ a \in Address BY <1>1, <1>2 DEF a
  <2> QED BY <1>2, <1>4, <1>5, <1>6, <1>7, <2>1, PushGraph
<1> QED BY <1>8 DEF Shaped

LEMMA FreeDummySteps ==
    ASSUME NEW tag, NEW rank, NEW ver, NEW ord, NEW top, Graph(tag, rank, ver, ord, top), Kinds,
           NEW t \in Threads, FreeDummy(t)
    PROVE  /\ pc[t] = "drop" /\ t \in Removers /\ t \in Lists /\ head[t] \in Address
           /\ Tagged(tag, ver, head[t], In(t))
           /\ Pushes(t, "free", head[t], "idle") /\ removed' = removed
           /\ Moves(t, "loadTail") /\ loc'[t].ret = "idle"
<1>0. Ctl(t, pc[t], loc[t]) BY DEF Kinds, CtlInv
<1>1. pc[t] = "drop" /\ loc[t].ret = "drop" /\ t \in Removers
  BY <1>0 DEF FreeDummy, Ctl, HoldPcs
<1>2. t \in Lists /\ Active(t) BY <1>1 DEF Active, Lists
<1>3. ListOK(tag, rank, ver, t) BY <1>2 DEF Graph
<1>4. Pushes(t, "free", head[t], "idle") /\ removed' = removed
  BY DEF FreeDummy, Free, Pushes, counts, hist
<1>5. head[t] \in Address BY <1>2 DEF Kinds, MemType
<1>6. Moves(t, "loadTail") /\ loc'[t].ret = "idle"
  BY GoEffect DEF FreeDummy, Free, Push, Kinds, LocType, Locals
<1> QED BY <1>1, <1>2, <1>3, <1>4, <1>5, <1>6 DEF ListOK

LEMMA FreeDummyGraph ==
    ASSUME NEW tag, NEW rank, NEW ver, NEW ord, NEW top, Graph(tag, rank, ver, ord, top), Kinds,
           NoWrap, NEW t \in Threads, FreeDummy(t)
    PROVE  Shaped'
<1> DEFINE a == head[t]
<1>1. /\ pc[t] = "drop" /\ t \in Removers /\ t \in Lists /\ a \in Address
      /\ Tagged(tag, ver, a, In(t)) /\ Pushes(t, "free", a, "idle")
      /\ Moves(t, "loadTail") /\ loc'[t].ret = "idle"
  BY FreeDummySteps
<1>2. ~Active(t)'
  <2>1. t \notin {"free", "main"} /\ pc'[t] = "loadTail" BY <1>1, RolesAssumption DEF Moves
  <2> QED BY <1>1, <2>1 DEF Active
<1>0. PICK gone \in BOOLEAN : gone OBVIOUS
<1>3. PICK tag2, rank2, ver2, ord2 :
        /\ tag2 = [n \in Nodes |-> IF n = a.node THEN New(t)
                                   ELSE IF gone /\ tag[n] = In(t) THEN Lost ELSE tag[n]]
        /\ rank2 = [n \in Nodes |-> IF n = a.node THEN 0 ELSE rank[n]]
        /\ ver2 = [n \in Nodes |-> IF n = a.node THEN a.aba + 1 ELSE ver[n]]
        /\ ord2 = [u \in Threads |-> IF u = t THEN top + 1 ELSE ord[u]]
  OBVIOUS
<1>4. a.node \in Nodes /\ tag[a.node] = In(t) /\ ver[a.node] = a.aba BY <1>1 DEF Tagged
<1>5. a.aba + 1 < Aba BY <1>1 DEF NoWrap
<1>6. "free" \in Lists /\ "idle" \in Rets /\ pc[t] \in HoldPcs BY <1>1 DEF Lists, Rets, HoldPcs
<1> HIDE DEF a
<1>7. Graph(tag2, rank2, ver2, ord2, top + 1)'
  <2>1. PICK l \in Lists, r \in Rets : l = "free" /\ r = "idle" BY <1>6
  <2>2. Pushes(t, l, a, r) BY <1>1, <2>1
  <2>3. a \in Address /\ t \in Removers BY <1>1
  <2>4. gone => tag[a.node] = In(t) /\ t \in Removers /\ ~Active(t)' BY <1>2, <1>4, <2>3
  <2>5. ~gone => tag[a.node] = Own(t) /\ (Active(t)' <=> Active(t)) BY <1>0
  <2> QED BY <1>3, <1>4, <1>5, <1>6, <2>2, <2>3, <2>4, <2>5, PushGraph
<1> QED BY <1>7 DEF Shaped

LEMMA KindsNext ==
    ASSUME Kinds, Shaped, NEW t \in Threads, Calls(t) \/ Step(t)
    PROVE  Kinds'
<1>1. PICK tag, rank, ver, ord, top : Graph(tag, rank, ver, ord, top) BY DEF Shaped
<1>2. Sound(t) BY <1>1, GraphSound
<1>3. CASE Calls(t) BY <1>3, EnterKinds DEF Calls
<1>4. CASE Leaves(t) BY <1>4, LeaveKinds DEF Leaves
<1>5. CASE Hands(t)
  <2>1. /\ pc[t] \in HoldPcs /\ Got(t) /\ loc[t].at \in Address
        /\ \E l \in Lists, r \in Rets : Pushes(t, l, loc[t].at, r)
        /\ removed' \subseteq 1 .. MaxPush
    BY <1>2, <1>5, PushSteps DEF Hands
  <2>2. loc[t].at.node \in Nodes BY <1>2, <2>1 DEF Sound
  <2> QED BY <2>1, <2>2, PushesKinds
<1>6. CASE FreeDummy(t)
  <2>1. /\ Pushes(t, "free", head[t], "idle") /\ removed' = removed /\ head[t] \in Address
        /\ Tagged(tag, ver, head[t], In(t))
    BY <1>1, <1>6, FreeDummySteps
  <2>2. "free" \in Lists /\ "idle" \in Rets /\ head[t].node \in Nodes
    BY <2>1 DEF Lists, Rets, Tagged
  <2>3. removed' \subseteq 1 .. MaxPush BY <2>1 DEF Kinds, HistInv
  <2> QED BY <2>1, <2>2, <2>3, PushesKinds
<1>7. CASE LoadTail(t) BY <1>2, <1>7, LoadTailKinds
<1>8. CASE LoadTailNext(t) BY <1>2, <1>8, LoadTailNextKinds
<1>9. CASE LoadHead(t) BY <1>2, <1>9, LoadHeadKinds
<1>10. CASE PopLoadNext(t) BY <1>2, <1>10, PopLoadNextKinds
<1>11. CASE Help(t) \/ PopHelp(t) BY <1>2, <1>11, HelpKinds
<1>12. CASE Swing(t) BY <1>2, <1>12, SwingKinds
<1>13. CASE Link(t) BY <1>2, <1>13, LinkKinds
<1>14. CASE SwapHead(t) BY <1>2, <1>14, SwapHeadKinds
<1>15. CASE Retain(t) BY <1>2, <1>15, RetainKinds
<1>16. CASE Lock(t) \/ GiveBack(t) \/ Unlock(t) BY <1>16, NextPopKinds
<1> QED BY <1>3, <1>4, <1>5, <1>6, <1>7, <1>8, <1>9, <1>10, <1>11, <1>12, <1>13, <1>14, <1>15, <1>16
        DEF Step, Leaves, Hands

LEMMA ShapedNext ==
    ASSUME Kinds, Shaped, NoWrap, NEW t \in Threads, Calls(t) \/ Step(t)
    PROVE  Shaped'
<1>1. PICK tag, rank, ver, ord, top : Graph(tag, rank, ver, ord, top) BY DEF Shaped
<1>2. CASE Calls(t) \/ Leaves(t) BY <1>1, <1>2, CallsGraph DEF Shaped
<1>3. CASE Hands(t) BY <1>1, <1>3, HandsGraph
<1>4. CASE FreeDummy(t) BY <1>1, <1>4, FreeDummyGraph
<1>5. CASE LoadTail(t) BY <1>1, <1>5, LoadTailGraph DEF Shaped
<1>6. CASE LoadTailNext(t) BY <1>1, <1>6, LoadTailNextGraph DEF Shaped
<1>7. CASE LoadHead(t) BY <1>1, <1>7, LoadHeadGraph DEF Shaped
<1>8. CASE PopLoadNext(t) BY <1>1, <1>8, PopLoadNextGraph DEF Shaped
<1>9. CASE Help(t) \/ PopHelp(t) \/ Swing(t) BY <1>1, <1>9, HelpGraph DEF Shaped
<1>10. CASE Link(t)
  <2>1. CASE SameNext(t)
    <3>1. PICK tag2, rank2 : Joined(tag, rank, tag2, rank2, New(t), loc[t].tail.node)
      BY DEF Joined
    <3> QED BY <1>1, <1>10, <2>1, <3>1, LinkGraph DEF Shaped
  <2>2. CASE ~SameNext(t)
    <3>1. /\ pc[t] = "link" /\ Moves(t, "loadTail") /\ loc'[t] = loc[t]
          /\ UNCHANGED <<next, data, head, tail>>
      BY <1>10, <2>2, GotoEffect DEF Link, Kinds
    <3> QED BY <1>1, <3>1, RestGraph DEF LinkPcs, Shaped
  <2> QED BY <2>1, <2>2
<1>11. CASE SwapHead(t)
  <2>1. CASE head[loc[t].list] = loc[t].head
    <3>1. PICK tag2 : tag2 = [n \in Nodes |-> IF n = loc[t].head.node THEN Own(t) ELSE tag[n]]
      OBVIOUS
    <3> QED BY <1>1, <1>11, <2>1, <3>1, HeadGraph DEF Shaped
  <2>2. CASE head[loc[t].list] # loc[t].head
    <3>1. /\ pc[t] = "swapHead" /\ Moves(t, "pop") /\ loc'[t] = loc[t]
          /\ UNCHANGED <<next, data, head, tail>>
      BY <1>11, <2>2, GotoEffect DEF SwapHead, Kinds
    <3> QED BY <1>1, <3>1, RestGraph DEF LinkPcs, Shaped
  <2> QED BY <2>1, <2>2
<1>12. CASE Retain(t)
  <2>1. PICK tag2 : tag2 = [n \in Nodes |-> IF n = loc[t].at.node THEN In(t) ELSE tag[n]]
    OBVIOUS
  <2> QED BY <1>1, <1>12, <2>1, RetainGraph DEF Shaped
<1>13. CASE Lock(t) \/ GiveBack(t) \/ Unlock(t) BY <1>1, <1>13, NextPopGraph DEF Shaped
<1> QED BY <1>2, <1>3, <1>4, <1>5, <1>6, <1>7, <1>8, <1>9, <1>10, <1>11, <1>12, <1>13
        DEF Step, Leaves, Hands

-----------------------------------------------------------------------------
(* pop_front misses only an empty queue.                                   *)

\* While the queue is empty every pop_front in progress has seen it so.
MissInv ==
    /\ Empty => \A c \in Threads : loc[c].ret = "popped" => c \in seen
    /\ \A c \in Threads : pc[c] = "popped" /\ ~Got(c) => c \in seen

\* A step that neither empties the queue nor begins a pop_front
LEMMA MissStep ==
    ASSUME MissInv, NEW t \in Threads, NEW p, Moves(t, p), Empty' => Empty, seen \subseteq seen',
           loc'[t].ret = "popped" => loc[t].ret = "popped",
           p = "popped" => Got(t)' \/ t \in seen'
    PROVE  MissInv'
<1>1. \A c \in Threads : loc'[c].ret = "popped" => loc[c].ret = "popped" BY DEF Moves
<1>2. \A c \in Threads : pc'[c] = "popped" /\ ~Got(c)' => c \in seen'
  <2>1. \A c \in Threads \ {t} : pc'[c] = pc[c] /\ (Got(c)' <=> Got(c)) BY DEF Moves, Got
  <2> QED BY <2>1 DEF MissInv, Moves
<1> QED BY <1>1, <1>2 DEF MissInv

LEMMA MainHead ==
    ASSUME NEW tag, NEW rank, NEW ver, NEW ord, NEW top, Graph(tag, rank, ver, ord, top)
    PROVE  "main" \in Lists /\ head["main"].node \in Nodes /\ tag[head["main"].node] = In("main")
<1>1. "main" \in Lists /\ Active("main") BY DEF Active, Lists
<1>2. ListOK(tag, rank, ver, "main") BY <1>1 DEF Graph
<1> QED BY <1>1, <1>2 DEF ListOK, Tagged

LEMMA EmptyPush ==
    ASSUME NEW tag, NEW rank, NEW ver, NEW ord, NEW top, Graph(tag, rank, ver, ord, top), Kinds,
           NEW a, NEW l, a.node \in Nodes, next' = [next EXCEPT ![a.node] = l],
           tag[a.node] # In("main"), head'["main"] = head["main"]
    PROVE  Empty' <=> Empty
<1>1. head["main"].node \in Nodes /\ head["main"].node # a.node BY MainHead
<1>2. next'[head["main"].node] = next[head["main"].node] BY <1>1 DEF Kinds, MemType
<1> QED BY <1>2 DEF Empty

LEMMA MissNext ==
    ASSUME Kinds, Shaped, MissInv, NEW t \in Threads, Calls(t) \/ Step(t)
    PROVE  MissInv'
<1>1. PICK tag, rank, ver, ord, top : Graph(tag, rank, ver, ord, top) BY DEF Shaped
<1>2. Ctl(t, pc[t], loc[t]) BY DEF Kinds, CtlInv
<1>3. Sound(t) BY <1>1, GraphSound
<1>4. CASE PushBack(t) \/ RemoveIf(t)
  <2>1. Empty' <=> Empty BY <1>4 DEF Empty, PushBack, RemoveIf, memory
  <2>2. Moves(t, "pop") /\ loc'[t].ret # "popped"
    <3>1. CASE PushBack(t)
      <4> DEFINE r == [Fresh EXCEPT !.list = "free", !.ret = "alloc", !.item = pushes + 1]
      <4>1. Go(t, "pop", r) BY <3>1 DEF PushBack
      <4>2. r.ret = "alloc" BY FreshType DEF Locals
      <4> HIDE DEF r
      <4> QED BY <4>1, <4>2, GoEffect DEF Kinds
    <3>2. CASE RemoveIf(t)
      <4> DEFINE r == [Fresh EXCEPT !.list = "free", !.ret = "retain"]
      <4>1. Go(t, "pop", r) BY <3>2 DEF RemoveIf
      <4>2. r.ret = "retain" BY FreshType DEF Locals
      <4> HIDE DEF r
      <4> QED BY <4>1, <4>2, GoEffect DEF Kinds
    <3> QED BY <1>4, <3>1, <3>2
  <2>3. seen' = seen BY <1>4 DEF PushBack, RemoveIf, hist
  <2> QED BY <2>1, <2>2, <2>3, MissStep
<1>5. CASE PopFront(t)
  <2>1. Empty' <=> Empty BY <1>5 DEF Empty, PopFront, memory
  <2>2. Moves(t, "pop") BY <1>5, GoEffect DEF PopFront, Kinds
  <2>3. seen' = IF Empty THEN seen \cup {t} ELSE seen \ {t} BY <1>5 DEF PopFront
  <2>4. \A c \in Threads \ {t} : pc'[c] = pc[c] /\ loc'[c] = loc[c] /\ (Got(c)' <=> Got(c))
    BY <2>2 DEF Moves, Got
  <2>5. pc'[t] = "pop" BY <2>2 DEF Moves
  <2>6. Empty' => \A c \in Threads : loc'[c].ret = "popped" => c \in seen'
    BY <2>1, <2>3, <2>4 DEF MissInv
  <2>7. \A c \in Threads : pc'[c] = "popped" /\ ~Got(c)' => c \in seen'
    BY <2>3, <2>4, <2>5 DEF MissInv
  <2> QED BY <2>6, <2>7 DEF MissInv
<1>6. CASE Leaves(t)
  <2>1. Empty' <=> Empty BY <1>6 DEF Empty, Leaves, PushFails, PopReturns, memory
  <2>2. Moves(t, "idle") /\ loc'[t].ret # "popped"
    BY <1>6, GoEffect DEF Leaves, PushFails, PopReturns, Kinds, Fresh
  <2>3. seen' = seen BY <1>6 DEF Leaves, PushFails, PopReturns, hist
  <2> QED BY <2>1, <2>2, <2>3, MissStep
<1>7. CASE Hands(t)
  <2>1. PICK l \in Lists, r \in Rets : Pushes(t, l, loc[t].at, r)
    BY <1>3, <1>7, PushSteps DEF Hands
  <2>2. Tagged(tag, ver, loc[t].at, Own(t))
    <3>1. pc[t] \in HoldPcs /\ Got(t) BY <1>3, <1>7, PushSteps DEF Hands
    <3> QED BY <1>1, <3>1 DEF Graph, At, Got
  <2>3. Empty' <=> Empty
    <3>1. loc[t].at.node \in Nodes /\ tag[loc[t].at.node] # In("main")
      BY <2>2, TagFacts DEF Tagged
    <3>2. next' = [next EXCEPT ![loc[t].at.node] = End(l)] /\ head' = head
      BY <2>1 DEF Pushes, Push
    <3> QED BY <1>1, <3>1, <3>2, EmptyPush
  <2>4. Moves(t, "loadTail") /\ loc'[t].ret = r
    BY <2>1, GoEffect DEF Pushes, Push, Kinds, LocType, Locals
  <2>5. r # "popped" /\ seen' = seen BY <2>1 DEF Pushes
  <2> QED BY <2>3, <2>4, <2>5, MissStep
<1>8. CASE FreeDummy(t)
  <2>1. /\ t \in Removers /\ Tagged(tag, ver, head[t], In(t)) /\ Pushes(t, "free", head[t], "idle")
        /\ Moves(t, "loadTail") /\ loc'[t].ret = "idle"
    BY <1>1, <1>8, FreeDummySteps
  <2>2. Empty' <=> Empty
    <3>1. t # "main" BY <2>1, RolesAssumption
    <3>2. head[t].node \in Nodes /\ tag[head[t].node] # In("main")
      BY <2>1, <3>1, TagFacts DEF Tagged
    <3>3. next' = [next EXCEPT ![head[t].node] = End("free")] /\ head' = head
      BY <2>1 DEF Pushes, Push
    <3> QED BY <1>1, <3>2, <3>3, EmptyPush
  <2>3. seen' = seen BY <2>1 DEF Pushes
  <2> QED BY <2>1, <2>2, <2>3, MissStep
<1>9. CASE LoadTail(t)
  <2>1. Moves(t, "loadTailNext") /\ loc'[t].ret = loc[t].ret
    BY <1>9, GoEffect DEF LoadTail, Kinds, LocType, Locals
  <2>2. (Empty' <=> Empty) /\ seen' = seen BY <1>9 DEF Empty, LoadTail, memory, hist
  <2> QED BY <2>1, <2>2, MissStep
<1>10. CASE LoadTailNext(t)
  <2>1. \E p \in {"loadTail", "link", "help"} : Moves(t, p) /\ loc'[t].ret = loc[t].ret
    BY <1>10, GoEffect, GotoEffect DEF LoadTailNext, Kinds, LocType, Locals
  <2>2. (Empty' <=> Empty) /\ seen' = seen BY <1>10 DEF Empty, LoadTailNext, memory, hist
  <2> QED BY <2>1, <2>2, MissStep
<1>11. CASE LoadHead(t)
  <2>1. Moves(t, "popNext") /\ loc'[t].ret = loc[t].ret
    BY <1>11, GoEffect DEF LoadHead, Kinds, LocType, Locals
  <2>2. (Empty' <=> Empty) /\ seen' = seen BY <1>11 DEF Empty, LoadHead, memory, hist
  <2> QED BY <2>1, <2>2, MissStep
<1>12. CASE Help(t) \/ PopHelp(t)
  <2>1. \E p \in {"loadTail", "pop"} : Moves(t, p) /\ loc'[t] = loc[t]
    BY <1>12, GotoEffect DEF Help, PopHelp, Kinds
  <2>2. (Empty' <=> Empty) /\ seen' = seen BY <1>12 DEF Empty, Help, PopHelp, hist
  <2> QED BY <2>1, <2>2, MissStep
<1>13. CASE Swing(t)
  <2>1. \E p \in {"idle", "pop"} : Moves(t, p) /\ loc'[t].ret = loc[t].ret
    <3>1. CASE loc[t].ret = "idle"
      <4>1. Go(t, "idle", Fresh) BY <1>13, <3>1 DEF Swing
      <4>2. Moves(t, "idle") /\ loc'[t] = Fresh BY <4>1, GoEffect DEF Kinds
      <4> QED BY <3>1, <4>2 DEF Fresh
    <3>2. CASE loc[t].ret # "idle"
      <4> DEFINE r == Popping(t, From(t, loc[t].ret), loc[t].ret)
      <4>1. Go(t, "pop", r) BY <1>13, <3>2 DEF Swing, Pop
      <4>2. r.ret = loc[t].ret BY DEF Popping, Kinds, LocType, Locals
      <4> HIDE DEF r
      <4>3. Moves(t, "pop") /\ loc'[t] = r BY <4>1, GoEffect DEF Kinds
      <4> QED BY <4>2, <4>3
    <3> QED BY <3>1, <3>2
  <2>2. (Empty' <=> Empty) /\ seen' = seen BY <1>13 DEF Empty, Swing
  <2> QED BY <2>1, <2>2, MissStep
<1>14. CASE Link(t)
  <2>1. \E p \in {"loadTail", "swing"} : Moves(t, p) /\ loc'[t] = loc[t]
    BY <1>14, GotoEffect DEF Link, Kinds
  <2>2. Empty' => Empty
    <3>1. CASE next' = next BY <1>14, <3>1 DEF Empty, Link
    <3>2. CASE next' = [next EXCEPT ![loc[t].tail.node] = loc[t].at]
      <4>1. loc[t].at.node \in Nodes BY <1>3, <1>14 DEF Sound, Link, LinkPcs
      <4>2. loc[t].at # End("main") BY <4>1, EndFacts
      <4>3. head' = head /\ head["main"].node \in Nodes BY <1>1, <1>14, MainHead DEF Link
      <4>4. next'[head["main"].node] = next[head["main"].node] \/ next'[head["main"].node] = loc[t].at
        BY <3>2, <4>3 DEF Kinds, MemType
      <4> QED BY <4>2, <4>3, <4>4 DEF Empty
    <3> QED BY <1>14, <3>1, <3>2 DEF Link
  <2>3. seen' = seen BY <1>14 DEF Link
  <2> QED BY <2>1, <2>2, <2>3, MissStep
<1>15. CASE Retain(t)
  <2>1. Moves(t, "lock") /\ loc'[t] = loc[t] BY <1>15, GotoEffect DEF Retain, Kinds
  <2>2. t \in Removers BY <1>2, <1>15 DEF Ctl, Retain, HoldPcs
  <2>3. Tagged(tag, ver, loc[t].at, Own(t)) BY <1>1, <1>15 DEF Graph, At, Retain, Got, HoldPcs
  <2>4. Empty' <=> Empty
    <3>1. loc[t].at.node \in Nodes /\ tag[loc[t].at.node] # In("main")
      BY <2>3, TagFacts DEF Tagged
    <3>2. next' = [next EXCEPT ![loc[t].at.node] = End(t)] BY <1>15 DEF Retain
    <3>3. head'["main"] = head["main"]
      BY <1>15, <2>2, RolesAssumption DEF Retain, Kinds, MemType, Lists
    <3> QED BY <1>1, <3>1, <3>2, <3>3, EmptyPush
  <2>5. seen' = seen BY <1>15 DEF Retain, hist
  <2> QED BY <2>1, <2>4, <2>5, MissStep
<1>16. CASE Lock(t) \/ GiveBack(t) \/ Unlock(t)
  <2>1. PICK l, r : Go(t, "pop", Popping(t, l, r)) /\ r \in {"took", "gave", "drop"}
    BY <1>16 DEF Lock, GiveBack, Unlock, Pop
  <2>2. Moves(t, "pop") /\ loc'[t].ret # "popped"
    <3>1. Moves(t, "pop") /\ loc'[t] = Popping(t, l, r) BY <2>1, GoEffect DEF Kinds
    <3>2. Popping(t, l, r).ret = r BY DEF Popping, Kinds, LocType, Locals
    <3> QED BY <2>1, <3>1, <3>2
  <2>3. (Empty' <=> Empty) /\ seen' = seen
    BY <1>16 DEF Empty, Lock, GiveBack, Unlock, memory, hist
  <2> QED BY <2>2, <2>3, MissStep
<1>17. CASE PopLoadNext(t)
  <2>0. (Empty' <=> Empty) /\ seen' = seen BY <1>17 DEF Empty, PopLoadNext, memory, hist
  <2>1. loc[t].ret \in HoldPcs /\ loc[t].list = ListOf(t, loc[t].ret)
    BY <1>2, <1>17 DEF PopLoadNext, Ctl, PopPcs
  <2>2. CASE /\ loc[t].head = head[loc[t].list] /\ Exhausted(loc[t], next[loc[t].head.node])
             /\ Go(t, loc[t].ret, [loc[t] EXCEPT !.at = End(loc[t].list)])
    <3>1. Moves(t, loc[t].ret) /\ loc'[t].ret = loc[t].ret
      BY <2>2, GoEffect DEF Kinds, LocType, Locals
    <3>2. loc[t].ret = "popped" => t \in seen
      <4>1. SUFFICES ASSUME loc[t].ret = "popped" PROVE Empty BY DEF MissInv
      <4>2. loc[t].list = "main" BY <2>1, <4>1 DEF ListOf
      <4> QED BY <2>2, <4>2 DEF Empty, Exhausted
    <3> QED BY <2>0, <3>1, <3>2, MissStep
  <2>3. CASE Goto(t, "pop")
    <3>1. Moves(t, "pop") /\ loc'[t] = loc[t] BY <2>3, GotoEffect DEF Kinds
    <3> QED BY <2>0, <3>1, MissStep
  <2>4. CASE \/ Go(t, "popHelp", [loc[t] EXCEPT !.next = next[loc[t].head.node]])
             \/ Go(t, "swapHead", [loc[t] EXCEPT !.next = next[loc[t].head.node],
                                                 !.val = Value(next[loc[t].head.node])])
    <3>1. \E p \in {"popHelp", "swapHead"} : Moves(t, p) /\ loc'[t].ret = loc[t].ret
      BY <2>4, GoEffect DEF Kinds, LocType, Locals
    <3> QED BY <2>0, <3>1, MissStep
  <2> QED BY <1>17, <2>2, <2>3, <2>4 DEF PopLoadNext
<1>18. CASE SwapHead(t)
  <2>1. CASE head[loc[t].list] # loc[t].head
    <3>1. /\ Moves(t, "pop") /\ loc'[t] = loc[t] /\ seen' = seen /\ (Empty' <=> Empty)
      BY <1>18, <2>1, GotoEffect DEF SwapHead, Kinds, Empty
    <3> QED BY <3>1, MissStep
  <2>2. CASE head[loc[t].list] = loc[t].head
    <3>1. /\ Moves(t, loc[t].ret) /\ loc'[t] = [loc[t] EXCEPT !.at = loc[t].head]
          /\ head' = [head EXCEPT ![loc[t].list] = loc[t].next] /\ next' = next
          /\ seen' = IF Empty' THEN seen \cup {c \in Consumers : pc[c] # "idle"} ELSE seen
      BY <1>18, <2>2, GoEffect DEF SwapHead, Kinds
    <3>2. /\ loc'[t].ret = loc[t].ret /\ loc'[t].at = loc[t].head /\ loc'[t].list = loc[t].list
      BY <3>1 DEF Kinds, LocType, Locals
    <3>3. Got(t)'
      <4>1. loc[t].head.node \in Nodes BY <1>3, <1>18 DEF Sound, SwapHead
      <4>2. loc[t].head # End(loc[t].list) BY <4>1, EndFacts
      <4> QED BY <3>2, <4>2 DEF Got
    <3>4. CASE Empty'
      <4>1. \A c \in Threads : loc[c].ret = "popped" => c \in seen'
        <5>1. \A c \in Threads : loc[c].ret = "popped" => c \in Consumers /\ pc[c] # "idle"
          BY DEF Kinds, CtlInv, Ctl
        <5> QED BY <3>1, <3>4, <5>1
      <4>2. \A c \in Threads : loc'[c].ret = loc[c].ret BY <3>1, <3>2 DEF Moves
      <4>3. \A c \in Threads : pc'[c] = "popped" /\ ~Got(c)' => c \in seen'
        <5>1. \A c \in Threads \ {t} : pc'[c] = pc[c] /\ (Got(c)' <=> Got(c))
          BY <3>1 DEF Moves, Got
        <5> QED BY <3>1, <3>3, <5>1 DEF MissInv
      <4> QED BY <4>1, <4>2, <4>3 DEF MissInv
    <3>5. CASE ~Empty' BY <3>1, <3>2, <3>3, <3>5, MissStep
    <3> QED BY <3>4, <3>5
  <2> QED BY <2>1, <2>2
<1> QED BY <1>4, <1>5, <1>6, <1>7, <1>8, <1>9, <1>10, <1>11, <1>12, <1>13, <1>14, <1>15, <1>16,
           <1>17, <1>18 DEF Step, Calls, Leaves, Hands

-----------------------------------------------------------------------------
(* Theorems.                                                               *)

LEMMA Stutter == ASSUME Kinds, Shaped, MissInv, UNCHANGED vars PROVE Kinds' /\ Shaped' /\ MissInv'
<1> USE DEF vars, memory, counts, hist
<1>1. Kinds' BY DEF Kinds, MemType, LocType, HistInv, CtlInv, Ctl, ListOf
<1>2. MissInv' BY DEF MissInv, Empty, Got
<1>3. Shaped'
  <2>1. PICK tag, rank, ver, ord, top : Graph(tag, rank, ver, ord, top) BY DEF Shaped
  <2>2. \A l \in Lists : ListOK(tag, rank, ver, l)'
    <3>1. \A l \in Lists : ListOK(tag, rank, ver, l) BY <2>1 DEF Graph
    <3> QED BY <3>1 DEF ListOK, Active, Chained, Tagged
  <2>3. \A t \in Threads : NewOK(tag, rank, ver, t)'
    <3>1. \A t \in Threads : NewOK(tag, rank, ver, t) BY <2>1 DEF Graph
    <3> QED BY <3>1 DEF NewOK, Chained, Tagged
  <2>4. OwnOK(tag)' BY <2>1 DEF Graph, OwnOK
  <2>5. \A u \in Threads : At(tag, rank, ver, ord, u, pc[u], loc[u])'
    <3>1. \A u \in Threads : At(tag, rank, ver, ord, u, pc[u], loc[u]) BY <2>1 DEF Graph
    <3> QED BY <3>1 DEF At, TailAt, HeadAt, Seen, Tagged
  <2>6. Graph(tag, rank, ver, ord, top)' BY <2>1, <2>2, <2>3, <2>4, <2>5 DEF Graph, Numbers
  <2> QED BY <2>6 DEF Shaped
<1> QED BY <1>1, <1>2, <1>3

ListInv == Kinds /\ Shaped /\ MissInv

\* The lists, the unlinked chains and what every thread has read stay in shape, as long
\* as no counter of an address comes round.
LEMMA ListInvariant == Spec /\ []NoWrap => []ListInv
<1>1. Init => ListInv
  <2> SUFFICES ASSUME Init PROVE ListInv OBVIOUS
  <2>1. Kinds BY InitKinds
  <2>2. Shaped BY InitGraph DEF Shaped
  <2>3. MissInv
    <3>1. \A u \in Threads : pc[u] = "idle" /\ loc[u].ret = "idle" BY DEF Init, Fresh
    <3> QED BY <3>1 DEF MissInv
  <2> QED BY <2>1, <2>2, <2>3 DEF ListInv
<1>2. ListInv /\ NoWrap /\ [Next]_vars => ListInv'
  <2> SUFFICES ASSUME ListInv, NoWrap, [Next]_vars PROVE ListInv' OBVIOUS
  <2>1. CASE UNCHANGED vars BY <2>1, Stutter DEF ListInv
  <2>2. CASE Next
    <3>1. PICK t \in Threads : Calls(t) \/ Step(t) BY <2>2 DEF Next, Calls
    <3> QED BY <3>1, KindsNext, ShapedNext, MissNext DEF ListInv
  <2> QED BY <2>1, <2>2
<1> QED BY <1>1, <1>2, PTL DEF Spec

LEMMA ListTypes == ListInv => DereferencesNodes
<1> SUFFICES ASSUME ListInv PROVE DereferencesNodes OBVIOUS
<1>1. TypeOK BY DEF ListInv, Kinds, MemType, LocType, HistInv, TypeOK
<1>2. \A t \in Threads : Sound(t) BY GraphSound DEF ListInv, Shaped
<1> QED BY <1>1, <1>2 DEF DereferencesNodes, Sound

\* LocklessQueue.h, to_node of pop and push_range: however pushes, pops and remove_if
\* calls interleave and nodes are recycled between them, a head, a tail or a next that is
\* followed is the address of a node, as long as no 16-bit counter comes round.
THEOREM FollowsNodes == Spec /\ []NoWrap => []DereferencesNodes
<1>1. ListInv => DereferencesNodes BY ListTypes
<1> QED BY <1>1, ListInvariant, PTL

\* LocklessQueue.h, pop_front: it returns false only if the queue was empty at some
\* moment of the call, for any number of producers, consumers and removers.
THEOREM MissIsEmpty == Spec /\ []NoWrap => []MissesOnlyEmpty
<1>1. ListInv => MissesOnlyEmpty
  <2>1. Consumers \subseteq Threads BY DEF Threads
  <2> QED BY <2>1 DEF ListInv, MissInv, MissesOnlyEmpty
<1> QED BY <1>1, ListInvariant, PTL
=============================================================================
