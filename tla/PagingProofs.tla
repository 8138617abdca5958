---------------------------- MODULE PagingProofs ----------------------------
(***************************************************************************)
(* Proofs about physical pages and page tables, for any number of tasks,   *)
(* pages, table entries and addresses, wherever tasks are preempted, as    *)
(* long as no preemption did harm (Undisturbed).                           *)
(***************************************************************************)
EXTENDS Paging, NatFacts, FiniteSetTheorems, FunctionTheorems, SequenceTheorems

-----------------------------------------------------------------------------
(***************************************************************************)
(* The tables as a forest: the node that the walk of v from directory d    *)
(* reaches after k levels.                                                 *)
(***************************************************************************)
PageOrNone == Page \cup {NoPage}
TableT == [Page -> [Index -> PageOrNone]]

Below(tab, q, i) == IF q = NoPage THEN NoPage ELSE tab[q][i]

Node(tab, d, v, k) ==
  CASE k = 0 -> d
    [] k = 1 -> Below(tab, d, v[1])
    [] k = 2 -> Below(tab, Below(tab, d, v[1]), v[2])
    [] k = 3 -> Below(tab, Below(tab, Below(tab, d, v[1]), v[2]), v[3])
    [] k = 4 -> Below(tab, Below(tab, Below(tab, Below(tab, d, v[1]), v[2]), v[3]), v[4])

Agree(v, w, k) == \A i \in 1 .. k : v[i] = w[i]

\* Every page is reached on one way only, and from one directory.
Forest(tab, dir) ==
  \A t, u \in Task, v, w \in VPage, j, k \in 0 .. 4 :
    Node(tab, dir[t], v, j) # NoPage /\ Node(tab, dir[t], v, j) = Node(tab, dir[u], w, k)
      => t = u /\ j = k /\ Agree(v, w, j)

\* No walk reaches p.
Apart(tab, dir, p) ==
  \A t \in Task, v \in VPage, k \in 0 .. 4 : Node(tab, dir[t], v, k) # p

LEMMA PageFacts == /\ NoPage \notin Page /\ Page \subseteq Nat /\ 0 \in Index
                   /\ \A v \in VPage, k \in 1 .. 4 : v[k] \in Index
                   /\ CodePage \in VPage
BY PagingAssumption DEF PagingAssumption, Page, NoPage

LEMMA NodeStep ==
  ASSUME NEW tab, NEW d, NEW v
  PROVE  /\ Node(tab, d, v, 0) = d
         /\ \A k \in 0 .. 3 : Node(tab, d, v, k + 1) = Below(tab, Node(tab, d, v, k), v[k + 1])
<1>1. /\ Node(tab, d, v, 0) = d
      /\ Node(tab, d, v, 1) = Below(tab, d, v[1])
      /\ Node(tab, d, v, 2) = Below(tab, Below(tab, d, v[1]), v[2])
      /\ Node(tab, d, v, 3) = Below(tab, Below(tab, Below(tab, d, v[1]), v[2]), v[3])
      /\ Node(tab, d, v, 4) = Below(tab, Below(tab, Below(tab, Below(tab, d, v[1]), v[2]), v[3]), v[4])
  BY DEF Node
<1>2. \A k \in 0 .. 3 : k = 0 \/ k = 1 \/ k = 2 \/ k = 3
  OBVIOUS
<1>3. 0 + 1 = 1 /\ 1 + 1 = 2 /\ 2 + 1 = 3 /\ 3 + 1 = 4
  OBVIOUS
<1> QED BY <1>1, <1>2, <1>3

\* The level-by-level argument, without an operator parameter: a set of levels
\* that has 0 and with each one the next.
LEMMA Levels ==
  ASSUME NEW L, 0 \in L, \A k \in 0 .. 3 : k \in L => k + 1 \in L
  PROVE  \A k \in 0 .. 4 : k \in L
<1>1. 1 \in L
  <2>1. 0 \in 0 .. 3 /\ 0 + 1 = 1
    OBVIOUS
  <2> QED BY <2>1
<1>2. 2 \in L
  <2>1. 1 \in 0 .. 3 /\ 1 + 1 = 2
    OBVIOUS
  <2> QED BY <1>1, <2>1
<1>3. 3 \in L
  <2>1. 2 \in 0 .. 3 /\ 2 + 1 = 3
    OBVIOUS
  <2> QED BY <1>2, <2>1
<1>4. 4 \in L
  <2>1. 3 \in 0 .. 3 /\ 3 + 1 = 4
    OBVIOUS
  <2> QED BY <1>3, <2>1
<1>5. \A k \in 0 .. 4 : k = 0 \/ k = 1 \/ k = 2 \/ k = 3 \/ k = 4
  OBVIOUS
<1> QED BY <1>1, <1>2, <1>3, <1>4, <1>5

\* Addresses that agree on the first k indices are walked alike so far.
LEMMA AgreeNode ==
  ASSUME NEW tab, NEW d, NEW v, NEW w, NEW k \in 0 .. 4, Agree(v, w, k)
  PROVE  Node(tab, d, v, k) = Node(tab, d, w, k)
<1>1. k = 0 \/ k = 1 \/ k = 2 \/ k = 3 \/ k = 4
  OBVIOUS
<1>2. /\ k >= 1 => v[1] = w[1]
      /\ k >= 2 => v[2] = w[2]
      /\ k >= 3 => v[3] = w[3]
      /\ k >= 4 => v[4] = w[4]
  BY DEF Agree
<1> QED BY <1>1, <1>2 DEF Node

LEMMA AgreeLess ==
  ASSUME NEW v, NEW w, NEW k \in Nat, Agree(v, w, k + 1)
  PROVE  Agree(v, w, k)
BY DEF Agree

LEMMA AgreeMore ==
  ASSUME NEW v, NEW w, NEW k \in Nat, Agree(v, w, k), v[k + 1] = w[k + 1]
  PROVE  Agree(v, w, k + 1)
<1>1. \A i \in 1 .. k + 1 : i \in 1 .. k \/ i = k + 1
  OBVIOUS
<1> QED BY <1>1 DEF Agree

\* A walk stays among the pages, and after it failed it goes nowhere.
LEMMA NodeTyped ==
  ASSUME NEW tab \in TableT, NEW d \in PageOrNone, NEW v \in VPage
  PROVE  \A k \in 0 .. 4 : Node(tab, d, v, k) \in PageOrNone
<1> DEFINE L == {k \in 0 .. 4 : Node(tab, d, v, k) \in PageOrNone}
<1>1. 0 \in L
  BY NodeStep
<1>2. ASSUME NEW k \in 0 .. 3, k \in L PROVE k + 1 \in L
  <2>1. Node(tab, d, v, k + 1) = Below(tab, Node(tab, d, v, k), v[k + 1])
    BY NodeStep
  <2>2. v[k + 1] \in Index /\ k + 1 \in 0 .. 4
    BY PageFacts
  <2>3. Node(tab, d, v, k) \in PageOrNone
    BY <1>2
  <2>4. Below(tab, Node(tab, d, v, k), v[k + 1]) \in PageOrNone
    BY <2>2, <2>3 DEF Below, TableT, PageOrNone
  <2> QED BY <2>1, <2>2, <2>4
<1> HIDE DEF L
<1>3. \A k \in 0 .. 4 : k \in L
  BY <1>1, <1>2, Levels
<1> QED BY <1>3 DEF L

Misses(tab, d, v, p) == \A k \in 0 .. 4 : Node(tab, d, v, k) \in PageOrNone \ {p}
SameWalk(tab, new, d, v) == \A k \in 0 .. 4 : Node(new, d, v, k) = Node(tab, d, v, k)
SameBut(tab, new, p) == \A q \in Page : q # p => new[q] = tab[q]

\* Tables that agree on the pages that are reached give the same walks.
LEMMA NodeKept ==
  ASSUME NEW tab, NEW new, NEW d, NEW v \in VPage, NEW p,
         Misses(tab, d, v, p), SameBut(tab, new, p)
  PROVE  SameWalk(tab, new, d, v)
<1> DEFINE L == {k \in 0 .. 4 : Node(new, d, v, k) = Node(tab, d, v, k)}
<1>1. 0 \in L
  BY NodeStep
<1>2. ASSUME NEW k \in 0 .. 3, k \in L PROVE k + 1 \in L
  <2>1. /\ Node(tab, d, v, k + 1) = Below(tab, Node(tab, d, v, k), v[k + 1])
        /\ Node(new, d, v, k + 1) = Below(new, Node(new, d, v, k), v[k + 1])
    BY NodeStep
  <2>2. Node(new, d, v, k) = Node(tab, d, v, k) /\ k + 1 \in 0 .. 4 /\ k \in 0 .. 4
    BY <1>2
  <2>3. Below(new, Node(tab, d, v, k), v[k + 1]) = Below(tab, Node(tab, d, v, k), v[k + 1])
    BY <2>2 DEF Below, PageOrNone, Misses, SameBut
  <2> QED BY <2>1, <2>2, <2>3
<1> HIDE DEF L
<1>3. \A k \in 0 .. 4 : k \in L
  BY <1>1, <1>2, Levels
<1> QED BY <1>3 DEF L, SameWalk


Blank(tab, p) == \A i \in Index : tab[p][i] = NoPage

\* map_table() and map_table_entry(): the entry of v in a table that v's walk
\* reaches at level j is set to p.
Links(tab, new, dir, t, v, j, p) ==
  LET q == Node(tab, dir[t], v, j)
  IN  /\ q # NoPage /\ q \in Page /\ Below(tab, q, v[j + 1]) = NoPage
      /\ p \in Page /\ Apart(tab, dir, p) /\ Blank(new, p)
      /\ new[q] = [tab[q] EXCEPT ![v[j + 1]] = p]
      /\ \A x \in Page \ {p, q} : new[x] = tab[x]

\* It changes one walk, of one task, at one level.
LinkedNode(tab, dir, t, v, j, p, u, w, k) ==
  IF u = t /\ k = j + 1 /\ Agree(v, w, j + 1) THEN p ELSE Node(tab, dir[u], w, k)

LEMMA LinkStep ==
  ASSUME NEW tab \in TableT, NEW new \in TableT, NEW dir \in [Task -> PageOrNone],
         Forest(tab, dir), NEW t \in Task, NEW v \in VPage, NEW j \in 0 .. 3, NEW p,
         Links(tab, new, dir, t, v, j, p),
         NEW u \in Task, NEW w \in VPage, NEW k \in 0 .. 3,
         Node(new, dir[u], w, k) = LinkedNode(tab, dir, t, v, j, p, u, w, k)
  PROVE  Node(new, dir[u], w, k + 1) = LinkedNode(tab, dir, t, v, j, p, u, w, k + 1)
<1> DEFINE q == Node(tab, dir[t], v, j)
           n == Node(tab, dir[u], w, k)
<1>1. /\ q # NoPage /\ q \in Page /\ Below(tab, q, v[j + 1]) = NoPage
      /\ p \in Page /\ Apart(tab, dir, p) /\ Blank(new, p)
      /\ new[q] = [tab[q] EXCEPT ![v[j + 1]] = p]
      /\ \A x \in Page \ {p, q} : new[x] = tab[x]
  BY DEF Links
<1>2. /\ Node(tab, dir[u], w, k + 1) = Below(tab, n, w[k + 1])
      /\ Node(new, dir[u], w, k + 1) = Below(new, Node(new, dir[u], w, k), w[k + 1])
      /\ Node(tab, dir[t], v, j + 1) = Below(tab, q, v[j + 1])
  BY NodeStep
<1>3. w[k + 1] \in Index /\ v[j + 1] \in Index /\ k + 1 \in 1 .. 4 /\ j + 1 \in 1 .. 4
  BY PageFacts
<1>4. n \in PageOrNone /\ n # p /\ p # NoPage
  <2>1. k \in 0 .. 4 /\ dir[u] \in PageOrNone
    OBVIOUS
  <2> QED BY <1>1, <2>1, NodeTyped, PageFacts DEF Apart
<1>5. CASE u = t /\ k = j + 1 /\ Agree(v, w, j + 1)
  <2>1. Node(new, dir[u], w, k + 1) = NoPage
    BY <1>1, <1>2, <1>3, <1>5 DEF LinkedNode, Below, Blank
  <2>2. n = NoPage
    <3>1. CASE n # NoPage
      <4>1. Node(tab, dir[t], w, k) = Below(tab, Node(tab, dir[t], w, j), w[j + 1])
        BY <1>5, NodeStep
      <4>2. w[j + 1] = v[j + 1]
        BY <1>5 DEF Agree
      <4>3. Node(tab, dir[t], w, j) = q
        BY <1>5, AgreeNode, AgreeLess
      <4> QED BY <1>1, <1>5, <4>1, <4>2, <4>3
    <3> QED BY <3>1
  <2>3. Node(tab, dir[u], w, k + 1) = NoPage /\ k + 1 # j + 1
    BY <1>2, <1>5, <2>2 DEF Below
  <2> QED BY <2>1, <2>3 DEF LinkedNode
<1>6. CASE ~(u = t /\ k = j + 1 /\ Agree(v, w, j + 1))
  <2>1. Node(new, dir[u], w, k + 1) = Below(new, n, w[k + 1])
    BY <1>2, <1>6 DEF LinkedNode
  <2>2. CASE n # q
    <3>1. Below(new, n, w[k + 1]) = Below(tab, n, w[k + 1])
      BY <1>1, <1>4, <2>2 DEF Below, PageOrNone
    <3>2. ~(u = t /\ k + 1 = j + 1 /\ Agree(v, w, j + 1))
      BY <2>2, AgreeNode, AgreeLess
    <3> QED BY <1>2, <2>1, <3>1, <3>2 DEF LinkedNode
  <2>3. CASE n = q
    <3>1. u = t /\ j = k /\ Agree(v, w, j)
      BY <1>1, <2>3 DEF Forest
    <3>2. CASE w[k + 1] = v[j + 1]
      <4>1. Agree(v, w, j + 1)
        BY <3>1, <3>2, AgreeMore
      <4>2. Below(new, n, w[k + 1]) = p
        BY <1>1, <1>3, <2>3, <3>2 DEF Below, TableT
      <4> QED BY <2>1, <3>1, <4>1, <4>2 DEF LinkedNode
    <3>3. CASE w[k + 1] # v[j + 1]
      <4>1. ~Agree(v, w, j + 1)
        BY <1>3, <3>1, <3>3 DEF Agree
      <4>2. Below(new, n, w[k + 1]) = Below(tab, n, w[k + 1])
        BY <1>1, <1>3, <2>3, <3>3 DEF Below, TableT
      <4> QED BY <1>2, <2>1, <4>1, <4>2 DEF LinkedNode
    <3> QED BY <3>2, <3>3
  <2> QED BY <2>2, <2>3
<1> QED BY <1>5, <1>6

\* The new walks, and the tables are a forest again.
LEMMA Linked ==
  ASSUME NEW tab \in TableT, NEW new \in TableT, NEW dir \in [Task -> PageOrNone],
         Forest(tab, dir), NEW t \in Task, NEW v \in VPage, NEW j \in 0 .. 3, NEW p,
         Links(tab, new, dir, t, v, j, p)
  PROVE  /\ \A u \in Task, w \in VPage, k \in 0 .. 4 :
              Node(new, dir[u], w, k) = LinkedNode(tab, dir, t, v, j, p, u, w, k)
         /\ Forest(new, dir)
<1>1. ASSUME NEW u \in Task, NEW w \in VPage
      PROVE  \A k \in 0 .. 4 :
               Node(new, dir[u], w, k) = LinkedNode(tab, dir, t, v, j, p, u, w, k)
  <2> DEFINE L == {k \in 0 .. 4 :
                     Node(new, dir[u], w, k) = LinkedNode(tab, dir, t, v, j, p, u, w, k)}
  <2>1. 0 \in L
    <3>1. 0 # j + 1 /\ Node(new, dir[u], w, 0) = Node(tab, dir[u], w, 0)
      BY NodeStep
    <3> QED BY <3>1 DEF LinkedNode
  <2>2. ASSUME NEW k \in 0 .. 3, k \in L PROVE k + 1 \in L
    BY <2>2, LinkStep
  <2> HIDE DEF L
  <2>3. \A k \in 0 .. 4 : k \in L
    BY <2>1, <2>2, Levels
  <2> QED BY <2>3 DEF L
<1>2. Forest(new, dir)
  <2>1. SUFFICES ASSUME NEW a \in Task, NEW b \in Task, NEW x \in VPage, NEW y \in VPage,
                        NEW k \in 0 .. 4, NEW l \in 0 .. 4,
                        Node(new, dir[a], x, k) # NoPage,
                        Node(new, dir[a], x, k) = Node(new, dir[b], y, l)
                 PROVE  a = b /\ k = l /\ Agree(x, y, k)
    BY DEF Forest
  <2>2. /\ Node(new, dir[a], x, k) = LinkedNode(tab, dir, t, v, j, p, a, x, k)
        /\ Node(new, dir[b], y, l) = LinkedNode(tab, dir, t, v, j, p, b, y, l)
    BY <1>1
  <2>3. Node(tab, dir[a], x, k) # p /\ Node(tab, dir[b], y, l) # p
    BY DEF Links, Apart
  <2>4. CASE /\ ~(a = t /\ k = j + 1 /\ Agree(v, x, j + 1))
             /\ ~(b = t /\ l = j + 1 /\ Agree(v, y, j + 1))
    <3>1. /\ Node(tab, dir[a], x, k) # NoPage
          /\ Node(tab, dir[a], x, k) = Node(tab, dir[b], y, l)
      BY <2>1, <2>2, <2>4 DEF LinkedNode
    <3> QED BY <3>1 DEF Forest
  <2>5. CASE /\ a = t /\ k = j + 1 /\ Agree(v, x, j + 1)
             /\ b = t /\ l = j + 1 /\ Agree(v, y, j + 1)
    BY <2>5 DEF Agree
  <2> QED BY <2>1, <2>2, <2>3, <2>4, <2>5 DEF LinkedNode
<1> QED BY <1>1, <1>2


\* A task without a directory is given the blank page p as one.
RootsAt(tab, dir, new, t, p) ==
  \A u \in Task, w \in VPage, k \in 0 .. 4 :
    Node(tab, new[u], w, k) = IF u = t /\ k = 0 THEN p ELSE Node(tab, dir[u], w, k)

LEMMA Rooted ==
  ASSUME NEW tab \in TableT, NEW dir \in [Task -> PageOrNone], Forest(tab, dir),
         NEW t \in Task, dir[t] = NoPage, NEW p \in Page, Apart(tab, dir, p), Blank(tab, p),
         NEW new, new = [dir EXCEPT ![t] = p]
  PROVE  RootsAt(tab, dir, new, t, p) /\ Forest(tab, new)
<1>1. ASSUME NEW w \in VPage, NEW k \in 1 .. 4
      PROVE  Node(tab, p, w, k) = NoPage /\ Node(tab, NoPage, w, k) = NoPage
  <2> DEFINE L == {l \in 0 .. 4 : l = 0 \/ (Node(tab, p, w, l) = NoPage /\ Node(tab, NoPage, w, l) = NoPage)}
  <2>1. 0 \in L
    OBVIOUS
  <2>2. ASSUME NEW l \in 0 .. 3, l \in L PROVE l + 1 \in L
    <3>1. /\ Node(tab, p, w, l + 1) = Below(tab, Node(tab, p, w, l), w[l + 1])
          /\ Node(tab, NoPage, w, l + 1) = Below(tab, Node(tab, NoPage, w, l), w[l + 1])
          /\ Node(tab, p, w, 0) = p /\ Node(tab, NoPage, w, 0) = NoPage
      BY NodeStep
    <3>2. w[l + 1] \in Index /\ l + 1 \in 0 .. 4 /\ p # NoPage
      BY PageFacts
    <3>3. CASE l = 0
      BY <3>1, <3>2, <3>3 DEF Below, Blank
    <3>4. CASE l # 0
      BY <2>2, <3>1, <3>2, <3>4 DEF Below
    <3> QED BY <3>3, <3>4
  <2> HIDE DEF L
  <2>3. \A l \in 0 .. 4 : l \in L
    BY <2>1, <2>2, Levels
  <2>4. k \in 0 .. 4 /\ k # 0
    OBVIOUS
  <2> QED BY <2>3, <2>4 DEF L
<1>2. ASSUME NEW u \in Task, NEW w \in VPage, NEW k \in 0 .. 4
      PROVE  Node(tab, new[u], w, k) = IF u = t /\ k = 0 THEN p ELSE Node(tab, dir[u], w, k)
  <2>1. CASE u # t
    BY <2>1
  <2>2. CASE u = t /\ k = 0
    BY <2>2, NodeStep
  <2>3. CASE u = t /\ k # 0
    <3>1. k \in 1 .. 4 /\ new[u] = p /\ dir[u] = NoPage
      BY <2>3
    <3> QED BY <1>1, <2>3, <3>1
  <2> QED BY <2>1, <2>2, <2>3
<1>3. Forest(tab, new)
  <2>1. SUFFICES ASSUME NEW a \in Task, NEW b \in Task, NEW x \in VPage, NEW y \in VPage,
                        NEW k \in 0 .. 4, NEW l \in 0 .. 4,
                        Node(tab, new[a], x, k) # NoPage,
                        Node(tab, new[a], x, k) = Node(tab, new[b], y, l)
                 PROVE  a = b /\ k = l /\ Agree(x, y, k)
    BY DEF Forest
  <2>2. /\ Node(tab, new[a], x, k) = IF a = t /\ k = 0 THEN p ELSE Node(tab, dir[a], x, k)
        /\ Node(tab, new[b], y, l) = IF b = t /\ l = 0 THEN p ELSE Node(tab, dir[b], y, l)
    BY <1>2
  <2>3. Node(tab, dir[a], x, k) # p /\ Node(tab, dir[b], y, l) # p
    BY DEF Apart
  <2>4. CASE ~(a = t /\ k = 0) /\ ~(b = t /\ l = 0)
    <3>1. /\ Node(tab, dir[a], x, k) # NoPage
          /\ Node(tab, dir[a], x, k) = Node(tab, dir[b], y, l)
      BY <2>1, <2>2, <2>4
    <3> QED BY <3>1 DEF Forest
  <2>5. CASE a = t /\ k = 0 /\ b = t /\ l = 0
    BY <2>5 DEF Agree
  <2> QED BY <2>1, <2>2, <2>3, <2>4, <2>5
<1> QED BY <1>2, <1>3 DEF RootsAt

-----------------------------------------------------------------------------
(***************************************************************************)
(* What the pages of a task are for.                                       *)
(***************************************************************************)
Kind == {"task_struct", "table", "memory"}

SlotsOf(m, k) ==
  CASE k = "task_struct" -> IF m.task_page = NoPage THEN {} ELSE {1}
    [] k = "table" -> 1 .. Len(m.kernelpages)
    [] k = "memory" -> 1 .. Len(m.userpages)

PageOf(m, k, i) ==
  CASE k = "task_struct" -> m.task_page
    [] k = "table" -> m.kernelpages[i]
    [] k = "memory" -> m.userpages[i].phys

OneUse(ms) ==
  \A t, u \in Task, k, l \in Kind :
    \A i \in SlotsOf(ms[t], k), j \in SlotsOf(ms[u], l) :
      PageOf(ms[t], k, i) = PageOf(ms[u], l, j) => t = u /\ k = l /\ i = j

Exclusive(used, ms) ==
  /\ \A t \in Task, k \in Kind : \A i \in SlotsOf(ms[t], k) : used[PageOf(ms[t], k, i)]
  /\ OneUse(ms)

Unheld(ms, p) ==
  \A t \in Task, k \in Kind : \A i \in SlotsOf(ms[t], k) : PageOf(ms[t], k, i) # p

\* The task t has one slot more, the z-th of kind c, and there the page p.
Gains(ms, new, t, c, z, p) ==
  /\ \A u \in Task, k \in Kind :
       /\ SlotsOf(new[u], k) = IF u = t /\ k = c THEN SlotsOf(ms[u], k) \cup {z}
                                                 ELSE SlotsOf(ms[u], k)
       /\ \A i \in SlotsOf(ms[u], k) : PageOf(new[u], k, i) = PageOf(ms[u], k, i)
  /\ PageOf(new[t], c, z) = p

LEMMA HoldMore ==
  ASSUME NEW used, NEW ms, NEW new, NEW t \in Task, NEW c \in Kind, NEW z, NEW p,
         Exclusive(used, ms), Unheld(ms, p), used[p], Gains(ms, new, t, c, z, p)
  PROVE  /\ Exclusive(used, new)
         /\ \A q : Unheld(ms, q) /\ q # p => Unheld(new, q)
<1>1. ASSUME NEW u \in Task, NEW k \in Kind, NEW i \in SlotsOf(new[u], k)
      PROVE  \/ i \in SlotsOf(ms[u], k) /\ PageOf(new[u], k, i) = PageOf(ms[u], k, i)
             \/ u = t /\ k = c /\ i = z /\ PageOf(new[u], k, i) = p
  BY <1>1 DEF Gains
<1>2. Exclusive(used, new)
  <2>1. SUFFICES ASSUME NEW a \in Task, NEW b \in Task, NEW k \in Kind, NEW l \in Kind,
                        NEW i \in SlotsOf(new[a], k), NEW j \in SlotsOf(new[b], l)
                 PROVE  PageOf(new[a], k, i) = PageOf(new[b], l, j) => a = b /\ k = l /\ i = j
    <3>1. ASSUME NEW a \in Task, NEW k \in Kind, NEW i \in SlotsOf(new[a], k)
          PROVE  used[PageOf(new[a], k, i)]
      BY <1>1, <3>1 DEF Exclusive
    <3> QED BY <3>1 DEF Exclusive, OneUse
  <2>2. /\ \/ i \in SlotsOf(ms[a], k) /\ PageOf(new[a], k, i) = PageOf(ms[a], k, i)
           \/ a = t /\ k = c /\ i = z /\ PageOf(new[a], k, i) = p
        /\ \/ j \in SlotsOf(ms[b], l) /\ PageOf(new[b], l, j) = PageOf(ms[b], l, j)
           \/ b = t /\ l = c /\ j = z /\ PageOf(new[b], l, j) = p
    BY <1>1
  <2>3. ASSUME i \in SlotsOf(ms[a], k)
        PROVE  PageOf(ms[a], k, i) # p
    BY <2>3 DEF Unheld
  <2>4. ASSUME j \in SlotsOf(ms[b], l)
        PROVE  PageOf(ms[b], l, j) # p
    BY <2>4 DEF Unheld
  <2>5. ASSUME i \in SlotsOf(ms[a], k), j \in SlotsOf(ms[b], l),
               PageOf(ms[a], k, i) = PageOf(ms[b], l, j)
        PROVE  a = b /\ k = l /\ i = j
    <3>1. OneUse(ms)
      BY DEF Exclusive
    <3> QED BY <2>5, <3>1 DEF OneUse
  <2> QED BY <2>2, <2>3, <2>4, <2>5
<1>3. ASSUME NEW q, Unheld(ms, q), q # p PROVE Unheld(new, q)
  <2>1. ASSUME NEW u \in Task, NEW k \in Kind, NEW i \in SlotsOf(new[u], k)
        PROVE  PageOf(new[u], k, i) # q
    BY <1>1, <1>3, <2>1 DEF Unheld
  <2> QED BY <2>1 DEF Unheld
<1> QED BY <1>2, <1>3


-----------------------------------------------------------------------------
(***************************************************************************)
(* States of the memory management: the invariant of what get_next_free_   *)
(* page() and map_page() work on.                                          *)
(***************************************************************************)
RamT      == [used : [Page -> BOOLEAN], data : [Page -> Value], table : TableT]
UserPageT == [phys : Page, virt : VPage]
MmT       == [task_page : PageOrNone, pagedirectory : PageOrNone,
              userpages : Seq(UserPageT), kernelpages : Seq(Page)]
StateT    == [ram : RamT, mm : [Task -> MmT], ok : BOOLEAN]

DirOf(ms) == [t \in Task |-> ms[t].pagedirectory]
NodeOf(s, t, v, k) == Node(s.ram.table, s.mm[t].pagedirectory, v, k)

NodesUsed(s) ==
  \A t \in Task, v \in VPage, k \in 0 .. 4 :
    NodeOf(s, t, v, k) # NoPage => s.ram.used[NodeOf(s, t, v, k)]

Sound(s) ==
  /\ s \in StateT
  /\ Forest(s.ram.table, DirOf(s.mm))
  /\ NodesUsed(s)
  /\ Exclusive(s.ram.used, s.mm)

\* A page that is marked and has no purpose yet.
Spare(s, p) ==
  /\ p \in Page /\ s.ram.used[p]
  /\ Apart(s.ram.table, DirOf(s.mm), p) /\ Unheld(s.mm, p) /\ Blank(s.ram.table, p)

\* What allocating for the task t leaves alone.
KeepsMm(s, m, t) ==
  /\ \A u \in Task \ {t} : m.mm[u] = s.mm[u]
  /\ m.mm[t].task_page = s.mm[t].task_page
  /\ s.mm[t].pagedirectory # NoPage => m.mm[t].pagedirectory = s.mm[t].pagedirectory

KeepsPages(s, m) ==
  \A q \in Page : s.ram.used[q] => m.ram.used[q] /\ m.ram.data[q] = s.ram.data[q]

Grown(s, m, t) ==
  /\ KeepsMm(s, m, t) /\ KeepsPages(s, m)
  /\ m.mm[t].userpages = s.mm[t].userpages
  /\ \A u \in Task, w \in VPage : NodeOf(m, u, w, 4) = NodeOf(s, u, w, 4)

LEMMA StateFacts ==
  ASSUME NEW s \in StateT
  PROVE  /\ s.ram.table \in TableT /\ DirOf(s.mm) \in [Task -> PageOrNone]
         /\ \A t \in Task : DirOf(s.mm)[t] = s.mm[t].pagedirectory
         /\ \A t \in Task, v \in VPage, k \in 0 .. 4 : NodeOf(s, t, v, k) \in PageOrNone
<1>1. s.ram.table \in TableT /\ DirOf(s.mm) \in [Task -> PageOrNone]
      /\ \A t \in Task : DirOf(s.mm)[t] = s.mm[t].pagedirectory /\ s.mm[t].pagedirectory \in PageOrNone
  BY DEF StateT, RamT, MmT, DirOf
<1>2. \A t \in Task, v \in VPage, k \in 0 .. 4 : NodeOf(s, t, v, k) \in PageOrNone
  BY <1>1, NodeTyped DEF NodeOf
<1> QED BY <1>1, <1>2

LEMMA HeldIsPage ==
  ASSUME NEW s \in StateT, NEW t \in Task, NEW k \in Kind, NEW i \in SlotsOf(s.mm[t], k)
  PROVE  PageOf(s.mm[t], k, i) \in Page
<1>1. s.mm[t] \in MmT
  BY DEF StateT
<1>2. CASE k = "task_struct"
  BY <1>1, <1>2 DEF SlotsOf, PageOf, MmT, PageOrNone
<1>3. CASE k = "table"
  <2>1. i \in 1 .. Len(s.mm[t].kernelpages) /\ s.mm[t].kernelpages \in Seq(Page)
    BY <1>1, <1>3 DEF SlotsOf, MmT
  <2> QED BY <1>3, <2>1 DEF PageOf
<1>4. CASE k = "memory"
  <2>1. i \in 1 .. Len(s.mm[t].userpages) /\ s.mm[t].userpages \in Seq(UserPageT)
    BY <1>1, <1>4 DEF SlotsOf, MmT
  <2>2. s.mm[t].userpages[i] \in UserPageT
    BY <2>1
  <2> QED BY <1>4, <2>2 DEF PageOf, UserPageT
<1> QED BY <1>2, <1>3, <1>4 DEF Kind

\* An unmarked page has no purpose.
LEMMA FreeIsApart ==
  ASSUME NEW s, Sound(s), NEW p \in FreePages(s.ram)
  PROVE  Apart(s.ram.table, DirOf(s.mm), p) /\ Unheld(s.mm, p) /\ p \in Page
<1>1. p \in Page /\ ~s.ram.used[p] /\ p # NoPage
  BY PageFacts DEF FreePages
<1>2. Apart(s.ram.table, DirOf(s.mm), p)
  <2>1. \A t \in Task : DirOf(s.mm)[t] = s.mm[t].pagedirectory
    BY StateFacts DEF Sound
  <2> QED BY <1>1, <2>1 DEF Sound, NodesUsed, NodeOf, Apart
<1>3. Unheld(s.mm, p)
  BY <1>1 DEF Sound, Exclusive, Unheld
<1> QED BY <1>1, <1>2, <1>3

\* get_next_free_page() finds a page if there is one.
LEMMA FoundFree ==
  ASSUME NEW r, FirstFree(r) # NoPage
  PROVE  FirstFree(r) \in FreePages(r)
<1>1. FreePages(r) # {}
  BY DEF FirstFree
<1>2. FreePages(r) \subseteq Nat
  BY PageFacts DEF FreePages
<1>3. \E p \in FreePages(r) : \A q \in FreePages(r) : p <= q
  BY <1>1, <1>2, LeastExists
<1> QED BY <1>1, <1>3 DEF FirstFree

LEMMA NoneFree ==
  ASSUME NEW r, FirstFree(r) = NoPage
  PROVE  FreePages(r) = {}
<1>1. SUFFICES ASSUME FreePages(r) # {} PROVE FALSE
  OBVIOUS
<1>2. FreePages(r) \subseteq Nat /\ NoPage \notin FreePages(r)
  BY PageFacts DEF FreePages
<1>3. \E p \in FreePages(r) : \A q \in FreePages(r) : p <= q
  BY <1>1, <1>2, LeastExists
<1> QED BY <1>1, <1>2, <1>3 DEF FirstFree

TookRam(r, q, p) ==
  /\ q \in RamT
  /\ q.used = [r.used EXCEPT ![p] = TRUE]
  /\ q.data = [r.data EXCEPT ![p] = 0]
  /\ q.table = [r.table EXCEPT ![p] = [i \in Index |-> NoPage]]

LEMMA TakenRam ==
  ASSUME NEW r \in RamT, NEW p \in Page
  PROVE  TookRam(r, TakePage(r, p), p)
<1>1. 0 \in Value
  BY PagingAssumption DEF PagingAssumption
<1>2. [i \in Index |-> NoPage] \in [Index -> PageOrNone]
  BY DEF PageOrNone
<1> QED BY <1>1, <1>2 DEF RamT, TableT, TakePage, TookRam

\* get_next_free_page(): the page is spare then.
Takes(s, n, p) == n \in StateT /\ n.mm = s.mm /\ n.ram = TakePage(s.ram, p)

LEMMA Taken ==
  ASSUME NEW s, Sound(s), NEW p \in FreePages(s.ram), NEW n, Takes(s, n, p)
  PROVE  /\ Sound(n) /\ Spare(n, p)
         /\ \A q : Spare(s, q) => Spare(n, q) /\ q # p
         /\ \A t \in Task : Grown(s, n, t)
         /\ \A t \in Task, v \in VPage, k \in 0 .. 4 : NodeOf(n, t, v, k) = NodeOf(s, t, v, k)
<1>1. /\ s \in StateT /\ p \in Page /\ ~s.ram.used[p]
      /\ Forest(s.ram.table, DirOf(s.mm)) /\ NodesUsed(s) /\ Exclusive(s.ram.used, s.mm)
  BY DEF Sound, FreePages
<1>2. Apart(s.ram.table, DirOf(s.mm), p) /\ Unheld(s.mm, p)
  BY FreeIsApart
<1>3. /\ n.ram.used = [s.ram.used EXCEPT ![p] = TRUE]
      /\ n.ram.data = [s.ram.data EXCEPT ![p] = 0]
      /\ n.ram.table = [s.ram.table EXCEPT ![p] = [i \in Index |-> NoPage]]
      /\ n.mm = s.mm /\ n \in StateT
  <2>1. s.ram \in RamT
    BY <1>1 DEF StateT
  <2>2. TookRam(s.ram, TakePage(s.ram, p), p)
    BY <1>1, <2>1, TakenRam
  <2> QED BY <2>2 DEF Takes, TookRam
<1>4. /\ s.ram \in RamT /\ s.ram.used \in [Page -> BOOLEAN] /\ s.ram.data \in [Page -> Value]
      /\ s.ram.table \in TableT
  BY <1>1 DEF StateT, RamT
<1>5. ASSUME NEW t \in Task, NEW v \in VPage
      PROVE  \A k \in 0 .. 4 : NodeOf(n, t, v, k) = NodeOf(s, t, v, k)
  <2> DEFINE d == s.mm[t].pagedirectory
  <2>1. Misses(s.ram.table, d, v, p)
    BY <1>1, <1>2, StateFacts DEF Apart, NodeOf, Misses
  <2>2. SameBut(s.ram.table, n.ram.table, p)
    BY <1>3, <1>4 DEF TableT, SameBut
  <2>3. SameWalk(s.ram.table, n.ram.table, d, v)
    BY <2>1, <2>2, NodeKept
  <2> QED BY <1>3, <2>3 DEF NodeOf, SameWalk
<1>6. DirOf(n.mm) = DirOf(s.mm) /\ \A t \in Task : DirOf(s.mm)[t] = s.mm[t].pagedirectory
  BY <1>1, <1>3, StateFacts
<1>7. \A t \in Task, v \in VPage, k \in 0 .. 4 :
        Node(n.ram.table, DirOf(n.mm)[t], v, k) = Node(s.ram.table, DirOf(s.mm)[t], v, k)
  BY <1>3, <1>5, <1>6 DEF NodeOf
<1>8. Forest(n.ram.table, DirOf(n.mm))
  BY <1>1, <1>7 DEF Forest
<1>9. NodesUsed(n)
  <2>1. \A q \in Page : s.ram.used[q] => n.ram.used[q]
    BY <1>3, <1>4
  <2>2. \A t \in Task, v \in VPage, k \in 0 .. 4 :
          NodeOf(s, t, v, k) # NoPage => NodeOf(s, t, v, k) \in Page /\ s.ram.used[NodeOf(s, t, v, k)]
    BY <1>1, StateFacts DEF NodesUsed, PageOrNone
  <2> QED BY <1>5, <2>1, <2>2 DEF NodesUsed
<1>10. Exclusive(n.ram.used, n.mm)
  <2>1. ASSUME NEW t \in Task, NEW k \in Kind, NEW i \in SlotsOf(s.mm[t], k)
        PROVE  n.ram.used[PageOf(s.mm[t], k, i)]
    <3>1. s.ram.used[PageOf(s.mm[t], k, i)] /\ PageOf(s.mm[t], k, i) # p
      BY <1>1, <1>2 DEF Exclusive, Unheld
    <3>2. PageOf(s.mm[t], k, i) \in Page
      BY <1>1, HeldIsPage
    <3> QED BY <1>3, <1>4, <3>1, <3>2
  <2> QED BY <1>1, <1>3, <2>1 DEF Exclusive
<1>11. Sound(n)
  BY <1>3, <1>8, <1>9, <1>10 DEF Sound
<1>12. Spare(n, p)
  <2>1. Apart(n.ram.table, DirOf(n.mm), p)
    BY <1>2, <1>7 DEF Apart
  <2>2. n.ram.used[p] /\ Blank(n.ram.table, p)
    BY <1>1, <1>3, <1>4 DEF Blank, TableT
  <2> QED BY <1>1, <1>2, <1>3, <2>1, <2>2 DEF Spare
<1>13. ASSUME NEW q, Spare(s, q) PROVE Spare(n, q) /\ q # p
  <2>1. q # p /\ q \in Page
    BY <1>1, <1>13 DEF Spare
  <2>2. n.ram.used[q] /\ Blank(n.ram.table, q)
    BY <1>3, <1>4, <1>13, <2>1 DEF Spare, Blank, TableT
  <2>3. Apart(n.ram.table, DirOf(n.mm), q)
    BY <1>7, <1>13 DEF Spare, Apart
  <2> QED BY <1>3, <1>13, <2>1, <2>2, <2>3 DEF Spare
<1>14. KeepsPages(s, n)
  BY <1>1, <1>3, <1>4 DEF KeepsPages
<1>15. \A t \in Task : Grown(s, n, t)
  BY <1>3, <1>5, <1>14 DEF Grown, KeepsMm
<1> QED BY <1>5, <1>11, <1>12, <1>13, <1>15


-----------------------------------------------------------------------------
(***************************************************************************)
(* A spare page gets its purpose.                                          *)
(***************************************************************************)
\* It is linked below the table that the walk of v reaches at level j.
Gives(n, m, t, v, j, c, z, p) ==
  /\ m \in StateT /\ m.ram.used = n.ram.used
  /\ DirOf(m.mm) = DirOf(n.mm)
  /\ Links(n.ram.table, m.ram.table, DirOf(n.mm), t, v, j, p)
  /\ Gains(n.mm, m.mm, t, c, z, p)

WalksLinked(n, m, t, v, j, p) ==
  \A u \in Task, w \in VPage, k \in 0 .. 4 :
    NodeOf(m, u, w, k)
      = IF u = t /\ k = j + 1 /\ Agree(v, w, j + 1) THEN p ELSE NodeOf(n, u, w, k)

OthersSpare(n, m, p) == \A q : Spare(n, q) /\ q # p => Spare(m, q)

LEMMA Given ==
  ASSUME NEW n, Sound(n), NEW p, Spare(n, p), NEW t \in Task, NEW v \in VPage,
         NEW j \in 0 .. 3, NEW c \in Kind, NEW z, NEW m, Gives(n, m, t, v, j, c, z, p)
  PROVE  Sound(m) /\ WalksLinked(n, m, t, v, j, p) /\ OthersSpare(n, m, p)
<1> DEFINE tab == n.ram.table
           new == m.ram.table
           dir == DirOf(n.mm)
           q == Node(tab, dir[t], v, j)
<1>1. /\ n \in StateT /\ Forest(tab, dir) /\ NodesUsed(n) /\ Exclusive(n.ram.used, n.mm)
      /\ p \in Page /\ n.ram.used[p] /\ Apart(tab, dir, p) /\ Unheld(n.mm, p)
  BY DEF Sound, Spare
<1>2. /\ m \in StateT /\ m.ram.used = n.ram.used /\ DirOf(m.mm) = dir
      /\ Links(tab, new, dir, t, v, j, p) /\ Gains(n.mm, m.mm, t, c, z, p)
  BY DEF Gives
<1>3. tab \in TableT /\ new \in TableT /\ dir \in [Task -> PageOrNone]
  BY <1>1, <1>2, StateFacts
<1>4. \A u \in Task : dir[u] = n.mm[u].pagedirectory /\ dir[u] = m.mm[u].pagedirectory
  BY <1>1, <1>2, StateFacts
<1> HIDE DEF tab, new, dir
<1>5. /\ \A u \in Task, w \in VPage, k \in 0 .. 4 :
           Node(new, dir[u], w, k) = LinkedNode(tab, dir, t, v, j, p, u, w, k)
      /\ Forest(new, dir)
  BY <1>1, <1>2, <1>3, Linked
<1>6. WalksLinked(n, m, t, v, j, p)
  <2>1. \A u \in Task, w \in VPage, k \in 0 .. 4 :
          /\ NodeOf(m, u, w, k) = Node(new, dir[u], w, k)
          /\ NodeOf(n, u, w, k) = Node(tab, dir[u], w, k)
    BY <1>4 DEF NodeOf, tab, new
  <2> QED BY <1>5, <2>1 DEF WalksLinked, LinkedNode
<1>7. NodesUsed(m)
  <2>1. ASSUME NEW u \in Task, NEW w \in VPage, NEW k \in 0 .. 4, NodeOf(m, u, w, k) # NoPage
        PROVE  m.ram.used[NodeOf(m, u, w, k)]
    <3>1. NodeOf(m, u, w, k) = p \/ NodeOf(m, u, w, k) = NodeOf(n, u, w, k)
      BY <1>6 DEF WalksLinked
    <3> QED BY <1>1, <1>2, <2>1, <3>1 DEF NodesUsed
  <2> QED BY <2>1 DEF NodesUsed
<1>8. Exclusive(m.ram.used, m.mm) /\ \A x : Unheld(n.mm, x) /\ x # p => Unheld(m.mm, x)
  BY <1>1, <1>2, HoldMore
<1>9. Sound(m)
  BY <1>2, <1>5, <1>7, <1>8 DEF Sound, new
<1>10. ASSUME NEW x, Spare(n, x), x # p PROVE Spare(m, x)
  <2>1. /\ x \in Page /\ n.ram.used[x] /\ Apart(tab, dir, x) /\ Unheld(n.mm, x) /\ Blank(tab, x)
    BY <1>10 DEF Spare, tab, dir
  <2>2. Apart(new, dir, x)
    BY <1>5, <1>10, <2>1 DEF Apart, LinkedNode
  <2>3. new[x] = tab[x]
    <3>1. x # q
      BY <2>1 DEF Apart
    <3> QED BY <1>2, <1>10, <2>1, <3>1 DEF Links
  <2>4. Blank(new, x)
    BY <2>1, <2>3 DEF Blank
  <2> QED BY <1>2, <1>8, <1>10, <2>1, <2>2, <2>4 DEF Spare, new
<1> QED BY <1>6, <1>9, <1>10 DEF OthersSpare

\* It becomes the directory of a task that has none.
GivesRoot(n, m, t, z, p) ==
  /\ m \in StateT /\ m.ram = n.ram
  /\ n.mm[t].pagedirectory = NoPage /\ DirOf(m.mm) = [DirOf(n.mm) EXCEPT ![t] = p]
  /\ Gains(n.mm, m.mm, t, "table", z, p)

WalksRooted(n, m, t, p) ==
  \A u \in Task, w \in VPage, k \in 0 .. 4 :
    NodeOf(m, u, w, k) = IF u = t /\ k = 0 THEN p ELSE NodeOf(n, u, w, k)

LEMMA RootGiven ==
  ASSUME NEW n, Sound(n), NEW p, Spare(n, p), NEW t \in Task, NEW z, NEW m,
         GivesRoot(n, m, t, z, p)
  PROVE  Sound(m) /\ WalksRooted(n, m, t, p) /\ OthersSpare(n, m, p)
<1> DEFINE tab == n.ram.table
           dir == DirOf(n.mm)
           new == DirOf(m.mm)
<1>1. /\ n \in StateT /\ Forest(tab, dir) /\ NodesUsed(n) /\ Exclusive(n.ram.used, n.mm)
      /\ p \in Page /\ n.ram.used[p] /\ Apart(tab, dir, p) /\ Unheld(n.mm, p) /\ Blank(tab, p)
  BY DEF Sound, Spare
<1>2. /\ m \in StateT /\ m.ram = n.ram /\ n.mm[t].pagedirectory = NoPage
      /\ new = [dir EXCEPT ![t] = p] /\ Gains(n.mm, m.mm, t, "table", z, p)
  BY DEF GivesRoot
<1>3. tab \in TableT /\ dir \in [Task -> PageOrNone] /\ dir[t] = NoPage
  BY <1>1, <1>2, StateFacts
<1>4. \A u \in Task : dir[u] = n.mm[u].pagedirectory /\ new[u] = m.mm[u].pagedirectory
  BY <1>1, <1>2, StateFacts
<1> HIDE DEF tab, new, dir
<1>5. RootsAt(tab, dir, new, t, p) /\ Forest(tab, new)
  BY <1>1, <1>2, <1>3, Rooted
<1>6. WalksRooted(n, m, t, p)
  <2>1. \A u \in Task, w \in VPage, k \in 0 .. 4 :
          /\ NodeOf(m, u, w, k) = Node(tab, new[u], w, k)
          /\ NodeOf(n, u, w, k) = Node(tab, dir[u], w, k)
    BY <1>2, <1>4 DEF NodeOf, tab
  <2> QED BY <1>5, <2>1 DEF WalksRooted, RootsAt
<1>7. NodesUsed(m)
  <2>1. ASSUME NEW u \in Task, NEW w \in VPage, NEW k \in 0 .. 4, NodeOf(m, u, w, k) # NoPage
        PROVE  m.ram.used[NodeOf(m, u, w, k)]
    <3>1. NodeOf(m, u, w, k) = p \/ NodeOf(m, u, w, k) = NodeOf(n, u, w, k)
      BY <1>6 DEF WalksRooted
    <3> QED BY <1>1, <1>2, <2>1, <3>1 DEF NodesUsed
  <2> QED BY <2>1 DEF NodesUsed
<1>8. Exclusive(m.ram.used, m.mm) /\ \A x : Unheld(n.mm, x) /\ x # p => Unheld(m.mm, x)
  <2>1. "table" \in Kind
    BY DEF Kind
  <2> QED BY <1>1, <1>2, <2>1, HoldMore
<1>9. Sound(m)
  BY <1>2, <1>5, <1>7, <1>8 DEF Sound, new, tab
<1>10. ASSUME NEW x, Spare(n, x), x # p PROVE Spare(m, x)
  <2>1. /\ x \in Page /\ n.ram.used[x] /\ Apart(tab, dir, x) /\ Unheld(n.mm, x) /\ Blank(tab, x)
    BY <1>10 DEF Spare, tab, dir
  <2>2. Apart(tab, new, x)
    BY <1>5, <1>10, <2>1 DEF Apart, RootsAt
  <2> QED BY <1>2, <1>8, <1>10, <2>1, <2>2 DEF Spare, new, tab
<1> QED BY <1>6, <1>9, <1>10 DEF OthersSpare


-----------------------------------------------------------------------------
(***************************************************************************)
(* map_page(), level by level.                                             *)
(***************************************************************************)
TableMore(ms, new, t, p) ==
  /\ \A u \in Task \ {t} : new[u] = ms[u]
  /\ new[t].task_page = ms[t].task_page /\ new[t].userpages = ms[t].userpages
  /\ new[t].kernelpages = Append(ms[t].kernelpages, p)

LEMMA TableGained ==
  ASSUME NEW ms \in [Task -> MmT], NEW new, NEW t \in Task, NEW p \in Page,
         TableMore(ms, new, t, p)
  PROVE  Gains(ms, new, t, "table", Len(ms[t].kernelpages) + 1, p)
<1> DEFINE l == ms[t].kernelpages
<1>1. l \in Seq(Page)
  BY DEF MmT
<1>2. new[t].kernelpages = Append(l, p)
  BY DEF TableMore
<1> HIDE DEF l
<1>3. /\ Len(Append(l, p)) = Len(l) + 1 /\ Len(l) \in Nat
      /\ \A i \in 1 .. Len(l) : Append(l, p)[i] = l[i]
      /\ Append(l, p)[Len(l) + 1] = p
  BY <1>1
<1>4. 1 .. (Len(l) + 1) = (1 .. Len(l)) \cup {Len(l) + 1}
  BY <1>3
<1>5. /\ SlotsOf(new[t], "table") = SlotsOf(ms[t], "table") \cup {Len(l) + 1}
      /\ \A i \in SlotsOf(ms[t], "table") : PageOf(new[t], "table", i) = PageOf(ms[t], "table", i)
      /\ PageOf(new[t], "table", Len(l) + 1) = p
  BY <1>2, <1>3, <1>4 DEF SlotsOf, PageOf, l
<1>6. \A k \in Kind : k # "table" =>
        /\ SlotsOf(new[t], k) = SlotsOf(ms[t], k)
        /\ \A i \in SlotsOf(ms[t], k) : PageOf(new[t], k, i) = PageOf(ms[t], k, i)
  BY DEF Kind, SlotsOf, PageOf, TableMore
<1>7. \A u \in Task : u # t => new[u] = ms[u]
  BY DEF TableMore
<1> QED BY <1>5, <1>6, <1>7 DEF Gains, l

\* One level of map_page(), for the task t and the address v; p is the page that
\* is going to be mapped.
MapsLevel(s, m, t, v, j, p) ==
  /\ Sound(m) /\ Spare(m, p) /\ Grown(s, m, t) /\ s.ok = TRUE
  /\ \A k \in 0 .. j : NodeOf(m, t, v, k) = NodeOf(s, t, v, k)
  /\ NodeOf(m, t, v, j + 1) # NoPage

LEMMA EntryIs == \A r, q, i : Entry(r, q, i) = Below(r.table, q, i)
BY DEF Entry, Below

LEMMA MapTableThere ==
  ASSUME NEW s, NEW t, NEW q, NEW i, Entry(s.ram, q, i) # NoPage
  PROVE  map_table(s, t, q, i) = s
BY DEF map_table

LEMMA MapTableFails ==
  ASSUME NEW s, NEW t, NEW q, NEW i, Entry(s.ram, q, i) = NoPage,
         q = NoPage \/ FirstFree(s.ram) = NoPage
  PROVE  map_table(s, t, q, i) = [s EXCEPT !.ok = FALSE]
BY DEF map_table

LEMMA MapTableNew ==
  ASSUME NEW s, NEW t, NEW q, NEW i, Entry(s.ram, q, i) = NoPage,
         q # NoPage, FirstFree(s.ram) # NoPage, NEW r, r = TakePage(s.ram, FirstFree(s.ram))
  PROVE  map_table(s, t, q, i)
           = [ram |-> [r EXCEPT !.table[q][i] = FirstFree(s.ram)],
              mm  |-> [s.mm EXCEPT ![t].kernelpages = Append(@, FirstFree(s.ram))],
              ok  |-> s.ok]
BY DEF map_table

LEMMA MapTableGoesOn ==
  ASSUME NEW s, NEW t, NEW q, NEW i, Entry(s.ram, q, i) = NoPage,
         q # NoPage, FirstFree(s.ram) # NoPage
  PROVE  map_table(s, t, q, i).ok = s.ok
BY DEF map_table

LEMMA MapTable ==
  ASSUME NEW s, Sound(s), NEW p, Spare(s, p), NEW t \in Task, NEW v \in VPage,
         NEW j \in 0 .. 2, NEW m, m = map_table(s, t, NodeOf(s, t, v, j), v[j + 1]),
         m.ok = TRUE
  PROVE  MapsLevel(s, m, t, v, j, p)
<1> DEFINE q == NodeOf(s, t, v, j)
           i == v[j + 1]
           x == FirstFree(s.ram)
<1>1. /\ s \in StateT /\ i \in Index /\ j + 1 \in 1 .. 4 /\ j \in 0 .. 3
      /\ NodeOf(s, t, v, j + 1) = Below(s.ram.table, q, i)
      /\ Entry(s.ram, q, i) = Below(s.ram.table, q, i)
      /\ q \in PageOrNone
  BY PageFacts, NodeStep, EntryIs, StateFacts DEF Sound, NodeOf
<1>2. CASE Entry(s.ram, q, i) # NoPage
  <2>1. m = s
    BY <1>2, MapTableThere
  <2>2. Grown(s, s, t)
    BY DEF Grown, KeepsMm, KeepsPages
  <2> QED BY <1>1, <1>2, <2>1, <2>2 DEF MapsLevel
<1>3. CASE Entry(s.ram, q, i) = NoPage
  <2> DEFINE r == TakePage(s.ram, x)
             n == [s EXCEPT !.ram = r]
  <2>1. /\ q # NoPage /\ x # NoPage
        /\ m = [ram |-> [r EXCEPT !.table[q][i] = x],
                mm  |-> [s.mm EXCEPT ![t].kernelpages = Append(@, x)],
                ok  |-> s.ok]
    <3>1. ASSUME q = NoPage \/ x = NoPage PROVE FALSE
      <4>1. m = [s EXCEPT !.ok = FALSE]
        BY <1>3, <3>1, MapTableFails
      <4> QED BY <1>1, <4>1 DEF StateT
    <3> QED BY <1>3, <3>1, MapTableNew, SMTT(30)
  <2>2. x \in FreePages(s.ram) /\ x \in Page /\ q \in Page
    BY <1>1, <2>1, FoundFree DEF FreePages, PageOrNone
  <2>3. /\ s.ram \in RamT /\ s.mm \in [Task -> MmT] /\ s.ok \in BOOLEAN
        /\ s = [ram |-> s.ram, mm |-> s.mm, ok |-> s.ok]
    BY <1>1 DEF StateT
  <2>4. TookRam(s.ram, r, x)
    BY <2>2, <2>3, TakenRam
  <2> HIDE DEF r
  <2>5. r \in RamT /\ r.table \in TableT
    BY <2>4 DEF TookRam, RamT
  <2>6. n \in StateT /\ n.mm = s.mm /\ n.ram = r
    BY <2>3, <2>5 DEF StateT
  <2>7. Takes(s, n, x)
    BY <2>6 DEF Takes, r
  <2>8. Sound(n) /\ Spare(n, x) /\ Spare(n, p) /\ p # x /\ Grown(s, n, t)
        /\ \A u \in Task, w \in VPage, k \in 0 .. 4 : NodeOf(n, u, w, k) = NodeOf(s, u, w, k)
    BY <2>2, <2>7, Taken
  <2> DEFINE a == [r EXCEPT !.table[q][i] = x]
             b == [s.mm EXCEPT ![t].kernelpages = Append(@, x)]
  <2>9. /\ a \in RamT /\ a.used = r.used /\ a.data = r.data
        /\ a.table = [r.table EXCEPT ![q][i] = x]
    BY <1>1, <2>2, <2>5 DEF RamT, TableT, PageOrNone
  <2>10. /\ b \in [Task -> MmT] /\ TableMore(s.mm, b, t, x)
         /\ \A u \in Task : b[u].pagedirectory = s.mm[u].pagedirectory
    <3>1. Append(s.mm[t].kernelpages, x) \in Seq(Page)
      BY <2>2, <2>3 DEF MmT
    <3> QED BY <2>3, <3>1 DEF MmT, TableMore
  <2>11. m.ram = a /\ m.mm = b /\ m.ok = s.ok /\ m \in StateT
    <3>1. m = [ram |-> a, mm |-> b, ok |-> s.ok]
      BY <2>1, <2>3
    <3> HIDE DEF a, b
    <3> QED BY <2>3, <2>9, <2>10, <3>1 DEF StateT
  <2> HIDE DEF a, b, n
  <2>12. DirOf(m.mm) = DirOf(n.mm)
    BY <2>6, <2>10, <2>11 DEF DirOf
  <2>13. Gains(n.mm, m.mm, t, "table", Len(s.mm[t].kernelpages) + 1, x)
    BY <2>2, <2>3, <2>6, <2>10, <2>11, TableGained
  <2>14. Links(n.ram.table, m.ram.table, DirOf(n.mm), t, v, j, x)
    <3>1. DirOf(n.mm)[t] = n.mm[t].pagedirectory
      BY <2>6, StateFacts
    <3>2. Node(n.ram.table, DirOf(n.mm)[t], v, j) = q
      BY <1>1, <2>8, <3>1 DEF NodeOf
    <3>3. Below(n.ram.table, q, i) = NoPage
      <4>1. NodeOf(n, t, v, j + 1) = Below(n.ram.table, NodeOf(n, t, v, j), v[j + 1])
        BY <1>1, NodeStep DEF NodeOf
      <4> QED BY <1>1, <1>3, <2>8, <4>1
    <3>4. q # x
      <4>1. s.ram.used[q] /\ ~s.ram.used[x]
        BY <1>1, <2>1, <2>2 DEF Sound, NodesUsed, FreePages
      <4> QED BY <4>1
    <3>5. Blank(n.ram.table, x) /\ Apart(n.ram.table, DirOf(n.mm), x)
      BY <2>8 DEF Spare
    <3>6. m.ram.table = [n.ram.table EXCEPT ![q][i] = x]
      BY <2>6, <2>9, <2>11
    <3>7. /\ m.ram.table[q] = [n.ram.table[q] EXCEPT ![i] = x]
          /\ \A y \in Page \ {q} : m.ram.table[y] = n.ram.table[y]
      BY <2>2, <2>5, <2>6, <3>6 DEF TableT
    <3>8. Blank(m.ram.table, x)
      BY <2>2, <3>4, <3>5, <3>7 DEF Blank
    <3> QED BY <2>1, <2>2, <3>2, <3>3, <3>5, <3>7, <3>8 DEF Links
  <2>15. Gives(n, m, t, v, j, "table", Len(s.mm[t].kernelpages) + 1, x)
    BY <2>6, <2>9, <2>11, <2>12, <2>13, <2>14 DEF Gives
  <2>16. Sound(m) /\ WalksLinked(n, m, t, v, j, x) /\ Spare(m, p)
    <3>1. "table" \in Kind
      BY DEF Kind
    <3>2. Sound(m) /\ WalksLinked(n, m, t, v, j, x) /\ OthersSpare(n, m, x)
      BY <1>1, <2>8, <2>15, <3>1, Given
    <3> QED BY <2>8, <3>2 DEF OthersSpare
  <2>17. \A k \in 0 .. j : NodeOf(m, t, v, k) = NodeOf(s, t, v, k)
    BY <2>8, <2>16 DEF WalksLinked
  <2>18. NodeOf(m, t, v, j + 1) = x
    BY <2>16 DEF WalksLinked, Agree
  <2>19. \A u \in Task, w \in VPage : NodeOf(m, u, w, 4) = NodeOf(s, u, w, 4)
    <3>1. 4 # j + 1 /\ 4 \in 0 .. 4
      OBVIOUS
    <3> QED BY <2>8, <2>16, <3>1 DEF WalksLinked
  <2>20. KeepsPages(s, m)
    BY <2>6, <2>8, <2>9, <2>11 DEF Grown, KeepsPages
  <2>21. Grown(s, m, t)
    BY <2>10, <2>11, <2>19, <2>20 DEF Grown, KeepsMm, TableMore
  <2> QED BY <2>1, <2>11, <2>16, <2>17, <2>18, <2>21 DEF MapsLevel
<1> QED BY <1>2, <1>3


LEMMA GrownTwice ==
  ASSUME NEW s, NEW n, NEW m, NEW t \in Task, Grown(s, n, t), Grown(n, m, t)
  PROVE  Grown(s, m, t)
<1>1. KeepsMm(s, m, t)
  BY DEF Grown, KeepsMm
<1>2. KeepsPages(s, m)
  BY DEF Grown, KeepsPages
<1>3. \A u \in Task, w \in VPage : NodeOf(m, u, w, 4) = NodeOf(s, u, w, 4)
  BY DEF Grown
<1>4. m.mm[t].userpages = s.mm[t].userpages
  BY DEF Grown
<1> QED BY <1>1, <1>2, <1>3, <1>4 DEF Grown

\* The directory.
MakesRoot(s, d, t, p) ==
  /\ Sound(d.s) /\ Spare(d.s, p) /\ Grown(s, d.s, t) /\ d.s.ok = s.ok
  /\ d.tbl = d.s.mm[t].pagedirectory

LEMMA DirectoryThere ==
  ASSUME NEW s, NEW t, s.mm[t].pagedirectory # NoPage \/ FirstFree(s.ram) = NoPage
  PROVE  PageDirectory(s, t) = [s |-> s, tbl |-> s.mm[t].pagedirectory]
BY DEF PageDirectory

LEMMA DirectoryNew ==
  ASSUME NEW s, NEW t, s.mm[t].pagedirectory = NoPage, FirstFree(s.ram) # NoPage,
         NEW r, r = TakePage(s.ram, FirstFree(s.ram))
  PROVE  PageDirectory(s, t)
           = [s |-> [ram |-> r,
                     mm  |-> [s.mm EXCEPT ![t].pagedirectory = FirstFree(s.ram),
                                          ![t].kernelpages = Append(@, FirstFree(s.ram))],
                     ok  |-> s.ok],
              tbl |-> FirstFree(s.ram)]
BY DEF PageDirectory

LEMMA Directory ==
  ASSUME NEW s, Sound(s), NEW p, Spare(s, p), NEW t \in Task,
         NEW d, d = PageDirectory(s, t)
  PROVE  MakesRoot(s, d, t, p)
<1> DEFINE x == FirstFree(s.ram)
<1>1. s \in StateT
  BY DEF Sound
<1>2. CASE s.mm[t].pagedirectory # NoPage \/ x = NoPage
  <2>1. d.s = s /\ d.tbl = s.mm[t].pagedirectory
    BY <1>2, DirectoryThere
  <2>2. Grown(s, s, t)
    BY DEF Grown, KeepsMm, KeepsPages
  <2> QED BY <2>1, <2>2 DEF MakesRoot
<1>3. CASE s.mm[t].pagedirectory = NoPage /\ x # NoPage
  <2> DEFINE r == TakePage(s.ram, x)
             n == [s EXCEPT !.ram = r]
             b == [s.mm EXCEPT ![t].pagedirectory = x, ![t].kernelpages = Append(@, x)]
             m == d.s
  <2>1. d = [s |-> [ram |-> r, mm |-> b, ok |-> s.ok], tbl |-> x]
    BY <1>3, DirectoryNew
  <2>2. x \in FreePages(s.ram) /\ x \in Page
    BY <1>3, FoundFree DEF FreePages
  <2>3. /\ s.ram \in RamT /\ s.mm \in [Task -> MmT] /\ s.ok \in BOOLEAN
        /\ s = [ram |-> s.ram, mm |-> s.mm, ok |-> s.ok]
    BY <1>1 DEF StateT
  <2>4. TookRam(s.ram, r, x)
    BY <2>2, <2>3, TakenRam
  <2> HIDE DEF r
  <2>5. r \in RamT
    BY <2>4 DEF TookRam
  <2>6. n \in StateT /\ n.mm = s.mm /\ n.ram = r
    BY <2>3, <2>5 DEF StateT
  <2>7. Takes(s, n, x)
    BY <2>6 DEF Takes, r
  <2>8. Sound(n) /\ Spare(n, x) /\ Spare(n, p) /\ p # x /\ Grown(s, n, t)
        /\ \A u \in Task, w \in VPage, k \in 0 .. 4 : NodeOf(n, u, w, k) = NodeOf(s, u, w, k)
    BY <2>2, <2>7, Taken
  <2>9. /\ b \in [Task -> MmT] /\ TableMore(s.mm, b, t, x)
        /\ \A u \in Task : b[u].pagedirectory = IF u = t THEN x ELSE s.mm[u].pagedirectory
    <3>1. Append(s.mm[t].kernelpages, x) \in Seq(Page) /\ x \in PageOrNone
      BY <2>2, <2>3 DEF MmT, PageOrNone
    <3> QED BY <2>3, <3>1 DEF MmT, TableMore
  <2> HIDE DEF b
  <2>10. m.ram = r /\ m.mm = b /\ m.ok = s.ok /\ m \in StateT /\ d.tbl = x
    BY <2>1, <2>3, <2>5, <2>9 DEF StateT
  <2> HIDE DEF n, m
  <2>11. DirOf(m.mm) = [DirOf(n.mm) EXCEPT ![t] = x]
    BY <2>6, <2>9, <2>10 DEF DirOf
  <2>12. Gains(n.mm, m.mm, t, "table", Len(s.mm[t].kernelpages) + 1, x)
    BY <2>2, <2>3, <2>6, <2>9, <2>10, TableGained
  <2>13. GivesRoot(n, m, t, Len(s.mm[t].kernelpages) + 1, x)
    BY <1>3, <2>6, <2>10, <2>11, <2>12 DEF GivesRoot
  <2>14. Sound(m) /\ WalksRooted(n, m, t, x) /\ OthersSpare(n, m, x)
    BY <2>8, <2>13, RootGiven
  <2>15. Spare(m, p)
    BY <2>8, <2>14 DEF OthersSpare
  <2>16. \A u \in Task, w \in VPage : NodeOf(m, u, w, 4) = NodeOf(s, u, w, 4)
    <3>1. 4 # 0 /\ 4 \in 0 .. 4
      OBVIOUS
    <3> QED BY <2>8, <2>14, <3>1 DEF WalksRooted
  <2>17. KeepsPages(s, m)
    BY <2>6, <2>8, <2>10 DEF Grown, KeepsPages
  <2>18. Grown(s, m, t)
    BY <1>3, <2>9, <2>10, <2>16, <2>17 DEF Grown, KeepsMm, TableMore
  <2> QED BY <2>9, <2>10, <2>14, <2>15, <2>18 DEF MakesRoot, m
<1> QED BY <1>2, <1>3

\* A table that was needed and not had stops map_page().
Stopped(s) == s = [ram |-> s.ram, mm |-> s.mm, ok |-> FALSE]

LEMMA StaysStopped ==
  ASSUME NEW a, NEW t, NEW i, Stopped(a.s)
  PROVE  Stopped(NextTable(a, t, i).s)
<1> DEFINE s == a.s
           q == a.tbl
           m == map_table(s, t, q, i)
<1>1. SUFFICES Stopped(m)
  BY DEF NextTable
<1>2. s.ok = FALSE /\ s = [ram |-> s.ram, mm |-> s.mm, ok |-> FALSE]
  BY DEF Stopped
<1> HIDE DEF s, q
<1>3. CASE Entry(s.ram, q, i) # NoPage
  BY <1>2, <1>3, MapTableThere DEF Stopped
<1>4. CASE Entry(s.ram, q, i) = NoPage /\ (q = NoPage \/ FirstFree(s.ram) = NoPage)
  <2>1. m = [s EXCEPT !.ok = FALSE]
    BY <1>4, MapTableFails
  <2> QED BY <1>2, <2>1 DEF Stopped
<1>5. CASE Entry(s.ram, q, i) = NoPage /\ q # NoPage /\ FirstFree(s.ram) # NoPage
  <2> DEFINE r == TakePage(s.ram, FirstFree(s.ram))
             a1 == [r EXCEPT !.table[q][i] = FirstFree(s.ram)]
             b1 == [s.mm EXCEPT ![t].kernelpages = Append(@, FirstFree(s.ram))]
  <2>1. m = [ram |-> a1, mm |-> b1, ok |-> s.ok]
    BY <1>5, MapTableNew
  <2> HIDE DEF a1, b1, m
  <2>2. m.ram = a1 /\ m.mm = b1 /\ m = [ram |-> a1, mm |-> b1, ok |-> FALSE]
    BY <1>2, <2>1
  <2> QED BY <2>2 DEF Stopped
<1> QED BY <1>1, <1>3, <1>4, <1>5

\* map_page() has come to the table of level j.
AtLevel(s, a, t, v, j, p) ==
  /\ Sound(a.s) /\ Spare(a.s, p) /\ Grown(s, a.s, t) /\ a.s.ok = TRUE
  /\ a.tbl = NodeOf(a.s, t, v, j)

LEMMA NextLevel ==
  ASSUME NEW s, NEW a, NEW t \in Task, NEW v \in VPage, NEW j \in 0 .. 2, NEW p,
         AtLevel(s, a, t, v, j, p)
  PROVE  LET b == NextTable(a, t, v[j + 1])
         IN  Stopped(b.s) \/ (AtLevel(s, b, t, v, j + 1, p) /\ b.tbl # NoPage)
<1> DEFINE n == a.s
           q == a.tbl
           m == map_table(n, t, q, v[j + 1])
           b == NextTable(a, t, v[j + 1])
<1>1. b.s = m /\ b.tbl = Entry(m.ram, q, v[j + 1])
  BY DEF NextTable
<1>2. /\ Sound(n) /\ Spare(n, p) /\ Grown(s, n, t) /\ n.ok = TRUE
      /\ q = NodeOf(n, t, v, j) /\ n \in StateT
  BY DEF AtLevel, Sound
<1> HIDE DEF n, q
<1>3. Stopped(m) \/ m.ok = TRUE
  <2>1. CASE Entry(n.ram, q, v[j + 1]) # NoPage
    BY <1>2, <2>1, MapTableThere
  <2>2. CASE Entry(n.ram, q, v[j + 1]) = NoPage /\ (q = NoPage \/ FirstFree(n.ram) = NoPage)
    <3>1. m = [n EXCEPT !.ok = FALSE]
      BY <2>2, MapTableFails
    <3>2. n = [ram |-> n.ram, mm |-> n.mm, ok |-> n.ok]
      BY <1>2 DEF StateT
    <3> QED BY <3>1, <3>2 DEF Stopped
  <2>3. CASE Entry(n.ram, q, v[j + 1]) = NoPage /\ q # NoPage /\ FirstFree(n.ram) # NoPage
    BY <1>2, <2>3, MapTableGoesOn
  <2> QED BY <2>1, <2>2, <2>3
<1> HIDE DEF m
<1>4. ASSUME m.ok = TRUE PROVE AtLevel(s, b, t, v, j + 1, p) /\ b.tbl # NoPage
  <2>1. MapsLevel(n, m, t, v, j, p)
    BY <1>2, <1>4, MapTable DEF m
  <2>2. /\ Sound(m) /\ Spare(m, p) /\ Grown(n, m, t)
        /\ NodeOf(m, t, v, j) = NodeOf(n, t, v, j) /\ NodeOf(m, t, v, j + 1) # NoPage
    BY <2>1 DEF MapsLevel
  <2>3. Grown(s, m, t)
    BY <1>2, <2>2, GrownTwice
  <2>4. NodeOf(m, t, v, j + 1) = Below(m.ram.table, NodeOf(m, t, v, j), v[j + 1])
    <3>1. j \in 0 .. 3
      OBVIOUS
    <3> QED BY <3>1, NodeStep DEF NodeOf
  <2>5. b.tbl = NodeOf(m, t, v, j + 1)
    BY <1>1, <1>2, <2>2, <2>4, EntryIs
  <2> QED BY <1>1, <1>4, <2>2, <2>3, <2>5 DEF AtLevel
<1> QED BY <1>1, <1>3, <1>4


MemoryMore(ms, new, t, p, v) ==
  /\ \A u \in Task \ {t} : new[u] = ms[u]
  /\ new[t].task_page = ms[t].task_page /\ new[t].kernelpages = ms[t].kernelpages
  /\ new[t].pagedirectory = ms[t].pagedirectory
  /\ new[t].userpages = Append(ms[t].userpages, [phys |-> p, virt |-> v])

LEMMA MemoryGained ==
  ASSUME NEW ms \in [Task -> MmT], NEW new, NEW t \in Task, NEW p \in Page, NEW v \in VPage,
         MemoryMore(ms, new, t, p, v)
  PROVE  Gains(ms, new, t, "memory", Len(ms[t].userpages) + 1, p)
<1> DEFINE l == ms[t].userpages
           e == [phys |-> p, virt |-> v]
<1>1. l \in Seq(UserPageT) /\ e \in UserPageT /\ e.phys = p
  BY DEF MmT, UserPageT
<1>2. new[t].userpages = Append(l, e)
  BY DEF MemoryMore
<1> HIDE DEF l, e
<1>3. /\ Len(Append(l, e)) = Len(l) + 1 /\ Len(l) \in Nat
      /\ \A i \in 1 .. Len(l) : Append(l, e)[i] = l[i]
      /\ Append(l, e)[Len(l) + 1] = e
  BY <1>1
<1>4. 1 .. (Len(l) + 1) = (1 .. Len(l)) \cup {Len(l) + 1}
  BY <1>3
<1>5. /\ SlotsOf(new[t], "memory") = SlotsOf(ms[t], "memory") \cup {Len(l) + 1}
      /\ \A i \in SlotsOf(ms[t], "memory") : PageOf(new[t], "memory", i) = PageOf(ms[t], "memory", i)
      /\ PageOf(new[t], "memory", Len(l) + 1) = p
  BY <1>1, <1>2, <1>3, <1>4 DEF SlotsOf, PageOf, l
<1>6. \A k \in Kind : k # "memory" =>
        /\ SlotsOf(new[t], k) = SlotsOf(ms[t], k)
        /\ \A i \in SlotsOf(ms[t], k) : PageOf(new[t], k, i) = PageOf(ms[t], k, i)
  BY DEF Kind, SlotsOf, PageOf, MemoryMore
<1>7. \A u \in Task : u # t => new[u] = ms[u]
  BY DEF MemoryMore
<1> QED BY <1>5, <1>6, <1>7 DEF Gains, l

\* What map_page() does when it gets the tables it needs.
Maps(s, m, t, v, p) ==
  /\ Sound(m) /\ m.ok = TRUE /\ KeepsMm(s, m, t) /\ KeepsPages(s, m)
  /\ m.mm[t].pagedirectory # NoPage
  /\ m.mm[t].userpages = Append(s.mm[t].userpages, [phys |-> p, virt |-> v])
  /\ \A u \in Task, w \in VPage :
       NodeOf(m, u, w, 4) = IF u = t /\ w = v THEN p ELSE NodeOf(s, u, w, 4)

LEMMA AgreeAll ==
  ASSUME NEW v \in VPage, NEW w \in VPage
  PROVE  Agree(v, w, 4) <=> v = w
<1>1. v \in [1 .. 4 -> Index] /\ w \in [1 .. 4 -> Index]
  BY PagingAssumption DEF PagingAssumption
<1> QED BY <1>1 DEF Agree

LEMMA NoRoot ==
  ASSUME NEW tab, NEW v, NEW k \in 0 .. 4
  PROVE  Node(tab, NoPage, v, k) = NoPage
<1>1. k = 0 \/ k = 1 \/ k = 2 \/ k = 3 \/ k = 4
  OBVIOUS
<1> QED BY <1>1 DEF Node, Below

LEMMA MapEntry ==
  ASSUME NEW s, NEW a, NEW t \in Task, NEW v \in VPage, NEW p,
         AtLevel(s, a, t, v, 3, p), a.tbl # NoPage, NodeOf(s, t, v, 4) = NoPage,
         NEW m, m = map_table_entry(a.s, t, a.tbl, v, p)
  PROVE  Maps(s, m, t, v, p)
<1> DEFINE n == a.s
           q == a.tbl
           i == v[4]
<1>1. /\ Sound(n) /\ Spare(n, p) /\ Grown(s, n, t) /\ n.ok = TRUE
      /\ q = NodeOf(n, t, v, 3) /\ n \in StateT /\ p \in Page /\ q # NoPage
  BY DEF AtLevel, Sound, Spare
<1> DEFINE a1 == [n.ram EXCEPT !.table[q][i] = p]
           b1 == [n.mm EXCEPT ![t].userpages = Append(@, [phys |-> p, virt |-> v])]
<1>2. m = [ram |-> a1, mm |-> b1, ok |-> n.ok]
  BY DEF map_table_entry
<1> HIDE DEF n, q
<1>3. /\ n.ram \in RamT /\ n.ram.table \in TableT /\ n.mm \in [Task -> MmT]
      /\ q \in Page /\ i \in Index /\ n.ram.used[q]
  <2>1. 3 \in 0 .. 4 /\ 4 \in 1 .. 4
    OBVIOUS
  <2> QED BY <1>1, <2>1, StateFacts, PageFacts DEF StateT, RamT, PageOrNone, Sound, NodesUsed
<1>4. /\ a1 \in RamT /\ a1.used = n.ram.used /\ a1.data = n.ram.data
      /\ a1.table = [n.ram.table EXCEPT ![q][i] = p]
  BY <1>1, <1>3 DEF RamT, TableT, PageOrNone
<1>5. /\ b1 \in [Task -> MmT] /\ MemoryMore(n.mm, b1, t, p, v)
      /\ \A u \in Task : b1[u].pagedirectory = n.mm[u].pagedirectory
  <2>1. Append(n.mm[t].userpages, [phys |-> p, virt |-> v]) \in Seq(UserPageT)
    <3>1. n.mm[t].userpages \in Seq(UserPageT) /\ [phys |-> p, virt |-> v] \in UserPageT
      BY <1>1, <1>3 DEF MmT, UserPageT
    <3> QED BY <3>1
  <2> QED BY <1>3, <2>1 DEF MmT, MemoryMore
<1> HIDE DEF a1, b1
<1>6. m.ram = a1 /\ m.mm = b1 /\ m.ok = TRUE /\ m \in StateT
  BY <1>1, <1>2, <1>4, <1>5 DEF StateT
<1>7. DirOf(m.mm) = DirOf(n.mm)
  BY <1>5, <1>6 DEF DirOf
<1>8. Gains(n.mm, m.mm, t, "memory", Len(n.mm[t].userpages) + 1, p)
  BY <1>1, <1>3, <1>5, <1>6, MemoryGained
<1>9. Links(n.ram.table, m.ram.table, DirOf(n.mm), t, v, 3, p)
  <2>1. DirOf(n.mm)[t] = n.mm[t].pagedirectory
    BY <1>1, StateFacts
  <2>2. Node(n.ram.table, DirOf(n.mm)[t], v, 3) = q
    BY <1>1, <2>1 DEF NodeOf
  <2>3. Below(n.ram.table, q, i) = NoPage
    <3>1. NodeOf(n, t, v, 3 + 1) = Below(n.ram.table, NodeOf(n, t, v, 3), v[3 + 1])
      <4>1. 3 \in 0 .. 3
        OBVIOUS
      <4> QED BY <4>1, NodeStep DEF NodeOf
    <3>2. 3 + 1 = 4 /\ NodeOf(n, t, v, 4) = NoPage
      BY <1>1 DEF Grown
    <3> QED BY <1>1, <3>1, <3>2
  <2>4. Blank(n.ram.table, p) /\ Apart(n.ram.table, DirOf(n.mm), p)
    BY <1>1 DEF Spare
  <2>5. q # p
    <3>1. 3 \in 0 .. 4
      OBVIOUS
    <3> QED BY <2>2, <2>4, <3>1 DEF Apart
  <2>6. /\ m.ram.table[q] = [n.ram.table[q] EXCEPT ![i] = p]
        /\ \A y \in Page \ {q} : m.ram.table[y] = n.ram.table[y]
    BY <1>3, <1>4, <1>6 DEF TableT
  <2>7. Blank(m.ram.table, p)
    BY <1>1, <2>4, <2>5, <2>6 DEF Blank
  <2>8. 3 + 1 = 4
    OBVIOUS
  <2> QED BY <1>1, <1>3, <2>2, <2>3, <2>4, <2>6, <2>7, <2>8 DEF Links
<1>10. Gives(n, m, t, v, 3, "memory", Len(n.mm[t].userpages) + 1, p)
  BY <1>4, <1>6, <1>7, <1>8, <1>9 DEF Gives
<1>11. Sound(m) /\ WalksLinked(n, m, t, v, 3, p)
  <2>1. "memory" \in Kind /\ 3 \in 0 .. 3
    BY DEF Kind
  <2> QED BY <1>1, <1>10, <2>1, Given
<1>12. \A u \in Task, w \in VPage :
         NodeOf(m, u, w, 4) = IF u = t /\ w = v THEN p ELSE NodeOf(s, u, w, 4)
  <2>1. 3 + 1 = 4 /\ 4 \in 0 .. 4
    OBVIOUS
  <2>2. \A u \in Task, w \in VPage : NodeOf(n, u, w, 4) = NodeOf(s, u, w, 4)
    BY <1>1 DEF Grown
  <2> QED BY <1>11, <2>1, <2>2, AgreeAll DEF WalksLinked
<1>13. KeepsPages(s, m)
  BY <1>1, <1>4, <1>6 DEF Grown, KeepsPages
<1>14. KeepsMm(s, m, t) /\ m.mm[t].userpages = Append(s.mm[t].userpages, [phys |-> p, virt |-> v])
  BY <1>1, <1>5, <1>6 DEF Grown, KeepsMm, MemoryMore
<1>15. m.mm[t].pagedirectory # NoPage
  <2>1. n.mm[t].pagedirectory # NoPage
    <3>1. 3 \in 0 .. 4
      OBVIOUS
    <3> QED BY <1>1, <3>1, NoRoot DEF NodeOf
  <2> QED BY <1>5, <1>6, <2>1
<1> QED BY <1>6, <1>11, <1>12, <1>13, <1>14, <1>15 DEF Maps

LEMMA MapPage ==
  ASSUME NEW s, Sound(s), s.ok = TRUE, NEW p, Spare(s, p), NEW t \in Task, NEW v \in VPage,
         NodeOf(s, t, v, 4) = NoPage, NEW m, m = map_page(s, t, v, p)
  PROVE  Stopped(m) \/ Maps(s, m, t, v, p)
<1> DEFINE d == PageDirectory(s, t)
           pud == NextTable(d, t, v[1])
           pmd == NextTable(pud, t, v[2])
           pte == NextTable(pmd, t, v[3])
<1>1. m = IF pte.s.ok THEN map_table_entry(pte.s, t, pte.tbl, v, p) ELSE pte.s
  BY DEF map_page
<1>2. AtLevel(s, d, t, v, 0, p)
  <2>1. MakesRoot(s, d, t, p)
    BY Directory
  <2>2. NodeOf(d.s, t, v, 0) = d.s.mm[t].pagedirectory
    BY NodeStep DEF NodeOf
  <2> HIDE DEF d
  <2> QED BY <2>1, <2>2 DEF AtLevel, MakesRoot
<1>3. 0 \in 0 .. 2 /\ 1 \in 0 .. 2 /\ 2 \in 0 .. 2 /\ 0 + 1 = 1 /\ 1 + 1 = 2 /\ 2 + 1 = 3
  OBVIOUS
<1> HIDE DEF d
<1>4. Stopped(pud.s) \/ AtLevel(s, pud, t, v, 1, p)
  <2>1. Stopped(NextTable(d, t, v[0 + 1]).s) \/ AtLevel(s, NextTable(d, t, v[0 + 1]), t, v, 0 + 1, p)
    BY <1>2, <1>3, NextLevel
  <2> QED BY <1>3, <2>1
<1> HIDE DEF pud
<1>5. Stopped(pmd.s) \/ AtLevel(s, pmd, t, v, 2, p)
  <2>1. ASSUME AtLevel(s, pud, t, v, 1, p)
        PROVE  Stopped(NextTable(pud, t, v[1 + 1]).s)
               \/ AtLevel(s, NextTable(pud, t, v[1 + 1]), t, v, 1 + 1, p)
    BY <1>3, <2>1, NextLevel
  <2>2. Stopped(pud.s) => Stopped(pmd.s)
    BY StaysStopped
  <2> QED BY <1>3, <1>4, <2>1, <2>2
<1> HIDE DEF pmd
<1>6. Stopped(pte.s) \/ (AtLevel(s, pte, t, v, 3, p) /\ pte.tbl # NoPage)
  <2>1. ASSUME AtLevel(s, pmd, t, v, 2, p)
        PROVE  \/ Stopped(NextTable(pmd, t, v[2 + 1]).s)
               \/ /\ AtLevel(s, NextTable(pmd, t, v[2 + 1]), t, v, 2 + 1, p)
                  /\ NextTable(pmd, t, v[2 + 1]).tbl # NoPage
    BY <1>3, <2>1, NextLevel
  <2>2. Stopped(pmd.s) => Stopped(pte.s)
    BY StaysStopped
  <2> QED BY <1>3, <1>5, <2>1, <2>2
<1> HIDE DEF pte
<1>7. CASE Stopped(pte.s)
  <2>1. pte.s.ok = FALSE
    BY <1>7 DEF Stopped
  <2> QED BY <1>1, <1>7, <2>1
<1>8. CASE AtLevel(s, pte, t, v, 3, p) /\ pte.tbl # NoPage
  <2>1. pte.s.ok = TRUE
    BY <1>8 DEF AtLevel
  <2>2. m = map_table_entry(pte.s, t, pte.tbl, v, p)
    BY <1>1, <2>1
  <2> QED BY <1>8, <2>2, MapEntry
<1> QED BY <1>6, <1>7, <1>8


\* A store to a page leaves the tables and the lists alone.
Writes(n, m, p, x) ==
  /\ m \in StateT /\ m.mm = n.mm /\ m.ok = n.ok
  /\ m.ram.used = n.ram.used /\ m.ram.table = n.ram.table
  /\ m.ram.data = [n.ram.data EXCEPT ![p] = x]

LEMMA Written ==
  ASSUME NEW n, Sound(n), NEW p \in Page, NEW x, NEW m, Writes(n, m, p, x)
  PROVE  /\ Sound(m) /\ m.ram.data[p] = x
         /\ \A q \in Page : q # p => m.ram.data[q] = n.ram.data[q]
         /\ \A t \in Task, v \in VPage, k \in 0 .. 4 : NodeOf(m, t, v, k) = NodeOf(n, t, v, k)
<1>1. m.mm = n.mm /\ m.ram.used = n.ram.used /\ m.ram.table = n.ram.table
  BY DEF Writes
<1>2. \A t \in Task, v \in VPage, k \in 0 .. 4 : NodeOf(m, t, v, k) = NodeOf(n, t, v, k)
  BY <1>1 DEF NodeOf
<1>3. NodesUsed(m)
  BY <1>1, <1>2 DEF Sound, NodesUsed
<1>4. Sound(m)
  BY <1>1, <1>3 DEF Sound, Writes
<1>5. n.ram.data \in [Page -> Value]
  BY DEF Sound, StateT, RamT
<1> QED BY <1>2, <1>4, <1>5 DEF Writes

LEMMA StateMade ==
  ASSUME NEW a \in RamT, NEW b \in [Task -> MmT], NEW o \in BOOLEAN,
         NEW m, m = [ram |-> a, mm |-> b, ok |-> o]
  PROVE  m \in StateT /\ m.ram = a /\ m.mm = b /\ m.ok = o
BY DEF StateT

\* get_next_free_page(), map_page() and the filling of the page.
Fills(s, m, t, v, p, x) == Maps(s, m, t, v, p) /\ m.ram.data[p] = x

LEMMA FillPage ==
  ASSUME NEW s, Sound(s), s.ok = TRUE, NEW p \in FreePages(s.ram), NEW t \in Task, NEW v \in VPage,
         NodeOf(s, t, v, 4) = NoPage, NEW x \in Value, NEW m, m = NewUserPage(s, t, v, p, x)
  PROVE  Stopped(m) \/ Fills(s, m, t, v, p, x)
<1> DEFINE r == TakePage(s.ram, p)
           n == [s EXCEPT !.ram = r]
           h == map_page(n, t, v, p)
<1>1. m = [h EXCEPT !.ram.data[p] = x]
  BY DEF NewUserPage
<1>2. /\ s.ram \in RamT /\ s.mm \in [Task -> MmT] /\ s.ok = TRUE /\ p \in Page
      /\ s = [ram |-> s.ram, mm |-> s.mm, ok |-> s.ok] /\ ~s.ram.used[p]
  BY DEF Sound, StateT, FreePages
<1>3. TookRam(s.ram, r, p)
  BY <1>2, TakenRam
<1> HIDE DEF r
<1>4. r \in RamT
  BY <1>3 DEF TookRam
<1>5. n \in StateT /\ n.mm = s.mm /\ n.ram = r /\ n.ok = TRUE
  BY <1>2, <1>4 DEF StateT
<1>6. Takes(s, n, p)
  BY <1>5 DEF Takes, r
<1>7. Sound(n) /\ Spare(n, p) /\ Grown(s, n, t)
      /\ \A u \in Task, w \in VPage, k \in 0 .. 4 : NodeOf(n, u, w, k) = NodeOf(s, u, w, k)
  BY <1>6, Taken
<1> HIDE DEF n
<1>8. Stopped(h) \/ Maps(n, h, t, v, p)
  <2>1. NodeOf(n, t, v, 4) = NoPage
    <3>1. 4 \in 0 .. 4
      OBVIOUS
    <3> QED BY <1>7, <3>1
  <2> QED BY <1>5, <1>7, <2>1, MapPage
<1> HIDE DEF h
<1>9. CASE Stopped(h)
  <2> DEFINE g == [h.ram EXCEPT !.data[p] = x]
  <2>1. PICK b, c : h = [ram |-> b, mm |-> c, ok |-> FALSE]
    BY <1>9 DEF Stopped
  <2>2. m = [h EXCEPT !.ram = g]
    BY <1>1
  <2> HIDE DEF g
  <2>3. m = [ram |-> g, mm |-> c, ok |-> FALSE]
    BY <2>1, <2>2
  <2> QED BY <2>3 DEF Stopped
<1>10. CASE Maps(n, h, t, v, p)
  <2>1. /\ Sound(h) /\ h.ok = TRUE /\ KeepsMm(n, h, t) /\ KeepsPages(n, h)
        /\ h.mm[t].pagedirectory # NoPage
        /\ h.mm[t].userpages = Append(n.mm[t].userpages, [phys |-> p, virt |-> v])
        /\ \A u \in Task, w \in VPage :
             NodeOf(h, u, w, 4) = IF u = t /\ w = v THEN p ELSE NodeOf(n, u, w, 4)
    BY <1>10 DEF Maps
  <2>2. h.ram \in RamT /\ h.mm \in [Task -> MmT] /\ h = [ram |-> h.ram, mm |-> h.mm, ok |-> h.ok]
    BY <2>1 DEF Sound, StateT
  <2> DEFINE g == [h.ram EXCEPT !.data[p] = x]
  <2>3. g \in RamT /\ g.used = h.ram.used /\ g.table = h.ram.table
        /\ g.data = [h.ram.data EXCEPT ![p] = x]
    BY <1>2, <2>2 DEF RamT
  <2>4. m = [ram |-> g, mm |-> h.mm, ok |-> h.ok]
    BY <1>1, <2>2
  <2> HIDE DEF g
  <2>5. Writes(h, m, p, x)
    <3>1. m.ram = g /\ m.mm = h.mm /\ m.ok = h.ok
      BY <2>4
    <3>2. m \in StateT
      <4>1. g \in RamT /\ h.mm \in [Task -> MmT] /\ h.ok \in BOOLEAN
        BY <2>1, <2>2, <2>3
      <4> QED BY <2>4, <4>1, StateMade
    <3> QED BY <2>3, <3>1, <3>2 DEF Writes
  <2>6. /\ Sound(m) /\ m.ram.data[p] = x
        /\ \A q \in Page : q # p => m.ram.data[q] = h.ram.data[q]
        /\ \A u \in Task, w \in VPage, k \in 0 .. 4 : NodeOf(m, u, w, k) = NodeOf(h, u, w, k)
    BY <1>2, <2>1, <2>5, Written
  <2>7. m.mm = h.mm /\ m.ok = TRUE /\ m.ram.used = h.ram.used
    BY <2>1, <2>3, <2>4
  <2>8. \A u \in Task, w \in VPage :
          NodeOf(m, u, w, 4) = IF u = t /\ w = v THEN p ELSE NodeOf(s, u, w, 4)
    <3>1. 4 \in 0 .. 4
      OBVIOUS
    <3> QED BY <1>7, <2>1, <2>6, <3>1
  <2>9. KeepsPages(s, m)
    <3>1. ASSUME NEW q \in Page, s.ram.used[q]
          PROVE  m.ram.used[q] /\ m.ram.data[q] = s.ram.data[q]
      <4>1. q # p
        BY <1>2, <3>1
      <4>2. n.ram.used[q] /\ n.ram.data[q] = s.ram.data[q]
        BY <1>7, <3>1 DEF Grown, KeepsPages
      <4>3. h.ram.used[q] /\ h.ram.data[q] = n.ram.data[q]
        BY <2>1, <4>2 DEF KeepsPages
      <4> QED BY <2>6, <2>7, <4>1, <4>2, <4>3
    <3> QED BY <3>1 DEF KeepsPages
  <2>10. KeepsMm(s, m, t)
    BY <1>5, <2>1, <2>7 DEF KeepsMm
  <2> QED BY <1>5, <2>1, <2>6, <2>7, <2>8, <2>9, <2>10 DEF Maps, Fills
<1> QED BY <1>8, <1>9, <1>10


-----------------------------------------------------------------------------
(***************************************************************************)
(* The loop of copy_virtual_memory().                                      *)
(***************************************************************************)
LoopOf(f, s, t, src, list, n) ==
  f = [i \in 0 .. n |-> IF i = 0 THEN s ELSE CopyPage(f[i - 1], t, src, list[i])]

LEMMA LoopExists ==
  ASSUME NEW s, NEW t, NEW src, NEW list, NEW n \in Nat
  PROVE  \E f : LoopOf(f, s, t, src, list, n)
<1> DEFINE S == {k \in Nat : \E f : LoopOf(f, s, t, src, list, k)}
<1>1. 0 \in S
  <2> DEFINE g == [i \in 0 .. 0 |-> s]
  <2>1. \A i \in 0 .. 0 : i = 0
    OBVIOUS
  <2>2. LoopOf(g, s, t, src, list, 0)
    BY <2>1 DEF LoopOf
  <2> QED BY <2>2
<1>2. ASSUME NEW k \in Nat, k \in S PROVE k + 1 \in S
  <2>1. PICK f : LoopOf(f, s, t, src, list, k)
    BY <1>2
  <2> DEFINE g == [i \in 0 .. k + 1 |-> IF i = k + 1 THEN CopyPage(f[k], t, src, list[k + 1]) ELSE f[i]]
             h == [i \in 0 .. k + 1 |-> IF i = 0 THEN s ELSE CopyPage(g[i - 1], t, src, list[i])]
  <2>2. ASSUME NEW i \in 0 .. k + 1 PROVE g[i] = h[i]
    <3>1. CASE i = k + 1
      <4>1. g[i - 1] = f[k] /\ i # 0 /\ i - 1 \in 0 .. k + 1
        BY <3>1
      <4> QED BY <3>1, <4>1
    <3>2. CASE i # k + 1
      <4>1. i \in 0 .. k /\ g[i] = f[i]
        BY <3>2
      <4>2. f[i] = IF i = 0 THEN s ELSE CopyPage(f[i - 1], t, src, list[i])
        BY <2>1, <4>1 DEF LoopOf
      <4>3. i # 0 => g[i - 1] = f[i - 1]
        BY <4>1
      <4> QED BY <4>1, <4>2, <4>3
    <3> QED BY <3>1, <3>2
  <2>3. g = h
    <3>1. g = [i \in 0 .. k + 1 |-> g[i]] /\ h = [i \in 0 .. k + 1 |-> h[i]]
      OBVIOUS
    <3> HIDE DEF g, h
    <3> QED BY <2>2, <3>1
  <2>4. LoopOf(g, s, t, src, list, k + 1)
    BY <2>3 DEF LoopOf
  <2> HIDE DEF g, h
  <2> QED BY <2>4
<1> HIDE DEF S
<1>3. Nat \subseteq S
  BY <1>1, <1>2, Induct
<1> QED BY <1>3 DEF S

LEMMA CopyIsLoop ==
  ASSUME NEW s, NEW t, NEW src, NEW list, list = s.mm[src].userpages, Len(list) \in Nat
  PROVE  \E f : LoopOf(f, s, t, src, list, Len(list))
                /\ copy_virtual_memory(s, t, src) = f[Len(list)]
<1> DEFINE f == CHOOSE g : LoopOf(g, s, t, src, list, Len(list))
<1>1. LoopOf(f, s, t, src, list, Len(list))
  BY LoopExists
<1>2. copy_virtual_memory(s, t, src) = f[Len(list)]
  BY DEF copy_virtual_memory, LoopOf
<1> QED BY <1>1, <1>2


\* The list of a task's pages and its tables agree.
Listed(s, t) ==
  LET l == s.mm[t].userpages
  IN  /\ \A i \in 1 .. Len(l) : NodeOf(s, t, l[i].virt, 4) = l[i].phys
      /\ \A v \in VPage : NodeOf(s, t, v, 4) # NoPage => \E i \in 1 .. Len(l) : l[i].virt = v
      /\ \A i, j \in 1 .. Len(l) : l[i].virt = l[j].virt => i = j

LEMMA ListFacts ==
  ASSUME NEW s \in StateT, NEW t \in Task
  PROVE  /\ s.mm[t].userpages \in Seq(UserPageT) /\ Len(s.mm[t].userpages) \in Nat
         /\ \A i \in 1 .. Len(s.mm[t].userpages) :
              s.mm[t].userpages[i].phys \in Page /\ s.mm[t].userpages[i].virt \in VPage
<1>1. s.mm[t].userpages \in Seq(UserPageT)
  BY DEF StateT, MmT
<1>2. \A i \in 1 .. Len(s.mm[t].userpages) : s.mm[t].userpages[i] \in UserPageT
  BY <1>1
<1> QED BY <1>1, <1>2, SMTT(30) DEF UserPageT

LEMMA Appended ==
  ASSUME NEW l \in Seq(UserPageT), NEW p \in Page, NEW v \in VPage, NEW g,
         g = Append(l, [phys |-> p, virt |-> v])
  PROVE  /\ Len(g) = Len(l) + 1 /\ Len(l) \in Nat
         /\ \A i \in 1 .. Len(l) : g[i] = l[i]
         /\ g[Len(l) + 1].phys = p /\ g[Len(l) + 1].virt = v
         /\ \A i \in 1 .. Len(g) : i \in 1 .. Len(l) \/ i = Len(l) + 1
<1> DEFINE e == [phys |-> p, virt |-> v]
<1>1. e \in UserPageT /\ e.phys = p /\ e.virt = v
  BY DEF UserPageT
<1> HIDE DEF e
<1>2. g = Append(l, e)
  BY DEF e
<1>3. /\ Len(g) = Len(l) + 1 /\ Len(l) \in Nat
      /\ \A i \in 1 .. Len(l) : g[i] = l[i]
      /\ g[Len(l) + 1] = e
  BY <1>1, <1>2
<1> QED BY <1>1, <1>3

LEMMA MapsListed ==
  ASSUME NEW s, Sound(s), NEW t \in Task, NEW v \in VPage, NEW p \in Page, NEW m,
         Maps(s, m, t, v, p), NodeOf(s, t, v, 4) = NoPage, NEW u \in Task, Listed(s, u)
  PROVE  Listed(m, u)
<1> DEFINE l == s.mm[u].userpages
           g == m.mm[u].userpages
<1>1. s \in StateT
  BY DEF Sound
<1>2. \A a \in Task, w \in VPage :
        NodeOf(m, a, w, 4) = IF a = t /\ w = v THEN p ELSE NodeOf(s, a, w, 4)
  BY DEF Maps
<1>3. l \in Seq(UserPageT) /\ Len(l) \in Nat /\ \A i \in 1 .. Len(l) : l[i].phys \in Page /\ l[i].virt \in VPage
  BY <1>1, ListFacts
<1>4. /\ \A i \in 1 .. Len(l) : NodeOf(s, u, l[i].virt, 4) = l[i].phys
      /\ \A w \in VPage : NodeOf(s, u, w, 4) # NoPage => \E i \in 1 .. Len(l) : l[i].virt = w
      /\ \A i, j \in 1 .. Len(l) : l[i].virt = l[j].virt => i = j
  BY DEF Listed
<1>5. CASE u # t
  <2>1. g = l
    BY <1>5 DEF Maps, KeepsMm
  <2> HIDE DEF l, g
  <2>2. /\ \A i \in 1 .. Len(g) : NodeOf(m, u, g[i].virt, 4) = g[i].phys
        /\ \A w \in VPage : NodeOf(m, u, w, 4) # NoPage => \E i \in 1 .. Len(g) : g[i].virt = w
        /\ \A i, j \in 1 .. Len(g) : g[i].virt = g[j].virt => i = j
    BY <1>2, <1>3, <1>4, <1>5, <2>1
  <2> QED BY <2>2 DEF Listed, g
<1>6. CASE u = t
  <2>1. g = Append(l, [phys |-> p, virt |-> v])
    BY <1>6 DEF Maps
  <2> HIDE DEF l, g
  <2>2. /\ Len(g) = Len(l) + 1 /\ Len(l) \in Nat
        /\ \A i \in 1 .. Len(l) : g[i] = l[i]
        /\ g[Len(l) + 1].phys = p /\ g[Len(l) + 1].virt = v
        /\ \A i \in 1 .. Len(g) : i \in 1 .. Len(l) \/ i = Len(l) + 1
    BY <1>3, <2>1, Appended
  <2>3. \A i \in 1 .. Len(l) : l[i].virt # v
    <3>1. NoPage \notin Page
      BY PageFacts
    <3> QED BY <1>3, <1>4, <1>6, <3>1
  <2>4. ASSUME NEW i \in 1 .. Len(g) PROVE NodeOf(m, u, g[i].virt, 4) = g[i].phys
    BY <1>2, <1>3, <1>4, <1>6, <2>2, <2>3
  <2>5. ASSUME NEW w \in VPage, NodeOf(m, u, w, 4) # NoPage
        PROVE  \E i \in 1 .. Len(g) : g[i].virt = w
    <3>1. CASE w = v
      <4>1. Len(l) + 1 \in 1 .. Len(g)
        BY <2>2
      <4> QED BY <2>2, <3>1, <4>1
    <3>2. CASE w # v
      <4>1. PICK i \in 1 .. Len(l) : l[i].virt = w
        BY <1>2, <1>4, <2>5, <3>2
      <4>2. i \in 1 .. Len(g)
        BY <2>2
      <4> QED BY <2>2, <4>1, <4>2
    <3> QED BY <3>1, <3>2
  <2>6. ASSUME NEW i \in 1 .. Len(g), NEW j \in 1 .. Len(g), g[i].virt = g[j].virt
        PROVE  i = j
    BY <1>4, <2>2, <2>3, <2>6
  <2> QED BY <2>4, <2>5, <2>6 DEF Listed, g
<1> QED BY <1>5, <1>6

LEMMA WalkIs == \A r, d, v : Walk(r, d, v) = Node(r.table, d, v, 4)
<1> TAKE r, d, v
<1>1. Walk(r, d, v)
        = Below(r.table, Below(r.table, Below(r.table, Below(r.table, d, v[1]), v[2]), v[3]), v[4])
  BY EntryIs DEF Walk
<1> QED BY <1>1 DEF Node


\* The child t has the first j pages of src, with their contents, after i turns of
\* the loop: all i of them, unless there is no free page left.
Copied(s, a, t, src, i, j) ==
  /\ Sound(a) /\ a.ok = TRUE /\ KeepsMm(s, a, t) /\ KeepsPages(s, a) /\ Listed(a, t)
  /\ \A u \in Task, w \in VPage : u # t => NodeOf(a, u, w, 4) = NodeOf(s, u, w, 4)
  /\ Len(a.mm[t].userpages) = j
  /\ \A k \in 1 .. j :
       /\ a.mm[t].userpages[k].virt = s.mm[src].userpages[k].virt
       /\ a.ram.data[a.mm[t].userpages[k].phys] = s.ram.data[s.mm[src].userpages[k].phys]
  /\ j < i => FreePages(a.ram) = {}
  /\ j > 0 => a.mm[t].pagedirectory # NoPage

LEMMA KeepsTwice ==
  ASSUME NEW s, NEW n, NEW m, NEW t \in Task, KeepsMm(s, n, t), KeepsMm(n, m, t),
         KeepsPages(s, n), KeepsPages(n, m)
  PROVE  KeepsMm(s, m, t) /\ KeepsPages(s, m)
<1>1. KeepsMm(s, m, t)
  BY DEF KeepsMm
<1>2. KeepsPages(s, m)
  BY DEF KeepsPages
<1> QED BY <1>1, <1>2

LEMMA CopyStep ==
  ASSUME NEW s, Sound(s), NEW t \in Task, NEW src \in Task, t # src, Listed(s, src),
         NEW list, list = s.mm[src].userpages, NEW i \in Nat, i + 1 \in 1 .. Len(list),
         NEW j \in 0 .. i, NEW a, Copied(s, a, t, src, i, j),
         NEW b, b = CopyPage(a, t, src, list[i + 1])
  PROVE  Stopped(b) \/ \E k \in 0 .. i + 1 : Copied(s, b, t, src, i + 1, k)
<1> DEFINE p == FirstFree(a.ram)
           v == list[i + 1].virt
           x == a.ram.data[Walk(a.ram, a.mm[src].pagedirectory, v)]
           la == a.mm[t].userpages
           lb == b.mm[t].userpages
<1>1. b = IF p = NoPage \/ ~a.ok THEN a ELSE NewUserPage(a, t, v, p, x)
  BY SMTT(30) DEF CopyPage
<1>2. /\ Sound(a) /\ a.ok = TRUE /\ KeepsMm(s, a, t) /\ KeepsPages(s, a) /\ Listed(a, t)
      /\ \A u \in Task, w \in VPage : u # t => NodeOf(a, u, w, 4) = NodeOf(s, u, w, 4)
      /\ Len(la) = j
      /\ \A k \in 1 .. j : /\ la[k].virt = list[k].virt
                           /\ a.ram.data[la[k].phys] = s.ram.data[list[k].phys]
      /\ j < i => FreePages(a.ram) = {}
      /\ j > 0 => a.mm[t].pagedirectory # NoPage
  BY SMTT(30) DEF Copied
<1>3. s \in StateT /\ a \in StateT
  BY <1>2, SMTT(30) DEF Sound
<1>4. /\ list \in Seq(UserPageT) /\ Len(list) \in Nat
      /\ \A k \in 1 .. Len(list) : list[k].phys \in Page /\ list[k].virt \in VPage
      /\ la \in Seq(UserPageT) /\ \A k \in 1 .. j : la[k].phys \in Page
  BY <1>2, <1>3, ListFacts
<1> HIDE DEF la
<1>5. CASE p = NoPage
  <2>1. b = a /\ FreePages(a.ram) = {}
    BY <1>1, <1>5, NoneFree
  <2>2. Copied(s, b, t, src, i + 1, j)
    BY <2>1 DEF Copied
  <2>3. j \in 0 .. i + 1
    OBVIOUS
  <2> QED BY <2>2, <2>3
<1>6. CASE p # NoPage
  <2>1. b = NewUserPage(a, t, v, p, x)
    BY <1>1, <1>2, <1>6
  <2>2. p \in FreePages(a.ram) /\ p \in Page /\ j = i
    <3>1. p \in FreePages(a.ram)
      BY <1>6, FoundFree
    <3> QED BY <1>2, <3>1 DEF FreePages
  <2>3. v \in VPage /\ list[i + 1].phys \in Page
    BY <1>4
  <2>4. NodeOf(a, t, v, 4) = NoPage
    <3>1. ASSUME NodeOf(a, t, v, 4) # NoPage PROVE FALSE
      <4>1. PICK k \in 1 .. j : la[k].virt = v
        BY <1>2, <2>3, <3>1 DEF Listed, la
      <4>2. list[k].virt = list[i + 1].virt /\ k \in 1 .. Len(list) /\ k # i + 1
        BY <1>2, <1>4, <2>2, <4>1, SMTT(30)
      <4> QED BY <4>2, SMTT(30) DEF Listed
    <3> QED BY <3>1
  <2>5. x = s.ram.data[list[i + 1].phys] /\ x \in Value
    <3> DEFINE y == list[i + 1].phys
    <3>1. Walk(a.ram, a.mm[src].pagedirectory, v) = NodeOf(a, src, v, 4)
      BY WalkIs, SMTT(30) DEF NodeOf
    <3>2. NodeOf(a, src, v, 4) = NodeOf(s, src, v, 4) /\ NodeOf(s, src, v, 4) = y
      BY <1>2, <2>3 DEF Listed
    <3>3. s.ram.used[y]
      <4>1. y # NoPage /\ 4 \in 0 .. 4
        BY <2>3, PageFacts, SMTT(30)
      <4> QED BY <2>3, <3>2, <4>1 DEF Sound, NodesUsed
    <3>4. a.ram.data[y] = s.ram.data[y]
      BY <1>2, <2>3, <3>3 DEF KeepsPages
    <3>5. s.ram.data[y] \in Value
      BY <1>3, <2>3 DEF StateT, RamT
    <3> QED BY <3>1, <3>2, <3>4, <3>5
  <2> HIDE DEF x, p, v, lb
  <2>6. Stopped(b) \/ Fills(a, b, t, v, p, x)
    <3>1. /\ Sound(a) /\ a.ok = TRUE /\ p \in FreePages(a.ram) /\ v \in VPage /\ x \in Value
          /\ NodeOf(a, t, v, 4) = NoPage /\ b = NewUserPage(a, t, v, p, x)
      BY <1>2, <2>1, <2>2, <2>3, <2>4, <2>5
    <3> QED BY <3>1, FillPage, ZenonT(30)
  <2>7. ASSUME Maps(a, b, t, v, p), b.ram.data[p] = x
        PROVE  Copied(s, b, t, src, i + 1, i + 1)
    <3>1. /\ Sound(b) /\ b.ok = TRUE /\ KeepsMm(a, b, t) /\ KeepsPages(a, b)
          /\ b.mm[t].pagedirectory # NoPage
          /\ lb = Append(la, [phys |-> p, virt |-> v])
          /\ \A u \in Task, w \in VPage :
               NodeOf(b, u, w, 4) = IF u = t /\ w = v THEN p ELSE NodeOf(a, u, w, 4)
      BY <2>7, ZenonT(30) DEF Maps, la, lb
    <3>2. KeepsMm(s, b, t) /\ KeepsPages(s, b)
      BY <1>2, <3>1, KeepsTwice, SMTT(30)
    <3>3. Listed(b, t)
      BY <1>2, <2>2, <2>3, <2>4, <2>7, MapsListed
    <3>4. /\ Len(lb) = i + 1 /\ \A k \in 1 .. i : lb[k] = la[k]
          /\ lb[i + 1].phys = p /\ lb[i + 1].virt = v
      <4>1. /\ Len(lb) = Len(la) + 1 /\ \A k \in 1 .. Len(la) : lb[k] = la[k]
            /\ lb[Len(la) + 1].phys = p /\ lb[Len(la) + 1].virt = v
        BY <1>4, <2>2, <2>3, <3>1, Appended
      <4>2. Len(la) = i
        BY <1>2, <2>2, SMTT(30)
      <4> QED BY <4>1, <4>2, SMTT(30)
    <3>5. ASSUME NEW k \in 1 .. i + 1
          PROVE  lb[k].virt = list[k].virt /\ b.ram.data[lb[k].phys] = s.ram.data[list[k].phys]
      <4>1. CASE k = i + 1
        BY <2>5, <2>7, <3>4, <4>1, ZenonT(30) DEF v
      <4>2. CASE k # i + 1
        <5>1. k \in 1 .. j /\ lb[k] = la[k]
          <6>1. k \in 1 .. i
            BY <4>2, SMTT(30)
          <6> QED BY <2>2, <3>4, <6>1
        <5>2. a.ram.used[la[k].phys] /\ la[k].phys \in Page
          <6>1. NodeOf(a, t, la[k].virt, 4) = la[k].phys /\ la[k].phys \in Page /\ la[k].virt \in VPage
            BY <1>2, <1>3, <1>4, <5>1, ListFacts DEF Listed, la
          <6>2. la[k].phys # NoPage /\ 4 \in 0 .. 4
            BY <6>1, PageFacts, SMTT(30)
          <6> QED BY <1>2, <6>1, <6>2, SMTT(30) DEF Sound, NodesUsed
        <5>3. b.ram.data[la[k].phys] = a.ram.data[la[k].phys]
          BY <3>1, <5>2, ZenonT(30) DEF KeepsPages
        <5> QED BY <1>2, <5>1, <5>3
      <4> QED BY <4>1, <4>2, SMTT(30)
    <3>6. \A u \in Task, w \in VPage : u # t => NodeOf(b, u, w, 4) = NodeOf(s, u, w, 4)
      BY <1>2, <3>1
    <3>7. ~(i + 1 < i + 1)
      OBVIOUS
    <3> QED BY <3>1, <3>2, <3>3, <3>4, <3>5, <3>6, <3>7, ZenonT(30) DEF Copied, lb
  <2>8. i + 1 \in 0 .. i + 1
    OBVIOUS
  <2> QED BY <2>6, <2>7, <2>8, SMTT(30) DEF Fills
<1> QED BY <1>5, <1>6

LEMMA CopyStops ==
  ASSUME NEW a, Stopped(a), NEW t, NEW src, NEW u
  PROVE  CopyPage(a, t, src, u) = a
<1>1. a.ok = FALSE
  BY DEF Stopped
<1> QED BY <1>1 DEF CopyPage

\* copy_virtual_memory(), for a child that has no memory yet.
LEMMA CopyMemory ==
  ASSUME NEW s, Sound(s), s.ok = TRUE, NEW t \in Task, NEW src \in Task, t # src, Listed(s, src),
         s.mm[t].pagedirectory = NoPage, s.mm[t].userpages = <<>>,
         NEW m, m = copy_virtual_memory(s, t, src)
  PROVE  Stopped(m) \/ \E j \in 0 .. Len(s.mm[src].userpages) :
                         Copied(s, m, t, src, Len(s.mm[src].userpages), j)
<1> DEFINE list == s.mm[src].userpages
           n == Len(list)
<1>1. s \in StateT /\ n \in Nat
  BY ListFacts DEF Sound
<1>2. PICK f : LoopOf(f, s, t, src, list, n) /\ m = f[n]
  BY <1>1, CopyIsLoop
<1> DEFINE Good(i) == Stopped(f[i]) \/ \E j \in 0 .. i : Copied(s, f[i], t, src, i, j)
           S == {i \in Nat : i <= n => Good(i)}
<1>3. f[0] = s /\ \A i \in 1 .. n : f[i] = CopyPage(f[i - 1], t, src, list[i])
  <2> HIDE DEF list, n
  <2>1. f = [i \in 0 .. n |-> IF i = 0 THEN s ELSE CopyPage(f[i - 1], t, src, list[i])]
    BY <1>2 DEF LoopOf
  <2>2. 0 \in 0 .. n /\ \A i \in 1 .. n : i \in 0 .. n /\ i # 0
    BY <1>1
  <2>3. f[0] = s
    BY <2>1, <2>2
  <2>4. ASSUME NEW i \in 1 .. n PROVE f[i] = CopyPage(f[i - 1], t, src, list[i])
    BY <2>1, <2>2
  <2> QED BY <2>3, <2>4
<1>4. 0 \in S
  <2>1. KeepsMm(s, s, t) /\ KeepsPages(s, s)
    BY DEF KeepsMm, KeepsPages
  <2>2. Len(s.mm[t].userpages) = 0
    OBVIOUS
  <2>3. \A w \in VPage : NodeOf(s, t, w, 4) = NoPage
    <3>1. 4 \in 0 .. 4
      OBVIOUS
    <3> QED BY <3>1, NoRoot DEF NodeOf
  <2>4. Listed(s, t)
    <3>1. \A i \in 1 .. Len(s.mm[t].userpages) : FALSE
      BY <2>2
    <3> QED BY <2>3, <3>1 DEF Listed
  <2>5. ~(0 < 0) /\ ~(0 > 0) /\ \A k \in 1 .. 0 : FALSE
    OBVIOUS
  <2>6. Copied(s, s, t, src, 0, 0)
    BY <2>1, <2>2, <2>4, <2>5 DEF Copied
  <2>7. 0 \in 0 .. 0
    OBVIOUS
  <2> QED BY <1>3, <2>6, <2>7
<1>5. ASSUME NEW i \in Nat, i \in S PROVE i + 1 \in S
  <2>1. SUFFICES ASSUME i + 1 <= n PROVE Good(i + 1)
    OBVIOUS
  <2>2. i + 1 \in 1 .. n /\ i <= n /\ (i + 1) - 1 = i
    BY <1>1, <2>1
  <2>3. f[i + 1] = CopyPage(f[i], t, src, list[i + 1])
    BY <1>3, <2>2
  <2>4. Good(i)
    BY <1>5, <2>2
  <2>5. CASE Stopped(f[i])
    BY <2>3, <2>5, CopyStops
  <2>6. CASE \E j \in 0 .. i : Copied(s, f[i], t, src, i, j)
    <3>1. PICK j \in 0 .. i : Copied(s, f[i], t, src, i, j)
      BY <2>6
    <3> HIDE DEF n
    <3> QED BY <2>2, <2>3, <3>1, CopyStep DEF n
  <2> QED BY <2>4, <2>5, <2>6
<1> HIDE DEF S
<1>6. Nat \subseteq S
  BY <1>4, <1>5, Induct
<1>7. Good(n)
  <2> HIDE DEF Good, n
  <2>1. n \in S /\ n <= n
    BY <1>1, <1>6
  <2> QED BY <2>1 DEF S
<1> QED BY <1>2, <1>7


-----------------------------------------------------------------------------
(***************************************************************************)
(* The inductive invariant.                                                *)
(***************************************************************************)
\* What each point of a task's program knows of the memory.
TaskOK(t) ==
  /\ pc[t] = "absent" => mm[t] = NoMm /\ ~(t <= NThreads)
  /\ pc[t] \in {"thread", "load"} => mm[t].pagedirectory = NoPage /\ t <= NThreads
  /\ pc[t] \in {"load", "mem_abort"} => page[t] \in FreePages(ram)
  /\ pc[t] = "el0_da" => NodeOf(Now, t, far_el1, 4) = NoPage
  /\ pc[t] = "mem_abort" => NodeOf(Now, t, addr[t], 4) = NoPage

LocalsOK ==
  /\ pc \in [Task -> {"absent", "thread", "user", "hang", "exited"} \cup Inside]
  /\ page \in [Task -> PageOrNone]
  /\ addr \in [Task -> VPage]
  /\ far_el1 \in VPage
  /\ esr_el1 \in {"svc", "translation_fault"}

MemoryInv ==
  /\ Sound(Now)
  /\ \A t \in Task : Listed(Now, t)
  /\ LocalsOK
  /\ \A t \in Task : TaskOK(t)

\* While pages are left, a process in user mode has memory.
UserHasMemory ==
  \A t \in Task : pc[t] \in {"user", "el0_da", "mem_abort"} =>
    mm[t].pagedirectory # NoPage /\ Len(mm[t].userpages) > 0


LEMMA GoodMade ==
  ASSUME NEW a \in RamT, NEW b \in [Task -> MmT], NEW m, m = [ram |-> a, mm |-> b, ok |-> TRUE]
  PROVE  m \in StateT /\ m.ram = a /\ m.mm = b /\ m.ok = TRUE
BY DEF StateT

LEMMA GoodExists ==
  ASSUME NEW a \in RamT, NEW b \in [Task -> MmT]
  PROVE  \E n \in StateT : n.ram = a /\ n.mm = b /\ n.ok = TRUE
<1> DEFINE n == [ram |-> a, mm |-> b, ok |-> TRUE]
<1>1. n \in StateT /\ n.ram = a /\ n.mm = b /\ n.ok = TRUE
  BY DEF StateT
<1> HIDE DEF n
<1> QED BY <1>1

LEMMA MmMade ==
  ASSUME NEW a \in PageOrNone, NEW m,
         m = [task_page |-> a, pagedirectory |-> NoPage, userpages |-> <<>>, kernelpages |-> <<>>]
  PROVE  /\ m \in MmT /\ m.task_page = a /\ m.pagedirectory = NoPage
         /\ m.userpages = <<>> /\ m.kernelpages = <<>>
<1>1. <<>> \in Seq(UserPageT) /\ <<>> \in Seq(Page) /\ NoPage \in PageOrNone
  BY DEF PageOrNone
<1> QED BY <1>1 DEF MmT

LEMMA NowIs == Now.ram = ram /\ Now.mm = mm /\ Now.ok = TRUE
BY DEF Now

LEMMA TranslateIs == \A t, v : Translate(t, v) = NodeOf(Now, t, v, 4)
BY WalkIs, NowIs DEF Translate, NodeOf

LEMMA InitMemory == Init => MemoryInv
<1> SUFFICES ASSUME Init PROVE MemoryInv
  OBVIOUS
<1>1. /\ ram.used = [p \in Page |-> p <= NThreads]
      /\ ram.table = [p \in Page |-> [i \in Index |-> NoPage]]
      /\ ram.data = [p \in Page |-> 0]
      /\ ram = [used |-> ram.used, data |-> ram.data, table |-> ram.table]
  BY DEF Init
<1>2. ram \in RamT
  <2>1. 0 \in Value
    BY PagingAssumption DEF PagingAssumption
  <2>2. [i \in Index |-> NoPage] \in [Index -> PageOrNone]
    BY DEF PageOrNone
  <2>3. NThreads \in Nat /\ Page \subseteq Nat
    BY PagingAssumption, PageFacts DEF PagingAssumption
  <2>4. ram.used \in [Page -> BOOLEAN] /\ ram.data \in [Page -> Value] /\ ram.table \in TableT
    BY <1>1, <2>1, <2>2, <2>3 DEF TableT
  <2> QED BY <1>1, <2>4 DEF RamT
<1>3. ASSUME NEW t \in Task
      PROVE  /\ mm[t] \in MmT /\ mm[t].pagedirectory = NoPage
             /\ mm[t].userpages = <<>> /\ mm[t].kernelpages = <<>>
             /\ mm[t].task_page = IF t <= NThreads THEN t ELSE NoPage
             /\ ~(t <= NThreads) => mm[t] = NoMm
             /\ t <= NThreads => t \in Page /\ ram.used[t]
  <2>1. t <= NThreads => t \in Page /\ ram.used[t]
    <3>1. t \in Nat /\ 1 <= t /\ NThreads \in Nat /\ NumPages \in Nat /\ NThreads <= NumPages
      BY PagingAssumption DEF PagingAssumption, Task
    <3>2. t <= NThreads => t \in Page
      BY <3>1 DEF Page
    <3> QED BY <1>1, <3>2
  <2>2. mm[t] = IF t <= NThreads THEN [NoMm EXCEPT !.task_page = t] ELSE NoMm
    BY DEF Init
  <2>3. NoPage \in PageOrNone /\ (t <= NThreads => t \in PageOrNone)
    BY <2>1 DEF PageOrNone
  <2>4. /\ t <= NThreads => mm[t] = [task_page |-> t, pagedirectory |-> NoPage,
                                     userpages |-> <<>>, kernelpages |-> <<>>]
        /\ ~(t <= NThreads) => mm[t] = [task_page |-> NoPage, pagedirectory |-> NoPage,
                                        userpages |-> <<>>, kernelpages |-> <<>>]
    BY <2>2 DEF NoMm
  <2>5. CASE t <= NThreads
    BY <2>1, <2>3, <2>4, <2>5, MmMade
  <2>6. CASE ~(t <= NThreads)
    BY <2>2, <2>3, <2>4, <2>6, MmMade
  <2> QED BY <2>5, <2>6
<1>4. mm \in [Task -> MmT]
  <2>1. mm = [t \in Task |-> mm[t]]
    BY DEF Init
  <2> QED BY <1>3, <2>1
<1>5. Now \in StateT
  BY <1>2, <1>4, GoodMade DEF Now
<1>6. \A t \in Task, v \in VPage, k \in 0 .. 4 : NodeOf(Now, t, v, k) = NoPage
  BY <1>3, NowIs, NoRoot DEF NodeOf
<1>7. Forest(ram.table, DirOf(mm))
  <2>1. \A t \in Task : DirOf(mm)[t] = NoPage
    BY <1>3 DEF DirOf
  <2> QED BY <2>1, NoRoot DEF Forest
<1>8. ASSUME NEW t \in Task, NEW k \in Kind, NEW i \in SlotsOf(mm[t], k)
      PROVE  k = "task_struct" /\ i = 1 /\ t <= NThreads /\ PageOf(mm[t], k, i) = t
  <2>1. Len(mm[t].userpages) = 0 /\ Len(mm[t].kernelpages) = 0
    BY <1>3
  <2>2. \A j \in 1 .. 0 : FALSE
    OBVIOUS
  <2>3. k = "task_struct"
    BY <2>1, <2>2, <1>8 DEF SlotsOf, Kind
  <2> QED BY <1>3, <1>8, <2>3 DEF SlotsOf, PageOf
<1>9. Exclusive(ram.used, mm)
  <2>1. OneUse(mm)
    BY <1>8 DEF OneUse
  <2>2. ASSUME NEW t \in Task, NEW k \in Kind, NEW i \in SlotsOf(mm[t], k)
        PROVE  ram.used[PageOf(mm[t], k, i)]
    BY <1>3, <1>8
  <2> QED BY <2>1, <2>2 DEF Exclusive
<1>10. Sound(Now)
  BY <1>5, <1>6, <1>7, <1>9, NowIs DEF Sound, NodesUsed
<1>11. ASSUME NEW t \in Task PROVE Listed(Now, t)
  <2>1. Len(Now.mm[t].userpages) = 0
    BY <1>3, NowIs
  <2>2. \A j \in 1 .. 0 : FALSE
    OBVIOUS
  <2>3. 4 \in 0 .. 4
    OBVIOUS
  <2> QED BY <1>6, <2>1, <2>2, <2>3 DEF Listed
<1>12. LocalsOK
  BY PageFacts DEF Init, LocalsOK, PageOrNone
<1>13. ASSUME NEW t \in Task PROVE TaskOK(t)
  <2>1. pc[t] = IF t <= NThreads THEN "thread" ELSE "absent"
    BY DEF Init
  <2> QED BY <1>3, <2>1 DEF TaskOK
<1> QED BY <1>10, <1>11, <1>12, <1>13 DEF MemoryInv

\* kernel_fork() takes a page for the task_struct of the child.
TaskMore(ms, new, c, p) ==
  /\ \A u \in Task \ {c} : new[u] = ms[u]
  /\ ms[c].task_page = NoPage /\ new[c].task_page = p
  /\ new[c].pagedirectory = ms[c].pagedirectory
  /\ new[c].kernelpages = ms[c].kernelpages /\ new[c].userpages = ms[c].userpages

LEMMA TaskGained ==
  ASSUME NEW ms, NEW new, NEW c \in Task, NEW p \in Page, TaskMore(ms, new, c, p)
  PROVE  Gains(ms, new, c, "task_struct", 1, p)
<1>1. p # NoPage
  BY PageFacts
<1>2. /\ SlotsOf(new[c], "task_struct") = SlotsOf(ms[c], "task_struct") \cup {1}
      /\ \A i \in SlotsOf(ms[c], "task_struct") :
           PageOf(new[c], "task_struct", i) = PageOf(ms[c], "task_struct", i)
      /\ PageOf(new[c], "task_struct", 1) = p
  BY <1>1 DEF SlotsOf, PageOf, TaskMore
<1>3. \A k \in Kind : k # "task_struct" =>
        /\ SlotsOf(new[c], k) = SlotsOf(ms[c], k)
        /\ \A i \in SlotsOf(ms[c], k) : PageOf(new[c], k, i) = PageOf(ms[c], k, i)
  BY DEF Kind, SlotsOf, PageOf, TaskMore
<1>4. \A u \in Task : u # c => new[u] = ms[u]
  BY DEF TaskMore
<1> QED BY <1>2, <1>3, <1>4 DEF Gains

\* The state in which copy_virtual_memory() begins.
Forked(s, m, c) ==
  /\ Sound(m) /\ m.ok = TRUE /\ KeepsPages(s, m)
  /\ \A u \in Task \ {c} : m.mm[u] = s.mm[u]
  /\ m.mm[c].pagedirectory = NoPage /\ m.mm[c].userpages = <<>>
  /\ \A u \in Task, v \in VPage : NodeOf(m, u, v, 4) = NodeOf(s, u, v, 4)

WithChild(s, m, c, p) ==
  m = [ram |-> TakePage(s.ram, p), mm |-> [s.mm EXCEPT ![c].task_page = p], ok |-> TRUE]

LEMMA ChildMade ==
  ASSUME NEW s, Sound(s), NEW c \in Task, s.mm[c] = NoMm, NEW p \in FreePages(s.ram),
         NEW m, WithChild(s, m, c, p)
  PROVE  Forked(s, m, c)
<1> DEFINE r == TakePage(s.ram, p)
           b == [s.mm EXCEPT ![c].task_page = p]
<1>1. s.ram \in RamT /\ s.mm \in [Task -> MmT] /\ p \in Page
  BY DEF Sound, StateT, FreePages
<1>2. r \in RamT
  BY <1>1, TakenRam DEF TookRam
<1>3. /\ s.mm[c].task_page = NoPage /\ s.mm[c].pagedirectory = NoPage
      /\ s.mm[c].userpages = <<>> /\ s.mm[c].kernelpages = <<>>
  BY DEF NoMm
<1>4. b \in [Task -> MmT] /\ TaskMore(s.mm, b, c, p)
      /\ \A u \in Task : b[u].pagedirectory = s.mm[u].pagedirectory
  <2>1. p \in PageOrNone
    BY <1>1 DEF PageOrNone
  <2> QED BY <1>1, <1>3, <2>1 DEF MmT, TaskMore
<1> HIDE DEF b
<1>5. PICK n \in StateT : n.ram = r /\ n.mm = s.mm
  <2> HIDE DEF r
  <2> QED BY <1>1, <1>2, GoodExists, ZenonT(30)
<1>6. m \in StateT /\ m.ram = r /\ m.mm = b /\ m.ok = TRUE
  <2>1. m = [ram |-> r, mm |-> b, ok |-> TRUE]
    BY DEF b, WithChild
  <2> HIDE DEF r
  <2> QED BY <1>2, <1>4, <2>1, GoodMade
<1>7. Takes(s, n, p)
  BY <1>5 DEF Takes
<1> HIDE DEF r
<1>8. Sound(n) /\ Spare(n, p) /\ Grown(s, n, c)
  BY <1>7, Taken
<1>9. DirOf(m.mm) = DirOf(n.mm)
  BY <1>4, <1>5, <1>6 DEF DirOf
<1>10. Exclusive(m.ram.used, m.mm)
  <2>1. Gains(n.mm, m.mm, c, "task_struct", 1, p) /\ "task_struct" \in Kind
    BY <1>1, <1>4, <1>5, <1>6, TaskGained DEF Kind
  <2>2. Exclusive(n.ram.used, n.mm) /\ Unheld(n.mm, p) /\ n.ram.used[p]
    BY <1>8 DEF Sound, Spare
  <2>3. Exclusive(n.ram.used, m.mm)
    BY <2>1, <2>2, HoldMore
  <2> QED BY <1>5, <1>6, <2>3
<1>11. \A u \in Task, v \in VPage, k \in 0 .. 4 : NodeOf(m, u, v, k) = NodeOf(n, u, v, k)
  BY <1>4, <1>5, <1>6 DEF NodeOf
<1>12. NodesUsed(m)
  <2>1. m.ram = n.ram /\ NodesUsed(n)
    BY <1>5, <1>6, <1>8 DEF Sound
  <2> QED BY <1>11, <2>1 DEF NodesUsed
<1>13. Sound(m)
  BY <1>5, <1>6, <1>8, <1>9, <1>10, <1>12 DEF Sound
<1>14. KeepsPages(s, m)
  BY <1>5, <1>6, <1>8 DEF Grown, KeepsPages
<1>15. \A u \in Task, v \in VPage : NodeOf(m, u, v, 4) = NodeOf(s, u, v, 4)
  <2>1. 4 \in 0 .. 4
    OBVIOUS
  <2> QED BY <1>8, <1>11, <2>1 DEF Grown
<1> QED BY <1>3, <1>4, <1>6, <1>13, <1>14, <1>15 DEF Forked, TaskMore


-----------------------------------------------------------------------------
(***************************************************************************)
(* What the steps do to the memory.                                        *)
(***************************************************************************)
LEMMA BecomeIs ==
  ASSUME NEW m \in StateT, Become(m)
  PROVE  Now' = m
<1>1. m.ok = TRUE /\ ram' = m.ram /\ mm' = m.mm
  BY DEF Become, StateT
<1>2. m = [ram |-> m.ram, mm |-> m.mm, ok |-> m.ok]
  BY DEF StateT
<1>3. Now' = [ram |-> ram', mm |-> mm', ok |-> TRUE]
  BY DEF Now
<1> QED BY <1>1, <1>2, <1>3

LEMMA NotStopped ==
  ASSUME NEW m, Become(m)
  PROVE  ~Stopped(m)
BY DEF Become, Stopped

LEMMA InvFacts ==
  ASSUME MemoryInv
  PROVE  /\ Sound(Now) /\ Now \in StateT /\ Now.ok = TRUE /\ Now.ram = ram /\ Now.mm = mm
         /\ ram \in RamT /\ mm \in [Task -> MmT]
         /\ \A t \in Task : Listed(Now, t) /\ TaskOK(t)
         /\ LocalsOK
<1>1. Sound(Now) /\ Now \in StateT
  BY DEF MemoryInv, Sound
<1>2. ram \in RamT /\ mm \in [Task -> MmT]
  BY <1>1, NowIs DEF StateT
<1> QED BY <1>1, <1>2, NowIs DEF MemoryInv

\* The preemptible paths take and map the page they found.
LEMMA PageMapped ==
  ASSUME MemoryInv, NEW t \in Task, NEW v \in VPage, NodeOf(Now, t, v, 4) = NoPage,
         page[t] \in FreePages(ram), NEW x \in Value,
         Become(NewUserPage(Now, t, v, page[t], x))
  PROVE  Fills(Now, Now', t, v, page[t], x)
<1> DEFINE m == NewUserPage(Now, t, v, page[t], x)
           p == page[t]
           s == Now
<1>1. Sound(s) /\ s.ok = TRUE /\ p \in FreePages(s.ram)
  BY InvFacts
<1>2. ~Stopped(m) /\ Become(m)
  BY NotStopped
<1>3. NodeOf(s, t, v, 4) = NoPage
  OBVIOUS
<1> HIDE DEF p, s
<1>4. Stopped(m) \/ Fills(s, m, t, v, p, x)
  <2>1. m = NewUserPage(s, t, v, p, x)
    BY DEF p, s
  <2> HIDE DEF m
  <2> QED BY <1>1, <1>3, <2>1, FillPage
<1> HIDE DEF m
<1>5. m \in StateT
  BY <1>2, <1>4 DEF Fills, Maps, Sound
<1>6. Now' = m
  BY <1>2, <1>5, BecomeIs
<1> QED BY <1>2, <1>4, <1>6 DEF p, s

LEMMA LoadEndDoes ==
  ASSUME MemoryInv, NEW t \in Task, LoadEnd(t)
  PROVE  \E x \in Value : Fills(Now, Now', t, CodePage, page[t], x)
<1>1. PICK x \in Value : Become(NewUserPage(Now, t, CodePage, page[t], x))
  BY DEF LoadEnd
<1>2. pc[t] = "load" /\ TaskOK(t)
  BY InvFacts DEF LoadEnd
<1>3. page[t] \in FreePages(ram) /\ mm[t].pagedirectory = NoPage
  BY <1>2 DEF TaskOK
<1>4. NodeOf(Now, t, CodePage, 4) = NoPage
  <2>1. 4 \in 0 .. 4
    OBVIOUS
  <2> QED BY <1>3, <2>1, NowIs, NoRoot DEF NodeOf
<1> QED BY <1>1, <1>3, <1>4, PageFacts, PageMapped

LEMMA MemAbortMapDoes ==
  ASSUME MemoryInv, NEW t \in Task, MemAbortMap(t)
  PROVE  Fills(Now, Now', t, addr[t], page[t], 0)
<1>1. Become(NewUserPage(Now, t, addr[t], page[t], 0)) /\ pc[t] = "mem_abort" /\ TaskOK(t)
  BY InvFacts DEF MemAbortMap
<1>2. page[t] \in FreePages(ram) /\ NodeOf(Now, t, addr[t], 4) = NoPage
  BY <1>1 DEF TaskOK
<1>3. addr[t] \in VPage /\ 0 \in Value
  BY InvFacts, PagingAssumption DEF LocalsOK, PagingAssumption
<1> QED BY <1>1, <1>2, <1>3, PageMapped

\* kernel_fork(): s is the state between its two parts.
ForksTo(now, s, m, t, c, j) ==
  Forked(now, s, c) /\ Copied(s, m, c, t, Len(s.mm[t].userpages), j)

LEMMA KernelForkDoes ==
  ASSUME MemoryInv, NEW t \in Task, NEW c \in Task, KernelFork(t, c)
  PROVE  /\ t # c /\ mm[c] = NoMm
         /\ \E s : \E j \in 0 .. Len(mm[t].userpages) : ForksTo(Now, s, Now', t, c, j)
<1> DEFINE p == FirstFree(ram)
           s == [ram |-> TakePage(ram, p), mm |-> [mm EXCEPT ![c].task_page = p], ok |-> TRUE]
           m == copy_virtual_memory(s, c, t)
<1>1. pc[t] = "user" /\ pc[c] = "absent" /\ p # NoPage /\ Become(m)
  BY DEF KernelFork
<1>2. mm[c] = NoMm
  BY <1>1, InvFacts DEF TaskOK
<1>3. t # c
  BY <1>1
<1>4. p \in FreePages(Now.ram)
  BY <1>1, FoundFree, NowIs
<1>5. WithChild(Now, s, c, p)
  BY NowIs DEF WithChild
<1> HIDE DEF s, m, p
<1>6. Sound(Now) /\ Now.mm[c] = NoMm /\ Listed(Now, t) /\ Now \in StateT /\ Now.mm = mm
  BY <1>2, InvFacts
<1>7. Forked(Now, s, c)
  BY <1>4, <1>5, <1>6, ChildMade
<1>8. /\ Sound(s) /\ s.ok = TRUE /\ s.mm[t] = mm[t]
      /\ s.mm[c].pagedirectory = NoPage /\ s.mm[c].userpages = <<>>
      /\ \A v \in VPage : NodeOf(s, t, v, 4) = NodeOf(Now, t, v, 4)
  BY <1>3, <1>6, <1>7 DEF Forked
<1>9. Listed(s, t)
  <2>1. \A i \in 1 .. Len(mm[t].userpages) : mm[t].userpages[i].virt \in VPage
    BY <1>6, ListFacts
  <2> QED BY <1>6, <1>8, <2>1 DEF Listed
<1>10. Stopped(m) \/ \E j \in 0 .. Len(s.mm[t].userpages) :
                       Copied(s, m, c, t, Len(s.mm[t].userpages), j)
  BY <1>3, <1>8, <1>9, CopyMemory DEF m
<1>11. ~Stopped(m)
  BY <1>1, NotStopped
<1>12. PICK j \in 0 .. Len(s.mm[t].userpages) : Copied(s, m, c, t, Len(s.mm[t].userpages), j)
  BY <1>10, <1>11
<1>13. m \in StateT
  BY <1>12 DEF Copied, Sound
<1>14. Now' = m
  BY <1>1, <1>13, BecomeIs
<1>15. ForksTo(Now, s, Now', t, c, j) /\ j \in 0 .. Len(mm[t].userpages)
  BY <1>7, <1>8, <1>12, <1>14 DEF ForksTo
<1> QED BY <1>2, <1>3, <1>15

LEMMA StoreDoes ==
  ASSUME MemoryInv, NEW t \in Task, NEW v \in VPage, Store(t, v)
  PROVE  /\ NodeOf(Now, t, v, 4) \in Page
         /\ \E x \in Value : Writes(Now, Now', NodeOf(Now, t, v, 4), x)
<1> DEFINE q == Translate(t, v)
<1>1. /\ q # NoPage /\ mm' = mm
      /\ \E x \in Value : ram' = [ram EXCEPT !.data[q] = x]
  BY DEF Store
<1>2. q = NodeOf(Now, t, v, 4)
  BY TranslateIs
<1> HIDE DEF q
<1>3. q \in Page
  <2>1. 4 \in 0 .. 4
    OBVIOUS
  <2> QED BY <1>1, <1>2, <2>1, InvFacts, StateFacts DEF PageOrNone
<1>4. PICK x \in Value : ram' = [ram EXCEPT !.data[q] = x]
  BY <1>1
<1>5. ram \in RamT /\ mm \in [Task -> MmT]
  BY InvFacts
<1>6. /\ ram' \in RamT /\ ram'.used = ram.used /\ ram'.table = ram.table
      /\ ram'.data = [ram.data EXCEPT ![q] = x]
  BY <1>3, <1>4, <1>5 DEF RamT
<1>7. Now' = [ram |-> ram', mm |-> mm', ok |-> TRUE]
  BY DEF Now
<1>8. Now' \in StateT /\ Now'.ram = ram' /\ Now'.mm = mm /\ Now'.ok = TRUE
  <2>1. ram' \in RamT /\ mm' \in [Task -> MmT] /\ mm' = mm
    BY <1>1, <1>5, <1>6
  <2>2. Now' \in StateT /\ Now'.ram = ram' /\ Now'.mm = mm' /\ Now'.ok = TRUE
    BY <1>7, <2>1, GoodMade
  <2> QED BY <2>1, <2>2
<1>9. Writes(Now, Now', q, x)
  BY <1>6, <1>8, NowIs DEF Writes
<1> QED BY <1>2, <1>3, <1>9


-----------------------------------------------------------------------------
(***************************************************************************)
(* The steps preserve the invariant.                                       *)
(***************************************************************************)
\* A task that does not run keeps what it knows, if the preemption did no harm.
LEMMA OthersOK ==
  ASSUME NEW u \in Task, TaskOK(u), LocalsOK', Undisturbed', mm'[u] = mm[u],
         pc'[u] = pc[u], page'[u] = page[u], addr'[u] = addr[u], addr[u] \in VPage,
         \A w \in VPage : NodeOf(Now, u, w, 4)' = NodeOf(Now, u, w, 4)
  PROVE  TaskOK(u)'
<1>1. pc[u] \in {"load", "mem_abort"} => page'[u] \in FreePages(ram')
  BY DEF TaskOK, Undisturbed, FreePages
<1>2. pc[u] = "el0_da" => NodeOf(Now, u, far_el1, 4)' = NoPage
  <2>1. far_el1' \in VPage
    BY DEF LocalsOK
  <2>2. Translate(u, far_el1)' = NodeOf(Now, u, far_el1, 4)'
    BY <2>1, WalkIs DEF Translate, NodeOf, Now
  <2> QED BY <2>2 DEF Undisturbed
<1>3. pc[u] = "mem_abort" => NodeOf(Now, u, addr[u], 4)' = NoPage
  BY DEF TaskOK
<1> QED BY <1>1, <1>2, <1>3 DEF TaskOK

LEMMA ListKept ==
  ASSUME NEW s \in StateT, NEW u \in Task, Listed(s, u), NEW n, n.mm[u] = s.mm[u],
         \A w \in VPage : NodeOf(n, u, w, 4) = NodeOf(s, u, w, 4)
  PROVE  Listed(n, u)
<1>1. \A i \in 1 .. Len(s.mm[u].userpages) : s.mm[u].userpages[i].virt \in VPage
  BY ListFacts
<1> QED BY <1>1 DEF Listed

\* The memory after a page was mapped.
LEMMA FillsMemory ==
  ASSUME MemoryInv, NEW t \in Task, NEW v \in VPage, NodeOf(Now, t, v, 4) = NoPage,
         NEW p \in Page, NEW x, Fills(Now, Now', t, v, p, x)
  PROVE  /\ Sound(Now)' /\ \A u \in Task : Listed(Now, u)'
         /\ \A u \in Task : u # t => mm'[u] = mm[u]
         /\ \A u \in Task, w \in VPage :
              NodeOf(Now, u, w, 4)' = IF u = t /\ w = v THEN p ELSE NodeOf(Now, u, w, 4)
<1>1. Maps(Now, Now', t, v, p)
  BY DEF Fills
<1>2. \A u \in Task : Listed(Now', u)
  BY <1>1, InvFacts, MapsListed
<1>3. Now'.mm = mm' /\ Now.mm = mm
  BY DEF Now
<1> QED BY <1>1, <1>2, <1>3 DEF Maps, KeepsMm

LEMMA WritesMemory ==
  ASSUME MemoryInv, NEW p \in Page, NEW x, Writes(Now, Now', p, x)
  PROVE  /\ Sound(Now)' /\ \A u \in Task : Listed(Now, u)'
         /\ \A u \in Task, w \in VPage : NodeOf(Now, u, w, 4)' = NodeOf(Now, u, w, 4)
<1> DEFINE n == Now'
<1>1. Sound(Now) /\ \A u \in Task : Listed(Now, u)
  BY InvFacts
<1>2. Sound(n) /\ \A u \in Task, w \in VPage, k \in 0 .. 4 : NodeOf(n, u, w, k) = NodeOf(Now, u, w, k)
  BY <1>1, Written
<1>3. \A u \in Task, w \in VPage : NodeOf(n, u, w, 4) = NodeOf(Now, u, w, 4)
  <2>1. 4 \in 0 .. 4
    OBVIOUS
  <2> QED BY <1>2, <2>1
<1>4. n.mm = Now.mm /\ Now \in StateT
  BY <1>1 DEF Writes, Sound
<1>5. ASSUME NEW u \in Task PROVE Listed(n, u)
  <2> HIDE DEF n
  <2> QED BY <1>1, <1>3, <1>4, ListKept
<1> QED BY <1>2, <1>3, <1>5

LEMMA ForksMemory ==
  ASSUME MemoryInv, NEW t \in Task, NEW c \in Task, t # c, mm[c] = NoMm, NEW s, NEW j,
         ForksTo(Now, s, Now', t, c, j)
  PROVE  /\ Sound(Now)' /\ \A u \in Task : Listed(Now, u)'
         /\ \A u \in Task : u # c => mm'[u] = mm[u]
         /\ \A u \in Task, w \in VPage : u # c => NodeOf(Now, u, w, 4)' = NodeOf(Now, u, w, 4)
<1> DEFINE n == Now'
<1>1. Sound(Now) /\ Now \in StateT /\ \A u \in Task : Listed(Now, u)
  BY InvFacts
<1>2. Now'.mm = mm' /\ Now.mm = mm
  BY DEF Now
<1>3. /\ \A u \in Task \ {c} : s.mm[u] = Now.mm[u]
      /\ \A u \in Task, w \in VPage : NodeOf(s, u, w, 4) = NodeOf(Now, u, w, 4)
  BY DEF ForksTo, Forked
<1>4. /\ Sound(n) /\ KeepsMm(s, n, c) /\ Listed(n, c)
      /\ \A u \in Task, w \in VPage : u # c => NodeOf(n, u, w, 4) = NodeOf(s, u, w, 4)
  BY DEF ForksTo, Copied
<1>5. \A u \in Task : u # c => n.mm[u] = Now.mm[u]
  BY <1>3, <1>4 DEF KeepsMm
<1>6. \A u \in Task, w \in VPage : u # c => NodeOf(n, u, w, 4) = NodeOf(Now, u, w, 4)
  BY <1>3, <1>4
<1>7. ASSUME NEW u \in Task PROVE Listed(n, u)
  <2>1. CASE u # c
    <3> HIDE DEF n
    <3> QED BY <1>1, <1>5, <1>6, <2>1, ListKept
  <2> QED BY <1>4, <2>1
<1> QED BY <1>2, <1>4, <1>5, <1>6, <1>7

\* Steps that leave the memory alone.
LEMMA MemoryKept ==
  ASSUME MemoryInv, UNCHANGED <<ram, mm>>
  PROVE  /\ Sound(Now)' /\ \A u \in Task : Listed(Now, u)'
         /\ \A u \in Task, w \in VPage : NodeOf(Now, u, w, 4)' = NodeOf(Now, u, w, 4)
         /\ Now' = Now /\ mm' = mm /\ ram' = ram
<1>1. Now' = Now
  BY DEF Now
<1>2. Sound(Now) /\ \A u \in Task : Listed(Now, u)
  BY InvFacts
<1> QED BY <1>1, <1>2


LEMMA InvMade ==
  ASSUME Sound(Now)', \A u \in Task : Listed(Now, u)', LocalsOK',
         \A u \in Task : TaskOK(u)'
  PROVE  MemoryInv'
BY DEF MemoryInv

LEMMA LoadBeginOK ==
  ASSUME MemoryInv, Undisturbed', NEW t \in Task, LoadBegin(t)
  PROVE  MemoryInv'
<1> DEFINE p == FirstFree(ram)
<1>1. /\ CanRun(t) /\ pc[t] = "thread" /\ UNCHANGED <<ram, mm, addr, far_el1, esr_el1>>
      /\ page' = [page EXCEPT ![t] = p]
      /\ pc' = [pc EXCEPT ![t] = IF p = NoPage THEN "hang" ELSE "load"]
  BY DEF LoadBegin, FindPage
<1>2. /\ Sound(Now)' /\ \A u \in Task : Listed(Now, u)'
      /\ mm' = mm /\ ram' = ram
      /\ \A u \in Task, w \in VPage : NodeOf(Now, u, w, 4)' = NodeOf(Now, u, w, 4)
  BY <1>1, MemoryKept
<1>3. LocalsOK /\ \A u \in Task : TaskOK(u)
  BY InvFacts
<1>4. p = NoPage \/ (p \in FreePages(ram) /\ p \in Page)
  BY FoundFree DEF FreePages
<1> HIDE DEF p
<1>5. LocalsOK'
  BY <1>1, <1>3, <1>4 DEF LocalsOK, PageOrNone, Inside
<1>6. \A u \in Task : u # t => pc'[u] = pc[u] /\ page'[u] = page[u]
                                 /\ addr'[u] = addr[u] /\ addr[u] \in VPage
  BY <1>1, <1>3 DEF LocalsOK
<1>8. ASSUME NEW u \in Task PROVE TaskOK(u)'
  <2>1. CASE u # t
    BY <1>2, <1>3, <1>5, <1>6, <2>1, OthersOK
  <2>2. CASE u = t
    <3>1. mm[t].pagedirectory = NoPage /\ t <= NThreads
      BY <1>1, <1>3 DEF TaskOK
    <3>2. page'[t] = p /\ pc'[t] = IF p = NoPage THEN "hang" ELSE "load"
      BY <1>1, <1>3 DEF LocalsOK
    <3> QED BY <1>2, <1>4, <2>2, <3>1, <3>2 DEF TaskOK
  <2> QED BY <2>1, <2>2
<1> QED BY <1>2, <1>5, <1>8, InvMade

\* LoadEnd and MemAbortMap.
LEMMA MappedOK ==
  ASSUME MemoryInv, Undisturbed', NEW t \in Task, CanRun(t), NEW v \in VPage,
         NodeOf(Now, t, v, 4) = NoPage, page[t] \in Page, NEW x, Fills(Now, Now', t, v, page[t], x),
         pc' = [pc EXCEPT ![t] = "user"], ForgetLocals(t), UNCHANGED <<far_el1, esr_el1>>
  PROVE  MemoryInv'
<1>1. /\ Sound(Now)' /\ \A u \in Task : Listed(Now, u)'
      /\ \A u \in Task : u # t => mm'[u] = mm[u]
      /\ \A u \in Task, w \in VPage : u # t => NodeOf(Now, u, w, 4)' = NodeOf(Now, u, w, 4)
  BY FillsMemory
<1>2. LocalsOK /\ \A u \in Task : TaskOK(u)
  BY InvFacts
<1>3. LocalsOK'
  BY <1>2, PageFacts DEF LocalsOK, PageOrNone, ForgetLocals
<1>4. \A u \in Task : u # t => pc'[u] = pc[u] /\ page'[u] = page[u]
                                 /\ addr'[u] = addr[u] /\ addr[u] \in VPage
  BY <1>2 DEF LocalsOK, ForgetLocals
<1>6. ASSUME NEW u \in Task PROVE TaskOK(u)'
  <2>1. CASE u # t
    BY <1>1, <1>2, <1>3, <1>4, <2>1, OthersOK
  <2>2. CASE u = t
    <3>1. pc'[t] = "user"
      BY <1>2 DEF LocalsOK
    <3> QED BY <2>2, <3>1 DEF TaskOK
  <2> QED BY <2>1, <2>2
<1> QED BY <1>1, <1>3, <1>6, InvMade

LEMMA LoadEndOK ==
  ASSUME MemoryInv, Undisturbed', NEW t \in Task, LoadEnd(t)
  PROVE  MemoryInv'
<1>1. PICK x \in Value : Fills(Now, Now', t, CodePage, page[t], x)
  BY LoadEndDoes
<1>2. /\ CanRun(t) /\ pc[t] = "load" /\ pc' = [pc EXCEPT ![t] = "user"]
      /\ ForgetLocals(t) /\ UNCHANGED <<far_el1, esr_el1>>
  BY DEF LoadEnd
<1>3. page[t] \in Page /\ mm[t].pagedirectory = NoPage
  BY <1>2, InvFacts DEF TaskOK, FreePages
<1>4. NodeOf(Now, t, CodePage, 4) = NoPage
  <2>1. 4 \in 0 .. 4
    OBVIOUS
  <2> QED BY <1>3, <2>1, NowIs, NoRoot DEF NodeOf
<1> QED BY <1>1, <1>2, <1>3, <1>4, PageFacts, MappedOK

LEMMA MemAbortMapOK ==
  ASSUME MemoryInv, Undisturbed', NEW t \in Task, MemAbortMap(t)
  PROVE  MemoryInv'
<1>1. Fills(Now, Now', t, addr[t], page[t], 0)
  BY MemAbortMapDoes
<1>2. /\ CanRun(t) /\ pc[t] = "mem_abort" /\ pc' = [pc EXCEPT ![t] = "user"]
      /\ ForgetLocals(t) /\ UNCHANGED <<far_el1, esr_el1>>
  BY DEF MemAbortMap
<1>3. page[t] \in Page /\ NodeOf(Now, t, addr[t], 4) = NoPage
  BY <1>2, InvFacts DEF TaskOK, FreePages
<1>4. addr[t] \in VPage
  BY InvFacts DEF LocalsOK
<1> QED BY <1>1, <1>2, <1>3, <1>4, MappedOK

LEMMA StoreOK ==
  ASSUME MemoryInv, Undisturbed', NEW t \in Task, NEW v \in VPage, Store(t, v)
  PROVE  MemoryInv'
<1>1. PICK x \in Value : Writes(Now, Now', NodeOf(Now, t, v, 4), x)
  BY StoreDoes
<1>2. NodeOf(Now, t, v, 4) \in Page
  BY StoreDoes
<1>3. /\ Sound(Now)' /\ \A u \in Task : Listed(Now, u)'
      /\ \A u \in Task, w \in VPage : NodeOf(Now, u, w, 4)' = NodeOf(Now, u, w, 4)
  BY <1>1, <1>2, WritesMemory
<1>4. CanRun(t) /\ pc[t] = "user" /\ UNCHANGED <<mm, pc, page, addr, far_el1, esr_el1>>
  BY DEF Store
<1>5. LocalsOK /\ \A u \in Task : TaskOK(u)
  BY InvFacts
<1>6. LocalsOK'
  BY <1>4, <1>5 DEF LocalsOK
<1>7. ASSUME NEW u \in Task PROVE TaskOK(u)'
  <2>1. addr[u] \in VPage
    BY <1>5 DEF LocalsOK
  <2> QED BY <1>3, <1>4, <1>5, <1>6, <2>1, OthersOK
<1> QED BY <1>3, <1>6, <1>7, InvMade

\* DataAbort, SysCall, MemAbortFind, ExitTask: the memory is kept.
LEMMA QuietOK ==
  ASSUME MemoryInv, Undisturbed', NEW t \in Task, UNCHANGED <<ram, mm>>,
         \A u \in Task : u # t => pc'[u] = pc[u] /\ page'[u] = page[u] /\ addr'[u] = addr[u],
         LocalsOK', TaskOK(t)'
  PROVE  MemoryInv'
<1>1. /\ Sound(Now)' /\ (\A u \in Task : Listed(Now, u)') /\ mm' = mm
      /\ \A u \in Task, w \in VPage : NodeOf(Now, u, w, 4)' = NodeOf(Now, u, w, 4)
  BY MemoryKept
<1>2. \A u \in Task : TaskOK(u) /\ addr[u] \in VPage
  BY InvFacts DEF LocalsOK
<1>3. ASSUME NEW u \in Task PROVE TaskOK(u)'
  <2>1. CASE u # t
    BY <1>1, <1>2, <2>1, OthersOK
  <2> QED BY <2>1
<1> QED BY <1>1, <1>3, InvMade

LEMMA DataAbortOK ==
  ASSUME MemoryInv, Undisturbed', NEW t \in Task, NEW v \in VPage, DataAbort(t, v)
  PROVE  MemoryInv'
<1>1. /\ CanRun(t) /\ Translate(t, v) = NoPage /\ far_el1' = v
      /\ esr_el1' = "translation_fault" /\ pc' = [pc EXCEPT ![t] = "el0_da"]
      /\ UNCHANGED <<ram, mm, page, addr>>
  BY DEF DataAbort
<1>2. LocalsOK /\ Now' = Now
  BY <1>1, InvFacts, MemoryKept
<1>3. LocalsOK'
  BY <1>1, <1>2 DEF LocalsOK, Inside
<1>4. TaskOK(t)'
  <2>1. pc'[t] = "el0_da"
    BY <1>1, <1>2 DEF LocalsOK
  <2>2. NodeOf(Now', t, far_el1', 4) = NoPage
    BY <1>1, <1>2, TranslateIs
  <2> QED BY <2>1, <2>2 DEF TaskOK
<1>5. \A u \in Task : u # t => pc'[u] = pc[u] /\ page'[u] = page[u] /\ addr'[u] = addr[u]
  BY <1>1, <1>2 DEF LocalsOK
<1> QED BY <1>1, <1>3, <1>4, <1>5, QuietOK

LEMMA SysCallOK ==
  ASSUME MemoryInv, Undisturbed', NEW t \in Task, SysCall(t)
  PROVE  MemoryInv'
<1>1. /\ CanRun(t) /\ pc[t] = "user" /\ esr_el1' = "svc"
      /\ UNCHANGED <<ram, mm, pc, page, addr, far_el1>>
  BY DEF SysCall
<1>2. LocalsOK'
  BY <1>1, InvFacts DEF LocalsOK
<1>3. TaskOK(t)'
  BY <1>1 DEF TaskOK
<1> QED BY <1>1, <1>2, <1>3, QuietOK

LEMMA MemAbortFindOK ==
  ASSUME MemoryInv, Undisturbed', NEW t \in Task, MemAbortFind(t)
  PROVE  MemoryInv'
<1> DEFINE p == FirstFree(ram)
<1>1. /\ CanRun(t) /\ pc[t] = "el0_da" /\ addr' = [addr EXCEPT ![t] = far_el1]
      /\ \/ /\ page' = [page EXCEPT ![t] = p]
            /\ pc' = [pc EXCEPT ![t] = IF p = NoPage THEN "hang" ELSE "mem_abort"]
         \/ page' = page /\ pc' = [pc EXCEPT ![t] = "hang"]
      /\ UNCHANGED <<ram, mm, far_el1, esr_el1>>
  BY DEF MemAbortFind, FindPage
<1>2. LocalsOK /\ Now' = Now /\ ram' = ram /\ TaskOK(t)
  BY <1>1, InvFacts, MemoryKept
<1>3. p = NoPage \/ (p \in FreePages(ram) /\ p \in Page)
  BY FoundFree DEF FreePages
<1> HIDE DEF p
<1>4. LocalsOK'
  BY <1>1, <1>2, <1>3 DEF LocalsOK, Inside, PageOrNone
<1>5. TaskOK(t)'
  <2>1. NodeOf(Now, t, far_el1, 4) = NoPage
    BY <1>1, <1>2 DEF TaskOK
  <2>2. /\ addr'[t] = far_el1
        /\ pc'[t] = "hang" \/ (pc'[t] = "mem_abort" /\ page'[t] = p /\ p # NoPage)
    BY <1>1, <1>2 DEF LocalsOK
  <2>3. NodeOf(Now', t, addr'[t], 4) = NoPage
    BY <1>2, <2>1, <2>2
  <2> QED BY <1>2, <1>3, <2>2, <2>3 DEF TaskOK
<1>6. \A u \in Task : u # t => pc'[u] = pc[u] /\ page'[u] = page[u] /\ addr'[u] = addr[u]
  BY <1>1, <1>2 DEF LocalsOK
<1> QED BY <1>1, <1>4, <1>5, <1>6, QuietOK

LEMMA ExitTaskOK ==
  ASSUME MemoryInv, Undisturbed', NEW t \in Task, ExitTask(t)
  PROVE  MemoryInv'
<1>1. /\ CanRun(t) /\ pc' = [pc EXCEPT ![t] = "exited"] /\ esr_el1' = "svc"
      /\ UNCHANGED <<ram, mm, page, addr, far_el1>>
  BY DEF ExitTask
<1>2. LocalsOK
  BY InvFacts
<1>3. LocalsOK'
  BY <1>1, <1>2 DEF LocalsOK
<1>4. TaskOK(t)'
  <2>1. pc'[t] = "exited"
    BY <1>1, <1>2 DEF LocalsOK
  <2> QED BY <2>1 DEF TaskOK
<1>5. \A u \in Task : u # t => pc'[u] = pc[u] /\ page'[u] = page[u] /\ addr'[u] = addr[u]
  BY <1>1, <1>2 DEF LocalsOK
<1> QED BY <1>1, <1>3, <1>4, <1>5, QuietOK

LEMMA KernelForkOK ==
  ASSUME MemoryInv, Undisturbed', NEW t \in Task, NEW c \in Task, KernelFork(t, c)
  PROVE  MemoryInv'
<1>1. /\ CanRun(t) /\ pc[t] = "user" /\ pc[c] = "absent" /\ esr_el1' = "svc"
      /\ pc' = [pc EXCEPT ![c] = "user"] /\ UNCHANGED <<page, addr, far_el1>>
  BY DEF KernelFork
<1>2. t # c /\ mm[c] = NoMm
  BY KernelForkDoes
<1>3. PICK s : \E j \in 0 .. Len(mm[t].userpages) : ForksTo(Now, s, Now', t, c, j)
  BY KernelForkDoes
<1>4. PICK j \in 0 .. Len(mm[t].userpages) : ForksTo(Now, s, Now', t, c, j)
  BY <1>3
<1>5. /\ Sound(Now)' /\ \A u \in Task : Listed(Now, u)'
      /\ \A u \in Task : u # c => mm'[u] = mm[u]
      /\ \A u \in Task, w \in VPage : u # c => NodeOf(Now, u, w, 4)' = NodeOf(Now, u, w, 4)
  BY <1>2, <1>4, ForksMemory
<1>6. LocalsOK /\ \A u \in Task : TaskOK(u)
  BY InvFacts
<1>7. LocalsOK'
  BY <1>1, <1>6 DEF LocalsOK
<1>8. \A u \in Task : u # c => pc'[u] = pc[u] /\ page'[u] = page[u]
                                 /\ addr'[u] = addr[u] /\ addr[u] \in VPage
  BY <1>1, <1>6 DEF LocalsOK
<1>10. ASSUME NEW u \in Task PROVE TaskOK(u)'
  <2>1. CASE u # c
    BY <1>5, <1>6, <1>7, <1>8, <2>1, OthersOK
  <2>2. CASE u = c
    <3>1. pc'[c] = "user"
      BY <1>1, <1>6 DEF LocalsOK
    <3> QED BY <2>2, <3>1 DEF TaskOK
  <2> QED BY <2>1, <2>2
<1> QED BY <1>5, <1>7, <1>10, InvMade

LEMMA NextMemory ==
  ASSUME MemoryInv, Undisturbed', [Next]_vars
  PROVE  MemoryInv'
<1>1. CASE UNCHANGED vars
  <2>1. UNCHANGED <<ram, mm, pc, page, addr, far_el1, esr_el1>>
    BY <1>1 DEF vars
  <2>2. Sound(Now)' /\ (\A u \in Task : Listed(Now, u)') /\ Now' = Now
    BY <2>1, MemoryKept
  <2>3. LocalsOK /\ \A u \in Task : TaskOK(u)
    BY InvFacts
  <2>4. LocalsOK'
    BY <2>1, <2>3 DEF LocalsOK
  <2>5. \A u \in Task : TaskOK(u)'
    BY <2>1, <2>2, <2>3 DEF TaskOK
  <2> QED BY <2>2, <2>4, <2>5, InvMade
<1>2. CASE Next
  <2>1. PICK t \in Task :
          \/ LoadBegin(t) \/ LoadEnd(t)
          \/ \E v \in VPage : Store(t, v) \/ DataAbort(t, v)
          \/ SysCall(t) \/ MemAbortFind(t) \/ MemAbortMap(t)
          \/ \E c \in Task : KernelFork(t, c)
          \/ ExitTask(t)
    BY <1>2 DEF Next
  <2> QED BY <2>1, LoadBeginOK, LoadEndOK, StoreOK, DataAbortOK, SysCallOK, MemAbortFindOK,
             MemAbortMapOK, KernelForkOK, ExitTaskOK
<1> QED BY <1>1, <1>2

\* Wherever tasks are preempted, as long as a page found clear is still clear when it
\* is marked and FAR still names an unmapped address when it is read: the tables are
\* a forest of pages in use, every page in use has one purpose, the lists agree with
\* the tables, and a task inside el0_da or a load knows that its address is unmapped.
THEOREM MemoryInvariance == Spec /\ []Undisturbed => []MemoryInv
<1>1. Init => MemoryInv
  BY InitMemory
<1>2. MemoryInv /\ [Next]_vars /\ Undisturbed' => MemoryInv'
  BY NextMemory
<1> QED BY <1>1, <1>2, PTL DEF Spec

-----------------------------------------------------------------------------
(***************************************************************************)
(* What follows from the invariant.                                        *)
(***************************************************************************)
\* The bitmap, the tables, the mm of every task and its locals have their types.
THEOREM TypeCorrect == Spec /\ []Undisturbed => []TypeOK
<1>1. ASSUME MemoryInv PROVE TypeOK
  <2>1. ram \in RamT /\ mm \in [Task -> MmT] /\ LocalsOK
    BY <1>1, InvFacts
  <2>2. ram \in [used : [Page -> BOOLEAN], data : [Page -> Value],
                 table : [Page -> [Index -> Page \cup {NoPage}]]]
    BY <2>1 DEF RamT, TableT, PageOrNone
  <2>3. ASSUME NEW t \in Task
        PROVE  /\ mm[t].task_page \in Page \cup {NoPage}
               /\ mm[t].pagedirectory \in Page \cup {NoPage}
               /\ mm[t].kernelpages \in Seq(Page)
               /\ mm[t].userpages \in Seq([phys : Page, virt : VPage])
    BY <2>1 DEF MmT, PageOrNone, UserPageT
  <2> QED BY <2>1, <2>2, <2>3 DEF TypeOK, LocalsOK, PageOrNone
<1> QED BY <1>1, MemoryInvariance, PTL

\* Where the z-th page of kind k stands among the pages a task holds.
Ahead(m) == IF m.task_page = NoPage THEN 0 ELSE 1
Place(m, k, z) ==
  CASE k = "task_struct" -> 1
    [] k = "table" -> Ahead(m) + z
    [] k = "memory" -> Ahead(m) + Len(m.kernelpages) + z

Held(m) ==
  (IF m.task_page = NoPage THEN <<>> ELSE <<m.task_page>>)
    \o m.kernelpages \o [i \in DOMAIN m.userpages |-> m.userpages[i].phys]

LEMMA HeldSlot ==
  ASSUME NEW m \in MmT, NEW i \in DOMAIN Held(m)
  PROVE  \E k \in Kind : \E z \in SlotsOf(m, k) :
           Held(m)[i] = PageOf(m, k, z) /\ i = Place(m, k, z)
<1> DEFINE A == IF m.task_page = NoPage THEN <<>> ELSE <<m.task_page>>
           K == m.kernelpages
           U == [x \in DOMAIN m.userpages |-> m.userpages[x].phys]
           a == Len(A)
           b == Len(K)
           c == Len(U)
<1>1. /\ A \in Seq(Page) /\ K \in Seq(Page)
      /\ a = Ahead(m) /\ (m.task_page # NoPage => A[1] = m.task_page)
  BY DEF MmT, PageOrNone, Ahead
<1>2. U \in Seq(Page) /\ c = Len(m.userpages) /\ \A x \in 1 .. c : U[x] = m.userpages[x].phys
  <2>1. m.userpages \in Seq(UserPageT)
    BY DEF MmT
  <2>2. DOMAIN m.userpages = 1 .. Len(m.userpages) /\ Len(m.userpages) \in Nat
    BY <2>1
  <2>3. \A x \in 1 .. Len(m.userpages) : m.userpages[x].phys \in Page
    <3>1. \A x \in 1 .. Len(m.userpages) : m.userpages[x] \in UserPageT
      BY <2>1
    <3> QED BY <3>1 DEF UserPageT
  <2> QED BY <2>2, <2>3
<1> DEFINE B == A \o K
<1>3. Held(m) = B \o U
  BY DEF Held
<1> HIDE DEF A, K, U
<1>4. a \in Nat /\ b \in Nat /\ c \in Nat
  BY <1>1, <1>2
<1>5. /\ B \in Seq(Page) /\ Len(B) = a + b
      /\ \A x \in 1 .. a + b : B[x] = IF x <= a THEN A[x] ELSE K[x - a]
  BY <1>1, ConcatProperties
<1> HIDE DEF B
<1>6. /\ Len(Held(m)) = (a + b) + c /\ DOMAIN Held(m) = 1 .. (a + b) + c
      /\ \A x \in 1 .. (a + b) + c : Held(m)[x] = IF x <= a + b THEN B[x] ELSE U[x - (a + b)]
  <2>1. /\ B \o U \in Seq(Page) /\ Len(B \o U) = Len(B) + c
        /\ \A x \in 1 .. Len(B) + c : (B \o U)[x] = IF x <= Len(B) THEN B[x] ELSE U[x - Len(B)]
    <3>1. B \in Seq(Page) /\ U \in Seq(Page)
      BY <1>2, <1>5
    <3> QED BY <3>1, ConcatProperties
  <2>2. DOMAIN (B \o U) = 1 .. Len(B) + c
    BY <2>1
  <2>3. Len(B) = a + b
    BY <1>5
  <2> QED BY <1>3, <2>1, <2>2, <2>3
<1> HIDE DEF a, b, c
<1>7. i \in 1 .. (a + b) + c
  BY <1>6
<1>8. CASE i <= a
  <2>1. a = 1 /\ i = 1 /\ m.task_page # NoPage
    BY <1>1, <1>4, <1>7, <1>8 DEF Ahead
  <2>2. Held(m)[i] = m.task_page
    BY <1>1, <1>4, <1>5, <1>6, <1>7, <1>8, <2>1, SMTT(30)
  <2>3. 1 \in SlotsOf(m, "task_struct") /\ PageOf(m, "task_struct", 1) = m.task_page
        /\ Place(m, "task_struct", 1) = 1 /\ "task_struct" \in Kind
    BY <2>1 DEF SlotsOf, PageOf, Place, Kind
  <2> QED BY <2>1, <2>2, <2>3
<1>9. CASE a < i /\ i <= a + b
  <2>1. i - a \in 1 .. b /\ a + (i - a) = i
    BY <1>4, <1>7, <1>9
  <2>2. Held(m)[i] = K[i - a]
    <3>1. Held(m)[i] = B[i] /\ i \in 1 .. a + b /\ ~(i <= a)
      BY <1>4, <1>6, <1>7, <1>9
    <3> QED BY <1>5, <3>1
  <2>3. i - a \in SlotsOf(m, "table") /\ PageOf(m, "table", i - a) = K[i - a]
        /\ Place(m, "table", i - a) = a + (i - a) /\ "table" \in Kind
    BY <1>1, <2>1 DEF SlotsOf, PageOf, Place, Kind, K, b
  <2> QED BY <2>1, <2>2, <2>3
<1>10. CASE a + b < i
  <2>1. i - (a + b) \in 1 .. c /\ (a + b) + (i - (a + b)) = i
    BY <1>4, <1>7, <1>10
  <2>2. Held(m)[i] = U[i - (a + b)]
    BY <1>4, <1>6, <1>7, <1>10
  <2>3. i - (a + b) \in SlotsOf(m, "memory") /\ "memory" \in Kind
        /\ PageOf(m, "memory", i - (a + b)) = U[i - (a + b)]
        /\ Place(m, "memory", i - (a + b)) = (a + b) + (i - (a + b))
    BY <1>1, <1>2, <2>1 DEF SlotsOf, PageOf, Place, Kind, K, b
  <2> QED BY <2>1, <2>2, <2>3
<1> QED BY <1>4, <1>7, <1>8, <1>9, <1>10

\* A page that get_next_free_page() gave out is marked in page_bitmap and serves
\* one purpose of one task.
THEOREM PagesServeOnce == Spec /\ []Undisturbed => []PagesExclusive
<1>1. ASSUME MemoryInv PROVE PagesExclusive
  <2>1. mm \in [Task -> MmT] /\ Exclusive(ram.used, mm)
    BY <1>1, InvFacts DEF Sound
  <2>2. ASSUME NEW t \in Task, NEW u \in Task, NEW i \in DOMAIN Holds(t), NEW j \in DOMAIN Holds(u)
        PROVE  ram.used[Holds(t)[i]] /\ (Holds(t)[i] = Holds(u)[j] => t = u /\ i = j)
    <3>1. Holds(t) = Held(mm[t]) /\ Holds(u) = Held(mm[u])
      BY DEF Holds, Held
    <3>2. PICK k \in Kind : \E z \in SlotsOf(mm[t], k) :
            Holds(t)[i] = PageOf(mm[t], k, z) /\ i = Place(mm[t], k, z)
      BY <2>1, <2>2, <3>1, HeldSlot
    <3>3. PICK z \in SlotsOf(mm[t], k) : Holds(t)[i] = PageOf(mm[t], k, z) /\ i = Place(mm[t], k, z)
      BY <3>2
    <3>4. PICK l \in Kind : \E y \in SlotsOf(mm[u], l) :
            Holds(u)[j] = PageOf(mm[u], l, y) /\ j = Place(mm[u], l, y)
      BY <2>1, <2>2, <3>1, HeldSlot
    <3>5. PICK y \in SlotsOf(mm[u], l) : Holds(u)[j] = PageOf(mm[u], l, y) /\ j = Place(mm[u], l, y)
      BY <3>4
    <3>6. ram.used[Holds(t)[i]]
      BY <2>1, <3>3 DEF Exclusive
    <3>7. Holds(t)[i] = Holds(u)[j] => t = u /\ k = l /\ z = y
      <4>1. OneUse(mm)
        BY <2>1 DEF Exclusive
      <4> QED BY <3>3, <3>5, <4>1 DEF OneUse
    <3> QED BY <3>3, <3>5, <3>6, <3>7
  <2> QED BY <2>2 DEF PagesExclusive
<1> QED BY <1>1, MemoryInvariance, PTL


LEMMA ListMatches ==
  ASSUME MemoryInv, NEW t \in Task, NEW M, M = {v \in VPage : Translate(t, v) # NoPage}
  PROVE  /\ {<<u.virt, u.phys>> : u \in ToSet(mm[t].userpages)} = {<<v, Translate(t, v)>> : v \in M}
         /\ Len(mm[t].userpages) = Cardinality(M)
<1> DEFINE l == mm[t].userpages
           n == Len(l)
<1>1. /\ l \in Seq(UserPageT) /\ n \in Nat
      /\ \A i \in 1 .. n : l[i].phys \in Page /\ l[i].virt \in VPage
  BY InvFacts, ListFacts
<1>2. \A v \in VPage : Translate(t, v) = NodeOf(Now, t, v, 4)
  BY TranslateIs
<1>3. /\ \A i \in 1 .. n : Translate(t, l[i].virt) = l[i].phys
      /\ \A v \in VPage : Translate(t, v) # NoPage => \E i \in 1 .. n : l[i].virt = v
      /\ \A i, j \in 1 .. n : l[i].virt = l[j].virt => i = j
  <2>1. Listed(Now, t) /\ Now.mm = mm
    BY InvFacts
  <2> QED BY <1>1, <1>2, <2>1 DEF Listed
<1>4. DOMAIN l = 1 .. n
  BY <1>1
<1> HIDE DEF l, n
<1>5. \A i \in 1 .. n : l[i].virt \in M
  BY <1>1, <1>3, PageFacts
<1>6. {<<u.virt, u.phys>> : u \in ToSet(l)} = {<<v, Translate(t, v)>> : v \in M}
  <2>1. ToSet(l) = {l[i] : i \in 1 .. n}
    BY <1>4 DEF ToSet
  <2>2. ASSUME NEW u \in ToSet(l) PROVE <<u.virt, u.phys>> \in {<<v, Translate(t, v)>> : v \in M}
    <3>1. PICK i \in 1 .. n : u = l[i]
      BY <2>1
    <3> QED BY <1>3, <1>5, <3>1
  <2>3. ASSUME NEW v \in M PROVE <<v, Translate(t, v)>> \in {<<u.virt, u.phys>> : u \in ToSet(l)}
    <3>1. PICK i \in 1 .. n : l[i].virt = v
      BY <1>3
    <3>2. l[i] \in ToSet(l) /\ Translate(t, v) = l[i].phys
      BY <1>3, <2>1, <3>1
    <3> QED BY <3>1, <3>2
  <2> QED BY <2>2, <2>3
<1>7. n = Cardinality(M)
  <2> DEFINE f == [i \in 1 .. n |-> l[i].virt]
  <2>1. f \in [1 .. n -> M] /\ \A i \in 1 .. n : f[i] = l[i].virt
    BY <1>5
  <2> HIDE DEF f
  <2>2. \A i, j \in 1 .. n : f[i] = f[j] => i = j
    BY <1>3, <2>1
  <2>3. \A v \in M : \E i \in 1 .. n : f[i] = v
    BY <1>3, <2>1
  <2>4. f \in Bijection(1 .. n, M)
    BY <2>1, <2>2, <2>3, Fun_IsBij
  <2>5. ExistsBijection(1 .. n, M)
    BY <2>4 DEF ExistsBijection
  <2>6. IsFiniteSet(1 .. n) /\ Cardinality(1 .. n) = n
    BY <1>1, FS_Interval
  <2> QED BY <2>5, <2>6, FS_Bijection
<1> QED BY <1>6, <1>7 DEF l, n

\* The list userpages of a task, from which copy_virtual_memory() works, and its
\* tables, from which the hardware works, describe the same memory.
THEOREM ListsMatchTables == Spec /\ []Undisturbed => []ListMatchesTables
<1>1. ASSUME MemoryInv PROVE ListMatchesTables
  BY <1>1, ListMatches DEF ListMatchesTables
<1> QED BY <1>1, MemoryInvariance, PTL

LEMMA StepKeepsMappings ==
  ASSUME MemoryInv, [Next]_vars,
         NEW u \in Task, NEW w \in VPage, Translate(u, w) # NoPage
  PROVE  Translate(u, w)' = Translate(u, w)
<1>1. /\ Translate(u, w) = NodeOf(Now, u, w, 4)
      /\ Translate(u, w)' = NodeOf(Now, u, w, 4)'
  <2>1. Translate(u, w) = NodeOf(Now, u, w, 4)
    BY TranslateIs
  <2>2. Translate(u, w)' = NodeOf(Now, u, w, 4)'
    BY WalkIs DEF Translate, NodeOf, Now
  <2> QED BY <2>1, <2>2
<1>2. SUFFICES NodeOf(Now, u, w, 4)' = NodeOf(Now, u, w, 4)
  BY <1>1
<1>3. ASSUME UNCHANGED <<ram, mm>> PROVE NodeOf(Now, u, w, 4)' = NodeOf(Now, u, w, 4)
  BY <1>3, MemoryKept
<1>4. CASE UNCHANGED vars
  BY <1>3, <1>4 DEF vars
<1>5. ASSUME NEW t \in Task, NEW v \in VPage, NodeOf(Now, t, v, 4) = NoPage, NEW p \in Page, NEW x,
             Fills(Now, Now', t, v, p, x)
      PROVE  NodeOf(Now, u, w, 4)' = NodeOf(Now, u, w, 4)
  <2>1. NodeOf(Now, u, w, 4)' = IF u = t /\ w = v THEN p ELSE NodeOf(Now, u, w, 4)
    BY <1>5, FillsMemory
  <2> QED BY <1>1, <1>5, <2>1
<1>6. ASSUME NEW t \in Task, LoadEnd(t) PROVE NodeOf(Now, u, w, 4)' = NodeOf(Now, u, w, 4)
  <2>1. PICK x \in Value : Fills(Now, Now', t, CodePage, page[t], x)
    BY <1>6, LoadEndDoes
  <2>2. page[t] \in Page /\ mm[t].pagedirectory = NoPage
    BY <1>6, InvFacts DEF LoadEnd, TaskOK, FreePages
  <2>3. NodeOf(Now, t, CodePage, 4) = NoPage
    <3>1. 4 \in 0 .. 4
      OBVIOUS
    <3> QED BY <2>2, <3>1, NowIs, NoRoot DEF NodeOf
  <2> QED BY <1>5, <2>1, <2>2, <2>3, PageFacts
<1>7. ASSUME NEW t \in Task, MemAbortMap(t) PROVE NodeOf(Now, u, w, 4)' = NodeOf(Now, u, w, 4)
  <2>1. Fills(Now, Now', t, addr[t], page[t], 0)
    BY <1>7, MemAbortMapDoes
  <2>2. page[t] \in Page /\ NodeOf(Now, t, addr[t], 4) = NoPage /\ addr[t] \in VPage
    BY <1>7, InvFacts DEF MemAbortMap, TaskOK, FreePages, LocalsOK
  <2> QED BY <1>5, <2>1, <2>2
<1>8. ASSUME NEW t \in Task, NEW v \in VPage, Store(t, v)
      PROVE  NodeOf(Now, u, w, 4)' = NodeOf(Now, u, w, 4)
  BY <1>8, StoreDoes, WritesMemory
<1>9. ASSUME NEW t \in Task, NEW c \in Task, KernelFork(t, c)
      PROVE  NodeOf(Now, u, w, 4)' = NodeOf(Now, u, w, 4)
  <2>1. t # c /\ mm[c] = NoMm
    BY <1>9, KernelForkDoes
  <2>2. PICK s : \E j \in 0 .. Len(mm[t].userpages) : ForksTo(Now, s, Now', t, c, j)
    BY <1>9, KernelForkDoes
  <2>3. PICK j \in 0 .. Len(mm[t].userpages) : ForksTo(Now, s, Now', t, c, j)
    BY <2>2
  <2>4. u # c
    <3>1. mm[c].pagedirectory = NoPage
      BY <2>1 DEF NoMm
    <3>2. 4 \in 0 .. 4
      OBVIOUS
    <3>3. NodeOf(Now, c, w, 4) = NoPage
      BY <3>1, <3>2, NowIs, NoRoot DEF NodeOf
    <3> QED BY <1>1, <3>3
  <2> QED BY <2>1, <2>3, <2>4, ForksMemory
<1>10. CASE Next
  <2>1. PICK t \in Task :
          \/ LoadBegin(t) \/ LoadEnd(t)
          \/ \E v \in VPage : Store(t, v) \/ DataAbort(t, v)
          \/ SysCall(t) \/ MemAbortFind(t) \/ MemAbortMap(t)
          \/ \E c \in Task : KernelFork(t, c)
          \/ ExitTask(t)
    BY <1>10 DEF Next
  <2>2. CASE LoadBegin(t) \/ SysCall(t) \/ MemAbortFind(t) \/ ExitTask(t)
             \/ \E v \in VPage : DataAbort(t, v)
    <3>1. UNCHANGED <<ram, mm>>
      BY <2>2 DEF LoadBegin, SysCall, MemAbortFind, ExitTask, DataAbort
    <3> QED BY <1>3, <3>1
  <2> QED BY <1>6, <1>7, <1>8, <1>9, <2>1, <2>2
<1> QED BY <1>4, <1>10

\* A page once mapped into a process stays where it is.
THEOREM MappingsAreStable == Spec /\ []Undisturbed => MappingsStay
<1>1. MemoryInv /\ [Next]_vars
        => [\A t \in Task, v \in VPage :
              Translate(t, v) # NoPage => Translate(t, v)' = Translate(t, v)]_vars
  BY StepKeepsMappings
<1> QED BY <1>1, MemoryInvariance, PTL DEF Spec, MappingsStay


-----------------------------------------------------------------------------
(***************************************************************************)
(* The refinement: the memories the processes see.                         *)
(***************************************************************************)
Started == {t \in Task : mm[t].pagedirectory # NoPage}
Memory  == [t \in Task |-> [v \in VPage |->
              IF Translate(t, v) = NoPage THEN -1 ELSE ram.data[Translate(t, v)]]]

Cell(s, t, v) == IF NodeOf(s, t, v, 4) = NoPage THEN -1 ELSE s.ram.data[NodeOf(s, t, v, 4)]

Cells(s) == [t \in Task |-> [v \in VPage |-> Cell(s, t, v)]]

LEMMA MemoryIs == Memory = Cells(Now)
BY TranslateIs, NowIs DEF Memory, Cells, Cell

LEMMA MemoryIsNext == Memory' = Cells(Now')
<1>1. \A t, v : Translate(t, v)' = NodeOf(Now', t, v, 4)
  BY WalkIs DEF Translate, NodeOf, Now
<1>2. Now'.ram = ram'
  BY DEF Now
<1> QED BY <1>1, <1>2 DEF Memory, Cells, Cell

\* One cell of one memory changed, and one memory replaced.
OneCellIs(a, b, t, v, x) ==
  \A u \in Task, w \in VPage : Cell(b, u, w) = IF u = t /\ w = v THEN x ELSE Cell(a, u, w)
OneMemoryIs(a, b, t, f) ==
  /\ f = [w \in VPage |-> Cell(b, t, w)]
  /\ \A u \in Task, w \in VPage : u # t => Cell(b, u, w) = Cell(a, u, w)

CellSet(f, g, t, v, x) == g = [f EXCEPT ![t][v] = x]
MemorySet(f, g, t, h)  == g = [f EXCEPT ![t] = h]
NoCells(a, t)          == \A w \in VPage : Cell(a, t, w) = -1
OnlyCell(v, x)         == [[w \in VPage |-> -1] EXCEPT ![v] = x]

LEMMA OneCell ==
  ASSUME NEW a, NEW b, NEW t \in Task, NEW v \in VPage, NEW x, OneCellIs(a, b, t, v, x)
  PROVE  CellSet(Cells(a), Cells(b), t, v, x)
BY DEF OneCellIs, Cells, CellSet

LEMMA ClearedMemory ==
  ASSUME NEW a, NEW b, NEW t \in Task, NEW v \in VPage, NEW x, OneCellIs(a, b, t, v, x),
         NoCells(a, t)
  PROVE  OneMemoryIs(a, b, t, OnlyCell(v, x))
BY DEF OneCellIs, OneMemoryIs, NoCells, OnlyCell

LEMMA OneMemory ==
  ASSUME NEW a, NEW b, NEW t \in Task, NEW f, OneMemoryIs(a, b, t, f)
  PROVE  MemorySet(Cells(a), Cells(b), t, f)
BY DEF OneMemoryIs, Cells, MemorySet

\* A mapped page is in use, and no other address leads to it.
LEMMA MappedPage ==
  ASSUME NEW s, Sound(s), NEW t \in Task, NEW v \in VPage, NodeOf(s, t, v, 4) # NoPage
  PROVE  /\ NodeOf(s, t, v, 4) \in Page /\ s.ram.used[NodeOf(s, t, v, 4)]
         /\ Cell(s, t, v) = s.ram.data[NodeOf(s, t, v, 4)] /\ Cell(s, t, v) \in Value
         /\ \A u \in Task, w \in VPage :
              NodeOf(s, u, w, 4) = NodeOf(s, t, v, 4) => u = t /\ w = v
<1>1. 4 \in 0 .. 4
  OBVIOUS
<1>2. NodeOf(s, t, v, 4) \in Page
  BY <1>1, StateFacts DEF Sound, PageOrNone
<1>3. s.ram.used[NodeOf(s, t, v, 4)]
  BY <1>1 DEF Sound, NodesUsed
<1>4. Cell(s, t, v) = s.ram.data[NodeOf(s, t, v, 4)] /\ Cell(s, t, v) \in Value
  <2>1. s.ram.data \in [Page -> Value]
    BY DEF Sound, StateT, RamT
  <2> QED BY <1>2, <2>1 DEF Cell
<1>5. ASSUME NEW u \in Task, NEW w \in VPage, NodeOf(s, u, w, 4) = NodeOf(s, t, v, 4)
      PROVE  u = t /\ w = v
  <2>1. \A a \in Task : DirOf(s.mm)[a] = s.mm[a].pagedirectory
    BY StateFacts DEF Sound
  <2>2. t = u /\ Agree(v, w, 4)
    BY <1>1, <1>5, <2>1 DEF Sound, Forest, NodeOf
  <2> QED BY <2>2, AgreeAll
<1> QED BY <1>2, <1>3, <1>4, <1>5

LEMMA FillsCells ==
  ASSUME NEW s, Sound(s), NEW t \in Task, NEW v \in VPage, NEW p \in Page, NEW x, NEW m,
         Fills(s, m, t, v, p, x)
  PROVE  OneCellIs(s, m, t, v, x)
<1> USE DEF OneCellIs
<1> TAKE u \in Task, w \in VPage
<1>1. /\ NodeOf(m, u, w, 4) = IF u = t /\ w = v THEN p ELSE NodeOf(s, u, w, 4)
      /\ m.ram.data[p] = x /\ KeepsPages(s, m) /\ p # NoPage
  BY PageFacts DEF Fills, Maps
<1>2. CASE u = t /\ w = v
  BY <1>1, <1>2 DEF Cell
<1>3. CASE ~(u = t /\ w = v) /\ NodeOf(s, u, w, 4) = NoPage
  BY <1>1, <1>3 DEF Cell
<1>4. CASE ~(u = t /\ w = v) /\ NodeOf(s, u, w, 4) # NoPage
  <2>1. NodeOf(s, u, w, 4) \in Page /\ s.ram.used[NodeOf(s, u, w, 4)]
    BY <1>4, MappedPage
  <2>2. m.ram.data[NodeOf(s, u, w, 4)] = s.ram.data[NodeOf(s, u, w, 4)]
    BY <1>1, <2>1 DEF KeepsPages
  <2> QED BY <1>1, <1>4, <2>2 DEF Cell
<1> QED BY <1>2, <1>3, <1>4

LEMMA WritesCells ==
  ASSUME NEW s, Sound(s), NEW t \in Task, NEW v \in VPage, NodeOf(s, t, v, 4) # NoPage, NEW x, NEW m,
         Writes(s, m, NodeOf(s, t, v, 4), x)
  PROVE  OneCellIs(s, m, t, v, x)
<1> USE DEF OneCellIs
<1> DEFINE p == NodeOf(s, t, v, 4)
<1>1. /\ p \in Page /\ \A u \in Task, w \in VPage : NodeOf(s, u, w, 4) = p => u = t /\ w = v
  BY MappedPage
<1>2. /\ m.ram.data[p] = x /\ \A q \in Page : q # p => m.ram.data[q] = s.ram.data[q]
      /\ \A u \in Task, w \in VPage, k \in 0 .. 4 : NodeOf(m, u, w, k) = NodeOf(s, u, w, k)
  BY <1>1, Written
<1>3. \A u \in Task, w \in VPage : NodeOf(m, u, w, 4) = NodeOf(s, u, w, 4)
  <2>1. 4 \in 0 .. 4
    OBVIOUS
  <2> QED BY <1>2, <2>1
<1> TAKE u \in Task, w \in VPage
<1>4. CASE u = t /\ w = v
  BY <1>2, <1>3, <1>4 DEF Cell
<1>5. CASE ~(u = t /\ w = v)
  <2>1. NodeOf(s, u, w, 4) # p /\ (NodeOf(s, u, w, 4) = NoPage \/ NodeOf(s, u, w, 4) \in Page)
    BY <1>1, <1>5, MappedPage
  <2> HIDE DEF p
  <2> QED BY <1>2, <1>3, <1>5, <2>1 DEF Cell
<1> QED BY <1>4, <1>5

LEMMA ForksCells ==
  ASSUME NEW now, Sound(now), NEW t \in Task, NEW c \in Task, t # c, Listed(now, t), NEW s, NEW m,
         ForksTo(now, s, m, t, c, Len(now.mm[t].userpages))
  PROVE  OneMemoryIs(now, m, c, Cells(now)[t])
<1> DEFINE l == now.mm[t].userpages
           g == m.mm[c].userpages
           n == Len(l)
<1>1. /\ Sound(s) /\ KeepsPages(now, s) /\ s.mm[t] = now.mm[t]
      /\ \A u \in Task, w \in VPage : NodeOf(s, u, w, 4) = NodeOf(now, u, w, 4)
      /\ Copied(s, m, c, t, n, n)
  BY SMTT(30) DEF ForksTo, Forked
<1>2. /\ Sound(m) /\ KeepsPages(s, m) /\ Listed(m, c) /\ Len(g) = n
      /\ \A u \in Task, w \in VPage : u # c => NodeOf(m, u, w, 4) = NodeOf(s, u, w, 4)
      /\ \A k \in 1 .. n : g[k].virt = l[k].virt /\ m.ram.data[g[k].phys] = s.ram.data[l[k].phys]
  BY <1>1, SMTT(30) DEF Copied
<1>3. \A q \in Page : now.ram.used[q] =>
        m.ram.data[q] = now.ram.data[q] /\ s.ram.data[q] = now.ram.data[q]
  BY <1>1, <1>2 DEF KeepsPages
<1>4. ASSUME NEW u \in Task, NEW w \in VPage, u # c PROVE Cell(m, u, w) = Cell(now, u, w)
  <2>1. NodeOf(m, u, w, 4) = NodeOf(now, u, w, 4)
    BY <1>1, <1>2, <1>4
  <2>2. CASE NodeOf(now, u, w, 4) = NoPage
    BY <2>1, <2>2 DEF Cell
  <2>3. CASE NodeOf(now, u, w, 4) # NoPage
    <3>1. NodeOf(now, u, w, 4) \in Page /\ now.ram.used[NodeOf(now, u, w, 4)]
      BY <2>3, MappedPage
    <3> QED BY <1>3, <2>1, <3>1 DEF Cell
  <2> QED BY <2>2, <2>3, SMTT(30)
<1>5. /\ \A i \in 1 .. n : NodeOf(now, t, l[i].virt, 4) = l[i].phys
      /\ \A w \in VPage : NodeOf(now, t, w, 4) # NoPage => \E i \in 1 .. n : l[i].virt = w
  BY DEF Listed
<1>6. /\ \A i \in 1 .. n : NodeOf(m, c, g[i].virt, 4) = g[i].phys
      /\ \A w \in VPage : NodeOf(m, c, w, 4) # NoPage => \E i \in 1 .. n : g[i].virt = w
  BY <1>2 DEF Listed
<1>7. \A i \in 1 .. n : l[i].phys \in Page /\ l[i].virt \in VPage /\ g[i].phys \in Page
  <2>1. now \in StateT /\ m \in StateT
    BY <1>2 DEF Sound
  <2> QED BY <1>2, <2>1, ListFacts
<1> HIDE DEF l, g, n
<1>8. ASSUME NEW w \in VPage PROVE Cell(m, c, w) = Cell(now, t, w)
  <2>1. CASE \E i \in 1 .. n : l[i].virt = w
    <3>1. PICK i \in 1 .. n : l[i].virt = w
      BY <2>1
    <3>2. /\ NodeOf(now, t, w, 4) = l[i].phys /\ NodeOf(m, c, w, 4) = g[i].phys
          /\ l[i].phys \in Page /\ g[i].phys \in Page
          /\ m.ram.data[g[i].phys] = s.ram.data[l[i].phys]
      BY <1>2, <1>5, <1>6, <1>7, <3>1
    <3>3. l[i].phys # NoPage /\ g[i].phys # NoPage
      BY <3>2, PageFacts
    <3>4. now.ram.used[l[i].phys]
      BY <3>2, <3>3, MappedPage
    <3> QED BY <1>3, <3>2, <3>3, <3>4 DEF Cell
  <2>2. CASE ~\E i \in 1 .. n : l[i].virt = w
    <3>1. NodeOf(now, t, w, 4) = NoPage
      BY <1>5, <2>2
    <3>2. NodeOf(m, c, w, 4) = NoPage
      BY <1>2, <1>6, <2>2
    <3> QED BY <3>1, <3>2 DEF Cell
  <2> QED BY <2>1, <2>2
<1>9. Cells(now)[t] = [w \in VPage |-> Cell(m, c, w)]
  BY <1>8 DEF Cells
<1> QED BY <1>4, <1>9 DEF OneMemoryIs


LEMMA UserInit == Init => UserHasMemory
BY DEF Init, UserHasMemory


\* What mapping a page and copying a memory do for the process concerned.
LEMMA FillsUser ==
  ASSUME MemoryInv, NEW t \in Task, NEW v \in VPage, NEW p \in Page, NEW x,
         Fills(Now, Now', t, v, p, x)
  PROVE  /\ mm'[t].pagedirectory # NoPage /\ Len(mm'[t].userpages) > 0
         /\ \A u \in Task : u # t => mm'[u] = mm[u]
<1>1. Now'.mm = mm' /\ Now.mm = mm
  BY DEF Now
<1>2. /\ Now'.mm[t].pagedirectory # NoPage /\ KeepsMm(Now, Now', t)
      /\ Now'.mm[t].userpages = Append(Now.mm[t].userpages, [phys |-> p, virt |-> v])
  BY DEF Fills, Maps
<1>3. mm[t].userpages \in Seq(UserPageT)
  BY InvFacts DEF MmT
<1>4. Len(mm'[t].userpages) = Len(mm[t].userpages) + 1 /\ Len(mm[t].userpages) \in Nat
  BY <1>1, <1>2, <1>3, Appended
<1> QED BY <1>1, <1>2, <1>4 DEF KeepsMm

LEMMA ForksUser ==
  ASSUME MemoryInv, NEW t \in Task, NEW c \in Task, t # c, Len(mm[t].userpages) > 0,
         FreePages(ram') # {}, NEW s, NEW j \in 0 .. Len(mm[t].userpages),
         ForksTo(Now, s, Now', t, c, j)
  PROVE  /\ mm'[c].pagedirectory # NoPage /\ Len(mm'[c].userpages) > 0
         /\ j = Len(mm[t].userpages)
<1>1. Now'.mm = mm' /\ Now.mm = mm /\ Now'.ram = ram'
  BY DEF Now
<1>2. s.mm[t] = mm[t]
  BY <1>1 DEF ForksTo, Forked
<1>3. /\ Len(Now'.mm[c].userpages) = j
      /\ j < Len(mm[t].userpages) => FreePages(Now'.ram) = {}
      /\ j > 0 => Now'.mm[c].pagedirectory # NoPage
  BY <1>2 DEF ForksTo, Copied
<1>4. Len(mm[t].userpages) \in Nat
  <2>1. mm[t].userpages \in Seq(UserPageT)
    BY InvFacts DEF MmT
  <2> QED BY <2>1
<1>5. j = Len(mm[t].userpages)
  BY <1>1, <1>3, <1>4
<1> QED BY <1>1, <1>3, <1>5

\* What the two actions that map a page need to know.
LEMMA LoadEndFacts ==
  ASSUME MemoryInv, NEW t \in Task, LoadEnd(t)
  PROVE  /\ page[t] \in Page /\ mm[t].pagedirectory = NoPage /\ t <= NThreads
         /\ \A w \in VPage : NodeOf(Now, t, w, 4) = NoPage
         /\ pc' = [pc EXCEPT ![t] = "user"]
<1>1. page[t] \in Page /\ mm[t].pagedirectory = NoPage /\ t <= NThreads
  BY InvFacts DEF LoadEnd, TaskOK, FreePages
<1>2. 4 \in 0 .. 4
  OBVIOUS
<1> QED BY <1>1, <1>2, NowIs, NoRoot DEF NodeOf, LoadEnd

LEMMA MemAbortMapFacts ==
  ASSUME MemoryInv, NEW t \in Task, MemAbortMap(t)
  PROVE  /\ page[t] \in Page /\ addr[t] \in VPage /\ NodeOf(Now, t, addr[t], 4) = NoPage
         /\ pc' = [pc EXCEPT ![t] = "user"] /\ pc[t] = "mem_abort"
BY InvFacts DEF MemAbortMap, TaskOK, FreePages, LocalsOK

LEMMA UserNext ==
  ASSUME MemoryInv, UserHasMemory, [Next]_vars, FreePages(ram') # {}
  PROVE  UserHasMemory'
<1>1. SUFFICES ASSUME NEW u \in Task, pc'[u] \in {"user", "el0_da", "mem_abort"}
               PROVE  mm'[u].pagedirectory # NoPage /\ Len(mm'[u].userpages) > 0
  BY DEF UserHasMemory
<1>2. LocalsOK
  BY InvFacts
<1>3. ASSUME mm' = mm, \/ pc' = pc
                       \/ pc[u] \in {"user", "el0_da", "mem_abort"}
                       \/ pc'[u] = pc[u]
      PROVE  mm'[u].pagedirectory # NoPage /\ Len(mm'[u].userpages) > 0
  BY <1>1, <1>3 DEF UserHasMemory
<1>4. CASE UNCHANGED vars
  BY <1>3, <1>4 DEF vars
<1>5. ASSUME NEW t \in Task, NEW v \in VPage, page[t] \in Page, NEW x,
             Fills(Now, Now', t, v, page[t], x), pc' = [pc EXCEPT ![t] = "user"]
      PROVE  mm'[u].pagedirectory # NoPage /\ Len(mm'[u].userpages) > 0
  <2>1. /\ mm'[t].pagedirectory # NoPage /\ Len(mm'[t].userpages) > 0
        /\ u # t => mm'[u] = mm[u] /\ pc'[u] = pc[u]
    BY <1>2, <1>5, FillsUser DEF LocalsOK
  <2> QED BY <1>1, <2>1 DEF UserHasMemory
<1>6. ASSUME NEW t \in Task, NEW c \in Task, KernelFork(t, c)
      PROVE  mm'[u].pagedirectory # NoPage /\ Len(mm'[u].userpages) > 0
  <2>1. t # c /\ mm[c] = NoMm
    BY <1>6, KernelForkDoes
  <2>2. PICK s : \E j \in 0 .. Len(mm[t].userpages) : ForksTo(Now, s, Now', t, c, j)
    BY <1>6, KernelForkDoes
  <2>3. PICK j \in 0 .. Len(mm[t].userpages) : ForksTo(Now, s, Now', t, c, j)
    BY <2>2
  <2>4. Len(mm[t].userpages) > 0
    BY <1>6 DEF KernelFork, UserHasMemory
  <2>5. mm'[c].pagedirectory # NoPage /\ Len(mm'[c].userpages) > 0
    BY <2>1, <2>3, <2>4, ForksUser
  <2>6. u # c => mm'[u] = mm[u] /\ pc'[u] = pc[u]
    BY <1>2, <1>6, <2>1, <2>3, ForksMemory DEF KernelFork, LocalsOK
  <2> QED BY <1>1, <2>5, <2>6 DEF UserHasMemory
<1>7. CASE Next
  <2>1. PICK t \in Task :
          \/ LoadBegin(t) \/ LoadEnd(t)
          \/ \E v \in VPage : Store(t, v) \/ DataAbort(t, v)
          \/ SysCall(t) \/ MemAbortFind(t) \/ MemAbortMap(t)
          \/ \E c \in Task : KernelFork(t, c)
          \/ ExitTask(t)
    BY <1>7 DEF Next
  <2>2. CASE LoadBegin(t)
    <3>1. mm' = mm /\ (u # t => pc'[u] = pc[u]) /\ pc'[t] \in {"hang", "load"}
      BY <1>2, <2>2 DEF LoadBegin, FindPage, LocalsOK
    <3> QED BY <1>1, <1>3, <3>1
  <2>3. CASE \/ SysCall(t) \/ MemAbortFind(t) \/ ExitTask(t)
             \/ \E v \in VPage : Store(t, v) \/ DataAbort(t, v)
    <3>1. mm' = mm /\ (u # t => pc'[u] = pc[u]) /\ pc[t] \in {"user", "el0_da"}
      BY <1>2, <2>3 DEF SysCall, MemAbortFind, FindPage, ExitTask, Store, DataAbort, LocalsOK
    <3> QED BY <1>3, <3>1
  <2>4. CASE LoadEnd(t)
    BY <1>5, <2>4, LoadEndDoes, LoadEndFacts, PageFacts
  <2>5. CASE MemAbortMap(t)
    BY <1>5, <2>5, MemAbortMapDoes, MemAbortMapFacts
  <2> QED BY <1>6, <2>1, <2>2, <2>3, <2>4, <2>5
<1> QED BY <1>4, <1>7

LEMMA RefInit == Init => Private!Init
<1> SUFFICES ASSUME Init PROVE Private!Init
  OBVIOUS
<1>1. MemoryInv
  BY InitMemory
<1>2. \A t \in Task : mm[t].pagedirectory = NoPage
  BY DEF Init, NoMm
<1>3. Started = {}
  BY <1>2 DEF Started
<1>4. \A t \in Task, v \in VPage : Translate(t, v) = NoPage
  <2>1. 4 \in 0 .. 4
    OBVIOUS
  <2> QED BY <1>2, <2>1, TranslateIs, NowIs, NoRoot DEF NodeOf
<1>5. Memory = [t \in Task |-> [v \in VPage |-> -1]]
  BY <1>4 DEF Memory
<1> QED BY <1>3, <1>5 DEF Private!Init, Private!NoMemory, Started, Memory


LEMMA RefQuiet ==
  ASSUME UNCHANGED <<ram, mm>>
  PROVE  UNCHANGED Private!vars
<1>1. Started' = Started
  BY DEF Started
<1>2. Memory' = Memory
  BY DEF Memory, Translate
<1> QED BY <1>1, <1>2 DEF Private!vars, Started, Memory

LEMMA RefLoad ==
  ASSUME MemoryInv, NEW t \in Task, LoadEnd(t)
  PROVE  Private!Load(t)
<1>1. PICK x \in Value : Fills(Now, Now', t, CodePage, page[t], x)
  BY LoadEndDoes
<1>2. /\ page[t] \in Page /\ mm[t].pagedirectory = NoPage /\ t <= NThreads
      /\ \A w \in VPage : NodeOf(Now, t, w, 4) = NoPage
  BY LoadEndFacts
<1>3. CodePage \in VPage /\ Sound(Now)
  BY PageFacts, InvFacts
<1>4. mm'[t].pagedirectory # NoPage /\ \A u \in Task : u # t => mm'[u] = mm[u]
  BY <1>1, <1>2, <1>3, FillsUser
<1>5. t \in 1 .. NThreads
  BY <1>2, PagingAssumption DEF PagingAssumption, Task
<1>6. t \notin Started /\ Started' = Started \cup {t}
  BY <1>2, <1>4 DEF Started
<1>7. Memory' = [Memory EXCEPT ![t] = [[v \in VPage |-> -1] EXCEPT ![CodePage] = x]]
  <2>1. OneCellIs(Now, Now', t, CodePage, x)
    BY <1>1, <1>2, <1>3, FillsCells
  <2>2. NoCells(Now, t)
    BY <1>2 DEF NoCells, Cell
  <2>3. OneMemoryIs(Now, Now', t, OnlyCell(CodePage, x))
    BY <1>3, <2>1, <2>2, ClearedMemory
  <2>4. MemorySet(Cells(Now), Cells(Now'), t, OnlyCell(CodePage, x))
    BY <2>3, OneMemory
  <2>5. MemorySet(Memory, Memory', t, OnlyCell(CodePage, x))
    BY <2>4, MemoryIs, MemoryIsNext
  <2> QED BY <2>5 DEF MemorySet, OnlyCell
<1> QED BY <1>5, <1>6, <1>7 DEF Private!Load, Private!NoMemory, Started, Memory

LEMMA RefStore ==
  ASSUME MemoryInv, UserHasMemory, NEW t \in Task, NEW v \in VPage, Store(t, v)
  PROVE  Private!Store(t, v)
<1>1. PICK x \in Value : Writes(Now, Now', NodeOf(Now, t, v, 4), x)
  BY StoreDoes
<1>2. NodeOf(Now, t, v, 4) \in Page /\ NodeOf(Now, t, v, 4) # NoPage
  BY StoreDoes, PageFacts
<1>3. pc[t] = "user" /\ mm' = mm
  BY DEF Store
<1>4. t \in Started /\ Started' = Started
  BY <1>3 DEF Started, UserHasMemory
<1>5. Sound(Now)
  BY InvFacts
<1>6. Memory[t][v] # -1
  <2>1. Cell(Now, t, v) \in Value
    BY <1>2, <1>5, MappedPage
  <2>2. Cell(Now, t, v) # -1
    BY <2>1, PagingAssumption DEF PagingAssumption
  <2> QED BY <2>2, MemoryIs DEF Cells
<1>7. Memory' = [Memory EXCEPT ![t][v] = x]
  <2>1. OneCellIs(Now, Now', t, v, x)
    BY <1>1, <1>2, <1>5, WritesCells
  <2>2. CellSet(Cells(Now), Cells(Now'), t, v, x)
    BY <2>1, OneCell
  <2>3. CellSet(Memory, Memory', t, v, x)
    BY <2>2, MemoryIs, MemoryIsNext
  <2> QED BY <2>3 DEF CellSet
<1> QED BY <1>4, <1>6, <1>7 DEF Private!Store, Started, Memory

LEMMA RefGrow ==
  ASSUME MemoryInv, UserHasMemory, NEW t \in Task, MemAbortMap(t)
  PROVE  Private!Grow(t, addr[t])
<1> DEFINE v == addr[t]
<1>1. Fills(Now, Now', t, v, page[t], 0)
  BY MemAbortMapDoes
<1>2. page[t] \in Page /\ v \in VPage /\ NodeOf(Now, t, v, 4) = NoPage /\ pc[t] = "mem_abort"
  BY MemAbortMapFacts
<1>3. Sound(Now)
  BY InvFacts
<1>4. mm'[t].pagedirectory # NoPage /\ \A u \in Task : u # t => mm'[u] = mm[u]
  BY <1>1, <1>2, FillsUser
<1>5. t \in Started /\ Started' = Started
  BY <1>2, <1>4 DEF Started, UserHasMemory
<1>6. Memory[t][v] = -1
  BY <1>2, MemoryIs DEF Cell, Cells
<1>7. Memory' = [Memory EXCEPT ![t][v] = 0]
  <2>1. OneCellIs(Now, Now', t, v, 0)
    BY <1>1, <1>2, <1>3, FillsCells
  <2> HIDE DEF v
  <2>2. CellSet(Cells(Now), Cells(Now'), t, v, 0)
    BY <1>2, <2>1, OneCell
  <2>3. CellSet(Memory, Memory', t, v, 0)
    BY <2>2, MemoryIs, MemoryIsNext
  <2> QED BY <2>3 DEF CellSet
<1> QED BY <1>5, <1>6, <1>7 DEF Private!Grow, Started, Memory

LEMMA RefFork ==
  ASSUME MemoryInv, UserHasMemory, FreePages(ram') # {},
         NEW t \in Task, NEW c \in Task, KernelFork(t, c)
  PROVE  Private!Fork(t, c)
<1>1. t # c /\ mm[c] = NoMm
  BY KernelForkDoes
<1>2. PICK s : \E j \in 0 .. Len(mm[t].userpages) : ForksTo(Now, s, Now', t, c, j)
  BY KernelForkDoes
<1>3. PICK j \in 0 .. Len(mm[t].userpages) : ForksTo(Now, s, Now', t, c, j)
  BY <1>2
<1>4. pc[t] = "user" /\ pc[c] = "absent"
  BY DEF KernelFork
<1>5. mm[t].pagedirectory # NoPage /\ Len(mm[t].userpages) > 0
  BY <1>4 DEF UserHasMemory
<1>6. mm'[c].pagedirectory # NoPage /\ j = Len(mm[t].userpages)
  BY <1>1, <1>3, <1>5, ForksUser
<1>7. \A u \in Task : u # c => mm'[u] = mm[u]
  BY <1>1, <1>3, ForksMemory
<1>8. t \in Started /\ c \notin Started /\ Started' = Started \cup {c}
  BY <1>1, <1>5, <1>6, <1>7 DEF Started, NoMm
<1>9. c \notin 1 .. NThreads
  <2>1. ~(c <= NThreads)
    BY <1>4, InvFacts DEF TaskOK
  <2> QED BY <2>1
<1>10. Memory' = [Memory EXCEPT ![c] = Memory[t]]
  <2>1. Sound(Now) /\ Listed(Now, t) /\ Now.mm = mm
    BY InvFacts
  <2>2. ForksTo(Now, s, Now', t, c, Len(Now.mm[t].userpages))
    BY <1>3, <1>6, <2>1
  <2>3. OneMemoryIs(Now, Now', c, Cells(Now)[t])
    BY <1>1, <2>1, <2>2, ForksCells
  <2>4. MemorySet(Cells(Now), Cells(Now'), c, Cells(Now)[t])
    BY <2>3, OneMemory
  <2>5. MemorySet(Memory, Memory', c, Memory[t])
    BY <2>4, MemoryIs, MemoryIsNext
  <2> QED BY <2>5 DEF MemorySet
<1> QED BY <1>8, <1>9, <1>10 DEF Private!Fork, Started, Memory

LEMMA RefStep ==
  ASSUME MemoryInv, UserHasMemory, FreePages(ram') # {}, [Next]_vars
  PROVE  [Private!Next]_(Private!vars)
<1>1. CASE UNCHANGED vars
  BY <1>1, RefQuiet DEF vars
<1>2. CASE Next
  <2>1. PICK t \in Task :
          \/ LoadBegin(t) \/ LoadEnd(t)
          \/ \E v \in VPage : Store(t, v) \/ DataAbort(t, v)
          \/ SysCall(t) \/ MemAbortFind(t) \/ MemAbortMap(t)
          \/ \E c \in Task : KernelFork(t, c)
          \/ ExitTask(t)
    BY <1>2 DEF Next
  <2>2. CASE LoadBegin(t) \/ SysCall(t) \/ MemAbortFind(t) \/ ExitTask(t)
             \/ \E v \in VPage : DataAbort(t, v)
    <3>1. UNCHANGED <<ram, mm>>
      BY <2>2 DEF LoadBegin, SysCall, MemAbortFind, ExitTask, DataAbort
    <3> QED BY <3>1, RefQuiet
  <2>3. CASE LoadEnd(t)
    BY <2>3, RefLoad DEF Private!Next
  <2>4. CASE \E v \in VPage : Store(t, v)
    BY <2>4, RefStore DEF Private!Next
  <2>5. CASE MemAbortMap(t)
    <3>1. addr[t] \in VPage
      BY <2>5, MemAbortMapFacts
    <3> QED BY <2>5, <3>1, RefGrow DEF Private!Next
  <2>6. CASE \E c \in Task : KernelFork(t, c)
    BY <2>6, RefFork DEF Private!Next
  <2> QED BY <2>1, <2>2, <2>3, <2>4, <2>5, <2>6
<1> QED BY <1>1, <1>2

\* As long as a free page is left, the pages, tables and lists implement private
\* memories: what a process reads is what it stored last, zero where it had never
\* stored, or what its parent had at the fork.
THEOREM MemoriesArePrivate ==
  Spec /\ []Undisturbed /\ [](FreePages(ram) # {}) => PrivateMemory
<1>1. Init => Private!Init /\ UserHasMemory
  BY RefInit, UserInit
<1>2. MemoryInv /\ UserHasMemory /\ [Next]_vars /\ (FreePages(ram) # {})' => UserHasMemory'
  BY UserNext
<1>3. MemoryInv /\ UserHasMemory /\ [Next]_vars /\ (FreePages(ram) # {})'
        => [Private!Next]_(Private!vars)
  BY RefStep
<1> QED BY <1>1, <1>2, <1>3, MemoryInvariance, PTL DEF Spec, PrivateMemory, Private!Spec
=============================================================================
