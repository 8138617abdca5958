--------------------------- MODULE KmallocProofs ---------------------------
(***************************************************************************)
(* Proofs about the kernel heap: in every behaviour, as long as each call  *)
(* of kmalloc() and kfree() meets what the code needs and does not test    *)
(* (CallsFit, FreesFit), the blocks tile the heap and the list is intact.  *)
(***************************************************************************)
EXTENDS Kmalloc, NatFacts, FiniteSetTheorems

-----------------------------------------------------------------------------
(***************************************************************************)
(* The inductive invariant.  The free blocks are g[0] .. g[k], in the      *)
(* order of their addresses, of z[0] .. z[k] bytes; lv are the blocks      *)
(* handed out.                                                             *)
(***************************************************************************)
Start(x)  == x.ptr - W
Length(x) == x.size + W

InHeap(a, n)      == a >= HeapStart /\ a + n <= HeapEnd
Apart(a, m, b, n) == a + m <= b \/ b + n <= a
Covers(a, n, p)   == a <= p /\ p < a + n

\* The words of the heap have a type, and lie inside it.
WordT   == Addr \cup {START_OF_HEAP, END_OF_HEAP, Garbage} \cup 0 .. HeapSize
MemT(m) == \A a \in DOMAIN m : a \in HeapStart .. HeapEnd - W /\ m[a] \in WordT

\* Where the blocks lie.
Ordered(k, g, z) ==
  /\ k \in Nat /\ g \in [0 .. k -> Nat] /\ z \in [0 .. k -> Nat]
  /\ \A i \in 0 .. k : InHeap(g[i], z[i]) /\ z[i] >= 3 * W
  /\ \A i, j \in 0 .. k : i < j => g[i] + z[i] <= g[j]
  /\ g[k] + z[k] = HeapEnd
BlockT(x) == x \in [ptr : Nat, size : Sizes, by : Task]
Held(lv) ==
  /\ \A x \in lv : BlockT(x) /\ InHeap(Start(x), Length(x))
  /\ \A x, y \in lv : x # y => Apart(Start(x), Length(x), Start(y), Length(y))
AllApart(k, g, z, lv) ==
  \A x \in lv, i \in 0 .. k : Apart(Start(x), Length(x), g[i], z[i])
AllCovered(k, g, z, lv) ==
  \A p \in Addr : \/ \E x \in lv : Covers(Start(x), Length(x), p)
                  \/ \E i \in 0 .. k : Covers(g[i], z[i], p)
Layout(k, g, z, lv) ==
  Ordered(k, g, z) /\ Held(lv) /\ AllApart(k, g, z, lv) /\ AllCovered(k, g, z, lv)

\* What the headers say of them.
Before(g, i)   == IF i = 0 THEN START_OF_HEAP ELSE g[i - 1]
After(k, g, i) == IF i = k THEN END_OF_HEAP ELSE g[i + 1]
HeaderIs(m, a, p, n, s) ==
  Word(m, prev(a)) = p /\ Word(m, next(a)) = n /\ Word(m, size(a)) = s
Linked(h, k, g, z) ==
  /\ h.first = g[0]
  /\ \A i \in 0 .. k : HeaderIs(h.mem, g[i], Before(g, i), After(k, g, i), z[i])
Sized(h, lv) == \A x \in lv : Word(h.mem, Start(x)) = x.size

\* The locals of kmalloc() have a type.
HeaderT == [prev : WordT, next : WordT, size : WordT]
CallT   == [size : Sizes, block : Addr \cup {END_OF_HEAP}, old : HeaderT]

\* Every free block but the first was handed out before, and an unfinished
\* call has handed out none yet.
Busy == {t \in Task : job[t] # Idle}
Counted(k) ==
  /\ IsFiniteSet(live) /\ IsFiniteSet(Busy) /\ calls \in 0 .. MaxCalls
  /\ k + Cardinality(live) + Cardinality(Busy) <= calls

HeapShape(k, g, z) ==
  /\ Layout(k, g, z, live) /\ Linked(Heap, k, g, z) /\ Sized(Heap, live) /\ MemT(mem)
  /\ job \in [Task -> {Idle} \cup CallT]
  /\ Counted(k)

HeapInv == \E k, g, z : HeapShape(k, g, z)

-----------------------------------------------------------------------------
(***************************************************************************)
(* Stores.                                                                 *)
(***************************************************************************)
LEMMA WordOverwrite ==
  ASSUME NEW m, NEW a \in Int, NEW n \in Int, NEW x \in Int,
         x + W <= a \/ x >= a + n
  PROVE  Word(Overwrite(m, a, n), x) = Word(m, x)
<1>1. x \notin a - W + 1 .. a + n - 1
  BY DEF W
<1>2. x \in DOMAIN Overwrite(m, a, n) <=> x \in DOMAIN m
  BY <1>1 DEF Overwrite
<1>3. x \in DOMAIN m => Overwrite(m, a, n)[x] = m[x]
  BY <1>1 DEF Overwrite
<1> QED BY <1>2, <1>3 DEF Word

LEMMA WordPut ==
  ASSUME NEW m, NEW a \in Int, NEW w, NEW x \in Int
  PROVE  /\ Word(Put(m, a, w), a) = w
         /\ (x + W <= a \/ x >= a + W) => Word(Put(m, a, w), x) = Word(m, x)
<1> DEFINE rest == Overwrite(m, a, W)
<1>1. Put(m, a, w) = [y \in DOMAIN rest \cup {a} |-> IF y = a THEN w ELSE rest[y]]
  BY DEF Put
<1>2. ASSUME x + W <= a \/ x >= a + W PROVE Word(rest, x) = Word(m, x) /\ x # a
  BY <1>2, WordOverwrite DEF W
<1> HIDE DEF rest
<1>3. ASSUME x # a PROVE Word(Put(m, a, w), x) = Word(rest, x)
  BY <1>1, <1>3 DEF Word
<1>4. Word(Put(m, a, w), a) = w
  BY <1>1 DEF Word
<1> QED BY <1>2, <1>3, <1>4

LEMMA WordPutHeader ==
  ASSUME NEW m, NEW a \in Int, NEW h, NEW x \in Int
  PROVE  /\ HeaderIs(PutHeader(m, a, h), a, h.prev, h.next, h.size)
         /\ (x + W <= a \/ x >= a + 3 * W) => Word(PutHeader(m, a, h), x) = Word(m, x)
<1> DEFINE m1 == Put(m, prev(a), h.prev)
           m2 == Put(m1, next(a), h.next)
           m3 == Put(m2, size(a), h.size)
<1>0. prev(a) \in Int /\ next(a) \in Int /\ size(a) \in Int
  BY DEF prev, next, size, W
<1>1. Word(m3, size(a)) = h.size
  BY <1>0, WordPut
<1>2. Word(m3, next(a)) = h.next
  <2>1. next(a) + W <= size(a)
    BY DEF next, size, W
  <2> HIDE DEF m1
  <2>2. Word(m2, next(a)) = h.next
    BY <1>0, WordPut
  <2> HIDE DEF m2
  <2> QED BY <1>0, <2>1, <2>2, WordPut
<1>3. Word(m3, prev(a)) = h.prev
  <2>1. prev(a) + W <= size(a) /\ prev(a) + W <= next(a)
    BY DEF prev, next, size, W
  <2>2. Word(m1, prev(a)) = h.prev
    BY <1>0, WordPut
  <2> HIDE DEF m1
  <2>3. Word(m2, prev(a)) = h.prev
    BY <1>0, <2>1, <2>2, WordPut
  <2> HIDE DEF m2
  <2> QED BY <1>0, <2>1, <2>3, WordPut
<1>4. ASSUME x + W <= a \/ x >= a + 3 * W PROVE Word(m3, x) = Word(m, x)
  <2>1. /\ x + W <= prev(a) \/ x >= prev(a) + W
        /\ x + W <= next(a) \/ x >= next(a) + W
        /\ x + W <= size(a) \/ x >= size(a) + W
    BY <1>4 DEF prev, next, size, W
  <2>2. Word(m1, x) = Word(m, x)
    BY <1>0, <2>1, WordPut
  <2> HIDE DEF m1
  <2>3. Word(m2, x) = Word(m1, x)
    BY <1>0, <2>1, WordPut
  <2> HIDE DEF m2
  <2>4. Word(m3, x) = Word(m2, x)
    BY <1>0, <2>1, WordPut
  <2> QED BY <2>2, <2>3, <2>4
<1> QED BY <1>1, <1>2, <1>3, <1>4 DEF PutHeader, HeaderIs

Fits(a) == a \in HeapStart .. HeapEnd - W

LEMMA TypeOverwrite ==
  ASSUME NEW m, MemT(m), NEW a, NEW n
  PROVE  MemT(Overwrite(m, a, n))
BY DEF MemT, Overwrite

LEMMA TypePut ==
  ASSUME NEW m, MemT(m), NEW a, Fits(a), NEW w \in WordT
  PROVE  MemT(Put(m, a, w))
<1> DEFINE rest == Overwrite(m, a, W)
<1>1. Put(m, a, w) = [y \in DOMAIN rest \cup {a} |-> IF y = a THEN w ELSE rest[y]]
  BY DEF Put
<1>2. MemT(rest)
  BY TypeOverwrite
<1> HIDE DEF rest
<1> QED BY <1>1, <1>2 DEF MemT, Fits

LEMMA TypePutHeader ==
  ASSUME NEW m, MemT(m), NEW a \in Int, Fits(a), Fits(a + 2 * W),
         NEW h, h.prev \in WordT, h.next \in WordT, h.size \in WordT
  PROVE  MemT(PutHeader(m, a, h))
<1> DEFINE m1 == Put(m, prev(a), h.prev)
           m2 == Put(m1, next(a), h.next)
           m3 == Put(m2, size(a), h.size)
<1>1. Fits(prev(a)) /\ Fits(next(a)) /\ Fits(size(a))
  BY KmallocAssumption DEF Fits, prev, next, size, W, HeapStart, HeapEnd
<1>2. MemT(m1)
  BY <1>1, TypePut
<1> HIDE DEF m1
<1>3. MemT(m2)
  BY <1>1, <1>2, TypePut
<1> HIDE DEF m2
<1>4. MemT(m3)
  BY <1>1, <1>3, TypePut
<1> QED BY <1>4 DEF PutHeader, m1, m2

-----------------------------------------------------------------------------
(***************************************************************************)
(* What the stores of a call leave alone.                                  *)
(***************************************************************************)
\* The word at x is neither the next field of p nor the prev field of n, and
\* overlaps none of the two.
Clear(x, p, n) ==
  /\ p # START_OF_HEAP => x + W <= next(p) \/ x >= next(p) + W
  /\ n # END_OF_HEAP   => x + W <= prev(n) \/ x >= prev(n) + W

\* Only these two words and bytes a .. a + s - 1 changed.
Keeps(m, r, a, s, p, n) ==
  \A x \in Int : (x + W <= a \/ x >= a + s) /\ Clear(x, p, n) => Word(r, x) = Word(m, x)

\* The free blocks p and n lie on either side of bytes a .. a + s - 1.
Around(a, s, p, n) ==
  /\ a \in Nat /\ s \in Nat /\ p \in Int /\ n \in Int
  /\ a >= HeapStart /\ a + s <= HeapEnd
  /\ p = START_OF_HEAP \/ (p >= HeapStart /\ p + 3 * W <= a)
  /\ n = END_OF_HEAP \/ (a + s <= n /\ n + 3 * W <= HeapEnd)

\* The neighbours p and n of a changed place point to q and to o.
Points(h, h2, p, n, q, o) ==
  /\ IF p = START_OF_HEAP THEN h2.first = q
                          ELSE h2.first = h.first /\ Word(h2.mem, next(p)) = q
  /\ n # END_OF_HEAP => Word(h2.mem, prev(n)) = o

HeapT(h) == h = [mem |-> h.mem, first |-> h.first]

LEMMA LinkPrevWords ==
  ASSUME NEW h, HeapT(h), NEW p \in Int, NEW a, a # END_OF_HEAP \/ p # START_OF_HEAP
  PROVE  /\ HeapT(LinkPrev(h, p, a))
         /\ p = START_OF_HEAP => LinkPrev(h, p, a).first = a /\ LinkPrev(h, p, a).mem = h.mem
         /\ p # START_OF_HEAP => /\ LinkPrev(h, p, a).first = h.first
                                 /\ LinkPrev(h, p, a).mem = Put(h.mem, next(p), a)
<1>1. CASE p = START_OF_HEAP
  <2>1. LinkPrev(h, p, a) = [h EXCEPT !.first = a]
    BY <1>1 DEF LinkPrev
  <2>2. LinkPrev(h, p, a) = [mem |-> h.mem, first |-> a]
    BY <2>1 DEF HeapT
  <2> QED BY <1>1, <2>2 DEF HeapT
<1>2. CASE p # START_OF_HEAP
  <2>1. LinkPrev(h, p, a) = [h EXCEPT !.mem = Put(@, next(p), a)]
    BY <1>2 DEF LinkPrev
  <2>2. LinkPrev(h, p, a) = [mem |-> Put(h.mem, next(p), a), first |-> h.first]
    BY <2>1 DEF HeapT
  <2> QED BY <1>2, <2>2 DEF HeapT
<1> QED BY <1>1, <1>2

LEMMA LinkNextWords ==
  ASSUME NEW h, HeapT(h), NEW n \in Int, NEW a
  PROVE  /\ HeapT(LinkNext(h, n, a))
         /\ LinkNext(h, n, a).first = h.first
         /\ n = END_OF_HEAP => LinkNext(h, n, a).mem = h.mem
         /\ n # END_OF_HEAP => LinkNext(h, n, a).mem = Put(h.mem, prev(n), a)
<1>1. CASE n = END_OF_HEAP
  BY <1>1 DEF LinkNext
<1>2. CASE n # END_OF_HEAP
  <2>1. LinkNext(h, n, a) = [h EXCEPT !.mem = Put(@, prev(n), a)]
    BY <1>2 DEF LinkNext
  <2>2. LinkNext(h, n, a) = [mem |-> Put(h.mem, prev(n), a), first |-> h.first]
    BY <2>1 DEF HeapT
  <2> QED BY <1>2, <2>2 DEF HeapT
<1> QED BY <1>1, <1>2

\* LinkPrev() and LinkNext() together.
LEMMA LinkWords ==
  ASSUME NEW h, HeapT(h), NEW a, NEW s, NEW p, NEW n, Around(a, s, p, n),
         NEW q, NEW o, q # END_OF_HEAP \/ p # START_OF_HEAP,
         NEW r, r = LinkNext(LinkPrev(h, p, q), n, o)
  PROVE  /\ HeapT(r) /\ Points(h, r, p, n, q, o)
         /\ \A x \in Int : Clear(x, p, n) => Word(r.mem, x) = Word(h.mem, x)
         /\ MemT(h.mem) /\ q \in WordT /\ o \in WordT => MemT(r.mem)
<1> DEFINE l == LinkPrev(h, p, q)
<1>0. /\ p \in Int /\ n \in Int /\ next(p) \in Int /\ prev(n) \in Int
      /\ p # START_OF_HEAP => Fits(next(p))
      /\ n # END_OF_HEAP => Fits(prev(n))
      /\ p # START_OF_HEAP /\ n # END_OF_HEAP => next(p) + W <= prev(n)
  BY KmallocAssumption DEF Around, Fits, next, prev, W, HeapStart, HeapEnd
<1>1. /\ HeapT(l)
      /\ p = START_OF_HEAP => l.first = q /\ l.mem = h.mem
      /\ p # START_OF_HEAP => l.first = h.first /\ l.mem = Put(h.mem, next(p), q)
  BY <1>0, LinkPrevWords
<1> HIDE DEF l
<1>2. /\ HeapT(r) /\ r.first = l.first
      /\ n = END_OF_HEAP => r.mem = l.mem
      /\ n # END_OF_HEAP => r.mem = Put(l.mem, prev(n), o)
  BY <1>0, <1>1, LinkNextWords DEF l
<1>3. n # END_OF_HEAP => Word(r.mem, prev(n)) = o
  BY <1>0, <1>2, WordPut
<1>4. ASSUME p # START_OF_HEAP PROVE Word(r.mem, next(p)) = q
  <2>1. Word(l.mem, next(p)) = q
    BY <1>0, <1>1, <1>4, WordPut
  <2>2. CASE n = END_OF_HEAP
    BY <1>2, <2>1, <2>2
  <2>3. CASE n # END_OF_HEAP
    BY <1>0, <1>2, <1>4, <2>1, <2>3, WordPut
  <2> QED BY <2>2, <2>3
<1>5. ASSUME NEW x \in Int, Clear(x, p, n) PROVE Word(r.mem, x) = Word(h.mem, x)
  <2>1. Word(l.mem, x) = Word(h.mem, x)
    BY <1>0, <1>1, <1>5, WordPut DEF Clear
  <2>2. Word(r.mem, x) = Word(l.mem, x)
    BY <1>0, <1>2, <1>5, WordPut DEF Clear
  <2> QED BY <2>1, <2>2
<1>6. ASSUME MemT(h.mem), q \in WordT, o \in WordT PROVE MemT(r.mem)
  <2>1. MemT(l.mem)
    BY <1>0, <1>1, <1>6, TypePut
  <2> QED BY <1>0, <1>2, <1>6, <2>1, TypePut
<1>7. Points(h, r, p, n, q, o)
  BY <1>1, <1>2, <1>3, <1>4 DEF Points
<1> QED BY <1>2, <1>5, <1>6, <1>7

\* memzero_u8() changes the bytes it is meant to, and words behind them that are
\* not 0.
LEMMA HandOutWords ==
  ASSUME NEW m, NEW b \in Int, NEW n \in Nat
  PROVE  /\ Word(HandOut(m, b, n), b) = n
         /\ \A x \in Int :
              /\ x + W <= b \/ x >= b + n + W
              /\ n \in Bitmap => x >= b + n + W + 3 \/ x + W <= b \/ Word(m, x) = 0
              => Word(HandOut(m, b, n), x) = Word(m, x)
         /\ MemT(m) /\ Fits(b) /\ n \in WordT => MemT(HandOut(m, b, n))
<1> DEFINE sized == Put(m, b, n)
           plain == Overwrite(sized, b + W, n)
           Hit   == {x \in DOMAIN plain \cap (b + W + n .. b + W + n + 2) : plain[x] # 0}
           short == [x \in DOMAIN plain \ Hit |-> plain[x]]
<1>1. HandOut(m, b, n) = IF n \in Bitmap THEN short ELSE plain
  BY DEF HandOut, memzero_u8
<1>2. Word(sized, b) = n /\ b + W \in Int
  BY WordPut DEF W
<1>3. ASSUME NEW x \in Int, x + W <= b \/ x >= b + n + W
      PROVE  Word(sized, x) = Word(m, x)
  <2>1. x + W <= b \/ x >= b + W
    BY <1>3 DEF W
  <2> QED BY <2>1, WordPut
<1>4. MemT(m) /\ Fits(b) /\ n \in WordT => MemT(sized)
  BY TypePut
<1> HIDE DEF sized
<1>5. Word(plain, b) = n
  BY <1>2, WordOverwrite
<1>6. ASSUME NEW x \in Int, x + W <= b \/ x >= b + n + W
      PROVE  Word(plain, x) = Word(m, x)
  <2>1. x + W <= b + W \/ x >= (b + W) + n
    BY <1>6 DEF W
  <2> QED BY <1>2, <1>3, <1>6, <2>1, WordOverwrite
<1>7. MemT(m) /\ Fits(b) /\ n \in WordT => MemT(plain)
  BY <1>4, TypeOverwrite
<1> HIDE DEF plain
<1>8. ASSUME NEW x \in Int, x \notin b + W + n .. b + W + n + 2 \/ Word(plain, x) = 0
      PROVE  Word(short, x) = Word(plain, x)
  <2>1. x \notin Hit
    BY <1>8 DEF Word
  <2> HIDE DEF Hit
  <2> QED BY <2>1 DEF Word
<1>9. MemT(plain) => MemT(short)
  BY DEF MemT
<1>10. Word(HandOut(m, b, n), b) = n
  <2>1. b \notin b + W + n .. b + W + n + 2
    BY DEF W
  <2> HIDE DEF short
  <2> QED BY <1>1, <1>5, <1>8, <2>1
<1>11. ASSUME NEW x \in Int, x + W <= b \/ x >= b + n + W,
              n \in Bitmap => x >= b + n + W + 3 \/ x + W <= b \/ Word(m, x) = 0
       PROVE  Word(HandOut(m, b, n), x) = Word(m, x)
  <2>1. Word(plain, x) = Word(m, x)
    BY <1>6, <1>11
  <2>2. CASE n \in Bitmap
    <3>1. x \notin b + W + n .. b + W + n + 2 \/ Word(plain, x) = 0
      BY <1>11, <2>1, <2>2 DEF W
    <3> HIDE DEF short
    <3> QED BY <1>1, <1>8, <2>1, <2>2, <3>1
  <2>3. CASE n \notin Bitmap
    BY <1>1, <2>1, <2>3
  <2> QED BY <2>2, <2>3
<1> HIDE DEF short
<1> QED BY <1>1, <1>7, <1>9, <1>10, <1>11

LEMMA AroundTypes ==
  ASSUME NEW a, NEW s, NEW p, NEW n, Around(a, s, p, n)
  PROVE  /\ p \in WordT /\ n \in WordT /\ s \in WordT
         /\ \A c \in Int : a <= c /\ c < a + s => c \in WordT
         /\ \A c \in Int : a <= c /\ c + W <= a + s => Fits(c)
         /\ \A c \in Nat : c <= s => c \in WordT
BY KmallocAssumption
   DEF Around, WordT, Fits, Addr, HeapStart, HeapEnd, W, START_OF_HEAP, END_OF_HEAP

\* A word of the changed bytes, or of the blocks around them, is no link.
LEMMA AroundClear ==
  ASSUME NEW a, NEW s, NEW p, NEW n, Around(a, s, p, n), NEW x \in Int
  PROVE  /\ a <= x /\ x + W <= a + s => Clear(x, p, n)
         /\ Clear(x, p, n) <=> /\ p # START_OF_HEAP => x + W <= p + W \/ x >= p + 2 * W
                               /\ n # END_OF_HEAP => x + W <= n \/ x >= n + W
BY DEF Around, Clear, prev, next, W

\* kmalloc() that leaves a part of the block free.
LEMMA SplitWords ==
  ASSUME NEW h, HeapT(h), MemT(h.mem),
         NEW b, NEW s, NEW p, NEW x, Around(b, s, p, x),
         NEW n \in Nat, s - (n + W) >= 3 * W, n \in Bitmap => p = START_OF_HEAP,
         NEW old, old = [prev |-> p, next |-> x, size |-> s],
         NEW r, r = [mem   |-> HandOut(Carve(h, b, old, n).mem, b, n),
                     first |-> Carve(h, b, old, n).first]
  PROVE  /\ HeaderIs(r.mem, b + n + W, p, x, s - (n + W)) /\ Word(r.mem, b) = n
         /\ Points(h, r, p, x, b + n + W, b + n + W)
         /\ Keeps(h.mem, r.mem, b, s, p, x) /\ MemT(r.mem)
<1> DEFINE new == b + n + W
           hd == [prev |-> p, next |-> x, size |-> s - (n + W)]
           g  == [mem |-> PutHeader(h.mem, new, hd), first |-> h.first]
           l  == LinkNext(LinkPrev(g, p, new), x, new)
<1>0. /\ b \in Int /\ s \in Nat /\ new \in Int /\ new # END_OF_HEAP /\ p \in Int /\ x \in Int
      /\ b <= new /\ new + 3 * W <= b + s /\ new < b + s /\ b + W <= new
      /\ s - (n + W) \in Nat /\ s - (n + W) <= s /\ n <= s
  BY DEF Around, W, END_OF_HEAP
<1>1. l = Carve(h, b, old, n)
  <2>1. old.size # n + W /\ old.prev = p /\ old.next = x /\ b + (n + W) = new
    BY <1>0 DEF W
  <2>2. [old EXCEPT !.size = @ - (n + W)] = hd
    OBVIOUS
  <2>3. [h EXCEPT !.mem = PutHeader(@, new, hd)] = g
    BY DEF HeapT
  <2> HIDE DEF new, hd, g
  <2> QED BY <2>1, <2>2, <2>3 DEF Carve, g
<1>2. /\ HeaderIs(g.mem, new, p, x, s - (n + W)) /\ HeapT(g) /\ g.first = h.first
      /\ \A y \in Int : y + W <= new \/ y >= new + 3 * W => Word(g.mem, y) = Word(h.mem, y)
  <2>1. hd.prev = p /\ hd.next = x /\ hd.size = s - (n + W)
    OBVIOUS
  <2>2. g.mem = PutHeader(h.mem, new, hd) /\ HeapT(g) /\ g.first = h.first
    BY DEF HeapT
  <2> HIDE DEF hd, new, g
  <2> QED BY <1>0, <2>1, <2>2, WordPutHeader
<1>3. MemT(g.mem) /\ new \in WordT
  <2>1. hd.prev \in WordT /\ hd.next \in WordT /\ hd.size \in WordT
    BY <1>0, AroundTypes
  <2>2. Fits(new) /\ Fits(new + 2 * W) /\ new \in WordT
    <3>1. b <= new /\ new + W <= b + s /\ b <= new + 2 * W /\ (new + 2 * W) + W <= b + s
          /\ new + 2 * W \in Int
      BY <1>0 DEF W
    <3> HIDE DEF new
    <3> QED BY <1>0, <3>1, AroundTypes
  <2> HIDE DEF hd, new
  <2> QED BY <1>0, <2>1, <2>2, TypePutHeader DEF g
<1> HIDE DEF g
<1>4. /\ HeapT(l) /\ Points(g, l, p, x, new, new) /\ MemT(l.mem)
      /\ \A y \in Int : Clear(y, p, x) => Word(l.mem, y) = Word(g.mem, y)
  <2> HIDE DEF new
  <2> QED BY <1>0, <1>2, <1>3, LinkWords
<1> HIDE DEF l, hd
<1>5. r.first = l.first /\ r.mem = HandOut(l.mem, b, n)
  BY <1>1
<1>6. /\ Word(r.mem, b) = n /\ MemT(r.mem)
      /\ \A y \in Int : y + W <= b \/ y >= new + W \/ y = new => Word(r.mem, y) = Word(l.mem, y)
  <2>1. Fits(b) /\ n \in WordT
    BY <1>0, AroundTypes DEF W
  <2>2. Word(r.mem, b) = n /\ MemT(r.mem)
    BY <1>0, <1>4, <1>5, <2>1, HandOutWords
  <2>3. Word(l.mem, new) = p
    <3>1. Clear(new, p, x)
      BY <1>0, AroundClear DEF W
    <3>2. Word(g.mem, new) = p
      BY <1>2 DEF HeaderIs, prev
    <3> QED BY <1>0, <1>4, <3>1, <3>2
  <2>4. ASSUME NEW y \in Int, y + W <= b \/ y >= new + W \/ y = new
        PROVE  Word(r.mem, y) = Word(l.mem, y)
    <3>1. y + W <= b \/ y >= b + n + W
      BY <1>0, <2>4 DEF W
    <3>2. n \in Bitmap => y >= b + n + W + 3 \/ y + W <= b \/ Word(l.mem, y) = 0
      BY <1>0, <2>3, <2>4 DEF W, START_OF_HEAP
    <3> QED BY <1>0, <1>5, <3>1, <3>2, HandOutWords
  <2> QED BY <2>2, <2>4
<1>7. HeaderIs(r.mem, new, p, x, s - (n + W))
  <2>1. ASSUME NEW y \in Int, y = new \/ y >= new + W, y + W <= b + s
        PROVE  Word(r.mem, y) = Word(g.mem, y)
    <3>1. Clear(y, p, x)
      BY <1>0, <2>1, AroundClear DEF W
    <3> QED BY <1>4, <1>6, <2>1, <3>1
  <2>2. /\ prev(new) \in Int /\ new = prev(new) /\ prev(new) + W <= b + s
        /\ next(new) \in Int /\ new + W <= next(new) /\ next(new) + W <= b + s
        /\ size(new) \in Int /\ new + W <= size(new) /\ size(new) + W <= b + s
    BY <1>0 DEF prev, next, size, W
  <2> HIDE DEF new
  <2> QED BY <1>2, <2>1, <2>2 DEF HeaderIs
<1>8. Keeps(h.mem, r.mem, b, s, p, x)
  <2> SUFFICES ASSUME NEW y \in Int, y + W <= b \/ y >= b + s, Clear(y, p, x)
               PROVE  Word(r.mem, y) = Word(h.mem, y)
    BY DEF Keeps
  <2>1. y + W <= new \/ y >= new + 3 * W
    BY <1>0 DEF W
  <2>2. y + W <= b \/ y >= new + W
    BY <1>0 DEF W
  <2> QED BY <1>2, <1>4, <1>6, <2>1, <2>2
<1>9. Points(h, r, p, x, new, new)
  <2>1. ASSUME p # START_OF_HEAP PROVE Word(r.mem, next(p)) = Word(l.mem, next(p))
    <3>1. next(p) \in Int /\ next(p) + W <= b
      BY <2>1 DEF Around, next, W
    <3> QED BY <1>6, <3>1
  <2>2. ASSUME x # END_OF_HEAP PROVE Word(r.mem, prev(x)) = Word(l.mem, prev(x))
    <3>1. prev(x) \in Int /\ prev(x) >= new + W
      BY <1>0, <2>2 DEF Around, prev, W
    <3> QED BY <1>6, <3>1
  <2> HIDE DEF new
  <2> QED BY <1>2, <1>4, <1>5, <2>1, <2>2 DEF Points
<1> QED BY <1>6, <1>7, <1>8, <1>9

\* kmalloc() that takes the whole block.
LEMMA ExactWords ==
  ASSUME NEW h, HeapT(h), MemT(h.mem),
         NEW b, NEW s, NEW p, NEW x, Around(b, s, p, x), x # END_OF_HEAP,
         NEW n \in Nat, s = n + W, n \notin Bitmap,
         NEW old, old = [prev |-> p, next |-> x, size |-> s],
         NEW r, r = [mem   |-> HandOut(Carve(h, b, old, n).mem, b, n),
                     first |-> Carve(h, b, old, n).first]
  PROVE  /\ Word(r.mem, b) = n /\ Points(h, r, p, x, x, p)
         /\ Keeps(h.mem, r.mem, b, s, p, x) /\ MemT(r.mem)
<1> DEFINE l == LinkNext(LinkPrev(h, p, x), x, p)
<1>0. b \in Int /\ s \in Nat /\ p \in Int /\ x \in Int /\ n <= s /\ b + W <= b + s
  BY DEF Around, W
<1>1. l = Carve(h, b, old, n)
  BY DEF Carve
<1>4. /\ HeapT(l) /\ Points(h, l, p, x, x, p) /\ MemT(l.mem)
      /\ \A y \in Int : Clear(y, p, x) => Word(l.mem, y) = Word(h.mem, y)
  BY <1>0, AroundTypes, LinkWords
<1> HIDE DEF l
<1>5. r.first = l.first /\ r.mem = HandOut(l.mem, b, n)
  BY <1>1
<1>6. /\ Word(r.mem, b) = n /\ MemT(r.mem)
      /\ \A y \in Int : y + W <= b \/ y >= b + s => Word(r.mem, y) = Word(l.mem, y)
  <2>1. Fits(b) /\ n \in WordT
    BY <1>0, AroundTypes
  <2>2. b + n + W = b + s
    BY <1>0 DEF W
  <2> QED BY <1>0, <1>4, <1>5, <2>1, <2>2, HandOutWords
<1>8. Keeps(h.mem, r.mem, b, s, p, x)
  BY <1>4, <1>6 DEF Keeps
<1>9. Points(h, r, p, x, x, p)
  <2>1. ASSUME p # START_OF_HEAP PROVE Word(r.mem, next(p)) = Word(l.mem, next(p))
    <3>1. next(p) \in Int /\ next(p) + W <= b
      BY <2>1 DEF Around, next, W
    <3> QED BY <1>6, <3>1
  <2>2. ASSUME x # END_OF_HEAP PROVE Word(r.mem, prev(x)) = Word(l.mem, prev(x))
    <3>1. prev(x) \in Int /\ prev(x) >= b + s
      BY <1>0, <2>2 DEF Around, prev, W
    <3> QED BY <1>6, <3>1
  <2> QED BY <1>4, <1>5, <2>1, <2>2 DEF Points
<1> QED BY <1>6, <1>8, <1>9

\* kfree() of a block that ends where the first free block b begins: it swallows
\* that block, of z bytes, whose header is read before it is overwritten.
LEMMA MergeWords ==
  ASSUME NEW h, HeapT(h), MemT(h.mem),
         NEW a, NEW s, NEW n, NEW z \in Nat, NEW b, NEW x, Around(a, s, START_OF_HEAP, x),
         n \in Nat, z >= 3 * W, s = n + z, b = a + n,
         HeaderIs(h.mem, b, START_OF_HEAP, x, z),
         NEW r, r = FreeFirst(h, a, n, b)
  PROVE  /\ HeaderIs(r.mem, a, START_OF_HEAP, x, s)
         /\ HeapT(r) /\ Points(h, r, START_OF_HEAP, x, a, a)
         /\ Keeps(h.mem, r.mem, a, s, START_OF_HEAP, x) /\ MemT(r.mem)
<1> DEFINE hd == [prev |-> START_OF_HEAP, next |-> x, size |-> s]
           g  == [mem |-> PutHeader(h.mem, a, hd), first |-> a]
           l  == LinkNext(g, x, a)
<1>0. a \in Int /\ a \in Nat /\ s \in Nat /\ x \in Int /\ a # END_OF_HEAP /\ 3 * W <= s
  BY DEF Around, END_OF_HEAP, W
<1>1. r = l
  <2>1. Header(h.mem, b) = [prev |-> START_OF_HEAP, next |-> x, size |-> z]
    BY DEF Header, HeaderIs
  <2>2. [Header(h.mem, b) EXCEPT !.size = @ + n] = hd
    <3>1. z + n = s
      BY <1>0
    <3> QED BY <2>1, <3>1
  <2>3. Header(h.mem, b).next = x
    BY <2>1
  <2> HIDE DEF hd
  <2> QED BY <2>2, <2>3 DEF FreeFirst
<1>2. /\ HeaderIs(g.mem, a, START_OF_HEAP, x, s) /\ HeapT(g) /\ g.first = a
      /\ \A y \in Int : y + W <= a \/ y >= a + 3 * W => Word(g.mem, y) = Word(h.mem, y)
  <2>1. hd.prev = START_OF_HEAP /\ hd.next = x /\ hd.size = s
    OBVIOUS
  <2>2. g.mem = PutHeader(h.mem, a, hd) /\ HeapT(g) /\ g.first = a
    BY DEF HeapT
  <2> HIDE DEF hd, g
  <2> QED BY <1>0, <2>1, <2>2, WordPutHeader
<1>3. MemT(g.mem) /\ a \in WordT
  <2>1. hd.prev \in WordT /\ hd.next \in WordT /\ hd.size \in WordT
    BY <1>0, AroundTypes
  <2>2. Fits(a) /\ Fits(a + 2 * W) /\ a \in WordT
    BY <1>0, AroundTypes DEF W
  <2>3. g.mem = PutHeader(h.mem, a, hd)
    OBVIOUS
  <2> HIDE DEF hd, g
  <2> QED BY <1>0, <2>1, <2>2, <2>3, TypePutHeader
<1> HIDE DEF g
<1>4. LinkPrev(g, START_OF_HEAP, a) = g
  BY <1>0, <1>2 DEF LinkPrev, HeapT
<1>5. /\ HeapT(l) /\ Points(g, l, START_OF_HEAP, x, a, a) /\ MemT(l.mem)
      /\ \A y \in Int : Clear(y, START_OF_HEAP, x) => Word(l.mem, y) = Word(g.mem, y)
  <2> HIDE DEF l
  <2> QED BY <1>0, <1>2, <1>3, <1>4, LinkWords DEF l
<1> HIDE DEF l, hd
<1>7. HeaderIs(r.mem, a, START_OF_HEAP, x, s)
  <2>1. ASSUME NEW y \in Int, a <= y, y + W <= a + s PROVE Word(r.mem, y) = Word(g.mem, y)
    BY <1>1, <1>5, <2>1, AroundClear
  <2>2. /\ prev(a) \in Int /\ a <= prev(a) /\ prev(a) + W <= a + s
        /\ next(a) \in Int /\ a <= next(a) /\ next(a) + W <= a + s
        /\ size(a) \in Int /\ a <= size(a) /\ size(a) + W <= a + s
    BY <1>0 DEF prev, next, size, W
  <2> QED BY <1>2, <2>1, <2>2 DEF HeaderIs
<1>8. Keeps(h.mem, r.mem, a, s, START_OF_HEAP, x)
  <2> SUFFICES ASSUME NEW y \in Int, y + W <= a \/ y >= a + s, Clear(y, START_OF_HEAP, x)
               PROVE  Word(r.mem, y) = Word(h.mem, y)
    BY DEF Keeps
  <2>1. y + W <= a \/ y >= a + 3 * W
    BY <1>0 DEF W
  <2> QED BY <1>1, <1>2, <1>5, <2>1
<1>9. Points(h, r, START_OF_HEAP, x, a, a)
  BY <1>1, <1>2, <1>5 DEF Points
<1> QED BY <1>1, <1>5, <1>7, <1>8, <1>9

\* kfree() of a block between the free blocks p and x, either of which may not
\* exist: it becomes a free block of its own.
Inserted(h, r, a, s, p, x) ==
  /\ HeaderIs(r.mem, a, p, x, s)
  /\ HeapT(r) /\ Points(h, r, p, x, a, a)
  /\ Keeps(h.mem, r.mem, a, s, p, x) /\ MemT(r.mem)

LEMMA InsertWords ==
  ASSUME NEW h, HeapT(h), MemT(h.mem),
         NEW a, NEW s, NEW p, NEW x, Around(a, s, p, x), s >= 3 * W,
         NEW g, g = [mem |-> PutHeader(h.mem, a, [prev |-> p, next |-> x, size |-> s]),
                     first |-> IF p = START_OF_HEAP THEN a ELSE h.first],
         NEW r, HeapT(r), r.first = g.first, MemT(r.mem), Points(g, r, p, x, a, a),
         \A y \in Int : Clear(y, p, x) => Word(r.mem, y) = Word(g.mem, y)
  PROVE  Inserted(h, r, a, s, p, x)
<1> DEFINE hd == [prev |-> p, next |-> x, size |-> s]
<1>0. a \in Int /\ a \in Nat /\ s \in Nat /\ x \in Int /\ p \in Int
  BY DEF Around
<1>2. /\ HeaderIs(g.mem, a, p, x, s)
      /\ \A y \in Int : y + W <= a \/ y >= a + 3 * W => Word(g.mem, y) = Word(h.mem, y)
  <2>1. hd.prev = p /\ hd.next = x /\ hd.size = s
    OBVIOUS
  <2>2. g.mem = PutHeader(h.mem, a, hd)
    OBVIOUS
  <2> HIDE DEF hd
  <2> QED BY <1>0, <2>1, <2>2, WordPutHeader
<1>7. HeaderIs(r.mem, a, p, x, s)
  <2>1. ASSUME NEW y \in Int, a <= y, y + W <= a + s PROVE Word(r.mem, y) = Word(g.mem, y)
    BY <2>1, AroundClear
  <2>2. /\ prev(a) \in Int /\ a <= prev(a) /\ prev(a) + W <= a + s
        /\ next(a) \in Int /\ a <= next(a) /\ next(a) + W <= a + s
        /\ size(a) \in Int /\ a <= size(a) /\ size(a) + W <= a + s
    BY <1>0 DEF prev, next, size, W
  <2> QED BY <1>2, <2>1, <2>2 DEF HeaderIs
<1>8. Keeps(h.mem, r.mem, a, s, p, x)
  <2> SUFFICES ASSUME NEW y \in Int, y + W <= a \/ y >= a + s, Clear(y, p, x)
               PROVE  Word(r.mem, y) = Word(h.mem, y)
    BY DEF Keeps
  <2>1. y + W <= a \/ y >= a + 3 * W
    BY <1>0 DEF W
  <2> QED BY <1>2, <2>1
<1>9. Points(h, r, p, x, a, a)
  <2>1. g.first = IF p = START_OF_HEAP THEN a ELSE h.first
    OBVIOUS
  <2> QED BY <2>1 DEF Points
<1> QED BY <1>7, <1>8, <1>9 DEF Inserted

LEMMA InsertType ==
  ASSUME NEW m, MemT(m), NEW a, NEW s, NEW p, NEW x, Around(a, s, p, x), s >= 3 * W
  PROVE  MemT(PutHeader(m, a, [prev |-> p, next |-> x, size |-> s])) /\ a \in WordT
<1> DEFINE hd == [prev |-> p, next |-> x, size |-> s]
<1>0. a \in Int /\ s \in Nat
  BY DEF Around
<1>1. hd.prev \in WordT /\ hd.next \in WordT /\ hd.size \in WordT
  BY AroundTypes
<1>2. Fits(a) /\ Fits(a + 2 * W) /\ a \in WordT
  BY <1>0, AroundTypes DEF W
<1> HIDE DEF hd
<1>3. MemT(PutHeader(m, a, hd))
  BY <1>0, <1>1, <1>2, TypePutHeader
<1> QED BY <1>2, <1>3 DEF hd

LEMMA InsertFirst ==
  ASSUME NEW h, HeapT(h), MemT(h.mem),
         NEW a, NEW s, NEW x, Around(a, s, START_OF_HEAP, x), s >= 3 * W,
         x # END_OF_HEAP, a + s # x,
         NEW r, r = FreeFirst(h, a, s, x)
  PROVE  Inserted(h, r, a, s, START_OF_HEAP, x)
<1> DEFINE g == [mem |-> PutHeader(h.mem, a, [prev |-> START_OF_HEAP, next |-> x, size |-> s]),
                 first |-> a]
<1>0. a \in Nat /\ a # END_OF_HEAP
  BY DEF Around, END_OF_HEAP
<1>1. MemT(g.mem) /\ a \in WordT /\ HeapT(g)
  BY InsertType DEF HeapT
<1>2. r = [mem |-> Put(g.mem, prev(x), a), first |-> g.first]
  BY DEF FreeFirst
<1>3. g = [mem |-> PutHeader(h.mem, a, [prev |-> START_OF_HEAP, next |-> x, size |-> s]),
           first |-> IF START_OF_HEAP = START_OF_HEAP THEN a ELSE h.first]
  OBVIOUS
<1>4. g.first = a
  OBVIOUS
<1> HIDE DEF g
<1>5. r = LinkNext(LinkPrev(g, START_OF_HEAP, a), x, a)
  <2>1. LinkPrev(g, START_OF_HEAP, a) = g
    BY <1>0, <1>1, <1>4 DEF LinkPrev, HeapT
  <2>2. LinkNext(g, x, a) = [mem |-> Put(g.mem, prev(x), a), first |-> g.first]
    BY <1>1 DEF LinkNext, HeapT
  <2> QED BY <1>2, <2>1, <2>2
<1>6. /\ HeapT(r) /\ MemT(r.mem) /\ Points(g, r, START_OF_HEAP, x, a, a)
      /\ \A y \in Int : Clear(y, START_OF_HEAP, x) => Word(r.mem, y) = Word(g.mem, y)
  BY <1>0, <1>1, <1>5, LinkWords
<1>7. r.first = g.first
  BY <1>2
<1> QED BY <1>3, <1>6, <1>7, InsertWords

LEMMA InsertBetween ==
  ASSUME NEW h, HeapT(h), MemT(h.mem),
         NEW a, NEW s, NEW p, NEW x, Around(a, s, p, x), s >= 3 * W,
         p # START_OF_HEAP, x # END_OF_HEAP, Word(h.mem, prev(x)) = p,
         p + Word(h.mem, size(p)) + 1 # a, a + s + 1 # x,
         NEW r, r = FreeBetween(h, a, s, x)
  PROVE  Inserted(h, r, a, s, p, x)
<1> DEFINE g == [mem |-> PutHeader(h.mem, a, [prev |-> p, next |-> x, size |-> s]),
                 first |-> h.first]
           l == [mem |-> Put(g.mem, prev(x), a), first |-> g.first]
           e == [mem |-> Put(l.mem, next(p), a), first |-> g.first]
<1>0. /\ a \in Nat /\ next(p) \in Int /\ prev(x) \in Int
      /\ Fits(next(p)) /\ Fits(prev(x)) /\ next(p) + W <= prev(x)
  BY KmallocAssumption DEF Around, Fits, next, prev, W, HeapStart, HeapEnd
<1>1. MemT(g.mem) /\ a \in WordT
  BY InsertType
<1>2. r = e
  <2>1. FreeBetween(h, a, s, x) =
          [h EXCEPT !.mem = Put(Put(PutHeader(@, a, [prev |-> p, next |-> x, size |-> s]),
                                    prev(x), a), next(p), a)]
    BY Zenon DEF FreeBetween
  <2> QED BY <2>1 DEF HeapT
<1>3. g = [mem |-> PutHeader(h.mem, a, [prev |-> p, next |-> x, size |-> s]),
           first |-> IF p = START_OF_HEAP THEN a ELSE h.first]
  OBVIOUS
<1>4. g.first = h.first
  OBVIOUS
<1> HIDE DEF g
<1>5. l.mem = Put(g.mem, prev(x), a)
  OBVIOUS
<1>6. r.mem = Put(l.mem, next(p), a) /\ r.first = g.first /\ HeapT(r)
  BY <1>2 DEF HeapT
<1> HIDE DEF l, e
<1>7. MemT(r.mem)
  <2>1. MemT(l.mem)
    BY <1>0, <1>1, <1>5, TypePut
  <2> QED BY <1>0, <1>1, <1>6, <2>1, TypePut
<1>8. Points(g, r, p, x, a, a)
  <2>1. Word(r.mem, next(p)) = a
    BY <1>0, <1>6, WordPut
  <2>2. Word(l.mem, prev(x)) = a
    BY <1>0, <1>5, WordPut
  <2>3. Word(r.mem, prev(x)) = a
    BY <1>0, <1>6, <2>2, WordPut
  <2> QED BY <1>6, <2>1, <2>3 DEF Points
<1>9. ASSUME NEW y \in Int, Clear(y, p, x) PROVE Word(r.mem, y) = Word(g.mem, y)
  <2>1. Word(l.mem, y) = Word(g.mem, y)
    BY <1>0, <1>5, <1>9, WordPut DEF Clear
  <2>2. Word(r.mem, y) = Word(l.mem, y)
    BY <1>0, <1>6, <1>9, WordPut DEF Clear
  <2> QED BY <2>1, <2>2
<1> QED BY <1>3, <1>6, <1>7, <1>8, <1>9, InsertWords

-----------------------------------------------------------------------------
(***************************************************************************)
(* The list after a block was replaced, removed or inserted.               *)
(***************************************************************************)
Without(k, f, i) == [j \in 0 .. k - 1 |-> IF j < i THEN f[j] ELSE f[j + 1]]
With(k, f, i, v) ==
  [j \in 0 .. k + 1 |-> IF j < i THEN f[j] ELSE IF j = i THEN v ELSE f[j - 1]]

\* Block c, of d bytes, is not among the changed bytes.
Beside(c, d, a, s, p, x) ==
  /\ c \in Nat /\ d \in Nat /\ d >= 3 * W /\ Apart(c, d, a, s)
  /\ p = START_OF_HEAP \/ p = c \/ Apart(c, d, p, 3 * W)
  /\ x = END_OF_HEAP \/ x = c \/ Apart(c, d, x, 3 * W)

LEMMA KeepsHeader ==
  ASSUME NEW m, NEW r, NEW a, NEW s, NEW p, NEW x, NEW c, NEW d,
         Around(a, s, p, x), Keeps(m, r, a, s, p, x), Beside(c, d, a, s, p, x)
  PROVE  /\ c # x => Word(r, prev(c)) = Word(m, prev(c))
         /\ c # p => Word(r, next(c)) = Word(m, next(c))
         /\ Word(r, size(c)) = Word(m, size(c))
<1>0. a \in Nat /\ s \in Nat /\ p \in Int /\ x \in Int /\ c \in Nat
      /\ prev(c) \in Int /\ next(c) \in Int /\ size(c) \in Int
  BY DEF Around, Beside, prev, next, size, W
<1>1. c # x => Clear(prev(c), p, x)
  BY <1>0 DEF Beside, Clear, Apart, prev, next, W
<1>2. c # p => Clear(next(c), p, x)
  BY <1>0 DEF Beside, Clear, Apart, prev, next, W
<1>3. Clear(size(c), p, x)
  BY <1>0 DEF Beside, Clear, Apart, prev, next, size, W
<1>4. /\ prev(c) + W <= a \/ prev(c) >= a + s
      /\ next(c) + W <= a \/ next(c) >= a + s
      /\ size(c) + W <= a \/ size(c) >= a + s
  BY <1>0 DEF Beside, Apart, prev, next, size, W
<1> QED BY <1>0, <1>1, <1>2, <1>3, <1>4 DEF Keeps

LEMMA OrderedFacts ==
  ASSUME NEW k, NEW g, NEW z, Ordered(k, g, z)
  PROVE  /\ k \in Nat /\ \A i \in 0 .. k : /\ g[i] \in Nat /\ z[i] \in Nat
                                           /\ g[i] >= HeapStart /\ z[i] >= 3 * W
                                           /\ g[i] + z[i] <= HeapEnd
                                           /\ g[i] # START_OF_HEAP /\ g[i] # END_OF_HEAP
                                           /\ g[i] \in Addr
         /\ \A i, j \in 0 .. k : i < j => g[i] + z[i] <= g[j]
         /\ \A i, j \in 0 .. k : g[i] = g[j] => i = j
<1>1. k \in Nat /\ \A i, j \in 0 .. k : i < j => g[i] + z[i] <= g[j]
  BY DEF Ordered
<1>2. ASSUME NEW i \in 0 .. k
      PROVE  /\ g[i] \in Nat /\ z[i] \in Nat
             /\ g[i] >= HeapStart /\ z[i] >= 3 * W
             /\ g[i] + z[i] <= HeapEnd
             /\ g[i] # START_OF_HEAP /\ g[i] # END_OF_HEAP
             /\ g[i] \in Addr
  <2>1. g[i] \in Nat /\ z[i] \in Nat /\ z[i] >= 3 * W /\ InHeap(g[i], z[i])
    BY DEF Ordered
  <2> QED BY <2>1, KmallocAssumption
          DEF InHeap, W, HeapStart, HeapEnd, START_OF_HEAP, END_OF_HEAP, Addr
<1>3. ASSUME NEW i \in 0 .. k, NEW j \in 0 .. k, g[i] = g[j] PROVE i = j
  <2>1. i < j => FALSE
    BY <1>1, <1>2, <1>3 DEF W
  <2>2. j < i => FALSE
    BY <1>1, <1>2, <1>3 DEF W
  <2> QED BY <1>1, <2>1, <2>2
<1> QED BY <1>1, <1>2, <1>3

LEMMA AroundBlock ==
  ASSUME NEW k, NEW g, NEW z, Ordered(k, g, z), NEW i \in 0 .. k
  PROVE  Around(g[i], z[i], Before(g, i), After(k, g, i))
<1>1. i # 0 => i - 1 \in 0 .. k /\ i - 1 < i
  BY OrderedFacts
<1>2. i # k => i + 1 \in 0 .. k /\ i < i + 1
  BY OrderedFacts
<1>3. k \in Nat /\ g[i] \in Nat /\ z[i] \in Nat /\ g[i] >= HeapStart /\ g[i] + z[i] <= HeapEnd
  BY OrderedFacts
<1>4. Before(g, i) = START_OF_HEAP \/ (/\ Before(g, i) \in Nat /\ Before(g, i) >= HeapStart
                                       /\ Before(g, i) + 3 * W <= g[i])
  <2>1. i # 0 => /\ g[i - 1] \in Nat /\ z[i - 1] \in Nat /\ z[i - 1] >= 3 * W
                 /\ g[i - 1] >= HeapStart /\ g[i - 1] + z[i - 1] <= g[i]
    BY <1>1, OrderedFacts
  <2> QED BY <1>3, <2>1 DEF Before, W
<1>5. After(k, g, i) = END_OF_HEAP \/ (/\ After(k, g, i) \in Nat
                                       /\ g[i] + z[i] <= After(k, g, i)
                                       /\ After(k, g, i) + 3 * W <= HeapEnd)
  <2>1. i # k => /\ g[i + 1] \in Nat /\ z[i + 1] \in Nat /\ z[i + 1] >= 3 * W
                 /\ g[i] + z[i] <= g[i + 1] /\ g[i + 1] + z[i + 1] <= HeapEnd
    BY <1>2, OrderedFacts
  <2> QED BY <1>3, <2>1, KmallocAssumption DEF After, W, HeapEnd, HeapStart
<1> QED BY <1>3, <1>4, <1>5 DEF Around, START_OF_HEAP, END_OF_HEAP

LEMMA BesideBlock ==
  ASSUME NEW k, NEW g, NEW z, Ordered(k, g, z), NEW j \in 0 .. k,
         NEW a, NEW s, Apart(g[j], z[j], a, s),
         NEW p, p = START_OF_HEAP \/ \E l \in 0 .. k : p = g[l],
         NEW x, x = END_OF_HEAP \/ \E l \in 0 .. k : x = g[l]
  PROVE  Beside(g[j], z[j], a, s, p, x)
<1>1. ASSUME NEW l \in 0 .. k, g[l] # g[j] PROVE Apart(g[j], z[j], g[l], 3 * W)
  <2>1. l < j \/ j < l
    BY <1>1, OrderedFacts
  <2>2. /\ g[j] \in Nat /\ z[j] \in Nat /\ g[l] \in Nat /\ z[l] \in Nat /\ z[l] >= 3 * W
        /\ g[l] + z[l] <= g[j] \/ g[j] + z[j] <= g[l]
    BY <2>1, OrderedFacts
  <2> QED BY <2>2 DEF Apart, W
<1>2. g[j] \in Nat /\ z[j] \in Nat /\ z[j] >= 3 * W
  BY OrderedFacts
<1> QED BY <1>1, <1>2 DEF Beside

LEMMA BeforeAfter ==
  ASSUME NEW k \in Nat, NEW g, NEW i \in 0 .. k
  PROVE  /\ Before(g, i) = START_OF_HEAP \/ \E l \in 0 .. k : Before(g, i) = g[l]
         /\ After(k, g, i) = END_OF_HEAP \/ \E l \in 0 .. k : After(k, g, i) = g[l]
<1>1. i # 0 => i - 1 \in 0 .. k /\ Before(g, i) = g[i - 1]
  BY DEF Before
<1>2. i # k => i + 1 \in 0 .. k /\ After(k, g, i) = g[i + 1]
  BY DEF After
<1> QED BY <1>1, <1>2 DEF Before, After

\* Block i became block c, of d bytes.
LEMMA LinkedReplace ==
  ASSUME NEW k, NEW g, NEW z, Ordered(k, g, z), NEW h, Linked(h, k, g, z),
         NEW i \in 0 .. k, NEW a, NEW s, NEW c \in Nat, NEW d \in Nat, NEW r,
         Around(a, s, Before(g, i), After(k, g, i)),
         \A j \in 0 .. k : j # i => Apart(g[j], z[j], a, s),
         Keeps(h.mem, r.mem, a, s, Before(g, i), After(k, g, i)),
         HeaderIs(r.mem, c, Before(g, i), After(k, g, i), d),
         Points(h, r, Before(g, i), After(k, g, i), c, c)
  PROVE  Linked(r, k, [g EXCEPT ![i] = c], [z EXCEPT ![i] = d])
<1> DEFINE p  == Before(g, i)
           x  == After(k, g, i)
           g2 == [g EXCEPT ![i] = c]
           z2 == [z EXCEPT ![i] = d]
<1>1. /\ k \in Nat /\ g2[i] = c /\ z2[i] = d
      /\ \A j \in 0 .. k : j # i => g2[j] = g[j] /\ z2[j] = z[j]
  BY DEF Ordered
<1> HIDE DEF g2, z2
<1>2. ASSUME NEW j \in 0 .. k, j # i
      PROVE  /\ j # i + 1 => Word(r.mem, prev(g[j])) = Word(h.mem, prev(g[j]))
             /\ j # i - 1 => Word(r.mem, next(g[j])) = Word(h.mem, next(g[j]))
             /\ Word(r.mem, size(g[j])) = Word(h.mem, size(g[j]))
  <2>1. Beside(g[j], z[j], a, s, p, x)
    <3>1. p = START_OF_HEAP \/ \E l \in 0 .. k : p = g[l]
      BY <1>1, BeforeAfter
    <3>2. x = END_OF_HEAP \/ \E l \in 0 .. k : x = g[l]
      BY <1>1, BeforeAfter
    <3>3. Apart(g[j], z[j], a, s)
      BY <1>2
    <3> HIDE DEF p, x
    <3> QED BY <3>1, <3>2, <3>3, BesideBlock
  <2>2. j # i + 1 => g[j] # x
    <3>1. i # k => i + 1 \in 0 .. k
      BY <1>1
    <3> QED BY <1>1, <3>1, OrderedFacts DEF After
  <2>3. j # i - 1 => g[j] # p
    <3>1. i # 0 => i - 1 \in 0 .. k
      BY <1>1
    <3> QED BY <1>1, <3>1, OrderedFacts DEF Before
  <2> HIDE DEF p, x
  <2> QED BY <2>1, <2>2, <2>3, KeepsHeader DEF p, x
<1>3. ASSUME NEW j \in 0 .. k PROVE HeaderIs(h.mem, g[j], Before(g, j), After(k, g, j), z[j])
  BY DEF Linked
<1>4. ASSUME NEW j \in 0 .. k PROVE HeaderIs(r.mem, g2[j], Before(g2, j), After(k, g2, j), z2[j])
  <2>1. j # i + 1 => Before(g2, j) = Before(g, j)
    BY <1>1 DEF Before
  <2>2. j # i - 1 => After(k, g2, j) = After(k, g, j)
    BY <1>1 DEF After
  <2>3. CASE j = i
    BY <1>1, <2>1, <2>2, <2>3 DEF HeaderIs
  <2>4. CASE j # i
    <3>1. j = i + 1 => Word(r.mem, prev(g[j])) = c /\ Before(g2, j) = c
      <4>1. ASSUME j = i + 1 PROVE x = g[j] /\ x # END_OF_HEAP
        BY <1>1, <4>1, OrderedFacts DEF After
      <4> QED BY <1>1, <4>1 DEF Points, Before
    <3>2. j = i - 1 => Word(r.mem, next(g[j])) = c /\ After(k, g2, j) = c
      <4>1. ASSUME j = i - 1 PROVE p = g[j] /\ p # START_OF_HEAP
        BY <1>1, <4>1, OrderedFacts DEF Before
      <4> QED BY <1>1, <4>1 DEF Points, After
    <3>3. g2[j] = g[j] /\ z2[j] = z[j]
      BY <1>1, <2>4
    <3> QED BY <1>2, <1>3, <2>1, <2>2, <2>4, <3>1, <3>2, <3>3 DEF HeaderIs
  <2> QED BY <2>3, <2>4
<1>5. r.first = g2[0]
  <2>1. CASE i = 0
    BY <1>1, <2>1 DEF Points, Before
  <2>2. CASE i # 0
    <3>1. p = g[i - 1] /\ i - 1 \in 0 .. k /\ 0 \in 0 .. k
      BY <1>1, <2>2 DEF Before
    <3>2. p # START_OF_HEAP
      BY <3>1, OrderedFacts
    <3> QED BY <1>1, <2>2, <3>1, <3>2 DEF Points, Linked
  <2> QED BY <2>1, <2>2
<1> QED BY <1>4, <1>5 DEF Linked, g2, z2

\* Block i, which was not the last, is gone.
LEMMA LinkedRemove ==
  ASSUME NEW k, NEW g, NEW z, Ordered(k, g, z), NEW h, Linked(h, k, g, z),
         NEW i \in 0 .. k, i # k, NEW r,
         Keeps(h.mem, r.mem, g[i], z[i], Before(g, i), After(k, g, i)),
         Points(h, r, Before(g, i), After(k, g, i), After(k, g, i), Before(g, i))
  PROVE  Linked(r, k - 1, Without(k, g, i), Without(k, z, i))
<1> DEFINE p  == Before(g, i)
           x  == After(k, g, i)
           g2 == Without(k, g, i)
           z2 == Without(k, z, i)
           at(j) == IF j < i THEN j ELSE j + 1
<1>1. /\ k \in Nat /\ i \in Nat /\ k - 1 \in Nat /\ i + 1 \in 0 .. k
      /\ \A j \in 0 .. k - 1 : at(j) \in 0 .. k /\ at(j) # i /\ g2[j] = g[at(j)] /\ z2[j] = z[at(j)]
  BY DEF Ordered, Without
<1> HIDE DEF g2, z2
<1>2. ASSUME NEW j \in 0 .. k, j # i
      PROVE  /\ j # i + 1 => Word(r.mem, prev(g[j])) = Word(h.mem, prev(g[j]))
             /\ j # i - 1 => Word(r.mem, next(g[j])) = Word(h.mem, next(g[j]))
             /\ Word(r.mem, size(g[j])) = Word(h.mem, size(g[j]))
  <2>0. Apart(g[j], z[j], g[i], z[i])
    <3>1. i < j \/ j < i
      BY <1>1, <1>2
    <3> QED BY <3>1, OrderedFacts DEF Apart
  <2>1. Beside(g[j], z[j], g[i], z[i], p, x)
    <3>1. p = START_OF_HEAP \/ \E l \in 0 .. k : p = g[l]
      BY <1>1, BeforeAfter
    <3>2. x = END_OF_HEAP \/ \E l \in 0 .. k : x = g[l]
      BY <1>1, BeforeAfter
    <3>3. Apart(g[j], z[j], g[i], z[i])
      BY <2>0
    <3> HIDE DEF p, x
    <3> QED BY <3>1, <3>2, <3>3, BesideBlock
  <2>2. j # i + 1 => g[j] # x
    BY <1>1, OrderedFacts DEF After
  <2>3. j # i - 1 => g[j] # p
    <3>1. i # 0 => i - 1 \in 0 .. k
      BY <1>1
    <3> QED BY <1>1, <3>1, OrderedFacts DEF Before
  <2>4. Around(g[i], z[i], p, x)
    BY AroundBlock
  <2> HIDE DEF p, x
  <2> QED BY <2>1, <2>2, <2>3, <2>4, KeepsHeader DEF p, x
<1>3. ASSUME NEW j \in 0 .. k PROVE HeaderIs(h.mem, g[j], Before(g, j), After(k, g, j), z[j])
  BY DEF Linked
<1>4. ASSUME NEW j \in 0 .. k - 1
      PROVE  HeaderIs(r.mem, g2[j], Before(g2, j), After(k - 1, g2, j), z2[j])
  <2>1. Word(r.mem, prev(g2[j])) = Before(g2, j)
    <3>1. CASE j = i
      <4>1. g2[j] = x /\ x # END_OF_HEAP
        BY <1>1, <3>1, OrderedFacts DEF After
      <4>2. Before(g2, j) = p
        <5>1. i # 0 => i - 1 \in 0 .. k - 1 /\ at(i - 1) = i - 1
          BY <1>1
        <5> QED BY <1>1, <3>1, <5>1 DEF Before
      <4> QED BY <4>1, <4>2 DEF Points
    <3>2. CASE j # i
      <4>1. Before(g2, j) = Before(g, at(j)) /\ at(j) # i + 1
        <5>1. j # 0 => j - 1 \in 0 .. k - 1 /\ at(j - 1) = at(j) - 1
          BY <1>1, <3>2
        <5>2. at(j) = 0 <=> j = 0
          BY <1>1, <3>2
        <5> QED BY <1>1, <3>2, <5>1, <5>2 DEF Before
      <4> QED BY <1>1, <1>2, <1>3, <4>1 DEF HeaderIs
    <3> QED BY <3>1, <3>2
  <2>2. Word(r.mem, next(g2[j])) = After(k - 1, g2, j)
    <3>1. CASE j = i - 1
      <4>1. g2[j] = p /\ p # START_OF_HEAP
        BY <1>1, <3>1, OrderedFacts DEF Before
      <4>2. After(k - 1, g2, j) = x
        <5>1. i \in 0 .. k - 1 /\ at(i) = i + 1 /\ j # k - 1 /\ j + 1 = i
          BY <1>1, <3>1
        <5> QED BY <1>1, <3>1, <5>1 DEF After
      <4> QED BY <4>1, <4>2 DEF Points
    <3>2. CASE j # i - 1
      <4>1. After(k - 1, g2, j) = After(k, g, at(j)) /\ at(j) # i - 1
        <5>1. j # k - 1 => j + 1 \in 0 .. k - 1 /\ at(j + 1) = at(j) + 1
          BY <1>1, <3>2
        <5>2. at(j) = k <=> j = k - 1
          BY <1>1, <3>2
        <5>3. at(j) # i - 1
          BY <1>1, <3>2
        <5> QED BY <1>1, <3>2, <5>1, <5>2, <5>3 DEF After
      <4> QED BY <1>1, <1>2, <1>3, <4>1 DEF HeaderIs
    <3> QED BY <3>1, <3>2
  <2>3. Word(r.mem, size(g2[j])) = z2[j]
    BY <1>1, <1>2, <1>3 DEF HeaderIs
  <2> QED BY <2>1, <2>2, <2>3 DEF HeaderIs
<1>5. r.first = g2[0]
  <2>1. CASE i = 0
    <3>1. g2[0] = g[1] /\ x = g[1]
      BY <1>1, <2>1 DEF After
    <3> QED BY <2>1, <3>1 DEF Points, Before
  <2>2. CASE i # 0
    <3>1. p = g[i - 1] /\ i - 1 \in 0 .. k /\ 0 \in 0 .. k - 1 /\ at(0) = 0
      BY <1>1, <2>2 DEF Before
    <3>2. p # START_OF_HEAP
      BY <3>1, OrderedFacts
    <3> QED BY <1>1, <2>2, <3>1, <3>2 DEF Points, Linked
  <2> QED BY <2>1, <2>2
<1> QED BY <1>4, <1>5 DEF Linked, g2, z2

\* A new block lies before block i.
LEMMA LinkedInsert ==
  ASSUME NEW k, NEW g, NEW z, Ordered(k, g, z), NEW h, Linked(h, k, g, z),
         NEW i \in 0 .. k, NEW a, NEW s, NEW r,
         Around(a, s, Before(g, i), g[i]),
         \A j \in 0 .. k : Apart(g[j], z[j], a, s),
         Inserted(h, r, a, s, Before(g, i), g[i])
  PROVE  Linked(r, k + 1, With(k, g, i, a), With(k, z, i, s))
<1> DEFINE p  == Before(g, i)
           g2 == With(k, g, i, a)
           z2 == With(k, z, i, s)
           at(j) == IF j < i THEN j ELSE j - 1
<1>1. /\ k \in Nat /\ i \in Nat /\ k + 1 \in Nat /\ i \in 0 .. k + 1
      /\ g2[i] = a /\ z2[i] = s
      /\ \A j \in 0 .. k + 1 : j # i => at(j) \in 0 .. k /\ g2[j] = g[at(j)] /\ z2[j] = z[at(j)]
  BY DEF Ordered, With
<1>0. /\ HeaderIs(r.mem, a, p, g[i], s) /\ Points(h, r, p, g[i], a, a)
      /\ Keeps(h.mem, r.mem, a, s, p, g[i])
  BY DEF Inserted
<1> HIDE DEF g2, z2
<1>2. ASSUME NEW j \in 0 .. k
      PROVE  /\ j # i => Word(r.mem, prev(g[j])) = Word(h.mem, prev(g[j]))
             /\ j # i - 1 => Word(r.mem, next(g[j])) = Word(h.mem, next(g[j]))
             /\ Word(r.mem, size(g[j])) = Word(h.mem, size(g[j]))
  <2>1. Beside(g[j], z[j], a, s, p, g[i])
    <3>1. p = START_OF_HEAP \/ \E l \in 0 .. k : p = g[l]
      BY <1>1, BeforeAfter
    <3>3. Apart(g[j], z[j], a, s)
      BY <1>2
    <3> HIDE DEF p
    <3> QED BY <3>1, <3>3, BesideBlock
  <2>2. j # i => g[j] # g[i]
    BY OrderedFacts
  <2>3. j # i - 1 => g[j] # p
    <3>1. i # 0 => i - 1 \in 0 .. k
      BY <1>1
    <3> QED BY <1>1, <3>1, OrderedFacts DEF Before
  <2> HIDE DEF p
  <2> QED BY <1>0, <2>1, <2>2, <2>3, KeepsHeader DEF p
<1>3. ASSUME NEW j \in 0 .. k PROVE HeaderIs(h.mem, g[j], Before(g, j), After(k, g, j), z[j])
  BY DEF Linked
<1>4. ASSUME NEW j \in 0 .. k + 1
      PROVE  HeaderIs(r.mem, g2[j], Before(g2, j), After(k + 1, g2, j), z2[j])
  <2>1. CASE j = i
    <3>1. Before(g2, i) = p
      <4>1. i # 0 => i - 1 \in 0 .. k + 1 /\ i - 1 # i /\ at(i - 1) = i - 1
        BY <1>1
      <4> QED BY <1>1, <4>1 DEF Before
    <3>2. After(k + 1, g2, i) = g[i]
      <4>1. i + 1 \in 0 .. k + 1 /\ i + 1 # i /\ at(i + 1) = i /\ i # k + 1
        BY <1>1
      <4> QED BY <1>1, <4>1 DEF After
    <3> QED BY <1>0, <1>1, <2>1, <3>1, <3>2
  <2>2. CASE j # i
    <3>1. Word(r.mem, prev(g2[j])) = Before(g2, j)
      <4>1. CASE j = i + 1
        <5>1. g2[j] = g[i] /\ Before(g2, j) = a /\ g[i] # END_OF_HEAP
          BY <1>1, <4>1, OrderedFacts DEF Before
        <5> QED BY <1>0, <5>1 DEF Points
      <4>2. CASE j # i + 1
        <5>1. Before(g2, j) = Before(g, at(j)) /\ at(j) # i
          <6>1. j # 0 => j - 1 \in 0 .. k + 1 /\ j - 1 # i /\ at(j - 1) = at(j) - 1
            BY <1>1, <2>2, <4>2
          <6>2. at(j) = 0 <=> j = 0
            BY <1>1, <2>2, <4>2
          <6> QED BY <1>1, <2>2, <4>2, <6>1, <6>2 DEF Before
        <5> QED BY <1>1, <1>2, <1>3, <2>2, <5>1 DEF HeaderIs
      <4> QED BY <4>1, <4>2
    <3>2. Word(r.mem, next(g2[j])) = After(k + 1, g2, j)
      <4>1. CASE j = i - 1
        <5>1. g2[j] = p /\ After(k + 1, g2, j) = a /\ p # START_OF_HEAP
          BY <1>1, <4>1, OrderedFacts DEF Before, After
        <5> QED BY <1>0, <5>1 DEF Points
      <4>2. CASE j # i - 1
        <5>1. After(k + 1, g2, j) = After(k, g, at(j)) /\ at(j) # i - 1
          <6>1. j # k + 1 => j + 1 \in 0 .. k + 1 /\ j + 1 # i /\ at(j + 1) = at(j) + 1
            BY <1>1, <2>2, <4>2
          <6>2. at(j) = k <=> j = k + 1
            BY <1>1, <2>2, <4>2
          <6>3. at(j) # i - 1
            BY <1>1, <2>2, <4>2
          <6> QED BY <1>1, <2>2, <4>2, <6>1, <6>2, <6>3 DEF After
        <5> QED BY <1>1, <1>2, <1>3, <2>2, <5>1 DEF HeaderIs
      <4> QED BY <4>1, <4>2
    <3>3. Word(r.mem, size(g2[j])) = z2[j]
      BY <1>1, <1>2, <1>3, <2>2 DEF HeaderIs
    <3> QED BY <3>1, <3>2, <3>3 DEF HeaderIs
  <2> QED BY <2>1, <2>2
<1>5. r.first = g2[0]
  <2>1. CASE i = 0
    BY <1>0, <1>1, <2>1 DEF Points, Before
  <2>2. CASE i # 0
    <3>1. p = g[i - 1] /\ i - 1 \in 0 .. k /\ 0 \in 0 .. k + 1 /\ at(0) = 0
      BY <1>1, <2>2 DEF Before
    <3>2. p # START_OF_HEAP
      BY <3>1, OrderedFacts
    <3> QED BY <1>0, <1>1, <2>2, <3>1, <3>2 DEF Points, Linked
  <2> QED BY <2>1, <2>2
<1> QED BY <1>4, <1>5 DEF Linked, g2, z2

-----------------------------------------------------------------------------
(***************************************************************************)
(* The blocks after one was handed out or given back.                      *)
(***************************************************************************)
LEMMA HeldFacts ==
  ASSUME NEW lv, Held(lv), NEW y \in lv
  PROVE  /\ y.ptr \in Nat /\ y.size \in Sizes /\ y.by \in Task /\ y.size \in Nat
         /\ Start(y) \in Nat /\ Length(y) \in Nat
         /\ Start(y) >= HeapStart /\ Length(y) >= W /\ Start(y) + Length(y) <= HeapEnd
         /\ y.ptr = Start(y) + W /\ Length(y) = y.size + W
         /\ BlockT(y)
<1>1. BlockT(y) /\ InHeap(Start(y), Length(y))
  BY DEF Held
<1>2. y.ptr \in Nat /\ y.size \in Sizes /\ y.by \in Task /\ y.size \in Nat
  BY <1>1, KmallocAssumption DEF BlockT
<1> QED BY <1>1, <1>2 DEF InHeap, Start, Length, W, HeapStart

LEMMA SizedKept ==
  ASSUME NEW k, NEW g, NEW z, NEW lv, Layout(k, g, z, lv), NEW h, Sized(h, lv),
         NEW r, NEW a, NEW s, NEW p, NEW x,
         Around(a, s, p, x), Keeps(h.mem, r.mem, a, s, p, x),
         p = START_OF_HEAP \/ \E l \in 0 .. k : p = g[l],
         x = END_OF_HEAP \/ \E l \in 0 .. k : x = g[l],
         NEW keep, keep \subseteq lv,
         \A y \in keep : Apart(Start(y), Length(y), a, s)
  PROVE  Sized(r, keep)
<1> SUFFICES ASSUME NEW y \in keep PROVE Word(r.mem, Start(y)) = y.size
  BY DEF Sized
<1>1. /\ Start(y) \in Nat /\ Length(y) \in Nat /\ Length(y) >= W
      /\ Apart(Start(y), Length(y), a, s)
  BY HeldFacts DEF Layout
<1>2. ASSUME NEW l \in 0 .. k PROVE Apart(Start(y), Length(y), g[l], z[l]) /\ g[l] \in Nat
                                    /\ z[l] \in Nat /\ z[l] >= 3 * W
  BY OrderedFacts DEF Layout, AllApart
<1>3. Clear(Start(y), p, x)
  <2>1. p # START_OF_HEAP => Start(y) + W <= next(p) \/ Start(y) >= next(p) + W
    BY <1>1, <1>2 DEF Apart, next, W
  <2>2. x # END_OF_HEAP => Start(y) + W <= prev(x) \/ Start(y) >= prev(x) + W
    BY <1>1, <1>2 DEF Apart, prev, W
  <2> QED BY <2>1, <2>2 DEF Clear
<1>4. Start(y) + W <= a \/ Start(y) >= a + s
  BY <1>1 DEF Apart, Around, W
<1>5. Word(r.mem, Start(y)) = Word(h.mem, Start(y))
  BY <1>1, <1>3, <1>4 DEF Keeps
<1> QED BY <1>5 DEF Sized

\* kmalloc() keeps the front of block i and leaves the rest free.
LEMMA LayoutSplit ==
  ASSUME NEW k, NEW g, NEW z, NEW lv, Layout(k, g, z, lv), NEW i \in 0 .. k,
         NEW y, BlockT(y), Start(y) = g[i],
         z[i] - Length(y) >= 3 * W,
         NEW c, c = g[i] + Length(y), NEW d, d = z[i] - Length(y)
  PROVE  Layout(k, [g EXCEPT ![i] = c], [z EXCEPT ![i] = d], lv \cup {y})
<1> DEFINE g2 == [g EXCEPT ![i] = c]
           z2 == [z EXCEPT ![i] = d]
<1>0. /\ Length(y) \in Nat /\ g[i] \in Nat /\ z[i] \in Nat /\ g[i] >= HeapStart
      /\ g[i] + z[i] <= HeapEnd /\ k \in Nat /\ HeapEnd \in Int /\ HeapStart \in Int
  <2>1. y.size \in Nat
    BY KmallocAssumption DEF BlockT
  <2>2. Length(y) \in Nat
    BY <2>1 DEF Length, W
  <2>3. HeapEnd \in Int /\ HeapStart \in Int
    BY KmallocAssumption DEF HeapEnd, HeapStart, W
  <2> QED BY <2>2, <2>3, OrderedFacts DEF Layout
<1>1. c \in Nat /\ d \in Nat /\ c >= g[i] /\ c + d = g[i] + z[i] /\ d >= 3 * W
  BY <1>0 DEF W
<1>2. /\ g2 \in [0 .. k -> Nat] /\ z2 \in [0 .. k -> Nat] /\ g2[i] = c /\ z2[i] = d
      /\ \A j \in 0 .. k : j # i => g2[j] = g[j] /\ z2[j] = z[j]
  BY <1>1 DEF Layout, Ordered
<1> HIDE DEF g2, z2
<1>3. Ordered(k, g2, z2)
  <2>1. ASSUME NEW j \in 0 .. k PROVE InHeap(g2[j], z2[j]) /\ z2[j] >= 3 * W
    <3>1. CASE j = i
      <4>1. c >= HeapStart /\ d >= 3 * W /\ c + d <= HeapEnd
        BY <1>0, <1>1
      <4> QED BY <1>2, <3>1, <4>1 DEF InHeap
    <3>2. CASE j # i
      BY <1>2, <3>2 DEF Layout, Ordered
    <3> QED BY <3>1, <3>2
  <2>2. ASSUME NEW j \in 0 .. k, NEW l \in 0 .. k, j < l PROVE g2[j] + z2[j] <= g2[l]
    <3>1. g[j] + z[j] <= g[l] /\ g[j] \in Nat /\ z[j] \in Nat /\ g[l] \in Nat /\ j # l
      BY <2>2, OrderedFacts DEF Layout
    <3>2. g2[l] >= g[l] /\ g2[j] + z2[j] = g[j] + z[j] /\ g2[l] \in Nat
      BY <1>1, <1>2, <3>1, SMTT(30)
    <3> QED BY <3>1, <3>2
  <2>3. g2[k] + z2[k] = HeapEnd
    <3>1. g[k] + z[k] = HeapEnd /\ k \in 0 .. k
      BY <1>0 DEF Layout, Ordered
    <3> QED BY <1>1, <1>2, <3>1
  <2> QED BY <1>0, <1>2, <2>1, <2>2, <2>3 DEF Ordered
<1>4. ASSUME NEW v \in lv PROVE Apart(Start(v), Length(v), g[i], z[i])
                                /\ Start(v) \in Nat /\ Length(v) \in Nat
  BY HeldFacts DEF Layout, AllApart
<1>5. Held(lv \cup {y})
  <2>1. InHeap(Start(y), Length(y))
    <3>1. g[i] + Length(y) <= HeapEnd
      BY <1>0, <1>1 DEF W
    <3> QED BY <1>0, <3>1 DEF InHeap
  <2>2. ASSUME NEW v \in lv
        PROVE  /\ Apart(Start(v), Length(v), Start(y), Length(y))
               /\ Apart(Start(y), Length(y), Start(v), Length(v))
    BY <1>0, <1>1, <1>4 DEF Apart
  <2> QED BY <2>1, <2>2 DEF Held, Layout
<1>6. AllApart(k, g2, z2, lv \cup {y})
  <2> SUFFICES ASSUME NEW v \in lv \cup {y}, NEW j \in 0 .. k
               PROVE  Apart(Start(v), Length(v), g2[j], z2[j])
    BY DEF AllApart
  <2>1. CASE v \in lv /\ j # i
    BY <1>2, <2>1 DEF Layout, AllApart
  <2>2. CASE v \in lv /\ j = i
    <3>1. Apart(Start(v), Length(v), c, d)
      BY <1>0, <1>1, <1>4, <2>2 DEF Apart
    <3> QED BY <1>2, <2>2, <3>1
  <2>3. CASE v = y /\ j = i
    BY <1>0, <1>1, <1>2, <2>3, SMTT(30) DEF Apart
  <2>4. CASE v = y /\ j # i
    <3>1. i < j \/ j < i
      BY <1>0, <2>4
    <3>2. g[j] + z[j] <= g[i] \/ g[i] + z[i] <= g[j]
      BY <3>1, OrderedFacts DEF Layout
    <3>3. g[j] \in Nat /\ z[j] \in Nat
      BY OrderedFacts DEF Layout
    <3>4. Apart(g[i], Length(y), g[j], z[j])
      BY <1>0, <1>1, <3>2, <3>3 DEF Apart, W
    <3> QED BY <1>2, <2>4, <3>4
  <2> QED BY <2>1, <2>2, <2>3, <2>4
<1>7. AllCovered(k, g2, z2, lv \cup {y})
  <2> SUFFICES ASSUME NEW p \in Addr, ~ \E v \in lv \cup {y} : Covers(Start(v), Length(v), p)
               PROVE  \E j \in 0 .. k : Covers(g2[j], z2[j], p)
    BY DEF AllCovered
  <2>0. p \in Int
    BY KmallocAssumption DEF Addr, HeapStart, HeapEnd, W
  <2>1. PICK j \in 0 .. k : Covers(g[j], z[j], p)
    BY DEF Layout, AllCovered
  <2>2. Covers(g2[j], z2[j], p)
    <3>1. CASE j = i
      <4>1. ~ Covers(Start(y), Length(y), p)
        OBVIOUS
      <4> QED BY <1>0, <1>1, <1>2, <2>0, <2>1, <3>1, <4>1, SMTT(30) DEF Covers
    <3>2. CASE j # i
      BY <1>2, <2>1, <3>2
    <3> QED BY <3>1, <3>2
  <2> QED BY <2>2
<1> QED BY <1>3, <1>5, <1>6, <1>7 DEF Layout, g2, z2

\* kfree() joins block y with the first free block, which follows it.
LEMMA LayoutMerge ==
  ASSUME NEW k, NEW g, NEW z, NEW lv, Layout(k, g, z, lv),
         NEW y \in lv, Start(y) + Length(y) = g[0],
         NEW d, d = Length(y) + z[0]
  PROVE  Layout(k, [g EXCEPT ![0] = Start(y)], [z EXCEPT ![0] = d], lv \ {y})
<1> DEFINE c  == Start(y)
           g2 == [g EXCEPT ![0] = c]
           z2 == [z EXCEPT ![0] = d]
<1>0. /\ Length(y) \in Nat /\ c \in Nat /\ g[0] \in Nat /\ z[0] \in Nat /\ c >= HeapStart
      /\ g[0] + z[0] <= HeapEnd /\ k \in Nat /\ 0 \in 0 .. k /\ Length(y) >= W /\ z[0] >= 3 * W
  <2>1. k \in Nat /\ 0 \in 0 .. k
    BY OrderedFacts DEF Layout
  <2> QED BY <2>1, HeldFacts, OrderedFacts DEF Layout
<1>1. d \in Nat /\ c <= g[0] /\ c + d = g[0] + z[0] /\ d >= 3 * W
  BY <1>0 DEF W
<1>2. /\ g2 \in [0 .. k -> Nat] /\ z2 \in [0 .. k -> Nat] /\ g2[0] = c /\ z2[0] = d
      /\ \A j \in 0 .. k : j # 0 => g2[j] = g[j] /\ z2[j] = z[j]
  BY <1>0, <1>1 DEF Layout, Ordered
<1> HIDE DEF g2, z2
<1>3. Ordered(k, g2, z2)
  <2>1. ASSUME NEW j \in 0 .. k PROVE InHeap(g2[j], z2[j]) /\ z2[j] >= 3 * W
    <3>1. CASE j = 0
      BY <1>0, <1>1, <1>2, <3>1 DEF InHeap, HeapStart, W
    <3>2. CASE j # 0
      BY <1>2, <3>2 DEF Layout, Ordered
    <3> QED BY <3>1, <3>2
  <2>2. ASSUME NEW j \in 0 .. k, NEW l \in 0 .. k, j < l PROVE g2[j] + z2[j] <= g2[l]
    <3>1. g[j] + z[j] <= g[l] /\ g[j] \in Nat /\ z[j] \in Nat /\ g[l] \in Nat /\ l # 0
      BY <2>2, OrderedFacts DEF Layout
    <3>2. g2[l] = g[l] /\ g2[j] + z2[j] = g[j] + z[j]
      BY <1>1, <1>2, <3>1
    <3> QED BY <3>1, <3>2
  <2>3. g2[k] + z2[k] = HeapEnd
    <3>1. g[k] + z[k] = HeapEnd /\ k \in 0 .. k
      BY <1>0 DEF Layout, Ordered
    <3> QED BY <1>1, <1>2, <3>1
  <2> QED BY <1>0, <1>2, <2>1, <2>2, <2>3 DEF Ordered
<1>4. ASSUME NEW v \in lv, v # y
      PROVE  /\ Apart(Start(v), Length(v), g[0], z[0])
             /\ Apart(Start(v), Length(v), c, Length(y))
             /\ Start(v) \in Nat /\ Length(v) \in Nat /\ Length(v) >= W
  BY <1>0, <1>4, HeldFacts DEF Layout, AllApart, Held
<1>5. Held(lv \ {y})
  BY DEF Held, Layout
<1>6. AllApart(k, g2, z2, lv \ {y})
  <2> SUFFICES ASSUME NEW v \in lv, v # y, NEW j \in 0 .. k
               PROVE  Apart(Start(v), Length(v), g2[j], z2[j])
    BY DEF AllApart
  <2>1. CASE j # 0
    BY <1>2, <2>1 DEF Layout, AllApart
  <2>2. CASE j = 0
    <3>1. Apart(Start(v), Length(v), c, d)
      BY <1>0, <1>1, <1>4 DEF Apart, W
    <3> QED BY <1>2, <2>2, <3>1
  <2> QED BY <2>1, <2>2
<1>7. AllCovered(k, g2, z2, lv \ {y})
  <2> SUFFICES ASSUME NEW p \in Addr, ~ \E v \in lv \ {y} : Covers(Start(v), Length(v), p)
               PROVE  \E j \in 0 .. k : Covers(g2[j], z2[j], p)
    BY DEF AllCovered
  <2>0. p \in Int
    BY KmallocAssumption DEF Addr, HeapStart, HeapEnd, W
  <2>1. CASE Covers(Start(y), Length(y), p)
    <3>1. Covers(g2[0], z2[0], p)
      BY <1>0, <1>1, <1>2, <2>0, <2>1 DEF Covers
    <3> QED BY <1>0, <3>1
  <2>2. CASE ~ Covers(Start(y), Length(y), p)
    <3>1. PICK j \in 0 .. k : Covers(g[j], z[j], p)
      BY <2>2 DEF Layout, AllCovered
    <3>2. Covers(g2[j], z2[j], p)
      <4>1. CASE j = 0
        BY <1>0, <1>1, <1>2, <2>0, <3>1, <4>1 DEF Covers
      <4>2. CASE j # 0
        BY <1>2, <3>1, <4>2
      <4> QED BY <4>1, <4>2
    <3> QED BY <3>2
  <2> QED BY <2>1, <2>2
<1> QED BY <1>3, <1>5, <1>6, <1>7 DEF Layout, g2, z2

\* kmalloc() takes the whole of block i, which is not the last.
LEMMA LayoutTake ==
  ASSUME NEW k, NEW g, NEW z, NEW lv, Layout(k, g, z, lv), NEW i \in 0 .. k, i # k,
         NEW y, BlockT(y), Start(y) = g[i], Length(y) = z[i]
  PROVE  Layout(k - 1, Without(k, g, i), Without(k, z, i), lv \cup {y})
<1> DEFINE g2 == Without(k, g, i)
           z2 == Without(k, z, i)
           at(j) == IF j < i THEN j ELSE j + 1
<1>0. Ordered(k, g, z) /\ k \in Nat /\ i \in Nat /\ k - 1 \in Nat
  BY OrderedFacts DEF Layout
<1>1. /\ g2 \in [0 .. k - 1 -> Nat] /\ z2 \in [0 .. k - 1 -> Nat]
      /\ \A j \in 0 .. k - 1 : /\ at(j) \in 0 .. k /\ at(j) # i
                               /\ g2[j] = g[at(j)] /\ z2[j] = z[at(j)]
      /\ \A j, l \in 0 .. k - 1 : j < l => at(j) < at(l)
      /\ \A j \in 0 .. k : j # i => \E l \in 0 .. k - 1 : at(l) = j
      /\ at(k - 1) = k
  <2>1. ASSUME NEW j \in 0 .. k - 1 PROVE at(j) \in 0 .. k /\ at(j) # i
    BY <1>0
  <2>2. ASSUME NEW j \in 0 .. k - 1
        PROVE  g2[j] = g[at(j)] /\ z2[j] = z[at(j)] /\ g2[j] \in Nat /\ z2[j] \in Nat
    <3>1. g2[j] = g[at(j)] /\ z2[j] = z[at(j)]
      BY <1>0 DEF Without
    <3> QED BY <1>0, <2>1, <3>1, OrderedFacts
  <2>3. g2 \in [0 .. k - 1 -> Nat] /\ z2 \in [0 .. k - 1 -> Nat]
    <3>1. g2 = [j \in 0 .. k - 1 |-> g2[j]] /\ z2 = [j \in 0 .. k - 1 |-> z2[j]]
      BY DEF Without
    <3> HIDE DEF g2, z2
    <3> QED BY <2>2, <3>1
  <2>4. ASSUME NEW j \in 0 .. k, j # i PROVE \E l \in 0 .. k - 1 : at(l) = j
    <3>1. CASE j < i
      BY <1>0, <3>1
    <3>2. CASE j > i
      <4>1. j - 1 \in 0 .. k - 1 /\ at(j - 1) = j
        BY <1>0, <3>2
      <4> QED BY <4>1
    <3> QED BY <1>0, <2>4, <3>1, <3>2
  <2>5. at(k - 1) = k /\ \A j, l \in 0 .. k - 1 : j < l => at(j) < at(l)
    BY <1>0
  <2> QED BY <2>1, <2>2, <2>3, <2>4, <2>5
<1> HIDE DEF g2, z2, at
<1>3. Ordered(k - 1, g2, z2)
  <2>1. ASSUME NEW j \in 0 .. k - 1 PROVE InHeap(g2[j], z2[j]) /\ z2[j] >= 3 * W
    BY <1>0, <1>1 DEF Ordered
  <2>2. ASSUME NEW j \in 0 .. k - 1, NEW l \in 0 .. k - 1, j < l PROVE g2[j] + z2[j] <= g2[l]
    <3>1. at(j) \in 0 .. k /\ at(l) \in 0 .. k /\ at(j) < at(l)
      BY <1>1, <2>2
    <3>2. g[at(j)] + z[at(j)] <= g[at(l)]
      BY <1>0, <3>1, OrderedFacts
    <3> QED BY <1>1, <3>2
  <2>3. g2[k - 1] + z2[k - 1] = HeapEnd
    <3>1. k - 1 \in 0 .. k - 1
      BY <1>0
    <3> QED BY <1>0, <1>1, <3>1 DEF Ordered
  <2> QED BY <1>0, <1>1, <2>1, <2>2, <2>3 DEF Ordered
<1>5. Held(lv \cup {y})
  <2>1. InHeap(Start(y), Length(y))
    BY <1>0 DEF Ordered
  <2>2. ASSUME NEW v \in lv
        PROVE  /\ Apart(Start(v), Length(v), Start(y), Length(y))
               /\ Apart(Start(y), Length(y), Start(v), Length(v))
    BY DEF Apart, Layout, AllApart
  <2> QED BY <2>1, <2>2 DEF Held, Layout
<1>6. AllApart(k - 1, g2, z2, lv \cup {y})
  <2> SUFFICES ASSUME NEW v \in lv \cup {y}, NEW j \in 0 .. k - 1
               PROVE  Apart(Start(v), Length(v), g2[j], z2[j])
    BY DEF AllApart
  <2>1. CASE v \in lv
    BY <1>1, <2>1 DEF Layout, AllApart
  <2>2. CASE v = y
    <3>1. at(j) \in 0 .. k /\ (i < at(j) \/ at(j) < i)
      BY <1>0, <1>1, SMTT(30)
    <3>2. Apart(g[i], z[i], g[at(j)], z[at(j)])
      BY <1>0, <3>1, OrderedFacts DEF Apart
    <3> QED BY <1>1, <2>2, <3>2
  <2> QED BY <2>1, <2>2
<1>7. AllCovered(k - 1, g2, z2, lv \cup {y})
  <2> SUFFICES ASSUME NEW p \in Addr, ~ \E v \in lv \cup {y} : Covers(Start(v), Length(v), p)
               PROVE  \E j \in 0 .. k - 1 : Covers(g2[j], z2[j], p)
    BY DEF AllCovered
  <2>1. PICK j \in 0 .. k : Covers(g[j], z[j], p)
    BY DEF Layout, AllCovered
  <2>2. j # i
    BY <2>1
  <2>3. PICK l \in 0 .. k - 1 : at(l) = j
    BY <1>1, <2>2
  <2> QED BY <1>1, <2>1, <2>3
<1> QED BY <1>3, <1>5, <1>6, <1>7 DEF Layout, g2, z2

\* kfree() puts block y before block i.
LEMMA LayoutGive ==
  ASSUME NEW k, NEW g, NEW z, NEW lv, Layout(k, g, z, lv), NEW i \in 0 .. k,
         NEW y \in lv, Length(y) >= 3 * W, Start(y) < g[i], i # 0 => g[i - 1] < Start(y)
  PROVE  Layout(k + 1, With(k, g, i, Start(y)), With(k, z, i, Length(y)), lv \ {y})
<1> DEFINE g2 == With(k, g, i, Start(y))
           z2 == With(k, z, i, Length(y))
           at(j) == IF j < i THEN j ELSE j - 1
<1>0. /\ Ordered(k, g, z) /\ k \in Nat /\ i \in Nat /\ Held(lv) /\ i \in 0 .. k + 1
      /\ Start(y) \in Nat /\ Length(y) \in Nat /\ Length(y) >= 3 * W /\ InHeap(Start(y), Length(y))
  <2>1. Ordered(k, g, z) /\ Held(lv)
    BY DEF Layout
  <2>2. k \in Nat
    BY <2>1, OrderedFacts
  <2>3. InHeap(Start(y), Length(y))
    BY <2>1 DEF Held
  <2> QED BY <2>1, <2>2, <2>3, HeldFacts
<1>1. /\ g2 \in [0 .. k + 1 -> Nat] /\ z2 \in [0 .. k + 1 -> Nat]
      /\ g2[i] = Start(y) /\ z2[i] = Length(y)
      /\ \A j \in 0 .. k + 1 : j # i => /\ at(j) \in 0 .. k
                                        /\ g2[j] = g[at(j)] /\ z2[j] = z[at(j)]
      /\ \A j, l \in 0 .. k + 1 : j < l /\ j # i /\ l # i => at(j) < at(l)
      /\ \A j \in 0 .. k + 1 : j < i => at(j) < i
      /\ \A j \in 0 .. k + 1 : i < j => i <= at(j)
      /\ \A j \in 0 .. k : \E l \in 0 .. k + 1 : l # i /\ at(l) = j
      /\ at(k + 1) = k
  <2>1. ASSUME NEW j \in 0 .. k + 1, j # i PROVE at(j) \in 0 .. k
    BY <1>0, <2>1
  <2>2. ASSUME NEW j \in 0 .. k + 1, j # i
        PROVE  g2[j] = g[at(j)] /\ z2[j] = z[at(j)] /\ g2[j] \in Nat /\ z2[j] \in Nat
    <3>1. g2[j] = g[at(j)] /\ z2[j] = z[at(j)]
      BY <1>0, <2>2 DEF With
    <3> QED BY <1>0, <2>1, <2>2, <3>1, OrderedFacts
  <2>3. g2[i] = Start(y) /\ z2[i] = Length(y)
    BY <1>0 DEF With
  <2>4. g2 \in [0 .. k + 1 -> Nat] /\ z2 \in [0 .. k + 1 -> Nat]
    <3>1. g2 = [j \in 0 .. k + 1 |-> g2[j]] /\ z2 = [j \in 0 .. k + 1 |-> z2[j]]
      BY DEF With
    <3> HIDE DEF g2, z2
    <3> QED BY <1>0, <2>2, <2>3, <3>1
  <2>5. ASSUME NEW j \in 0 .. k PROVE \E l \in 0 .. k + 1 : l # i /\ at(l) = j
    <3>1. CASE j < i
      <4>1. j \in 0 .. k + 1 /\ at(j) = j /\ j # i
        BY <1>0, <3>1
      <4> QED BY <4>1
    <3>2. CASE ~(j < i)
      <4>1. j + 1 \in 0 .. k + 1 /\ at(j + 1) = j /\ j + 1 # i
        BY <1>0, <3>2
      <4> QED BY <4>1
    <3> QED BY <3>1, <3>2
  <2>6. /\ at(k + 1) = k
        /\ \A j, l \in 0 .. k + 1 : j < l /\ j # i /\ l # i => at(j) < at(l)
        /\ \A j \in 0 .. k + 1 : j < i => at(j) < i
        /\ \A j \in 0 .. k + 1 : i < j => i <= at(j)
    BY <1>0
  <2> QED BY <2>1, <2>2, <2>3, <2>4, <2>5, <2>6
<1> HIDE DEF g2, z2, at
<1>2. ASSUME NEW j \in 0 .. k
      PROVE  /\ j < i => g[j] + z[j] <= Start(y)
             /\ i <= j => Start(y) + Length(y) <= g[j]
  <2>0. /\ g[j] \in Nat /\ z[j] \in Nat /\ z[j] >= 3 * W /\ g[i] \in Nat /\ z[i] \in Nat
        /\ j \in Nat
    BY <1>0, OrderedFacts
  <2>1. Apart(Start(y), Length(y), g[j], z[j])
    BY DEF Layout, AllApart
  <2>2. ASSUME j < i PROVE g[j] < Start(y)
    <3>1. i - 1 \in 0 .. k /\ (j = i - 1 \/ j < i - 1) /\ i # 0
      BY <1>0, <2>0, <2>2
    <3>2. g[i - 1] \in Nat /\ g[i - 1] < Start(y)
      BY <1>0, <3>1, OrderedFacts
    <3>3. j < i - 1 => g[j] + z[j] <= g[i - 1]
      BY <1>0, <3>1, OrderedFacts
    <3> QED BY <1>0, <2>0, <3>1, <3>2, <3>3
  <2>3. ASSUME i <= j PROVE Start(y) < g[j]
    <3>1. i = j \/ g[i] + z[i] <= g[j]
      BY <1>0, <2>3, OrderedFacts
    <3> QED BY <1>0, <2>0, <3>1
  <2> QED BY <1>0, <2>0, <2>1, <2>2, <2>3 DEF Apart, W
<1>3. Ordered(k + 1, g2, z2)
  <2>1. ASSUME NEW j \in 0 .. k + 1 PROVE InHeap(g2[j], z2[j]) /\ z2[j] >= 3 * W
    BY <1>0, <1>1 DEF Ordered
  <2>2. ASSUME NEW j \in 0 .. k + 1, NEW l \in 0 .. k + 1, j < l PROVE g2[j] + z2[j] <= g2[l]
    <3>1. CASE j # i /\ l # i
      <4>1. at(j) \in 0 .. k /\ at(l) \in 0 .. k /\ at(j) < at(l)
        BY <1>1, <2>2, <3>1
      <4>2. g[at(j)] + z[at(j)] <= g[at(l)]
        BY <1>0, <4>1, OrderedFacts
      <4> QED BY <1>1, <3>1, <4>2
    <3>2. CASE j = i
      <4>1. l # i /\ i < l
        BY <1>0, <2>2, <3>2
      <4> QED BY <1>0, <1>1, <1>2, <3>2, <4>1
    <3>3. CASE l = i
      <4>1. j # i /\ j < i
        BY <1>0, <2>2, <3>3
      <4> QED BY <1>0, <1>1, <1>2, <3>3, <4>1
    <3> QED BY <3>1, <3>2, <3>3
  <2>3. g2[k + 1] + z2[k + 1] = HeapEnd
    <3>1. k + 1 \in 0 .. k + 1 /\ k + 1 # i
      BY <1>0
    <3>2. g2[k + 1] = g[k] /\ z2[k + 1] = z[k]
      BY <1>1, <3>1
    <3> QED BY <1>0, <3>2 DEF Ordered
  <2>4. k + 1 \in Nat
    BY <1>0
  <2>5. g2 \in [0 .. k + 1 -> Nat] /\ z2 \in [0 .. k + 1 -> Nat]
    BY <1>1, Zenon
  <2> QED BY <2>1, <2>2, <2>3, <2>4, <2>5 DEF Ordered
<1>5. Held(lv \ {y})
  BY <1>0 DEF Held
<1>6. AllApart(k + 1, g2, z2, lv \ {y})
  <2> SUFFICES ASSUME NEW v \in lv, v # y, NEW j \in 0 .. k + 1
               PROVE  Apart(Start(v), Length(v), g2[j], z2[j])
    BY DEF AllApart
  <2>1. CASE j # i
    BY <1>1, <2>1 DEF Layout, AllApart
  <2>2. CASE j = i
    <3>1. Apart(Start(v), Length(v), Start(y), Length(y))
      BY <1>0 DEF Held
    <3> QED BY <1>1, <2>2, <3>1
  <2> QED BY <2>1, <2>2
<1>7. AllCovered(k + 1, g2, z2, lv \ {y})
  <2> SUFFICES ASSUME NEW p \in Addr, ~ \E v \in lv \ {y} : Covers(Start(v), Length(v), p)
               PROVE  \E j \in 0 .. k + 1 : Covers(g2[j], z2[j], p)
    BY DEF AllCovered
  <2>1. CASE Covers(Start(y), Length(y), p)
    BY <1>0, <1>1, <2>1
  <2>2. CASE ~ Covers(Start(y), Length(y), p)
    <3>1. PICK j \in 0 .. k : Covers(g[j], z[j], p)
      BY <2>2 DEF Layout, AllCovered
    <3>2. PICK l \in 0 .. k + 1 : l # i /\ at(l) = j
      BY <1>1
    <3> QED BY <1>1, <3>1, <3>2
  <2> QED BY <2>1, <2>2
<1> QED BY <1>3, <1>5, <1>6, <1>7 DEF Layout, g2, z2

-----------------------------------------------------------------------------
(***************************************************************************)
(* Walks along the list.                                                   *)
(***************************************************************************)
\* f is the function that Nth() computes.
WalkOf(f, h) ==
  f = [n \in 0 .. MaxCalls + 1 |->
         IF n = 0 THEN h.first
         ELSE IF f[n - 1] \in Addr THEN Word(h.mem, next(f[n - 1]))
         ELSE f[n - 1]]

NthBlock(k, g) == [n \in 0 .. MaxCalls + 1 |-> IF n <= k THEN g[n] ELSE END_OF_HEAP]

LEMMA WalkNext ==
  ASSUME NEW k, NEW g, NEW z, Ordered(k, g, z), NEW h, Linked(h, k, g, z), k <= MaxCalls,
         NEW n \in Nat, n + 1 <= MaxCalls + 1
  PROVE  NthBlock(k, g)[n + 1] =
           IF NthBlock(k, g)[n] \in Addr THEN Word(h.mem, next(NthBlock(k, g)[n]))
           ELSE NthBlock(k, g)[n]
<1>0. k \in Nat /\ MaxCalls \in Nat /\ n \in 0 .. MaxCalls + 1 /\ n + 1 \in 0 .. MaxCalls + 1
  BY OrderedFacts, KmallocAssumption
<1>1. /\ NthBlock(k, g)[n] = IF n <= k THEN g[n] ELSE END_OF_HEAP
      /\ NthBlock(k, g)[n + 1] = IF n + 1 <= k THEN g[n + 1] ELSE END_OF_HEAP
  BY <1>0 DEF NthBlock
<1>2. CASE n <= k
  <2>1. n \in 0 .. k /\ g[n] \in Addr
    BY <1>0, <1>2, OrderedFacts
  <2>2. Word(h.mem, next(g[n])) = After(k, g, n)
    BY <2>1 DEF Linked, HeaderIs
  <2>3. After(k, g, n) = IF n + 1 <= k THEN g[n + 1] ELSE END_OF_HEAP
    BY <1>0, <1>2 DEF After
  <2> QED BY <1>1, <1>2, <2>1, <2>2, <2>3
<1>3. CASE ~(n <= k)
  <2>1. ~(n + 1 <= k) /\ END_OF_HEAP \notin Addr
    BY <1>0, <1>3, KmallocAssumption DEF END_OF_HEAP, Addr, HeapStart, HeapEnd, W
  <2> QED BY <1>1, <1>3, <2>1
<1> QED BY <1>2, <1>3

LEMMA NthIs ==
  ASSUME NEW k, NEW g, NEW z, Ordered(k, g, z), NEW h, Linked(h, k, g, z), k <= MaxCalls
  PROVE  Nth(h) = NthBlock(k, g)
<1> DEFINE F == NthBlock(k, g)
           f == CHOOSE e : WalkOf(e, h)
<1>0. k \in Nat /\ MaxCalls \in Nat
  BY OrderedFacts, KmallocAssumption
<1>1. F[0] = h.first
  <2>1. 0 \in 0 .. MaxCalls + 1 /\ 0 <= k
    BY <1>0
  <2> QED BY <2>1 DEF NthBlock, Linked
<1>2. ASSUME NEW n \in Nat, n + 1 <= MaxCalls + 1
      PROVE  F[n + 1] = IF F[n] \in Addr THEN Word(h.mem, next(F[n])) ELSE F[n]
  BY <1>2, WalkNext
<1>3. F = [n \in 0 .. MaxCalls + 1 |-> F[n]]
  BY DEF NthBlock
<1> HIDE DEF F
<1>4. WalkOf(F, h)
  <2> DEFINE G == [n \in 0 .. MaxCalls + 1 |->
                     IF n = 0 THEN h.first
                     ELSE IF F[n - 1] \in Addr THEN Word(h.mem, next(F[n - 1]))
                     ELSE F[n - 1]]
  <2>1. ASSUME NEW n \in 0 .. MaxCalls + 1 PROVE F[n] = G[n]
    <3>1. CASE n = 0
      BY <1>1, <3>1
    <3>2. CASE n # 0
      <4>1. n - 1 \in Nat /\ (n - 1) + 1 = n /\ n <= MaxCalls + 1
        BY <1>0, <3>2
      <4>2. F[n] = IF F[n - 1] \in Addr THEN Word(h.mem, next(F[n - 1])) ELSE F[n - 1]
        BY <1>2, <4>1
      <4> QED BY <3>2, <4>2
    <3> QED BY <3>1, <3>2
  <2>2. G = [n \in 0 .. MaxCalls + 1 |-> G[n]]
    OBVIOUS
  <2>3. F = G
    <3> HIDE DEF G
    <3> QED BY <1>3, <2>1, <2>2
  <2> QED BY <2>3 DEF WalkOf
<1>5. WalkOf(f, h)
  BY <1>4
<1>6. Nth(h) = f
  BY DEF Nth, WalkOf
<1> HIDE DEF f
<1>7. \A n \in Nat : n <= MaxCalls + 1 => f[n] = F[n]
  <2> DEFINE S == {n \in Nat : n <= MaxCalls + 1 => f[n] = F[n]}
  <2>1. 0 \in S
    <3>1. 0 \in 0 .. MaxCalls + 1
      BY <1>0
    <3>2. f[0] = h.first
      BY <1>5, <3>1 DEF WalkOf
    <3> QED BY <1>1, <3>2
  <2>2. ASSUME NEW n \in Nat, n \in S PROVE n + 1 \in S
    <3> SUFFICES ASSUME n + 1 <= MaxCalls + 1 PROVE f[n + 1] = F[n + 1]
      OBVIOUS
    <3>1. n + 1 \in 0 .. MaxCalls + 1 /\ n + 1 # 0 /\ (n + 1) - 1 = n
      BY <1>0
    <3>2. f[n + 1] = IF f[n] \in Addr THEN Word(h.mem, next(f[n])) ELSE f[n]
      BY <1>5, <3>1 DEF WalkOf
    <3>3. f[n] = F[n]
      BY <1>0, <2>2
    <3> QED BY <1>2, <3>2, <3>3
  <2> HIDE DEF S
  <2>3. Nat \subseteq S
    BY <2>1, <2>2, Induct
  <2> QED BY <2>3 DEF S
<1>8. f = [n \in 0 .. MaxCalls + 1 |-> f[n]]
  BY <1>5 DEF WalkOf
<1>9. \A n \in 0 .. MaxCalls + 1 : f[n] = F[n]
  BY <1>0, <1>7
<1>10. f = F
  BY <1>3, <1>8, <1>9
<1> QED BY <1>6, <1>10 DEF F

LEMMA FreeBlocksAre ==
  ASSUME NEW k, NEW g, NEW z, Ordered(k, g, z), NEW h, Linked(h, k, g, z), k <= MaxCalls
  PROVE  FreeBlocks(h) = {g[i] : i \in 0 .. k}
<1>0. k \in Nat /\ MaxCalls \in Nat
  BY OrderedFacts, KmallocAssumption
<1>1. /\ DOMAIN Nth(h) = 0 .. MaxCalls + 1
      /\ \A n \in 0 .. MaxCalls + 1 : Nth(h)[n] = IF n <= k THEN g[n] ELSE END_OF_HEAP
  <2>1. Nth(h) = NthBlock(k, g)
    BY NthIs
  <2> QED BY <2>1 DEF NthBlock
<1>2. END_OF_HEAP \notin Addr
  BY KmallocAssumption DEF END_OF_HEAP, Addr, HeapStart, HeapEnd, W
<1>3. ASSUME NEW b, b \in FreeBlocks(h) PROVE \E i \in 0 .. k : b = g[i]
  <2>1. PICK n \in 0 .. MaxCalls + 1 : b = Nth(h)[n] /\ b \in Addr
    BY <1>1, <1>3 DEF FreeBlocks
  <2>2. n <= k /\ b = g[n]
    BY <1>1, <1>2, <2>1
  <2>3. n \in 0 .. k
    BY <1>0, <2>2
  <2> QED BY <2>2, <2>3
<1>4. ASSUME NEW i \in 0 .. k PROVE g[i] \in FreeBlocks(h)
  <2>1. i \in 0 .. MaxCalls + 1 /\ i <= k
    BY <1>0
  <2>2. Nth(h)[i] = g[i] /\ g[i] \in Addr
    BY <1>1, <2>1, OrderedFacts
  <2> QED BY <1>1, <2>1, <2>2 DEF FreeBlocks
<1> QED BY <1>3, <1>4

\* A search stops at the first block that it wants.
LEMMA FirstBlockIs ==
  ASSUME NEW k, NEW g, NEW z, Ordered(k, g, z), NEW h, Linked(h, k, g, z), k <= MaxCalls,
         NEW Wanted, Wanted \subseteq FreeBlocks(h), NEW e \in 0 .. k, g[e] \in Wanted
  PROVE  \E i \in 0 .. k : /\ FirstBlock(h, Wanted) = g[i] /\ g[i] \in Wanted
                           /\ \A j \in 0 .. k : j < i => g[j] \notin Wanted
<1>0. k \in Nat /\ MaxCalls \in Nat
  BY OrderedFacts, KmallocAssumption
<1>1. /\ DOMAIN Nth(h) = 0 .. MaxCalls + 1
      /\ \A n \in 0 .. MaxCalls + 1 : Nth(h)[n] = IF n <= k THEN g[n] ELSE END_OF_HEAP
  <2>1. Nth(h) = NthBlock(k, g)
    BY NthIs
  <2> QED BY <2>1 DEF NthBlock
<1>2. END_OF_HEAP \notin Wanted
  <2>1. END_OF_HEAP \notin Addr
    BY KmallocAssumption DEF END_OF_HEAP, Addr, HeapStart, HeapEnd, W
  <2> QED BY <2>1 DEF FreeBlocks
<1> DEFINE Hits == {n \in DOMAIN Nth(h) : Nth(h)[n] \in Wanted}
           i == CHOOSE n \in Hits : \A l \in Hits : n <= l
<1>3. e \in Hits /\ Hits \subseteq Nat
  <2>1. e \in 0 .. MaxCalls + 1 /\ e <= k
    BY <1>0
  <2> QED BY <1>0, <1>1, <2>1
<1>4. i \in Hits /\ \A l \in Hits : i <= l
  <2> HIDE DEF Hits
  <2>1. \E n \in Hits : \A l \in Hits : n <= l
    BY <1>3, LeastExists
  <2> QED BY <2>1
<1>5. FirstBlock(h, Wanted) = Nth(h)[i]
  <2>1. Hits # {}
    BY <1>3
  <2> QED BY <2>1 DEF FirstBlock
<1> HIDE DEF i
<1>6. i \in 0 .. k /\ Nth(h)[i] = g[i] /\ g[i] \in Wanted
  <2>1. i \in 0 .. MaxCalls + 1 /\ Nth(h)[i] \in Wanted
    BY <1>1, <1>4
  <2>2. i <= k
    BY <1>1, <1>2, <2>1
  <2> QED BY <1>0, <1>1, <2>1, <2>2
<1>7. ASSUME NEW j \in 0 .. k, j < i, g[j] \in Wanted PROVE FALSE
  <2>1. j \in 0 .. MaxCalls + 1 /\ j <= k
    BY <1>0
  <2>2. j \in Hits
    BY <1>1, <1>7, <2>1
  <2>3. i <= j
    BY <1>4, <2>2
  <2> QED BY <1>0, <1>6, <1>7, <2>3
<1> QED BY <1>5, <1>6, <1>7

-----------------------------------------------------------------------------
(***************************************************************************)
(* The steps.                                                              *)
(***************************************************************************)
LEMMA HeapIs ==
  /\ HeapT(Heap) /\ Heap.mem = mem /\ Heap.first = first_free
  /\ HeapT(Heap') /\ Heap'.mem = mem' /\ Heap'.first = first_free'
BY DEF HeapT, Heap

LEMMA ShapeCount ==
  ASSUME NEW k, NEW g, NEW z, HeapShape(k, g, z)
  PROVE  /\ k \in Nat /\ k <= MaxCalls /\ calls \in 0 .. MaxCalls /\ MaxCalls \in Nat
         /\ IsFiniteSet(live) /\ Cardinality(live) \in Nat
         /\ IsFiniteSet(Busy) /\ Cardinality(Busy) \in Nat
         /\ k + Cardinality(live) + Cardinality(Busy) <= calls
         /\ Ordered(k, g, z) /\ Held(live) /\ Linked(Heap, k, g, z)
         /\ FreeBlocks(Heap) = {g[i] : i \in 0 .. k}
<1>1. k \in Nat /\ Ordered(k, g, z) /\ Held(live) /\ Linked(Heap, k, g, z)
  BY OrderedFacts DEF HeapShape, Layout
<1>2. Counted(k)
  BY DEF HeapShape
<1>3. /\ IsFiniteSet(live) /\ Cardinality(live) \in Nat
      /\ IsFiniteSet(Busy) /\ Cardinality(Busy) \in Nat
  BY <1>2, FS_CardinalityType DEF Counted
<1>4. k <= MaxCalls /\ MaxCalls \in Nat
  BY <1>1, <1>2, <1>3, KmallocAssumption DEF Counted
<1>5. FreeBlocks(Heap) = {g[i] : i \in 0 .. k}
  BY <1>1, <1>4, FreeBlocksAre
<1> QED BY <1>1, <1>2, <1>3, <1>4, <1>5 DEF Counted

\* A search ends at a block that it wants or at the end of the list.
LEMMA SearchEnds ==
  ASSUME NEW k, NEW g, NEW z, HeapShape(k, g, z), NEW Wanted, Wanted \subseteq FreeBlocks(Heap)
  PROVE  FirstBlock(Heap, Wanted) \in Addr \cup {END_OF_HEAP}
<1>0. /\ k <= MaxCalls /\ Ordered(k, g, z) /\ Linked(Heap, k, g, z)
      /\ FreeBlocks(Heap) = {g[i] : i \in 0 .. k}
  BY ShapeCount
<1>1. CASE \E e \in 0 .. k : g[e] \in Wanted
  <2>1. PICK i \in 0 .. k : FirstBlock(Heap, Wanted) = g[i]
    BY <1>0, <1>1, FirstBlockIs
  <2> QED BY <1>0, <2>1, OrderedFacts
<1>2. CASE ~ \E e \in 0 .. k : g[e] \in Wanted
  <2>1. Wanted = {}
    BY <1>0, <1>2
  <2> QED BY <2>1 DEF FirstBlock
<1> QED BY <1>1, <1>2

LEMMA HeaderTyped ==
  ASSUME NEW m, MemT(m), NEW a
  PROVE  Header(m, a) \in HeaderT
<1>1. \A x : Word(m, x) \in WordT
  BY DEF MemT, Word, WordT
<1> QED BY <1>1 DEF Header, HeaderT

LEMMA SearchStep ==
  ASSUME NEW k, NEW g, NEW z, HeapShape(k, g, z),
         NEW t \in Task, NEW n \in Sizes, KMallocSearch(t, n)
  PROVE  HeapShape(k, g, z)'
<1>0. /\ k \in Nat /\ calls \in 0 .. MaxCalls /\ MaxCalls \in Nat
      /\ IsFiniteSet(live) /\ Cardinality(live) \in Nat
      /\ IsFiniteSet(Busy) /\ Cardinality(Busy) \in Nat
      /\ k + Cardinality(live) + Cardinality(Busy) <= calls
  BY ShapeCount
<1> DEFINE Wanted == {x \in FreeBlocks(Heap) : Word(mem, size(x)) >= n + W}
           b == FirstBlock(Heap, Wanted)
           J == [size |-> n, block |-> b, old |-> Header(mem, b)]
<1>1. /\ job[t] = Idle /\ calls < MaxCalls /\ calls' = calls + 1
      /\ job' = [job EXCEPT ![t] = J]
      /\ mem' = mem /\ first_free' = first_free /\ live' = live
  BY DEF KMallocSearch
<1>2. /\ job \in [Task -> {Idle} \cup CallT] /\ MemT(mem) /\ Sized(Heap, live)
      /\ Layout(k, g, z, live) /\ Linked(Heap, k, g, z)
  BY DEF HeapShape
<1>3. J \in CallT
  <2>1. b \in Addr \cup {END_OF_HEAP}
    <3>1. Wanted \subseteq FreeBlocks(Heap)
      OBVIOUS
    <3> HIDE DEF Wanted
    <3> QED BY <3>1, SearchEnds
  <2>2. Header(mem, b) \in HeaderT
    BY <1>2, HeaderTyped
  <2> HIDE DEF b
  <2> QED BY <2>1, <2>2 DEF CallT
<1> HIDE DEF J
<1>4. job'[t] = J /\ \A u \in Task : u # t => job'[u] = job[u]
  BY <1>1, <1>2
<1>5. Heap' = Heap
  BY <1>1 DEF Heap
<1>6. job' \in [Task -> {Idle} \cup CallT]
  BY <1>1, <1>2, <1>3
<1>7. Counted(k)'
  <2>1. Busy' = Busy \/ Busy' = Busy \cup {t}
    BY <1>1, <1>4 DEF Busy
  <2>2. /\ IsFiniteSet(Busy \cup {t}) /\ (\/ Cardinality(Busy \cup {t}) = Cardinality(Busy)
                                        \/ Cardinality(Busy \cup {t}) = Cardinality(Busy) + 1)
    BY <1>0, FS_AddElement
  <2>3. IsFiniteSet(Busy') /\ Cardinality(Busy') <= Cardinality(Busy) + 1 /\ Cardinality(Busy') \in Nat
    BY <1>0, <2>1, <2>2
  <2>4. calls' \in 0 .. MaxCalls /\ k + Cardinality(live') + Cardinality(Busy') <= calls'
    BY <1>0, <1>1, <2>3
  <2> QED BY <1>0, <1>1, <2>3, <2>4 DEF Counted
<1> QED BY <1>1, <1>2, <1>5, <1>6, <1>7 DEF HeapShape

\* CallsFit in terms of the blocks.
LEMMA CarveFacts ==
  ASSUME NEW k, NEW g, NEW z, HeapShape(k, g, z), CallsFit, NEW t \in Task, KMallocCarve(t)
  PROVE  /\ job' \in [Task -> {Idle} \cup CallT] /\ job[t] # Idle
         /\ \A u \in Task : u # t => job'[u] = job[u]
         /\ job'[t] = Idle /\ job[t].size \in Sizes
         /\ \E i \in 0 .. k :
              LET left == z[i] - (job[t].size + W)
              IN  /\ job[t].block = g[i] /\ job[t].old = Header(Heap.mem, g[i])
                  /\ left >= 3 * W \/ (left = 0 /\ i < k)
                  /\ job[t].size \in Bitmap => left # 0 /\ Before(g, i) = START_OF_HEAP
<1>1. /\ job \in [Task -> {Idle} \cup CallT] /\ job' = [job EXCEPT ![t] = Idle]
      /\ job[t].block \in Addr
  BY DEF HeapShape, KMallocCarve
<1>2. job'[t] = Idle /\ (\A u \in Task : u # t => job'[u] = job[u])
      /\ job' \in [Task -> {Idle} \cup CallT]
  BY <1>1
<1>3. job[t] # Idle
  <2>1. Idle.block = 0
    BY DEF Idle, START_OF_HEAP
  <2>2. 0 \notin Addr
    BY KmallocAssumption DEF Addr, HeapStart, HeapEnd, W
  <2> QED BY <1>1, <2>1, <2>2
<1>4. job[t].size \in Sizes
  BY <1>1, <1>3 DEF CallT
<1>5. BlockFits(job[t])
  BY <1>1 DEF CallsFit
<1>6. k \in Nat /\ Ordered(k, g, z) /\ Linked(Heap, k, g, z)
      /\ FreeBlocks(Heap) = {g[i] : i \in 0 .. k}
  BY ShapeCount
<1>7. PICK i \in 0 .. k : job[t].block = g[i]
  BY <1>5, <1>6 DEF BlockFits
<1>8. job[t].old = Header(Heap.mem, g[i])
  BY <1>5, <1>7, HeapIs DEF BlockFits
<1>9. /\ job[t].old.size = z[i] /\ job[t].old.next = After(k, g, i)
      /\ job[t].old.prev = Before(g, i)
  <2>1. HeaderIs(Heap.mem, g[i], Before(g, i), After(k, g, i), z[i])
    BY <1>6 DEF Linked
  <2> QED BY <1>8, <2>1 DEF Header, HeaderIs
<1>10. After(k, g, i) # END_OF_HEAP => i < k
  BY <1>6 DEF After
<1> QED BY <1>2, <1>3, <1>4, <1>5, <1>7, <1>8, <1>9, <1>10 DEF BlockFits

\* The stores of kmalloc() leave the header of the new block and the others.
LEMMA SizedMore ==
  ASSUME NEW k, NEW g, NEW z, NEW lv, Layout(k, g, z, lv), NEW h, Sized(h, lv),
         NEW r, NEW i \in 0 .. k, NEW y, Start(y) = g[i], Word(r.mem, g[i]) = y.size,
         Keeps(h.mem, r.mem, g[i], z[i], Before(g, i), After(k, g, i))
  PROVE  Sized(r, lv \cup {y})
<1> DEFINE p == Before(g, i)
           x == After(k, g, i)
<1>1. Ordered(k, g, z) /\ k \in Nat
  BY OrderedFacts DEF Layout
<1>2. /\ p = START_OF_HEAP \/ \E l \in 0 .. k : p = g[l]
      /\ x = END_OF_HEAP \/ \E l \in 0 .. k : x = g[l]
  BY <1>1, BeforeAfter
<1>3. Around(g[i], z[i], p, x)
  BY <1>1, AroundBlock
<1>4. \A v \in lv : Apart(Start(v), Length(v), g[i], z[i])
  BY DEF Layout, AllApart
<1>5. Keeps(h.mem, r.mem, g[i], z[i], p, x)
  OBVIOUS
<1> HIDE DEF p, x
<1>6. Sized(r, lv)
  BY <1>2, <1>3, <1>4, <1>5, SizedKept
<1> QED BY <1>6 DEF Sized

LEMMA CountMore ==
  ASSUME NEW k, NEW g, NEW z, HeapShape(k, g, z), NEW k2 \in Nat, k2 <= k, NEW y,
         NEW t \in Task, job[t] # Idle, job'[t] = Idle,
         \A u \in Task : u # t => job'[u] = job[u],
         live' = live \cup {y}, calls' = calls
  PROVE  Counted(k2)'
<1>1. /\ IsFiniteSet(live) /\ Cardinality(live) \in Nat /\ k \in Nat
      /\ IsFiniteSet(Busy) /\ Cardinality(Busy) \in Nat
      /\ calls \in 0 .. MaxCalls /\ MaxCalls \in Nat
      /\ k + Cardinality(live) + Cardinality(Busy) <= calls
  BY ShapeCount
<1>2. t \in Busy /\ Busy' = Busy \ {t}
  BY DEF Busy
<1>3. IsFiniteSet(Busy') /\ Cardinality(Busy') = Cardinality(Busy) - 1
  BY <1>1, <1>2, FS_RemoveElement
<1>4. IsFiniteSet(live') /\ (\/ Cardinality(live') = Cardinality(live)
                             \/ Cardinality(live') = Cardinality(live) + 1)
  BY <1>1, FS_AddElement
<1>5. k2 + Cardinality(live') + Cardinality(Busy') <= calls'
  BY <1>1, <1>3, <1>4
<1> QED BY <1>1, <1>3, <1>4, <1>5 DEF Counted

LEMMA CarveStep ==
  ASSUME NEW k, NEW g, NEW z, HeapShape(k, g, z), CallsFit,
         NEW t \in Task, KMallocCarve(t)
  PROVE  HeapInv'
<1>0. /\ k \in Nat /\ Ordered(k, g, z) /\ Linked(Heap, k, g, z) /\ Layout(k, g, z, live)
      /\ Sized(Heap, live) /\ MemT(Heap.mem)
  BY ShapeCount, HeapIs DEF HeapShape
<1>1. /\ job' \in [Task -> {Idle} \cup CallT] /\ job[t] # Idle
      /\ \A u \in Task : u # t => job'[u] = job[u]
      /\ job'[t] = Idle /\ job[t].size \in Sizes
  BY CarveFacts
<1>11. PICK n \in Sizes : n = job[t].size
  BY <1>1
<1>2. PICK i \in 0 .. k :
        /\ job[t].block = g[i] /\ job[t].old = Header(Heap.mem, g[i])
        /\ z[i] - (n + W) >= 3 * W \/ (z[i] - (n + W) = 0 /\ i < k)
        /\ n \in Bitmap => z[i] - (n + W) # 0 /\ Before(g, i) = START_OF_HEAP
  BY <1>11, CarveFacts
<1> DEFINE old == job[t].old
           p   == Before(g, i)
           x   == After(k, g, i)
           y   == [ptr |-> g[i] + W, size |-> n, by |-> t]
           C   == Carve(Heap, g[i], old, n)
<1>3. /\ mem' = HandOut(C.mem, g[i], n) /\ first_free' = C.first
      /\ live' = live \cup {y} /\ calls' = calls
  BY <1>11, <1>2 DEF KMallocCarve
<1>4. old = [prev |-> p, next |-> x, size |-> z[i]]
  <2>1. HeaderIs(Heap.mem, g[i], p, x, z[i])
    BY <1>0 DEF Linked
  <2> QED BY <1>2, <2>1 DEF Header, HeaderIs
<1>5. Heap' = [mem |-> HandOut(C.mem, g[i], n), first |-> C.first]
  BY <1>3 DEF Heap
<1>6. n \in Nat /\ g[i] \in Nat /\ z[i] \in Nat
  BY <1>0, <1>1, KmallocAssumption, OrderedFacts
<1>7. BlockT(y) /\ Start(y) = g[i] /\ Length(y) = n + W /\ y.size = n
  BY <1>1, <1>6 DEF BlockT, Start, Length, W
<1>8. Around(g[i], z[i], p, x)
  BY <1>0, AroundBlock
<1> HIDE DEF C, y
<1>9. CASE z[i] - (n + W) = 0 /\ i < k
  <2> DEFINE g2 == Without(k, g, i)
             z2 == Without(k, z, i)
  <2>1. x # END_OF_HEAP
    <3>1. i + 1 \in 0 .. k /\ i # k
      BY <1>0, <1>9
    <3> QED BY <1>0, <3>1, OrderedFacts DEF After
  <2>0. z[i] = n + W /\ n \notin Bitmap
    BY <1>2, <1>6, <1>9 DEF W
  <2>2. /\ Word(Heap'.mem, g[i]) = n /\ Points(Heap, Heap', p, x, x, p)
        /\ Keeps(Heap.mem, Heap'.mem, g[i], z[i], p, x) /\ MemT(Heap'.mem)
    <3> HIDE DEF old, p, x
    <3> QED BY <1>0, <1>4, <1>5, <1>6, <1>8, <2>0, <2>1, HeapIs, ExactWords DEF C
  <2>3. Linked(Heap', k - 1, g2, z2)
    BY <1>0, <1>9, <2>2, LinkedRemove
  <2>4. Layout(k - 1, g2, z2, live')
    BY <1>0, <1>3, <1>7, <1>9, <2>0, LayoutTake
  <2>5. Sized(Heap', live')
    BY <1>0, <1>3, <1>7, <2>2, SizedMore
  <2>6. Counted(k - 1)'
    <3>1. k - 1 \in Nat /\ k - 1 <= k
      BY <1>0, <1>9
    <3> QED BY <1>1, <1>3, <3>1, CountMore
  <2>7. HeapShape(k - 1, g2, z2)'
    <3> HIDE DEF g2, z2
    <3> QED BY <1>1, <2>2, <2>3, <2>4, <2>5, <2>6, HeapIs DEF HeapShape
  <2> HIDE DEF g2, z2
  <2> QED BY <2>7 DEF HeapInv
<1>10. CASE z[i] - (n + W) >= 3 * W
  <2> DEFINE c  == g[i] + n + W
             d  == z[i] - (n + W)
             g2 == [g EXCEPT ![i] = c]
             z2 == [z EXCEPT ![i] = d]
  <2>1. /\ HeaderIs(Heap'.mem, c, p, x, d) /\ Word(Heap'.mem, g[i]) = n
        /\ Points(Heap, Heap', p, x, c, c)
        /\ Keeps(Heap.mem, Heap'.mem, g[i], z[i], p, x) /\ MemT(Heap'.mem)
    <3> HIDE DEF old, p, x
    <3>1. n \in Bitmap => p = START_OF_HEAP
      BY <1>2 DEF p
    <3> QED BY <1>0, <1>4, <1>5, <1>6, <1>8, <1>10, <3>1, HeapIs, SplitWords DEF C
  <2>2. c \in Nat /\ d \in Nat /\ c = g[i] + Length(y) /\ d = z[i] - Length(y)
        /\ z[i] - Length(y) >= 3 * W
    BY <1>6, <1>7, <1>10 DEF W
  <2> HIDE DEF c, d
  <2>3. Linked(Heap', k, g2, z2)
    <3>1. \A j \in 0 .. k : j # i => Apart(g[j], z[j], g[i], z[i])
      <4> TAKE j \in 0 .. k
      <4> HAVE j # i
      <4>1. i < j \/ j < i
        BY <1>0
      <4> QED BY <1>0, <4>1, OrderedFacts DEF Apart
    <3> QED BY <1>0, <1>8, <2>1, <2>2, <3>1, LinkedReplace
  <2>4. Layout(k, g2, z2, live')
    BY <1>0, <1>3, <1>7, <2>2, LayoutSplit
  <2>5. Sized(Heap', live')
    BY <1>0, <1>3, <1>7, <2>1, SizedMore
  <2>6. Counted(k)'
    <3>1. k <= k
      BY <1>0
    <3> QED BY <1>0, <1>1, <1>3, <3>1, CountMore
  <2>7. HeapShape(k, g2, z2)'
    <3>1. MemT(mem')
      BY <2>1, HeapIs
    <3> HIDE DEF g2, z2, old, p, x
    <3> QED BY <1>1, <2>3, <2>4, <2>5, <2>6, <3>1 DEF HeapShape
  <2> HIDE DEF g2, z2
  <2> QED BY <2>7 DEF HeapInv
<1> QED BY <1>2, <1>9, <1>10

\* No block fits into a gap of one byte, so kfree()'s tests with + 1 never hold.
LEMMA NoGap ==
  ASSUME NEW k, NEW g, NEW z, NEW lv, Layout(k, g, z, lv), NEW y \in lv, NEW i \in 0 .. k
  PROVE  g[i] + z[i] + 1 # Start(y) /\ Start(y) + Length(y) + 1 # g[i]
<1>0. /\ g[i] \in Nat /\ z[i] \in Nat /\ g[i] >= HeapStart /\ z[i] >= 3 * W
      /\ g[i] + z[i] <= HeapEnd /\ k \in Nat
      /\ Start(y) \in Nat /\ Length(y) \in Nat /\ Start(y) >= HeapStart /\ Length(y) >= W
      /\ Start(y) + Length(y) <= HeapEnd /\ HeapEnd \in Nat /\ HeapStart \in Nat
  BY OrderedFacts, HeldFacts, KmallocAssumption DEF Layout, HeapEnd, HeapStart, W
\* The byte p between two blocks belongs to neither, and to no third one.
<1>1. ASSUME NEW p \in Int, p \in Addr,
             \/ p = g[i] + z[i] /\ p + 1 = Start(y)
             \/ p = Start(y) + Length(y) /\ p + 1 = g[i]
      PROVE  FALSE
  <2>1. CASE \E v \in lv : Covers(Start(v), Length(v), p)
    <3>1. PICK v \in lv : Covers(Start(v), Length(v), p)
      BY <2>1
    <3>2. Start(v) \in Nat /\ Length(v) \in Nat /\ Length(v) >= W
      BY HeldFacts DEF Layout
    <3>3. Apart(Start(v), Length(v), g[i], z[i])
      BY DEF Layout, AllApart
    <3>4. v # y => Apart(Start(v), Length(v), Start(y), Length(y))
      BY DEF Layout, Held
    <3>5. v # y
      BY <1>0, <1>1, <3>1, <3>2 DEF Covers
    <3> QED BY <1>0, <1>1, <3>1, <3>2, <3>3, <3>4, <3>5 DEF Covers, Apart, W
  <2>2. CASE \E j \in 0 .. k : Covers(g[j], z[j], p)
    <3>1. PICK j \in 0 .. k : Covers(g[j], z[j], p)
      BY <2>2
    <3>2. g[j] \in Nat /\ z[j] \in Nat /\ z[j] >= 3 * W
      BY OrderedFacts DEF Layout
    <3>3. Apart(Start(y), Length(y), g[j], z[j])
      BY DEF Layout, AllApart
    <3>4. j # i
      BY <1>0, <1>1, <3>1, <3>2 DEF Covers
    <3>5. Apart(g[i], z[i], g[j], z[j])
      <4>1. i < j \/ j < i
        BY <1>0, <3>4
      <4> QED BY <4>1, OrderedFacts DEF Layout, Apart
    <3> QED BY <1>0, <1>1, <3>1, <3>2, <3>3, <3>5 DEF Covers, Apart, W
  <2> QED BY <1>1, <2>1, <2>2 DEF Layout, AllCovered
<1>2. g[i] + z[i] + 1 # Start(y)
  <2> SUFFICES ASSUME g[i] + z[i] + 1 = Start(y) PROVE FALSE
    OBVIOUS
  <2>1. g[i] + z[i] \in Int /\ g[i] + z[i] \in Addr
    BY <1>0 DEF Addr, W
  <2> QED BY <1>1, <2>1
<1>3. Start(y) + Length(y) + 1 # g[i]
  <2> SUFFICES ASSUME Start(y) + Length(y) + 1 = g[i] PROVE FALSE
    OBVIOUS
  <2>1. Start(y) + Length(y) \in Int /\ Start(y) + Length(y) \in Addr
    BY <1>0 DEF Addr, W
  <2> QED BY <1>1, <2>1
<1> QED BY <1>2, <1>3

\* kfree() stops at the first free block behind the freed one.
LEMMA FreeSearch ==
  ASSUME NEW k, NEW g, NEW z, HeapShape(k, g, z), NEW y \in live, y.size > 0
  PROVE  \E i \in 0 .. k :
           /\ Start(y) + Length(y) <= g[i]
           /\ i # 0 => g[i - 1] + z[i - 1] <= Start(y)
           /\ kfree(Heap, y.ptr) =
                IF i = 0 THEN FreeFirst(Heap, Start(y), Length(y), g[i])
                         ELSE FreeBetween(Heap, Start(y), Length(y), g[i])
<1> DEFINE ptr == y.ptr
           Wanted == {x \in FreeBlocks(Heap) : x > ptr \/ Word(mem, next(x)) = END_OF_HEAP}
           b == FirstBlock(Heap, Wanted)
<1>0. /\ k \in Nat /\ k <= MaxCalls /\ Ordered(k, g, z) /\ Linked(Heap, k, g, z)
      /\ FreeBlocks(Heap) = {g[i] : i \in 0 .. k} /\ k \in 0 .. k /\ 0 \in 0 .. k
      /\ Layout(k, g, z, live) /\ Sized(Heap, live) /\ Held(live)
  BY ShapeCount DEF HeapShape
<1>1. /\ Start(y) \in Nat /\ Length(y) \in Nat /\ Length(y) > W /\ ptr \in Nat
      /\ Start(y) + Length(y) <= HeapEnd /\ ptr = Start(y) + W /\ Length(y) = y.size + W
      /\ ptr - W = Start(y) /\ y.size \in Nat
  BY <1>0, HeldFacts DEF W
<1>2. Word(mem, Start(y)) + W = Length(y)
  BY <1>0, <1>1, HeapIs DEF Sized
<1>3. ASSUME NEW j \in 0 .. k
      PROVE  /\ Word(mem, prev(g[j])) = Before(g, j) /\ Word(mem, next(g[j])) = After(k, g, j)
             /\ g[j] \in Nat /\ z[j] \in Nat /\ z[j] >= 3 * W
             /\ g[j] > ptr => Start(y) + Length(y) <= g[j]
             /\ ~(g[j] > ptr) => g[j] + z[j] <= Start(y)
             /\ After(k, g, j) = END_OF_HEAP => j = k
  <2>1. HeaderIs(mem, g[j], Before(g, j), After(k, g, j), z[j])
    BY <1>0, HeapIs DEF Linked
  <2>2. g[j] \in Nat /\ z[j] \in Nat /\ z[j] >= 3 * W
    BY <1>0, OrderedFacts
  <2>3. Apart(Start(y), Length(y), g[j], z[j])
    BY <1>0 DEF Layout, AllApart
  <2>4. j # k => After(k, g, j) # END_OF_HEAP
    <3>1. j # k => j + 1 \in 0 .. k
      BY <1>0
    <3> QED BY <1>0, <3>1, OrderedFacts DEF After
  <2>5. g[j] > ptr => Start(y) + Length(y) <= g[j]
    BY <1>1, <2>2, <2>3 DEF Apart, W
  <2>6. ~(g[j] > ptr) => g[j] + z[j] <= Start(y)
    BY <1>1, <2>2, <2>3 DEF Apart, W
  <2> QED BY <2>1, <2>2, <2>4, <2>5, <2>6 DEF HeaderIs
<1>4. g[k] > ptr
  <2>1. g[k] + z[k] = HeapEnd
    BY <1>0 DEF Ordered
  <2> QED BY <1>0, <1>1, <1>3, <2>1 DEF W
<1>5. g[k] \in Wanted
  BY <1>0, <1>4
<1>6. PICK i \in 0 .. k : /\ b = g[i] /\ g[i] \in Wanted
                          /\ \A j \in 0 .. k : j < i => g[j] \notin Wanted
  <2>1. Wanted \subseteq FreeBlocks(Heap)
    OBVIOUS
  <2> HIDE DEF Wanted
  <2> QED BY <1>0, <1>5, <2>1, FirstBlockIs
<1>7. g[i] > ptr
  <2>1. g[i] > ptr \/ After(k, g, i) = END_OF_HEAP
    BY <1>3, <1>6
  <2> QED BY <1>3, <1>4, <2>1
<1>8. i # 0 => g[i - 1] + z[i - 1] <= Start(y)
  <2> SUFFICES ASSUME i # 0 PROVE g[i - 1] + z[i - 1] <= Start(y)
    OBVIOUS
  <2>1. i - 1 \in 0 .. k /\ i - 1 < i
    BY <1>0
  <2>2. ~(g[i - 1] > ptr)
    BY <1>0, <1>6, <2>1
  <2> QED BY <1>3, <2>1, <2>2
<1>9. Heap.first # 0
  BY <1>0, OrderedFacts DEF Linked, START_OF_HEAP
<1>10. ~(b <= ptr)
  BY <1>1, <1>3, <1>6, <1>7
<1>11. Word(Heap.mem, prev(b)) = START_OF_HEAP <=> i = 0
  <2>1. Before(g, i) = START_OF_HEAP <=> i = 0
    <3>1. i # 0 => i - 1 \in 0 .. k
      BY <1>0
    <3> QED BY <1>0, <3>1, OrderedFacts DEF Before
  <2> QED BY <1>3, <1>6, <2>1, HeapIs
<1>12. kfree(Heap, ptr) = IF i = 0 THEN FreeFirst(Heap, Start(y), Length(y), b)
                                   ELSE FreeBetween(Heap, Start(y), Length(y), b)
  <2>1. b = FirstBlock(Heap, {x \in FreeBlocks(Heap) :
                              x > ptr \/ Word(Heap.mem, next(x)) = END_OF_HEAP})
    BY HeapIs
  <2>2. Word(Heap.mem, ptr - W) + W = Length(y) /\ ptr - W = Start(y)
    BY <1>1, <1>2, HeapIs
  <2> HIDE DEF b, ptr
  <2> QED BY <1>9, <1>10, <1>11, <2>1, <2>2 DEF kfree
<1>13. Start(y) + Length(y) <= g[i]
  BY <1>3, <1>7
<1> HIDE DEF b
<1> QED BY <1>6, <1>8, <1>12, <1>13

LEMMA CountLess ==
  ASSUME NEW k, NEW g, NEW z, HeapShape(k, g, z), NEW k2 \in Nat, k2 <= k + 1, NEW y \in live,
         live' = live \ {y}, calls' = calls, job' = job
  PROVE  Counted(k2)'
<1>1. /\ IsFiniteSet(live) /\ Cardinality(live) \in Nat /\ k \in Nat
      /\ IsFiniteSet(Busy) /\ Cardinality(Busy) \in Nat
      /\ calls \in 0 .. MaxCalls /\ MaxCalls \in Nat
      /\ k + Cardinality(live) + Cardinality(Busy) <= calls
  BY ShapeCount
<1>2. IsFiniteSet(live') /\ Cardinality(live') = Cardinality(live) - 1
  BY <1>1, FS_RemoveElement
<1>3. Busy' = Busy
  BY DEF Busy
<1>4. k2 + Cardinality(live') + Cardinality(Busy') <= calls'
  BY <1>1, <1>2, <1>3
<1> QED BY <1>1, <1>2, <1>3, <1>4 DEF Counted

LEMMA FreeStep ==
  ASSUME NEW k, NEW g, NEW z, HeapShape(k, g, z), FreesFit,
         NEW t \in Task, NEW y \in live, KFree(t, y)
  PROVE  HeapInv'
<1>0. /\ k \in Nat /\ Ordered(k, g, z) /\ Linked(Heap, k, g, z) /\ Layout(k, g, z, live)
      /\ Sized(Heap, live) /\ MemT(Heap.mem) /\ Held(live) /\ 0 \in 0 .. k /\ k \in 0 .. k
  BY ShapeCount, HeapIs DEF HeapShape
<1> DEFINE a == Start(y)
           n == Length(y)
<1>1. /\ mem' = kfree(Heap, y.ptr).mem /\ first_free' = kfree(Heap, y.ptr).first
      /\ live' = live \ {y} /\ job' = job /\ calls' = calls
  BY DEF KFree
<1>2. job' \in [Task -> {Idle} \cup CallT]
  BY <1>1 DEF HeapShape
<1>3. /\ a \in Nat /\ n \in Nat /\ a >= HeapStart /\ a + n <= HeapEnd
      /\ y.size \in Nat /\ n = y.size + W /\ y.ptr = a + W /\ n >= W
  BY <1>0, HeldFacts
\* FreesFit in terms of the blocks.
<1>11. y.size > 0 /\ (n >= 3 * W \/ a + n = g[0])
  <2>1. y.size + W >= 3 * W \/ (y.size > 0 /\ y.ptr + y.size = first_free)
    BY <1>1 DEF FreesFit
  <2>2. first_free = g[0]
    BY <1>0, HeapIs DEF Linked
  <2> HIDE DEF a, n
  <2> QED BY <1>3, <2>1, <2>2 DEF W
<1>4. PICK i \in 0 .. k : /\ a + n <= g[i]
                          /\ i # 0 => g[i - 1] + z[i - 1] <= a
                          /\ kfree(Heap, y.ptr) = IF i = 0 THEN FreeFirst(Heap, a, n, g[i])
                                                           ELSE FreeBetween(Heap, a, n, g[i])
  BY <1>11, FreeSearch
<1>5. \A j \in 0 .. k : /\ g[j] \in Nat /\ z[j] \in Nat /\ z[j] >= 3 * W /\ g[j] >= HeapStart
                        /\ g[j] + z[j] <= HeapEnd
  BY <1>0, OrderedFacts
<1>6. ASSUME NEW v \in live \ {y}
      PROVE  /\ Apart(Start(v), Length(v), a, n) /\ Start(v) \in Nat /\ Length(v) \in Nat
             /\ Length(v) >= W
             /\ \A j \in 0 .. k : Apart(Start(v), Length(v), g[j], z[j])
  BY <1>0, HeldFacts DEF Held, Layout, AllApart
<1>7. \A j \in 0 .. k : Apart(g[j], z[j], a, n)
  BY <1>0 DEF Layout, AllApart, Apart
<1>8. HeapEnd \in Nat /\ HeapStart \in Nat
  BY KmallocAssumption DEF HeapEnd, HeapStart, W
<1>9. CASE i = 0 /\ a + n = g[0]
  <2> DEFINE s  == n + z[0]
             x  == After(k, g, 0)
             r  == FreeFirst(Heap, a, n, g[0])
             g2 == [g EXCEPT ![0] = a]
             z2 == [z EXCEPT ![0] = s]
  <2>1. Heap'.mem = r.mem /\ Heap'.first = r.first
    BY <1>1, <1>4, <1>9, HeapIs
  <2>2. /\ Around(g[0], z[0], START_OF_HEAP, x) /\ Before(g, 0) = START_OF_HEAP
        /\ HeaderIs(Heap.mem, g[0], START_OF_HEAP, x, z[0])
    <3>1. Before(g, 0) = START_OF_HEAP
      BY DEF Before
    <3> QED BY <1>0, <3>1, AroundBlock DEF Linked
  <2>3. a + s = g[0] + z[0] /\ s \in Nat
    BY <1>0, <1>3, <1>5, <1>9
  <2>4. Around(a, s, START_OF_HEAP, x)
    BY <1>0, <1>3, <1>5, <2>2, <2>3 DEF Around
  <2>5. /\ HeaderIs(r.mem, a, START_OF_HEAP, x, s)
        /\ HeapT(r) /\ Points(Heap, r, START_OF_HEAP, x, a, a)
        /\ Keeps(Heap.mem, r.mem, a, s, START_OF_HEAP, x) /\ MemT(r.mem)
    <3> HIDE DEF x, r, a, n
    <3> QED BY <1>0, <1>3, <1>5, <1>9, <2>2, <2>4, HeapIs, MergeWords, ZenonT(30) DEF r
  <2>6. Heap' = r
    BY <2>1, <2>5, HeapIs DEF HeapT
  <2> HIDE DEF r
  <2>7. Linked(Heap', k, g2, z2)
    <3>1. \A j \in 0 .. k : j # 0 => Apart(g[j], z[j], a, s)
      <4> TAKE j \in 0 .. k
      <4> HAVE j # 0
      <4>1. 0 < j
        BY <1>0
      <4>2. g[0] + z[0] <= g[j]
        BY <1>0, <4>1, OrderedFacts
      <4> QED BY <2>3, <4>2 DEF Apart
    <3> HIDE DEF x, s, a
    <3> QED BY <1>0, <1>3, <2>2, <2>3, <2>4, <2>5, <2>6, <3>1, LinkedReplace DEF x
  <2>8. Layout(k, g2, z2, live')
    BY <1>0, <1>1, <1>9, LayoutMerge
  <2>9. Sized(Heap', live')
    <3>1. ASSUME NEW v \in live \ {y} PROVE Apart(Start(v), Length(v), a, s)
      <4>1. Apart(Start(v), Length(v), a, n) /\ Apart(Start(v), Length(v), g[0], z[0])
        BY <1>0, <1>6
      <4> QED BY <1>0, <1>3, <1>5, <1>6, <1>9, <2>3, <4>1 DEF Apart, W
    <3>2. x = END_OF_HEAP \/ \E l \in 0 .. k : x = g[l]
      BY <1>0, BeforeAfter
    <3> HIDE DEF x, s, a
    <3>3. live \ {y} \subseteq live
      OBVIOUS
    <3>4. \A v \in live \ {y} : Apart(Start(v), Length(v), a, s)
      BY <3>1
    <3> QED BY <1>0, <1>1, <2>4, <2>5, <2>6, <3>2, <3>3, <3>4, SizedKept
  <2>10. Counted(k)'
    <3>1. k <= k + 1
      BY <1>0
    <3> QED BY <1>0, <1>1, <3>1, CountLess
  <2>11. HeapShape(k, g2, z2)'
    <3> HIDE DEF g2, z2
    <3> QED BY <1>2, <2>5, <2>6, <2>7, <2>8, <2>9, <2>10, HeapIs DEF HeapShape
  <2> HIDE DEF g2, z2
  <2> QED BY <2>11 DEF HeapInv
<1>10. CASE ~(i = 0 /\ a + n = g[0])
  <2> DEFINE p  == Before(g, i)
             r  == kfree(Heap, y.ptr)
             g2 == With(k, g, i, a)
             z2 == With(k, z, i, n)
  <2>0. n >= 3 * W
    <3>1. i # 0 => g[0] < a
      <4>1. i # 0 => i - 1 \in 0 .. k /\ (0 = i - 1 \/ 0 < i - 1)
        BY <1>0
      <4>2. i # 0 => g[0] <= g[i - 1]
        <5>1. 0 < i - 1 /\ i # 0 => g[0] + z[0] <= g[i - 1]
          BY <1>0, <4>1, OrderedFacts
        <5> QED BY <1>0, <1>5, <4>1, <5>1
      <4> QED BY <1>0, <1>3, <1>4, <1>5, <4>1, <4>2 DEF W
    <3> HIDE DEF a, n
    <3> QED BY <1>0, <1>3, <1>11, <1>5, <1>10, <3>1 DEF W
  <2>1. Heap'.mem = r.mem /\ Heap'.first = r.first
    BY <1>1, HeapIs
  <2>2. Around(a, n, p, g[i]) /\ g[i] # END_OF_HEAP
    <3>1. i # 0 => i - 1 \in 0 .. k /\ p = g[i - 1]
      BY <1>0 DEF Before
    <3>2. i # 0 => /\ p \in Nat /\ p >= HeapStart /\ p + 3 * W <= a
      BY <1>3, <1>4, <1>5, <3>1 DEF W
    <3>3. i = 0 => p = START_OF_HEAP
      BY DEF Before
    <3>4. g[i] \in Nat /\ g[i] + 3 * W <= HeapEnd
      BY <1>5, <1>8 DEF W
    <3> QED BY <1>3, <1>4, <3>2, <3>3, <3>4 DEF Around, START_OF_HEAP, END_OF_HEAP
  <2>3. Inserted(Heap, r, a, n, p, g[i])
    <3>1. CASE i = 0
      <4>1. r = FreeFirst(Heap, a, n, g[0]) /\ p = START_OF_HEAP /\ a + n # g[0]
        BY <1>4, <1>10, <3>1 DEF Before
      <4> HIDE DEF r, p, a, n
      <4> QED BY <1>0, <1>3, <2>0, <2>2, <3>1, <4>1, HeapIs, InsertFirst
    <3>2. CASE i # 0
      <4>1. i - 1 \in 0 .. k /\ p = g[i - 1] /\ r = FreeBetween(Heap, a, n, g[i])
        BY <1>0, <1>4, <3>2 DEF Before
      <4>2. p # START_OF_HEAP /\ Word(Heap.mem, size(p)) = z[i - 1]
            /\ Word(Heap.mem, prev(g[i])) = p
        <5>1. HeaderIs(Heap.mem, g[i - 1], Before(g, i - 1), After(k, g, i - 1), z[i - 1])
          BY <1>0, <4>1 DEF Linked
        <5>2. HeaderIs(Heap.mem, g[i], Before(g, i), After(k, g, i), z[i])
          BY <1>0 DEF Linked
        <5>3. g[i - 1] # START_OF_HEAP
          BY <1>0, <4>1, OrderedFacts
        <5> QED BY <4>1, <5>1, <5>2, <5>3 DEF HeaderIs
      <4>3. p + Word(Heap.mem, size(p)) + 1 # a /\ a + n + 1 # g[i]
        BY <1>0, <4>1, <4>2, NoGap
      <4> HIDE DEF r, p, a, n
      <4> QED BY <1>0, <1>3, <2>0, <2>2, <4>1, <4>2, <4>3, HeapIs, InsertBetween
    <3> QED BY <3>1, <3>2
  <2>4. Heap' = r
    BY <2>1, <2>3, HeapIs DEF HeapT, Inserted
  <2> HIDE DEF r
  <2>5. Linked(Heap', k + 1, g2, z2)
    <3> HIDE DEF a, n
    <3> QED BY <1>0, <1>7, <2>0, <2>2, <2>3, <2>4, LinkedInsert
  <2>6. Layout(k + 1, g2, z2, live')
    <3>1. a < g[i]
      BY <1>3, <1>4, <1>5 DEF W
    <3>2. i # 0 => g[i - 1] < a
      <4>1. i # 0 => i - 1 \in 0 .. k
        BY <1>0
      <4> QED BY <1>3, <1>4, <1>5, <4>1 DEF W
    <3> QED BY <1>0, <1>1, <2>0, <3>1, <3>2, LayoutGive
  <2>7. Sized(Heap', live')
    <3>1. /\ p = START_OF_HEAP \/ \E l \in 0 .. k : p = g[l]
          /\ g[i] = END_OF_HEAP \/ \E l \in 0 .. k : g[i] = g[l]
      BY <1>0, BeforeAfter
    <3>2. live \ {y} \subseteq live
      OBVIOUS
    <3>3. \A v \in live \ {y} : Apart(Start(v), Length(v), a, n)
      BY <1>6
    <3>4. Keeps(Heap.mem, Heap'.mem, a, n, p, g[i])
      BY <2>3, <2>4 DEF Inserted
    <3> HIDE DEF p, a, n
    <3> QED BY <1>0, <1>1, <2>2, <3>1, <3>2, <3>3, <3>4, SizedKept
  <2>8. Counted(k + 1)'
    <3>1. k + 1 \in Nat /\ k + 1 <= k + 1
      BY <1>0
    <3> QED BY <1>1, <3>1, CountLess
  <2>9. MemT(mem')
    BY <2>3, <2>4, HeapIs DEF Inserted
  <2>10. HeapShape(k + 1, g2, z2)'
    <3> HIDE DEF g2, z2
    <3> QED BY <1>2, <2>5, <2>6, <2>7, <2>8, <2>9, HeapIs DEF HeapShape
  <2> HIDE DEF g2, z2
  <2> QED BY <2>10 DEF HeapInv
<1> QED BY <1>9, <1>10

-----------------------------------------------------------------------------
(***************************************************************************)
(* What the invariant says of the properties.                              *)
(***************************************************************************)
LEMMA ShapeType ==
  ASSUME HeapInv
  PROVE  TypeOK
<1>1. PICK k, g, z : HeapShape(k, g, z)
  BY DEF HeapInv
<1>0. /\ k \in Nat /\ Ordered(k, g, z) /\ Linked(Heap, k, g, z) /\ Held(live) /\ MemT(mem)
      /\ calls \in 0 .. MaxCalls /\ 0 \in 0 .. k /\ k \in 0 .. k
      /\ job \in [Task -> {Idle} \cup CallT] /\ Layout(k, g, z, live)
  BY <1>1, ShapeCount DEF HeapShape
<1>2. first_free \in Addr
  BY <1>0, HeapIs, OrderedFacts DEF Linked
<1>3. ASSUME NEW x \in live PROVE x.ptr \in Addr /\ x.size \in Sizes /\ x.by \in Task
  <2>1. /\ x.ptr \in Nat /\ x.ptr = Start(x) + W /\ Start(x) \in Nat /\ Length(x) \in Nat
        /\ Start(x) >= HeapStart /\ Length(x) >= W /\ Start(x) + Length(x) <= HeapEnd
        /\ x.size \in Sizes /\ x.by \in Task
    BY <1>0, HeldFacts
  <2>2. HeapEnd \in Nat /\ HeapStart \in Nat
    BY KmallocAssumption DEF HeapEnd, HeapStart, W
  \* The last block is free.
  <2>3. Apart(Start(x), Length(x), g[k], z[k])
    BY <1>0 DEF Layout, AllApart
  <2>4. g[k] + z[k] = HeapEnd /\ g[k] \in Nat /\ z[k] \in Nat /\ z[k] >= 3 * W
    BY <1>0, OrderedFacts DEF Ordered
  <2>5. x.ptr >= HeapStart /\ x.ptr <= HeapEnd - 1
    BY <2>1, <2>2, <2>3, <2>4 DEF Apart, W
  <2> QED BY <2>1, <2>2, <2>5 DEF Addr
<1>5. ASSUME NEW t \in Task
      PROVE  /\ job[t].size \in Sizes \cup {0} /\ job[t].block \in WordT
             /\ job[t].old \in [prev : WordT, next : WordT, size : WordT]
  <2>1. CASE job[t] = Idle
    <3>1. Garbage \in WordT /\ START_OF_HEAP \in WordT
      BY DEF WordT
    <3>2. Idle.size = 0 /\ Idle.block = START_OF_HEAP /\ Idle.old = NoHeader
      BY DEF Idle
    <3>3. NoHeader \in [prev : WordT, next : WordT, size : WordT]
      BY <3>1 DEF NoHeader
    <3> QED BY <2>1, <3>1, <3>2, <3>3
  <2>2. CASE job[t] \in CallT
    BY <2>2 DEF CallT, HeaderT, WordT
  <2> QED BY <1>0, <2>1, <2>2
<1>6. \A a \in DOMAIN mem : a \in HeapStart .. HeapEnd - W /\ mem[a] \in WordT
  BY <1>0 DEF MemT
<1> QED BY <1>0, <1>2, <1>3, <1>5, <1>6 DEF TypeOK, WordT

LEMMA ShapeSized ==
  ASSUME HeapInv
  PROVE  HeadersIntact
<1>1. PICK k, g, z : HeapShape(k, g, z)
  BY DEF HeapInv
<1> QED BY <1>1, HeapIs DEF HeapShape, Sized, HeadersIntact, Start

LEMMA ShapeLinked ==
  ASSUME HeapInv
  PROVE  FreeListLinked
<1>1. PICK k, g, z : HeapShape(k, g, z)
  BY DEF HeapInv
<1>0. /\ k \in Nat /\ k <= MaxCalls /\ MaxCalls \in Nat
      /\ Ordered(k, g, z) /\ Linked(Heap, k, g, z)
  BY <1>1, ShapeCount
<1> DEFINE nth == Nth(Heap)
<1>2. /\ DOMAIN nth = 0 .. MaxCalls + 1
      /\ \A n \in 0 .. MaxCalls + 1 : nth[n] = IF n <= k THEN g[n] ELSE END_OF_HEAP
  <2>1. nth = NthBlock(k, g)
    BY <1>0, NthIs
  <2> QED BY <2>1 DEF NthBlock
<1> HIDE DEF nth
<1>3. nth[MaxCalls + 1] = END_OF_HEAP
  <2>1. MaxCalls + 1 \in 0 .. MaxCalls + 1 /\ ~(MaxCalls + 1 <= k)
    BY <1>0
  <2> QED BY <1>2, <2>1
<1>4. ASSUME NEW n \in DOMAIN nth, nth[n] \in Addr
      PROVE  IF n = 0 THEN Word(mem, prev(nth[n])) = START_OF_HEAP
                      ELSE Word(mem, prev(nth[n])) = nth[n - 1] /\ nth[n - 1] < nth[n]
  <2>1. n \in 0 .. MaxCalls + 1 /\ n <= k
    <3>1. END_OF_HEAP \notin Addr
      BY KmallocAssumption DEF END_OF_HEAP, Addr, HeapStart, HeapEnd, W
    <3> QED BY <1>2, <1>4, <3>1
  <2>2. n \in 0 .. k /\ nth[n] = g[n]
    BY <1>0, <1>2, <2>1
  <2>3. Word(mem, prev(g[n])) = Before(g, n)
    BY <1>0, <2>2, HeapIs DEF Linked, HeaderIs
  <2>4. CASE n = 0
    BY <2>2, <2>3, <2>4 DEF Before
  <2>5. CASE n # 0
    <3>1. n - 1 \in 0 .. k /\ n - 1 \in 0 .. MaxCalls + 1 /\ n - 1 <= k /\ n - 1 < n
      BY <1>0, <2>2, <2>5
    <3>2. nth[n - 1] = g[n - 1]
      BY <1>2, <3>1
    <3>3. g[n - 1] < g[n]
      <4>1. g[n - 1] + z[n - 1] <= g[n] /\ z[n - 1] >= 3 * W /\ z[n - 1] \in Nat
            /\ g[n - 1] \in Nat /\ g[n] \in Nat
        BY <1>0, <2>2, <3>1, OrderedFacts
      <4> QED BY <4>1 DEF W
    <3> QED BY <2>2, <2>3, <2>5, <3>2, <3>3 DEF Before
  <2> QED BY <2>4, <2>5
<1> QED BY <1>3, <1>4 DEF FreeListLinked, nth

\* The set of blocks that HeapTiled speaks of.
Blocks ==
  {[from |-> x.ptr - W, to |-> x.ptr + x.size, by |-> x.by] : x \in live}
  \cup {[from |-> b, to |-> b + Word(mem, size(b)), by |-> "free"] : b \in FreeBlocks(Heap)}

LEMMA ShapeTiled ==
  ASSUME HeapInv
  PROVE  HeapTiled
<1>1. PICK k, g, z : HeapShape(k, g, z)
  BY DEF HeapInv
<1>0. /\ k \in Nat /\ Ordered(k, g, z) /\ Linked(Heap, k, g, z) /\ Held(live)
      /\ Layout(k, g, z, live) /\ FreeBlocks(Heap) = {g[i] : i \in 0 .. k}
  BY <1>1, ShapeCount DEF HeapShape
<1> DEFINE L(x) == [from |-> x.ptr - W, to |-> x.ptr + x.size, by |-> x.by]
           F(b) == [from |-> b, to |-> b + Word(mem, size(b)), by |-> "free"]
           In(e, a) == e.from <= a /\ a < e.to
<1>2. ASSUME NEW x \in live
      PROVE  /\ L(x) \in Blocks /\ \A a \in Int : In(L(x), a) <=> Covers(Start(x), Length(x), a)
             /\ Start(x) \in Nat /\ Length(x) \in Nat
  <2>1. x.ptr \in Nat /\ x.size \in Nat /\ Start(x) \in Nat /\ Length(x) \in Nat
    BY <1>0, HeldFacts
  <2> QED BY <2>1 DEF Blocks, Covers, Start, Length, W
<1>3. ASSUME NEW i \in 0 .. k
      PROVE  /\ F(g[i]) \in Blocks /\ \A a \in Int : In(F(g[i]), a) <=> Covers(g[i], z[i], a)
             /\ g[i] \in Nat /\ z[i] \in Nat
  <2>1. Word(mem, size(g[i])) = z[i]
    BY <1>0, HeapIs DEF Linked, HeaderIs
  <2>2. F(g[i]) \in Blocks
    BY <1>0 DEF Blocks
  <2>3. g[i] \in Nat /\ z[i] \in Nat
    BY <1>0, OrderedFacts
  <2> QED BY <2>1, <2>2, <2>3 DEF Covers
<1>4. ASSUME NEW e \in Blocks
      PROVE  (\E x \in live : e = L(x)) \/ (\E i \in 0 .. k : e = F(g[i]))
  BY <1>0 DEF Blocks
<1> HIDE DEF L, F, In
<1>5. ASSUME NEW a \in Addr PROVE Cardinality({e \in Blocks : In(e, a)}) = 1
  <2>0. a \in Int
    BY KmallocAssumption DEF Addr, HeapStart, HeapEnd, W
  <2>1. PICK e \in Blocks : In(e, a)
    <3>1. \/ \E x \in live : Covers(Start(x), Length(x), a)
          \/ \E i \in 0 .. k : Covers(g[i], z[i], a)
      BY <1>0 DEF Layout, AllCovered
    <3>2. ASSUME NEW x \in live, Covers(Start(x), Length(x), a) PROVE \E e \in Blocks : In(e, a)
      BY <1>2, <2>0, <3>2
    <3>3. ASSUME NEW i \in 0 .. k, Covers(g[i], z[i], a) PROVE \E e \in Blocks : In(e, a)
      BY <1>3, <2>0, <3>3
    <3> QED BY <3>1, <3>2, <3>3
  <2>2. ASSUME NEW d \in Blocks, In(d, a) PROVE d = e
    <3>1. ASSUME NEW x \in live, NEW y \in live, Covers(Start(x), Length(x), a),
                 Covers(Start(y), Length(y), a)
          PROVE  x = y
      <4> SUFFICES ASSUME x # y PROVE FALSE
        OBVIOUS
      <4>1. Apart(Start(x), Length(x), Start(y), Length(y))
        BY <1>0 DEF Held
      <4> QED BY <1>2, <2>0, <3>1, <4>1 DEF Apart, Covers
    <3>2. ASSUME NEW x \in live, NEW i \in 0 .. k, Covers(Start(x), Length(x), a),
                 Covers(g[i], z[i], a)
          PROVE  FALSE
      <4>1. Apart(Start(x), Length(x), g[i], z[i])
        BY <1>0 DEF Layout, AllApart
      <4> QED BY <1>2, <1>3, <2>0, <3>2, <4>1 DEF Apart, Covers
    <3>3. ASSUME NEW i \in 0 .. k, NEW j \in 0 .. k, Covers(g[i], z[i], a), Covers(g[j], z[j], a)
          PROVE  i = j
      <4>1. i < j => g[i] + z[i] <= g[j]
        BY <1>0, OrderedFacts
      <4>2. j < i => g[j] + z[j] <= g[i]
        BY <1>0, OrderedFacts
      <4>3. ~(i < j) /\ ~(j < i)
        BY <1>3, <2>0, <3>3, <4>1, <4>2 DEF Covers
      <4> QED BY <1>0, <4>3
    <3>4. CASE \E x \in live : d = L(x)
      <4>1. PICK x \in live : d = L(x)
        BY <3>4
      <4>2. Covers(Start(x), Length(x), a)
        BY <1>2, <2>0, <2>2, <4>1
      <4>3. CASE \E y \in live : e = L(y)
        BY <1>2, <2>0, <2>1, <3>1, <4>1, <4>2, <4>3
      <4>4. CASE \E i \in 0 .. k : e = F(g[i])
        BY <1>3, <2>0, <2>1, <3>2, <4>2, <4>4
      <4> QED BY <1>4, <4>3, <4>4
    <3>5. CASE \E i \in 0 .. k : d = F(g[i])
      <4>1. PICK i \in 0 .. k : d = F(g[i])
        BY <3>5
      <4>2. Covers(g[i], z[i], a)
        BY <1>3, <2>0, <2>2, <4>1
      <4>3. CASE \E y \in live : e = L(y)
        BY <1>2, <2>0, <2>1, <3>2, <4>2, <4>3
      <4>4. CASE \E j \in 0 .. k : e = F(g[j])
        BY <1>3, <2>0, <2>1, <3>3, <4>1, <4>2, <4>4
      <4> QED BY <1>4, <4>3, <4>4
    <3> QED BY <1>4, <3>4, <3>5
  <2>3. {d \in Blocks : In(d, a)} = {e}
    BY <2>1, <2>2
  <2> QED BY <2>3, FS_Singleton
<1> QED BY <1>5 DEF HeapTiled, Blocks, In

-----------------------------------------------------------------------------
(***************************************************************************)
(* The theorems.                                                           *)
(***************************************************************************)
LEMMA InitShape ==
  ASSUME Init
  PROVE  HeapShape(0, [i \in 0 .. 0 |-> HeapStart], [i \in 0 .. 0 |-> HeapSize])
<1> DEFINE g == [i \in 0 .. 0 |-> HeapStart]
           z == [i \in 0 .. 0 |-> HeapSize]
<1>0. /\ HeapSize \in Nat /\ HeapSize >= 3 * W /\ HeapStart \in Nat /\ HeapEnd = HeapStart + HeapSize
      /\ HeapEnd \in Nat /\ MaxCalls \in Nat
  BY KmallocAssumption DEF HeapEnd, HeapStart, W
<1>1. \A i \in 0 .. 0 : i = 0 /\ g[i] = HeapStart /\ z[i] = HeapSize
  OBVIOUS
<1>2. g[0] = HeapStart /\ z[0] = HeapSize /\ 0 \in 0 .. 0
  OBVIOUS
<1>3. g \in [0 .. 0 -> Nat] /\ z \in [0 .. 0 -> Nat]
  BY <1>0
<1> HIDE DEF g, z
<1>4. live = {} /\ calls = 0 /\ job = [t \in Task |-> Idle]
  BY DEF Init
<1>5. Layout(0, g, z, live)
  <2>1. Ordered(0, g, z)
    <3>1. \A i \in 0 .. 0 : InHeap(g[i], z[i]) /\ z[i] >= 3 * W
      BY <1>0, <1>1 DEF InHeap
    <3>2. \A i, j \in 0 .. 0 : i < j => g[i] + z[i] <= g[j]
      OBVIOUS
    <3>3. g[0] + z[0] = HeapEnd
      BY <1>0, <1>2
    <3> QED BY <1>3, <3>1, <3>2, <3>3 DEF Ordered
  <2>2. ASSUME NEW p \in Addr PROVE Covers(g[0], z[0], p)
    BY <1>0, <1>2 DEF Addr, Covers
  <2> QED BY <1>2, <1>4, <2>1, <2>2 DEF Layout, Held, AllApart, AllCovered
<1>6. /\ HeaderIs(mem, HeapStart, START_OF_HEAP, END_OF_HEAP, HeapSize) /\ MemT(mem)
  <2>1. /\ DOMAIN mem = {prev(HeapStart), next(HeapStart), size(HeapStart)}
        /\ mem[prev(HeapStart)] = START_OF_HEAP
        /\ mem[next(HeapStart)] = END_OF_HEAP
        /\ mem[size(HeapStart)] = HeapSize
    BY DEF Init, prev, next, size, HeapStart, W
  <2>2. START_OF_HEAP \in WordT /\ END_OF_HEAP \in WordT /\ HeapSize \in WordT
    BY <1>0 DEF WordT
  <2>3. \A a \in DOMAIN mem : a \in HeapStart .. HeapEnd - W
    BY <1>0, <2>1 DEF prev, next, size, W
  <2> QED BY <2>1, <2>2, <2>3 DEF HeaderIs, Word, MemT
<1>7. Linked(Heap, 0, g, z)
  <2>1. first_free = HeapStart
    BY DEF Init
  <2> QED BY <1>1, <1>2, <1>6, <2>1, HeapIs DEF Linked, Before, After
<1>8. Counted(0)
  <2>1. Busy = {}
    BY <1>4 DEF Busy
  <2> QED BY <1>0, <1>4, <2>1, FS_EmptySet DEF Counted
<1>9. job \in [Task -> {Idle} \cup CallT]
  BY <1>4
<1>10. Sized(Heap, live)
  BY <1>4 DEF Sized
<1> QED BY <1>5, <1>6, <1>7, <1>8, <1>9, <1>10 DEF HeapShape, g, z

LEMMA StepShape ==
  ASSUME NEW k, NEW g, NEW z, HeapShape(k, g, z), CallsFit, [Next]_vars, [FreesFit]_vars
  PROVE  HeapInv'
<1>1. CASE UNCHANGED vars
  <2>1. /\ mem' = mem /\ first_free' = first_free /\ live' = live /\ job' = job /\ calls' = calls
    BY <1>1 DEF vars
  <2>2. Heap' = Heap /\ Busy' = Busy
    BY <2>1 DEF Heap, Busy
  <2>3. Counted(k)'
    BY <2>1, <2>2 DEF HeapShape, Counted
  <2>4. HeapShape(k, g, z)'
    BY <2>1, <2>2, <2>3 DEF HeapShape
  <2> QED BY <2>4 DEF HeapInv
<1>2. CASE Next /\ FreesFit
  <2>1. PICK t \in Task : \/ \E n \in Sizes : KMallocSearch(t, n)
                          \/ KMallocCarve(t)
                          \/ \E x \in live : KFree(t, x)
    BY <1>2 DEF Next
  <2>2. CASE \E n \in Sizes : KMallocSearch(t, n)
    <3>1. HeapShape(k, g, z)'
      BY <2>2, SearchStep
    <3> QED BY <3>1 DEF HeapInv
  <2>3. CASE KMallocCarve(t)
    BY <2>3, CarveStep
  <2>4. CASE \E x \in live : KFree(t, x)
    BY <1>2, <2>4, FreeStep
  <2> QED BY <2>1, <2>2, <2>3, <2>4
<1> QED BY <1>1, <1>2

\* HeapInv holds as long as the calls meet what the code needs of them: the free
\* blocks are the list from first_free, in the order of their addresses, and with
\* the blocks handed out they are the whole heap.  Sizes, bitmaps, the number of
\* tasks and where they are preempted are not restricted.
THEOREM HeapInvariant == Spec /\ []CallsFit /\ [][FreesFit]_vars => []HeapInv
<1>1. Init => HeapInv
  BY InitShape DEF HeapInv
<1>2. HeapInv /\ CallsFit /\ [Next]_vars /\ [FreesFit]_vars => HeapInv'
  <2> SUFFICES ASSUME HeapInv, CallsFit, [Next]_vars, [FreesFit]_vars PROVE HeapInv'
    OBVIOUS
  <2>1. PICK k, g, z : HeapShape(k, g, z)
    BY DEF HeapInv
  <2> QED BY <2>1, StepShape
<1> QED BY <1>1, <1>2, PTL DEF Spec

\* The words of the heap, first_free and kmalloc()'s locals have their types:
\* no store of kmalloc() or kfree() reaches past the heap.
THEOREM HeapTyped == Spec /\ []CallsFit /\ [][FreesFit]_vars => []TypeOK
<1>1. HeapInv => TypeOK
  BY ShapeType
<1> QED BY <1>1, HeapInvariant, PTL

\* kmalloc() and kfree() neither lose memory nor hand the same bytes out twice.
THEOREM HeapStaysTiled == Spec /\ []CallsFit /\ [][FreesFit]_vars => []HeapTiled
<1>1. HeapInv => HeapTiled
  BY ShapeTiled
<1> QED BY <1>1, HeapInvariant, PTL

\* The word before an allocated block holds its size until kfree() reads it.
THEOREM HeadersStayIntact == Spec /\ []CallsFit /\ [][FreesFit]_vars => []HeadersIntact
<1>1. HeapInv => HeadersIntact
  BY ShapeSized
<1> QED BY <1>1, HeapInvariant, PTL

\* The free list ends, runs upwards, and its prev is the inverse of its next.
THEOREM FreeListStaysLinked == Spec /\ []CallsFit /\ [][FreesFit]_vars => []FreeListLinked
<1>1. HeapInv => FreeListLinked
  BY ShapeLinked
<1> QED BY <1>1, HeapInvariant, PTL
=============================================================================
