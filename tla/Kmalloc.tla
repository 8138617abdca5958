------------------------------ MODULE Kmalloc ------------------------------
(***************************************************************************)
(* The kernel heap (src/src/lib/kmalloc.c): a first-fit allocator whose    *)
(* free blocks form a doubly linked list inside the heap.  An allocated    *)
(* block starts with one word, its size; a free one with three, prev, next *)
(* and size.  Nothing aligns blocks, so a store may overlap a word that    *)
(* begins a few bytes before or after it.                                  *)
(*                                                                         *)
(* Nothing protects the list from preemption either: kmalloc() is split    *)
(* where it has read the block it will carve and has stored nothing yet.   *)
(***************************************************************************)
EXTENDS Integers, FiniteSets

CONSTANTS
  Task,       \* tasks that use the heap
  HeapSize,   \* KERNEL_HEAP_SIZE, in bytes
  Sizes,      \* the sizes asked of kmalloc()
  Bitmap,     \* those of blocks that init_fd_table() clears: 15
  MaxCalls    \* bound on the calls of kmalloc()

W == 8     \* sizeof(uint64_t), KERNEL_MALLOC_HEADER_SIZE

\* kmalloc_init() stores a header at the start of the heap.
ASSUME KmallocAssumption ==
  /\ HeapSize \in Nat /\ HeapSize >= 3 * W
  /\ Sizes \subseteq Nat /\ Bitmap \subseteq Sizes
  /\ MaxCalls \in Nat

START_OF_HEAP == 0
END_OF_HEAP   == -1
Garbage       == -2    \* a word that holds no pointer and no size
HeapStart     == W     \* any address above 0
HeapEnd       == HeapStart + HeapSize
Addr          == HeapStart .. HeapEnd - 1
NoHeader      == [prev |-> Garbage, next |-> Garbage, size |-> Garbage]
Idle          == [size |-> 0, block |-> START_OF_HEAP, old |-> NoHeader]

VARIABLES
  mem,         \* the words of the heap whose value is known, by address
  first_free,
  live,        \* blocks handed out: [ptr, size, by]
  job,         \* locals of a kmalloc(): size, free_block, prev_free_block
  calls        \* calls made so far

vars == <<mem, first_free, live, job, calls>>

-----------------------------------------------------------------------------
(***************************************************************************)
(* Words and headers.                                                      *)
(***************************************************************************)
Word(m, a) == IF a \in DOMAIN m THEN m[a] ELSE Garbage

\* Bytes a .. a + n - 1 are overwritten with data of no interest.
Overwrite(m, a, n) ==
  [x \in DOMAIN m \ (a - W + 1 .. a + n - 1) |-> m[x]]

Put(m, a, w) ==
  LET rest == Overwrite(m, a, W)
  IN  [x \in DOMAIN rest \cup {a} |-> IF x = a THEN w ELSE rest[x]]

\* The fields of free_mem_header_t.
prev(a) == a
next(a) == a + W
size(a) == a + 2 * W

Header(m, a) == [prev |-> Word(m, prev(a)), next |-> Word(m, next(a)),
                 size |-> Word(m, size(a))]

PutHeader(m, a, h) ==
  Put(Put(Put(m, prev(a), h.prev), next(a), h.next), size(a), h.size)

\* The block n links behind first_free; a walk stops where it leaves the heap.
Nth(h) ==
  LET nth[n \in 0 .. MaxCalls + 1] ==
        IF n = 0 THEN h.first
        ELSE IF nth[n - 1] \in Addr THEN Word(h.mem, next(nth[n - 1]))
        ELSE nth[n - 1]
  IN  nth

FreeBlocks(h) == {Nth(h)[n] : n \in DOMAIN Nth(h)} \cap Addr

\* The first block of the list that is in Wanted, END_OF_HEAP if none is.
FirstBlock(h, Wanted) ==
  LET nth  == Nth(h)
      Hits == {n \in DOMAIN nth : nth[n] \in Wanted}
  IN  IF Hits = {} THEN END_OF_HEAP
      ELSE nth[CHOOSE n \in Hits : \A k \in Hits : n <= k]

-----------------------------------------------------------------------------
(***************************************************************************)
(* kmalloc().                                                              *)
(***************************************************************************)
\* The blocks before and after the carved one get new neighbours; the four
\* cases of the code differ in which of the two exist.  An empty list has
\* first_free = 0.
LinkPrev(h, p, a) ==
  IF p = START_OF_HEAP
    THEN [h EXCEPT !.first = IF a = END_OF_HEAP THEN 0 ELSE a]
    ELSE [h EXCEPT !.mem = Put(@, next(p), a)]

LinkNext(h, n, a) ==
  IF n = END_OF_HEAP THEN h ELSE [h EXCEPT !.mem = Put(@, prev(n), a)]

Mut_CarveKeepsSize(h, b, old, n) ==
  LET used == n + W
      new  == b + used
  IN  IF old.size = used
        THEN LinkNext(LinkPrev(h, old.prev, old.next), old.next, old.prev)
        ELSE LET g == [h EXCEPT !.mem = PutHeader(@, new, old)]
             IN  LinkNext(LinkPrev(g, old.prev, new), old.next, new)

Mut_CarveNoBackLink(h, b, old, n) ==
  LET used == n + W
      new  == b + used
  IN  IF old.size = used
        THEN LinkPrev(h, old.prev, old.next)
        ELSE LinkPrev([h EXCEPT !.mem = PutHeader(@, new,
                        [old EXCEPT !.size = @ - used])], old.prev, new)

\* Block b, whose header was read as old, is carved for n bytes.
Carve(h, b, old, n) ==
  LET used == n + W
      new  == b + used
  IN  IF old.size = used
        THEN LinkNext(LinkPrev(h, old.prev, old.next), old.next, old.prev)
        ELSE LET g == [h EXCEPT !.mem = PutHeader(@, new,
                                         [old EXCEPT !.size = @ - used])]
             IN  LinkNext(LinkPrev(g, old.prev, new), old.next, new)

\* memzero_u8() stores four zero bytes for each of the n: of a word that starts
\* in the three behind them, only 0 survives.
memzero_u8(m, a, n) ==
  LET rest == Overwrite(m, a, n)
      Hit  == {x \in DOMAIN rest \cap (a + n .. a + n + 2) : rest[x] # 0}
  IN  [x \in DOMAIN rest \ Hit |-> rest[x]]

\* The size word, then whatever the caller stores.
Mut_HandOut(m, b, n) == Overwrite(Put(m, b, n + W), b + W, n)
HandOut(m, b, n) ==
  LET sized == Put(m, b, n)
  IN  IF n \in Bitmap THEN memzero_u8(sized, b + W, n) ELSE Overwrite(sized, b + W, n)

-----------------------------------------------------------------------------
(***************************************************************************)
(* kfree().                                                                *)
(***************************************************************************)
\* The block lies behind the last free block b: its next is not written.
FreeLast(h, hdr, n, b) ==
  CASE hdr > b -> [h EXCEPT !.mem = Put(Put(Put(@, next(b), hdr), prev(hdr), b),
                                        size(hdr), n)]
    [] hdr = b -> [h EXCEPT !.mem = Put(@, size(b), Word(@, size(b)) + n)]
    [] OTHER   -> h

\* The block lies before the first free block b.
FreeFirst(h, hdr, n, b) ==
  LET old == Header(h.mem, b)
  IN  IF hdr + n = b
        THEN LinkNext([mem   |-> PutHeader(h.mem, hdr, [old EXCEPT !.size = @ + n]),
                       first |-> hdr],
                      old.next, hdr)
        ELSE [mem   |-> Put(PutHeader(h.mem, hdr,
                              [prev |-> START_OF_HEAP, next |-> b, size |-> n]),
                            prev(b), hdr),
              first |-> hdr]

Mut_FreeBetween(h, hdr, n, b) ==
  LET p == Word(h.mem, prev(b))
  IN  [h EXCEPT !.mem = Put(PutHeader(h.mem, hdr,
                              [prev |-> p, next |-> b, size |-> n]),
                            prev(b), hdr)]

\* The block lies between the free block p and the free block b that follows.
FreeBetween(h, hdr, n, b) ==
  LET p       == Word(h.mem, prev(b))
      old     == Header(h.mem, b)
      after_p == p + Word(h.mem, size(p)) + 1 = hdr
      below_b == hdr + n + 1 = b
      grow(x) == Put(h.mem, size(p), Word(h.mem, size(p)) + x)
  IN  CASE after_p /\ below_b ->
             LinkNext([h EXCEPT !.mem = Put(grow(n + old.size), next(p), old.next)],
                      old.next, p)
        [] after_p /\ ~below_b -> [h EXCEPT !.mem = grow(n)]
        [] ~after_p /\ below_b ->
             [h EXCEPT !.mem = Put(PutHeader(@, hdr + 1, [old EXCEPT !.size = @ + n]),
                                   next(p), hdr + 1)]
        [] OTHER ->
             [h EXCEPT !.mem = Put(Put(PutHeader(@, hdr,
                                         [prev |-> p, next |-> b, size |-> n]),
                                       prev(b), hdr), next(p), hdr)]

\* "KFREE FAILED" when the list is empty.  A sole free block is taken for one
\* that follows the freed block.
kfree(h, ptr) ==
  LET hdr  == ptr - W
      n    == Word(h.mem, hdr) + W
      sole == Word(h.mem, prev(h.first)) = START_OF_HEAP
              /\ Word(h.mem, next(h.first)) = END_OF_HEAP
      b    == FirstBlock(h, {x \in FreeBlocks(h) :
                             x > ptr \/ Word(h.mem, next(x)) = END_OF_HEAP})
  IN  IF h.first = 0 THEN h
      ELSE IF ~sole /\ b <= ptr THEN FreeLast(h, hdr, n, b)
      ELSE IF Word(h.mem, prev(b)) = START_OF_HEAP THEN FreeFirst(h, hdr, n, b)
      ELSE FreeBetween(h, hdr, n, b)

-----------------------------------------------------------------------------
Heap == [mem |-> mem, first |-> first_free]

\* kmalloc_init().
Init ==
  /\ first_free = HeapStart
  /\ mem = [a \in {prev(HeapStart), next(HeapStart), size(HeapStart)} |->
              CASE a = prev(HeapStart) -> START_OF_HEAP
                [] a = next(HeapStart) -> END_OF_HEAP
                [] a = size(HeapStart) -> HeapSize]
  /\ live = {}
  /\ job = [t \in Task |-> Idle]
  /\ calls = 0

\* kmalloc(n) up to its first store.  A search that no block ends goes on with
\* the next field of END_OF_HEAP; it stays at END_OF_HEAP here.
KMallocSearch(t, n) ==
  LET b == FirstBlock(Heap, {x \in FreeBlocks(Heap) : Word(mem, size(x)) >= n + W})
  IN  /\ job[t] = Idle
      /\ calls < MaxCalls
      /\ first_free # 0
      /\ job' = [job EXCEPT ![t] = [size |-> n, block |-> b, old |-> Header(mem, b)]]
      /\ calls' = calls + 1
      /\ UNCHANGED <<mem, first_free, live>>

\* The stores of kmalloc() and its return.
KMallocCarve(t) ==
  LET b == job[t].block
      n == job[t].size
      h == Carve(Heap, b, job[t].old, n)
  IN  /\ b \in Addr
      /\ mem' = HandOut(h.mem, b, n)
      /\ first_free' = h.first
      /\ live' = live \cup {[ptr |-> b + W, size |-> n, by |-> t]}
      /\ job' = [job EXCEPT ![t] = Idle]
      /\ UNCHANGED calls

\* A caller frees a block it holds.
KFree(t, x) ==
  LET h == kfree(Heap, x.ptr)
  IN  /\ job[t] = Idle
      /\ x.by = t
      /\ Word(mem, x.ptr - W) # Garbage
      /\ mem' = h.mem
      /\ first_free' = h.first
      /\ live' = live \ {x}
      /\ UNCHANGED <<job, calls>>

Next == \E t \in Task : \/ \E n \in Sizes : KMallocSearch(t, n)
                        \/ KMallocCarve(t)
                        \/ \E x \in live : KFree(t, x)

Spec == Init /\ [][Next]_vars

-----------------------------------------------------------------------------
(***************************************************************************)
(* What kmalloc() and kfree() need of a call and do not test.              *)
(***************************************************************************)
\* The block that an unfinished kmalloc() found is still free and its header
\* is as it was read; what the request leaves of it holds a header, or nothing
\* is left and another free block follows; and behind a bitmap lies the prev
\* word of the first free block, the zero that memzero_u8() stores there.
BlockFits(j) ==
  LET left == j.old.size - (j.size + W)
  IN  /\ j.block \in FreeBlocks(Heap) /\ j.old = Header(mem, j.block)
      /\ left >= 3 * W \/ (left = 0 /\ j.old.next # END_OF_HEAP)
      /\ j.size \in Bitmap => left # 0 /\ j.old.prev = START_OF_HEAP

CallsFit == \A t \in Task : job[t].block \in Addr => BlockFits(job[t])

\* A freed block can hold the header of a free block, or it is joined with the
\* first free block.
FreesFit ==
  \A x \in live \ live' :
    x.size + W >= 3 * W \/ (x.size > 0 /\ x.ptr + x.size = first_free)

\* The behaviours in which all calls do.
CarefulSpec == Init /\ [][Next /\ CallsFit' /\ FreesFit]_vars
-----------------------------------------------------------------------------
(***************************************************************************)
(* Properties.                                                             *)
(***************************************************************************)

\* Types of first_free, of the words of the heap and of kmalloc()'s locals:
\* free_mem_header_t fields are heap addresses, sizes or the two end marks,
\* and no known word reaches past the heap.
TypeOK ==
  LET Value == Addr \cup {START_OF_HEAP, END_OF_HEAP, Garbage} \cup 0 .. HeapSize
  IN  /\ first_free \in Addr \cup {0}
      /\ \A a \in DOMAIN mem : a \in HeapStart .. HeapEnd - W /\ mem[a] \in Value
      /\ \A x \in live : x.ptr \in Addr /\ x.size \in Sizes /\ x.by \in Task
      /\ \A t \in Task : /\ job[t].size \in Sizes \cup {0}
                         /\ job[t].block \in Value
                         /\ job[t].old \in [prev : Value, next : Value, size : Value]
      /\ calls \in 0 .. MaxCalls

\* Every byte of the heap belongs to exactly one block, allocated or free:
\* kmalloc() and kfree() neither lose memory nor hand the same bytes out twice.
HeapTiled ==
  LET Blocks == {[from |-> x.ptr - W, to |-> x.ptr + x.size, by |-> x.by] : x \in live}
                \cup {[from |-> b, to |-> b + Word(mem, size(b)), by |-> "free"] :
                        b \in FreeBlocks(Heap)}
  IN  \A a \in Addr : Cardinality({e \in Blocks : e.from <= a /\ a < e.to}) = 1

\* The word before an allocated block still holds the block's size ("add size
\* to beginning of new ptr so free knows how big this block is", kmalloc()):
\* no header of a free block was stored over it.
HeadersIntact == \A x \in live : Word(mem, x.ptr - W) = x.size

\* From first_free the next pointers lead through ever higher addresses ("Our
\* block was before first free block (so < first_free)", kfree()) to the end
\* mark, and prev is the inverse of next.
FreeListLinked ==
  LET nth == Nth(Heap)
  IN  /\ nth[MaxCalls + 1] \in {0, END_OF_HEAP}
      /\ \A n \in DOMAIN nth : nth[n] \in Addr =>
           IF n = 0 THEN Word(mem, prev(nth[n])) = START_OF_HEAP
                    ELSE Word(mem, prev(nth[n])) = nth[n - 1] /\ nth[n - 1] < nth[n]
=============================================================================
