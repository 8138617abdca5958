------------------------------- MODULE Paging -------------------------------
(***************************************************************************)
(* Physical pages (src/src/mm/mm.c), page tables (src/src/mm/paging.c), and *)
(* the kernel paths that use them: loading a program (move_to_userspace),  *)
(* kernel_fork() and the data abort of a user process (el0_da).            *)
(*                                                                         *)
(* get_next_free_page() tests an entry of page_bitmap and then sets it.    *)
(* kernel_fork() runs with preemption disabled and is one step.  The other *)
(* paths may be preempted between the test and the store, and between the  *)
(* enable_irq() of el0_da and its reads of FAR and ESR; PreemptAt says at  *)
(* which of these points the timer interrupt may end a slice.              *)
(***************************************************************************)
EXTENDS Integers, Sequences, SequencesExt

CONSTANTS
  NTasks,    \* entries of task_array in use
  NThreads,  \* tasks that start as kernel threads and load a program
  NumPages,  \* MM_NUM_OF_PAGES
  Index,     \* indices into a page table
  VPage,     \* pages the programs touch: <<pgd, pud, pmd, pte>> indices
  Value,     \* contents of a page, 0 after memzero()
  PreemptAt  \* where the timer interrupt may end a task's slice in
             \* the instance under study, out of Inside

CodePage == <<0, 0, 0, 0>>    \* virtual address 0
Task     == 1 .. NTasks
Page     == 1 .. NumPages
NoPage   == 0

ASSUME PagingAssumption ==
  /\ NTasks \in Nat
  /\ NThreads \in 0 .. NTasks
  /\ NumPages \in Nat /\ NThreads <= NumPages
  /\ 0 \in Index
  /\ VPage \subseteq [1 .. 4 -> Index]
  /\ CodePage \in VPage
  /\ 0 \in Value /\ -1 \notin Value
  /\ PreemptAt \subseteq {"load", "el0_da", "mem_abort"}

VARIABLES
  ram,   \* page_bitmap, and the pages seen as tables and as data
  mm,    \* task_struct.mm, with the page that holds the task_struct
  pc,    \* where each task is
  page,  \* local of get_next_free_page(): the entry found clear
  addr,  \* do_mem_abort(): its argument addr
  far_el1, esr_el1   \* system registers, written by every exception from EL0

vars == <<ram, mm, pc, page, addr, far_el1, esr_el1>>

NoMm == [task_page |-> NoPage, pagedirectory |-> NoPage,
         userpages |-> <<>>, kernelpages |-> <<>>]

-----------------------------------------------------------------------------
(***************************************************************************)
(* get_next_free_page(), map_page() and their callers, as functions of a   *)
(* state s with fields ram and mm.                                         *)
(***************************************************************************)
FreePages(r) == {p \in Page : ~r.used[p]}

\* The first clear entry of page_bitmap, NoPage if there is none.
FirstFree(r) ==
  IF FreePages(r) = {} THEN NoPage
  ELSE CHOOSE p \in FreePages(r) : \A q \in FreePages(r) : p <= q

\* The entry is set and the page is zeroed.
TakePage(r, p) ==
  [r EXCEPT !.used[p] = TRUE, !.data[p] = 0,
            !.table[p] = [i \in Index |-> NoPage]]

Entry(r, tbl, i) == IF tbl = NoPage THEN NoPage ELSE r.table[tbl][i]

Mut_map_table(s, t, tbl, i) ==
  LET p == FirstFree(s.ram)
  IN  IF tbl = NoPage \/ p = NoPage THEN [s EXCEPT !.ok = FALSE]
      ELSE [ram |-> [TakePage(s.ram, p) EXCEPT !.table[tbl][i] = p],
            mm  |-> [s.mm EXCEPT ![t].kernelpages = Append(@, p)],
            ok  |-> s.ok]

Mut_map_table_old_entry(s, t, tbl, i) ==
  LET p == FirstFree(s.ram)
  IN  IF Entry(s.ram, tbl, i) # NoPage THEN s
      ELSE IF tbl = NoPage \/ p = NoPage THEN [s EXCEPT !.ok = FALSE]
      ELSE [s EXCEPT !.ram = [TakePage(s.ram, p) EXCEPT !.table[tbl][i] = p],
                     !.mm[t].kernelpages = Append(@, Entry(s.ram, tbl, i))]

\* When a table is needed and no page is left the code goes on with a table
\* at physical address 0; the model stops there, with ok = FALSE.
map_table(s, t, tbl, i) ==
  LET p == FirstFree(s.ram)
  IN  IF Entry(s.ram, tbl, i) # NoPage THEN s
      ELSE IF tbl = NoPage \/ p = NoPage THEN [s EXCEPT !.ok = FALSE]
      ELSE [ram |-> [TakePage(s.ram, p) EXCEPT !.table[tbl][i] = p],
            mm  |-> [s.mm EXCEPT ![t].kernelpages = Append(@, p)],
            ok  |-> s.ok]

Mut_map_table_entry(s, t, pte, v, p) ==
  [s EXCEPT !.ram.table[pte][v[4]] = p]

\* The last level, and the list of the task's pages.
map_table_entry(s, t, pte, v, p) ==
  [ram |-> [s.ram EXCEPT !.table[pte][v[4]] = p],
   mm  |-> [s.mm EXCEPT ![t].userpages = Append(@, [phys |-> p, virt |-> v])],
   ok  |-> s.ok]

\* map_table() for the table of a, and the one it returns.
NextTable(a, t, i) ==
  LET s == map_table(a.s, t, a.tbl, i)
  IN  [s |-> s, tbl |-> Entry(s.ram, a.tbl, i)]

\* The task's page directory, a new one if it has none.
PageDirectory(s, t) ==
  LET p == FirstFree(s.ram)
  IN  IF s.mm[t].pagedirectory # NoPage \/ p = NoPage
        THEN [s |-> s, tbl |-> s.mm[t].pagedirectory]
        ELSE [s |-> [ram |-> TakePage(s.ram, p),
                     mm  |-> [s.mm EXCEPT ![t].pagedirectory = p,
                                          ![t].kernelpages = Append(@, p)],
                     ok  |-> s.ok],
              tbl |-> p]

map_page(s, t, v, p) ==
  LET pud == NextTable(PageDirectory(s, t), t, v[1])
      pmd == NextTable(pud, t, v[2])
      pte == NextTable(pmd, t, v[3])
  IN  IF pte.s.ok THEN map_table_entry(pte.s, t, pte.tbl, v, p) ELSE pte.s

\* The hardware's walk of the tables of a directory.
Walk(r, dir, v) ==
  Entry(r, Entry(r, Entry(r, Entry(r, dir, v[1]), v[2]), v[3]), v[4])

Mut_NewUserPage(s, t, v, p, x) ==
  map_page([s EXCEPT !.ram = TakePage(s.ram, p)], t, v, p)

\* get_next_free_page(), its page mapped at v and filled with x.
NewUserPage(s, t, v, p, x) ==
  LET m == map_page([s EXCEPT !.ram = TakePage(s.ram, p)], t, v, p)
  IN  [m EXCEPT !.ram.data[p] = x]

Mut_CopyShares(s, t, src) ==
  FoldLeft(LAMBDA a, u : map_page(a, t, u.virt, u.phys), s, s.mm[src].userpages)

\* copy_virtual_memory(), a page: memcpy() reads the source through the directory
\* of current.  The loop gives up at the first page it does not get.
CopyPage(a, t, src, u) ==
  LET p == FirstFree(a.ram)
      x == a.ram.data[Walk(a.ram, a.mm[src].pagedirectory, u.virt)]
  IN  IF p = NoPage \/ ~a.ok THEN a ELSE NewUserPage(a, t, u.virt, p, x)

copy_virtual_memory(s, t, src) ==
  LET list == s.mm[src].userpages
      after[i \in 0 .. Len(list)] ==
        IF i = 0 THEN s ELSE CopyPage(after[i - 1], t, src, list[i])
  IN  after[Len(list)]

Now == [ram |-> ram, mm |-> mm, ok |-> TRUE]
Become(s) == s.ok /\ ram' = s.ram /\ mm' = s.mm

-----------------------------------------------------------------------------
(***************************************************************************)
(* main() has forked the kernel threads: each has a page for task_struct.  *)
(***************************************************************************)
Init ==
  /\ ram = [used  |-> [p \in Page |-> p <= NThreads],
            table |-> [p \in Page |-> [i \in Index |-> NoPage]],
            data  |-> [p \in Page |-> 0]]
  /\ mm = [t \in Task |-> IF t <= NThreads
                            THEN [NoMm EXCEPT !.task_page = t] ELSE NoMm]
  /\ pc = [t \in Task |-> IF t <= NThreads THEN "thread" ELSE "absent"]
  /\ page = [t \in Task |-> NoPage]
  /\ addr = [t \in Task |-> CodePage]
  /\ far_el1 = CodePage
  /\ esr_el1 = "svc"

\* The points at which a task is inside one of the preemptible paths.
Inside == {"load", "el0_da", "mem_abort"}

CanRun(t) == \A u \in Task \ {t} : pc[u] \in Inside => pc[u] \in PreemptAt

ForgetLocals(t) ==
  /\ page' = [page EXCEPT ![t] = NoPage]
  /\ addr' = [addr EXCEPT ![t] = CodePage]

\* get_next_free_page() of a preemptible path: the test.
FindPage(t, found) ==
  LET p == FirstFree(ram)
  IN  /\ page' = [page EXCEPT ![t] = p]
      /\ pc' = [pc EXCEPT ![t] = IF p = NoPage THEN "hang" ELSE found]

(***************************************************************************)
(* elf_load() and move_to_userspace(), in a kernel thread.                 *)
(***************************************************************************)
LoadBegin(t) ==
  /\ CanRun(t) /\ pc[t] = "thread"
  /\ FindPage(t, "load")
  /\ UNCHANGED <<ram, mm, addr, far_el1, esr_el1>>

\* The rest: allocate_user_page(task, 0), memcpy(), and back to user mode.
LoadEnd(t) ==
  /\ CanRun(t) /\ pc[t] = "load"
  /\ \E x \in Value : Become(NewUserPage(Now, t, CodePage, page[t], x))
  /\ pc' = [pc EXCEPT ![t] = "user"]
  /\ ForgetLocals(t)
  /\ UNCHANGED <<far_el1, esr_el1>>

(***************************************************************************)
(* User mode.                                                              *)
(***************************************************************************)
Translate(t, v) == Walk(ram, mm[t].pagedirectory, v)

Store(t, v) ==
  /\ CanRun(t) /\ pc[t] = "user"
  /\ Translate(t, v) # NoPage
  /\ \E x \in Value : ram' = [ram EXCEPT !.data[Translate(t, v)] = x]
  /\ UNCHANGED <<mm, pc, page, addr, far_el1, esr_el1>>

\* el0_sync, then el0_da up to enable_irq().
DataAbort(t, v) ==
  /\ CanRun(t) /\ pc[t] = "user"
  /\ Translate(t, v) = NoPage
  /\ far_el1' = v
  /\ esr_el1' = "translation_fault"
  /\ pc' = [pc EXCEPT ![t] = "el0_da"]
  /\ UNCHANGED <<ram, mm, page, addr>>

\* A system call that maps nothing; also a fork() that gets no page for the
\* task_struct.
SysCall(t) ==
  /\ CanRun(t) /\ pc[t] = "user"
  /\ esr_el1' = "svc"
  /\ UNCHANGED <<ram, mm, pc, page, addr, far_el1>>

\* el0_da reads the system registers; do_mem_abort() looks for a page.
MemAbortFind(t) ==
  /\ CanRun(t) /\ pc[t] = "el0_da"
  /\ addr' = [addr EXCEPT ![t] = far_el1]
  /\ IF esr_el1 = "translation_fault"
       THEN FindPage(t, "mem_abort")
       ELSE pc' = [pc EXCEPT ![t] = "hang"] /\ UNCHANGED page
  /\ UNCHANGED <<ram, mm, far_el1, esr_el1>>

\* do_mem_abort() takes the page and maps it; the access is retried.
MemAbortMap(t) ==
  /\ CanRun(t) /\ pc[t] = "mem_abort"
  /\ Become(NewUserPage(Now, t, addr[t], page[t], 0))
  /\ pc' = [pc EXCEPT ![t] = "user"]
  /\ ForgetLocals(t)
  /\ UNCHANGED <<far_el1, esr_el1>>

(***************************************************************************)
(* syscall_fork(): kernel_fork(0, 0, 0), with preemption disabled.         *)
(***************************************************************************)
KernelFork(t, c) ==
  LET p  == FirstFree(ram)
      s0 == [ram |-> TakePage(ram, p), mm |-> [mm EXCEPT ![c].task_page = p],
             ok |-> TRUE]
  IN  /\ CanRun(t) /\ pc[t] = "user" /\ pc[c] = "absent"
      /\ p # NoPage
      /\ esr_el1' = "svc"
      /\ Become(copy_virtual_memory(s0, c, t))
      /\ pc' = [pc EXCEPT ![c] = "user"]
      /\ UNCHANGED <<page, addr, far_el1>>

\* exit_task(): current->stack is never set, so no page is freed.
ExitTask(t) ==
  /\ CanRun(t) /\ pc[t] = "user"
  /\ pc' = [pc EXCEPT ![t] = "exited"]
  /\ esr_el1' = "svc"
  /\ UNCHANGED <<ram, mm, page, addr, far_el1>>

Next ==
  \E t \in Task :
    \/ LoadBegin(t) \/ LoadEnd(t)
    \/ \E v \in VPage : Store(t, v) \/ DataAbort(t, v)
    \/ SysCall(t) \/ MemAbortFind(t) \/ MemAbortMap(t)
    \/ \E c \in Task : KernelFork(t, c)
    \/ ExitTask(t)

Spec == Init /\ [][Next]_vars

\* No preemption so far did harm: the page a task found clear is still clear, and
\* the address in FAR is still one the task that will read it has not mapped.
Undisturbed ==
  \A t \in Task :
    /\ pc[t] \in {"load", "mem_abort"} => ~ram.used[page[t]]
    /\ pc[t] = "el0_da" => Translate(t, far_el1) = NoPage

\* The behaviours with any other preemption.
CarefulSpec == Init /\ [][Next /\ Undisturbed']_vars
-----------------------------------------------------------------------------
(***************************************************************************)
(* Properties.                                                             *)
(***************************************************************************)

\* Types of page_bitmap, the tables, the mm of every task and its locals.
TypeOK ==
  /\ ram \in [used : [Page -> BOOLEAN], data : [Page -> Value],
              table : [Page -> [Index -> Page \cup {NoPage}]]]
  /\ \A t \in Task :
       /\ mm[t].task_page \in Page \cup {NoPage}
       /\ mm[t].pagedirectory \in Page \cup {NoPage}
       /\ mm[t].kernelpages \in Seq(Page)
       /\ mm[t].userpages \in Seq([phys : Page, virt : VPage])
  /\ pc \in [Task -> {"absent", "thread", "user", "hang", "exited"} \cup Inside]
  /\ page \in [Task -> Page \cup {NoPage}]
  /\ addr \in [Task -> VPage]
  /\ far_el1 \in VPage
  /\ esr_el1 \in {"svc", "translation_fault"}

\* Every page a task holds: its task_struct, its tables, its memory.
Holds(t) ==
  LET m == mm[t]
  IN  (IF m.task_page = NoPage THEN <<>> ELSE <<m.task_page>>)
      \o m.kernelpages \o [i \in DOMAIN m.userpages |-> m.userpages[i].phys]

\* A page that get_next_free_page() gave out ("reserve a page",
\* move_to_userspace) is marked and serves one purpose of one task: no two
\* tasks share memory and no program can write a page table.
PagesExclusive ==
  \A t, u \in Task : \A i \in DOMAIN Holds(t), j \in DOMAIN Holds(u) :
    /\ ram.used[Holds(t)[i]]
    /\ Holds(t)[i] = Holds(u)[j] => t = u /\ i = j

\* The list userpages, from which copy_virtual_memory() works, and the tables,
\* from which the hardware works, describe the same memory.
ListMatchesTables ==
  \A t \in Task :
    LET Mapped == {v \in VPage : Translate(t, v) # NoPage}
    IN  /\ {<<u.virt, u.phys>> : u \in ToSet(mm[t].userpages)}
             = {<<v, Translate(t, v)>> : v \in Mapped}
        /\ Len(mm[t].userpages) = Cardinality(Mapped)

\* A page once mapped stays where it is: el0_da serves "unmapped" addresses.
MappingsStay ==
  [][\A t \in Task, v \in VPage :
       Translate(t, v) # NoPage => Translate(t, v)' = Translate(t, v)]_vars

Private ==
  INSTANCE AddressSpaces WITH
    Thread   <- 1 .. NThreads,
    Zero     <- 0,
    Unmapped <- -1,
    started  <- {t \in Task : mm[t].pagedirectory # NoPage},
    memory   <- [t \in Task |-> [v \in VPage |->
                   IF Translate(t, v) = NoPage THEN -1
                                               ELSE ram.data[Translate(t, v)]]]

\* The pages, tables and lists implement private memories: what a process
\* reads is what it stored last, zero, or what its parent had at the fork.
PrivateMemory == Private!Spec
=============================================================================
