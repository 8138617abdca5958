# Verification of pellOS

TLA+ models of the kernel of pellOS and of the tool that builds its ramdisk, the TLC runs that check them and TLAPS
proofs of their safety. File names are relative to the repository
(`src/` here stands for its root).

## The system

pellOS is a single-core AArch64 kernel with preemptive multitasking. Its parts:

| Part | State | Operations | Hard because |
|---|---|---|---|
| scheduler (`src/src/scheduler/scheduler.c`, `asm/task.S`) | `current`, `task_array`, `n_tasks`; per task `state`, `counter`, `priority`, `preempt_count`, a kernel stack | `kernel_fork`, `schedule`/`_schedule`, `switch_to`, `scheduler_tick`, `set_task_priority`, `exit_task` | the timer interrupt may end a slice between any two statements while `preempt_count` is 0; `current` changes before the stack does; DAIF is not part of a context |
| software timers (`src/src/lib/software_timer.c`) | `timer_arr[5]`, `current_tick` | `register_one_hit` (blocks), `check_timers` (wakes), `increment_tick` | written by tasks and by the scheduler with no lock |
| exception entry (`src/src/asm/entry.S`), system calls (`src/src/syscalls.c`) | FAR, ESR, the interrupt mask | IRQ entry and return, `el0_sync`, data abort, seven system calls | IRQs are enabled inside the handlers |
| pages and tables (`src/src/mm/mm.c`, `paging.c`) | `page_bitmap`, the tables, `mm` of each task | `get_next_free_page`, `map_page`, `copy_virtual_memory`, `do_mem_abort` | test-then-set without a lock, failure in the middle of a fork, fixed arrays |
| kernel heap (`src/src/lib/kmalloc.c`) | a linked list inside the heap | `kmalloc`, `kfree` | eight list branches, unaligned blocks, no lock |
| files (`src/src/fs/`) | descriptor table per task | `open`, `read`, `close`; path lookup, `readdir`, `getattr` | two arrays that must agree; results of failed lookups |
| ramdisk image tool (`src/tools/fs/genRamDisk.py`) | a tree, flattened to ids, entries and data | builds the image at build time | ids, child lists and offsets computed in separate passes must agree with each other and with the kernel's arithmetic |
| interrupt controller and timers (`src/src/irq.c`, `peripherals/*timer.c`, `asm/generic_timer.S`) | device registers, `tick_occured` | arming, the probe for QEMU, dispatch, re-arm | the hardware's counter moves between any two accesses; one missing link stops all ticks |
| screen console (`peripherals/mailbox.c`, `framebuffer.c`, `utils/shell.c`) | the mailbox buffer, `fb`, the cursor | `framebuffer_init`, `kernel_writeChar` | answers of others, refusals, edges of the page, no lock |
| UART (`peripherals/uart.c`) | the transmit queue | `uart_writeByteBlocks` | test and store are two steps |
| memory routines (`asm/utils.S`) | | `memcpy`, `memzero_u8`, ... | counts of 0, word stores for bytes |
| boot code, printf, user programs | | | not modelled, see the end |

Ticks call `scheduler_tick`, which calls `_schedule`, which calls
`check_timers` and `switch_to`. System calls reach the scheduler, the timers, the
files and, through files, the heap. `kernel_fork` and data aborts reach the pages.
`printf` reaches, through `putc`, the UART or the screen.
The hazards these parts are exposed to, each with its line and the properties
aimed at it, are listed in `PROJECT.json`.

What makes each part correct: a task is never switched out in a critical section,
every runnable task runs, exited tasks stay exited (scheduler); a blocked task has
a timer and every timer fires once (timers); processes have private memories
(paging); the blocks tile the heap and nobody gets a byte twice (heap); a
descriptor names the file it was opened for, and what is read is what the file on
the host held (files, ramdisk, image tool); ticks come for ever, one interval apart,
from one timer (timers); text stays on the page and nothing printed is lost
(console, UART).

## Modules

* `Scheduler` – scheduler, software timers and interrupt entry in one module,
  because they interleave statement by statement.
* `SchedulerProofs` – the theorems about it.
* `AddressSpaces` – what memory management promises: a private memory per process
  that grows by zeroed pages and that `fork` copies.
* `Paging` (with `MCPaging` for TLC) – page allocator, page tables, data aborts,
  program loading and the memory side of `kernel_fork`; shown to implement
  `AddressSpaces`.
* `PagingProofs` – the theorems about it, the refinement included.
* `Kmalloc` – the kernel heap.
* `KmallocProofs` – the theorems about it.
* `Ramdisk` – the image tool and the ramdisk file system as operators on images;
  no variables.
* `Files` (with `MCFiles`), which extends `Ramdisk` – what `main()`, the program
  loader and the system calls do with files: descriptor tables, VFS calls and the
  image they reach.
* `FilesProofs` – the theorems about `Files`.
* `Ticks` – timers, interrupt controller and `handle_irq`: where the ticks that
  `Scheduler` takes for granted come from.
* `TicksProofs` – the theorems about it.
* `Display` (with `MCDisplay`) – `putc` and what is behind it: the UART, or the
  frame buffer that the mailbox exchange obtained.
* `DisplayProofs` – the theorems about it.
* `NatFacts` – two facts about naturals that the proofs cite: a least element, and
  induction for a set.

Operators named `Mut_...` are faulty variants of the definition that follows
them. No specification uses them; each shows that some property notices a
mistake of that kind.

### Scheduler

A task is its index in `task_array`: `kernel_fork` stores it once and nothing
removes it. `kstack[t]` holds a frame for the task's own code (level 0) and one for
each interrupt handler that called `_schedule` on that stack; `depth[t]` is the
top. A frame is a program point and one local. `current` is the C variable;
`cpu` is the task whose registers are on the core. They differ only between the
assignment in `switch_to` and `cpu_switch_to`.

There is one action per stretch of code between two points where a tick makes a
difference: one per statement in `register_one_hit` that writes shared state, one
per slot in `check_timers`, one per pass of the selection loop. A pass runs
with preemption disabled, so a tick inside it can only lower the counter of
`current`; this is modelled before and after the pass. `Tick` may happen in any state in which
IRQs are unmasked. Its part before `enable_irq()` runs masked and is atomic.

`finish_time` is kept relative to `current_tick` (`remaining`). The model starts
when `main()` begins to fork, after the first tick, so that a `finish_time` of 0 always means "free".
`TASK_STATE_SUSPENDED` and `TASK_STATE_WAITING` are never assigned in the code and are left out.
A task may at any time fork, wait, exit (by system call, or by an unexpected
exception, which enters `exit_task` with IRQs masked), have its priority
changed, or just compute.

Bounds: `ForkLimit` (user forks), `MaxIrqDepth` (nested handler frames),
`MaxLoopTicks` (ticks during one selection loop; a pass takes microseconds and
ticks are 100 ms apart), `MaxDebt` (how far below zero a counter is followed; ticks
with preemption disabled lower it), `MaxLeak` (failed forks of one task).

### Paging

`ram` holds `page_bitmap` (one entry per page: in the code `sizeof(char)` bits of
each byte are used, which is one) and every page seen as a table and as data;
`mm[t]` is the task's `mm_t`. `kernel_fork` is one step: that it is not interleaved
is `CriticalSectionsHold`, proved about `Scheduler`. Data aborts and program
loading may be preempted between the test and the set of a bitmap entry
(`"mem_abort"`, `"load"`) and between `enable_irq` and the read of FAR and ESR
(`"el0_da"`); `PreemptAt` says which of these an instance explores. Not every such
preemption does harm. `Undisturbed` says that none has: the page a task found clear is
still clear, and FAR still names an address that the task which is going to read it has
not mapped. `CarefulSpec` is `Spec` with the steps that keep `Undisturbed`. The code does
not see to it; the violation runs, which check `Spec`, show both ways to break it. `map_page` is atomic: `PageDirectory` is its first statement, `NextTable` one of its
three calls of `map_table` with what the caller adds to `kernelpages`; `CopyPage` is
one round of `copy_virtual_memory`. A page table
that cannot be allocated makes the code use physical address 0; the model stops
there.

### Kmalloc

Sizes and addresses are bytes. `mem` maps addresses to the words whose value is
known; a store removes the words it overlaps and the caller's data removes those
under it, so headers that overlap are noticed at any alignment. The four
branches of `kmalloc` are one operator: they differ in whether a block before and
a block behind exist. `kmalloc` is split after it has read the block's header,
`kfree` is one step. `Bitmap` says which sizes belong to blocks that
`init_fd_table` clears with `memzero_u8`, whose word stores reach three bytes
behind the block. `MaxCalls` bounds the calls of `kmalloc`. `kmalloc` on an empty
list returns 0 and changes nothing.

`kmalloc` and `kfree` rely on things they do not test, which two predicates name.
`CallsFit`: the block an unfinished `kmalloc` found is still free and its header is what
was read; what the request leaves of it holds a free header, or is nothing while
another free block follows; and behind a block that is cleared as a bitmap lies the `prev` word
of the first free block, which is 0 already. `FreesFit`: a freed block holds a free header
(a request of 16 bytes or more), or it is joined with the first free block. `CarefulSpec` is `Spec`
with the steps that keep to both.

### Ramdisk and Files

`genRamDisk(h)` is the image of a host directory `h`: `flatten_dir` gives the ids,
`genFileDirectories` and `genDataDirectories` lay out entries and data. Names are
whole values; ids in a directory's data are eight little-endian bytes, as on disk,
because `rdfs.c` reads them back without looking at the entry's type.
`rdfs_file_get_id_from_path` is the set of ids a lookup may return: one or none for
directories, anything where a file's bytes are taken for an id of no entry
(`Wild`). `memcpy` stores what the assembly stores, eight bytes for a count of 0.

`Init` chooses the host's directory and builds the image. `main()` then mounts,
lists, and prints the configuration file byte by byte (`boot`, `config`,
`printed`); after that kernel threads load programs and tasks make system calls.
`listing`, `got` and `opened` record what the last `rdfs_readdir` or read gave and
which node of the host each descriptor was opened for, so that the properties
compare the kernel's view with the host. `read` and `close` on a table that was
never allocated go through a null pointer and have no step; nor has `main()` after
an image without the magic number.

`init_fd_table` clears `sizeof` of a pointer times the number of entries, a third of the
file array. `Zeroed` is the number of entries that are cleared; in the others the flags are
what freed heap memory held (`Stale`). `create_fd` overwrites the whole entry it allots, so
that `file_id` and `index` of such an entry matter only to a `read` of a descriptor
that was never opened; they are taken as 0.

Descriptors range over those a bitmap has bits for. The code does not see to that: `is_valid_fd` tests
only `fd < 0` (`fd.c:8`) and `delete_fd` nothing (`fd.c:75`), so that `read` and `close` with a
descriptor of 120 or more use memory behind the bitmap, and from 127 on behind the file array. What
lies there is outside the model, and these calls have no step. In path lookup the heap is taken not
to be exhausted: the return for a null list of ids (`rdfs.c:81`) is left out, and so are the
stores through the null pointer that the code makes before it gets there.

### Ticks

Time is the system timer's counter `clo`, with its wrap at `ClockMod`. `Clock`
advances it by one, and there is one action per register access of `main()` and of
the handlers, so that the counter may move, match the compare register or wrap between
any two. `MaxLag` bounds how far it moves between two steps of the core (a
register access takes far less than a tick), except that the kernel may keep IRQs
masked for any time. `platform` is a board or QEMU, whose system timer raises no
interrupt. The enable and target registers are sets of bits, so that the register
arithmetic of `enableISR` and `assignTargets` matters. `scheduler_tick` is one
step: it is the subject of `Scheduler`.

### Display

The mailbox is two queues between the core and the GPU, which may hold words of
others at the start. The GPU answers with any of `Reply`. `kernel_writeChar` is
statement by statement, `framebuffer_drawChar` the set of pixels it writes with the
font byte each depends on. `UART_DEBUG`, a build option, is chosen at the start and
sends characters to the UART's queue instead. Any number of tasks print; neither path has a
lock. `cells`, `returned`, `answer` and `lost` record history for the properties, and `raced` whether
two tasks have been inside the unprotected stretch of either path at the same time (from
`uart_txReady` to the store; from the test of the cursor to its last store).

## Runs

Passing runs:

| Run | Shows |
|---|---|
| `scheduler_safety` | 3 tasks, 2 timers, one nested interrupt, forks that may find no page, changing priorities: every task but `current` has preemption disabled; critical sections are not switched out; stacks change unmasked; timers own living, distinct tasks; exit is final |
| `scheduler_live` | every runnable task runs, every armed timer fires |
| `paging_safety` | `CarefulSpec`, a kernel thread and its child, preempted in the fault path: pages have one owner, `userpages` agrees with the tables, mappings stay, `AddressSpaces` is implemented |
| `ticks` | on a board and on QEMU the probe ends, ticks come for ever and one interval apart, and the compare register is never left behind the counter |
| `display` | two writers: `fb` is what the GPU granted, glyphs lie apart, `framebuffer_init` and `putc` return; until the first race (`raced`) glyphs lie on the page and overwrite nothing and the UART loses no character |
| `kmalloc_safety` | `CarefulSpec`, two tasks and five calls for 1, 15 and 40 bytes, the 15 bytes a bitmap: live and free blocks tile the heap, size words survive, the list is sorted and doubly linked |
| `files_safety` | every directory tree of three nodes, 2 tasks, 2 descriptors of which one is cleared and the other recycled: lookups in the image find the host's nodes; listings, the configuration file, loaded programs and reads are the host's; bitmap and flags agree on what was cleared and on every open descriptor, no call makes another one look open, descriptors name their path's file and keep it |

Three tasks are enough for a preempted task, a task that takes its place and one
that wakes or is created meanwhile; two timers for a slot collision and a free
slot beside it; one interrupt level for a tick inside a handler's `_schedule`.
Two processes, three pages (two under one table, one under another) make every table level
shared and unshared; 22 pages are never used up. In `kmalloc_safety` one task calls `kfree` or
another `kmalloc` while the other's `kmalloc` is unfinished, and there are exact fits, splits,
blocks of 9 and 23 bytes that are too short for a free header, and merges with the
first free block (the merging branches of the general case are unreachable, see below).

The 40 trees of `files_safety` are all shapes of three nodes below the root with two
names, up to exchanging the names: nested, empty and sibling directories, files
before and behind directories, empty files, one name in several directories. The
paths name the root, a node, a node in a node, a node below that, and the timer.
In `ticks` the counter wraps after six intervals; ratios are those of the code
(0.2 s, 0.1 s, a wait of two intervals), and an instance with a lag of one unit
already puts a match before, between and behind the two stores of the handler. The
screen of `display` has two columns and two rows, with remainders at its
edges as 1920 x 1080 has them; two writers are enough for one to run in the other's window.

`paging_safety` and `kmalloc_safety` check `CarefulSpec`: they show what holds as long as no
preemption and no call has done the harm that `Undisturbed`, `CallsFit` and `FreesFit` name, with the
preemptions, sizes and bitmaps of the kernel. (TLC's statistics show the step of `CarefulSpec` as one action; the
counts below it show that every action and branch of both modules is taken.) Under `Spec` the properties fail: `page_race`, `stale_far`
and `heap_small_block` show it, the list after the violation runs names the other ways. In
`paging_safety` only the fault path is preempted, since one kernel thread loads a program; the theorems
have no such bound. `GlyphsOnPage`, `NoOverwrite` and `UartKeepsAll` of `display` are conditional in the
same way, on `~raced`: whatever several tasks print holds up to the first race, and after one no
promise is left.

Fairness (`FairSpec`): the core goes on executing kernel code
(`WF(KernelStep)`), and the timer, which every tick re-arms, keeps ticking (`WF(Tick)`). Nothing is assumed of
what tasks call: a task may compute for ever. That ticks go on is `TicksForever`,
which `ticks` checks from less: the counter runs and the core executes
(`WF(Clock)`, `WF(Main \/ Handler)`). `display` assumes that `framebuffer_init` runs (`WF`), the GPU
serves its queue and the serial line drains (`WF`), and of each writer that it goes on if it can again and
again (`SF`): a writer that waits for room polls through its whole time slice, in which nobody else prints
and the queue drains, and every runnable task gets slices (`NoStarvation`).

`CHECK_DEADLOCK FALSE` is set where the instance ends by its bounds or all
processes have exited or hang (`err_hang`); the scheduler's runs check deadlock.

Violation runs, each a disagreement between the code and what it says:

| Run | Shows |
|---|---|
| `lost_wakeup` | a tick between the store of `task_ptr` and the BLOCKED state: the wake-up comes first, the task sleeps for ever |
| `fork_leak` | a failed fork leaves preemption disabled; timers starve |
| `page_race` | two faults get one page |
| `stale_far` | FAR of another process's fault is used |
| `heap_small_block` | freeing the 15-byte bitmap of a descriptor table damages the next block, and so does clearing it |

Further disagreements met while modelling, which have no run of their own (some
can be seen by changing an instance as said):

* `scheduler.c:77`: `kernel_fork` does not compare `n_tasks` with `N_TASKS`;
  the model has no step for the store past `task_array`.
* `kmalloc.c:130`: the condition that should end the search is always true
  (`Spec` with `HeapSize = 96`: a search stays at `END_OF_HEAP`).
* `kmalloc.c:149`: a sole free block is taken to follow the freed one
  (`Spec` with `HeapSize = 96`: `FreeListLinked` fails).
* `kmalloc.c:54`: `kmalloc` may be preempted between reading and storing a header
  (`Spec` with two tasks: `HeapTiled` fails).
* `scheduler.c:53`: `kernel_fork` ignores that `copy_virtual_memory` failed and
  starts the child with part of its memory missing (`paging_safety` with
  `NumPages = 13`: `PrivateMemory` fails).
* `utils.S:55`: `memzero_u8` of a bitmap clears three bytes behind it
  (`Spec` with `Sizes = {16, 40}`: `HeadersIntact` fails with `Bitmap = {16}`,
  `FreeListLinked` with `Bitmap = {40}`).
* `fd.c:34`: a third of the file array is cleared, so that descriptors nobody opened look
  valid in recycled memory (`BitmapMatchesFlags` and `NoNewStrays` say how far that goes).
* `fd.c:8`, `fd.c:75`: no descriptor is too large for `read` and `close`.
* `utils.S:7`: `memcpy` of no bytes stores eight (`files_safety` with 0 in
  `ReadSize`: `ReadsHostFile` fails); a path with `//` reaches it too.
* `read.c:8`: a read through a descriptor starts at the file's first byte every
  time, since the index is advanced in a copy (`ReadsHostFile` states it).
* `read.c:10`: the ramdisk file with id 255 would be taken for `/dev/timer`
  (excluded by `FilesAssumption`).
* `rdfs.c:79`: a file of eight bytes or more used as a directory is read as a list
  of ids.
* `rdfs.c:84`: a failed lookup leaks the name and the list.
* `genRamDisk.py:100`: a name of 71 characters or more damages the file directory.
* `system_timer.c:28`: the end of the wait wraps, and a board is taken for QEMU,
  after which both timers tick (`BootClo = {24}`: `TicksSpaced` fails).
* `irq.c:160`: an unknown interrupt is never ended and blocks all others
  (`Stray = {64}`: `TicksForever` fails). `irq.c:145` drops bit 8 of its number.
* `generic_timer.S:34` says 1/100 s and divides by 10; ticks are 0.1 s apart on
  QEMU and 0.2 s on a board, and software timers count ticks.
* `mailbox.c:14`: with both queues full at the start nobody moves.
* `shell.c:20`, `uart.c:86`: neither has a lock (`GlyphsOnPage` and `UartKeepsAll`
  fail without `~raced`). `shell.c:13`: the screen's size is not the one granted (a smaller
  `height` in `Grant`: `GlyphsOnPage` fails). `framebuffer.c:75`: after a refusal the
  console draws at address 0.
* `uart.h:53`: for the PL011 (`UART0`, not built) ready and busy are exchanged; the
  mutant `Mut_uart_txReady_busy` is that mistake.
* `task.c:25`: a program longer than a page is copied past its page.
* `kmalloc.c:235`: the adjacency tests are off by one, so a block freed between
  two free blocks is never merged with them.
* `paging.c:65`: the 17th page of a process is stored past `mm.userpages`.

## Proofs

Every theorem holds for every value of the constants that satisfies the `ASSUME` of
its module: any number of tasks, pages, descriptors, writers, any interval or
screen. A hypothesis that a theorem has beyond that is named below. It is something the code
needs and does not establish (the violation runs and the list above show what happens
without it), except `ImageHoldsHost`, which the image tool establishes and TLC checks. TLC
confirmed each inductive invariant on small instances before it was proved.

### Scheduler

`SchedulerProofs` proves `TypeCorrect`, `PreemptionSafe`, `CriticalSectionsHold`,
`SwitchesUnmasked`, `TimersPointToLiving` (each `Spec => []...`) and `ExitForever`
(`Spec => ExitIsFinal`).

They follow from `Invariance`, `Spec => []IInv`. None of the properties is
inductive alone. `SwitchedOutDisabled` needs to know where tasks off the core
stand (`OffCpuParked`: behind `cpu_switch_to` or in `ret_from_fork`), that these
points hold `preempt_count` (`PreemptHeld`), that `current` and the core agree
outside the window in `switch_to` (`CurrentRuns`), and that interrupts are only
stacked on code with preemption enabled (`StackShape`), since popping a frame
uncovers the one below. `TimerOwnersAlive` needs to know what a slot's owner is
doing (`SlotOwners`: about to block, or blocked inside `schedule`), that code at a
task's own program points is RUNNING (`BaseRunning`), and that the core switches
only to RUNNING tasks (`TargetRunning`). `SwitchUnmasked` needs `MaskedInExit`.

`LocalMove` covers the steps that only move the running frame; the steps that
switch, wake, create, stack or pop have lemmas of their own, and `NextIInv`
combines them.

### Paging

All theorems hold for every `PreemptAt` and have the hypothesis `[]Undisturbed`: tasks are preempted
anywhere in the fault and load paths, as long as the page one has found is still clear and the FAR
it will read still names an address it has not mapped. The code does not see to this; `page_race` and `stale_far` show
what happens otherwise.

| Theorem | States |
|---|---|
| `TypeCorrect` | `TypeOK` |
| `PagesServeOnce` | `PagesExclusive` |
| `ListsMatchTables` | `ListMatchesTables` |
| `MappingsAreStable` | `MappingsStay` |
| `MemoriesArePrivate` | `PrivateMemory`, while a page is free |

The inductive invariant `MemoryInv` speaks of the node that a walk for an address
reaches at each of the five levels (`NodeOf`, 0 the directory, 4 the page). Its core
`Sound` says that the nodes of all processes form a forest: two walks that meet have
come from the same process along the same indices (`Forest`); every node is a used
page (`NodesUsed`); and the pages the `mm_t`s list, as `task_struct`s, tables or data,
are used and distinct (`Exclusive`). `Listed` says that `userpages` and the walks agree.
`LocalsOK` and `TaskOK` say what a task knows at its program point, for
instance that the address it will map is not mapped; that the page it has found is still
free when it takes it is where `Undisturbed` enters.

The argument follows the code. `map_table` adds at most one node below a node that
exists, or nothing; three of these below `PageDirectory` and the last entry give what
`map_page` does (`Maps`), also where it stops for want of a page. `NewUserPage` adds
the contents (`Fills`). That `copy_virtual_memory` has copied the first k pages
(`Copied`) is an induction on k, done with the set of the k for which it holds
(`Induct` of `NatFacts`), since `copy_virtual_memory` is a recursive function on
naturals. Each action of `Paging` is then one of a few changes of state for which
`MemoryInv` was shown once. Exhausted memory is part of all this: a fork that stops in
the middle keeps the invariant.

`MemoriesArePrivate` is step simulation: `LoadEnd`, `Store`, `MemAbortMap` and
`KernelFork` map to `Load`, `Store`, `Grow` and `Fork` of `AddressSpaces`, everything
else to a stutter. It needs in addition that a process in user mode has a
directory and a page (`UserHasMemory`). Its hypothesis `[](FreePages(ram) # {})` cannot
be dropped: `kernel_fork` ignores that the copy failed, and the child runs with part of
the memory.

### Kmalloc

`HeapTyped`, `HeapStaysTiled`, `HeadersStayIntact` and `FreeListStaysLinked` state that
`TypeOK`, `HeapTiled`, `HeadersIntact` and `FreeListLinked` hold for every heap, any sizes
(0 included) and bitmaps, any number of tasks and calls and preemption inside `kmalloc`, as long as
`[]CallsFit` and `[][FreesFit]_vars`. These speak of calls that were made and not of the constants: a
15-byte bitmap or a one-byte name is allowed where it does fit, another task may change the heap
while a `kmalloc` is unfinished as long as it leaves the block that was found, and the first call that does
not fit ends what is claimed. The code tests neither condition, and `heap_small_block`
shows such a call.

None of the four is inductive. `HeapInv` says that there are addresses `g[0] .. g[k]`
and sizes `z[0] .. z[k]`, ascending and up to the end of the heap, such that these
blocks and the live ones cover the heap and are disjoint (`Layout`), the headers in
memory are those of that list (`Linked`), the live blocks have their size words
(`Sized`), and an unfinished `kmalloc` holds the words of some header or the end mark (`CallT`; that
it is the header of a free block is `CallsFit`). There are at most as many blocks and unfinished calls as calls
(`Counted`), so that a search of the list ends (`SearchEnds`). The
argument goes from stores (what a word is after a store near it) to lists (`g` and `z`
after a block is replaced, removed or put in) to layouts (a block split, merged, taken
or given back), then to `FreeBlocks`, which the properties are stated with, and last
to one step per action. On the way `NoGap` proves that the adjacency tests of
`kfree` with their `+ 1` never hold in such a heap, so that the branches behind them
are dead code.

### Files

`TableInvariance` needs nothing about the image or about what freed memory holds, and gives
`BitmapFollowsFlags` (`BitmapMatchesFlags`), `StraysAreInherited` (`NoNewStrays`) and
`DescriptorsAreStable` (`DescriptorsStable`), for any number of entries that `init_fd_table` clears.

`TypeCorrect`, `DescriptorsFollowPaths`, `ConfigIsPrinted`, `ReadsAreRight` and
`ListingsAreRight` state that `TypeOK`, `OpenedByPath`, `ConfigPrinted`, `ReadsHostFile` and
`ListsHostDirectory` hold always if
`ImageHoldsHost` holds at the start: what the kernel does with files is right for every
image, host directory and path for which lookups find the host's nodes and the data
blocks are theirs. That the image
tool builds such images is the recursion over directory trees that the
prover cannot do; `files_safety` checks `ImageHoldsHost` for all small trees. `ReadsAreRight` also
assumes that nobody reads 0 bytes (`SizesPositive`), for which `memcpy` stores eight.
The invariants add what `main()` has printed so far (`ConfigProgress`) and which file
each open descriptor holds. `ListingsAreRight` rests on `WordRead`, that `rdfs.c` puts together the
id that the image tool took apart, and needs `TimerId`, which bounds the ids, to be at
most 2^24, the numbers for which `LittleEndian` models `to_bytes` (it is 255).

### Ticks

`TypeCorrect` and `TimerStaysArmed` (`TimerArmed`) hold for any interval, width of the
counter, lag and stray interrupts. `Armed`, the part that carries them,
holds inside the handlers too: the counter has matched, or is within an
interval of the compare register. `TicksAreSpaced` (`TicksSpaced`) assumes that no stray
interrupt has the number of a timer's under the mask (`StrayKnown`) and that the
end of the probe's wait does not wrap (`[]WaitNoWrap`); otherwise a board is taken for
QEMU and two timers tick. It follows how much time has passed since the last tick
through both handlers.

### Display

`TypeCorrect`, `BufferGranted` (`FbIsGranted`) and `GlyphsApart` (`GlyphsDisjoint`) hold
for any number of writers: the cursor is always a multiple of a cell. `UartLosesNothing`
(`UartKeepsAll`), `GlyphsStayOnPage` (`GlyphsOnPage`) and `TextStays` (`NoOverwrite`) hold for any number of
writers too, up to the first race, which is part of the properties; `GlyphsStayOnPage` assumes
that the GPU grants at least the size asked for (`GrantsScreen`).
Their invariant `AloneInv` says, for as long as there was no race, that one writer at most is in a window,
that the room it saw is still there, that the cursor leaves room for a glyph where one is put, and
that everything drawn lies behind the cursor.

### Only model-checked

Liveness (`NoStarvation`, `TimersServed`, `BootEnds`, `TicksForever`, `InitEnds`,
`PutcReturns`): fairness is outside the prover's reach. `ImageHoldsHost`: induction over
directory trees.

## Not modelled

* Boot code, MMU set-up, `uart_init` and GPIO: straight-line register writes before
  anything else runs.
* `printf`: third-party (tinyprintf). Where its characters go is modelled.
* Sample programs: any program is covered by the arbitrary tasks of the models.
  `delay` of userlib has no caller.
* `free_page` (unreachable: `current->stack` is never set), `strcpy_s`, `memset`,
  `rdfs_filename_from_id`, `framebuffer_drawString`, `gic_debug_print`, `poll_isr`
  (no callers), the ARMC interrupt controller and the PL011 (not built).
* The bytes of kernel stacks: nesting is followed to `MaxIrqDepth`, the 4 KB page it
  shares with `task_struct` is not.
* `read` and `close` with a descriptor beyond the table, and path lookup with an exhausted heap: what they
  touch is outside the models (see Ramdisk and Files).
* Absolute tick numbers: `finish_time` 0 at tick 0 and the 32-bit wrap.

## Plan

1. `Scheduler`, its runs and proofs; `Paging` and `AddressSpaces`; `Kmalloc`;
   `Files` – done.
2. `Ramdisk` with the image tool, `Ticks`, `Display` – done.
3. Proofs of `Display`, `Ticks`, `Files`, `Kmalloc` and `Paging` with its refinement,
   with preemption and several writers – done.
4. Preemption inside `kfree` and `map_page`; software timers with absolute times.
