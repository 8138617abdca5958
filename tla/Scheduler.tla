----------------------------- MODULE Scheduler -----------------------------
(***************************************************************************)
(* The preemptive scheduler of pellOS (src/src/scheduler/scheduler.c) with *)
(* the software timers that block and wake tasks                           *)
(* (src/src/lib/software_timer.c) and the assembly that switches contexts  *)
(* and enters interrupts (src/src/asm/task.S, entry.S, irq.S).             *)
(*                                                                         *)
(* One core runs everything.  Interleaving comes from the timer interrupt, *)
(* which may be taken between any two steps below while IRQs are unmasked, *)
(* and which switches tasks when the preempt_count of `current' is 0.      *)
(* Every task owns a kernel stack; a stack is a list of frames, frame 0    *)
(* for the task's own code and one more for every interrupt handler that   *)
(* called _schedule().  A frame is a program point and one local variable. *)
(***************************************************************************)
EXTENDS Integers

CONSTANTS
  N_TASKS,       \* slots of task_array
  NTimers,       \* slots of timer_arr
  BootForks,     \* kernel_fork() calls main() makes before its idle loop
  ForkLimit,     \* bound: user tasks stop forking once n_tasks reaches it
  Delays,        \* delays of register_one_hit(), in ticks
  Priorities,    \* priorities given to set_task_priority()
  PageOutcomes,  \* may allocate_kernel_page() succeed (TRUE), fail (FALSE)?
  MaxLeak,       \* bound on the failed kernel_fork() calls of one task
  MaxIrqDepth,   \* bound on nested interrupt frames of one kernel stack
  MaxDebt,       \* bound: counter is not followed below -MaxDebt
  MaxLoopTicks   \* bound on ticks taken during one selection loop, whose
                 \* passes take microseconds where ticks are 100 ms apart

ASSUME ConstantsAssumption ==
  /\ N_TASKS \in Nat \ {0}
  /\ NTimers \in Nat \ {0}
  /\ BootForks \in Nat
  /\ ForkLimit \in Nat
  /\ Delays \subseteq Nat
  /\ Priorities \subseteq Int
  /\ PageOutcomes \subseteq BOOLEAN
  /\ MaxLeak \in Nat
  /\ MaxIrqDepth \in Nat
  /\ MaxDebt \in Nat
  /\ MaxLoopTicks \in Nat

\* A task is named by its index in task_array, where kernel_fork() stores it
\* once and nothing ever removes it; init_task is 0.
Task   == 0 .. N_TASKS - 1
Slot   == 0 .. NTimers - 1
Level  == 0 .. MaxIrqDepth
NoTask == -1     \* (task_struct *) 0
Free   == -1     \* finish_time == 0

VARIABLES
  current,        \* the C variable: the task charged by ticks and syscalls
  cpu,            \* the task whose stack and registers the core executes
  irq_masked,     \* the I bit of DAIF
  n_tasks,
  state, counter, priority, preempt_count,    \* fields of task_struct
  depth, kstack,  \* interrupt frames on each kernel stack, and the frames
  remaining,      \* finish_time - current_tick of a timer slot (never < 0)
  task_ptr        \* the task a timer slot wakes

cpuVars   == <<current, cpu, irq_masked>>
taskVars  == <<n_tasks, state, counter, priority, preempt_count>>
stackVars == <<depth, kstack>>
timerVars == <<remaining, task_ptr>>
vars == <<cpuVars, taskVars, stackVars, timerVars>>

(***************************************************************************)
(* Program points.  The comment gives the statement executed next.         *)
(***************************************************************************)
SchedPc ==
  { "sched",          \* _schedule: preempt_disable()
    "timers",         \* _schedule: check_timers(), arg = slot
    "pick",           \* _schedule: the selection loop, arg = ticks it has taken
    "switch",         \* switch_to(task_array[next]), arg = next
    "cpu_switch",     \* cpu_switch_to(prev, next), arg = next
    "sched_end" }     \* _schedule: preempt_enable(), return

TaskPc ==
  { "run",            \* task code; for main(), arg = forks still to make
    "fork",           \* kernel_fork after preempt_disable()
    "fork_end",       \* kernel_fork: preempt_enable(), return
    "ret_from_fork",  \* a new task's first instruction
    "scan",           \* register_one_hit: finish_time == 0 ?, arg = slot
    "arm",            \* register_one_hit: finish_time = ..., arg = slot
    "own",            \* register_one_hit: task_ptr = task, arg = slot
    "block",          \* register_one_hit: state = TASK_STATE_BLOCKED
    "yield",          \* schedule(): counter = 0
    "zombie",         \* exit_task after preempt_disable()
    "exit_end" }      \* exit_task: enable_irq(), preempt_enable()

Pc == SchedPc \cup TaskPc \cup {"irq_exit"}   \* handler: disable_irq(), eret

\* Between preempt_disable() and the preempt_enable() that pairs with it.
DisabledPc == {"timers", "pick", "switch", "cpu_switch", "sched_end",
               "ret_from_fork", "fork", "fork_end", "zombie", "exit_end"}

Frame == [pc : Pc, arg : Int]

Top(t)   == kstack[t][depth[t]]
At(p)    == Top(cpu).pc = p
Arg      == Top(cpu).arg
\* The code on the core moves to point p with local variable a.
Goto(p, a) ==
  kstack' = [kstack EXCEPT ![cpu] =
               [@ EXCEPT ![depth[cpu]] = [pc |-> p, arg |-> a]]]

\* A kernel stack whose only frame is at point p; the levels above the top of
\* a stack hold Dead.
Dead == [pc |-> "run", arg |-> 0]
NewStack(p, a) ==
  [l \in Level |-> IF l = 0 THEN [pc |-> p, arg |-> a] ELSE Dead]

Created == {t \in Task : t < n_tasks}

(***************************************************************************)
(* main() has enabled IRQs and is about to make its first kernel_fork().   *)
(***************************************************************************)
Init ==
  /\ current = 0
  /\ cpu = 0
  /\ irq_masked = FALSE
  /\ n_tasks = 1
  /\ state = [t \in Task |-> "RUNNING"]
  /\ counter = [t \in Task |-> 0]
  /\ priority = [t \in Task |-> 1]
  /\ preempt_count = [t \in Task |-> 0]
  /\ depth = [t \in Task |-> 0]
  /\ kstack = [t \in Task |-> NewStack("run", IF t = 0 THEN BootForks ELSE 0)]
  /\ remaining = [i \in Slot |-> Free]
  /\ task_ptr = [i \in Slot |-> NoTask]

preempt_disable ==
  preempt_count' = [preempt_count EXCEPT ![current] = @ + 1]

preempt_enable ==
  preempt_count' = [preempt_count EXCEPT ![current] = @ - 1]

-----------------------------------------------------------------------------
(***************************************************************************)
(* kernel_fork().                                                          *)
(***************************************************************************)
KernelForkCall(left) ==
  /\ preempt_disable
  /\ Goto("fork", left)
  /\ UNCHANGED <<cpuVars, n_tasks, state, counter, priority, depth, timerVars>>

\* main() creates the initial kernel threads.
MainFork == At("run") /\ cpu = 0 /\ Arg > 0 /\ KernelForkCall(Arg - 1)

SyscallFork == At("run") /\ cpu # 0 /\ n_tasks < ForkLimit /\ KernelForkCall(0)

\* allocate_kernel_page() returned 0: return 0xFF, preemption still disabled.
KernelForkNoPage ==
  /\ At("fork")
  /\ FALSE \in PageOutcomes
  /\ preempt_count[current] <= MaxLeak
  /\ Goto("run", Arg)
  /\ UNCHANGED <<cpuVars, taskVars, depth, timerVars>>

Mut_ForkPreemptible ==
  /\ At("fork")
  /\ TRUE \in PageOutcomes
  /\ n_tasks < N_TASKS
  /\ n_tasks' = n_tasks + 1
  /\ counter' = [counter EXCEPT ![n_tasks] = priority[current]]
  /\ priority' = [priority EXCEPT ![n_tasks] = priority[current]]
  /\ state' = [state EXCEPT ![n_tasks] = "RUNNING"]
  /\ depth' = [depth EXCEPT ![n_tasks] = 0]
  /\ kstack' = [kstack EXCEPT
       ![n_tasks] = NewStack("ret_from_fork", 0),
       ![cpu] = [@ EXCEPT ![depth[cpu]] = [pc |-> "fork_end", arg |-> Arg]]]
  /\ UNCHANGED <<cpuVars, preempt_count, timerVars>>

\* The child starts in ret_from_fork with preemption disabled.  The code does
\* not compare n_tasks with N_TASKS; the out-of-bounds store has no step here.
KernelForkCreate ==
  /\ At("fork")
  /\ TRUE \in PageOutcomes
  /\ n_tasks < N_TASKS
  /\ n_tasks' = n_tasks + 1
  /\ preempt_count' = [preempt_count EXCEPT ![n_tasks] = 1]
  /\ priority' = [priority EXCEPT ![n_tasks] = priority[current]]
  /\ counter' = [counter EXCEPT ![n_tasks] = priority[current]]
  /\ state' = [state EXCEPT ![n_tasks] = "RUNNING"]
  /\ depth' = [depth EXCEPT ![n_tasks] = 0]
  /\ kstack' = [kstack EXCEPT
       ![n_tasks] = NewStack("ret_from_fork", 0),
       ![cpu] = [@ EXCEPT ![depth[cpu]] = [pc |-> "fork_end", arg |-> Arg]]]
  /\ UNCHANGED <<cpuVars, timerVars>>

KernelForkReturn ==
  /\ At("fork_end")
  /\ preempt_enable
  /\ Goto("run", Arg)
  /\ UNCHANGED <<cpuVars, n_tasks, state, counter, priority, depth, timerVars>>

\* ret_from_fork: end_of_sched(), then the thread function or user mode.
EndOfSched ==
  /\ At("ret_from_fork")
  /\ preempt_enable
  /\ Goto("run", 0)
  /\ UNCHANGED <<cpuVars, n_tasks, state, counter, priority, depth, timerVars>>

-----------------------------------------------------------------------------
(***************************************************************************)
(* schedule() and _schedule().                                             *)
(***************************************************************************)
\* main()'s idle loop calls schedule().
MainSchedule ==
  /\ At("run") /\ cpu = 0 /\ Arg = 0
  /\ Goto("yield", 0)
  /\ UNCHANGED <<cpuVars, taskVars, depth, timerVars>>

\* schedule() gives up the time slice and enters _schedule().
Schedule ==
  /\ At("yield")
  /\ counter' = [counter EXCEPT ![current] = 0]
  /\ Goto("sched", 0)
  /\ UNCHANGED <<cpuVars, n_tasks, state, priority, preempt_count, depth,
                 timerVars>>

Mut_ScheduleEnter ==
  /\ At("sched")
  /\ Goto("timers", 0)
  /\ UNCHANGED <<cpuVars, taskVars, depth, timerVars>>

ScheduleEnter ==
  /\ At("sched")
  /\ preempt_disable
  /\ Goto("timers", 0)
  /\ UNCHANGED <<cpuVars, n_tasks, state, counter, priority, depth, timerVars>>

Expired(i) == task_ptr[i] # NoTask /\ remaining[i] <= 0

Mut_WakeKeepsTask(i) ==
  IF Expired(i)
    THEN /\ state' = [state EXCEPT ![task_ptr[i]] = "RUNNING"]
         /\ remaining' = [remaining EXCEPT ![i] = Free]
         /\ UNCHANGED task_ptr
    ELSE UNCHANGED <<state, timerVars>>

\* The body of the check_timers() loop for slot i.
CheckTimer(i) ==
  IF Expired(i)
    THEN /\ state' = [state EXCEPT ![task_ptr[i]] = "RUNNING"]
         /\ task_ptr' = [task_ptr EXCEPT ![i] = NoTask]
         /\ remaining' = [remaining EXCEPT ![i] = Free]
    ELSE UNCHANGED <<state, timerVars>>

Mut_NoCheckTimers ==
  /\ At("timers")
  /\ Goto("pick", 0)
  /\ UNCHANGED <<cpuVars, taskVars, depth, timerVars>>

CheckTimers ==
  /\ At("timers")
  /\ CheckTimer(Arg)
  /\ IF Arg + 1 < NTimers THEN Goto("timers", Arg + 1) ELSE Goto("pick", 0)
  /\ UNCHANGED <<cpuVars, n_tasks, counter, priority, preempt_count, depth>>

Mut_Eligible(t) == counter[t] > -1

\* What the selection loop skips: empty entries, tasks that are not RUNNING,
\* and counters that are not above the initial c = -1.
Eligible(t) == state[t] = "RUNNING" /\ counter[t] > -1

\* Distance of entry t from the entry of current, in scan order.
ScanPos(t) == (t - current) % N_TASKS

\* The scan keeps the first entry with the largest counter.
Chosen(t) ==
  /\ t \in Created /\ Eligible(t)
  /\ \A u \in Created : Eligible(u) =>
       \/ counter[u] < counter[t]
       \/ counter[u] = counter[t] /\ ScanPos(t) <= ScanPos(u)

\* One pass of the selection loop that found c > 0.
PickNext ==
  /\ At("pick")
  /\ \E t \in Task : /\ Chosen(t) /\ counter[t] > 0
                     /\ Goto("switch", t)
  /\ UNCHANGED <<cpuVars, taskVars, depth, timerVars>>

\* One pass that did not: every task gets half its counter plus its priority.
RefillCounters ==
  /\ At("pick")
  /\ ~ \E t \in Task : Chosen(t) /\ counter[t] > 0
  /\ counter' = [t \in Task |-> IF t \in Created
                                  THEN (counter[t] \div 2) + priority[t]
                                  ELSE counter[t]]
  /\ UNCHANGED <<cpuVars, n_tasks, state, priority, preempt_count, stackVars,
                 timerVars>>

\* switch_to(next) when next is current already.
SwitchToSelf ==
  /\ At("switch") /\ current = Arg
  /\ Goto("sched_end", 0)
  /\ UNCHANGED <<cpuVars, taskVars, depth, timerVars>>

\* switch_to(next): `current' changes before the registers do.
SwitchTo ==
  /\ At("switch") /\ current # Arg
  /\ current' = Arg
  /\ Goto("cpu_switch", Arg)
  /\ UNCHANGED <<cpu, irq_masked, taskVars, depth, timerVars>>

\* cpu_switch_to(): DAIF is neither saved nor loaded.
CpuSwitchTo ==
  /\ At("cpu_switch")
  /\ cpu' = Arg
  /\ Goto("sched_end", 0)
  /\ UNCHANGED <<current, irq_masked, taskVars, depth, timerVars>>

\* _schedule() returns: to the interrupt handler, or to the task's own code.
ScheduleReturn ==
  /\ At("sched_end")
  /\ preempt_enable
  /\ Goto(IF depth[cpu] > 0 THEN "irq_exit" ELSE "run", 0)
  /\ UNCHANGED <<cpuVars, n_tasks, state, counter, priority, depth, timerVars>>

-----------------------------------------------------------------------------
(***************************************************************************)
(* register_one_hit(): syscall_wait, and the loop of kernel_task1().       *)
(* Nothing disables preemption here.                                       *)
(***************************************************************************)
RegisterCall ==
  /\ At("run") /\ cpu # 0
  /\ Goto("scan", 0)
  /\ UNCHANGED <<cpuVars, taskVars, depth, timerVars>>

RegisterScan ==
  /\ At("scan")
  /\ \/ remaining[Arg] = Free /\ Goto("arm", Arg)
     \/ remaining[Arg] # Free /\ Arg + 1 < NTimers /\ Goto("scan", Arg + 1)
     \/ remaining[Arg] # Free /\ Arg + 1 = NTimers /\ Goto("run", 0)
  /\ UNCHANGED <<cpuVars, taskVars, depth, timerVars>>

RegisterArm ==
  /\ At("arm")
  /\ \E d \in Delays : remaining' = [remaining EXCEPT ![Arg] = d]
  /\ Goto("own", Arg)
  /\ UNCHANGED <<cpuVars, taskVars, depth, task_ptr>>

RegisterOwn ==
  /\ At("own")
  /\ task_ptr' = [task_ptr EXCEPT ![Arg] = current]
  /\ Goto("block", 0)
  /\ UNCHANGED <<cpuVars, taskVars, depth, remaining>>

RegisterBlock ==
  /\ At("block")
  /\ state' = [state EXCEPT ![current] = "BLOCKED"]
  /\ Goto("yield", 0)
  /\ UNCHANGED <<cpuVars, n_tasks, counter, priority, preempt_count, depth,
                 timerVars>>

-----------------------------------------------------------------------------
(***************************************************************************)
(* exit_task(): from syscall_exit with IRQs unmasked, or from the handler  *)
(* of an unexpected user exception, which leaves them masked.              *)
(***************************************************************************)
ExitTaskCall ==
  /\ At("run") /\ cpu # 0
  /\ irq_masked' \in BOOLEAN
  /\ preempt_disable
  /\ Goto("zombie", 0)
  /\ UNCHANGED <<current, cpu, n_tasks, state, counter, priority, depth,
                 timerVars>>

ExitTaskZombie ==
  /\ At("zombie")
  /\ state' = [state EXCEPT ![current] = "ZOMBIE"]
  /\ Goto("exit_end", 0)
  /\ UNCHANGED <<cpuVars, n_tasks, counter, priority, preempt_count, depth,
                 timerVars>>

Mut_ExitStaysMasked ==
  /\ At("exit_end")
  /\ preempt_enable
  /\ Goto("yield", 0)
  /\ UNCHANGED <<cpuVars, n_tasks, state, counter, priority, depth, timerVars>>

ExitTaskEnable ==
  /\ At("exit_end")
  /\ irq_masked' = FALSE
  /\ preempt_enable
  /\ Goto("yield", 0)
  /\ UNCHANGED <<current, cpu, n_tasks, state, counter, priority, depth,
                 timerVars>>

-----------------------------------------------------------------------------
(***************************************************************************)
(* set_task_priority(): exported by the scheduler, called by nothing yet.  *)
(***************************************************************************)
SetTaskPriority ==
  /\ At("run") /\ cpu # 0
  /\ \E t \in Created, p \in Priorities :
       priority' = [priority EXCEPT ![t] = p]
  /\ UNCHANGED <<cpuVars, n_tasks, state, counter, preempt_count, stackVars,
                 timerVars>>

(***************************************************************************)
(* The timer interrupt: el1_irq / el0_irq, handle_irq(), scheduler_tick(). *)
(* The handler runs masked, so its part before enable_irq() is one step.   *)
(***************************************************************************)
increment_tick ==
  remaining' = [i \in Slot |-> IF remaining[i] > 0 THEN remaining[i] - 1
                                                   ELSE remaining[i]]

Charged == IF counter[current] > -MaxDebt THEN counter[current] - 1
                                          ELSE -MaxDebt

Mut_TickKeepsTask == TRUE
Mut_TickIgnoresPreempt == Charged > 0

\* scheduler_tick() returns early and the interrupted code goes on.
TickKeepsTask == Charged > 0 \/ preempt_count[current] > 0

TickReturn ==
  /\ ~irq_masked
  /\ TickKeepsTask
  /\ counter' = [counter EXCEPT ![current] = Charged]
  /\ increment_tick
  /\ IF At("pick") THEN Arg < MaxLoopTicks /\ Goto("pick", Arg + 1)
                   ELSE UNCHANGED kstack
  /\ UNCHANGED <<cpuVars, n_tasks, state, priority, preempt_count, depth,
                 task_ptr>>

\* scheduler_tick() ends the slice, unmasks IRQs and calls _schedule().
TickPreempt ==
  /\ ~irq_masked
  /\ ~TickKeepsTask
  /\ depth[cpu] < MaxIrqDepth
  /\ counter' = [counter EXCEPT ![current] = 0]
  /\ increment_tick
  /\ depth' = [depth EXCEPT ![cpu] = @ + 1]
  /\ kstack' = [kstack EXCEPT ![cpu] =
                  [@ EXCEPT ![depth[cpu] + 1] = [pc |-> "sched", arg |-> 0]]]
  /\ UNCHANGED <<cpuVars, n_tasks, state, priority, preempt_count, task_ptr>>

\* disable_irq(), pop_regs, eret: the interrupted code had IRQs unmasked.
IrqReturn ==
  /\ At("irq_exit")
  /\ irq_masked' = FALSE
  /\ depth' = [depth EXCEPT ![cpu] = @ - 1]
  /\ kstack' = [kstack EXCEPT ![cpu] = [@ EXCEPT ![depth[cpu]] = Dead]]
  /\ UNCHANGED <<current, cpu, taskVars, timerVars>>

-----------------------------------------------------------------------------
Tick == TickReturn \/ TickPreempt

\* What the core does next by itself once it is inside the kernel.
KernelStep ==
  \/ MainFork \/ KernelForkNoPage \/ KernelForkCreate \/ KernelForkReturn
  \/ EndOfSched \/ MainSchedule \/ Schedule \/ ScheduleEnter \/ CheckTimers \/ PickNext
  \/ RefillCounters \/ SwitchToSelf \/ SwitchTo \/ CpuSwitchTo
  \/ ScheduleReturn \/ RegisterScan \/ RegisterArm \/ RegisterOwn
  \/ RegisterBlock \/ ExitTaskZombie \/ ExitTaskEnable \/ IrqReturn

\* What the code of a task chooses to call.
TaskStep == SyscallFork \/ RegisterCall \/ ExitTaskCall \/ SetTaskPriority

Next == KernelStep \/ TaskStep \/ Tick

Spec == Init /\ [][Next]_vars

\* The core never stops executing kernel code and the timer keeps ticking;
\* nothing is assumed of what tasks call.
Fairness == WF_vars(KernelStep) /\ WF_vars(Tick)

FairSpec == Spec /\ Fairness
-----------------------------------------------------------------------------
(***************************************************************************)
(* Properties.                                                             *)
(***************************************************************************)

\* Types of the scheduler's globals, of the task_struct fields it reads and
\* of the timer slots; in particular preempt_count, a signed field in the
\* code, never drops below zero: preempt_enable() always follows a disable.
TypeOK ==
  /\ current \in Task
  /\ cpu \in Task
  /\ irq_masked \in BOOLEAN
  /\ n_tasks \in 1 .. N_TASKS
  /\ state \in [Task -> {"RUNNING", "BLOCKED", "ZOMBIE"}]
  /\ counter \in [Task -> Int]
  /\ priority \in [Task -> Int]
  /\ preempt_count \in [Task -> Nat]
  /\ depth \in [Task -> Level]
  /\ kstack \in [Task -> [Level -> Frame]]
  /\ remaining \in [Slot -> Int]
  /\ task_ptr \in [Slot -> Task \cup {NoTask}]

\* Every task other than `current' has preemption disabled.  switch_to()
\* assigns `current' before cpu_switch_to() changes stacks; a tick in between
\* consults the new task's preempt_count, and this is what makes it return.
SwitchedOutDisabled ==
  \A t \in Created : t # current => preempt_count[t] > 0

\* kernel_fork() and exit_task() are never switched out between their
\* preempt_disable() and preempt_enable(): n_tasks++ and the store into
\* task_array are not interleaved with another task's.
CriticalSectionsRun ==
  \A t \in Created :
    Top(t).pc \in {"fork", "fork_end", "zombie", "exit_end"}
      => t = cpu /\ t = current

\* IRQs are unmasked whenever cpu_switch_to() runs: DAIF is not part of a
\* task's context, so a mask would leak into the next task and stop the ticks
\* (exit_task() unmasks them for the path from a user exception).
SwitchUnmasked == At("cpu_switch") => ~irq_masked

\* No timer slot points to a task that has exited, and no task has two slots:
\* check_timers() stores RUNNING through task_ptr without looking at the task.
TimerOwnersAlive ==
  \A i \in Slot : task_ptr[i] # NoTask =>
    /\ task_ptr[i] \in Created
    /\ state[task_ptr[i]] # "ZOMBIE"
    /\ \A j \in Slot : task_ptr[j] = task_ptr[i] => i = j

\* A task that has exited stays a zombie, and once switched out is never
\* switched to again: "should never reach here" after exit_task() in
\* syscall_exit holds.
ExitIsFinal ==
  [][\A t \in Created : state[t] = "ZOMBIE" =>
       /\ state'[t] = "ZOMBIE"
       /\ cpu # t => cpu' # t
       /\ kstack'[t][0].pc # "run"]_vars

\* A task in TASK_STATE_BLOCKED waits for some timer slot ("Moving process %u
\* into BLOCKED state. waiting until %u", register_one_hit).
BlockedIsWaiting ==
  \A t \in Created : state[t] = "BLOCKED" => \E i \in Slot : task_ptr[i] = t

\* A runnable task gets the core sooner or later, whatever the other tasks
\* do: ticks end their slices and the refill gives everyone a counter.
NoStarvation ==
  \A t \in Task : (t \in Created /\ state[t] = "RUNNING") ~> (cpu = t)

\* The wake-up a timer slot owes is delivered sooner or later: check_timers()
\* keeps being called and the ticks reach finish_time.
TimersServed ==
  \A i \in Slot : task_ptr[i] # NoTask ~> task_ptr[i] = NoTask
-----------------------------------------------------------------------------
(***************************************************************************)
(* The inductive invariant behind the safety properties.                   *)
(***************************************************************************)

\* What preempt_count is for: whoever is at such a point has it above zero.
PreemptHeld ==
  \A t \in Created : Top(t).pc \in DisabledPc => preempt_count[t] > 0

\* Interrupts are only stacked on points where preemption was enabled, and an
\* interrupt frame is inside _schedule() or about to return.
StackShape ==
  \A t \in Created :
    /\ kstack[t][0].pc # "irq_exit"
    /\ \A l \in Level : l < depth[t] => kstack[t][l].pc \notin DisabledPc
    /\ \A l \in Level : l \in 1 .. depth[t] =>
         kstack[t][l].pc \in SchedPc \cup {"irq_exit"}

\* `current' is the task on the core except between the assignment in
\* switch_to() and cpu_switch_to(), when it is the task switched to.
CurrentRuns ==
  /\ cpu \in Created
  /\ current \in Created
  /\ Top(cpu).pc # "cpu_switch" => current = cpu
  /\ Top(cpu).pc = "cpu_switch" => current # cpu /\ current = Top(cpu).arg

\* A task off the core stands where cpu_switch_to() or kernel_fork() left it.
OffCpuParked ==
  \A t \in Created : t # cpu => Top(t).pc \in {"sched_end", "ret_from_fork"}

\* The core switches to runnable tasks only.
TargetRunning ==
  /\ Top(cpu).pc \in {"switch", "cpu_switch"} =>
       Top(cpu).arg \in Created /\ state[Top(cpu).arg] = "RUNNING"
  /\ Top(cpu).pc \in {"sched_end", "ret_from_fork"} => state[cpu] = "RUNNING"

SlotArgs ==
  \A t \in Created, l \in Level :
    kstack[t][l].pc \in {"timers", "scan", "arm", "own"} =>
      kstack[t][l].arg \in Slot

\* A task whose own code is at one of these points is neither blocked nor dead.
BaseRunning ==
  \A t \in Created :
    kstack[t][0].pc \in {"run", "fork", "fork_end", "ret_from_fork", "scan",
                         "arm", "own", "block", "zombie"}
      => state[t] = "RUNNING"

\* A timer slot points to a task that is about to block or is blocked, and no
\* two slots point to the same task.
SlotOwners ==
  \A i \in Slot : task_ptr[i] # NoTask =>
    /\ task_ptr[i] \in Created
    /\ \/ kstack[task_ptr[i]][0].pc = "block"
       \/ /\ state[task_ptr[i]] = "BLOCKED"
          /\ kstack[task_ptr[i]][0].pc \in SchedPc \cup {"yield"}
    /\ \A j \in Slot : task_ptr[j] = task_ptr[i] => i = j

MaskedInExit ==
  irq_masked => depth[cpu] = 0 /\ kstack[cpu][0].pc \in {"zombie", "exit_end"}

\* The conjunction, which every step of the scheduler preserves.
IInv ==
  /\ TypeOK /\ PreemptHeld /\ StackShape /\ CurrentRuns /\ OffCpuParked
  /\ TargetRunning /\ SlotArgs /\ BaseRunning /\ SlotOwners /\ MaskedInExit
=============================================================================
