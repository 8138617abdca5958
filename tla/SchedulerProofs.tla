-------------------------- MODULE SchedulerProofs --------------------------
(***************************************************************************)
(* Proofs that the scheduler keeps its safety properties for every number  *)
(* of tasks and timers, every delay and priority, and every bound.         *)
(***************************************************************************)
EXTENDS Scheduler, TLAPS

(***************************************************************************)
(* Facts about one move of the code on the core.                           *)
(***************************************************************************)

\* The core executes a program point of the task's own code only when no
\* interrupt frame is stacked on it.
LEMMA TaskPointIsBase ==
  ASSUME IInv, Top(cpu).pc \in TaskPc
  PROVE  depth[cpu] = 0
<1>1. cpu \in Created /\ depth[cpu] \in 0 .. MaxIrqDepth
  BY DEF IInv, TypeOK, CurrentRuns, Level
<1>2. depth[cpu] # 0 => Top(cpu).pc \in SchedPc \cup {"irq_exit"}
  BY <1>1, ConstantsAssumption
     DEF IInv, StackShape, Top, Level, ConstantsAssumption
<1> QED BY <1>2 DEF TaskPc, SchedPc

\* A move changes the frame on top of the running stack and nothing else.
LEMMA GotoFrame ==
  ASSUME TypeOK, NEW p \in Pc, NEW a \in Int, Goto(p, a)
  PROVE  /\ kstack' \in [Task -> [Level -> Frame]]
         /\ kstack'[cpu][depth[cpu]].pc = p
         /\ kstack'[cpu][depth[cpu]].arg = a
         /\ \A t \in Task, l \in Level :
              (t # cpu \/ l # depth[cpu]) => kstack'[t][l] = kstack[t][l]
BY DEF TypeOK, Goto, Frame

\* What a move keeps when it stays on the stack and the level it is on.
LEMMA GotoKeeps ==
  ASSUME IInv, NEW p \in Pc, NEW a \in Int, Goto(p, a),
         cpu' = cpu, depth' = depth, n_tasks' = n_tasks,
         depth[cpu] = 0 => p # "irq_exit",
         depth[cpu] # 0 => p \in SchedPc \cup {"irq_exit"},
         p \in {"timers", "scan", "arm", "own"} => a \in Slot
  PROVE  StackShape' /\ SlotArgs' /\ OffCpuParked'
<1> USE ConstantsAssumption DEF IInv, ConstantsAssumption
<1>1. /\ kstack' \in [Task -> [Level -> Frame]]
      /\ kstack'[cpu][depth[cpu]].pc = p
      /\ kstack'[cpu][depth[cpu]].arg = a
      /\ \A t \in Task, l \in Level :
           (t # cpu \/ l # depth[cpu]) => kstack'[t][l] = kstack[t][l]
  BY GotoFrame
<1>2. cpu \in Task /\ depth \in [Task -> Level] /\ 0 \in Level
      /\ Created' = Created /\ Created \subseteq Task
  BY DEF TypeOK, Created, Level, Task
<1>3. StackShape'
  <2> SUFFICES ASSUME NEW t \in Created
               PROVE  /\ kstack'[t][0].pc # "irq_exit"
                      /\ \A l \in Level : l < depth[t] =>
                           kstack'[t][l].pc \notin DisabledPc
                      /\ \A l \in Level : l \in 1 .. depth[t] =>
                           kstack'[t][l].pc \in SchedPc \cup {"irq_exit"}
    BY <1>2 DEF StackShape
  <2>1. t \in Task /\ depth[t] \in Level
    BY <1>2
  <2>2. CASE t # cpu
    BY <1>1, <1>2, <2>1, <2>2 DEF StackShape
  <2>3. CASE t = cpu
    <3>1. kstack'[t][0].pc # "irq_exit"
      BY <1>1, <1>2, <2>3 DEF StackShape
    <3>2. ASSUME NEW l \in Level, l < depth[t]
          PROVE  kstack'[t][l].pc \notin DisabledPc
      <4>1. kstack'[t][l] = kstack[t][l]
        BY <1>1, <1>2, <2>1, <2>3, <3>2 DEF Level
      <4> QED BY <3>2, <4>1 DEF StackShape
    <3>3. ASSUME NEW l \in Level, l \in 1 .. depth[t]
          PROVE  kstack'[t][l].pc \in SchedPc \cup {"irq_exit"}
      <4>1. CASE l = depth[t]
        BY <1>1, <2>1, <2>3, <3>3, <4>1 DEF Level
      <4>2. CASE l # depth[t]
        BY <1>1, <1>2, <2>3, <3>3, <4>2 DEF StackShape
      <4> QED BY <4>1, <4>2
    <3> QED BY <3>1, <3>2, <3>3
  <2> QED BY <2>2, <2>3
<1>4. SlotArgs'
  BY <1>1, <1>2 DEF SlotArgs, Slot
<1>5. OffCpuParked'
  BY <1>1, <1>2 DEF OffCpuParked, Top
<1> QED BY <1>3, <1>4, <1>5

\* A task at a point of its own code that only a live task reaches, or about
\* to return from _schedule(), is RUNNING.
LEMMA CpuRunning ==
  ASSUME IInv,
         Top(cpu).pc \in {"run", "fork", "fork_end", "ret_from_fork", "scan",
                          "arm", "own", "block", "zombie", "sched_end"}
  PROVE  state[cpu] = "RUNNING"
<1>1. CASE Top(cpu).pc = "sched_end"
  BY <1>1 DEF IInv, TargetRunning
<1>2. CASE Top(cpu).pc # "sched_end"
  <2>1. depth[cpu] = 0 /\ cpu \in Created
    BY <1>2, TaskPointIsBase DEF IInv, TaskPc, CurrentRuns
  <2> QED BY <1>2, <2>1 DEF IInv, BaseRunning, Top
<1> QED BY <1>1, <1>2

\* The invariant survives a move of the running code that changes no task's
\* state and no slot's owner, if the point it reaches is entered with
\* preemption disabled where it must be and by a task that may be there.
LEMMA LocalMove ==
  ASSUME IInv, NEW p \in Pc, NEW a \in Int, Goto(p, a),
         UNCHANGED <<current, cpu, n_tasks, state, depth, task_ptr>>,
         counter' \in [Task -> Int], priority' \in [Task -> Int],
         remaining' \in [Slot -> Int], irq_masked' \in BOOLEAN,
         preempt_count' \in [Task -> Nat],
         \A t \in Task : t # cpu => preempt_count'[t] = preempt_count[t],
         p \in DisabledPc => preempt_count'[cpu] > 0,
         Top(cpu).pc \notin {"cpu_switch", "block"},
         p \notin {"cpu_switch", "exit_end"},
         depth[cpu] = 0 => p # "irq_exit",
         depth[cpu] # 0 => p \in SchedPc \cup {"irq_exit"},
         p \in {"timers", "scan", "arm", "own"} => a \in Slot,
         p \in TaskPc \ {"yield"} \/ p = "sched_end" => state[cpu] = "RUNNING",
         p = "switch" => a \in Created /\ state[a] = "RUNNING",
         irq_masked' => p = "zombie"
  PROVE  IInv'
<1>1. StackShape' /\ SlotArgs' /\ OffCpuParked'
  BY GotoKeeps
<1>2. /\ kstack' \in [Task -> [Level -> Frame]]
      /\ kstack'[cpu][depth[cpu]].pc = p
      /\ kstack'[cpu][depth[cpu]].arg = a
      /\ \A t \in Task, l \in Level :
           (t # cpu \/ l # depth[cpu]) => kstack'[t][l] = kstack[t][l]
  BY GotoFrame DEF IInv
<1>3. /\ cpu \in Task /\ depth \in [Task -> Level] /\ 0 \in Level
      /\ Created' = Created /\ Created \subseteq Task
      /\ cpu \in Created /\ current = cpu
  <2>1. cpu \in Task /\ depth \in [Task -> Level] /\ 0 \in Level
        /\ Created' = Created /\ Created \subseteq Task
    BY ConstantsAssumption DEF IInv, TypeOK, Created, Level, ConstantsAssumption
  <2>2. cpu \in Created /\ current = cpu
    BY DEF IInv, CurrentRuns
  <2> QED BY <2>1, <2>2
<1>4. TypeOK'
  BY <1>2 DEF IInv, TypeOK
<1>5. PreemptHeld'
  BY <1>2, <1>3 DEF IInv, PreemptHeld, Top
<1>6. CurrentRuns'
  BY <1>2, <1>3 DEF CurrentRuns, Top
<1>7. TargetRunning'
  BY <1>2, <1>3 DEF TargetRunning, Top, TaskPc
<1>8. BaseRunning'
  <2>1. ASSUME NEW t \in Created, t # cpu
        PROVE  kstack'[t][0].pc = kstack[t][0].pc
    BY <1>2, <1>3, <2>1
  <2>2. CASE depth[cpu] # 0
    BY <1>2, <1>3, <2>1, <2>2 DEF IInv, BaseRunning
  <2>3. CASE depth[cpu] = 0
    BY <1>2, <1>3, <2>1, <2>3 DEF IInv, BaseRunning, TaskPc
  <2> QED BY <2>2, <2>3
<1>9. SlotOwners'
  <2>1. ASSUME NEW i \in Slot, task_ptr[i] = cpu
        PROVE  \/ kstack'[cpu][0].pc = "block"
               \/ /\ state[cpu] = "BLOCKED"
                  /\ kstack'[cpu][0].pc \in SchedPc \cup {"yield"}
    <3>1. \/ kstack[cpu][0].pc = "block"
          \/ /\ state[cpu] = "BLOCKED"
             /\ kstack[cpu][0].pc \in SchedPc \cup {"yield"}
      BY <1>3, <2>1 DEF IInv, SlotOwners, NoTask, Task
    <3>2. CASE depth[cpu] # 0
      BY <1>2, <1>3, <3>1, <3>2
    <3>3. CASE depth[cpu] = 0
      BY <1>2, <1>3, <3>1, <3>3 DEF Top, Pc, TaskPc
    <3> QED BY <3>2, <3>3
  <2> QED BY <1>2, <1>3, <2>1 DEF IInv, SlotOwners, TypeOK
<1>10. MaskedInExit'
  BY <1>2, <1>3 DEF MaskedInExit, SchedPc
<1> QED
  BY <1>1, <1>4, <1>5, <1>6, <1>7, <1>8, <1>9, <1>10 DEF IInv

\* A step that touches only counters, priorities and remaining times.
LEMMA QuietStep ==
  ASSUME IInv,
         UNCHANGED <<cpuVars, n_tasks, state, preempt_count, stackVars, task_ptr>>,
         counter' \in [Task -> Int], priority' \in [Task -> Int],
         remaining' \in [Slot -> Int]
  PROVE  IInv'
<1>1. TypeOK'
  BY DEF IInv, TypeOK, cpuVars, stackVars
<1>2. PreemptHeld' /\ StackShape' /\ CurrentRuns' /\ OffCpuParked'
  BY DEF IInv, PreemptHeld, StackShape, CurrentRuns, OffCpuParked, Top,
         Created, cpuVars, stackVars
<1>3. TargetRunning' /\ SlotArgs' /\ BaseRunning' /\ SlotOwners' /\ MaskedInExit'
  BY DEF IInv, TargetRunning, SlotArgs, BaseRunning, SlotOwners, MaskedInExit,
         Top, Created, cpuVars, stackVars
<1> QED BY <1>1, <1>2, <1>3 DEF IInv

\* preempt_disable() and preempt_enable() on the running task.
LEMMA PreemptSteps ==
  ASSUME IInv, current = cpu
  PROVE  /\ preempt_disable =>
              /\ preempt_count' \in [Task -> Nat]
              /\ preempt_count'[cpu] > 0
              /\ \A t \in Task : t # cpu => preempt_count'[t] = preempt_count[t]
         /\ preempt_enable /\ Top(cpu).pc \in DisabledPc =>
              /\ preempt_count' \in [Task -> Nat]
              /\ \A t \in Task : t # cpu => preempt_count'[t] = preempt_count[t]
<1>1. cpu \in Task /\ preempt_count \in [Task -> Nat]
  BY DEF IInv, TypeOK
<1>2. Top(cpu).pc \in DisabledPc => preempt_count[cpu] > 0
  BY DEF IInv, PreemptHeld, CurrentRuns
<1> QED BY <1>1, <1>2 DEF preempt_disable, preempt_enable

\* What holds wherever the core is, except inside switch_to().
LEMMA CpuFacts ==
  ASSUME IInv
  PROVE  /\ cpu \in Task /\ cpu \in Created /\ depth[cpu] \in Level
         /\ Top(cpu).pc # "cpu_switch" => current = cpu
         /\ Top(cpu).pc \notin {"zombie", "exit_end"} => ~irq_masked
         /\ Top(cpu).arg \in Int
         /\ Top(cpu).pc \in {"timers", "scan", "arm", "own"} => Arg \in Slot
<1>1. /\ cpu \in Task /\ cpu \in Created /\ depth[cpu] \in Level
      /\ Top(cpu).pc # "cpu_switch" => current = cpu
  BY DEF IInv, TypeOK, CurrentRuns
<1>2. Top(cpu).arg \in Int
  BY <1>1 DEF IInv, TypeOK, Frame, Top
<1>3. Top(cpu).pc \notin {"zombie", "exit_end"} => ~irq_masked
  BY DEF IInv, MaskedInExit, Top
<1>4. Top(cpu).pc \in {"timers", "scan", "arm", "own"} => Arg \in Slot
  BY <1>1 DEF IInv, SlotArgs, Top, Arg
<1> QED BY <1>1, <1>2, <1>3, <1>4

-----------------------------------------------------------------------------
(***************************************************************************)
(* kernel_fork().                                                          *)
(***************************************************************************)
\* kernel_fork() up to preempt_disable() preserves the invariant, whoever calls.
LEMMA ForkCallStep ==
  ASSUME IInv, MainFork \/ SyscallFork
  PROVE  IInv'
<1> DEFINE left == IF cpu = 0 THEN Arg - 1 ELSE 0
<1>1. At("run") /\ KernelForkCall(left)
  BY DEF MainFork, SyscallFork
<1>2. left \in Int /\ depth[cpu] = 0 /\ current = cpu /\ ~irq_masked
      /\ state[cpu] = "RUNNING"
  BY <1>1, CpuFacts, TaskPointIsBase, CpuRunning DEF At, Arg, TaskPc
<1> QED
  BY <1>1, <1>2, LocalMove, PreemptSteps
     DEF At, KernelForkCall, cpuVars, timerVars, Pc, TaskPc, SchedPc, DisabledPc,
         IInv, TypeOK

\* kernel_fork() without a page leaves preempt_count raised: still invariant.
LEMMA ForkNoPageStep ==
  ASSUME IInv, KernelForkNoPage
  PROVE  IInv'
<1>1. At("fork") /\ Goto("run", Arg)
  BY DEF KernelForkNoPage
<1>2. Arg \in Int /\ depth[cpu] = 0 /\ ~irq_masked /\ state[cpu] = "RUNNING"
  BY <1>1, CpuFacts, TaskPointIsBase, CpuRunning DEF At, Arg, TaskPc
<1> QED
  BY <1>1, <1>2, LocalMove
     DEF At, KernelForkNoPage, cpuVars, taskVars, timerVars, Pc, TaskPc,
         DisabledPc, IInv, TypeOK

\* kernel_fork() and a new task leave their critical sections.
LEMMA ForkReturnStep ==
  ASSUME IInv, KernelForkReturn \/ EndOfSched
  PROVE  IInv'
<1> DEFINE a == IF At("fork_end") THEN Arg ELSE 0
<1>1. /\ At("fork_end") \/ At("ret_from_fork")
      /\ preempt_enable /\ Goto("run", a)
      /\ UNCHANGED <<cpuVars, n_tasks, state, counter, priority, depth, timerVars>>
  BY DEF KernelForkReturn, EndOfSched, At
<1>2. a \in Int /\ depth[cpu] = 0 /\ current = cpu /\ ~irq_masked
      /\ state[cpu] = "RUNNING"
  BY <1>1, CpuFacts, TaskPointIsBase, CpuRunning DEF At, Arg, TaskPc
<1>3. /\ preempt_count' \in [Task -> Nat]
      /\ \A t \in Task : t # cpu => preempt_count'[t] = preempt_count[t]
  BY <1>1, <1>2, PreemptSteps DEF At, DisabledPc
<1> QED
  BY <1>1, <1>2, <1>3, LocalMove
     DEF At, cpuVars, timerVars, Pc, TaskPc, DisabledPc, IInv, TypeOK

-----------------------------------------------------------------------------
(***************************************************************************)
(* schedule() and _schedule().                                             *)
(***************************************************************************)
\* main()'s call of schedule() only moves its frame.
LEMMA YieldStep ==
  ASSUME IInv, MainSchedule
  PROVE  IInv'
<1>1. At("run") /\ Goto("yield", 0)
  BY DEF MainSchedule
<1>2. depth[cpu] = 0 /\ ~irq_masked
  BY <1>1, CpuFacts, TaskPointIsBase DEF At, TaskPc
<1>3. /\ UNCHANGED <<current, cpu, n_tasks, state, depth, task_ptr, irq_masked>>
      /\ counter' \in [Task -> Int] /\ priority' \in [Task -> Int]
      /\ remaining' \in [Slot -> Int] /\ irq_masked' \in BOOLEAN
      /\ preempt_count' \in [Task -> Nat] /\ preempt_count' = preempt_count
  BY DEF MainSchedule, cpuVars, taskVars, timerVars, IInv, TypeOK
<1> QED
  BY <1>1, <1>2, <1>3, LocalMove DEF At, Pc, TaskPc, DisabledPc

\* schedule() zeroes the counter of current and enters _schedule().
LEMMA ScheduleStep ==
  ASSUME IInv, Schedule
  PROVE  IInv'
<1>1. At("yield") /\ Goto("sched", 0)
  BY DEF Schedule
<1>2. depth[cpu] = 0 /\ ~irq_masked
  BY <1>1, CpuFacts, TaskPointIsBase DEF At, TaskPc
<1>3. counter' \in [Task -> Int]
  BY DEF Schedule, IInv, TypeOK
<1> QED
  BY <1>1, <1>2, <1>3, LocalMove
     DEF At, Schedule, cpuVars, timerVars, Pc, TaskPc, SchedPc, DisabledPc,
         IInv, TypeOK

\* _schedule() disables preemption before it looks at the timers.
LEMMA ScheduleEnterStep ==
  ASSUME IInv, ScheduleEnter
  PROVE  IInv'
<1>1. At("sched") /\ preempt_disable /\ Goto("timers", 0)
  BY DEF ScheduleEnter
<1>2. current = cpu /\ ~irq_masked /\ 0 \in Slot
  BY <1>1, CpuFacts, ConstantsAssumption DEF At, Slot, ConstantsAssumption
<1> QED
  BY <1>1, <1>2, LocalMove, PreemptSteps
     DEF At, ScheduleEnter, cpuVars, timerVars, Pc, SchedPc, TaskPc, DisabledPc,
         IInv, TypeOK

\* The selection loop chooses a created task that is RUNNING.
LEMMA PickNextStep ==
  ASSUME IInv, PickNext
  PROVE  IInv'
<1>1. PICK t \in Task : Chosen(t) /\ Goto("switch", t)
  BY DEF PickNext
<1>2. t \in Created /\ state[t] = "RUNNING" /\ t \in Int
  BY <1>1 DEF Chosen, Eligible, Task
<1>3. ~irq_masked /\ At("pick") /\ preempt_count[cpu] > 0
  BY CpuFacts DEF PickNext, At, IInv, PreemptHeld, DisabledPc
<1> QED
  BY <1>1, <1>2, <1>3, LocalMove
     DEF At, PickNext, cpuVars, taskVars, timerVars, Pc, SchedPc, TaskPc, IInv,
         TypeOK

\* The refill of the counters changes nothing the invariant reads.
LEMMA RefillStep ==
  ASSUME IInv, RefillCounters
  PROVE  IInv'
<1>1. counter' \in [Task -> Int]
  BY DEF RefillCounters, IInv, TypeOK
<1> QED
  BY <1>1, QuietStep DEF RefillCounters, IInv, TypeOK, timerVars

\* switch_to() of the running task returns at once; the task is RUNNING.
LEMMA SwitchToSelfStep ==
  ASSUME IInv, SwitchToSelf
  PROVE  IInv'
<1>1. At("switch") /\ Goto("sched_end", 0) /\ current = Arg
  BY DEF SwitchToSelf
<1>2. /\ current = cpu /\ ~irq_masked /\ preempt_count[cpu] > 0
      /\ state[cpu] = "RUNNING"
  BY <1>1, CpuFacts
     DEF At, Arg, IInv, PreemptHeld, TargetRunning, DisabledPc
<1> QED
  BY <1>1, <1>2, LocalMove
     DEF At, SwitchToSelf, cpuVars, taskVars, timerVars, Pc, SchedPc, TaskPc,
         IInv, TypeOK

\* _schedule() enables preemption and returns to the handler or the task.
LEMMA ScheduleReturnStep ==
  ASSUME IInv, ScheduleReturn
  PROVE  IInv'
<1> DEFINE p == IF depth[cpu] > 0 THEN "irq_exit" ELSE "run"
<1>1. At("sched_end") /\ preempt_enable /\ Goto(p, 0)
  BY DEF ScheduleReturn
<1>2. current = cpu /\ ~irq_masked /\ state[cpu] = "RUNNING"
      /\ depth[cpu] \in Nat
  BY <1>1, CpuFacts, CpuRunning, ConstantsAssumption
     DEF At, Level, ConstantsAssumption
<1>3. /\ preempt_count' \in [Task -> Nat]
      /\ \A t \in Task : t # cpu => preempt_count'[t] = preempt_count[t]
  BY <1>1, <1>2, PreemptSteps DEF At, DisabledPc
<1>4. /\ UNCHANGED <<current, cpu, n_tasks, state, depth, task_ptr, irq_masked>>
      /\ counter' \in [Task -> Int] /\ priority' \in [Task -> Int]
      /\ remaining' \in [Slot -> Int] /\ irq_masked' \in BOOLEAN
  BY DEF ScheduleReturn, cpuVars, timerVars, IInv, TypeOK
<1>5. CASE depth[cpu] > 0
  BY <1>1, <1>2, <1>3, <1>4, <1>5, LocalMove DEF At, Pc, TaskPc, DisabledPc
<1>6. CASE depth[cpu] = 0
  BY <1>1, <1>2, <1>3, <1>4, <1>6, LocalMove DEF At, Pc, TaskPc, DisabledPc
<1> QED BY <1>2, <1>5, <1>6

\* switch_to() changes current while the old task is on the core.
LEMMA SwitchToStep ==
  ASSUME IInv, SwitchTo
  PROVE  IInv'
<1>1. At("switch") /\ Goto("cpu_switch", Arg) /\ current' = Arg /\ current # Arg
      /\ UNCHANGED <<cpu, irq_masked, taskVars, depth, timerVars>>
  BY DEF SwitchTo
<1>2. /\ current = cpu /\ cpu \in Created /\ ~irq_masked /\ cpu \in Task
      /\ Arg \in Created /\ state[Arg] = "RUNNING" /\ Arg \in Int /\ Arg \in Task
      /\ preempt_count[cpu] > 0 /\ depth[cpu] \in Level /\ 0 \in Level
  BY <1>1, CpuFacts, ConstantsAssumption
     DEF At, Arg, IInv, PreemptHeld, TargetRunning, DisabledPc, Created, Level,
         ConstantsAssumption
<1>3. StackShape' /\ SlotArgs' /\ OffCpuParked'
  BY <1>1, <1>2, GotoKeeps DEF Pc, SchedPc, taskVars
<1>4. /\ kstack' \in [Task -> [Level -> Frame]]
      /\ kstack'[cpu][depth[cpu]].pc = "cpu_switch"
      /\ kstack'[cpu][depth[cpu]].arg = Arg
      /\ \A t \in Task, l \in Level :
           (t # cpu \/ l # depth[cpu]) => kstack'[t][l] = kstack[t][l]
  BY <1>1, <1>2, GotoFrame DEF IInv, Pc, SchedPc
<1>5. Created' = Created /\ Created \subseteq Task
  BY <1>1 DEF Created, taskVars
<1>6. TypeOK'
  BY <1>1, <1>2, <1>4 DEF IInv, TypeOK, taskVars, timerVars
<1>7. PreemptHeld'
  BY <1>1, <1>2, <1>4, <1>5 DEF IInv, TypeOK, PreemptHeld, Top, taskVars
<1>8. CurrentRuns' /\ TargetRunning' /\ MaskedInExit'
  BY <1>1, <1>2, <1>4, <1>5
     DEF CurrentRuns, TargetRunning, MaskedInExit, Top, taskVars
<1>9. \A t \in Created : kstack'[t][0].pc = kstack[t][0].pc
                      \/ /\ kstack[t][0].pc \in SchedPc
                         /\ kstack'[t][0].pc = "cpu_switch"
  BY <1>1, <1>2, <1>4, <1>5 DEF At, Top, SchedPc
<1>10. BaseRunning' /\ SlotOwners'
  BY <1>1, <1>5, <1>9
     DEF IInv, BaseRunning, SlotOwners, SchedPc, taskVars, timerVars
<1> QED
  BY <1>3, <1>6, <1>7, <1>8, <1>10 DEF IInv

\* The core leaves one stack inside switch_to() and continues on the stack of
\* a runnable task, which was parked there or is new.
LEMMA CpuSwitchToStep ==
  ASSUME IInv, CpuSwitchTo
  PROVE  IInv'
<1>1. At("cpu_switch") /\ Goto("sched_end", 0) /\ cpu' = Arg
      /\ UNCHANGED <<current, irq_masked, taskVars, depth, timerVars>>
  BY DEF CpuSwitchTo
<1>2. /\ current = Arg /\ current # cpu /\ cpu \in Created /\ ~irq_masked
      /\ cpu \in Task /\ Arg \in Created /\ state[Arg] = "RUNNING" /\ Arg \in Task
      /\ preempt_count[cpu] > 0 /\ depth \in [Task -> Level] /\ 0 \in Level
  BY <1>1, CpuFacts, ConstantsAssumption
     DEF At, Arg, IInv, PreemptHeld, TargetRunning, CurrentRuns, DisabledPc,
         Created, Level, TypeOK, ConstantsAssumption
<1>3. /\ kstack' \in [Task -> [Level -> Frame]]
      /\ kstack'[cpu][depth[cpu]].pc = "sched_end"
      /\ \A t \in Task, l \in Level :
           (t # cpu \/ l # depth[cpu]) => kstack'[t][l] = kstack[t][l]
  BY <1>1, GotoFrame DEF IInv, Pc, SchedPc
<1>4. Created' = Created /\ Created \subseteq Task
  BY <1>1 DEF Created, taskVars
<1>5. \A t \in Task, l \in Level :
        \/ kstack'[t][l] = kstack[t][l]
        \/ /\ t = cpu /\ l = depth[t]
           /\ kstack[t][l].pc = "cpu_switch" /\ kstack'[t][l].pc = "sched_end"
  BY <1>1, <1>2, <1>3 DEF At, Top
<1>6. TypeOK'
  BY <1>1, <1>2, <1>3 DEF IInv, TypeOK, taskVars, timerVars
<1>7. PreemptHeld'
  BY <1>1, <1>2, <1>4, <1>5 DEF IInv, PreemptHeld, Top, taskVars
<1>8. StackShape'
  <2>1. \A t \in Created, l \in Level :
          l < depth[t] => kstack'[t][l] = kstack[t][l]
    BY <1>2, <1>4, <1>5 DEF Level
  <2> QED
    BY <1>1, <1>2, <1>4, <1>5, <2>1 DEF IInv, StackShape, SchedPc
<1>9. OffCpuParked'
  BY <1>1, <1>2, <1>3, <1>4 DEF IInv, OffCpuParked, Top
<1>10. kstack'[Arg][depth[Arg]].pc \in {"sched_end", "ret_from_fork"}
  BY <1>2, <1>3 DEF IInv, OffCpuParked, Top
<1>11. CurrentRuns' /\ TargetRunning' /\ MaskedInExit'
  BY <1>1, <1>2, <1>4, <1>10
     DEF CurrentRuns, TargetRunning, MaskedInExit, Top, taskVars
<1>12. SlotArgs'
  BY <1>4, <1>5 DEF IInv, SlotArgs, Slot
<1>13. BaseRunning' /\ SlotOwners'
  BY <1>1, <1>2, <1>4, <1>5
     DEF IInv, BaseRunning, SlotOwners, SchedPc, taskVars, timerVars
<1> QED
  BY <1>6, <1>7, <1>8, <1>9, <1>11, <1>12, <1>13 DEF IInv

\* check_timers() looks at one slot.  The task it wakes is blocked, or has not
\* blocked yet; it owned no other slot.
LEMMA CheckTimersStep ==
  ASSUME IInv, CheckTimers
  PROVE  IInv'
<1> DEFINE q == IF Arg + 1 < NTimers THEN "timers" ELSE "pick"
           b == IF Arg + 1 < NTimers THEN Arg + 1 ELSE 0
<1>1. At("timers") /\ Goto(q, b) /\ CheckTimer(Arg)
      /\ UNCHANGED <<cpuVars, n_tasks, counter, priority, preempt_count, depth>>
  BY DEF CheckTimers
<1>2. /\ current = cpu /\ cpu \in Created /\ ~irq_masked /\ cpu \in Task
      /\ Arg \in Slot /\ preempt_count[cpu] > 0
      /\ depth \in [Task -> Level] /\ 0 \in Level
  <2>1. depth \in [Task -> Level] /\ 0 \in Level
    BY ConstantsAssumption DEF IInv, TypeOK, Level, ConstantsAssumption
  <2> QED BY <1>1, <2>1, CpuFacts DEF At, IInv, PreemptHeld, DisabledPc
<1>3. q \in {"timers", "pick"} /\ b \in Int /\ (q = "timers" => b \in Slot)
  BY <1>2, ConstantsAssumption DEF Slot, ConstantsAssumption
<1> HIDE DEF q, b
<1>4. StackShape' /\ SlotArgs' /\ OffCpuParked'
  BY <1>1, <1>2, <1>3, GotoKeeps DEF Pc, SchedPc, cpuVars
<1>5. /\ kstack' \in [Task -> [Level -> Frame]]
      /\ kstack'[cpu][depth[cpu]].pc = q
      /\ \A t \in Task, l \in Level :
           (t # cpu \/ l # depth[cpu]) => kstack'[t][l] = kstack[t][l]
  BY <1>1, <1>3, GotoFrame DEF IInv, Pc, SchedPc
<1>6. Created' = Created /\ Created \subseteq Task
  BY <1>1 DEF Created
<1>7. \A t \in Created : \/ kstack'[t][0].pc = kstack[t][0].pc
                         \/ /\ kstack[t][0].pc \in SchedPc
                            /\ kstack'[t][0].pc \in {"timers", "pick"}
  BY <1>1, <1>2, <1>3, <1>5, <1>6 DEF At, Top, SchedPc
<1>8. /\ state' \in [Task -> {"RUNNING", "BLOCKED", "ZOMBIE"}]
      /\ remaining' \in [Slot -> Int] /\ task_ptr' \in [Slot -> Task \cup {NoTask}]
      /\ \A t \in Task : state[t] = "RUNNING" => state'[t] = "RUNNING"
      /\ \A j \in Slot : \/ task_ptr'[j] = NoTask
                         \/ /\ task_ptr'[j] = task_ptr[j]
                            /\ state'[task_ptr[j]] = state[task_ptr[j]]
  <2>1. CASE Expired(Arg)
    <3>1. /\ state' = [state EXCEPT ![task_ptr[Arg]] = "RUNNING"]
          /\ task_ptr' = [task_ptr EXCEPT ![Arg] = NoTask]
          /\ remaining' = [remaining EXCEPT ![Arg] = Free]
      BY <1>1, <2>1 DEF CheckTimer
    <3>2. \A j \in Slot : j # Arg => task_ptr[j] # task_ptr[Arg]
      BY <1>2, <2>1 DEF IInv, SlotOwners, Expired
    <3>3. /\ task_ptr \in [Slot -> Task \cup {NoTask}] /\ task_ptr[Arg] \in Task
          /\ state \in [Task -> {"RUNNING", "BLOCKED", "ZOMBIE"}]
          /\ remaining \in [Slot -> Int] /\ Free \in Int
      BY <1>2, <2>1 DEF IInv, TypeOK, Expired, Free
    <3>4. /\ state' \in [Task -> {"RUNNING", "BLOCKED", "ZOMBIE"}]
          /\ \A t \in Task : state[t] = "RUNNING" => state'[t] = "RUNNING"
          /\ \A t : t # task_ptr[Arg] => state'[t] = state[t]
      BY <3>1, <3>3
    <3>5. remaining' \in [Slot -> Int] /\ task_ptr' \in [Slot -> Task \cup {NoTask}]
      BY <1>2, <3>1, <3>3
    <3>6. ASSUME NEW j \in Slot
          PROVE  \/ task_ptr'[j] = NoTask
                 \/ /\ task_ptr'[j] = task_ptr[j]
                    /\ state'[task_ptr[j]] = state[task_ptr[j]]
      BY <1>2, <3>1, <3>2, <3>3, <3>4
    <3> QED BY <3>4, <3>5, <3>6
  <2>2. CASE ~Expired(Arg)
    BY <1>1, <2>2 DEF CheckTimer, timerVars, IInv, TypeOK
  <2> QED BY <2>1, <2>2
<1>9. TypeOK'
  BY <1>1, <1>5, <1>8 DEF IInv, TypeOK, cpuVars
<1>10. PreemptHeld'
  BY <1>1, <1>2, <1>5, <1>6 DEF IInv, PreemptHeld, Top, cpuVars
<1>11. CurrentRuns' /\ TargetRunning' /\ MaskedInExit'
  BY <1>1, <1>2, <1>3, <1>5, <1>6
     DEF CurrentRuns, TargetRunning, MaskedInExit, Top, cpuVars
<1>12. BaseRunning'
  BY <1>6, <1>7, <1>8 DEF IInv, BaseRunning
<1>13. SlotOwners'
  BY <1>6, <1>7, <1>8 DEF IInv, SlotOwners, SchedPc
<1> QED
  BY <1>4, <1>9, <1>10, <1>11, <1>12, <1>13 DEF IInv

-----------------------------------------------------------------------------
(***************************************************************************)
(* register_one_hit().                                                     *)
(***************************************************************************)
\* register_one_hit() before the store of task_ptr preserves the invariant.
LEMMA RegisterWalkStep ==
  ASSUME IInv, RegisterCall \/ RegisterScan \/ RegisterArm
  PROVE  IInv'
<1>1. PICK p \in {"scan", "arm", "own", "run"}, a \in Int :
        Goto(p, a) /\ (p # "run" => a \in Slot)
  <2>1. CASE RegisterCall
    BY <2>1, ConstantsAssumption DEF RegisterCall, Slot, ConstantsAssumption
  <2>2. CASE RegisterScan
    <3>1. Arg \in Slot
      BY <2>2, CpuFacts DEF RegisterScan, At
    <3>2. CASE remaining[Arg] = Free /\ Goto("arm", Arg)
      BY <3>1, <3>2 DEF Slot
    <3>3. CASE Arg + 1 < NTimers /\ Goto("scan", Arg + 1)
      <4>1. Arg + 1 \in Slot
        BY <3>1, <3>3, ConstantsAssumption DEF Slot, ConstantsAssumption
      <4> QED BY <3>3, <4>1 DEF Slot
    <3>4. CASE Goto("run", 0)
      BY <3>4
    <3> QED BY <2>2, <3>2, <3>3, <3>4 DEF RegisterScan
  <2>3. CASE RegisterArm
    BY <2>3, CpuFacts DEF RegisterArm, At, Slot
  <2> QED BY <2>1, <2>2, <2>3
<1>2. Top(cpu).pc \in {"run", "scan", "arm"}
  BY DEF RegisterCall, RegisterScan, RegisterArm, At
<1>3. depth[cpu] = 0 /\ ~irq_masked /\ state[cpu] = "RUNNING"
  BY <1>2, CpuFacts, TaskPointIsBase, CpuRunning DEF TaskPc
<1>4. /\ UNCHANGED <<current, cpu, n_tasks, state, depth, task_ptr, irq_masked>>
      /\ counter' \in [Task -> Int] /\ priority' \in [Task -> Int]
      /\ remaining' \in [Slot -> Int] /\ irq_masked' \in BOOLEAN
      /\ preempt_count' \in [Task -> Nat] /\ preempt_count' = preempt_count
  <2>1. CASE RegisterCall \/ RegisterScan
    BY <2>1 DEF RegisterCall, RegisterScan, cpuVars, taskVars, timerVars, IInv,
                TypeOK
  <2>2. CASE RegisterArm
    <3>1. PICK d \in Delays : remaining' = [remaining EXCEPT ![Arg] = d]
      BY <2>2 DEF RegisterArm
    <3>2. d \in Int /\ remaining \in [Slot -> Int]
      BY ConstantsAssumption DEF IInv, TypeOK, ConstantsAssumption
    <3>3. remaining' \in [Slot -> Int]
      BY <3>1, <3>2
    <3> QED BY <2>2, <3>3 DEF RegisterArm, cpuVars, taskVars, IInv, TypeOK
  <2> QED BY <2>1, <2>2
<1> QED
  BY <1>1, <1>2, <1>3, <1>4, LocalMove DEF Pc, TaskPc, DisabledPc

\* The running task holds no slot when it takes one over.
LEMMA RegisterOwnStep ==
  ASSUME IInv, RegisterOwn
  PROVE  IInv'
<1>1. At("own") /\ Goto("block", 0) /\ task_ptr' = [task_ptr EXCEPT ![Arg] = current]
      /\ UNCHANGED <<cpuVars, taskVars, depth, remaining>>
  BY DEF RegisterOwn
<1>2. /\ current = cpu /\ cpu \in Created /\ ~irq_masked /\ cpu \in Task
      /\ Arg \in Slot /\ depth[cpu] = 0 /\ 0 \in Level /\ state[cpu] = "RUNNING"
      /\ depth \in [Task -> Level]
  BY <1>1, CpuFacts, TaskPointIsBase, CpuRunning DEF At, TaskPc, IInv, TypeOK
<1>3. StackShape' /\ SlotArgs' /\ OffCpuParked'
  BY <1>1, <1>2, GotoKeeps DEF Pc, TaskPc, cpuVars, taskVars
<1>4. /\ kstack' \in [Task -> [Level -> Frame]]
      /\ kstack'[cpu][depth[cpu]].pc = "block"
      /\ \A t \in Task, l \in Level :
           (t # cpu \/ l # depth[cpu]) => kstack'[t][l] = kstack[t][l]
  <2>1. TypeOK /\ "block" \in Pc /\ 0 \in Int /\ Goto("block", 0)
    BY <1>1 DEF IInv, Pc, TaskPc
  <2> QED BY <2>1, GotoFrame
<1>5. Created' = Created /\ Created \subseteq Task
  BY <1>1 DEF Created, taskVars
<1>6. TypeOK'
  BY <1>1, <1>2, <1>4 DEF IInv, TypeOK, cpuVars, taskVars
<1>7. PreemptHeld'
  BY <1>1, <1>2, <1>4, <1>5
     DEF IInv, PreemptHeld, Top, cpuVars, taskVars, DisabledPc
<1>8. CurrentRuns' /\ TargetRunning' /\ MaskedInExit'
  BY <1>1, <1>2, <1>4, <1>5
     DEF CurrentRuns, TargetRunning, MaskedInExit, Top, cpuVars, taskVars
<1>9. BaseRunning'
  BY <1>1, <1>2, <1>4, <1>5 DEF IInv, BaseRunning, taskVars
<1>10. \A j \in Slot : task_ptr[j] # cpu
  BY <1>1, <1>2 DEF IInv, SlotOwners, At, Top, SchedPc, NoTask, Task
<1>11. SlotOwners'
  BY <1>1, <1>2, <1>4, <1>5, <1>10
     DEF IInv, SlotOwners, TypeOK, taskVars, NoTask, Task
<1> QED
  BY <1>3, <1>6, <1>7, <1>8, <1>9, <1>11 DEF IInv

\* The task blocks; it may have lost its slot to a wake-up that came first.
LEMMA RegisterBlockStep ==
  ASSUME IInv, RegisterBlock
  PROVE  IInv'
<1>1. At("block") /\ Goto("yield", 0)
      /\ state' = [state EXCEPT ![current] = "BLOCKED"]
      /\ UNCHANGED <<cpuVars, n_tasks, counter, priority, preempt_count, depth,
                     timerVars>>
  BY DEF RegisterBlock
<1>2. /\ current = cpu /\ cpu \in Created /\ cpu \in Task
      /\ depth[cpu] = 0 /\ 0 \in Level /\ depth \in [Task -> Level]
  BY <1>1, CpuFacts, TaskPointIsBase DEF At, TaskPc, IInv, TypeOK
<1>3. StackShape' /\ SlotArgs' /\ OffCpuParked'
  BY <1>1, <1>2, GotoKeeps DEF Pc, TaskPc, cpuVars
<1>4. /\ kstack' \in [Task -> [Level -> Frame]]
      /\ kstack'[cpu][depth[cpu]].pc = "yield"
      /\ \A t \in Task, l \in Level :
           (t # cpu \/ l # depth[cpu]) => kstack'[t][l] = kstack[t][l]
  <2>1. Goto("yield", 0) /\ TypeOK /\ "yield" \in Pc
    BY <1>1 DEF IInv, Pc, TaskPc
  <2> QED BY <2>1, GotoFrame
<1>5. Created' = Created /\ Created \subseteq Task
  BY <1>1 DEF Created
<1>6. /\ state' \in [Task -> {"RUNNING", "BLOCKED", "ZOMBIE"}]
      /\ state'[cpu] = "BLOCKED"
      /\ \A t \in Task : t # cpu => state'[t] = state[t]
  BY <1>1, <1>2 DEF IInv, TypeOK
<1>7. TypeOK'
  BY <1>1, <1>4, <1>6 DEF IInv, TypeOK, cpuVars, timerVars
<1>8. PreemptHeld'
  <2>1. Top(cpu).pc \in DisabledPc \/ "yield" \notin DisabledPc
    BY <1>1 DEF At, DisabledPc
  <2> QED
    BY <1>1, <1>2, <1>4, <1>5, <2>1 DEF IInv, PreemptHeld, Top, cpuVars
<1>9. CurrentRuns' /\ TargetRunning'
  BY <1>1, <1>2, <1>4, <1>5 DEF CurrentRuns, TargetRunning, Top, cpuVars
<1>10. BaseRunning'
  BY <1>1, <1>2, <1>4, <1>5, <1>6 DEF IInv, BaseRunning
<1>11. SlotOwners'
  BY <1>1, <1>2, <1>4, <1>5, <1>6
     DEF IInv, SlotOwners, At, Top, SchedPc, timerVars
<1>12. MaskedInExit'
  BY <1>1, <1>2, CpuFacts DEF MaskedInExit, At, cpuVars
<1> QED
  BY <1>3, <1>7, <1>8, <1>9, <1>10, <1>11, <1>12 DEF IInv

-----------------------------------------------------------------------------
(***************************************************************************)
(* exit_task().                                                            *)
(***************************************************************************)
\* exit_task() is entered with preemption disabled, masked or not.
LEMMA ExitCallStep ==
  ASSUME IInv, ExitTaskCall
  PROVE  IInv'
<1>1. At("run") /\ preempt_disable /\ Goto("zombie", 0)
  BY DEF ExitTaskCall
<1>2. depth[cpu] = 0 /\ current = cpu /\ state[cpu] = "RUNNING"
  BY <1>1, CpuFacts, TaskPointIsBase, CpuRunning DEF At, TaskPc
<1>3. /\ UNCHANGED <<current, cpu, n_tasks, state, depth, task_ptr>>
      /\ counter' \in [Task -> Int] /\ priority' \in [Task -> Int]
      /\ remaining' \in [Slot -> Int] /\ irq_masked' \in BOOLEAN
  BY DEF ExitTaskCall, timerVars, IInv, TypeOK
<1>4. /\ preempt_count' \in [Task -> Nat] /\ preempt_count'[cpu] > 0
      /\ \A t \in Task : t # cpu => preempt_count'[t] = preempt_count[t]
  BY <1>1, <1>2, PreemptSteps
<1> QED
  BY <1>1, <1>2, <1>3, <1>4, LocalMove DEF At, Pc, TaskPc

\* The task dies; no timer slot points to it.
LEMMA ExitZombieStep ==
  ASSUME IInv, ExitTaskZombie
  PROVE  IInv'
<1>1. At("zombie") /\ Goto("exit_end", 0)
      /\ state' = [state EXCEPT ![current] = "ZOMBIE"]
      /\ UNCHANGED <<cpuVars, n_tasks, counter, priority, preempt_count, depth,
                     timerVars>>
  BY DEF ExitTaskZombie
<1>2. /\ current = cpu /\ cpu \in Created /\ cpu \in Task
      /\ depth[cpu] = 0 /\ 0 \in Level /\ depth \in [Task -> Level]
  BY <1>1, CpuFacts, TaskPointIsBase DEF At, TaskPc, IInv, TypeOK
<1>3. StackShape' /\ SlotArgs' /\ OffCpuParked'
  BY <1>1, <1>2, GotoKeeps DEF Pc, TaskPc, cpuVars
<1>4. /\ kstack' \in [Task -> [Level -> Frame]]
      /\ kstack'[cpu][depth[cpu]].pc = "exit_end"
      /\ \A t \in Task, l \in Level :
           (t # cpu \/ l # depth[cpu]) => kstack'[t][l] = kstack[t][l]
  <2>1. Goto("exit_end", 0) /\ TypeOK /\ "exit_end" \in Pc
    BY <1>1 DEF IInv, Pc, TaskPc
  <2> QED BY <2>1, GotoFrame
<1>5. Created' = Created /\ Created \subseteq Task
  BY <1>1 DEF Created
<1>6. /\ state' \in [Task -> {"RUNNING", "BLOCKED", "ZOMBIE"}]
      /\ state'[cpu] = "ZOMBIE"
      /\ \A t \in Task : t # cpu => state'[t] = state[t]
  BY <1>1, <1>2 DEF IInv, TypeOK
<1>7. TypeOK'
  BY <1>1, <1>4, <1>6 DEF IInv, TypeOK, cpuVars, timerVars
<1>8. PreemptHeld'
  <2>1. Top(cpu).pc \in DisabledPc \/ "exit_end" \notin DisabledPc
    BY <1>1 DEF At, DisabledPc
  <2> QED
    BY <1>1, <1>2, <1>4, <1>5, <2>1 DEF IInv, PreemptHeld, Top, cpuVars
<1>9. CurrentRuns' /\ TargetRunning'
  BY <1>1, <1>2, <1>4, <1>5 DEF CurrentRuns, TargetRunning, Top, cpuVars
<1>10. BaseRunning'
  BY <1>1, <1>2, <1>4, <1>5, <1>6 DEF IInv, BaseRunning
<1>11. SlotOwners'
  BY <1>1, <1>2, <1>4, <1>5, <1>6
     DEF IInv, SlotOwners, At, Top, SchedPc, timerVars
<1>12. MaskedInExit'
  BY <1>1, <1>2, <1>4 DEF MaskedInExit, cpuVars
<1> QED
  BY <1>3, <1>7, <1>8, <1>9, <1>10, <1>11, <1>12 DEF IInv

\* exit_task() unmasks IRQs and enables preemption before schedule().
LEMMA ExitEnableStep ==
  ASSUME IInv, ExitTaskEnable
  PROVE  IInv'
<1>1. At("exit_end") /\ preempt_enable /\ Goto("yield", 0) /\ irq_masked' = FALSE
  BY DEF ExitTaskEnable
<1>2. depth[cpu] = 0 /\ current = cpu
  BY <1>1, CpuFacts, TaskPointIsBase DEF At, TaskPc
<1>3. /\ UNCHANGED <<current, cpu, n_tasks, state, depth, task_ptr>>
      /\ counter' \in [Task -> Int] /\ priority' \in [Task -> Int]
      /\ remaining' \in [Slot -> Int] /\ irq_masked' \in BOOLEAN
  BY <1>1 DEF ExitTaskEnable, timerVars, IInv, TypeOK
<1>4. /\ preempt_count' \in [Task -> Nat]
      /\ \A t \in Task : t # cpu => preempt_count'[t] = preempt_count[t]
  BY <1>1, <1>2, PreemptSteps DEF At, DisabledPc
<1> QED
  BY <1>1, <1>2, <1>3, <1>4, LocalMove DEF At, Pc, TaskPc, DisabledPc

\* set_task_priority() changes nothing the invariant reads.
LEMMA SetPriorityStep ==
  ASSUME IInv, SetTaskPriority
  PROVE  IInv'
<1>1. PICK t \in Created, p \in Priorities :
        priority' = [priority EXCEPT ![t] = p]
  BY DEF SetTaskPriority
<1>2. p \in Int /\ priority \in [Task -> Int]
  BY ConstantsAssumption DEF IInv, TypeOK, ConstantsAssumption
<1>3. priority' \in [Task -> Int]
  BY <1>1, <1>2
<1> QED
  BY <1>3, QuietStep DEF SetTaskPriority, IInv, TypeOK, timerVars

-----------------------------------------------------------------------------
(***************************************************************************)
(* The timer interrupt.                                                    *)
(***************************************************************************)
\* The arithmetic of a tick stays in the types of counter and remaining.
LEMMA TickTypes ==
  ASSUME IInv
  PROVE  /\ Charged \in Int
         /\ increment_tick => remaining' \in [Slot -> Int]
BY ConstantsAssumption
   DEF Charged, increment_tick, IInv, TypeOK, ConstantsAssumption

\* A tick that keeps the task preserves the invariant.
LEMMA TickReturnStep ==
  ASSUME IInv, TickReturn
  PROVE  IInv'
<1>1. counter' \in [Task -> Int] /\ remaining' \in [Slot -> Int]
  BY TickTypes DEF TickReturn, IInv, TypeOK
<1>2. CASE At("pick")
  <2>1. Goto("pick", Arg + 1) /\ Arg + 1 \in Int /\ ~irq_masked
        /\ preempt_count[cpu] > 0
    BY <1>2, CpuFacts DEF TickReturn, At, Arg, IInv, PreemptHeld, DisabledPc
  <2>2. /\ UNCHANGED <<current, cpu, n_tasks, state, depth, task_ptr, irq_masked>>
        /\ priority' \in [Task -> Int] /\ irq_masked' \in BOOLEAN
        /\ preempt_count' \in [Task -> Nat] /\ preempt_count' = preempt_count
    BY DEF TickReturn, cpuVars, IInv, TypeOK
  <2> QED
    BY <1>1, <1>2, <2>1, <2>2, LocalMove DEF At, Pc, SchedPc, TaskPc
<1>3. CASE ~At("pick")
  BY <1>1, <1>3, QuietStep DEF TickReturn, stackVars, IInv, TypeOK
<1> QED BY <1>2, <1>3

\* A tick that switches finds the core at a point with preemption enabled: at
\* any other point preempt_count of `current' is above zero, also in the
\* window of switch_to() where `current' is not the task on the core.
LEMMA TickFindsEnabled ==
  ASSUME IInv, ~TickKeepsTask
  PROVE  current = cpu /\ Top(cpu).pc \notin DisabledPc
<1>1. preempt_count[current] = 0 /\ current \in Created /\ cpu \in Created
  BY DEF TickKeepsTask, IInv, TypeOK, CurrentRuns
<1>2. Top(cpu).pc # "cpu_switch"
  BY <1>1 DEF IInv, CurrentRuns, OffCpuParked, PreemptHeld, DisabledPc
<1> QED BY <1>1, <1>2, CpuFacts DEF IInv, PreemptHeld

\* A tick that preempts pushes a frame on code with preemption enabled.
LEMMA TickPreemptStep ==
  ASSUME IInv, TickPreempt
  PROVE  IInv'
<1> DEFINE d == depth[cpu]
<1>1. /\ current = cpu /\ Top(cpu).pc \notin DisabledPc /\ ~irq_masked
      /\ cpu \in Created /\ cpu \in Task /\ d \in Nat /\ d + 1 \in Level
      /\ Top(cpu).pc # "cpu_switch" /\ d \in Level /\ 0 \in Level
      /\ depth \in [Task -> Level]
  <2>1. current = cpu /\ Top(cpu).pc \notin DisabledPc /\ ~irq_masked
    BY TickFindsEnabled DEF TickPreempt
  <2>2. cpu \in Created /\ cpu \in Task /\ depth \in [Task -> Level]
    BY DEF IInv, TypeOK, CurrentRuns
  <2>3. d \in Nat /\ d + 1 \in Level /\ d \in Level /\ 0 \in Level
    BY <2>2, ConstantsAssumption DEF TickPreempt, Level, ConstantsAssumption
  <2> QED BY <2>1, <2>2, <2>3 DEF DisabledPc
<1>2. /\ depth' \in [Task -> Level] /\ depth'[cpu] = d + 1
      /\ \A t \in Task : t # cpu => depth'[t] = depth[t]
  BY <1>1 DEF TickPreempt
<1>3. /\ kstack' \in [Task -> [Level -> Frame]]
      /\ kstack'[cpu][d + 1] = [pc |-> "sched", arg |-> 0]
      /\ \A t \in Task, l \in Level :
           (t # cpu \/ l # d + 1) => kstack'[t][l] = kstack[t][l]
  <2>1. kstack \in [Task -> [Level -> Frame]]
        /\ [pc |-> "sched", arg |-> 0] \in Frame
    BY DEF IInv, TypeOK, Frame, Pc, SchedPc
  <2>2. kstack' = [kstack EXCEPT ![cpu] =
                     [@ EXCEPT ![d + 1] = [pc |-> "sched", arg |-> 0]]]
    BY DEF TickPreempt
  <2> QED BY <1>1, <2>1, <2>2
<1>4. Created' = Created /\ Created \subseteq Task
  BY DEF Created, TickPreempt
<1>5. UNCHANGED <<cpu, current, irq_masked, n_tasks, state, priority,
                  preempt_count, task_ptr>>
  BY DEF TickPreempt, cpuVars
<1>6. \A t \in Created : kstack'[t][0] = kstack[t][0]
  BY <1>1, <1>3, <1>4
<1>7. TypeOK'
  <2>1. counter' \in [Task -> Int] /\ remaining' \in [Slot -> Int]
    BY TickTypes DEF TickPreempt, IInv, TypeOK
  <2> QED BY <1>2, <1>3, <1>5, <2>1 DEF IInv, TypeOK
<1>8. \A t \in Created : t # cpu => Top(t)' = Top(t)
  BY <1>1, <1>2, <1>3, <1>4 DEF Top
<1>9. Top(cpu)' = [pc |-> "sched", arg |-> 0]
  BY <1>2, <1>3, <1>5 DEF Top
<1>10. PreemptHeld'
  BY <1>1, <1>4, <1>5, <1>8, <1>9 DEF IInv, PreemptHeld, DisabledPc
<1>11. StackShape'
  <2> SUFFICES ASSUME NEW t \in Created
               PROVE  /\ kstack'[t][0].pc # "irq_exit"
                      /\ \A l \in Level : l < depth'[t] =>
                           kstack'[t][l].pc \notin DisabledPc
                      /\ \A l \in Level : l \in 1 .. depth'[t] =>
                           kstack'[t][l].pc \in SchedPc \cup {"irq_exit"}
    BY <1>4 DEF StackShape
  <2>1. kstack'[t][0].pc # "irq_exit"
    BY <1>6 DEF IInv, StackShape
  <2>2. CASE t # cpu
    BY <1>2, <1>3, <1>4, <2>1, <2>2 DEF IInv, StackShape
  <2>3. CASE t = cpu
    <3>1. ASSUME NEW l \in Level, l < d + 1
          PROVE  kstack'[t][l].pc \notin DisabledPc
      <4>1. kstack'[t][l] = kstack[t][l] /\ (l < d \/ l = d)
        BY <1>1, <1>3, <2>3, <3>1 DEF Level
      <4> QED BY <1>1, <2>3, <3>1, <4>1 DEF IInv, StackShape, Top
    <3>2. ASSUME NEW l \in Level, l \in 1 .. d + 1
          PROVE  kstack'[t][l].pc \in SchedPc \cup {"irq_exit"}
      <4>1. CASE l = d + 1
        BY <1>3, <2>3, <4>1 DEF SchedPc
      <4>2. CASE l # d + 1
        <5>1. kstack'[t][l] = kstack[t][l] /\ l \in 1 .. d
          BY <1>1, <1>3, <2>3, <3>2, <4>2
        <5> QED BY <2>3, <5>1 DEF IInv, StackShape
      <4> QED BY <4>1, <4>2
    <3> QED BY <1>2, <2>1, <2>3, <3>1, <3>2
  <2> QED BY <2>2, <2>3
<1>12. CurrentRuns' /\ OffCpuParked' /\ TargetRunning' /\ MaskedInExit'
  BY <1>1, <1>4, <1>5, <1>8, <1>9
     DEF IInv, CurrentRuns, OffCpuParked, TargetRunning, MaskedInExit
<1>13. SlotArgs'
  BY <1>3, <1>4 DEF IInv, SlotArgs, Slot
<1>14. BaseRunning' /\ SlotOwners'
  BY <1>4, <1>5, <1>6 DEF IInv, BaseRunning, SlotOwners
<1> QED
  BY <1>7, <1>10, <1>11, <1>12, <1>13, <1>14 DEF IInv

\* The return from an interrupt pops the frame and unmasks.
LEMMA IrqReturnStep ==
  ASSUME IInv, IrqReturn
  PROVE  IInv'
<1> DEFINE d == depth[cpu]
<1>1. /\ current = cpu /\ cpu \in Created /\ cpu \in Task /\ d \in Nat
      /\ d \in Level /\ d # 0 /\ d - 1 \in Level /\ 0 \in Level
      /\ depth \in [Task -> Level]
  <2>1. current = cpu /\ cpu \in Created /\ cpu \in Task /\ depth \in [Task -> Level]
    BY CpuFacts DEF IrqReturn, At, IInv, TypeOK
  <2>2. d # 0
    BY <2>1 DEF IrqReturn, At, Top, IInv, StackShape
  <2>3. d \in Nat /\ d \in Level /\ d - 1 \in Level /\ 0 \in Level
    BY <2>1, <2>2, ConstantsAssumption DEF Level, ConstantsAssumption
  <2> QED BY <2>1, <2>2, <2>3
<1>2. /\ depth' \in [Task -> Level] /\ depth'[cpu] = d - 1
      /\ \A t \in Task : t # cpu => depth'[t] = depth[t]
  BY <1>1 DEF IrqReturn
<1>3. /\ kstack' \in [Task -> [Level -> Frame]]
      /\ kstack'[cpu][d] = Dead
      /\ \A t \in Task, l \in Level :
           (t # cpu \/ l # d) => kstack'[t][l] = kstack[t][l]
  <2>1. kstack \in [Task -> [Level -> Frame]] /\ Dead \in Frame
    BY DEF IInv, TypeOK, Frame, Pc, TaskPc, Dead
  <2>2. kstack' = [kstack EXCEPT ![cpu] = [@ EXCEPT ![d] = Dead]]
    BY DEF IrqReturn
  <2> QED BY <1>1, <2>1, <2>2
<1>4. Created' = Created /\ Created \subseteq Task
  BY DEF Created, IrqReturn, taskVars
<1>5. UNCHANGED <<cpu, current, n_tasks, state, counter, priority,
                  preempt_count, remaining, task_ptr>> /\ irq_masked' = FALSE
  BY DEF IrqReturn, taskVars, timerVars
<1>6. \A t \in Created : kstack'[t][0] = kstack[t][0]
  BY <1>1, <1>3, <1>4
<1>7. TypeOK'
  BY <1>2, <1>3, <1>5 DEF IInv, TypeOK
<1>8. \A t \in Created : t # cpu => Top(t)' = Top(t)
  BY <1>1, <1>2, <1>3, <1>4 DEF Top
<1>9. Top(cpu)' = kstack[cpu][d - 1] /\ Top(cpu)'.pc \notin DisabledPc
  BY <1>1, <1>2, <1>3, <1>5 DEF Top, IInv, StackShape
<1>10. PreemptHeld'
  BY <1>4, <1>5, <1>8, <1>9 DEF IInv, PreemptHeld
<1>11. StackShape'
  <2> SUFFICES ASSUME NEW t \in Created
               PROVE  /\ kstack'[t][0].pc # "irq_exit"
                      /\ \A l \in Level : l < depth'[t] =>
                           kstack'[t][l].pc \notin DisabledPc
                      /\ \A l \in Level : l \in 1 .. depth'[t] =>
                           kstack'[t][l].pc \in SchedPc \cup {"irq_exit"}
    BY <1>4 DEF StackShape
  <2>1. kstack'[t][0].pc # "irq_exit"
    BY <1>6 DEF IInv, StackShape
  <2>2. CASE t # cpu
    BY <1>2, <1>3, <1>4, <2>1, <2>2 DEF IInv, StackShape
  <2>3. CASE t = cpu
    <3>1. ASSUME NEW l \in Level, l < d
          PROVE  kstack'[t][l] = kstack[t][l]
      BY <1>1, <1>3, <2>3, <3>1 DEF Level
    <3>2. ASSUME NEW l \in Level, l < d - 1
          PROVE  kstack'[t][l].pc \notin DisabledPc
      BY <1>1, <2>3, <3>1, <3>2 DEF IInv, StackShape, Level
    <3>3. ASSUME NEW l \in Level, l \in 1 .. d - 1
          PROVE  kstack'[t][l].pc \in SchedPc \cup {"irq_exit"}
      BY <1>1, <2>3, <3>1, <3>3 DEF IInv, StackShape
    <3> QED BY <1>2, <2>1, <2>3, <3>2, <3>3
  <2> QED BY <2>2, <2>3
<1>12. OffCpuParked' /\ MaskedInExit'
  BY <1>4, <1>5, <1>8 DEF IInv, OffCpuParked, MaskedInExit
<1>13. CurrentRuns' /\ TargetRunning'
  BY <1>1, <1>4, <1>5, <1>9 DEF CurrentRuns, TargetRunning, DisabledPc
<1>14. SlotArgs'
  BY <1>3, <1>4 DEF IInv, SlotArgs, Slot, Dead
<1>15. BaseRunning' /\ SlotOwners'
  BY <1>4, <1>5, <1>6 DEF IInv, BaseRunning, SlotOwners
<1> QED
  BY <1>7, <1>10, <1>11, <1>12, <1>13, <1>14, <1>15 DEF IInv

-----------------------------------------------------------------------------
(***************************************************************************)
(* A new task.                                                             *)
(***************************************************************************)
\* kernel_fork() creates a parked task with preemption disabled.
LEMMA ForkCreateStep ==
  ASSUME IInv, KernelForkCreate
  PROVE  IInv'
<1>0. PICK n \in Nat : n = n_tasks
  BY DEF IInv, TypeOK
<1>1. /\ current = cpu /\ cpu \in Created /\ cpu \in Task /\ ~irq_masked
      /\ depth[cpu] = 0 /\ 0 \in Level /\ depth \in [Task -> Level]
      /\ state[cpu] = "RUNNING" /\ preempt_count[cpu] > 0 /\ Arg \in Int
      /\ kstack[cpu][0].pc = "fork"
  <2>1. At("fork")
    BY DEF KernelForkCreate
  <2>2. /\ current = cpu /\ cpu \in Created /\ cpu \in Task /\ ~irq_masked
        /\ depth[cpu] = 0 /\ state[cpu] = "RUNNING" /\ Arg \in Int
    BY <2>1, CpuFacts, TaskPointIsBase, CpuRunning DEF At, Arg, TaskPc
  <2> QED
    BY <2>1, <2>2, CpuFacts DEF At, Top, IInv, PreemptHeld, TypeOK, DisabledPc
<1>2. n \in Task /\ n \notin Created /\ n # cpu /\ n + 1 \in 1 .. N_TASKS
  BY <1>0, <1>1, ConstantsAssumption
     DEF KernelForkCreate, IInv, TypeOK, Created, Task, ConstantsAssumption
<1>3. Created' = Created \cup {n} /\ Created \subseteq Task
  BY <1>0, <1>2 DEF KernelForkCreate, Created, Task, IInv, TypeOK
<1>4. /\ kstack' \in [Task -> [Level -> Frame]]
      /\ kstack'[n] = NewStack("ret_from_fork", 0)
      /\ kstack'[cpu][0] = [pc |-> "fork_end", arg |-> Arg]
      /\ \A t \in Task, l \in Level :
           t # n /\ (t # cpu \/ l # 0) => kstack'[t][l] = kstack[t][l]
  <2>1. /\ kstack \in [Task -> [Level -> Frame]]
        /\ [pc |-> "fork_end", arg |-> Arg] \in Frame
    BY <1>1 DEF IInv, TypeOK, Frame, Pc, TaskPc
  <2>2. NewStack("ret_from_fork", 0) \in [Level -> Frame]
    BY DEF NewStack, Dead, Frame, Pc, TaskPc
  <2>3. kstack' = [kstack EXCEPT
          ![n] = NewStack("ret_from_fork", 0),
          ![cpu] = [@ EXCEPT ![depth[cpu]] = [pc |-> "fork_end", arg |-> Arg]]]
    BY <1>0 DEF KernelForkCreate
  <2> QED BY <1>1, <1>2, <2>1, <2>2, <2>3
<1>5. /\ depth' \in [Task -> Level] /\ depth'[n] = 0
      /\ \A t \in Task : t # n => depth'[t] = depth[t]
  BY <1>0, <1>1, <1>2 DEF KernelForkCreate
<1>6. /\ preempt_count' \in [Task -> Nat] /\ preempt_count'[n] = 1
      /\ \A t \in Task : t # n => preempt_count'[t] = preempt_count[t]
      /\ state' \in [Task -> {"RUNNING", "BLOCKED", "ZOMBIE"}]
      /\ state'[n] = "RUNNING" /\ \A t \in Task : t # n => state'[t] = state[t]
  BY <1>0, <1>2 DEF KernelForkCreate, IInv, TypeOK
<1>7. UNCHANGED <<cpu, current, irq_masked, task_ptr, remaining>>
  BY DEF KernelForkCreate, cpuVars, timerVars
<1>8. kstack'[n][0] = [pc |-> "ret_from_fork", arg |-> 0]
      /\ \A l \in Level : l # 0 => kstack'[n][l] = Dead
  BY <1>1, <1>4 DEF NewStack
<1>9. TypeOK'
  <2>1. counter' \in [Task -> Int] /\ priority' \in [Task -> Int]
    BY <1>0, <1>1, <1>2 DEF KernelForkCreate, IInv, TypeOK
  <2>2. n_tasks' \in 1 .. N_TASKS
    BY <1>0, <1>2 DEF KernelForkCreate
  <2> QED BY <1>4, <1>5, <1>6, <1>7, <2>1, <2>2 DEF IInv, TypeOK
<1>10. /\ Top(n)' = [pc |-> "ret_from_fork", arg |-> 0]
       /\ Top(cpu)' = [pc |-> "fork_end", arg |-> Arg]
       /\ \A t \in Created : t # cpu => Top(t)' = Top(t)
  <2>1. Top(n)' = kstack'[n][depth'[n]] /\ Top(cpu)' = kstack'[cpu][depth'[cpu]]
    BY <1>7 DEF Top
  <2>2. ASSUME NEW t \in Created, t # cpu
        PROVE  Top(t)' = Top(t)
    BY <1>2, <1>3, <1>4, <1>5, <1>1, <2>2 DEF Top
  <2> QED BY <1>1, <1>2, <1>4, <1>5, <1>8, <2>1, <2>2
<1>11. PreemptHeld'
  BY <1>1, <1>2, <1>3, <1>6, <1>10 DEF IInv, PreemptHeld
<1>12. StackShape'
  <2>1. \A k \in Task : k # n => depth'[k] = depth[k]
    BY <1>5
  <2>2. ASSUME NEW k \in Created
        PROVE  /\ kstack'[k][0].pc # "irq_exit"
               /\ \A l \in Level : l < depth'[k] =>
                    kstack'[k][l].pc \notin DisabledPc
               /\ \A l \in Level : l \in 1 .. depth'[k] =>
                    kstack'[k][l].pc \in SchedPc \cup {"irq_exit"}
    <3>1. CASE k # cpu
      <4>1. k \in Task /\ k # n /\ depth'[k] = depth[k]
        BY <1>2, <1>3, <2>1
      <4>2. \A l \in Level : kstack'[k][l] = kstack[k][l]
        BY <1>4, <3>1, <4>1
      <4> QED BY <1>1, <4>1, <4>2 DEF IInv, StackShape
    <3>2. CASE k = cpu
      <4>1. kstack'[cpu][0].pc = "fork_end"
        BY <1>4
      <4>2. depth'[cpu] = 0
        BY <1>1, <1>2, <2>1
      <4> QED BY <3>2, <4>1, <4>2 DEF Level
    <3> QED BY <3>1, <3>2
  <2>3. /\ kstack'[n][0].pc # "irq_exit"
        /\ \A l \in Level : ~(l < depth'[n]) /\ l \notin 1 .. depth'[n]
    BY <1>5, <1>8 DEF Level
  <2> QED BY <1>3, <2>2, <2>3 DEF StackShape
<1>13. CurrentRuns' /\ OffCpuParked' /\ TargetRunning'
  BY <1>1, <1>3, <1>7, <1>10
     DEF IInv, CurrentRuns, OffCpuParked, TargetRunning
<1>14. MaskedInExit'
  BY <1>1, <1>7 DEF MaskedInExit
<1>15. SlotArgs'
  <2>1. ASSUME NEW k \in Created, NEW l \in Level
        PROVE  kstack'[k][l] = kstack[k][l] \/ kstack'[k][l].pc = "fork_end"
    <3>1. k \in Task /\ k # n
      BY <1>2, <1>3
    <3>2. CASE k = cpu /\ l = 0
      <4>1. kstack'[cpu][0].pc = "fork_end"
        BY <1>4
      <4> QED BY <3>2, <4>1
    <3>3. CASE k # cpu \/ l # 0
      BY <1>4, <3>1, <3>3
    <3> QED BY <3>2, <3>3
  <2>2. \A l \in Level : kstack'[n][l].pc \in {"ret_from_fork", "run"}
    BY <1>8 DEF Dead
  <2> QED BY <1>3, <2>1, <2>2 DEF IInv, SlotArgs, Slot
<1>16. BaseRunning'
  BY <1>1, <1>2, <1>3, <1>4, <1>6, <1>8 DEF IInv, BaseRunning
<1>17. SlotOwners'
  <2>1. \A j \in Slot : task_ptr[j] # cpu
    BY <1>1 DEF IInv, SlotOwners, SchedPc, NoTask, Task
  <2>2. ASSUME NEW j \in Slot, task_ptr[j] # NoTask
        PROVE  /\ task_ptr[j] \in Created /\ task_ptr[j] # n
               /\ state'[task_ptr[j]] = state[task_ptr[j]]
               /\ kstack'[task_ptr[j]][0] = kstack[task_ptr[j]][0]
    <3>1. task_ptr[j] \in Created
      BY <2>2 DEF IInv, SlotOwners
    <3>2. task_ptr[j] \in Task /\ task_ptr[j] # n /\ task_ptr[j] # cpu
      BY <1>2, <1>3, <2>1, <3>1
    <3> QED BY <1>1, <1>4, <1>6, <3>1, <3>2
  <2> QED BY <1>3, <1>7, <2>2 DEF IInv, SlotOwners
<1> QED
  BY <1>9, <1>11, <1>12, <1>13, <1>14, <1>15, <1>16, <1>17 DEF IInv

-----------------------------------------------------------------------------
(***************************************************************************)
(* The theorems.                                                           *)
(***************************************************************************)

\* main() starts with nothing blocked, nothing stacked and no timer armed.
LEMMA InitIInv ==
  ASSUME Init
  PROVE  IInv
<1> USE ConstantsAssumption DEF ConstantsAssumption, Init
<1>1. TypeOK
  <2>1. 0 \in Task /\ 0 \in Level /\ Free \in Int
    BY DEF Task, Level, Free
  <2>2. ASSUME NEW a \in Int
        PROVE  NewStack("run", a) \in [Level -> Frame]
    BY DEF NewStack, Dead, Frame, Pc, TaskPc
  <2>3. kstack \in [Task -> [Level -> Frame]]
    <3>1. kstack = [t \in Task |-> NewStack("run", IF t = 0 THEN BootForks ELSE 0)]
      OBVIOUS
    <3>2. \A t \in Task : (IF t = 0 THEN BootForks ELSE 0) \in Int
      OBVIOUS
    <3> QED BY <2>2, <3>1, <3>2
  <2>4. n_tasks \in 1 .. N_TASKS /\ depth \in [Task -> Level]
        /\ state \in [Task -> {"RUNNING", "BLOCKED", "ZOMBIE"}]
        /\ preempt_count \in [Task -> Nat]
    BY <2>1
  <2>5. counter \in [Task -> Int] /\ priority \in [Task -> Int]
        /\ remaining \in [Slot -> Int] /\ task_ptr \in [Slot -> Task \cup {NoTask}]
    BY <2>1
  <2> QED BY <2>1, <2>3, <2>4, <2>5 DEF TypeOK
<1>2. Created = {0} /\ 0 \in Level
  BY DEF Created, Task, Level
<1>3. \A t \in Task : depth[t] = 0 /\ kstack[t][0].pc = "run"
                      /\ \A l \in Level : kstack[t][l].pc = "run"
  BY <1>2 DEF NewStack, Dead
<1>4. 0 \in Task
  BY DEF Task
<1> QED
  BY <1>1, <1>2, <1>3, <1>4
     DEF IInv, PreemptHeld, StackShape, CurrentRuns, OffCpuParked,
         TargetRunning, SlotArgs, BaseRunning, SlotOwners, MaskedInExit, Top,
         DisabledPc, Level

\* Every step of the scheduler, its callers and the timer interrupt keeps the
\* inductive invariant.
LEMMA NextIInv ==
  ASSUME IInv, [Next]_vars
  PROVE  IInv'
<1>1. CASE MainFork \/ SyscallFork
  BY <1>1, ForkCallStep
<1>2. CASE KernelForkNoPage
  BY <1>2, ForkNoPageStep
<1>3. CASE KernelForkCreate
  BY <1>3, ForkCreateStep
<1>4. CASE KernelForkReturn \/ EndOfSched
  BY <1>4, ForkReturnStep
<1>5. CASE MainSchedule
  BY <1>5, YieldStep
<1>6. CASE Schedule
  BY <1>6, ScheduleStep
<1>7. CASE ScheduleEnter
  BY <1>7, ScheduleEnterStep
<1>8. CASE CheckTimers
  BY <1>8, CheckTimersStep
<1>9. CASE PickNext
  BY <1>9, PickNextStep
<1>10. CASE RefillCounters
  BY <1>10, RefillStep
<1>11. CASE SwitchToSelf
  BY <1>11, SwitchToSelfStep
<1>12. CASE SwitchTo
  BY <1>12, SwitchToStep
<1>13. CASE CpuSwitchTo
  BY <1>13, CpuSwitchToStep
<1>14. CASE ScheduleReturn
  BY <1>14, ScheduleReturnStep
<1>15. CASE RegisterCall \/ RegisterScan \/ RegisterArm
  BY <1>15, RegisterWalkStep
<1>16. CASE RegisterOwn
  BY <1>16, RegisterOwnStep
<1>17. CASE RegisterBlock
  BY <1>17, RegisterBlockStep
<1>18. CASE ExitTaskCall
  BY <1>18, ExitCallStep
<1>19. CASE ExitTaskZombie
  BY <1>19, ExitZombieStep
<1>20. CASE ExitTaskEnable
  BY <1>20, ExitEnableStep
<1>21. CASE SetTaskPriority
  BY <1>21, SetPriorityStep
<1>22. CASE TickReturn
  BY <1>22, TickReturnStep
<1>23. CASE TickPreempt
  BY <1>23, TickPreemptStep
<1>24. CASE IrqReturn
  BY <1>24, IrqReturnStep
<1>25. CASE UNCHANGED vars
  BY <1>25, QuietStep
     DEF vars, cpuVars, taskVars, stackVars, timerVars, IInv, TypeOK
<1> QED
  BY <1>1, <1>2, <1>3, <1>4, <1>5, <1>6, <1>7, <1>8, <1>9, <1>10, <1>11, <1>12,
     <1>13, <1>14, <1>15, <1>16, <1>17, <1>18, <1>19, <1>20, <1>21, <1>22,
     <1>23, <1>24, <1>25
     DEF Next, KernelStep, TaskStep, Tick

\* The inductive invariant holds in every reachable state of the scheduler.
THEOREM Invariance == Spec => []IInv
BY InitIInv, NextIInv, PTL DEF Spec

\* Types; in particular preempt_count of no task ever goes below zero.
THEOREM TypeCorrect == Spec => []TypeOK
<1>1. IInv => TypeOK
  BY DEF IInv
<1> QED BY <1>1, Invariance, PTL

\* Every task other than `current' has preemption disabled, so that a tick in
\* the middle of switch_to() changes nothing but counters.
THEOREM PreemptionSafe == Spec => []SwitchedOutDisabled
<1>1. IInv => SwitchedOutDisabled
  <2> SUFFICES ASSUME IInv, NEW t \in Created, t # current
               PROVE  preempt_count[t] > 0
    BY DEF SwitchedOutDisabled
  <2>1. Top(t).pc \in DisabledPc
    BY DEF IInv, CurrentRuns, OffCpuParked, DisabledPc
  <2> QED BY <2>1 DEF IInv, PreemptHeld
<1> QED BY <1>1, Invariance, PTL

\* kernel_fork() and exit_task() are not switched out inside their critical
\* sections.
THEOREM CriticalSectionsHold == Spec => []CriticalSectionsRun
<1>1. IInv => CriticalSectionsRun
  BY DEF IInv, CurrentRuns, OffCpuParked, CriticalSectionsRun
<1> QED BY <1>1, Invariance, PTL

\* IRQs are unmasked whenever the core changes stacks.
THEOREM SwitchesUnmasked == Spec => []SwitchUnmasked
<1>1. IInv => SwitchUnmasked
  BY CpuFacts DEF SwitchUnmasked, At
<1> QED BY <1>1, Invariance, PTL

\* check_timers() never writes through a pointer to a task that has exited.
THEOREM TimersPointToLiving == Spec => []TimerOwnersAlive
<1>1. IInv => TimerOwnersAlive
  <2> SUFFICES ASSUME IInv, NEW i \in Slot, task_ptr[i] # NoTask
               PROVE  /\ task_ptr[i] \in Created
                      /\ state[task_ptr[i]] # "ZOMBIE"
                      /\ \A j \in Slot : task_ptr[j] = task_ptr[i] => i = j
    BY DEF TimerOwnersAlive
  <2> QED BY DEF IInv, SlotOwners, BaseRunning
<1> QED BY <1>1, Invariance, PTL

\* A step does not revive an exited task: the stores to state are those of
\* check_timers() to slot owners, of register_one_hit() and exit_task() to the
\* running task, and of kernel_fork() to a new entry.
LEMMA ZombieStays ==
  ASSUME IInv, [Next]_vars, NEW t \in Created, state[t] = "ZOMBIE"
  PROVE  state'[t] = "ZOMBIE" /\ t \in Created' /\ (cpu # t => cpu' # t)
<1>0. t \in Task /\ state \in [Task -> {"RUNNING", "BLOCKED", "ZOMBIE"}]
  BY DEF Created, IInv, TypeOK
<1>1. CASE CheckTimers
  <2>1. \/ state' = state
        \/ /\ task_ptr[Arg] # NoTask /\ Arg \in Slot
           /\ state' = [state EXCEPT ![task_ptr[Arg]] = "RUNNING"]
    BY <1>1, CpuFacts DEF CheckTimers, CheckTimer, Expired, At
  <2>2. \A i \in Slot : task_ptr[i] # NoTask => task_ptr[i] # t
    BY DEF IInv, SlotOwners, BaseRunning
  <2> QED BY <1>0, <1>1, <2>1, <2>2 DEF CheckTimers, Created, cpuVars
<1>2. CASE RegisterBlock
  <2>1. current # t
    BY <1>2, CpuFacts, CpuRunning DEF RegisterBlock, At
  <2> QED BY <1>0, <1>2, <2>1 DEF RegisterBlock, Created, cpuVars
<1>3. CASE ExitTaskZombie
  BY <1>0, <1>3 DEF ExitTaskZombie, Created, cpuVars
<1>4. CASE KernelForkCreate
  BY <1>0, <1>4 DEF KernelForkCreate, Created, Task, cpuVars, IInv, TypeOK
<1>5. CASE CpuSwitchTo
  <2>1. state[Arg] = "RUNNING"
    BY <1>5 DEF CpuSwitchTo, At, Arg, IInv, TargetRunning
  <2> QED BY <1>5, <2>1 DEF CpuSwitchTo, Created, taskVars
<1>6. CASE \/ MainFork \/ SyscallFork \/ KernelForkNoPage \/ KernelForkReturn
           \/ EndOfSched \/ MainSchedule \/ Schedule \/ ScheduleEnter
           \/ PickNext \/ RefillCounters \/ SwitchToSelf \/ SwitchTo
           \/ ScheduleReturn \/ RegisterCall \/ RegisterScan \/ RegisterArm
           \/ RegisterOwn \/ ExitTaskCall \/ ExitTaskEnable \/ SetTaskPriority
           \/ TickReturn \/ TickPreempt \/ IrqReturn \/ UNCHANGED vars
  <2>1. UNCHANGED <<cpu, n_tasks, state>>
    BY <1>6
       DEF MainFork, SyscallFork, KernelForkCall, KernelForkNoPage,
           KernelForkReturn, EndOfSched, MainSchedule, Schedule, ScheduleEnter,
           PickNext, RefillCounters, SwitchToSelf, SwitchTo, ScheduleReturn,
           RegisterCall, RegisterScan, RegisterArm, RegisterOwn, ExitTaskCall,
           ExitTaskEnable, SetTaskPriority, TickReturn, TickPreempt, IrqReturn,
           vars, cpuVars, taskVars
  <2> QED BY <2>1 DEF Created
<1> QED
  BY <1>1, <1>2, <1>3, <1>4, <1>5, <1>6 DEF Next, KernelStep, TaskStep, Tick

\* exit_task() never returns: an exited task stays a zombie, is not switched to
\* again once it is off the core, and never gets back to its own code.
THEOREM ExitForever == Spec => ExitIsFinal
<1>1. ASSUME IInv, [Next]_vars, NEW t \in Created, state[t] = "ZOMBIE"
      PROVE  /\ state'[t] = "ZOMBIE" /\ (cpu # t => cpu' # t)
             /\ kstack'[t][0].pc # "run"
  BY <1>1, ZombieStays, NextIInv DEF IInv, BaseRunning
<1>2. IInv /\ [Next]_vars =>
        [\A t \in Created : state[t] = "ZOMBIE" =>
           /\ state'[t] = "ZOMBIE"
           /\ cpu # t => cpu' # t
           /\ kstack'[t][0].pc # "run"]_vars
  BY <1>1
<1> QED BY <1>2, Invariance, PTL DEF Spec, ExitIsFinal
=============================================================================
