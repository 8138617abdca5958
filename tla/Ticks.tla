------------------------------- MODULE Ticks -------------------------------
(***************************************************************************)
(* Ticks: where the scheduler's ticks come from.  main() arms the system   *)
(* timer and the ARM generic timer, unmasks IRQs and programs the GIC      *)
(* (src/src/kernel.c, irq.c); whether the machine is a board or QEMU is    *)
(* found out by waiting for a tick of the system timer.  handle_irq() and  *)
(* the two timer handlers re-arm what fired (irq.c, system_timer.c,        *)
(* generic_timer.c).                                                       *)
(*                                                                         *)
(* Time is the system timer's counter clo, scaled, with its 32-bit wrap as *)
(* ClockMod.  It advances between any two steps of the core, by at most    *)
(* MaxLag units; while the kernel keeps IRQs masked, by any amount.        *)
(***************************************************************************)
EXTENDS Integers

CONSTANTS
  ClockMod,        \* values of the counter: 2^32
  TickInterval,    \* TICK_INTERVAL, 0.2 s
  GenericInterval, \* set_timer(): a tenth of cntfrq, 0.1 s
  BootClo,         \* what the counter may show when main() arms the timer
  MaxLag,          \* bound: units that pass between two steps of the core
  Stray            \* other interrupts that are raised and that the firmware
                   \* left enabled

SYSTEM_TIMER_IRQ_1 == 97
ARM_GENERIC_TIMER  == 30

ASSUME TicksAssumption ==
  /\ ClockMod \in Nat /\ TickInterval \in Nat /\ GenericInterval \in Nat \ {0}
  /\ GenericInterval <= TickInterval
  /\ MaxLag \in Nat \ {0}
  /\ 4 * MaxLag < TickInterval  \* a handler returns before the next match
  /\ 3 * TickInterval < ClockMod
  /\ BootClo \subseteq 0 .. ClockMod - 1
  /\ Stray \subseteq Nat \ {SYSTEM_TIMER_IRQ_1, ARM_GENERIC_TIMER}

VARIABLES
  platform,    \* "rpi4", or "qemu", whose system timer raises no interrupt
  clo,         \* system timer: counter,
  c1,          \* compare register 1,
  match,       \* and bit 1 of cs, set by a match until software clears it
  gleft,       \* generic timer: units until its condition holds, or Off
  forwarding,  \* the distributor and the CPU interface are enabled
  targets,     \* GICD_IRQ_TARGET as the set of its <<word, bit>> set
  enables,     \* GICD_ISR_ENABLE, likewise
  active,      \* interrupts acknowledged and not ended
  masked,      \* PSTATE.I
  pc,          \* control point of main()
  startTime,   \* local of wait_time(), 0 when it is over
  hpc,         \* control point of handle_irq(), "idle" outside
  irqAck,      \* local of handle_irq(), and
  reg,         \* the counter value handle_timer_c0_ISR() has read; 0 outside
  tick_occured,
  lag,         \* units since the last step of the core
  since        \* units since a timer was last re-armed, for the properties

timers == <<clo, c1, match, gleft>>
gic    == <<forwarding, targets, enables, active>>
vars   == <<platform, timers, gic, masked, pc, startTime, hpc, irqAck, reg,
            tick_occured, lag, since>>

Off == -1

-----------------------------------------------------------------------------
(***************************************************************************)
(* The hardware.                                                           *)
(***************************************************************************)
\* The counter advances; a compare register that equals it sets its flag, and
\* the flag stays.  Only a kernel that runs masked is not bound by MaxLag.
Clock ==
  /\ lag < MaxLag \/ (pc = "kernel" /\ hpc = "idle" /\ masked)
  /\ clo' = (clo + 1) % ClockMod
  /\ match' = (match \/ clo' = c1)
  /\ gleft' = IF gleft > 0 THEN gleft - 1 ELSE gleft
  /\ lag' = IF lag < MaxLag THEN lag + 1 ELSE lag
  /\ since' = IF since < TickInterval THEN since + 1 ELSE since
  /\ UNCHANGED <<platform, c1, gic, masked, pc, startTime, hpc, irqAck, reg,
                 tick_occured>>

\* Interrupt lines, all level sensitive.
Line(id) ==
  CASE id = SYSTEM_TIMER_IRQ_1 -> platform = "rpi4" /\ match
    [] id = ARM_GENERIC_TIMER  -> gleft = 0
    [] OTHER                   -> id \in Stray

\* The register bits that enable an interrupt and send it to cpu 0.  The
\* generic timer's interrupt is private to the core and needs no target.
Enabled(id)  == id \in Stray \/ <<id \div 32, id % 32>> \in enables
Targeted(id) == \/ id \in Stray \/ id < 32
                \/ <<id \div 4, (id % 4) * 8>> \in targets

\* What the GIC signals.  An interrupt that was not ended holds back the
\* others, which have the same priority.
Deliverable ==
  {id \in {SYSTEM_TIMER_IRQ_1, ARM_GENERIC_TIMER} \cup Stray :
     forwarding /\ active = {} /\ Line(id) /\ Enabled(id) /\ Targeted(id)}

-----------------------------------------------------------------------------
(***************************************************************************)
(* main() from system_timer_init() to the end of                           *)
(* enable_interrupt_controller(), and the kernel after it.                 *)
(***************************************************************************)
\* main() runs while no interrupt is being handled or about to be taken.
MainRuns(at) ==
  /\ pc = at /\ hpc = "idle"
  /\ masked \/ Deliverable = {}
  /\ lag' = 0

system_timer_init ==
  /\ MainRuns("system_timer_init")
  /\ c1' = (clo + TickInterval) % ClockMod
  /\ pc' = "generic_timer_init"
  /\ UNCHANGED <<platform, clo, match, gleft, gic, masked, startTime, hpc,
                 irqAck, reg, tick_occured, since>>

generic_timer_init ==
  /\ MainRuns("generic_timer_init")
  /\ gleft' = GenericInterval
  /\ pc' = "enable_irq"
  /\ UNCHANGED <<platform, clo, c1, match, gic, masked, startTime, hpc, irqAck,
                 reg, tick_occured, since>>

enable_irq ==
  /\ MainRuns("enable_irq")
  /\ masked' = FALSE
  /\ pc' = "clear"
  /\ UNCHANGED <<platform, timers, gic, startTime, hpc, irqAck, reg,
                 tick_occured, since>>

\* First statement of enable_interrupt_controller().
ClearTickOccured ==
  /\ MainRuns("clear")
  /\ tick_occured' = FALSE
  /\ pc' = "target_system"
  /\ UNCHANGED <<platform, timers, gic, masked, startTime, hpc, irqAck, reg, since>>

\* assignTargets(isrId, targetId) and enableISR(isrId): one bit of one word.
TargetBit(isrId, targetId) == <<isrId \div 4, (isrId % 4) * 8 + targetId>>
EnableBit(isrId) == <<isrId \div 32, isrId % 32>>

assignTargets(isrId, at, next) ==
  /\ MainRuns(at)
  /\ targets' = targets \cup {TargetBit(isrId, 0)}
  /\ pc' = next
  /\ UNCHANGED <<platform, timers, forwarding, enables, active, masked,
                 startTime, hpc, irqAck, reg, tick_occured, since>>

enableISR(isrId, at, next) ==
  /\ MainRuns(at)
  /\ enables' = enables \cup {EnableBit(isrId)}
  /\ pc' = next
  /\ UNCHANGED <<platform, timers, forwarding, targets, active, masked,
                 startTime, hpc, irqAck, reg, tick_occured, since>>

\* wait_time(TICK_INTERVAL * 2): the sum is a uint32_t.
WaitStart ==
  /\ MainRuns("wait")
  /\ startTime' = clo
  /\ pc' = "poll"
  /\ UNCHANGED <<platform, timers, gic, masked, hpc, irqAck, reg, tick_occured, since>>

Mut_WaitOver_short == clo >= (startTime + TickInterval \div 2) % ClockMod

Mut_WaitOver_equal == clo = (startTime + 2 * TickInterval) % ClockMod

WaitOver == clo >= (startTime + 2 * TickInterval) % ClockMod

WaitPoll ==
  /\ MainRuns("poll")
  /\ IF WaitOver THEN pc' = "probe" /\ startTime' = 0
                 ELSE UNCHANGED <<pc, startTime>>
  /\ UNCHANGED <<platform, timers, gic, masked, hpc, irqAck, reg, tick_occured,
                 since>>

\* if (!tick_occured): the QEMU branch.
Probe ==
  /\ MainRuns("probe")
  /\ pc' = IF tick_occured THEN "kernel" ELSE "qemu"
  /\ UNCHANGED <<platform, timers, gic, masked, startTime, hpc, irqAck, reg,
                 tick_occured, since>>

\* The three registers "required for QEMU to work with IRQs".
EnableForwarding ==
  /\ MainRuns("qemu")
  /\ forwarding' = TRUE
  /\ pc' = "target_generic"
  /\ UNCHANGED <<platform, timers, targets, enables, active, masked, startTime,
                 hpc, irqAck, reg, tick_occured, since>>

\* The kernel masks IRQs by taking an exception or by disable_irq(), for as
\* long as it needs, and unmasks them again.
KernelMask ==
  /\ MainRuns("kernel")
  /\ masked' = ~masked
  /\ UNCHANGED <<platform, timers, gic, pc, startTime, hpc, irqAck, reg,
                 tick_occured, since>>

Main ==
  \/ system_timer_init \/ generic_timer_init \/ enable_irq \/ ClearTickOccured
  \/ assignTargets(SYSTEM_TIMER_IRQ_1, "target_system", "enable_system")
  \/ enableISR(SYSTEM_TIMER_IRQ_1, "enable_system", "wait")
  \/ WaitStart \/ WaitPoll \/ Probe \/ EnableForwarding
  \/ assignTargets(ARM_GENERIC_TIMER, "target_generic", "enable_generic")
  \/ enableISR(ARM_GENERIC_TIMER, "enable_generic", "kernel")
  \/ KernelMask

-----------------------------------------------------------------------------
(***************************************************************************)
(* handle_irq() and the timer handlers, with IRQs masked by the exception. *)
(***************************************************************************)
HandlerRuns(at, next) ==
  /\ hpc = at /\ hpc' = next
  /\ lag' = 0

TakeIrq ==
  /\ ~masked /\ Deliverable # {}
  /\ HandlerRuns("idle", "ack")
  /\ masked' = TRUE
  /\ UNCHANGED <<platform, timers, gic, pc, startTime, irqAck, reg,
                 tick_occured, since>>

\* irqAck & 0x2FF: bit 8 of the interrupt's number is lost.
IarId(ack) == (ack % 256) + 512 * ((ack \div 512) % 2)

\* The read of GICC_IAR, and the switch: other interrupts are only printed.
AckIrq ==
  \E id \in Deliverable :
    /\ HandlerRuns("ack", IF IarId(id) \in {SYSTEM_TIMER_IRQ_1, ARM_GENERIC_TIMER}
                          THEN "eoi" ELSE "return")
    /\ irqAck' = id
    /\ active' = active \cup {id}
    /\ UNCHANGED <<platform, timers, forwarding, targets, enables, masked, pc,
                   startTime, reg, tick_occured, since>>

NextHandler == IF IarId(irqAck) = SYSTEM_TIMER_IRQ_1 THEN "read_clo" ELSE "set_timer"

Mut_EndIrq ==
  /\ HandlerRuns("eoi", NextHandler)
  /\ UNCHANGED <<platform, timers, gic, masked, pc, startTime, irqAck, reg,
                 tick_occured, since>>

EndIrq ==
  /\ HandlerRuns("eoi", NextHandler)
  /\ active' = active \ {irqAck}
  /\ UNCHANGED <<platform, timers, forwarding, targets, enables, masked, pc,
                 startTime, irqAck, reg, tick_occured, since>>

Mut_ISR_ReadClo ==
  /\ HandlerRuns("read_clo", "write_c1")
  /\ tick_occured' = TRUE
  /\ reg' = c1
  /\ since' = 0
  /\ UNCHANGED <<platform, timers, gic, masked, pc, startTime, irqAck>>

\* handle_timer_c0_ISR(): notes the tick and reads the counter,
ISR_ReadClo ==
  /\ HandlerRuns("read_clo", "write_c1")
  /\ tick_occured' = TRUE
  /\ reg' = clo
  /\ since' = 0
  /\ UNCHANGED <<platform, timers, gic, masked, pc, startTime, irqAck>>

Mut_ISR_WriteC1 ==
  /\ HandlerRuns("write_c1", "write_cs")
  /\ c1' = reg + TickInterval
  /\ UNCHANGED <<platform, clo, match, gleft, gic, masked, pc, startTime,
                 irqAck, reg, tick_occured, since>>

\* sets the compare register relative to it,
ISR_WriteC1 ==
  /\ HandlerRuns("write_c1", "write_cs")
  /\ c1' = (reg + TickInterval) % ClockMod
  /\ UNCHANGED <<platform, clo, match, gleft, gic, masked, pc, startTime,
                 irqAck, reg, tick_occured, since>>

\* and clears the flag, in that order, before scheduler_tick().
ISR_WriteCs ==
  /\ HandlerRuns("write_cs", "scheduler_tick")
  /\ match' = FALSE
  /\ UNCHANGED <<platform, clo, c1, gleft, gic, masked, pc, startTime, irqAck,
                 reg, tick_occured, since>>

\* handle_generic_timer_irq() up to scheduler_tick(): set_timer().
GenericSetTimer ==
  /\ HandlerRuns("set_timer", "scheduler_tick")
  /\ gleft' = GenericInterval
  /\ since' = 0
  /\ UNCHANGED <<platform, clo, c1, match, gic, masked, pc, startTime, irqAck,
                 reg, tick_occured>>

\* scheduler_tick() is module Scheduler's; here it is one step.
SchedulerTick ==
  /\ HandlerRuns("scheduler_tick", "return")
  /\ UNCHANGED <<platform, timers, gic, masked, pc, startTime, irqAck, reg,
                 tick_occured, since>>

\* The exception return restores PSTATE, which had IRQs unmasked.
ReturnFromIrq ==
  /\ HandlerRuns("return", "idle")
  /\ masked' = FALSE
  /\ irqAck' = 0 /\ reg' = 0
  /\ UNCHANGED <<platform, timers, gic, pc, startTime, tick_occured, since>>

Handler ==
  \/ TakeIrq \/ AckIrq \/ EndIrq
  \/ ISR_ReadClo \/ ISR_WriteC1 \/ ISR_WriteCs \/ GenericSetTimer
  \/ SchedulerTick \/ ReturnFromIrq

-----------------------------------------------------------------------------
\* At system_timer_init() IRQs are masked; the firmware of a board, and not
\* QEMU, has enabled the GIC; cs may hold a flag from before.
Init ==
  /\ platform \in {"rpi4", "qemu"}
  /\ clo \in BootClo /\ c1 = 0 /\ match \in BOOLEAN
  /\ gleft = Off
  /\ forwarding = (platform = "rpi4")
  /\ targets = {} /\ enables = {} /\ active = {}
  /\ masked = TRUE
  /\ pc = "system_timer_init" /\ startTime = 0
  /\ hpc = "idle" /\ irqAck = 0 /\ reg = 0
  /\ tick_occured = FALSE
  /\ lag = 0 /\ since = TickInterval

Next == Clock \/ Main \/ Handler

\* The counter runs, and the core executes its next instruction.
Fairness == WF_vars(Clock) /\ WF_vars(Main \/ Handler)

Spec == Init /\ [][Next]_vars /\ Fairness

-----------------------------------------------------------------------------
(***************************************************************************)
(* Properties.                                                             *)
(***************************************************************************)

\* Types; every counter value is below the wrap.
TypeOK ==
  /\ platform \in {"rpi4", "qemu"}
  /\ {clo, c1, startTime, reg} \subseteq 0 .. ClockMod - 1
  /\ {match, forwarding, masked, tick_occured} \subseteq BOOLEAN
  /\ gleft \in Off .. GenericInterval
  /\ {targets, enables} \subseteq SUBSET (Nat \X Nat)
  /\ active \subseteq {SYSTEM_TIMER_IRQ_1, ARM_GENERIC_TIMER} \cup Stray
  /\ hpc = "idle" \/ active \subseteq {irqAck}
  /\ lag \in 0 .. MaxLag /\ since \in 0 .. TickInterval

\* Once armed, the system timer never stands past its compare value with the
\* flag clear, where it would not fire again until the counter wraps, 71
\* minutes later, however late handle_timer_c0_ISR() runs: outside the handler
\* the flag is set or the match is at most one interval ahead.
TimerArmed ==
  pc # "system_timer_init" /\ hpc = "idle" =>
    match \/ (c1 - clo) % ClockMod \in 1 .. TickInterval

\* The interval of the timer that is meant to drive each platform.
Interval == IF platform = "rpi4" THEN TickInterval ELSE GenericInterval

\* Ticks are a whole interval apart: one timer drives the scheduler, the
\* system timer on a board and the generic timer on QEMU ("enable system timer,
\* if it doesn't work then we're on QEMU"), and no interrupt is taken twice.
TicksSpaced ==
  [][hpc' # hpc /\ hpc \in {"read_clo", "set_timer"} => since >= Interval]_vars

\* On either platform the probe ends and main() goes on.
BootEnds == <>(pc = "kernel")

\* On either platform scheduler_tick() is called again and again: no
\* interrupt stays unacknowledged, unended or unarmed.  Scheduler assumes it.
TicksForever == []<>(hpc = "scheduler_tick")
=============================================================================
