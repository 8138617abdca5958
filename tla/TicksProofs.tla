---------------------------- MODULE TicksProofs ----------------------------
(***************************************************************************)
(* Proofs about the timers for every interval, lag and counter width: the  *)
(* system timer is never left behind, and ticks are an interval apart.     *)
(***************************************************************************)
EXTENDS Ticks, TLAPS

Timers == {SYSTEM_TIMER_IRQ_1, ARM_GENERIC_TIMER}

\* Units until the compare register matches, and since the counter showed s.
Dist       == (c1 - clo) % ClockMod
Elapsed(s) == (clo - s) % ClockMod

(***************************************************************************)
(* What the ticks' spacing depends on.                                     *)
(***************************************************************************)
\* No other interrupt is taken for a timer's by the mask 0x2FF.
StrayKnown == \A id \in Stray : IarId(id) \notin Timers

\* The end of wait_time() does not wrap.
WaitNoWrap == startTime + 2 * TickInterval < ClockMod

-----------------------------------------------------------------------------
(***************************************************************************)
(* The inductive invariant of the system timer.                            *)
(***************************************************************************)
\* Armed also inside the handlers.
Armed == pc # "system_timer_init" => match \/ Dist \in 1 .. TickInterval

\* How far the counter is past the value handle_timer_c0_ISR() has read.
Rearming ==
  /\ hpc = "write_c1" => since = Elapsed(reg) /\ since <= lag
  /\ hpc = "write_cs" => /\ since = Elapsed(reg) /\ since <= MaxLag + lag
                         /\ c1 = (reg + TickInterval) % ClockMod

ArmInv == TypeOK /\ Armed /\ Rearming

(***************************************************************************)
(* The inductive invariant of the spacing.                                 *)
(***************************************************************************)
\* An interrupt that handle_irq() did not end; nothing is delivered any more.
Stuck == active # {} /\ hpc # "eoi"

\* What is known at each point of handle_irq().
HandlerKnows ==
  /\ Stuck => hpc \in {"idle", "return"}
  /\ pc \in {"system_timer_init", "generic_timer_init", "enable_irq"} =>
       masked /\ hpc = "idle"
  /\ masked /\ hpc = "idle" =>
       pc \in {"system_timer_init", "generic_timer_init", "enable_irq", "kernel"}
  /\ hpc = "eoi" =>
       /\ active = {irqAck} /\ irqAck \in Timers
       /\ irqAck = SYSTEM_TIMER_IRQ_1 => platform = "rpi4" /\ match
       /\ irqAck = ARM_GENERIC_TIMER => platform = "qemu" /\ gleft = 0
  /\ hpc = "read_clo" => platform = "rpi4" /\ match
  /\ hpc \in {"write_c1", "write_cs"} => platform = "rpi4" /\ tick_occured
  /\ hpc = "set_timer" => platform = "qemu" /\ gleft = 0

\* A board is recognised: by the end of the wait its timer has ticked, so that
\* the generic timer's interrupt stays disabled.
BoardRecognised ==
  platform = "rpi4" =>
    /\ forwarding
    /\ pc \in {"enable_system", "wait", "poll", "probe"} =>
         TargetBit(SYSTEM_TIMER_IRQ_1, 0) \in targets
    /\ pc \in {"wait", "poll", "probe"} =>
         EnableBit(SYSTEM_TIMER_IRQ_1) \in enables
    /\ ~Stuck =>
         /\ EnableBit(ARM_GENERIC_TIMER) \notin enables
         /\ pc \notin {"qemu", "target_generic", "enable_generic"}
         /\ pc = "poll" => \/ tick_occured \/ match
                           \/ Elapsed(startTime) + Dist <= TickInterval
         /\ pc = "probe" => tick_occured

\* What is left until a timer fires makes up the interval since it was armed.
BoardSpaced ==
  platform = "rpi4" =>
    /\ pc = "system_timer_init" => since = TickInterval
    /\ pc # "system_timer_init" /\ hpc \notin {"write_c1", "write_cs"} =>
         IF match THEN since = TickInterval ELSE since + Dist >= TickInterval

QemuSpaced ==
  platform = "qemu" /\ gleft # Off => since + gleft >= GenericInterval

SpacedInv ==
  ArmInv /\ HandlerKnows /\ BoardRecognised /\ BoardSpaced /\ QemuSpaced

-----------------------------------------------------------------------------
(***************************************************************************)
(* Arithmetic modulo the counter's width.                                  *)
(***************************************************************************)
LEMMA Constants ==
  /\ ClockMod \in Nat /\ TickInterval \in Nat /\ GenericInterval \in Nat \ {0}
  /\ GenericInterval <= TickInterval
  /\ MaxLag \in Nat \ {0} /\ 4 * MaxLag < TickInterval
  /\ 3 * TickInterval < ClockMod
  /\ BootClo \subseteq 0 .. ClockMod - 1
  /\ Stray \subseteq Nat \ Timers
BY TicksAssumption DEF TicksAssumption, Timers

\* A number less than one turn above, or below, the counter's range.
LEMMA ModCases ==
  ASSUME NEW m \in Nat \ {0}, NEW x \in Int
  PROVE  /\ x % m \in 0 .. m - 1
         /\ x \in 0 .. m - 1 => x % m = x
         /\ x \in m .. 2 * m - 1 => x % m = x - m
         /\ x \in -m .. -1 => x % m = x + m
<1>1. x \div m \in Int /\ x = m * (x \div m) + (x % m) /\ x % m \in 0 .. m - 1
  OBVIOUS
<1> DEFINE q == x \div m
           r == x % m
<1>2. q \in Int /\ x = m * q + r /\ r \in 0 .. m - 1
  BY <1>1
<1> HIDE DEF q, r
<1>3. ASSUME NEW k \in Int, x \in m * k .. m * k + m - 1
      PROVE  q = k
  <2>1. ASSUME q > k PROVE FALSE
    <3>1. PICK e \in Nat : q = k + 1 + e
      <4>1. q - k - 1 \in Nat /\ q = k + 1 + (q - k - 1)
        BY <1>2, <2>1
      <4> QED BY <4>1
    <3>2. m * q = m * k + m + m * e /\ m * e \in Nat /\ m * k \in Int
      BY <3>1
    <3> QED BY <1>2, <1>3, <3>2
  <2>2. ASSUME q < k PROVE FALSE
    <3>1. PICK e \in Nat : q = k - 1 - e
      <4>1. k - q - 1 \in Nat /\ q = k - 1 - (k - q - 1)
        BY <1>2, <2>2
      <4> QED BY <4>1
    <3>2. m * q = m * k - m - m * e /\ m * e \in Nat /\ m * k \in Int
      BY <3>1
    <3> QED BY <1>2, <1>3, <3>2
  <2> QED BY <1>2, <2>1, <2>2
<1>4. x \in 0 .. m - 1 => q = 0
  BY <1>3
<1>5. x \in m .. 2 * m - 1 => q = 1
  BY <1>3
<1>6. x \in -m .. -1 => q = -1
  <2>1. m * (-1) = -m
    OBVIOUS
  <2> QED BY <1>3, <2>1
<1>7. /\ r \in 0 .. m - 1
      /\ x \in 0 .. m - 1 => r = x
      /\ x \in m .. 2 * m - 1 => r = x - m
      /\ x \in -m .. -1 => r = x + m
  BY <1>2, <1>4, <1>5, <1>6
<1> QED BY <1>7 DEF r

Counter == 0 .. ClockMod - 1

\* Addition to, and difference of, values of the counter.
LEMMA CounterSum ==
  ASSUME NEW x \in Counter, NEW k \in Counter
  PROVE  (x + k) % ClockMod = IF x + k < ClockMod THEN x + k ELSE (x + k) - ClockMod
<1> DEFINE s == x + k
<1>1. s \in Int /\ ClockMod \in Nat \ {0} /\ s \in 0 .. 2 * ClockMod - 2
  BY Constants DEF Counter
<1> HIDE DEF s
<1>2. /\ s \in 0 .. ClockMod - 1 => s % ClockMod = s
      /\ s \in ClockMod .. 2 * ClockMod - 1 => s % ClockMod = s - ClockMod
  BY <1>1, ModCases
<1>3. s % ClockMod = IF s < ClockMod THEN s ELSE s - ClockMod
  BY <1>1, <1>2
<1> QED BY <1>3 DEF s

LEMMA CounterDiff ==
  ASSUME NEW x \in Counter, NEW y \in Counter
  PROVE  (x - y) % ClockMod = IF x >= y THEN x - y ELSE x - y + ClockMod
<1> DEFINE s == x - y
<1>1. s \in Int /\ ClockMod \in Nat \ {0} /\ s \in -ClockMod .. ClockMod - 1
      /\ (x >= y <=> s >= 0)
  BY Constants DEF Counter
<1> HIDE DEF s
<1>2. /\ s \in 0 .. ClockMod - 1 => s % ClockMod = s
      /\ s \in -ClockMod .. -1 => s % ClockMod = s + ClockMod
  BY <1>1, ModCases
<1>3. s % ClockMod = IF x >= y THEN s ELSE s + ClockMod
  BY <1>1, <1>2
<1> QED BY <1>3 DEF s

LEMMA ModRange ==
  ASSUME NEW x \in Counter
  PROVE  (x + TickInterval) % ClockMod \in Counter
<1>1. TickInterval \in Counter
  BY Constants DEF Counter
<1> QED BY <1>1, CounterSum, Constants DEF Counter

\* One unit later the distance to a value ahead is one less, and the distance
\* from a value behind one more.
LEMMA CounterTick ==
  ASSUME NEW x \in Counter, NEW y, y = (x + 1) % ClockMod, NEW z \in Counter
  PROVE  /\ y \in Counter
         /\ (z - x) % ClockMod \in Counter /\ (x - z) % ClockMod \in Counter
         /\ (z - x) % ClockMod > 0 => (z - y) % ClockMod = ((z - x) % ClockMod) - 1
         /\ (z - x) % ClockMod = 1 => y = z
         /\ (x - z) % ClockMod < ClockMod - 1 =>
              (y - z) % ClockMod = ((x - z) % ClockMod) + 1
<1>1. 1 \in Counter
  BY Constants DEF Counter
<1>2. y = IF x + 1 < ClockMod THEN x + 1 ELSE (x + 1) - ClockMod
  BY <1>1, CounterSum
<1>3. y \in Counter
  BY <1>2, Constants DEF Counter
<1>4. /\ (z - x) % ClockMod = IF z >= x THEN z - x ELSE z - x + ClockMod
      /\ (x - z) % ClockMod = IF x >= z THEN x - z ELSE x - z + ClockMod
      /\ (z - y) % ClockMod = IF z >= y THEN z - y ELSE z - y + ClockMod
      /\ (y - z) % ClockMod = IF y >= z THEN y - z ELSE y - z + ClockMod
  BY <1>3, CounterDiff
<1> QED BY <1>2, <1>3, <1>4, Constants DEF Counter

\* A compare value one interval after r is the rest of the interval away.
LEMMA CounterRearm ==
  ASSUME NEW x \in Counter, NEW r \in Counter, (x - r) % ClockMod <= TickInterval,
         NEW c, c = (r + TickInterval) % ClockMod
  PROVE  c \in Counter /\ (c - x) % ClockMod = TickInterval - ((x - r) % ClockMod)
<1>1. TickInterval \in Counter
  BY Constants DEF Counter
<1>2. c = IF r + TickInterval < ClockMod THEN r + TickInterval
                                         ELSE (r + TickInterval) - ClockMod
  BY <1>1, CounterSum
<1>3. c \in Counter
  BY <1>1, <1>2, Constants DEF Counter
<1>4. /\ (x - r) % ClockMod = IF x >= r THEN x - r ELSE x - r + ClockMod
      /\ (c - x) % ClockMod = IF c >= x THEN c - x ELSE c - x + ClockMod
  BY <1>3, CounterDiff
<1> QED BY <1>2, <1>3, <1>4, Constants DEF Counter

-----------------------------------------------------------------------------
(***************************************************************************)
(* The system timer stays armed.                                           *)
(***************************************************************************)
\* Where each variable lies, one by one.
LEMMA TypeFacts ==
  ASSUME TypeOK
  PROVE  /\ platform \in {"rpi4", "qemu"}
         /\ clo \in Counter /\ c1 \in Counter /\ startTime \in Counter
         /\ reg \in Counter
         /\ match \in BOOLEAN /\ forwarding \in BOOLEAN
         /\ masked \in BOOLEAN /\ tick_occured \in BOOLEAN
         /\ gleft \in Off .. GenericInterval
         /\ targets \subseteq Nat \X Nat /\ enables \subseteq Nat \X Nat
         /\ active \subseteq Timers \cup Stray
         /\ hpc = "idle" \/ active \subseteq {irqAck}
         /\ lag \in 0 .. MaxLag /\ since \in 0 .. TickInterval
BY DEF TypeOK, Timers, Counter

LEMMA TypeNow ==
  ASSUME platform \in {"rpi4", "qemu"},
         clo \in Counter, c1 \in Counter, startTime \in Counter, reg \in Counter,
         match \in BOOLEAN, forwarding \in BOOLEAN,
         masked \in BOOLEAN, tick_occured \in BOOLEAN,
         gleft \in Off .. GenericInterval,
         targets \subseteq Nat \X Nat, enables \subseteq Nat \X Nat,
         active \subseteq Timers \cup Stray,
         hpc = "idle" \/ active \subseteq {irqAck},
         lag \in 0 .. MaxLag, since \in 0 .. TickInterval
  PROVE  TypeOK
BY Zenon DEF TypeOK, Timers, Counter

LEMMA TypeNext ==
  ASSUME platform' \in {"rpi4", "qemu"},
         clo' \in Counter, c1' \in Counter, startTime' \in Counter, reg' \in Counter,
         match' \in BOOLEAN, forwarding' \in BOOLEAN,
         masked' \in BOOLEAN, tick_occured' \in BOOLEAN,
         gleft' \in Off .. GenericInterval,
         targets' \subseteq Nat \X Nat, enables' \subseteq Nat \X Nat,
         active' \subseteq Timers \cup Stray,
         hpc' = "idle" \/ active' \subseteq {irqAck'},
         lag' \in 0 .. MaxLag, since' \in 0 .. TickInterval
  PROVE  TypeOK'
BY Zenon DEF TypeOK, Timers, Counter

LEMMA InitArm == Init => ArmInv
<1> SUFFICES ASSUME Init PROVE ArmInv
  OBVIOUS
<1>1. /\ clo \in Counter /\ c1 \in Counter /\ startTime \in Counter /\ reg \in Counter
      /\ gleft \in Off .. GenericInterval
      /\ lag \in 0 .. MaxLag /\ since \in 0 .. TickInterval
  BY Constants DEF Init, Counter, Off
<1>2. /\ match \in BOOLEAN /\ forwarding \in BOOLEAN
      /\ masked \in BOOLEAN /\ tick_occured \in BOOLEAN
  BY Zenon DEF Init
<1>3. TypeOK
  BY <1>1, <1>2, TypeNow DEF Init
<1>4. Armed /\ Rearming
  BY DEF Init, Armed, Rearming
<1> QED BY <1>3, <1>4 DEF ArmInv

\* What is delivered, and that nothing is before the last one was ended.
LEMMA DeliverableFacts ==
  ASSUME NEW id \in Deliverable
  PROVE  /\ active = {} /\ forwarding
         /\ id \in Timers \cup Stray
         /\ Line(id) /\ Enabled(id)
BY DEF Deliverable, Timers

\* The types of every step but the counter's and those that compute with it.
LEMMA PlainType ==
  ASSUME TypeOK, platform' = platform, clo' = clo, c1' = c1,
         startTime' \in {startTime, 0, clo}, reg' \in {reg, 0, clo},
         match' \in {match, FALSE}, gleft' \in {gleft, GenericInterval},
         forwarding' \in BOOLEAN, masked' \in BOOLEAN, tick_occured' \in BOOLEAN,
         targets' \subseteq Nat \X Nat, enables' \subseteq Nat \X Nat,
         active' \subseteq Timers \cup Stray,
         hpc' = "idle" \/ active' \subseteq {irqAck'},
         lag' = 0, since' \in {since, 0}
  PROVE  TypeOK'
<1>1. /\ startTime' \in Counter /\ reg' \in Counter
      /\ gleft' \in Off .. GenericInterval
      /\ lag' \in 0 .. MaxLag /\ since' \in 0 .. TickInterval
  <2>1. 0 \in Counter
    BY Constants DEF Counter
  <2> QED BY <2>1, TypeFacts, Constants DEF Off
<1>2. match' \in BOOLEAN
  BY TypeFacts, Zenon
<1>3. clo' \in Counter /\ c1' \in Counter /\ platform' \in {"rpi4", "qemu"}
  BY TypeFacts
<1> QED BY <1>1, <1>2, <1>3, TypeNext, Zenon

LEMMA BitsTyped ==
  \A id \in Timers : TargetBit(id, 0) \in Nat \X Nat /\ EnableBit(id) \in Nat \X Nat
BY DEF Timers, SYSTEM_TIMER_IRQ_1, ARM_GENERIC_TIMER, TargetBit, EnableBit

\* main() changes the types of nothing, and no timer but the one it arms.
LEMMA MainSteps ==
  ASSUME TypeOK, Main
  PROVE  /\ TypeOK' /\ hpc = "idle" /\ hpc' = hpc /\ lag' = 0
         /\ UNCHANGED <<platform, clo, match, active, irqAck, reg, since>>
         /\ \/ system_timer_init
            \/ pc # "system_timer_init" /\ c1' = c1
<1> /\ targets \subseteq Nat \X Nat /\ enables \subseteq Nat \X Nat
    /\ forwarding \in BOOLEAN /\ masked \in BOOLEAN /\ tick_occured \in BOOLEAN
    /\ active \subseteq Timers \cup Stray
  BY TypeFacts
<1> USE DEF MainRuns, timers, gic
<1>1. CASE system_timer_init
  <2>1. c1' \in Counter
    BY <1>1, TypeFacts, ModRange DEF system_timer_init
  <2>2. lag' \in 0 .. MaxLag
    BY <1>1, Constants DEF system_timer_init
  <2>3. TypeOK'
    BY <1>1, <2>1, <2>2, TypeFacts, TypeNext DEF system_timer_init
  <2> QED BY <1>1, <2>3 DEF system_timer_init
<1>2. CASE generic_timer_init
  BY <1>2, PlainType DEF generic_timer_init
<1>3. CASE enable_irq \/ ClearTickOccured \/ WaitStart \/ Probe \/ EnableForwarding
  BY <1>3, PlainType DEF enable_irq, ClearTickOccured, WaitStart, Probe, EnableForwarding
<1>4. CASE WaitPoll
  BY <1>4, PlainType DEF WaitPoll
<1>5. CASE KernelMask
  BY <1>5, PlainType DEF KernelMask
<1>6. ASSUME NEW id \in Timers, NEW here, NEW next, assignTargets(id, here, next),
             here # "system_timer_init"
      PROVE  /\ TypeOK' /\ hpc = "idle" /\ hpc' = hpc /\ lag' = 0
             /\ UNCHANGED <<platform, clo, match, active, irqAck, reg, since>>
             /\ pc # "system_timer_init" /\ c1' = c1
  BY <1>6, PlainType, BitsTyped DEF assignTargets
<1>7. ASSUME NEW id \in Timers, NEW here, NEW next, enableISR(id, here, next),
             here # "system_timer_init"
      PROVE  /\ TypeOK' /\ hpc = "idle" /\ hpc' = hpc /\ lag' = 0
             /\ UNCHANGED <<platform, clo, match, active, irqAck, reg, since>>
             /\ pc # "system_timer_init" /\ c1' = c1
  BY <1>7, PlainType, BitsTyped DEF enableISR
<1>8. SYSTEM_TIMER_IRQ_1 \in Timers /\ ARM_GENERIC_TIMER \in Timers
  BY DEF Timers
<1> HIDE DEF MainRuns
<1> QED BY <1>1, <1>2, <1>3, <1>4, <1>5, <1>6, <1>7, <1>8 DEF Main

LEMMA ClockType ==
  ASSUME TypeOK, Clock
  PROVE  TypeOK'
<1>1. clo' \in Counter
  BY TypeFacts, CounterTick DEF Clock
<1>2. match' \in BOOLEAN
  BY TypeFacts, Zenon DEF Clock
<1>3. /\ gleft' \in Off .. GenericInterval /\ lag' \in 0 .. MaxLag
      /\ since' \in 0 .. TickInterval
  BY TypeFacts, Constants DEF Clock, Off
<1> QED BY <1>1, <1>2, <1>3, TypeFacts, TypeNext DEF Clock, gic

LEMMA HandlerType ==
  ASSUME TypeOK, Handler
  PROVE  TypeOK'
<1> /\ targets \subseteq Nat \X Nat /\ enables \subseteq Nat \X Nat
    /\ forwarding \in BOOLEAN /\ masked \in BOOLEAN /\ tick_occured \in BOOLEAN
    /\ active \subseteq Timers \cup Stray
    /\ hpc = "idle" \/ active \subseteq {irqAck}
  BY TypeFacts
<1> USE PlainType DEF HandlerRuns, timers, gic
<1>1. CASE TakeIrq
  BY <1>1, DeliverableFacts DEF TakeIrq
<1>2. CASE AckIrq
  <2>1. PICK id \in Deliverable : active' = active \cup {id} /\ irqAck' = id
    BY <1>2 DEF AckIrq
  <2>2. active' = {id} /\ id \in Timers \cup Stray
    BY <2>1, DeliverableFacts
  <2> QED BY <1>2, <2>1, <2>2 DEF AckIrq
<1>3. CASE EndIrq
  BY <1>3 DEF EndIrq
<1>4. CASE ISR_ReadClo
  BY <1>4 DEF ISR_ReadClo
<1>5. CASE ISR_WriteC1
  <2>1. c1' \in Counter
    BY <1>5, TypeFacts, ModRange DEF ISR_WriteC1
  <2>2. lag' \in 0 .. MaxLag
    BY <1>5, Constants DEF ISR_WriteC1
  <2> QED BY <1>5, <2>1, <2>2, TypeFacts, TypeNext DEF ISR_WriteC1
<1>6. CASE ISR_WriteCs \/ GenericSetTimer
  BY <1>6 DEF ISR_WriteCs, GenericSetTimer
<1>7. CASE SchedulerTick
  BY <1>7 DEF SchedulerTick
<1>8. CASE ReturnFromIrq
  BY <1>8 DEF ReturnFromIrq
<1> QED BY <1>1, <1>2, <1>3, <1>4, <1>5, <1>6, <1>7, <1>8 DEF Handler

\* The counter moves: a match sets the flag, and the distances change by one.
LEMMA ClockDist ==
  ASSUME TypeOK, Clock
  PROVE  /\ Dist \in Counter /\ Dist' \in Counter
         /\ Dist > 0 => Dist' = Dist - 1
         /\ Dist = 1 => match'
         /\ match => match'
         /\ match' => match \/ Dist' = 0
         /\ \A s \in Counter :
              /\ Elapsed(s) \in Counter
              /\ Elapsed(s) < ClockMod - 1 => Elapsed(s)' = Elapsed(s) + 1
<1>1. clo \in Counter /\ c1 \in Counter /\ c1' = c1 /\ clo' = (clo + 1) % ClockMod
  BY TypeFacts DEF Clock
<1>2. /\ clo' \in Counter
      /\ Dist \in Counter
      /\ Dist > 0 => Dist' = Dist - 1
      /\ Dist = 1 => clo' = c1
  BY <1>1, CounterTick DEF Dist
<1>3. Dist' = IF c1 >= clo' THEN c1 - clo' ELSE (c1 - clo') + ClockMod
  BY <1>1, <1>2, CounterDiff DEF Dist
<1>4. Dist' \in Counter /\ (clo' = c1 => Dist' = 0)
  BY <1>1, <1>2, <1>3, Constants DEF Counter
<1>5. ASSUME NEW s \in Counter
      PROVE  /\ Elapsed(s) \in Counter
             /\ Elapsed(s) < ClockMod - 1 => Elapsed(s)' = Elapsed(s) + 1
  BY <1>1, CounterTick DEF Elapsed
<1>6. match' = (match \/ clo' = c1)
  BY DEF Clock
<1> QED BY <1>2, <1>4, <1>5, <1>6

LEMMA ClockArm ==
  ASSUME ArmInv, Clock
  PROVE  ArmInv'
<1> TypeOK /\ Armed /\ Rearming
  BY DEF ArmInv
<1>1. pc' = pc /\ hpc' = hpc /\ reg' = reg /\ c1' = c1
  BY DEF Clock
<1>2. Armed'
  BY <1>1, ClockDist, Constants DEF Armed, Counter
<1>3. Rearming'
  <2>1. ASSUME hpc \in {"write_c1", "write_cs"}, since = Elapsed(reg),
               since <= MaxLag + lag
        PROVE  lag' = lag + 1 /\ since' = since + 1 /\ Elapsed(reg)' = since + 1
    <3>1. lag < MaxLag /\ lag' = lag + 1
      BY <2>1 DEF Clock
    <3>2. since < TickInterval /\ since < ClockMod - 1
      BY <2>1, <3>1, TypeFacts, Constants
    <3> QED BY <2>1, <3>1, <3>2, TypeFacts, ClockDist DEF Clock
  <2>2. lag \in Nat /\ since \in Nat /\ MaxLag \in Nat
    BY TypeFacts, Constants
  <2>3. CASE hpc = "write_c1"
    <3>1. since = Elapsed(reg) /\ since <= lag
      BY <2>3 DEF Rearming
    <3>2. lag' = lag + 1 /\ since' = since + 1 /\ Elapsed(reg)' = since + 1
      BY <2>1, <2>2, <2>3, <3>1
    <3> QED BY <1>1, <2>2, <2>3, <3>1, <3>2 DEF Rearming, Elapsed
  <2>4. CASE hpc = "write_cs"
    <3>1. since = Elapsed(reg) /\ since <= MaxLag + lag
      BY <2>4 DEF Rearming
    <3>2. lag' = lag + 1 /\ since' = since + 1 /\ Elapsed(reg)' = since + 1
      BY <2>1, <2>4, <3>1
    <3>3. since' <= MaxLag + lag'
      BY <2>2, <3>1, <3>2
    <3> QED BY <1>1, <2>4, <3>2, <3>3 DEF Rearming, Elapsed
  <2> QED BY <1>1, <2>3, <2>4 DEF Rearming
<1> QED BY <1>2, <1>3, ClockType DEF ArmInv

LEMMA MainArm ==
  ASSUME ArmInv, Main
  PROVE  ArmInv'
<1> TypeOK /\ Armed /\ Rearming
  BY DEF ArmInv
<1>1. /\ TypeOK' /\ hpc = "idle" /\ hpc' = hpc
      /\ UNCHANGED <<clo, match, reg, since>>
      /\ system_timer_init \/ (pc # "system_timer_init" /\ c1' = c1)
  BY MainSteps
<1>2. Rearming'
  BY <1>1 DEF Rearming
<1>3. CASE system_timer_init
  <2>1. clo \in Counter /\ c1' = (clo + TickInterval) % ClockMod /\ clo' = clo
    BY <1>3, TypeFacts DEF system_timer_init
  <2>2. (clo - clo) % ClockMod = 0
    BY <2>1, CounterDiff DEF Counter
  <2>3. (c1' - clo) % ClockMod = TickInterval - 0
    BY <2>1, <2>2, CounterRearm, Constants
  <2>4. Dist' \in 1 .. TickInterval
    BY <2>1, <2>3, Constants DEF Dist
  <2> QED BY <1>1, <1>2, <2>4 DEF ArmInv, Armed
<1>4. CASE pc # "system_timer_init" /\ c1' = c1
  BY <1>1, <1>2, <1>4 DEF ArmInv, Armed, Dist
<1> QED BY <1>1, <1>3, <1>4

\* The two stores of handle_timer_c0_ISR() leave the match ahead.
LEMMA WriteArms ==
  ASSUME ArmInv, ISR_WriteC1 \/ ISR_WriteCs
  PROVE  /\ since \in 0 .. 2 * MaxLag
         /\ Dist' = TickInterval - since /\ Dist' \in 1 .. TickInterval
<1> TypeOK /\ Armed /\ Rearming
  BY DEF ArmInv
<1>1. /\ clo \in Counter /\ reg \in Counter /\ lag \in 0 .. MaxLag
      /\ since \in 0 .. TickInterval
  BY TypeFacts
<1>2. /\ since = Elapsed(reg) /\ since <= MaxLag + lag
      /\ c1' = (reg + TickInterval) % ClockMod /\ clo' = clo
  BY <1>1, Constants DEF ISR_WriteC1, ISR_WriteCs, HandlerRuns, Rearming
<1>3. since \in 0 .. 2 * MaxLag
  BY <1>1, <1>2, Constants
<1>4. (clo - reg) % ClockMod = since /\ since <= TickInterval
  BY <1>1, <1>2 DEF Elapsed
<1>5. (c1' - clo) % ClockMod = TickInterval - since
  BY <1>1, <1>2, <1>4, CounterRearm
<1> QED BY <1>2, <1>3, <1>5, Constants DEF Dist

LEMMA HandlerArm ==
  ASSUME ArmInv, Handler
  PROVE  ArmInv'
<1> TypeOK /\ Armed /\ Rearming /\ TypeOK'
  BY HandlerType DEF ArmInv
<1>1. CASE ISR_ReadClo
  <2>1. /\ UNCHANGED <<clo, c1, match, pc>> /\ hpc' = "write_c1"
        /\ reg' = clo /\ since' = 0 /\ lag' = 0
    BY <1>1 DEF ISR_ReadClo, HandlerRuns, timers
  <2>2. (clo - clo) % ClockMod = 0
    BY TypeFacts, CounterDiff DEF Counter
  <2> QED BY <2>1, <2>2 DEF ArmInv, Armed, Rearming, Dist, Elapsed
<1>2. CASE ISR_WriteC1
  <2>1. /\ UNCHANGED <<clo, reg, since, match, pc>> /\ hpc = "write_c1"
        /\ hpc' = "write_cs" /\ lag' = 0 /\ c1' = (reg + TickInterval) % ClockMod
    BY <1>2 DEF ISR_WriteC1, HandlerRuns
  <2>2. since <= MaxLag + 0
    BY <2>1, TypeFacts, Constants DEF Rearming
  <2> QED BY <1>2, <2>1, <2>2, WriteArms DEF ArmInv, Armed, Rearming, Elapsed
<1>3. CASE ISR_WriteCs
  BY <1>3, WriteArms DEF ISR_WriteCs, HandlerRuns, ArmInv, Armed, Rearming
<1>4. CASE TakeIrq \/ AckIrq \/ EndIrq \/ GenericSetTimer \/ SchedulerTick
           \/ ReturnFromIrq
  <2>1. /\ UNCHANGED <<clo, c1, match, pc>>
        /\ hpc' \notin {"write_c1", "write_cs"}
    BY <1>4 DEF TakeIrq, AckIrq, EndIrq, NextHandler, GenericSetTimer, SchedulerTick,
       ReturnFromIrq, HandlerRuns, timers
  <2> QED BY <2>1 DEF ArmInv, Armed, Rearming, Dist
<1> QED BY <1>1, <1>2, <1>3, <1>4 DEF Handler

LEMMA NextArm == ArmInv /\ [Next]_vars => ArmInv'
<1> SUFFICES ASSUME ArmInv, [Next]_vars PROVE ArmInv'
  OBVIOUS
<1>1. CASE UNCHANGED vars
  BY <1>1 DEF ArmInv, TypeOK, Armed, Rearming, Dist, Elapsed, vars, timers, gic
<1> QED BY <1>1, ClockArm, MainArm, HandlerArm DEF Next

\* The timer's invariant, for every interval, lag and set of stray interrupts.
THEOREM ArmInvariance == Spec => []ArmInv
BY InitArm, NextArm, PTL DEF Spec

\* Types: in particular no register ever holds a value beyond the wrap.
THEOREM TypeCorrect == Spec => []TypeOK
<1>1. ArmInv => TypeOK
  BY DEF ArmInv
<1> QED BY <1>1, ArmInvariance, PTL

\* handle_timer_c0_ISR() never leaves the compare register behind the counter,
\* however late it runs and wherever the counter wraps.
THEOREM TimerStaysArmed == Spec => []TimerArmed
<1>1. ArmInv => TimerArmed
  BY DEF ArmInv, Armed, Dist, TimerArmed
<1> QED BY <1>1, ArmInvariance, PTL

-----------------------------------------------------------------------------
(***************************************************************************)
(* Ticks are an interval apart.                                            *)
(***************************************************************************)
\* The two timers' numbers survive the mask, and their register bits differ.
LEMMA TimerIds ==
  /\ IarId(SYSTEM_TIMER_IRQ_1) = SYSTEM_TIMER_IRQ_1
  /\ IarId(ARM_GENERIC_TIMER) = ARM_GENERIC_TIMER
  /\ SYSTEM_TIMER_IRQ_1 # ARM_GENERIC_TIMER
  /\ EnableBit(SYSTEM_TIMER_IRQ_1) # EnableBit(ARM_GENERIC_TIMER)
<1>1. 97 % 256 = 97 /\ 97 \div 512 = 0 /\ 30 % 256 = 30 /\ 30 \div 512 = 0 /\ 0 % 2 = 0
  OBVIOUS
<1>2. 97 \div 32 = 3 /\ 30 \div 32 = 0
  OBVIOUS
<1> QED BY <1>1, <1>2 DEF IarId, EnableBit, SYSTEM_TIMER_IRQ_1, ARM_GENERIC_TIMER

\* The bits main() sets are those the GIC looks at.
LEMMA SystemTimerBits ==
  /\ <<SYSTEM_TIMER_IRQ_1 \div 32, SYSTEM_TIMER_IRQ_1 % 32>> = EnableBit(SYSTEM_TIMER_IRQ_1)
  /\ <<SYSTEM_TIMER_IRQ_1 \div 4, (SYSTEM_TIMER_IRQ_1 % 4) * 8>>
       = TargetBit(SYSTEM_TIMER_IRQ_1, 0)
<1>1. 97 % 4 = 1
  OBVIOUS
<1> QED BY <1>1 DEF EnableBit, TargetBit, SYSTEM_TIMER_IRQ_1

LEMMA InitSpaced == Init => SpacedInv
<1> SUFFICES ASSUME Init PROVE SpacedInv
  OBVIOUS
<1>1. HandlerKnows /\ QemuSpaced
  BY DEF Init, HandlerKnows, Stuck, QemuSpaced
<1>2. BoardRecognised /\ BoardSpaced
  BY DEF Init, BoardRecognised, BoardSpaced, Stuck
<1> QED BY <1>1, <1>2, InitArm DEF SpacedInv

\* Time passes: what the timers have left shrinks as the interval grows.
LEMMA ClockSpaced ==
  ASSUME SpacedInv, Clock
  PROVE  SpacedInv'
<1> ArmInv /\ HandlerKnows /\ BoardRecognised /\ BoardSpaced /\ QemuSpaced
    /\ TypeOK /\ Armed
  BY DEF SpacedInv, ArmInv
<1>1. /\ UNCHANGED <<platform, c1, forwarding, targets, enables, active, masked,
                     pc, startTime, hpc, irqAck, reg, tick_occured>>
      /\ gleft' = IF gleft > 0 THEN gleft - 1 ELSE gleft
      /\ since' = IF since < TickInterval THEN since + 1 ELSE since
  BY DEF Clock, gic
<1>2. /\ Dist \in Nat /\ Dist' \in Nat
      /\ Dist > 0 => Dist' = Dist - 1
      /\ Dist = 1 => match'
      /\ match => match'
      /\ match' => match \/ Dist' = 0
  BY ClockDist DEF Counter
<1>3. since \in Nat /\ since <= TickInterval /\ gleft \in Off .. GenericInterval
  BY TypeFacts, Constants
<1>4. Stuck' = Stuck
  BY <1>1 DEF Stuck
<1>5. HandlerKnows'
  BY <1>1, <1>2, <1>3, <1>4 DEF HandlerKnows
<1>6. ASSUME pc = "poll", Elapsed(startTime) + Dist <= TickInterval, ~match, ~match'
      PROVE  Elapsed(startTime)' + Dist' <= TickInterval
  <2>1. Dist \in 1 .. TickInterval
    BY <1>6 DEF Armed
  <2>2. startTime \in Counter /\ startTime' = startTime
    BY <1>1, TypeFacts
  <2>3. Elapsed(startTime) \in Counter /\ Elapsed(startTime) < ClockMod - 1
    BY <1>6, <2>1, <2>2, ClockDist, Constants DEF Counter
  <2>4. Elapsed(startTime)' = Elapsed(startTime) + 1
    BY <2>2, <2>3, ClockDist DEF Elapsed
  <2> QED BY <1>2, <1>6, <2>1, <2>3, <2>4, Constants DEF Counter
<1>7. BoardRecognised'
  BY <1>1, <1>2, <1>4, <1>6 DEF BoardRecognised
<1>8. BoardSpaced'
  <2>1. ASSUME pc # "system_timer_init", ~match PROVE Dist > 0
    BY <1>2, <2>1, Constants DEF Armed
  <2>2. ASSUME since = TickInterval PROVE since' = TickInterval
    BY <1>1, <2>2, Constants
  <2>3. ASSUME since + Dist >= TickInterval, Dist > 0
        PROVE  /\ since' + Dist' >= TickInterval
               /\ Dist' = 0 => since' = TickInterval
    BY <1>1, <1>2, <1>3, <2>3, Constants
  <2>4. SUFFICES ASSUME platform = "rpi4", pc # "system_timer_init",
                        hpc \notin {"write_c1", "write_cs"}
                 PROVE  IF match' THEN since' = TickInterval
                                  ELSE since' + Dist' >= TickInterval
    BY <1>1, <2>2 DEF BoardSpaced
  <2>5. CASE match
    BY <1>2, <2>2, <2>4, <2>5 DEF BoardSpaced
  <2>6. CASE ~match
    BY <1>2, <2>1, <2>3, <2>4, <2>6 DEF BoardSpaced
  <2> QED BY <2>5, <2>6
<1>9. QemuSpaced'
  BY <1>1, <1>3, Constants DEF QemuSpaced, Off
<1> QED BY <1>5, <1>7, <1>8, <1>9, ClockArm DEF SpacedInv

\* handle_irq(): only the timer that drives the platform is ever acknowledged.
LEMMA HandlerSpaced ==
  ASSUME StrayKnown, SpacedInv, Handler
  PROVE  SpacedInv'
<1> ArmInv /\ HandlerKnows /\ BoardRecognised /\ BoardSpaced /\ QemuSpaced
    /\ TypeOK /\ Armed
  BY DEF SpacedInv, ArmInv
<1> USE DEF HandlerRuns, timers, gic
<1>1. CASE TakeIrq
  <2>1. active = {}
    BY <1>1, DeliverableFacts DEF TakeIrq
  <2>2. /\ UNCHANGED <<platform, timers, gic, pc, startTime, irqAck, reg, tick_occured,
                       since>>
        /\ hpc = "idle" /\ hpc' = "ack" /\ ~masked
    BY <1>1 DEF TakeIrq
  <2>3. HandlerKnows'
    BY <2>1, <2>2 DEF HandlerKnows, Stuck
  <2>4. BoardRecognised' /\ BoardSpaced' /\ QemuSpaced'
    BY <2>1, <2>2 DEF BoardRecognised, BoardSpaced, QemuSpaced, Stuck, Dist, Elapsed
  <2> QED BY <2>3, <2>4, HandlerArm DEF SpacedInv
<1>2. CASE AckIrq
  <2>1. PICK id \in Deliverable :
           /\ hpc = "ack"
           /\ hpc' = IF IarId(id) \in Timers THEN "eoi" ELSE "return"
           /\ irqAck' = id /\ active' = active \cup {id}
    BY <1>2 DEF AckIrq, Timers
  <2>2. UNCHANGED <<platform, timers, forwarding, targets, enables, masked, pc,
                    startTime, reg, tick_occured, since>>
    BY <1>2 DEF AckIrq
  <2>3. active = {} /\ id \in Timers \cup Stray /\ Line(id) /\ Enabled(id)
    BY DeliverableFacts
  <2>4. ~Stuck /\ active' = {id}
    BY <2>1, <2>3 DEF Stuck
  <2>5. CASE id = SYSTEM_TIMER_IRQ_1
    <3>1. platform = "rpi4" /\ match /\ hpc' = "eoi"
      BY <2>1, <2>3, <2>5, TimerIds DEF Line, Timers
    <3>2. HandlerKnows'
      BY <2>1, <2>2, <2>4, <2>5, <3>1, TimerIds DEF HandlerKnows, Stuck, Timers
    <3>3. BoardRecognised' /\ BoardSpaced' /\ QemuSpaced'
      BY <2>1, <2>2, <2>4, <3>1
         DEF BoardRecognised, BoardSpaced, QemuSpaced, Stuck, Dist, Elapsed
    <3> QED BY <3>2, <3>3, HandlerArm DEF SpacedInv
  <2>6. CASE id = ARM_GENERIC_TIMER
    <3>1. gleft = 0 /\ hpc' = "eoi"
      BY <2>1, <2>3, <2>6, TimerIds DEF Line, Timers
    <3>2. EnableBit(ARM_GENERIC_TIMER) \in enables
      BY <2>3, <2>6, Constants DEF Enabled, EnableBit, Timers
    <3>3. platform = "qemu"
      BY <2>4, <3>2, TypeFacts DEF BoardRecognised
    <3>4. HandlerKnows'
      BY <2>1, <2>2, <2>4, <2>6, <3>1, <3>3, TimerIds DEF HandlerKnows, Stuck, Timers
    <3>5. BoardRecognised' /\ BoardSpaced' /\ QemuSpaced'
      BY <2>2, <3>3 DEF BoardRecognised, BoardSpaced, QemuSpaced
    <3> QED BY <3>4, <3>5, HandlerArm DEF SpacedInv
  <2>7. CASE id \in Stray
    <3>1. hpc' = "return" /\ Stuck'
      BY <2>1, <2>4, <2>7 DEF StrayKnown, Stuck
    <3>2. HandlerKnows'
      BY <2>1, <2>2, <3>1 DEF HandlerKnows
    <3>3. BoardRecognised' /\ BoardSpaced' /\ QemuSpaced'
      BY <2>1, <2>2, <3>1 DEF BoardRecognised, BoardSpaced, QemuSpaced, Dist
    <3> QED BY <3>2, <3>3, HandlerArm DEF SpacedInv
  <2> QED BY <2>3, <2>5, <2>6, <2>7 DEF Timers
<1>3. CASE EndIrq
  <2>1. /\ UNCHANGED <<platform, timers, forwarding, targets, enables, masked, pc,
                       startTime, irqAck, reg, tick_occured, since>>
        /\ hpc = "eoi" /\ hpc' = NextHandler /\ active' = active \ {irqAck}
    BY <1>3 DEF EndIrq
  <2>2. active = {irqAck} /\ irqAck \in Timers
    BY <2>1 DEF HandlerKnows
  <2>3. active' = {} /\ ~Stuck /\ ~Stuck'
    BY <2>1, <2>2 DEF Stuck
  <2>4. \/ irqAck = SYSTEM_TIMER_IRQ_1 /\ hpc' = "read_clo"
        \/ irqAck = ARM_GENERIC_TIMER /\ hpc' = "set_timer"
    BY <2>1, <2>2, TimerIds DEF NextHandler, Timers
  <2>5. HandlerKnows'
    BY <2>1, <2>3, <2>4 DEF HandlerKnows
  <2>6. BoardRecognised' /\ BoardSpaced' /\ QemuSpaced'
    BY <2>1, <2>3, <2>4
       DEF BoardRecognised, BoardSpaced, QemuSpaced, Dist, Elapsed
  <2> QED BY <2>5, <2>6, HandlerArm DEF SpacedInv
<1>4. CASE ISR_ReadClo
  <2>1. /\ UNCHANGED <<platform, timers, gic, masked, pc, startTime, irqAck>>
        /\ hpc = "read_clo" /\ hpc' = "write_c1" /\ tick_occured' = TRUE
    BY <1>4 DEF ISR_ReadClo
  <2>2. /\ ~Stuck /\ ~Stuck' /\ platform = "rpi4" /\ pc # "system_timer_init"
    BY <2>1 DEF HandlerKnows, Stuck
  <2>3. HandlerKnows'
    BY <2>1, <2>2 DEF HandlerKnows
  <2>4. BoardRecognised' /\ BoardSpaced' /\ QemuSpaced'
    BY <2>1, <2>2 DEF BoardRecognised, BoardSpaced, QemuSpaced
  <2> QED BY <2>3, <2>4, HandlerArm DEF SpacedInv
<1>5. CASE ISR_WriteC1
  <2>1. /\ UNCHANGED <<platform, clo, match, gleft, gic, masked, pc, startTime,
                       irqAck, reg, tick_occured, since>>
        /\ hpc = "write_c1" /\ hpc' = "write_cs"
    BY <1>5 DEF ISR_WriteC1
  <2>2. /\ ~Stuck /\ ~Stuck' /\ platform = "rpi4" /\ pc # "system_timer_init"
        /\ tick_occured
    BY <2>1 DEF HandlerKnows, Stuck
  <2>3. HandlerKnows'
    BY <2>1, <2>2 DEF HandlerKnows
  <2>4. BoardRecognised' /\ BoardSpaced' /\ QemuSpaced'
    BY <2>1, <2>2 DEF BoardRecognised, BoardSpaced, QemuSpaced
  <2> QED BY <2>3, <2>4, HandlerArm DEF SpacedInv
<1>6. CASE ISR_WriteCs
  <2>1. /\ UNCHANGED <<platform, clo, c1, gleft, gic, masked, pc, startTime, irqAck,
                       reg, tick_occured, since>>
        /\ hpc = "write_cs" /\ hpc' = "scheduler_tick" /\ ~match'
    BY <1>6 DEF ISR_WriteCs
  <2>2. /\ ~Stuck /\ ~Stuck' /\ platform = "rpi4" /\ pc # "system_timer_init"
        /\ tick_occured
    BY <2>1 DEF HandlerKnows, Stuck
  <2>3. since' + Dist' >= TickInterval
    BY <1>6, <2>1, WriteArms, Constants
  <2>4. HandlerKnows'
    BY <2>1, <2>2 DEF HandlerKnows
  <2>5. BoardRecognised' /\ BoardSpaced' /\ QemuSpaced'
    BY <2>1, <2>2, <2>3 DEF BoardRecognised, BoardSpaced, QemuSpaced
  <2> QED BY <2>4, <2>5, HandlerArm DEF SpacedInv
<1>7. CASE GenericSetTimer
  <2>1. /\ UNCHANGED <<platform, clo, c1, match, gic, masked, pc, startTime, irqAck,
                       reg, tick_occured>>
        /\ hpc = "set_timer" /\ hpc' = "scheduler_tick"
        /\ gleft' = GenericInterval /\ since' = 0
    BY <1>7 DEF GenericSetTimer
  <2>2. ~Stuck' /\ platform = "qemu"
    BY <2>1 DEF HandlerKnows, Stuck
  <2>3. HandlerKnows'
    BY <2>1, <2>2 DEF HandlerKnows
  <2>4. BoardRecognised' /\ BoardSpaced' /\ QemuSpaced'
    BY <2>1, <2>2, Constants DEF BoardRecognised, BoardSpaced, QemuSpaced
  <2> QED BY <2>3, <2>4, HandlerArm DEF SpacedInv
<1>8. CASE SchedulerTick \/ ReturnFromIrq
  <2>1. /\ UNCHANGED <<platform, timers, gic, pc, startTime, tick_occured, since>>
        /\ hpc \in {"scheduler_tick", "return"} /\ hpc' \in {"return", "idle"}
        /\ hpc' = "idle" => ~masked'
    BY <1>8 DEF SchedulerTick, ReturnFromIrq
  <2>2. Stuck' = Stuck
    BY <2>1 DEF HandlerKnows, Stuck
  <2>3. HandlerKnows'
    BY <2>1, <2>2 DEF HandlerKnows
  <2>4. BoardRecognised' /\ BoardSpaced' /\ QemuSpaced'
    BY <2>1, <2>2 DEF BoardRecognised, BoardSpaced, QemuSpaced, Dist, Elapsed
  <2> QED BY <2>3, <2>4, HandlerArm DEF SpacedInv
<1> QED BY <1>1, <1>2, <1>3, <1>4, <1>5, <1>6, <1>7, <1>8 DEF Handler

\* The probe of a board: when the wait is over, the timer has matched since it
\* was armed, and the pending interrupt has been handled before main() goes on.
LEMMA ProbeWaits ==
  ASSUME SpacedInv, WaitNoWrap, WaitPoll, WaitOver, platform = "rpi4", ~Stuck
  PROVE  tick_occured
<1> HandlerKnows /\ BoardRecognised /\ TypeOK /\ Armed
  BY DEF SpacedInv, ArmInv
<1> USE DEF MainRuns
<1>1. pc = "poll" /\ hpc = "idle" /\ (masked \/ Deliverable = {})
  BY DEF WaitPoll
<1>2. ~masked /\ Deliverable = {}
  BY <1>1 DEF HandlerKnows
<1>3. active = {}
  BY <1>1 DEF Stuck
<1>4. ~match
  <2>1. SUFFICES ASSUME match PROVE SYSTEM_TIMER_IRQ_1 \in Deliverable
    BY <1>2
  <2>2. Line(SYSTEM_TIMER_IRQ_1)
    BY <2>1, TimerIds DEF Line
  <2>3. Enabled(SYSTEM_TIMER_IRQ_1)
    BY <1>1, SystemTimerBits DEF BoardRecognised, Enabled
  <2>4. Targeted(SYSTEM_TIMER_IRQ_1)
    BY <1>1, SystemTimerBits DEF BoardRecognised, Targeted
  <2> QED BY <1>3, <2>2, <2>3, <2>4 DEF Deliverable, BoardRecognised
<1>5. ~(Elapsed(startTime) + Dist <= TickInterval)
  <2>1. clo \in Counter /\ startTime \in Counter
    BY TypeFacts
  <2> DEFINE s == startTime + 2 * TickInterval
  <2>2. s \in 0 .. ClockMod - 1 /\ s \in Int /\ ClockMod \in Nat \ {0}
    BY <2>1, Constants DEF WaitNoWrap, Counter
  <2> HIDE DEF s
  <2>3. s % ClockMod = s
    BY <2>2, ModCases
  <2>4. (startTime + 2 * TickInterval) % ClockMod = startTime + 2 * TickInterval
    BY <2>3 DEF s
  <2>5. clo >= startTime + 2 * TickInterval
    BY <2>4 DEF WaitOver
  <2>6. Elapsed(startTime) = IF clo >= startTime THEN clo - startTime
                                                 ELSE clo - startTime + ClockMod
    BY <2>1, CounterDiff DEF Elapsed
  <2>7. pc # "system_timer_init" /\ Dist \in 1 .. TickInterval
    BY <1>1, <1>4 DEF Armed
  <2> QED BY <2>1, <2>5, <2>6, <2>7, Constants DEF Counter
<1> QED BY <1>1, <1>4, <1>5 DEF BoardRecognised

\* main(): nothing but its own arming touches the timers.
LEMMA MainSpaced ==
  ASSUME SpacedInv, WaitNoWrap, Main
  PROVE  SpacedInv'
<1> ArmInv /\ HandlerKnows /\ BoardRecognised /\ BoardSpaced /\ QemuSpaced
    /\ TypeOK /\ Armed
  BY DEF SpacedInv, ArmInv
<1>1. /\ ArmInv' /\ hpc = "idle" /\ hpc' = "idle"
      /\ UNCHANGED <<platform, clo, match, active, irqAck, reg, since>>
  BY MainSteps, MainArm
<1>2. Stuck' = Stuck
  BY <1>1 DEF Stuck
<1> USE DEF MainRuns, timers, gic
<1>3. CASE system_timer_init
  <2>1. /\ UNCHANGED <<gleft, gic, masked, startTime, tick_occured>>
        /\ pc = "system_timer_init" /\ pc' = "generic_timer_init"
    BY <1>3 DEF system_timer_init
  <2>2. HandlerKnows' /\ BoardRecognised' /\ QemuSpaced'
    BY <1>1, <1>2, <2>1 DEF HandlerKnows, BoardRecognised, QemuSpaced
  <2>3. ASSUME platform = "rpi4"
        PROVE  IF match' THEN since' = TickInterval ELSE since' + Dist' >= TickInterval
    <3>1. since = TickInterval
      BY <2>1, <2>3 DEF BoardSpaced
    <3>2. ~match' => Dist' \in 1 .. TickInterval
      BY <1>1, <2>1 DEF ArmInv, Armed
    <3> QED BY <1>1, <3>1, <3>2, Constants
  <2>4. BoardSpaced'
    BY <1>1, <2>1, <2>3 DEF BoardSpaced
  <2> QED BY <1>1, <2>2, <2>4 DEF SpacedInv
<1>4. CASE generic_timer_init
  <2>1. /\ UNCHANGED <<c1, gic, masked, startTime, tick_occured>>
        /\ gleft' = GenericInterval
        /\ pc = "generic_timer_init" /\ pc' = "enable_irq"
    BY <1>4 DEF generic_timer_init
  <2>2. HandlerKnows' /\ BoardRecognised' /\ BoardSpaced'
    BY <1>1, <1>2, <2>1 DEF HandlerKnows, BoardRecognised, BoardSpaced, Dist
  <2>3. QemuSpaced'
    BY <1>1, <2>1, TypeFacts, Constants DEF QemuSpaced
  <2> QED BY <1>1, <2>2, <2>3 DEF SpacedInv
<1>5. CASE enable_irq \/ ClearTickOccured \/ KernelMask
  <2>1. /\ UNCHANGED <<c1, gleft, gic, startTime>>
        /\ \/ pc = "enable_irq" /\ pc' = "clear" /\ ~masked'
           \/ pc = "clear" /\ pc' = "target_system" /\ masked' = masked
           \/ pc = "kernel" /\ pc' = "kernel"
    BY <1>5 DEF enable_irq, ClearTickOccured, KernelMask
  <2>2. HandlerKnows' /\ BoardRecognised' /\ BoardSpaced' /\ QemuSpaced'
    BY <1>1, <1>2, <2>1 DEF HandlerKnows, BoardRecognised, BoardSpaced, QemuSpaced, Dist
  <2> QED BY <1>1, <2>2 DEF SpacedInv
<1>6. CASE \/ assignTargets(SYSTEM_TIMER_IRQ_1, "target_system", "enable_system")
           \/ enableISR(SYSTEM_TIMER_IRQ_1, "enable_system", "wait")
  <2>1. /\ UNCHANGED <<c1, gleft, forwarding, masked, startTime, tick_occured>>
        /\ \/ /\ pc = "target_system" /\ pc' = "enable_system"
              /\ targets' = targets \cup {TargetBit(SYSTEM_TIMER_IRQ_1, 0)}
              /\ enables' = enables
           \/ /\ pc = "enable_system" /\ pc' = "wait" /\ targets' = targets
              /\ enables' = enables \cup {EnableBit(SYSTEM_TIMER_IRQ_1)}
    BY <1>6 DEF assignTargets, enableISR
  <2>2. HandlerKnows' /\ BoardSpaced' /\ QemuSpaced'
    BY <1>1, <1>2, <2>1 DEF HandlerKnows, BoardSpaced, QemuSpaced, Dist
  <2>3. BoardRecognised'
    BY <1>1, <1>2, <2>1, TimerIds DEF BoardRecognised
  <2> QED BY <1>1, <2>2, <2>3 DEF SpacedInv
<1>7. CASE WaitStart
  <2>1. /\ UNCHANGED <<c1, gleft, gic, masked, tick_occured>>
        /\ pc = "wait" /\ pc' = "poll" /\ startTime' = clo
    BY <1>7 DEF WaitStart
  <2>2. HandlerKnows' /\ BoardSpaced' /\ QemuSpaced'
    BY <1>1, <1>2, <2>1 DEF HandlerKnows, BoardSpaced, QemuSpaced, Dist
  <2>3. match' \/ Elapsed(startTime)' + Dist' <= TickInterval
    <3>1. (clo - clo) % ClockMod = 0
      BY TypeFacts, CounterDiff DEF Counter
    <3>2. Elapsed(startTime)' = 0
      BY <1>1, <2>1, <3>1 DEF Elapsed
    <3> QED BY <1>1, <2>1, <3>2, Constants DEF ArmInv, Armed
  <2>4. BoardRecognised'
    BY <1>1, <1>2, <2>1, <2>3 DEF BoardRecognised
  <2> QED BY <1>1, <2>2, <2>4 DEF SpacedInv
<1>8. CASE WaitPoll
  <2>1. /\ UNCHANGED <<c1, gleft, gic, masked, tick_occured>> /\ pc = "poll"
        /\ \/ WaitOver /\ pc' = "probe"
           \/ pc' = pc /\ startTime' = startTime
    BY <1>8 DEF WaitPoll
  <2>2. HandlerKnows' /\ BoardSpaced' /\ QemuSpaced'
    BY <1>1, <1>2, <2>1 DEF HandlerKnows, BoardSpaced, QemuSpaced, Dist
  <2>3. BoardRecognised'
    BY <1>1, <1>2, <1>8, <2>1, ProbeWaits DEF BoardRecognised, Elapsed, Dist
  <2> QED BY <1>1, <2>2, <2>3 DEF SpacedInv
<1>9. CASE Probe \/ EnableForwarding
  <2>1. /\ UNCHANGED <<c1, gleft, targets, enables, masked, startTime, tick_occured>>
        /\ forwarding => forwarding'
        /\ \/ pc = "probe" /\ tick_occured /\ pc' = "kernel"
           \/ pc = "probe" /\ ~tick_occured /\ pc' = "qemu"
           \/ pc = "qemu" /\ pc' = "target_generic"
    BY <1>9 DEF Probe, EnableForwarding
  <2>2. HandlerKnows' /\ BoardSpaced' /\ QemuSpaced'
    BY <1>1, <1>2, <2>1 DEF HandlerKnows, BoardSpaced, QemuSpaced, Dist
  <2>3. BoardRecognised'
    BY <1>1, <1>2, <2>1 DEF BoardRecognised
  <2> QED BY <1>1, <2>2, <2>3 DEF SpacedInv
<1>10. CASE \/ assignTargets(ARM_GENERIC_TIMER, "target_generic", "enable_generic")
            \/ enableISR(ARM_GENERIC_TIMER, "enable_generic", "kernel")
  <2>1. /\ UNCHANGED <<c1, gleft, forwarding, masked, startTime, tick_occured>>
        /\ pc \in {"target_generic", "enable_generic"}
        /\ pc' \in {"enable_generic", "kernel"}
    BY <1>10 DEF assignTargets, enableISR
  <2>2. HandlerKnows' /\ BoardSpaced' /\ QemuSpaced'
    BY <1>1, <1>2, <2>1 DEF HandlerKnows, BoardSpaced, QemuSpaced, Dist
  <2>3. BoardRecognised'
    BY <1>1, <1>2, <2>1 DEF BoardRecognised
  <2> QED BY <1>1, <2>2, <2>3 DEF SpacedInv
<1> HIDE DEF MainRuns
<1> QED BY <1>3, <1>4, <1>5, <1>6, <1>7, <1>8, <1>9, <1>10 DEF Main

LEMMA NextSpaced ==
  ASSUME StrayKnown, SpacedInv, WaitNoWrap, [Next]_vars
  PROVE  SpacedInv'
<1>1. CASE UNCHANGED vars
  <2>1. UNCHANGED <<platform, clo, c1, match, gleft, forwarding, targets, enables,
                    active, masked, pc, startTime, hpc, irqAck, reg, tick_occured,
                    lag, since>>
    BY <1>1 DEF vars, timers, gic
  <2>2. Stuck' = Stuck /\ Dist' = Dist /\ Elapsed(startTime)' = Elapsed(startTime)
    BY <2>1 DEF Stuck, Dist, Elapsed
  <2>3. ArmInv'
    BY <1>1, NextArm DEF SpacedInv
  <2> QED BY <2>1, <2>2, <2>3
       DEF SpacedInv, HandlerKnows, BoardRecognised, BoardSpaced, QemuSpaced
<1> QED BY <1>1, ClockSpaced, MainSpaced, HandlerSpaced DEF Next

\* Where a handler re-arms its timer, the interval has passed.
LEMMA RearmedInTime ==
  ASSUME SpacedInv, hpc \in {"read_clo", "set_timer"}
  PROVE  since >= Interval
<1> HandlerKnows /\ BoardSpaced /\ QemuSpaced /\ TypeOK
  BY DEF SpacedInv, ArmInv
<1>1. pc # "system_timer_init"
  BY DEF HandlerKnows
<1>2. CASE hpc = "read_clo"
  BY <1>1, <1>2, Constants DEF HandlerKnows, BoardSpaced, Interval
<1>3. CASE hpc = "set_timer"
  BY <1>3, TypeFacts, Constants DEF HandlerKnows, QemuSpaced, Interval, Off
<1> QED BY <1>2, <1>3

\* On either platform ticks are a whole interval of its timer apart: a board is
\* never taken for QEMU, so that one timer drives the scheduler, and no
\* interrupt is taken twice.  It holds for every lag of the core, and with any
\* stray interrupts that the mask of handle_irq() does not turn into a timer's.
THEOREM TicksAreSpaced ==
  ASSUME StrayKnown
  PROVE  Spec /\ []WaitNoWrap => TicksSpaced
<1>1. SpacedInv /\ WaitNoWrap /\ [Next]_vars => SpacedInv'
  BY NextSpaced
<1>2. SpacedInv /\ [Next]_vars =>
        [hpc' # hpc /\ hpc \in {"read_clo", "set_timer"} => since >= Interval]_vars
  BY RearmedInTime
<1> QED BY <1>1, <1>2, InitSpaced, PTL DEF Spec, TicksSpaced
=============================================================================
