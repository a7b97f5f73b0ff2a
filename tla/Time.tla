--------------------------------- MODULE Time ---------------------------------
(***************************************************************************)
(* The timers (Time/Time.c, Drivers/Timers, the timer of IrqChip/APIC.c):  *)
(* how they are found and chosen, and the conversion of times to ticks.    *)
(* Words of 32 bits have W bits here, and a second NS nanoseconds.         *)
(***************************************************************************)
EXTENDS IrqChips

CONSTANTS
    W,              \* bits of a uint32_t
    NS,             \* nanoseconds in a second
    MaxSec,         \* range of the conversions, in seconds
    PIT_FREQUENCY, PM_FREQUENCY,
    PIT_MAX,        \* the longest event of the PIT, in ticks
    APIC_MAX,       \* the longest event of the APIC timer
    DIVISOR,        \* of the APIC timer, after it has been measured
    PerSecond       \* how many measurements would take a second

ASSUME TimeAssumption ==
    /\ {W, NS, MaxSec, PIT_FREQUENCY, PM_FREQUENCY, PIT_MAX, APIC_MAX, DIVISOR, PerSecond}
         \subseteq Nat \ {0}
    /\ NS < 2 ^ W

NoTimer == [name |-> NULL, score |-> -1, freq |-> 0, mult |-> 0, shift |-> 0]

-----------------------------------------------------------------------------
\* The number of bits of n.
Bits(n) == CHOOSE b \in 0 .. W : n < 2 ^ b /\ \A c \in 0 .. b - 1 : n >= 2 ^ c

\* The largest shift whose factor leaves room for a time of MaxSec seconds.  When none
\* does, the factor of the last one is used with a shift of 0.
computeConversion(from, to) ==
    LET accuracy == W - Bits((MaxSec * from) \div 2 ^ W)
        mult(shift) == (to * 2 ^ shift + (from \div 2)) \div from
        fit == {shift \in 1 .. W : mult(shift) < 2 ^ accuracy}
    IN  IF fit = {} THEN [mult |-> mult(1) % 2 ^ W, shift |-> 0]
                    ELSE [mult |-> mult(Max(fit)), shift |-> Max(fit)]

Converted(timer, from, to) ==
    LET c == computeConversion(from % 2 ^ W, to % 2 ^ W)
    IN  [timer EXCEPT !.mult = c.mult, !.shift = c.shift]

\* The first timer of the highest score.
Time_registerSteadyTimer(k, timer) ==
    LET t == Converted(timer, timer.freq, NS)
    IN  IF timer.freq % 2 ^ W = 0 THEN ISR_divisionByZeroError(k, "frequency")
          ELSE [k EXCEPT !.steady = IF @.score < t.score THEN t ELSE @]

Time_registerEventTimer(k, timer) ==
    LET t == Converted(timer, NS, timer.freq)
    IN  [k EXCEPT !.event = IF @.score < t.score THEN t ELSE @]

-----------------------------------------------------------------------------
(***************************************************************************)
(* The timers.  m is the machine.                                          *)
(***************************************************************************)
\* From the ticks in a delay, and from the time that Time_get gives for it; the second
\* is not a division, as the sum is not in parentheses, and not the smaller one.
measureFrequency(ticks, dt) ==
    LET freq1 == ticks * PerSecond
        freq2 == ticks * NS + dt - (1 \div dt)
    IN  Min({freq1, freq2})

\* Ticks of the steady timer in mdelay.
delayTicks(timer) == (timer.freq + PerSecond - 1) \div PerSecond

ticksToNs(timer, ticks) == ((timer.mult * ticks) % 2 ^ (2 * W)) \div 2 ^ timer.shift

\* Ticks of another timer in the same time; the delay may be late.
Counts(freq) == {freq \div PerSecond, (freq \div PerSecond) + 1}

Measures(k, freq) ==
    {measureFrequency(ticks, ticksToNs(k.steady, delayTicks(k.steady))) : ticks \in Counts(freq)}

PmTimer(freq) == [NoTimer EXCEPT !.name = "PM Timer", !.score = 50, !.freq = freq]

isPmTimerPresent(k) == k.FADT.present /\ k.FADT.PMTimerLength = 4

PmTimer_init(k) ==
    LET timer == PmTimer(PM_FREQUENCY)
    IN  IF ~isPmTimerPresent(k) THEN k
          ELSE CASE k.FADT.X_block = "memory" ->
                      Then(VMM_map(k, k.FADT.X_page), LAMBDA a : Time_registerSteadyTimer(a, timer))
                 [] k.FADT.X_block = "port" -> Time_registerSteadyTimer(k, timer)
                 [] k.FADT.X_block = "other" -> k
                 [] k.FADT.X_block = "none" ->
                      IF k.FADT.PMTimerBlock THEN Time_registerSteadyTimer(k, timer) ELSE k

\* The frequency that CPUID gives, 0 if it does not.
findCpuidFrequency(m) == IF m.tscInCpuid THEN m.tscFreq ELSE 0

\* To measure, a steady timer is needed: its pointer is not looked at before.
TscFrequencies(k, m) ==
    CASE findCpuidFrequency(m) # 0 -> {findCpuidFrequency(m)}
      [] findCpuidFrequency(m) = 0 /\ k.steady = NoTimer -> {None}
      [] OTHER -> Measures(k, m.tscFreq)

TSC_init(k, m, freq) ==
    IF m.tsc # "invariant" \/ freq = 0 THEN k
      ELSE IF freq = None THEN ISR_pageFault(k, "m_steadyTimer")
      ELSE Time_registerSteadyTimer([k EXCEPT !.tscFreq = freq],
             [NoTimer EXCEPT !.name = "TSC", !.score = 100, !.freq = freq])

TSC_getFrequency(k) == k.tscFreq

ApicFrequencies(k, m) ==
    CASE m.busInCpuid -> {m.busFreq}
      [] ~m.busInCpuid /\ k.steady = NoTimer -> {None}
      [] OTHER -> Measures(k, m.busFreq)

ApicTimer(freq) ==
    [NoTimer EXCEPT !.name = "APIC Timer", !.score = 100, !.freq = freq]

initTimerTsc(k) ==
    Time_registerEventTimer([k EXCEPT !.lapic.masked = FALSE], ApicTimer(TSC_getFrequency(k)))

initTimerNoTsc(k, freq) ==
    IF freq = None THEN ISR_pageFault(k, "m_steadyTimer")
      ELSE Time_registerEventTimer([k EXCEPT !.lapic.masked = FALSE], ApicTimer(freq \div DIVISOR))

\* The handler is installed between the two; no event is due before.
APIC_initTimers(k, m, freq) ==
    LET a == IRQ_installHandler(k, IRQ_APIC_TIMER, "timerIrq")
    IN  IF ~m.apic THEN k
          ELSE IF m.deadline THEN initTimerTsc(a) ELSE initTimerNoTsc(a, freq)

Pit == [NoTimer EXCEPT !.name = "PIT", !.score = 1, !.freq = PIT_FREQUENCY]

\* Up to the wait for its first interrupt, and after it.
PIT_initStart(k) ==
    [IRQ_enableSpecific(IRQ_installHandler(k, IRQ_PIT, "pitInitIrq"), IRQ_PIT)
       EXCEPT !.irqs = TRUE, !.pit = 1]

PIT_initEnd(k) ==
    Time_registerEventTimer(
      IRQ_enableSpecific(IRQ_installHandler(k, IRQ_PIT, "pitIrq"), IRQ_PIT), Pit)

maxTick(timer) == IF timer.name = "PIT" THEN PIT_MAX ELSE APIC_MAX

minTick == 1

scheduleEvent(k, ticks) ==
    IF k.event.name = "PIT" THEN [k EXCEPT !.pit = ticks] ELSE [k EXCEPT !.apicTimer = ticks]

-----------------------------------------------------------------------------
(***************************************************************************)
(* sleepNanoseconds, in steps: what is left to schedule, the check of      *)
(* m_eventAcked and the halt after it.                                     *)
(***************************************************************************)
nTicks(timer, ns) == ((ns * timer.mult) % 2 ^ (2 * W)) \div 2 ^ timer.shift

\* Schedule the next event of a sleep that has these left.
Schedule(k, full, rem) ==
    [scheduleEvent(k, IF full > 0 THEN maxTick(k.event) ELSE rem) EXCEPT
       !.acked = FALSE, !.sleep.full = full - 1, !.sleep.rem = rem, !.sleep.at = "check"]

\* Mutant: only what is left over full events is waited for.
sleepNanoseconds_Rest(k, ns) ==
    LET n == nTicks(k.event, ns)
    IN  Schedule([k EXCEPT !.eventHandler = "simpleAck", !.sleep.ns = ns, !.sleep.ticks = 0],
                 0, Max({n % maxTick(k.event), minTick}))

sleepNanoseconds(k, ns) ==
    LET n == nTicks(k.event, ns)
    IN  Schedule([k EXCEPT !.eventHandler = "simpleAck", !.sleep.ns = ns, !.sleep.ticks = 0],
                 n \div maxTick(k.event), Max({n % maxTick(k.event), minTick}))

Asleep(k) == k.sleep.at \in {"check", "halt", "halted"}

\* Between the check and the halt an interrupt may come.
SleepCheck(k) ==
    IF ~k.acked THEN [k EXCEPT !.sleep.at = "halt"]
      ELSE IF k.sleep.full >= 0 THEN Schedule(k, k.sleep.full, k.sleep.rem)
      ELSE [k EXCEPT !.sleep.at = "done"]

Halt(k) == [k EXCEPT !.sleep.at = "halted"]
=============================================================================
