--------------------------------- MODULE Boot ---------------------------------
(***************************************************************************)
(* The boot of the kernel on a machine (Main.c): the ACPI tables, the      *)
(* interrupts, the timers, the other CPUs (Arch/x86_64/SMP) and the        *)
(* drivers, with the interrupts that come meanwhile; then the idle loop,   *)
(* with sleeps of clients.                                                 *)
(***************************************************************************)
EXTENDS Time

CONSTANTS
    Machines,
    WakeNs,         \* the sleep between two IPIs
    Naps,           \* sleeps of clients, in nanoseconds
    MaxNaps,        \* bound on them
    MaxRaises       \* bound on the interrupts of the devices

VARIABLES
    m,          \* the machine
    k,          \* the kernel and the chips
    pc,         \* the next function of the boot
    todo,       \* IPIs still to send
    ipis,       \* IPIs sent (history)
    naps, raises

vars == <<m, k, pc, todo, ipis, naps, raises>>

\* The lines of the devices and the handlers of their drivers.
HandlerOf(line) == IF line = 1 THEN "keyboardIRQ" ELSE "mouseIRQ"

\* The pin a line is wired to.
Wire(line) ==
    LET isos == {i \in DOMAIN m.isos : m.isos[i].busSource = 0 /\ m.isos[i].IRQSource = line}
    IN  IF isos = {} THEN line ELSE m.isos[Max(isos)].GSI

Init ==
    /\ m \in Machines
    /\ k = [stop |-> "", mapped |-> {}, kmallocs |-> m.kmallocs, MADT |-> NoMADT, FADT |-> NoFADT,
            HPETT |-> FALSE, gates |-> {}, isr |-> [v \in Vectors |-> NULL],
            handlers |-> [v \in IrqVectors |-> NULL], chip |-> NULL,
            pic |-> [offset |-> 0, irr |-> {}, isr |-> {}, mask |-> {}], pins |-> << >>,
            noIOAPICs |-> FALSE, lapic |-> [on |-> FALSE, irr |-> {}, isr |-> {}, masked |-> TRUE],
            nmi |-> {}, apicID |-> -1, irqs |-> FALSE, pit |-> 0, pitReceived |-> FALSE,
            apicTimer |-> 0, tscFreq |-> 0, steady |-> NoTimer, event |-> NoTimer,
            eventHandler |-> NULL, acked |-> FALSE, waiting |-> {}, entry |-> {},
            sleep |-> [at |-> "done", full |-> 0, rem |-> 0, ns |-> 0, ticks |-> 0]]
    /\ pc = "HAL_init" /\ todo = << >> /\ ipis = << >> /\ naps = 0 /\ raises = 0

-----------------------------------------------------------------------------
(***************************************************************************)
(* Main.c: one function after the other.                                   *)
(***************************************************************************)
Do(name, next, result) ==
    /\ pc = name
    /\ \E r \in {result} : k' = r /\ pc' = IF r.stop = "" THEN next ELSE "stopped"

HAL_init == Do("HAL_init", "ACPI_init", ISR_init(k)) /\ UNCHANGED <<m, todo, ipis, naps, raises>>

Main_ACPI_init ==
    /\ Do("ACPI_init", "IRQ_init", ACPI_init(k, m.rsdp, m.xsdt))
    /\ UNCHANGED <<m, todo, ipis, naps, raises>>

Main_IRQ_init ==
    /\ Do("IRQ_init", "PIT_init",
          Then(IRQ_init(k, m.apic, m.cpu), LAMBDA r : [r EXCEPT !.irqs = TRUE]))
    /\ UNCHANGED <<m, todo, ipis, naps, raises>>

PIT_init ==
    /\ \/ Do("PIT_init", "PIT_wait", PIT_initStart(k))
       \/ k.pitReceived /\ Do("PIT_wait", "PmTimer_init", PIT_initEnd(k))
    /\ UNCHANGED <<m, todo, ipis, naps, raises>>

Main_PmTimer_init ==
    /\ Do("PmTimer_init", "TSC_init", PmTimer_init(k))
    /\ UNCHANGED <<m, todo, ipis, naps, raises>>

Main_TSC_init ==
    /\ \E freq \in TscFrequencies(k, m) : Do("TSC_init", "APIC_initTimers", TSC_init(k, m, freq))
    /\ UNCHANGED <<m, todo, ipis, naps, raises>>

\* The last of ArchTimers_init, and the checks of Time_init.
Time_init ==
    /\ \E freq \in ApicFrequencies(k, m) :
         LET r == APIC_initTimers(k, m, freq)
         IN  Do("APIC_initTimers", "SMP_init",
                Then(r, LAMBDA s : IF s.steady = NoTimer \/ s.event = NoTimer
                                     THEN Stop(s, "panic: no timer") ELSE s))
    /\ UNCHANGED <<m, todo, ipis, naps, raises>>

-----------------------------------------------------------------------------
(***************************************************************************)
(* The other CPUs.                                                         *)
(***************************************************************************)
Valid(lapic) == lapic.enabled \/ lapic.onlineCapable

ValidCPUs == SelectSeq(k.MADT.LAPICs, Valid)

parseNumberOfValidCPUs == Len(ValidCPUs)

PerCPU_init(r, n) ==
    IF n = 0 THEN Stop(r, "assert: CPUs")
      ELSE IF r.kmallocs = 0 THEN Stop(r, "panic: per-CPU")
      ELSE kmalloc(r)

SMP_init ==
    /\ Do("SMP_init", "SMP_startCPUs", PerCPU_init(k, parseNumberOfValidCPUs))
    /\ UNCHANGED <<m, todo, ipis, naps, raises>>

\* The IPIs of one CPU, and whether a sleep follows.
APIC_wakeCPU(id, entry) ==
    << [kind |-> "INIT", to |-> id, vector |-> 0, sleep |-> TRUE],
       [kind |-> "SIPI", to |-> id, vector |-> entry, sleep |-> TRUE],
       [kind |-> "SIPI", to |-> id, vector |-> entry, sleep |-> FALSE] >>

\* Mutant: the CPU itself is woken too.
Others_All == ValidCPUs

Others == SelectSeq(ValidCPUs, LAMBDA l : l.lapicID # k.apicID)

LowPages == 0 .. 255

\* k.entry is the page that PMM_allocatePages gives, 0 if it gives none.  A page that is
\* not low is not freed.
SMP_startCPUs ==
    /\ IF parseNumberOfValidCPUs = 1 THEN Do("SMP_startCPUs", "drivers", k) /\ UNCHANGED todo
         ELSE IF m.entryPage \notin LowPages
         THEN Do("SMP_startCPUs", "drivers", [k EXCEPT !.entry = {m.entryPage}]) /\ UNCHANGED todo
         ELSE /\ Do("SMP_startCPUs", "wake", [k EXCEPT !.entry = {m.entryPage}])
              /\ todo' = LET at[i \in 0 .. Len(Others)] ==
                               IF i = 0 THEN << >>
                                 ELSE at[i - 1] \o APIC_wakeCPU(Others[i].lapicID, m.entryPage)
                         IN  at[Len(Others)]
    /\ UNCHANGED <<m, ipis, naps, raises>>

\* Without an APIC its registers are not mapped.
SendIPI ==
    /\ ~Asleep(k)
    /\ IF todo = << >> THEN Do("wake", "drivers", [k EXCEPT !.entry = {}]) /\ UNCHANGED <<todo, ipis>>
         ELSE IF ~k.lapic.on
         THEN Do("wake", "wake", ISR_pageFault(k, "m_apicRegs")) /\ UNCHANGED <<todo, ipis>>
         ELSE /\ Do("wake", "wake", IF Head(todo).sleep THEN sleepNanoseconds(k, WakeNs) ELSE k)
              /\ ipis' = Append(ipis, Head(todo)) /\ todo' = Tail(todo)
    /\ UNCHANGED <<m, naps, raises>>

-----------------------------------------------------------------------------
(***************************************************************************)
(* The drivers of the devices, the sleeps and the idle loop.               *)
(***************************************************************************)
Installed(line) == k.handlers[line + ISA_IRQ_OFFSET] # NULL

Drivers_init ==
    LET one(r, line) == IRQ_enableSpecific(
          IRQ_installHandler(r, line + ISA_IRQ_OFFSET, HandlerOf(line)), line + ISA_IRQ_OFFSET)
    IN  /\ Do("drivers", "idle", one(one(k, 1), 12))
        /\ UNCHANGED <<m, todo, ipis, naps, raises>>

\* A driver gives up its device: it takes its handler away, or masks the line.
Driver_stop(line) ==
    /\ pc = "idle" /\ Installed(line)
    /\ \/ k' = IRQ_removeHandler(k, line + ISA_IRQ_OFFSET)
       \/ k' = IRQ_disableSpecific(IRQ_removeHandler(k, line + ISA_IRQ_OFFSET), line + ISA_IRQ_OFFSET)
    /\ UNCHANGED <<m, pc, todo, ipis, naps, raises>>

Nap(ns) ==
    /\ naps < MaxNaps
    /\ Do("idle", "nap", sleepNanoseconds(k, ns))
    /\ naps' = naps + 1
    /\ UNCHANGED <<m, todo, ipis, raises>>

NapEnds ==
    /\ ~Asleep(k) /\ Do("nap", "idle", k)
    /\ UNCHANGED <<m, todo, ipis, naps, raises>>

Sleep ==
    /\ k.stop = ""
    /\ \/ k.sleep.at = "check" /\ k' = SleepCheck(k)
       \/ k.sleep.at = "halt" /\ k' = Halt(k)
    /\ UNCHANGED <<m, pc, todo, ipis, naps, raises>>

-----------------------------------------------------------------------------
(***************************************************************************)
(* The hardware.                                                           *)
(***************************************************************************)
Take(r, vector) ==
    \E s \in {ISR_asmPrehandler(r, vector)} :
      /\ k' = [s EXCEPT !.sleep.at = IF @ = "halted" THEN "check" ELSE @]
      /\ pc' = IF s.stop = "" THEN pc ELSE "stopped"

Interrupt ==
    /\ k.irqs /\ k.stop = "" /\ Ready(k) # {}
    /\ Take(Ack(k), AckVector(k))
    /\ UNCHANGED <<m, todo, ipis, naps, raises>>

\* A device that has raised its line lowers it before the interrupt is taken.
SpuriousInterrupt(line) ==
    /\ k.irqs /\ k.stop = "" /\ Ready(k) # {} /\ line \in k.waiting
    /\ AckVector(k) = line + ISA_IRQ_OFFSET
    /\ Take([AckSpurious(k) EXCEPT !.waiting = @ \ {line}], SpuriousVector(k))
    /\ UNCHANGED <<m, todo, ipis, naps, raises>>

Device(line) ==
    /\ pc \in {"idle", "nap"} /\ Installed(line) /\ line \notin k.waiting /\ raises < MaxRaises
    /\ k' = [Raise(k, line, Wire(line)) EXCEPT !.waiting = @ \cup {line}]
    /\ raises' = raises + 1
    /\ UNCHANGED <<m, pc, todo, ipis, naps>>

Counted(r, timer) == [r EXCEPT !.sleep.ticks = IF Asleep(r) /\ r.event.name = timer THEN @ + 1 ELSE @]

Tick ==
    /\ k.stop = ""
    /\ \/ /\ k.pit > 0
          /\ LET r == Counted([k EXCEPT !.pit = @ - 1], "PIT")
             IN  k' = IF k.pit = 1 THEN Raise(r, 0, Wire(0)) ELSE r
       \/ /\ k.apicTimer > 0
          /\ LET r == Counted([k EXCEPT !.apicTimer = @ - 1], "APIC Timer")
             IN  k' = IF k.apicTimer = 1 /\ ~k.lapic.masked
                        THEN [r EXCEPT !.lapic.irr = @ \cup {IRQ_APIC_TIMER}] ELSE r
    /\ UNCHANGED <<m, pc, todo, ipis, naps, raises>>

Main ==
    \/ HAL_init \/ Main_ACPI_init \/ Main_IRQ_init \/ PIT_init \/ Main_PmTimer_init
    \/ Main_TSC_init \/ Time_init \/ SMP_init \/ SMP_startCPUs \/ SendIPI \/ Drivers_init
    \/ Sleep \/ NapEnds

Next ==
    \/ Main \/ Interrupt \/ Tick
    \/ \E ns \in Naps : Nap(ns)
    \/ \E line \in {1, 12} : Device(line) \/ SpuriousInterrupt(line) \/ Driver_stop(line)

\* The CPU runs and takes its interrupts, and the timers count.
Fairness == WF_vars(Main) /\ WF_vars(Interrupt) /\ WF_vars(Tick)

Spec == Init /\ [][Next]_vars /\ Fairness

-----------------------------------------------------------------------------
(***************************************************************************)
(* The machines that the kernel is made for.                               *)
(***************************************************************************)
Table(signature) ==
    {m.xsdt.tables[i] : i \in {j \in DOMAIN m.xsdt.tables : m.xsdt.tables[j].signature = signature}}

Entries(type) ==
    UNION {{t.entries[i] : i \in {j \in DOMAIN t.entries : t.entries[j].type = type}} :
             t \in {u \in Table("APIC") : u.ok}}

\* No table shares a page with the tables that lead to it, or is on two.
TablesReadable ==
    /\ m.rsdp.revision >= 2 /\ m.rsdp.ok /\ m.xsdt.ok /\ m.rsdp.page # m.xsdt.page
    /\ \A i \in DOMAIN m.xsdt.tables :
         LET t == m.xsdt.tables[i]
         IN  /\ t.page \notin {m.rsdp.page, m.xsdt.page}
             /\ t.signature # "other" => t.last = t.page
             /\ t.signature = "APIC" /\ t.ok =>
                  \A j \in DOMAIN t.entries : t.entries[j].sized

ApicUsable ==
    m.apic =>
      /\ \E e \in Entries("LAPIC") : e.lapicID = 0 /\ m.cpu = 0
      /\ Entries("IOAPIC") # {}
      /\ \A e \in Entries("LAPIC_NMI") : e.LINT \in {0, 1}

PmUsable ==
    \E t \in Table("FACP") :
      /\ t.ok /\ t.fadt.PMTimerLength = 4
      /\ t.fadt.X_block \in {"memory", "port"} \/ (t.fadt.X_block = "none" /\ t.fadt.PMTimerBlock)

\* A clock to measure the others by, or all of them known.
TimersUsable ==
    \/ PmUsable
    \/ m.tsc = "invariant" /\ m.tscInCpuid

MemoryEnough ==
    m.kmallocs >= Cardinality({e.type : e \in UNION {{t.entries[i] : i \in DOMAIN t.entries} :
                                 t \in {u \in Table("APIC") : u.ok}}} \ {"unsupported"})
                  + (IF m.apic THEN 2 ELSE 1)

Supported ==
    /\ TablesReadable /\ ApicUsable /\ TimersUsable /\ MemoryEnough
    /\ LET usable == {e \in Entries("LAPIC") : Valid(e)}
       IN  usable # {} /\ (m.apic \/ Cardinality(usable) = 1 \/ m.entryPage \notin LowPages)

-----------------------------------------------------------------------------
Up == pc \in {"idle", "nap"}

\* The boot fails on the machines that lack what it needs and on no other, whatever
\* interrupts come meanwhile; once it is over every other usable CPU has had its INIT
\* and two SIPI, in this order, with the page of the entry code (ArchSMP.c).  On an 8259
\* an interrupt of the slave that is withdrawn stops the kernel (i8259.c:106).
BootsWhereSupported ==
    /\ pc = "stopped" => ~Supported \/ (k.chip = "8259" /\ k.stop = "assert: irq")
    /\ Up => /\ Supported
             /\ LET to(id) == SelectSeq(ipis, LAMBDA i : i.to = id)
                 IN  /\ \A e \in Entries("LAPIC") :
                          IF Valid(e) /\ e.lapicID # 0 /\ m.entryPage \in LowPages
                            THEN /\ [i \in 1 .. 3 |-> to(e.lapicID)[i].kind] = <<"INIT", "SIPI", "SIPI">>
                                 /\ Len(to(e.lapicID)) = 3 /\ to(e.lapicID)[3].vector = m.entryPage
                            ELSE to(e.lapicID) = << >>

\* The event came between the check of m_eventAcked and the halt.
Missed == k.sleep.at = "halted" /\ k.acked

\* The boot and every sleep come to an end, or the event of the sleep has come between
\* the check and the halt (sleepNanoseconds, Time.c:43): then it is as long as no other
\* interrupt comes that the CPU sleeps.
SleepsEnd == pc # "idle" ~> (pc \in {"idle", "stopped"} \/ Missed)

\* The boot and every sleep come to an end, as msleep says (Time.h).
EverySleepEnds == pc # "idle" ~> pc \in {"idle", "stopped"}

\* An interrupt that a device with a handler raises is served by that handler, through
\* either chip, with overrides and after spurious interrupts: none stays in service.
IrqServed ==
    \A line \in {1, 12} :
      line \in k.waiting ~> (line \notin k.waiting \/ ~Installed(line) \/ k.stop # "")

Rate == CASE k.event.name = "PIT" -> PIT_FREQUENCY
          [] k.event.name # "PIT" /\ m.deadline -> m.tscFreq
          [] OTHER -> m.busFreq \div DIVISOR

\* A frequency of more bits than W is cut, one that TSC_init did not find is 0.
RateKnown == Rate < 2 ^ W /\ (m.apic /\ m.deadline => m.tsc = "invariant")

\* A sleep is at most a tick too short, and no longer than the measure of the timer makes
\* it (computeConversion, sleepNanoseconds), also when it takes several events.
SleepsAsAsked ==
    k.sleep.at = "done" /\ k.sleep.ns > 0 /\ RateKnown =>
      /\ k.sleep.ticks + 1 >= (k.sleep.ns * Rate) \div NS
      /\ k.sleep.ticks <= ((k.sleep.ns * k.event.freq) \div NS) + 2
=============================================================================
