------------------------------- MODULE IrqChips -------------------------------
(***************************************************************************)
(* Interrupts (IRQ/IRQ.c, Platform/ISR.c) and the chips they come through: *)
(* the two 8259 (IrqChip/i8259.c), or the local APIC (IrqChip/APIC.c) and  *)
(* the I/O APICs (IrqChip/IOAPIC.c).  k is the record of the kernel and of *)
(* the registers of the chips.                                             *)
(***************************************************************************)
EXTENDS ACPI, FiniteSetsExt

NULL == "NULL"

ISA_IRQ_OFFSET == 32

IRQ_PIT == 0 + ISA_IRQ_OFFSET
IRQ_LPT1 == 7 + ISA_IRQ_OFFSET
IRQ_ATA2 == 15 + ISA_IRQ_OFFSET
IRQ_APIC_TIMER == 48
IRQ_APIC_SPURIOUS == 255

\* The exceptions with a handler of their own, the ISA interrupts and those of the APIC.
Exceptions == {0, 8, 11, 14}
IrqVectors == ISA_IRQ_OFFSET .. IRQ_APIC_TIMER \cup {IRQ_APIC_SPURIOUS}
Vectors == Exceptions \cup IrqVectors

Lines == 0 .. 15

-----------------------------------------------------------------------------
(***************************************************************************)
(* ISR.c: what runs for a vector.                                          *)
(***************************************************************************)
ISR_installHandler(k, vector, handler) == [k EXCEPT !.isr[vector] = handler]

\* Every gate is an interrupt gate: a handler is not interrupted.
ISR_initInterruptHandlers(k) == [k EXCEPT !.gates = Vectors]

ISR_init(k) ==
    [ISR_initInterruptHandlers(k) EXCEPT !.isr = [v \in Vectors |->
       CASE v = 0 -> "divisionByZeroError" [] v = 8 -> "doubleFault"
         [] v = 11 -> "segmentNotPresent" [] v = 14 -> "pageFault" [] OTHER -> NULL]]

-----------------------------------------------------------------------------
(***************************************************************************)
(* The pair of 8259: irr, isr and mask of both, as sets of lines.          *)
(***************************************************************************)
Cascade == 2

\* The lines of the slave come through line 2 of the master.
Rank(line) == IF line >= 8 THEN 8 * Cascade + (line - 8) ELSE 8 * line

First(lines) == CHOOSE l \in lines : \A o \in lines : Rank(l) <= Rank(o)

remap(k, offset) ==
    IF offset % 8 # 0 THEN Stop(k, "panic: offset")
      ELSE [k EXCEPT !.pic = [offset |-> offset, irr |-> {}, isr |-> {}, mask |-> {}]]

i8259_init(k) ==
    Then(remap(k, ISA_IRQ_OFFSET), LAMBDA a :
      ISR_installHandler(ISR_installHandler(a, IRQ_LPT1, "handleSpuriousIRQ7"),
                         IRQ_ATA2, "handleSpuriousIRQ15"))

assertValidIRQ(k, irq, then) == IF irq \in Lines THEN then ELSE Stop(k, "assert: irq")

i8259_enableSpecific(k, irq) ==
    assertValidIRQ(k, irq - k.pic.offset, [k EXCEPT !.pic.mask = @ \ {irq - k.pic.offset}])

i8259_disableSpecific(k, irq) ==
    assertValidIRQ(k, irq - k.pic.offset, [k EXCEPT !.pic.mask = @ \cup {irq - k.pic.offset}])

i8259_disableAllIRQ(k) == [k EXCEPT !.pic.mask = Lines \ {Cascade}]

\* The end of the interrupt of highest priority in one of the chips.
EOI(lines) == IF lines = {} THEN {} ELSE lines \ {First(lines)}

\* Mutant: an interrupt of the slave is not ended in the master.
i8259_sendEIO_OneChip(k, irq) ==
    LET line == irq - k.pic.offset
        master == {l \in k.pic.isr : l < 8}
        slave == {l \in k.pic.isr : l >= 8}
    IN  assertValidIRQ(k, line, [k EXCEPT !.pic.isr =
          IF line >= 8 THEN master \cup EOI(slave) ELSE EOI(master) \cup slave])

i8259_sendEIO(k, irq) ==
    LET line == irq - k.pic.offset
        master == {l \in k.pic.isr : l < 8}
        slave == {l \in k.pic.isr : l >= 8}
    IN  assertValidIRQ(k, line, [k EXCEPT !.pic.isr =
          EOI(master) \cup IF line >= 8 THEN EOI(slave) ELSE slave])

-----------------------------------------------------------------------------
(***************************************************************************)
(* The I/O APICs.  A pin of all of them is known by its GSI.               *)
(***************************************************************************)
Pins(ioapic) == ioapic.GSIBase .. ioapic.GSIBase + ioapic.pins - 1

\* Mutant: the overrides are not applied.
initIOAPIC_NoOverride(k, ioapic) ==
    Then(VMM_map(k, ioapic.page), LAMBDA a :
      [a EXCEPT !.pins = [gsi \in DOMAIN @ \cup Pins(ioapic) |->
         IF gsi \in Pins(ioapic) THEN [vector |-> (ISA_IRQ_OFFSET + gsi) % 256, masked |-> TRUE]
           ELSE @[gsi]]])

\* Of the overrides of a pin the last one counts; the vector has eight bits.
initIOAPIC(k, ioapic) ==
    LET ISOs == k.MADT.ISOs
        of(gsi) == {i \in DOMAIN ISOs : ISOs[i].GSI = gsi /\ ISOs[i].busSource = 0}
        source(gsi) == IF of(gsi) = {} THEN gsi ELSE ISOs[Max(of(gsi))].IRQSource
    IN  Then(VMM_map(k, ioapic.page), LAMBDA a :
          [a EXCEPT !.pins = [gsi \in DOMAIN @ \cup Pins(ioapic) |->
             IF gsi \in Pins(ioapic)
               THEN [vector |-> (ISA_IRQ_OFFSET + source(gsi)) % 256, masked |-> TRUE]
               ELSE @[gsi]]])

\* If there is no memory for them, m_nIOAPIC says all the same that they are there.
IOAPIC_init(k) ==
    LET at[i \in 0 .. Len(k.MADT.IOAPICs)] ==
          IF i = 0 THEN kmalloc(k)
            ELSE Then(at[i - 1], LAMBDA a : initIOAPIC(a, k.MADT.IOAPICs[i]))
    IN  IF ~k.MADT.present THEN k
          ELSE IF k.MADT.IOAPICs = << >> THEN Stop(k, "panic: no I/O APIC")
          ELSE IF k.kmallocs = 0 THEN [k EXCEPT !.noIOAPICs = TRUE]
          ELSE at[Len(k.MADT.IOAPICs)]

setMask(k, vectors, masked) ==
    IF k.noIOAPICs THEN ISR_pageFault(k, "m_IOAPICs")
      ELSE [k EXCEPT !.pins = [gsi \in DOMAIN @ |->
             IF @[gsi].vector \in vectors THEN [@[gsi] EXCEPT !.masked = masked] ELSE @[gsi]]]

IOAPIC_enableSpecific(k, irq) == setMask(k, {irq}, FALSE)

IOAPIC_disableSpecific(k, irq) == setMask(k, {irq}, TRUE)

IOAPIC_disableAllIRQ(k) == setMask(k, 0 .. 255, TRUE)

-----------------------------------------------------------------------------
(***************************************************************************)
(* The local APIC of the bootstrap CPU.                                    *)
(***************************************************************************)
DEFAULT_PAGE == 1000

getAPICAddress(k) ==
    CASE ~k.MADT.present -> DEFAULT_PAGE
      [] k.MADT.present /\ k.MADT.overrides = << >> -> k.MADT.page
      [] OTHER -> k.MADT.overrides[1].page

\* The register holds the identifier in its highest byte.
readID(cpu) == cpu * 2 ^ 24

None == -1

getAcpiProcessorId(k, lapicId) ==
    LET with == {i \in DOMAIN k.MADT.LAPICs : k.MADT.LAPICs[i].lapicID = lapicId}
    IN  IF with = {} THEN None ELSE k.MADT.LAPICs[Min(with)].processorID

ForAll == 255

configurePins(k, processor) ==
    LET NMIs == {k.MADT.NMIs[i] : i \in DOMAIN k.MADT.NMIs}
        mine == {e \in NMIs : e.processorID \in {processor, ForAll}}
    IN  IF \E e \in mine : e.LINT \notin {0, 1} THEN Stop(k, "assert: LINT")
          ELSE [k EXCEPT !.nmi = {e.LINT : e \in mine}]

APIC_initLAPIC(k, cpu) ==
    LET id == readID(cpu)
        processor == getAcpiProcessorId(k, id)
    IN  IF processor = None THEN Stop(k, "panic: no processor")
          ELSE Then(configurePins(k, processor), LAMBDA a :
                 [a EXCEPT !.apicID = id,
                           !.lapic = [on |-> TRUE, irr |-> {}, isr |-> {}, masked |-> TRUE]])

APIC_init(k, cpu) ==
    LET pic == Then(i8259_init(k), i8259_disableAllIRQ)
        spurious == Then(pic, LAMBDA a : ISR_installHandler(a, IRQ_APIC_SPURIOUS, "handleSpuriousIRQ"))
        mapped == Then(spurious, LAMBDA a : VMM_map(a, getAPICAddress(a)))
    IN  Then(Then(mapped, LAMBDA a : APIC_initLAPIC(a, cpu)), IOAPIC_init)

APIC_sendEIO(k) == [k EXCEPT !.lapic.isr = IF @ = {} THEN {} ELSE @ \ {Max(@)}]

-----------------------------------------------------------------------------
(***************************************************************************)
(* IRQ.c over the chip that IrqChip.c chooses.                             *)
(***************************************************************************)
IRQChip_get(k, hasAPIC) == [k EXCEPT !.chip = IF hasAPIC THEN "APIC" ELSE "8259"]

installPrehandler(k) ==
    [k EXCEPT !.isr = [v \in Vectors |->
       IF v \in IrqVectors /\ @[v] = NULL THEN "IRQ_prehandler" ELSE @[v]]]

ByChip(k, apic, pic) == IF k.chip = "APIC" THEN apic ELSE pic

disableAll(k) == ByChip(k, IOAPIC_disableAllIRQ(k), i8259_disableAllIRQ(k))

IRQ_init(k, hasAPIC, cpu) ==
    LET chosen == IRQChip_get([k EXCEPT !.handlers = [v \in IrqVectors |-> NULL]], hasAPIC)
        ready == Then(chosen, LAMBDA a : ByChip(a, APIC_init(a, cpu), i8259_init(a)))
    IN  Then(Then(ready, installPrehandler), disableAll)

IRQ_enableSpecific(k, irq) ==
    ByChip(k, IOAPIC_enableSpecific(k, irq), i8259_enableSpecific(k, irq))

IRQ_disableSpecific(k, irq) ==
    ByChip(k, IOAPIC_disableSpecific(k, irq), i8259_disableSpecific(k, irq))

IRQ_installHandler(k, irq, handler) == [k EXCEPT !.handlers[irq] = handler]

IRQ_removeHandler(k, irq) == [k EXCEPT !.handlers[irq] = NULL]

sendEOI(k, irq) == ByChip(k, APIC_sendEIO(k), i8259_sendEIO(k, irq))

eventHandlerSimpleAck(k) == [k EXCEPT !.acked = TRUE]

\* A handler that is not set is called all the same.
CallEventHandler(k, timer) ==
    IF k.event.name # timer \/ k.eventHandler = NULL THEN ISR_pageFault(k, "eventHandler")
      ELSE eventHandlerSimpleAck(k)

\* The handlers of the drivers.
RunHandler(k, handler) ==
    CASE handler = "pitInitIrq" -> [k EXCEPT !.pitReceived = TRUE]
      [] handler = "pitIrq" -> CallEventHandler(k, "PIT")
      [] handler = "timerIrq" -> CallEventHandler(k, "APIC Timer")
      [] handler = "keyboardIRQ" -> [k EXCEPT !.waiting = @ \ {1}]
      [] handler = "mouseIRQ" -> [k EXCEPT !.waiting = @ \ {12}]

IRQ_prehandler(k, vector) ==
    Then(IF k.handlers[vector] = NULL THEN k ELSE RunHandler(k, k.handlers[vector]),
         LAMBDA a : sendEOI(a, vector))

handleSpuriousIRQ7(k, vector) ==
    IF 7 \notin k.pic.isr THEN k ELSE IRQ_prehandler(k, vector)

\* The acknowledgement is of interrupt 7, not of the vector of line 7.
handleSpuriousIRQ15(k, vector) ==
    IF 15 \notin k.pic.isr THEN i8259_sendEIO(k, 7) ELSE IRQ_prehandler(k, vector)

handleSpuriousIRQ(k, vector) ==
    IF vector = IRQ_APIC_SPURIOUS \/ vector \notin k.lapic.isr THEN k ELSE APIC_sendEIO(k)

ISR_noHandler(k, vector) == IF vector >= 32 THEN k ELSE Stop(k, "panic: exception")

\* The common entry of all vectors.
ISR_asmPrehandler(k, vector) ==
    CASE k.isr[vector] = "IRQ_prehandler" -> IRQ_prehandler(k, vector)
      [] k.isr[vector] = "handleSpuriousIRQ7" -> handleSpuriousIRQ7(k, vector)
      [] k.isr[vector] = "handleSpuriousIRQ15" -> handleSpuriousIRQ15(k, vector)
      [] k.isr[vector] = "handleSpuriousIRQ" -> handleSpuriousIRQ(k, vector)
      [] k.isr[vector] = NULL -> ISR_noHandler(k, vector)

-----------------------------------------------------------------------------
(***************************************************************************)
(* The chips on their own: a device raises its line, the CPU takes the     *)
(* interrupt of highest priority.                                          *)
(***************************************************************************)
Raise(k, line, gsi) ==
    IF k.chip = "8259" THEN [k EXCEPT !.pic.irr = @ \cup {line}]
      ELSE IF k.pins[gsi].masked THEN k
      ELSE [k EXCEPT !.lapic.irr = @ \cup {k.pins[gsi].vector}]

\* The lines (8259) or vectors (APIC) that nothing in service holds back.
Ready(k) ==
    IF k.chip = "8259"
      THEN {l \in k.pic.irr \ k.pic.mask : /\ l >= 8 => Cascade \notin k.pic.mask
                                           /\ \A s \in k.pic.isr : Rank(l) < Rank(s)}
      ELSE {v \in k.lapic.irr : \A s \in k.lapic.isr : v \div 16 > s \div 16}

Next8259(k) == First(Ready(k))

Ack(k) ==
    IF k.chip = "8259"
      THEN LET l == Next8259(k)
           IN  [k EXCEPT !.pic.irr = @ \ {l},
                         !.pic.isr = @ \cup {l} \cup IF l >= 8 THEN {Cascade} ELSE {}]
      ELSE [k EXCEPT !.lapic.irr = @ \ {Max(Ready(k))}, !.lapic.isr = @ \cup {Max(Ready(k))}]

AckVector(k) == IF k.chip = "8259" THEN k.pic.offset + Next8259(k) ELSE Max(Ready(k))

\* The request is gone when the CPU asks for its vector: the chip gives another.
AckSpurious(k) ==
    IF k.chip = "8259"
      THEN LET l == Next8259(k)
           IN  [k EXCEPT !.pic.irr = @ \ {l}, !.pic.isr = @ \cup IF l >= 8 THEN {Cascade} ELSE {}]
      ELSE [k EXCEPT !.lapic.irr = @ \ {Max(Ready(k))}]

SpuriousVector(k) ==
    IF k.chip = "8259" THEN k.pic.offset + (IF Next8259(k) >= 8 THEN 15 ELSE 7)
      ELSE IRQ_APIC_SPURIOUS
=============================================================================
