-------------------------------- MODULE MCBoot --------------------------------
(***************************************************************************)
(* Machines to boot: two that the kernel supports, with variants of each.  *)
(***************************************************************************)
EXTENDS Boot

LAPIC(id, on) == [type |-> "LAPIC", sized |-> TRUE, lapicID |-> id, processorID |-> id + 1,
                  enabled |-> on, onlineCapable |-> FALSE]
IOAPIC(base, n, page) == [type |-> "IOAPIC", sized |-> TRUE, GSIBase |-> base, pins |-> n, page |-> page]
ISO(bus, irq, gsi) == [type |-> "IOAPIC_ISO", sized |-> TRUE, busSource |-> bus, IRQSource |-> irq, GSI |-> gsi]
NMI(cpu, lint) == [type |-> "LAPIC_NMI", sized |-> TRUE, processorID |-> cpu, LINT |-> lint]
Override(page) == [type |-> "LAPIC_ADDR_OVERRIDE", sized |-> TRUE, page |-> page]

MADT(page, last, entries) ==
    [signature |-> "APIC", page |-> page, last |-> last, ok |-> TRUE, apicPage |-> 1000,
     entries |-> entries]
FADT(page, last, length, block) ==
    [signature |-> "FACP", page |-> page, last |-> last, ok |-> TRUE,
     fadt |-> [present |-> FALSE, PMTimerLength |-> length, X_block |-> block, X_page |-> 1100,
               PMTimerBlock |-> TRUE]]
HPET == [signature |-> "HPET", page |-> 42, last |-> 42, ok |-> TRUE]
OtherTable == [signature |-> "other", page |-> 43, last |-> 44, ok |-> FALSE]

ISOs == << ISO(0, 0, 2), ISO(0, 12, 15), ISO(1, 1, 3) >>

Entries4 ==
    << LAPIC(0, TRUE), LAPIC(1, TRUE), LAPIC(2, FALSE), IOAPIC(0, 13, 1010), IOAPIC(13, 4, 1011),
       ISOs[1], ISOs[2], ISOs[3], NMI(255, 1) >>

\* Two CPUs and one that is off, two I/O APICs, TSC deadlines.
Modern ==
    [rsdp |-> [page |-> 40, revision |-> 2, ok |-> TRUE],
     xsdt |-> [page |-> 41, ok |-> TRUE,
               tables |-> <<FADT(45, 45, 4, "port"), HPET, OtherTable, MADT(46, 46, Entries4)>>],
     apic |-> TRUE, cpu |-> 0, isos |-> ISOs, kmallocs |-> 6, entryPage |-> 5,
     tsc |-> "invariant", tscInCpuid |-> TRUE, tscFreq |-> 20, deadline |-> TRUE,
     busInCpuid |-> FALSE, busFreq |-> 60]

\* One CPU without an APIC.
Old ==
    [Modern EXCEPT !.apic = FALSE, !.tsc = "none", !.deadline = FALSE, !.isos = << >>,
                   !.xsdt.tables = <<FADT(45, 45, 4, "none"), MADT(46, 46, <<LAPIC(0, TRUE)>>)>>]

WithTables(t) == [Modern EXCEPT !.xsdt.tables = t]
WithMADT(entries) == WithTables(<<FADT(45, 45, 4, "memory"), MADT(46, 46, entries)>>)

MC_Old == { Old }

\* The first six boot, with every way to find the timers.
MC_Machines ==
    { Modern, Old,
      [Modern EXCEPT !.deadline = FALSE, !.tscInCpuid = FALSE],
      [Modern EXCEPT !.deadline = FALSE, !.busInCpuid = TRUE, !.entryPage = 300],
      [WithMADT(Append(Entries4, Override(1001))) EXCEPT !.tsc = "plain", !.kmallocs = 7],
      [WithTables(<<MADT(46, 46, Entries4)>>) EXCEPT !.tscFreq = 300],
      \* No clock to measure the others by; no clock at all.
      [WithTables(<<FADT(45, 45, 0, "port"), MADT(46, 46, Entries4)>>) EXCEPT !.tscInCpuid = FALSE],
      [WithTables(<<FADT(45, 45, 4, "other"), MADT(46, 46, Entries4)>>) EXCEPT
         !.tsc = "none", !.deadline = FALSE],
      [Old EXCEPT !.xsdt.tables = <<MADT(46, 46, <<LAPIC(0, TRUE)>>)>>],
      \* Tables that share a page, go on to the next, are damaged, or are missing.
      WithTables(<<FADT(41, 41, 4, "port"), MADT(46, 46, Entries4)>>),
      WithTables(<<FADT(45, 45, 4, "port"), MADT(46, 47, Entries4)>>),
      WithTables(<<FADT(45, 45, 4, "port"), [MADT(46, 46, Entries4) EXCEPT !.ok = FALSE]>>),
      WithMADT(Append(Entries4, NMI(1, 2))),
      WithMADT(Append(Entries4, [NMI(1, 1) EXCEPT !.sized = FALSE])),
      WithMADT(<<LAPIC(0, TRUE), LAPIC(1, TRUE)>>),
      [Modern EXCEPT !.rsdp.revision = 1], [Modern EXCEPT !.xsdt.ok = FALSE],
      [Old EXCEPT !.xsdt.tables = <<FADT(45, 45, 4, "none")>>],
      [Old EXCEPT !.xsdt.tables = <<FADT(45, 45, 4, "none"), MADT(46, 46, Entries4)>>],
      \* Another bootstrap CPU; memory that does not last.
      [Modern EXCEPT !.cpu = 1],
      [Modern EXCEPT !.kmallocs = 3], [Modern EXCEPT !.kmallocs = 4], [Modern EXCEPT !.kmallocs = 5] }
=============================================================================
