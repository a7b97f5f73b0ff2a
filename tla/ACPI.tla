--------------------------------- MODULE ACPI ---------------------------------
(***************************************************************************)
(* The ACPI tables (Drivers/ACPI/ACPI.c), as operators on the record k of  *)
(* the kernel.  A table is read through the only page that is mapped for   *)
(* it.  k.stop says why the kernel has stopped, "" if it has not.          *)
(***************************************************************************)
EXTENDS Integers, Sequences, FiniteSets

Stop(k, why) == [k EXCEPT !.stop = why]

\* An exception of the processor ends in its handler, which panics.
ISR_pageFault(k, at) == Stop(k, at)

ISR_divisionByZeroError(k, at) == Stop(k, at)

\* A step after those that led to k, unless they stopped the kernel.
Then(k, step(_)) == CHOOSE r \in {IF v.stop = "" THEN step(v) ELSE v : v \in {k}} : TRUE

\* The memory at VMM_KERNEL_MEMORY: a page may not be mapped twice.
VMM_map(k, page) ==
    IF page \in k.mapped THEN Stop(k, "mapped twice") ELSE [k EXCEPT !.mapped = @ \cup {page}]

VMM_unmap(k, page) == [k EXCEPT !.mapped = @ \ {page}]

\* As long as the budget lasts.
kmalloc(k) == [k EXCEPT !.kmallocs = @ - 1]

NoMADT == [present |-> FALSE, page |-> 0, LAPICs |-> << >>, IOAPICs |-> << >>, ISOs |-> << >>,
           NMIs |-> << >>, overrides |-> << >>]

NoFADT == [present |-> FALSE]

\* A table that goes on after its first page is not mapped there.
isChecksumValid(table) == table.ok

Readable(k, table) == table.page .. table.last \subseteq k.mapped

parseFADT(k, table) ==
    [k EXCEPT !.FADT = IF isChecksumValid(table) THEN [table.fadt EXCEPT !.present = TRUE]
                                                 ELSE [@ EXCEPT !.present = FALSE]]

\* Counted, then copied: an array for every type of entry that there is.
parseMADT(k, table) ==
    LET of(type) == SelectSeq(table.entries, LAMBDA e : e.type = type)
        arrays == {table.entries[i].type : i \in DOMAIN table.entries} \ {"unsupported"}
        needed == Cardinality(arrays)
    IN  IF ~isChecksumValid(table) THEN [k EXCEPT !.MADT.present = FALSE]
          ELSE IF k.kmallocs < needed THEN Stop(k, "assert: memory")
          ELSE IF \E i \in DOMAIN table.entries : ~table.entries[i].sized
                 THEN Stop(k, "assert: entry length")
          ELSE [k EXCEPT !.kmallocs = @ - needed, !.MADT =
                 [present |-> TRUE, page |-> table.apicPage, LAPICs |-> of("LAPIC"),
                  IOAPICs |-> of("IOAPIC"), ISOs |-> of("IOAPIC_ISO"),
                  NMIs |-> of("LAPIC_NMI"), overrides |-> of("LAPIC_ADDR_OVERRIDE")]]

parseHPETT(k, table) == IF isChecksumValid(table) THEN [k EXCEPT !.HPETT = TRUE] ELSE k

\* Of a table that is of no interest only the header is read.
parseContents(k, table) ==
    CASE table.signature = "other" -> k
      [] table.signature # "other" /\ ~Readable(k, table) -> ISR_pageFault(k, "table")
      [] table.signature = "FACP" /\ Readable(k, table) -> parseFADT(k, table)
      [] table.signature = "APIC" /\ Readable(k, table) -> parseMADT(k, table)
      [] table.signature = "HPET" /\ Readable(k, table) -> parseHPETT(k, table)

parseTable(k, table) ==
    Then(Then(VMM_map(k, table.page), LAMBDA a : parseContents(a, table)),
         LAMBDA a : VMM_unmap(a, table.page))

parseXSDT(k, xsdt) ==
    LET at[i \in 0 .. Len(xsdt.tables)] ==
          IF i = 0 THEN k ELSE Then(at[i - 1], LAMBDA a : parseTable(a, xsdt.tables[i]))
    IN  IF isChecksumValid(xsdt) THEN at[Len(xsdt.tables)] ELSE Stop(k, "panic: XSDT")

ACPI_init(k, rsdp, xsdt) ==
    LET mapped == VMM_map(k, rsdp.page)
        parsed == Then(VMM_map(mapped, xsdt.page), LAMBDA a : parseXSDT(a, xsdt))
    IN  IF rsdp.revision < 2 \/ ~isChecksumValid(rsdp) THEN Stop(mapped, "panic: RSDP")
          ELSE Then(parsed, LAMBDA a : VMM_unmap(VMM_unmap(a, rsdp.page), xsdt.page))
=============================================================================
