------------------------------ MODULE MCPMMInit ------------------------------
(***************************************************************************)
(* Small Limine maps: entries sorted by address, each one right after the  *)
(* previous one, a page further, or overlapping its last page.             *)
(***************************************************************************)
EXTENDS PMMInit

CONSTANTS Types, MaxEntries, MaxLength

Shapes(types) == [type : types, gap : -1 .. 1, length : 1 .. MaxLength]

Placed(shapes) ==
    LET end[i \in 0 .. Len(shapes)] ==
          IF i = 0 THEN 0 ELSE end[i - 1] + shapes[i].gap + shapes[i].length
    IN  [i \in DOMAIN shapes |-> [type   |-> shapes[i].type,
                                  base   |-> end[i - 1] + shapes[i].gap,
                                  length |-> shapes[i].length]]

AllMaps ==
    {lm \in {Placed(s) : s \in UNION {[1 .. n -> Shapes(Types)] : n \in 1 .. MaxEntries}} :
       LimineMap(lm)}

\* The maps whose first entry is not the page at address 0 alone.
CommonMaps ==
    {lm \in AllMaps : ~(lm[1].type = "usable" /\ lm[1].base = 0 /\ lm[1].length = 1)}
=============================================================================
