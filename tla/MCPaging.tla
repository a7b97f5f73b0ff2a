------------------------------- MODULE MCPaging -------------------------------
(***************************************************************************)
(* Instances of Paging.  Tables of 4 entries: 256 virtual pages, the heap  *)
(* in the second quarter, the direct mapping in the third, the kernel and  *)
(* the windows in the last.  The framebuffer takes a page of each large    *)
(* size.  Clients map in the first quarter.                                *)
(***************************************************************************)
EXTENDS Paging

RX == {"X"}
RW == {"W"}

MC_Frames == 1001 .. 1020

MC_Sections ==
    << Mapping(33, 225, 2, RX), Mapping(35, 227, 2, {}), Mapping(37, 229, 4, RW),
       Mapping(48, 176, 20, {"W", "C"}), Mapping(8, 136, 3, RW) >>

\* Pages of three sizes, in tables of their own and together.
MC_Requests ==
    { Mapping(16, 0, 16, RW), Mapping(20, 16, 4, RX), Mapping(24, 20, 8, RW),
      Mapping(5, 46, 3, {}) }

MC_HeapRequests == { [phys |-> 1, n |-> 1], [phys |-> 12, n |-> 4], [phys |-> 70, n |-> 1] }

=============================================================================
