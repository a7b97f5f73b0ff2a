-------------------------------- MODULE MCSlab --------------------------------
(***************************************************************************)
(* Instances of SlabAllocator.  A page has 32 units; the kmalloc caches    *)
(* have objects of 8 units (three in a slab of one page, with its          *)
(* structure) and of 64 (two in a slab of four pages, its structure in the *)
(* other cache).  Pages whose numbers differ by 8 collide in the table of  *)
(* 8 entries, which two large slabs fill: it grows, or cannot.             *)
(***************************************************************************)
EXTENDS SlabAllocator

MC_KMALLOC_SIZES == <<8, 64>>
=============================================================================
