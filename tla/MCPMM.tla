-------------------------------- MODULE MCPMM --------------------------------
(***************************************************************************)
(* Instances of PMM: three-bit words and a reserved hole in the middle of  *)
(* the managed memory.                                                     *)
(***************************************************************************)
EXTENDS PMM

\* Eight pages of which one is reserved; the last word holds two pages.
UsableWithHole == (0 .. 7) \ {4}
=============================================================================
