------------------------------ MODULE MCSerial ------------------------------
(* Instances of Serial for TLC: buffers of a few bytes. *)
EXTENDS Serial
=============================================================================
