---------------------------- MODULE MCRingbuffer ----------------------------
(***************************************************************************)
(* Instances of Ringbuffer: every safe usage.                              *)
(***************************************************************************)
EXTENDS Ringbuffer

\* Each kernel call is made either with or without interrupts.
SafeUsages ==
    {u \in Usage : SafeUsage(u) /\ u.kernel \cap u.protected = {}}
=============================================================================
