-------------------------- MODULE MCMemoryMonitor --------------------------
(* The monitor with a few samples.                                         *)
EXTENDS MemoryMonitor
=============================================================================
