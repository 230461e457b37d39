------------------------------- MODULE MCProc -------------------------------
(* Proc on small instances: two CPUs, one lock and one channel.            *)
EXTENDS ProcRefines, TLC

CPUSymmetry == Permutations(CPU)
=============================================================================
