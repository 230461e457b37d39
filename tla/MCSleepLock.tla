---------------------------- MODULE MCSleepLock -----------------------------
(* SleepLock on a small instance: three processes. *)
EXTENDS SleepLock, TLC

ProcSymmetry == Permutations(Proc)
=============================================================================
