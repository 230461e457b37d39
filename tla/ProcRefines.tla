---------------------------- MODULE ProcRefines -----------------------------
(***************************************************************************)
(* Proc implements ProcTable.  A process is asleep from the moment sleep   *)
(* releases lk (ptable.lock is held from before that until the state is    *)
(* stored), a lock is held by the process that its CPU runs, and a child   *)
(* has its parent once it can run.                                         *)
(***************************************************************************)
EXTENDS Proc

AbsState == [p \in Slot |-> IF pc[p] = "sleepM" THEN "SLEEPING" ELSE state[p]]

AbsChan == [p \in Slot |-> IF pc[p] = "sleepM" THEN arg[p].chan
                           ELSE IF state[p] = "SLEEPING" THEN chan[p] ELSE Nil]

AbsParent == [p \in Slot |-> IF state[p] = "EMBRYO" THEN Nil ELSE parent[p]]

AbsHeld == [l \in Lock |-> IF lkcpu[l] = Nil THEN Nil ELSE cur[lkcpu[l]]]

AbsWaking == [p \in Slot |-> IF pc[p] \in {"wakeup", "wakeupL"} THEN arg[p].chan ELSE Nil]

Table == INSTANCE ProcTable WITH
    NCPU <- Cardinality(CPU), Init0 <- InitProc, Booted <- 1 .. 1 + NIDLE,
    st <- AbsState, par <- AbsParent, on <- AbsChan, held <- AbsHeld,
    waking <- AbsWaking

(* Every behaviour of the CPUs, with all their interleavings, is one of    *)
(* the process table alone: sleep is atomic with the release of its lock,  *)
(* wakeup reaches all sleepers, wait misses no exit.                       *)
ImplementsProcTable == Table!Spec
=============================================================================
