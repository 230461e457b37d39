SPECIFICATION Spec
CONSTANTS
    c1 = c1
    c2 = c2
    CPU = {c1, c2}
    NPROC = 4
    NIDLE = 1
    Lock = {l1}
    Kept = {k1}
    Chan = {ch1}
    KstackMayFail = TRUE
    Nil = Nil
SYMMETRY CPUSymmetry
CHECK_DEADLOCK FALSE
INVARIANTS NoPanic OneCpuPerProcess StackOwned NoMissedExit ParentAlive
PROPERTIES WakeupReachesAll ImplementsProcTable
