SPECIFICATION FairSpec
CONSTANTS
    p1 = p1
    p2 = p2
    k1 = k1
    k2 = k2
    k3 = k3
    k4 = k4
    Proc = {p1, p2}
    Blk = {k1, k2, k3, k4}
    First = k1
    Val = {0, 1}
    Made <- Zeroes
    Same = {k3, k4}
    MAXOPBLOCKS = 1
    OPBLOCKS = 2
    LOGSIZE = 3
    GoOn = FALSE
    Nil = Nil
INVARIANTS LogFits SleepersAreWoken CommitAlone
PROPERTIES ImplementsAtomicDisk SleeperWakes
CHECK_DEADLOCK FALSE
