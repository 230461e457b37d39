SPECIFICATION FairSpec
CONSTANTS
    c1 = c1
    c2 = c2
    CPU = {c1, c2}
    NPROC = 3
    NIDLE = 1
    Lock = {l1}
    Kept = {}
    Chan = {ch1}
    KstackMayFail = FALSE
    Nil = Nil
PROPERTIES RunnableRuns ExitEndsWait
