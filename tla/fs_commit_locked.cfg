SPECIFICATION Spec
CONSTANTS
    p1 = p1
    p2 = p2
    f1 = f1
    f2 = f2
    Proc = {p1, p2}
    Initproc = p1
    File = {f1, f2}
    NOFILE = 2
    MaxCalls = 2
    Path <- MCPath
    Sizes = {8}
    Programs <- MCPrograms
    Name = {"f", "a"}
    NBLOCKS = 6
    NINODES = 5
    NINODE = 3
    DPB = 2
    IPB = 1
    NDIRECT = 2
    NINDIRECT = 2
    MAXOPBLOCKS = 5
    LOGSIZE = 10
    Nil = Nil
SYMMETRY FsSymmetry
INVARIANT CommitHoldsNoLock
