SPECIFICATION Spec
CONSTANTS
    p1 = p1
    p2 = p2
    Proc = {p1, p2}
    Initproc = p1
    NPAGE = 20
    MaxCalls = 5
    ENTRIES = 2
    PGSIZE = 2
    UADDR_SZ = 16
    Brk <- MCBrk
    Image <- MCImage
CHECK_DEADLOCK FALSE
INVARIANT NothingLost
