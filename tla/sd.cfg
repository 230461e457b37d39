SPECIFICATION FairSpec
CONSTANTS
    p1 = p1
    p2 = p2
    b1 = b1
    b2 = b2
    Proc = {p1, p2}
    Buf = {b1, b2}
    Val <- MCVal
    Head = Head
    Intr = Intr
    GoOn = FALSE
    Nil = Nil
INVARIANTS QueueInStep CardWritesRequest
PROPERTIES SdrwSyncs SdrwReturns
CHECK_DEADLOCK FALSE
