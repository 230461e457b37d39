SPECIFICATION Spec
CONSTANTS
    p1 = p1
    p2 = p2
    p3 = p3
    b1 = b1
    b2 = b2
    k1 = k1
    k2 = k2
    k3 = k3
    v1 = v1
    v2 = v2
    Proc = {p1, p2, p3}
    Buf = {b1, b2}
    Blk = {k1, k2, k3}
    Val = {v1, v2}
    MaxHeld = 1
    MaxPinned = 2
    Nil = Nil
SYMMETRY BioSymmetry
INVARIANTS BreadReturnsItsBlock OneBufferPerBlock
PROPERTY OnlyOwnerChanges
CHECK_DEADLOCK FALSE
