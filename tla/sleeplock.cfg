SPECIFICATION FairLockSpec
CONSTANTS
    p1 = p1
    p2 = p2
    p3 = p3
    Proc = {p1, p2, p3}
    None = None
INVARIANTS MutualExclusion SleepersAwaitHolder
PROPERTIES HoldingIsExact SleeperWakes
