SPECIFICATION FairSpec
CONSTANTS
    p1 = p1
    p2 = p2
    a = a
    Reader = {p1, p2}
    Ordinary = {a}
    NL = NL
    EOF = EOF
    INPUT_BUF = 3
    MaxRead = 2
    MaxIndex = 5
    Intr = Intr
    Nil = Nil
CHECK_DEADLOCK FALSE
INVARIANTS InputReachesReaders
PROPERTIES ImplementsConsoleQueue InputWakesReader
