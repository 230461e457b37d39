---------------------------- MODULE ConsoleQueue ----------------------------
(***************************************************************************)
(* What kern/console.c promises to the programs that read the console,     *)
(* without a ring, locks, sleep or an interrupt handler:                   *)
(*                                                                         *)
(*   - what is typed can be edited until the line is complete, and is then *)
(*     read once, in order;                                                *)
(*   - a read takes no more than it asked for and nothing behind the end   *)
(*     of a line;                                                          *)
(*   - each ^D at the head of the input ends one read with no bytes.       *)
(***************************************************************************)
EXTENDS Naturals, Sequences

CONSTANTS
    Reader,
    Char,       \* what can be typed into a line, NL and EOF among it
    NL,         \* '\n'
    EOF,        \* ^D
    INPUT_BUF,  \* how much is kept of what is typed
    MaxRead     \* the largest read

VARIABLES
    ready,    \* complete lines that nobody has read
    editing,  \* the line being typed
    reading,  \* who is in a read
    left,     \* the bytes each read may still take
    got       \* the bytes it has taken

vars == <<ready, editing, reading, left, got>>

Init ==
    /\ ready = <<>> /\ editing = <<>>
    /\ reading = {}
    /\ left = [p \in Reader |-> 0] /\ got = [p \in Reader |-> <<>>]

Type(c) ==
    LET line == Append(editing, c) IN
    /\ Len(ready) + Len(editing) < INPUT_BUF
    /\ IF c \in {NL, EOF} \/ Len(ready) + Len(line) = INPUT_BUF
       THEN ready' = ready \o line /\ editing' = <<>>
       ELSE editing' = line /\ UNCHANGED ready
    /\ UNCHANGED <<reading, left, got>>

Erase ==
    /\ editing # <<>>
    /\ editing' = SubSeq(editing, 1, Len(editing) - 1)
    /\ UNCHANGED <<ready, reading, left, got>>

EraseLine ==
    /\ editing' = <<>>
    /\ UNCHANGED <<ready, reading, left, got>>

Call(p) ==
    /\ p \notin reading
    /\ \E n \in 0 .. MaxRead : left' = [left EXCEPT ![p] = n]
    /\ reading' = reading \cup {p}
    /\ UNCHANGED <<ready, editing, got>>

Return(p) ==
    /\ reading' = reading \ {p}
    /\ left' = [left EXCEPT ![p] = 0] /\ got' = [got EXCEPT ![p] = <<>>]

(* The read has all it asked for, or nothing and a ^D, or ends at a ^D.    *)
Full(p) ==
    /\ p \in reading /\ left[p] = 0
    /\ Return(p)
    /\ UNCHANGED <<ready, editing>>

EndOfFile(p) ==
    /\ p \in reading /\ left[p] > 0 /\ ready # <<>> /\ Head(ready) = EOF
    /\ ready' = IF got[p] = <<>> THEN Tail(ready) ELSE ready
    /\ Return(p)
    /\ UNCHANGED editing

Take(p) ==
    /\ p \in reading /\ left[p] > 0 /\ ready # <<>> /\ Head(ready) # EOF
    /\ ready' = Tail(ready)
    /\ IF Head(ready) = NL THEN Return(p)
       ELSE /\ left' = [left EXCEPT ![p] = @ - 1]
            /\ got' = [got EXCEPT ![p] = Append(@, Head(ready))]
            /\ UNCHANGED reading
    /\ UNCHANGED editing

Next ==
    \/ \E c \in Char : Type(c)
    \/ Erase \/ EraseLine
    \/ \E p \in Reader : Call(p) \/ Full(p) \/ EndOfFile(p) \/ Take(p)

Spec == Init /\ [][Next]_vars
=============================================================================
