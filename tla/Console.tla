------------------------------ MODULE Console -------------------------------
(***************************************************************************)
(* kern/console.c: the ring between the UART interrupt and the processes   *)
(* that read the console, under the spin lock conslock, and procdump of    *)
(* kern/proc.c, which a key starts and which prints under ptable.lock.     *)
(*                                                                         *)
(* A step is the code between two operations on a spin lock, except that   *)
(* each round of the loops under conslock is one.  sleep holds ptable.lock *)
(* from before it releases conslock until the process is off its CPU, so   *)
(* it is one step, which waits for ptable.lock with conslock held.  The    *)
(* interrupt is handled by CPU 0 alone.  Left out: console_write and other *)
(* calls of cprintf, which take conslock and change nothing that is read   *)
(* here, the echo, the lock of the console's inode, and panic.             *)
(***************************************************************************)
EXTENDS Naturals, Sequences, FiniteSetsExt

CONSTANTS
    Reader,     \* processes that read the console
    Ordinary,   \* characters other than those below
    NL,         \* '\n', also what '\r' becomes
    EOF,        \* ^D
    INPUT_BUF,  \* size of the ring
    MaxRead,    \* largest n of console_read
    MaxIndex,   \* bound on input.e
    Intr,       \* CPU 0 in the interrupt handler, as the holder of a lock
    Nil

ASSUME ConsoleAssumption ==
    /\ INPUT_BUF \in Nat \ {0} /\ MaxRead \in Nat /\ MaxIndex \in Nat
    /\ NL # EOF /\ NL \notin Ordinary /\ EOF \notin Ordinary
    /\ Intr \notin Reader /\ Nil \notin Reader \cup {Intr}

VARIABLES
    buf,     \* input.buf
    r,       \* input.r
    w,       \* input.w
    e,       \* input.e
    conslock,  \* who holds conslock
    ptable,  \* who holds ptable.lock
    pc,      \* where each process is in console_read
    n,       \* its n
    got,     \* what it has stored at dst
    ipc,     \* where the handler is
    dump     \* its doprocdump

vars == <<buf, r, w, e, conslock, ptable, pc, n, got, ipc, dump>>

Char == Ordinary \cup {NL, EOF}

TypeOK ==
    /\ buf \in [0 .. INPUT_BUF - 1 -> Char]
    /\ r \in Nat /\ w \in Nat /\ e \in Nat
    /\ r <= w /\ w <= e /\ e <= r + INPUT_BUF
    /\ conslock \in Reader \cup {Intr, Nil} /\ ptable \in {Intr, Nil}
    /\ pc \in [Reader -> {"out", "acquire", "loop", "sleep", "asleep"}]
    /\ n \in [Reader -> 0 .. MaxRead]
    /\ got \in [Reader -> Seq(Ordinary)]
    /\ ipc \in {"idle", "getc", "wake", "dump", "dumplock", "print"}
    /\ dump \in BOOLEAN

At(i) == buf[i % INPUT_BUF]

Init ==
    /\ \E c \in Char : buf = [i \in 0 .. INPUT_BUF - 1 |-> c]
    /\ r = 0 /\ w = 0 /\ e = 0
    /\ conslock = Nil /\ ptable = Nil
    /\ pc = [p \in Reader |-> "out"]
    /\ n = [p \in Reader |-> 0] /\ got = [p \in Reader |-> <<>>]
    /\ ipc = "idle" /\ dump = FALSE

Goto(p, l) == pc' = [pc EXCEPT ![p] = l]

-----------------------------------------------------------------------------
(* console_read *)

Call(p) ==
    /\ pc[p] = "out"
    /\ \E k \in 0 .. MaxRead : n' = [n EXCEPT ![p] = k]
    /\ Goto(p, "acquire")
    /\ UNCHANGED <<buf, r, w, e, conslock, ptable, got, ipc, dump>>

(* acquire(&conslock), on entry and when sleep returns. *)
Acquire(p) ==
    /\ pc[p] = "acquire" /\ conslock = Nil
    /\ conslock' = p
    /\ Goto(p, "loop")
    /\ UNCHANGED <<buf, r, w, e, ptable, n, got, ipc, dump>>

(* release(&conslock) and the return. *)
Return(p) ==
    /\ conslock' = Nil
    /\ n' = [n EXCEPT ![p] = 0] /\ got' = [got EXCEPT ![p] = <<>>]
    /\ Goto(p, "out")

Done(p) ==
    /\ pc[p] = "loop" /\ n[p] = 0
    /\ Return(p)
    /\ UNCHANGED <<buf, r, w, e, ptable, ipc, dump>>

Empty(p) ==
    /\ pc[p] = "loop" /\ n[p] > 0 /\ r = w
    /\ Goto(p, "sleep")
    /\ UNCHANGED <<buf, r, w, e, conslock, ptable, n, got, ipc, dump>>

(* TakeEOF, keeping the ^D also for a read that has nothing. *)
TakeEOFKeeps(p) ==
    /\ pc[p] = "loop" /\ n[p] > 0 /\ r # w /\ At(r) = EOF
    /\ r' = IF got[p] = <<>> THEN r ELSE r + 1
    /\ Return(p)
    /\ UNCHANGED <<buf, w, e, ptable, ipc, dump>>

(* ^D ends the read; it is kept for the next one unless this one has       *)
(* nothing.                                                                *)
TakeEOF(p) ==
    /\ pc[p] = "loop" /\ n[p] > 0 /\ r # w /\ At(r) = EOF
    /\ r' = IF got[p] = <<>> THEN r + 1 ELSE r
    /\ Return(p)
    /\ UNCHANGED <<buf, w, e, ptable, ipc, dump>>

Take(p) ==
    /\ pc[p] = "loop" /\ n[p] > 0 /\ r # w /\ At(r) # EOF
    /\ r' = r + 1
    /\ IF At(r) = NL THEN Return(p)
       ELSE /\ n' = [n EXCEPT ![p] = @ - 1]
            /\ got' = [got EXCEPT ![p] = Append(@, At(r))]
            /\ UNCHANGED <<conslock, pc>>
    /\ UNCHANGED <<buf, w, e, ptable, ipc, dump>>

(* sleep(&input.r, &conslock): ptable.lock is taken with conslock held. *)
Sleep(p) ==
    /\ pc[p] = "sleep" /\ ptable = Nil
    /\ conslock' = Nil
    /\ Goto(p, "asleep")
    /\ UNCHANGED <<buf, r, w, e, ptable, n, got, ipc, dump>>

-----------------------------------------------------------------------------
(* console_intr on CPU 0, while that is in user mode. *)

IntrAcquire ==
    /\ ipc = "idle" /\ conslock = Nil
    /\ conslock' = Intr
    /\ ipc' = "getc" /\ dump' = FALSE
    /\ UNCHANGED <<buf, r, w, e, ptable, pc, n, got>>

(* ^P *)
DumpKey ==
    /\ ipc = "getc"
    /\ dump' = TRUE
    /\ UNCHANGED <<buf, r, w, e, conslock, ptable, pc, n, got, ipc>>

(* ^U: back to the end of the last line. *)
KillKey ==
    /\ ipc = "getc"
    /\ e' = Max({k \in w .. e : k = w \/ At(k - 1) = NL})
    /\ UNCHANGED <<buf, r, w, conslock, ptable, pc, n, got, ipc, dump>>

(* Backspace *)
EraseKey ==
    /\ ipc = "getc" /\ e # w
    /\ e' = e - 1
    /\ UNCHANGED <<buf, r, w, conslock, ptable, pc, n, got, ipc, dump>>

Store(c) ==
    /\ ipc = "getc" /\ e < MaxIndex
    /\ buf' = [buf EXCEPT ![e % INPUT_BUF] = c]
    /\ e' = e + 1

Commit(yes) ==
    /\ IF yes THEN w' = e' /\ ipc' = "wake" ELSE UNCHANGED <<w, ipc>>
    /\ UNCHANGED <<r, conslock, ptable, pc, n, got, dump>>

(* Key, without the commit of a full ring. *)
KeyNoCommit(c) ==
    /\ e - r < INPUT_BUF
    /\ Store(c)
    /\ Commit(c \in {NL, EOF})

(* Any other character: dropped when the ring is full; the end of a line,  *)
(* ^D and a full ring make the input readable.                             *)
Key(c) ==
    /\ e - r < INPUT_BUF
    /\ Store(c)
    /\ Commit(c \in {NL, EOF} \/ e' = r + INPUT_BUF)

(* IntrWake, waking one reader. *)
IntrWakeOne ==
    /\ ipc = "wake" /\ ptable = Nil
    /\ IF \E p \in Reader : pc[p] = "asleep"
       THEN \E p \in Reader : pc[p] = "asleep" /\ Goto(p, "acquire")
       ELSE UNCHANGED pc
    /\ ipc' = "getc"
    /\ UNCHANGED <<buf, r, w, e, conslock, ptable, n, got, dump>>

(* wakeup(&input.r) *)
IntrWake ==
    /\ ipc = "wake" /\ ptable = Nil
    /\ pc' = [p \in Reader |-> IF pc[p] = "asleep" THEN "acquire" ELSE pc[p]]
    /\ ipc' = "getc"
    /\ UNCHANGED <<buf, r, w, e, conslock, ptable, n, got, dump>>

(* No more characters. *)
IntrEnd ==
    /\ ipc = "getc"
    /\ conslock' = Nil
    /\ ipc' = IF dump THEN "dump" ELSE "idle"
    /\ UNCHANGED <<buf, r, w, e, ptable, pc, n, got, dump>>

(* procdump: the title, ptable.lock, and the lines printed under it.  Each *)
(* cprintf takes and releases conslock.                                    *)
DumpTitle ==
    /\ ipc = "dump" /\ conslock = Nil
    /\ ipc' = "dumplock"
    /\ UNCHANGED <<buf, r, w, e, conslock, ptable, pc, n, got, dump>>

DumpAcquire ==
    /\ ipc = "dumplock" /\ ptable = Nil
    /\ ptable' = Intr
    /\ ipc' = "print"
    /\ UNCHANGED <<buf, r, w, e, conslock, pc, n, got, dump>>

DumpPrint ==
    /\ ipc = "print" /\ conslock = Nil
    /\ ptable' = Nil
    /\ ipc' = "idle"
    /\ UNCHANGED <<buf, r, w, e, conslock, pc, n, got, dump>>

-----------------------------------------------------------------------------
Read(p) == Done(p) \/ Empty(p) \/ TakeEOF(p) \/ Take(p) \/ Sleep(p)

Procdump == DumpTitle \/ DumpAcquire \/ DumpPrint

Next ==
    \/ \E p \in Reader : Call(p) \/ Acquire(p) \/ Read(p)
    \/ IntrAcquire \/ IntrWake \/ IntrEnd \/ Procdump
    \/ DumpKey \/ KillKey \/ EraseKey \/ \E c \in Char : Key(c)

Spec == Init /\ [][Next]_vars

(* A CPU with a lock goes on, one that spins gets a lock that becomes free *)
(* again and again, and the UART runs out of characters.                   *)
FairSpec ==
    /\ Spec
    /\ WF_vars(IntrWake) /\ SF_vars(IntrEnd) /\ SF_vars(Procdump)
    /\ \A p \in Reader : WF_vars(Read(p)) /\ SF_vars(Acquire(p))

-----------------------------------------------------------------------------
(* Properties. *)

Segment(i, j) == [k \in 1 .. j - i |-> At(i + k - 1)]

Queue == INSTANCE ConsoleQueue WITH
    ready <- Segment(r, w), editing <- Segment(w, e),
    reading <- {p \in Reader : pc[p] # "out"}, left <- n

(* The ring, however it wraps around and however readers and the handler   *)
(* interleave, loses, repeats and reorders no input: reads see the lines   *)
(* as they were typed and edited, and each ^D ends one read.               *)
ImplementsConsoleQueue == Queue!Spec

(* No process sleeps for input that is there, unless the handler is about  *)
(* to wake it: a reader that leaves input behind leaves no one asleep.     *)
NoInputSleptOver ==
    \A p \in Reader : pc[p] = "asleep" /\ r # w => ipc = "wake"

(* A ring with no space for a character has something to read, so that a   *)
(* line longer than the ring does not shut the keyboard off.               *)
FullRingIsReadable == e - r = INPUT_BUF => r # w

(* Input and readers find each other, through a ring that is full or not.  *)
InputReachesReaders == TypeOK /\ NoInputSleptOver /\ FullRingIsReadable

(* No deadlock of two CPUs: procdump does not print under ptable.lock      *)
(* while a reader waits for ptable.lock with conslock held.                *)
NoLockCycle == ptable = Intr => \A p \in Reader : pc[p] # "sleep"

(* While the deadlock of procdump and a reader does not happen, a reader   *)
(* that sleeps when input arrives is woken.                                *)
InputWakesReader ==
    []NoLockCycle =>
        \A p \in Reader : (pc[p] = "asleep" /\ r # w) ~> pc[p] # "asleep"
=============================================================================
