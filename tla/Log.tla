-------------------------------- MODULE Log ---------------------------------
(***************************************************************************)
(* kern/log.c: the redo log.  begin_op and end_op around each file system  *)
(* call, log_write, the group commit and the recovery by initlog, with the *)
(* loss of power between any two writes to the disk.                       *)
(*                                                                         *)
(* A buffer is shared by all who use its block: bread returns what the     *)
(* last of them has left there, bwrite returns when it is on the disk.  A  *)
(* block is one sector, so its write is not torn.  log.lock is held over   *)
(* each of the parts that are one step here.                               *)
(*                                                                         *)
(* mkfs gives the log LOGSIZE blocks, and the first of them is the header: *)
(* the last of the LOGSIZE places that write_log counts is the block       *)
(* behind the log, the first one with inodes.                              *)
(*                                                                         *)
(* fileclose makes its call with ftable.lock held, and openat takes that   *)
(* lock during its call.                                                   *)
(***************************************************************************)
EXTENDS Naturals, Sequences, FiniteSets

CONSTANTS
    Proc,         \* processes that make file system calls
    Blk,          \* blocks outside the log
    First,        \* the block behind the log: the first block of inodes
    Val,          \* contents of a block
    MAXOPBLOCKS,  \* blocks that begin_op reserves for a call
    OPBLOCKS,     \* blocks that a call may write that the log has not yet
    LOGSIZE,      \* size of log.lh.block, and blocks of the log
    Made,         \* contents of the blocks that mkfs makes
    Same,         \* blocks that calls write as they are: a bound of the model
    GoOn,         \* there are calls also after a transaction was too large
    Nil

ASSUME LogAssumption ==
    /\ IsFiniteSet(Proc) /\ Proc # {}
    /\ MAXOPBLOCKS \in Nat /\ OPBLOCKS \in Nat /\ LOGSIZE \in Nat
    /\ MAXOPBLOCKS <= LOGSIZE /\ LOGSIZE > 0
    /\ First \in Blk /\ Same \subseteq Blk
    /\ Made \in [Blk -> Val]
    /\ GoOn \in BOOLEAN
    /\ Nil \notin Proc

VARIABLES
    home,         \* the blocks on the disk, at their home locations
    logged,       \* the blocks of the log after the header, on the disk
    head,         \* the header block on the disk: the block numbers, in order
    cache,        \* the blocks as the buffer cache has them
    lh,           \* log.lh
    outstanding,  \* log.outstanding
    committing,   \* log.committing
    pc,           \* where each process is
    wrote,        \* how many blocks each call has brought into log.lh
    ftlock,       \* who holds ftable.lock during a call: a fileclose
    phase,        \* where commit() or recover_from_log() is
    tail,         \* its loop variable
    exceeded,     \* history: a call has written more into lh than it may
    spoilt        \* history: a transaction was too large for the log

disk == <<home, logged, head>>
vars == <<home, logged, head, cache, lh, outstanding, committing, pc, wrote, ftlock,
          phase, tail, exceeded, spoilt>>

PC    == {"out", "begin", "asleep", "op", "files", "commit", "down"}
Phase == {"idle", "log", "head", "install", "erase", "boot"}
Elems(s) == {s[i] : i \in 1 .. Len(s)}
Ops   == {p \in Proc : pc[p] \in {"op", "files"}}

TypeOK ==
    /\ home \in [Blk -> Val] /\ cache \in [Blk -> Val]
    /\ logged \in [1 .. LOGSIZE - 1 -> Val]
    /\ head \in Seq(Blk) /\ lh \in Seq(Blk)
    /\ outstanding \in 0 .. Cardinality(Proc)
    /\ committing \in BOOLEAN
    /\ pc \in [Proc -> PC]
    /\ wrote \in [Proc -> 0 .. OPBLOCKS]
    /\ ftlock \in Proc \cup {Nil}
    /\ phase \in Phase
    /\ tail \in 1 .. LOGSIZE + 1
    /\ exceeded \in BOOLEAN /\ spoilt \in BOOLEAN

(* The disk that mkfs makes, after initlog. *)
Init ==
    /\ home = Made /\ cache = home
    /\ \E v \in Val : logged = [i \in 1 .. LOGSIZE - 1 |-> v]
    /\ head = <<>> /\ lh = <<>>
    /\ outstanding = 0 /\ committing = FALSE
    /\ pc = [p \in Proc |-> "out"]
    /\ wrote = [p \in Proc |-> 0]
    /\ ftlock = Nil
    /\ phase = "idle" /\ tail = 1
    /\ exceeded = FALSE /\ spoilt = FALSE

Goto(p, l) == pc' = [pc EXCEPT ![p] = l]

(* wakeup(&log) in the state table s: the sleepers go on in begin_op. *)
Woken(s) == [p \in Proc |-> IF s[p] = "asleep" THEN "begin" ELSE s[p]]

-----------------------------------------------------------------------------
(* A file system call, or fileclose, which acquires ftable.lock first. *)
Call(p) ==
    /\ pc[p] = "out" /\ (spoilt => GoOn)
    /\ \/ UNCHANGED ftlock
       \/ ftlock = Nil /\ ftlock' = p
    /\ Goto(p, "begin")
    /\ UNCHANGED <<home, logged, head, cache, lh, outstanding, committing, wrote, phase, tail, exceeded, spoilt>>

(* BeginOp, without the reservation for the call itself. *)
BeginOpUnreserved(p) ==
    /\ pc[p] = "begin"
    /\ IF committing \/ Len(lh) + outstanding * MAXOPBLOCKS > LOGSIZE
       THEN Goto(p, "asleep") /\ UNCHANGED outstanding
       ELSE Goto(p, "op") /\ outstanding' = outstanding + 1
    /\ UNCHANGED <<home, logged, head, cache, lh, committing, wrote, ftlock, phase, tail, exceeded, spoilt>>

(* BeginOp, without the test of log.committing. *)
BeginOpDuringCommit(p) ==
    /\ pc[p] = "begin"
    /\ IF Len(lh) + (outstanding + 1) * MAXOPBLOCKS > LOGSIZE
       THEN Goto(p, "asleep") /\ UNCHANGED outstanding
       ELSE Goto(p, "op") /\ outstanding' = outstanding + 1
    /\ UNCHANGED <<home, logged, head, cache, lh, committing, wrote, ftlock, phase, tail, exceeded, spoilt>>

(* One round of the loop of begin_op. *)
BeginOp(p) ==
    /\ pc[p] = "begin"
    /\ IF committing \/ Len(lh) + (outstanding + 1) * MAXOPBLOCKS > LOGSIZE
       THEN Goto(p, "asleep") /\ UNCHANGED outstanding
       ELSE Goto(p, "op") /\ outstanding' = outstanding + 1
    /\ UNCHANGED <<home, logged, head, cache, lh, committing, wrote, ftlock, phase, tail, exceeded, spoilt>>

(* A call changes a block in its buffer and hands it to log_write, which   *)
(* records the block once, and behind the end of log.lh.block when that is *)
(* full: what this overwrites is not known, and no one goes on after it.   *)
LogWrite(p) ==
    /\ pc[p] = "op"
    /\ \E k \in Blk, v \in Val :
          /\ k \in Same => v = cache[k]
          /\ cache' = [cache EXCEPT ![k] = v]
          /\ IF k \in Elems(lh) THEN UNCHANGED <<lh, wrote>>
             ELSE /\ wrote[p] < OPBLOCKS
                  /\ lh' = Append(lh, k)
                  /\ wrote' = [wrote EXCEPT ![p] = @ + 1]
    /\ exceeded' = (exceeded \/ wrote'[p] > MAXOPBLOCKS)
    /\ spoilt' = (spoilt \/ Len(lh') > LOGSIZE)
    /\ UNCHANGED <<home, logged, head, outstanding, committing, pc, ftlock, phase, tail>>

(* A call that opens a file comes to filealloc, which takes ftable.lock    *)
(* for a moment, and here finds it taken.                                  *)
WantFile(p) ==
    /\ pc[p] = "op" /\ ftlock \notin {p, Nil}
    /\ Goto(p, "files")
    /\ UNCHANGED <<home, logged, head, cache, lh, outstanding, committing, wrote, ftlock, phase, tail, exceeded, spoilt>>

FileAlloc(p) ==
    /\ pc[p] = "files" /\ ftlock = Nil
    /\ Goto(p, "op")
    /\ UNCHANGED <<home, logged, head, cache, lh, outstanding, committing, wrote, ftlock, phase, tail, exceeded, spoilt>>

(* The call of p is over; fileclose releases ftable.lock. *)
Return(p) == ftlock' = IF ftlock = p THEN Nil ELSE ftlock

(* end_op: the last one out commits, another one wakes up whoever waits    *)
(* for log space.  It would panic during a commit.                         *)
EndOp(p) ==
    /\ pc[p] = "op" /\ ~committing
    /\ outstanding' = outstanding - 1
    /\ wrote' = [wrote EXCEPT ![p] = 0]
    /\ IF outstanding = 1
       THEN /\ committing' = TRUE
            /\ Goto(p, "commit")
            /\ phase' = IF lh = <<>> THEN "idle" ELSE "log"
            /\ tail' = 1
            /\ UNCHANGED ftlock
       ELSE /\ pc' = Woken([pc EXCEPT ![p] = "out"])
            /\ Return(p)
            /\ UNCHANGED <<committing, phase, tail>>
    /\ UNCHANGED <<home, logged, head, cache, lh, exceeded, spoilt>>

-----------------------------------------------------------------------------
(* commit() and recover_from_log(), one write to the disk at a time. *)

(* Place i of the log holds the block whose buffer is to go to block k, or *)
(* comes from it: the two buffers are one when both are the first block of *)
(* inodes, and bread then waits for the lock that its own caller holds.    *)
Apart(i) == ~(i = LOGSIZE /\ lh[i] = First)

(* write_log: the cached blocks go to the log, the last of LOGSIZE blocks  *)
(* through the buffer of First to the block behind the log.                *)
WriteLog ==
    /\ phase = "log" /\ Apart(tail)
    /\ LET v == cache[lh[tail]] IN
       IF tail < LOGSIZE
       THEN logged' = [logged EXCEPT ![tail] = v] /\ UNCHANGED <<home, cache, spoilt>>
       ELSE /\ home' = [home EXCEPT ![First] = v]
            /\ cache' = [cache EXCEPT ![First] = v]
            /\ spoilt' = TRUE
            /\ UNCHANGED logged
    /\ tail' = tail + 1
    /\ phase' = IF tail = Len(lh) THEN "head" ELSE "log"
    /\ UNCHANGED <<head, lh, outstanding, committing, pc, wrote, ftlock, exceeded>>

(* write_head: the commit. *)
WriteHead ==
    /\ phase = "head"
    /\ head' = lh
    /\ tail' = 1
    /\ phase' = "install"
    /\ UNCHANGED <<home, logged, cache, lh, outstanding, committing, pc, wrote, ftlock, exceeded, spoilt>>

(* install_trans: the log's blocks go to their home locations, through     *)
(* their buffers.                                                          *)
Install ==
    /\ phase = "install" /\ tail <= Len(lh) /\ Apart(tail)
    /\ LET v == IF tail < LOGSIZE THEN logged[tail] ELSE cache[First] IN
       /\ home' = [home EXCEPT ![lh[tail]] = v]
       /\ cache' = [cache EXCEPT ![lh[tail]] = v]
    /\ tail' = tail + 1
    /\ UNCHANGED <<logged, head, lh, outstanding, committing, pc, wrote, ftlock, phase, exceeded, spoilt>>

(* Erase, before the last block is installed. *)
EraseEarly ==
    /\ phase = "install"
    /\ lh' = <<>> /\ head' = <<>>
    /\ tail' = 1
    /\ phase' = "erase"
    /\ exceeded' = FALSE
    /\ UNCHANGED <<home, logged, cache, outstanding, committing, pc, wrote, ftlock, spoilt>>

(* log.lh.n = 0 and write_head. *)
Erase ==
    /\ phase = "install" /\ tail > Len(lh)
    /\ lh' = <<>> /\ head' = <<>>
    /\ tail' = 1
    /\ phase' = "erase"
    /\ exceeded' = FALSE
    /\ UNCHANGED <<home, logged, cache, outstanding, committing, pc, wrote, ftlock, spoilt>>

(* CommitEnd, without the wakeup. *)
CommitEndNoWakeup(p) ==
    /\ pc[p] = "commit" /\ phase \in {"idle", "erase"}
    /\ committing' = FALSE
    /\ phase' = "idle"
    /\ Goto(p, "out")
    /\ Return(p)
    /\ UNCHANGED <<home, logged, head, cache, lh, outstanding, wrote, tail, exceeded, spoilt>>

(* The end of end_op once commit() has returned. *)
CommitEnd(p) ==
    /\ pc[p] = "commit" /\ phase \in {"idle", "erase"}
    /\ committing' = FALSE
    /\ phase' = "idle"
    /\ pc' = Woken([pc EXCEPT ![p] = "out"])
    /\ Return(p)
    /\ UNCHANGED <<home, logged, head, cache, lh, outstanding, wrote, tail, exceeded, spoilt>>

-----------------------------------------------------------------------------
(* The machine stops; what is not on the disk is lost.  bread will then    *)
(* bring the blocks from the disk.                                         *)
Crash ==
    /\ cache' = home
    /\ lh' = <<>> /\ outstanding' = 0 /\ committing' = FALSE
    /\ pc' = [p \in Proc |-> "down"]
    /\ wrote' = [p \in Proc |-> 0] /\ ftlock' = Nil
    /\ phase' = "boot" /\ tail' = 1
    /\ exceeded' = FALSE
    /\ UNCHANGED <<disk, spoilt>>

(* read_head; install_trans and write_head follow as in a commit. *)
ReadHead ==
    /\ phase = "boot"
    /\ lh' = head
    /\ phase' = "install" /\ tail' = 1
    /\ UNCHANGED <<home, logged, head, cache, outstanding, committing, pc, wrote, ftlock, exceeded, spoilt>>

(* initlog returns in the first process, which starts the others. *)
Recovered ==
    /\ phase = "erase" /\ \A p \in Proc : pc[p] = "down"
    /\ phase' = "idle"
    /\ pc' = [p \in Proc |-> "out"]
    /\ UNCHANGED <<home, logged, head, cache, lh, outstanding, committing, wrote, ftlock, tail, exceeded, spoilt>>

-----------------------------------------------------------------------------
Flush == WriteLog \/ WriteHead \/ Install \/ Erase

(* log.lh.block has been written behind its end. *)
Overrun == Len(lh) > LOGSIZE

Next ==
    /\ ~Overrun
    /\ \/ \E p \in Proc : \/ Call(p) \/ BeginOp(p) \/ LogWrite(p) \/ WantFile(p)
                          \/ FileAlloc(p) \/ EndOp(p) \/ CommitEnd(p)
       \/ Flush \/ Crash \/ ReadHead \/ Recovered

Spec == Init /\ [][Next]_vars

(* The writes of a commit go on, every file system call ends that does not *)
(* wait for a lock, and a lock that is free again and again is acquired.   *)
FairSpec ==
    /\ Spec
    /\ WF_vars(~Overrun /\ (Flush \/ ReadHead \/ Recovered))
    /\ \A p \in Proc : /\ WF_vars(~Overrun /\ (BeginOp(p) \/ CommitEnd(p)))
                      /\ SF_vars(~Overrun /\ FileAlloc(p))
                      /\ SF_vars(~Overrun /\ EndOp(p))

-----------------------------------------------------------------------------
(* Properties. *)

(* What the blocks are after a crash and a recovery. *)
Recoverable ==
    LET Place(i) == IF i < LOGSIZE THEN logged[i] ELSE home[First] IN
    [k \in Blk |-> IF k \in Elems(head)
                   THEN Place(CHOOSE i \in 1 .. Len(head) : head[i] = k) ELSE home[k]]

Visible == IF \E p \in Proc : pc[p] = "down" THEN Recoverable ELSE cache

Atomic == INSTANCE AtomicDisk WITH
    Room <- LOGSIZE - 1,
    stable <- Recoverable, cur <- Visible, active <- Ops,
    changed <- IF phase \in {"idle", "log", "head"} THEN Elems(lh) ELSE {}

(* File system calls are atomic with respect to crashes: whatever write of *)
(* a commit or of a recovery the power fails at, recovery ends in a state  *)
(* in which no call was in progress; until a transaction comes that does   *)
(* not fit into the blocks of the log.                                     *)
ImplementsAtomicDisk == Atomic!Spec

(* The reservation of begin_op is enough: log.lh.block is only written     *)
(* behind its end in a transaction in which a call has written more blocks *)
(* than begin_op has reserved for it.                                      *)
LogFits == Overrun => exceeded

(* No call sleeps in begin_op for ever: whoever sleeps there sleeps during *)
(* a commit or while a call is in progress, and each of them ends with a   *)
(* wakeup.                                                                 *)
SleepersAreWoken ==
    \A p \in Proc : pc[p] = "asleep" => committing \/ outstanding > 0

(* No file system call is in progress during a commit, so that no block    *)
(* changes between write_log and install_trans.                            *)
CommitAlone ==
    phase # "idle" \/ committing => Ops = {}

(* A fileclose sleeps in begin_op with ftable.lock while a call that it    *)
(* waits for spins for this lock; a commit waits for the lock of a buffer  *)
(* that it holds itself; or the log has been overrun.                      *)
Wedged ==
    \/ ftlock # Nil /\ pc[ftlock] = "asleep" /\ \E p \in Proc : pc[p] = "files"
    \/ phase \in {"log", "install"} /\ tail <= Len(lh) /\ ~Apart(tail)
    \/ Overrun

(* A process that sleeps in begin_op comes back to the loop, unless the    *)
(* system is wedged in one of these three ways, and for good.              *)
SleeperWakes ==
    []<>~Wedged => \A p \in Proc : pc[p] = "asleep" ~> pc[p] # "asleep"
=============================================================================
