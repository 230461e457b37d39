--------------------------------- MODULE Sd ---------------------------------
(***************************************************************************)
(* kern/sd.c: the queue of disk requests (sdque, with inc/list.h), the     *)
(* driver calls sdrw, sd_start and sd_intr, and the card.                  *)
(*                                                                         *)
(* sdrw tests and extends the queue before it takes sdlock, so each access *)
(* to the queue is a step of its own there, and several requesters and the *)
(* handler may be at the queue at once; raced remembers it.                *)
(*                                                                         *)
(* Block numbers are left out: buffer b is the buffer of block b.  The     *)
(* command layer under sd_start is one step.  sleep and wakeup on &sdlock  *)
(* are atomic, as ProcTable promises.                                      *)
(*                                                                         *)
(* A panic is no action: who has reached one has no next step (Panicked).  *)
(***************************************************************************)
EXTENDS Naturals

CONSTANTS
    Proc,  \* processes that read and write blocks
    Buf,   \* buffers, with their blocks
    Val,   \* contents of a block
    Head,  \* the list head sdque
    Intr,  \* the interrupt handler, as a holder of sdlock
    GoOn,  \* processes make requests also after two have met at the queue
    Nil

ASSUME SdAssumption ==
    /\ GoOn \in BOOLEAN
    /\ Head \notin Buf /\ Nil \notin Buf \cup {Head}
    /\ Intr \notin Proc /\ Nil \notin Proc \cup {Intr}
    /\ Nil \notin {"READ_RDY", "DATA_DONE", "DATA_ERROR", "ERROR"}

VARIABLES
    qnext,   \* qnext of each buffer and of the head
    valid,   \* B_VALID of each buffer
    dirty,   \* B_DIRTY of each buffer
    data,    \* contents of each buffer
    disk,    \* contents of each block on the card
    sdlock,  \* who holds sdlock
    xfer,    \* the card's transfer: its block, its direction, what it moves
    irq,     \* EMMC_INTERRUPT: Nil, "READ_RDY", "DATA_DONE", one of these with an
             \* error ("DATA_ERROR"), or an error alone ("ERROR")
    pc,      \* where each process is in sdrw
    buf,     \* sdrw's b
    empty,   \* sdrw's flag
    tmp,     \* list_push's tmp
    ipc,     \* where the interrupt handler is
    nxt,     \* list_pop_front's (head->qnext)->qnext
    failed,  \* history: the read of sdrw's b has ended with an error
    raced    \* history: two have been at the queue at once

vars == <<qnext, valid, dirty, data, disk, sdlock, xfer, irq, pc, buf, empty,
          tmp, ipc, nxt, failed, raced>>

PC  == {"out", "empty", "push", "walk", "clear", "lock", "start", "sleep", "asleep",
        "overslept", "relock", "check"}
IPC == {"idle", "intr", "pop", "popped", "more"}

NoXfer == [buf |-> Nil, write |-> FALSE, data |-> Nil]

TypeOK ==
    /\ qnext \in [Buf \cup {Head} -> Buf \cup {Nil}]
    /\ valid \in [Buf -> BOOLEAN] /\ dirty \in [Buf -> BOOLEAN]
    /\ data \in [Buf -> Val] /\ disk \in [Buf -> Val]
    /\ sdlock \in Proc \cup {Intr, Nil}
    /\ xfer \in [buf : Buf \cup {Nil}, write : BOOLEAN, data : Val \cup {Nil}]
    /\ irq \in {Nil, "READ_RDY", "DATA_DONE", "DATA_ERROR", "ERROR"}
    /\ pc \in [Proc -> PC] /\ ipc \in IPC
    /\ buf \in [Proc -> Buf \cup {Nil}]
    /\ empty \in [Proc -> BOOLEAN]
    /\ tmp \in [Proc -> Buf \cup {Head}]
    /\ nxt \in Buf \cup {Nil}
    /\ failed \in [Buf -> BOOLEAN] /\ raced \in BOOLEAN

(* sd_init, and bread has read every block once. *)
Init ==
    /\ qnext = [b \in Buf \cup {Head} |-> Nil]
    /\ valid = [b \in Buf |-> TRUE] /\ dirty = [b \in Buf |-> FALSE]
    /\ disk \in [Buf -> Val] /\ data = disk
    /\ sdlock = Nil /\ xfer = NoXfer /\ irq = Nil
    /\ pc = [p \in Proc |-> "out"] /\ ipc = "idle"
    /\ buf = [p \in Proc |-> Nil]
    /\ empty = [p \in Proc |-> FALSE]
    /\ tmp = [p \in Proc |-> Head]
    /\ nxt = Nil
    /\ failed = [b \in Buf |-> FALSE] /\ raced = FALSE

Goto(p, l) == pc' = [pc EXCEPT ![p] = l]

-----------------------------------------------------------------------------
(* The card. *)

(* sd_start(b): the card takes the command, and the data of a write; it    *)
(* panics when an interrupt is pending or the card answers with an error.  *)
CanStart(b) == b # Nil /\ irq = Nil /\ xfer = NoXfer

Started(b) == [buf |-> b, write |-> dirty[b], data |-> IF dirty[b] THEN data[b] ELSE Nil]

(* The card has written the block, or has the data of the block ready. *)
Finish ==
    /\ xfer.buf # Nil /\ irq = Nil
    /\ IF xfer.write
       THEN /\ disk' = [disk EXCEPT ![xfer.buf] = xfer.data]
            /\ irq' = "DATA_DONE"
            /\ UNCHANGED xfer
       ELSE /\ xfer' = [xfer EXCEPT !.data = disk[xfer.buf]]
            /\ irq' = "READ_RDY"
            /\ UNCHANGED disk
    /\ UNCHANGED <<qnext, valid, dirty, data, sdlock, pc, buf, empty, tmp, ipc, nxt, failed, raced>>

(* A request ends with an error, and with or without the flag of its end.  *)
(* The block of a write then holds anything; a read brings nothing.        *)
Fail ==
    /\ xfer.buf # Nil /\ irq = Nil
    /\ IF xfer.write THEN \E v \in Val : disk' = [disk EXCEPT ![xfer.buf] = v]
       ELSE UNCHANGED disk
    /\ irq' \in {"DATA_ERROR", "ERROR"}
    /\ UNCHANGED <<qnext, valid, dirty, data, sdlock, xfer, pc, buf, empty, tmp, ipc, nxt, failed, raced>>

-----------------------------------------------------------------------------
(* sdrw *)

(* A process that holds the sleep lock of a buffer no one else uses asks   *)
(* for a read (bread: bget has recycled it, what it holds is stale) or for *)
(* a write (bwrite: new contents, B_DIRTY).                                *)
Call(p) ==
    /\ pc[p] = "out" /\ (raced => GoOn)
    /\ \E b \in Buf, v \in Val :
          /\ \A q \in Proc : buf[q] # b
          /\ data' = [data EXCEPT ![b] = v]
          /\ buf' = [buf EXCEPT ![p] = b]
          /\ \/ /\ valid' = [valid EXCEPT ![b] = FALSE]
                /\ UNCHANGED dirty
             \/ /\ valid[b]
                /\ dirty' = [dirty EXCEPT ![b] = TRUE]
                /\ UNCHANGED valid
    /\ Goto(p, "empty")
    /\ UNCHANGED <<qnext, disk, sdlock, xfer, irq, empty, tmp, ipc, nxt, failed, raced>>

(* Who is at the queue: sdrw after the test, and the handler that unlinks  *)
(* the first request.                                                      *)
InPush(p) == pc[p] \in {"push", "walk", "clear"}
InPop == ipc \in {"pop", "popped", "more"}

(* flag = list_empty(&sdque), without the lock. *)
TestEmpty(p) ==
    /\ pc[p] = "empty"
    /\ raced' = (raced \/ InPop \/ \E q \in Proc : InPush(q))
    /\ empty' = [empty EXCEPT ![p] = qnext[Head] = Nil]
    /\ tmp' = [tmp EXCEPT ![p] = Head]
    /\ Goto(p, "push")
    /\ UNCHANGED <<qnext, valid, dirty, data, disk, sdlock, xfer, irq, buf, ipc, nxt, failed>>

(* list_push: one round of the loop that looks for the last element. *)
Walk(p) ==
    /\ pc[p] = "push"
    /\ IF qnext[tmp[p]] # Nil
       THEN tmp' = [tmp EXCEPT ![p] = qnext[tmp[p]]] /\ UNCHANGED pc
       ELSE Goto(p, "walk") /\ UNCHANGED tmp
    /\ UNCHANGED <<qnext, valid, dirty, data, disk, sdlock, xfer, irq, buf, empty, ipc, nxt, failed, raced>>

(* tmp->qnext = n *)
Link(p) ==
    /\ pc[p] = "walk"
    /\ qnext' = [qnext EXCEPT ![tmp[p]] = buf[p]]
    /\ Goto(p, "clear")
    /\ UNCHANGED <<valid, dirty, data, disk, sdlock, xfer, irq, buf, empty, tmp, ipc, nxt, failed, raced>>

(* n->qnext = NULL; tmp is not used again. *)
Clear(p) ==
    /\ pc[p] = "clear"
    /\ qnext' = [qnext EXCEPT ![buf[p]] = Nil]
    /\ tmp' = [tmp EXCEPT ![p] = Head]
    /\ Goto(p, "lock")
    /\ UNCHANGED <<valid, dirty, data, disk, sdlock, xfer, irq, buf, empty, ipc, nxt, failed, raced>>

(* Lock, going on without the start of the first request. *)
LockNoStart(p) ==
    /\ sdlock = Nil
    /\ sdlock' = p
    /\ \/ pc[p] = "lock" /\ Goto(p, "sleep")
       \/ pc[p] = "relock" /\ Goto(p, "check")
    /\ UNCHANGED <<qnext, valid, dirty, data, disk, xfer, irq, buf, empty, tmp, ipc, nxt, failed, raced>>

(* acquire(&sdlock), first or when sleep returns; flag is not used again. *)
Lock(p) ==
    /\ sdlock = Nil
    /\ sdlock' = p
    /\ \/ pc[p] = "lock" /\ empty[p] /\ Goto(p, "start")
       \/ pc[p] = "lock" /\ ~empty[p] /\ Goto(p, "sleep")
       \/ pc[p] = "relock" /\ Goto(p, "check")
    /\ empty' = [empty EXCEPT ![p] = FALSE]
    /\ UNCHANGED <<qnext, valid, dirty, data, disk, xfer, irq, buf, tmp, ipc, nxt, failed, raced>>

(* sd_start(list_front(&sdque)) *)
Start(p) ==
    /\ pc[p] = "start"
    /\ CanStart(qnext[Head])
    /\ xfer' = Started(qnext[Head])
    /\ Goto(p, "sleep")
    /\ UNCHANGED <<qnext, valid, dirty, data, disk, sdlock, irq, buf, empty, tmp, ipc, nxt, failed, raced>>

(* Sleep, returning at once: the write is left to the card. *)
SleepNot(p) ==
    /\ pc[p] = "sleep"
    /\ sdlock' = Nil
    /\ buf' = [buf EXCEPT ![p] = Nil]
    /\ Goto(p, "out")
    /\ UNCHANGED <<qnext, valid, dirty, data, disk, xfer, irq, empty, tmp, ipc, nxt, failed, raced>>

(* The flags of b say that its request is done. *)
Done(b) == valid[b] /\ ~dirty[b]

(* sleep(b, &sdlock), before any look at the flags: "overslept" is asleep, *)
(* for a request that has been done before.                                *)
Sleep(p) ==
    /\ pc[p] = "sleep"
    /\ sdlock' = Nil
    /\ Goto(p, IF Done(buf[p]) THEN "overslept" ELSE "asleep")
    /\ UNCHANGED <<qnext, valid, dirty, data, disk, xfer, irq, buf, empty, tmp, ipc, nxt, failed, raced>>

(* The loop around sleep: done when the flags say so. *)
Check(p) ==
    /\ pc[p] = "check"
    /\ IF Done(buf[p])
       THEN /\ sdlock' = Nil
            /\ buf' = [buf EXCEPT ![p] = Nil]
            /\ failed' = [failed EXCEPT ![buf[p]] = FALSE]
            /\ Goto(p, "out")
       ELSE Goto(p, "sleep") /\ UNCHANGED <<sdlock, buf, failed>>
    /\ UNCHANGED <<qnext, valid, dirty, data, disk, xfer, irq, empty, tmp, ipc, nxt, raced>>

-----------------------------------------------------------------------------
(* sd_intr, on CPU 0 while that is in user mode. *)

(* acquire(&sdlock); with an empty queue a "redundent interrupt" is left   *)
(* pending and the lock is released.                                       *)
IntrLock ==
    /\ ipc = "idle" /\ irq # Nil
    /\ sdlock = Nil
    /\ IF qnext[Head] = Nil THEN UNCHANGED <<sdlock, ipc>>
       ELSE sdlock' = Intr /\ ipc' = "intr"
    /\ UNCHANGED <<qnext, valid, dirty, data, disk, xfer, irq, pc, buf, empty, tmp, nxt, failed, raced>>

(* An interrupt with neither flag trips an assertion.  Otherwise, when a   *)
(* write is at the front and the interrupt is not that of a write that has *)
(* succeeded, the write is started again and data on offer are dropped.    *)
IntrRestart ==
    /\ ipc = "intr" /\ irq # "ERROR"
    /\ dirty[qnext[Head]] /\ irq # "DATA_DONE"
    /\ xfer' = Started(qnext[Head])
    /\ irq' = Nil
    /\ sdlock' = Nil
    /\ ipc' = "idle"
    /\ UNCHANGED <<qnext, valid, dirty, data, disk, pc, buf, empty, tmp, nxt, failed, raced>>

(* wakeup(b) *)
Woken(b) ==
    [p \in Proc |-> IF pc[p] \in {"asleep", "overslept"} /\ buf[p] = b THEN "relock" ELSE pc[p]]

(* A read moves the data the card offers into the buffer: any data, when   *)
(* the card has none.                                                      *)
Move(b) ==
    IF dirty[b] THEN UNCHANGED data
    ELSE \E v \in IF irq = "READ_RDY" THEN {xfer.data} ELSE Val :
            data' = [data EXCEPT ![b] = v]

(* The interrupt is taken for the end of the request for b. *)
Credit(b) ==
    /\ failed' = [failed EXCEPT ![b] = ~dirty[b] /\ irq # "READ_RDY"]
    /\ valid' = [valid EXCEPT ![b] = TRUE]
    /\ dirty' = [dirty EXCEPT ![b] = FALSE]
    /\ xfer' = NoXfer
    /\ irq' = Nil
    /\ ipc' = "pop"
    /\ raced' = (raced \/ \E p \in Proc : InPush(p))
    /\ UNCHANGED <<qnext, disk, sdlock, buf, empty, tmp, nxt>>

(* The interrupt is one that ends the request for b.  That of a read is    *)
(* always taken for a success: the test of INT_READ_RDY is one of the      *)
(* constant.                                                               *)
Ends(b) == ipc = "intr" /\ irq # "ERROR" /\ (dirty[b] => irq = "DATA_DONE")

(* IntrDone, without the move of the data. *)
IntrDoneNoData ==
    LET b == qnext[Head] IN
    Ends(b) /\ Credit(b) /\ pc' = Woken(b) /\ UNCHANGED data

(* IntrDone, without the wakeup. *)
IntrDoneNoWakeup ==
    LET b == qnext[Head] IN
    Ends(b) /\ Credit(b) /\ Move(b) /\ UNCHANGED pc

(* The interrupt is taken for that of the front. *)
IntrDone ==
    LET b == qnext[Head] IN
    Ends(b) /\ Credit(b) /\ Move(b) /\ pc' = Woken(b)

(* list_pop_front: the load and the store. *)
IntrLoad ==
    /\ ipc = "pop"
    /\ nxt' = qnext[qnext[Head]]
    /\ ipc' = "popped"
    /\ UNCHANGED <<qnext, valid, dirty, data, disk, sdlock, xfer, irq, pc, buf, empty, tmp, failed, raced>>

IntrStore ==
    /\ ipc = "popped"
    /\ qnext' = [qnext EXCEPT ![Head] = nxt]
    /\ nxt' = Nil
    /\ ipc' = "more"
    /\ UNCHANGED <<valid, dirty, data, disk, sdlock, xfer, irq, pc, buf, empty, tmp, failed, raced>>

(* The next request is started, if there is one. *)
IntrMore ==
    /\ ipc = "more"
    /\ IF qnext[Head] = Nil THEN UNCHANGED xfer
       ELSE CanStart(qnext[Head]) /\ xfer' = Started(qnext[Head])
    /\ sdlock' = Nil
    /\ ipc' = "idle"
    /\ UNCHANGED <<qnext, valid, dirty, data, disk, irq, pc, buf, empty, tmp, nxt, failed, raced>>

-----------------------------------------------------------------------------
Sdrw(p) ==
    \/ TestEmpty(p) \/ Walk(p) \/ Link(p) \/ Clear(p)
    \/ Start(p) \/ Sleep(p) \/ Check(p)

SdIntr ==
    IntrRestart \/ IntrDone \/ IntrLoad \/ IntrStore \/ IntrMore

Next == Finish \/ Fail \/ IntrLock \/ SdIntr \/ \E p \in Proc : Call(p) \/ Lock(p) \/ Sdrw(p)

Spec == Init /\ [][Next]_vars

(* The card does not fail for ever, CPU 0 comes back to user mode and      *)
(* takes the pending interrupt, and no CPU spins for ever for a lock that  *)
(* becomes free again and again.                                           *)
FairSpec ==
    /\ Spec
    /\ SF_vars(Finish) /\ WF_vars(SdIntr) /\ SF_vars(IntrLock)
    /\ \A p \in Proc : WF_vars(Sdrw(p)) /\ SF_vars(Lock(p))

-----------------------------------------------------------------------------
(* The transfer that the card performs is the one of the front of the      *)
(* queue, and there is one whenever the queue is not empty and no one is   *)
(* about to start it: no request is forgotten, no transfer is credited to  *)
(* another buffer.                                                         *)
CardServesFront ==
    /\ xfer # NoXfer => xfer.buf = qnext[Head] /\ (xfer.write <=> dirty[xfer.buf])
    /\ qnext[Head] # Nil /\ sdlock = Nil /\ ipc = "idle" =>
          xfer # NoXfer \/ \E p \in Proc : pc[p] \in {"clear", "lock"} /\ empty[p]

(* sd_start asserts that no interrupt is pending when a request starts:    *)
(* "emmc interrupt flag should be empty".                                  *)
InterruptEmptyAtStart ==
    /\ \A p \in Proc : pc[p] = "start" => irq = Nil
    /\ ipc = "more" => irq = Nil

(* The queue, the card and the handler stay in step however many requests  *)
(* are queued, fail and are started again: each is started when its turn   *)
(* comes, once, and on a controller that is quiet.  Only two at the queue  *)
(* at once, which the lock of sdrw comes too late for, can break that.     *)
QueueInStep == TypeOK /\ (~raced => CardServesFront /\ InterruptEmptyAtStart)

(* sdrw returns only when buffer and block agree: a write has reached the  *)
(* card, a read has brought the contents of its own block, unless it has   *)
(* failed, which the handler does not see, or two were at the queue.       *)
SdrwSyncs ==
    [][\A p \in Proc : LET b == buf[p] IN
          pc[p] = "check" /\ pc'[p] = "out" => data[b] = disk[b] \/ failed[b] \/ raced]_vars

(* Whatever the requests do to the queue, no other contents than those of  *)
(* its own buffer are written to a block: while the card writes it, the    *)
(* buffer stays dirty and unchanged, and its process stays in sdrw.        *)
CardWritesRequest ==
    xfer.write => /\ dirty[xfer.buf] /\ data[xfer.buf] = xfer.data
                  /\ \E p \in Proc : buf[p] = xfer.buf

(* Someone is at a panic, or starts a request on an empty queue. *)
Panicked ==
    \/ \E p \in Proc : pc[p] = "start" /\ ~CanStart(qnext[Head])
    \/ ipc = "more" /\ qnext[Head] # Nil /\ ~CanStart(qnext[Head])
    \/ ipc = "intr" /\ irq = "ERROR"

(* A process that has made a request returns from sdrw: its request is     *)
(* served and it is woken after that.  Of all that several requests and    *)
(* the handler can do to each other, short of meeting at the queue, only   *)
(* the sleep before the first test keeps one from returning.               *)
SdrwReturns ==
    []~(Panicked \/ raced) =>
        \A p \in Proc : pc[p] = "empty" ~> pc[p] \in {"out", "overslept"}
=============================================================================
