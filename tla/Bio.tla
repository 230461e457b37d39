-------------------------------- MODULE Bio ---------------------------------
(***************************************************************************)
(* kern/bio.c: the buffer cache.  bcache.lock is held over each search of  *)
(* the list and over brelse, so each is one step; the sleep lock of a      *)
(* buffer is SleepLock; sdrw takes one step to start the transfer of the   *)
(* block that the buffer names and one to end it, as Sd promises where     *)
(* requesters do not race.                                                 *)
(*                                                                         *)
(* bget recycles a buffer that is clean and not held by the caller, also   *)
(* one that another process holds or waits for; torn remembers it of the   *)
(* buffer until it is recycled again without a user.                       *)
(*                                                                         *)
(* The callers (fs.c, log.c) hold a few buffers at a time, never ask for a *)
(* block they hold, change only buffers they hold, and end a change with   *)
(* log_write or bwrite.  log_write pins the buffer with B_DIRTY until the  *)
(* commit writes the block.                                                *)
(***************************************************************************)
EXTENDS Integers, FiniteSets

CONSTANTS
    Proc,
    Buf,        \* bcache.buf (NBUF of them)
    Blk,        \* disk blocks
    Val,        \* contents of a block
    MaxHeld,    \* buffers that one process holds at a time
    MaxPinned,  \* buffers that the log pins at a time (at most LOGSIZE)
    Nil

ASSUME BioAssumption ==
    /\ Nil \notin Proc \cup Buf \cup Blk
    /\ IsFiniteSet(Buf) /\ MaxHeld \in Nat /\ MaxPinned \in Nat

VARIABLES
    blockno,  \* the block of each buffer; Nil: dev is -1
    valid,    \* B_VALID
    dirty,    \* B_DIRTY
    refcnt,
    data,
    lru,      \* the buffers in list order, head.next first
    owner,    \* the process that holds the sleep lock of each buffer
    disk,
    pc,       \* where each process is in bread or bwrite
    want,     \* bread's blockno
    buf,      \* the b of bget, bread and bwrite
    io,       \* the block that sdrw transfers for the process
    held,     \* the buffers each process has from bread, with the block asked for
    torn      \* history: the buffer was given away while someone was using it

vars == <<blockno, valid, dirty, refcnt, data, lru, owner, disk, pc, want, buf, io, held, torn>>

NBUF == Cardinality(Buf)

(* The list holds every buffer. *)
IsList(s) == s \in [1 .. NBUF -> Buf] /\ \A b \in Buf : \E i \in 1 .. NBUF : s[i] = b

PC == {"out", "bget", "lock", "test", "start", "io", "panic"}

TypeOK ==
    /\ blockno \in [Buf -> Blk \cup {Nil}]
    /\ valid \in [Buf -> BOOLEAN] /\ dirty \in [Buf -> BOOLEAN]
    /\ refcnt \in [Buf -> Int]
    /\ data \in [Buf -> Val] /\ disk \in [Blk -> Val]
    /\ IsList(lru)
    /\ owner \in [Buf -> Proc \cup {Nil}]
    /\ pc \in [Proc -> PC]
    /\ want \in [Proc -> Blk \cup {Nil}]
    /\ buf \in [Proc -> Buf \cup {Nil}]
    /\ io \in [Proc -> Blk \cup {Nil}]
    /\ held \in [Proc -> SUBSET (Buf \X Blk)]
    /\ torn \in [Buf -> BOOLEAN]

(* binit: the list holds every buffer, none of them caches a block. *)
Init ==
    /\ blockno = [b \in Buf |-> Nil]
    /\ valid = [b \in Buf |-> FALSE] /\ dirty = [b \in Buf |-> FALSE]
    /\ refcnt = [b \in Buf |-> 0]
    /\ disk \in [Blk -> Val]
    /\ \E v \in Val : data = [b \in Buf |-> v]
    /\ lru \in {s \in [1 .. NBUF -> Buf] : IsList(s)}
    /\ owner = [b \in Buf |-> Nil]
    /\ pc = [p \in Proc |-> "out"]
    /\ want = [p \in Proc |-> Nil] /\ buf = [p \in Proc |-> Nil]
    /\ io = [p \in Proc |-> Nil] /\ held = [p \in Proc |-> {}]
    /\ torn = [b \in Buf |-> FALSE]

Goto(p, l) == pc' = [pc EXCEPT ![p] = l]

-----------------------------------------------------------------------------
(* bread *)

Call(p) ==
    /\ pc[p] = "out" /\ Cardinality(held[p]) < MaxHeld
    /\ \E k \in Blk :
          /\ \A h \in held[p] : h[2] # k
          /\ want' = [want EXCEPT ![p] = k]
    /\ Goto(p, "bget")
    /\ UNCHANGED <<blockno, valid, dirty, refcnt, data, lru, owner, disk, buf, io, held, torn>>

Cached(k) == {b \in Buf : blockno[b] = k}

Has(p, b) == \E h \in held[p] : h[1] = b

(* Everybody who holds buffer b or waits for its sleep lock. *)
Users(b) == {p \in Proc : (pc[p] = "lock" /\ buf[p] = b) \/ Has(p, b)}

(* bget finds the block in the cache.  A process that holds the buffer     *)
(* itself sleeps on it: no caller asks for a block it holds, but another   *)
(* process may have given it the caller's buffer.                          *)
BgetHit(p) ==
    /\ pc[p] = "bget"
    /\ \E b \in Cached(want[p]) :
          /\ owner[b] # p
          /\ refcnt' = [refcnt EXCEPT ![b] = @ + 1]
          /\ buf' = [buf EXCEPT ![p] = b]
    /\ Goto(p, "lock")
    /\ UNCHANGED <<blockno, valid, dirty, data, lru, owner, disk, want, io, held, torn>>

(* Free, without the test of B_DIRTY. *)
FreeOrDirty(p) == {b \in Buf : owner[b] # p}

(* What bget takes for free: not held by the caller, not dirty. *)
Free(p) == {b \in Buf : owner[b] # p /\ ~dirty[b]}

(* BgetMiss, leaving B_VALID set. *)
BgetMissValid(p) ==
    /\ pc[p] = "bget" /\ Cached(want[p]) = {}
    /\ \E b \in Free(p) :
          /\ blockno' = [blockno EXCEPT ![b] = want[p]]
          /\ refcnt' = [refcnt EXCEPT ![b] = 1]
          /\ buf' = [buf EXCEPT ![p] = b]
          /\ torn' = [torn EXCEPT ![b] = Users(b) # {}]
    /\ Goto(p, "lock")
    /\ UNCHANGED <<valid, dirty, data, lru, owner, disk, want, io, held>>

(* BgetMiss, recycling without a search. *)
BgetMissUnsearched(p) ==
    /\ pc[p] = "bget"
    /\ \E b \in Free(p) :
          /\ blockno' = [blockno EXCEPT ![b] = want[p]]
          /\ valid' = [valid EXCEPT ![b] = FALSE]
          /\ refcnt' = [refcnt EXCEPT ![b] = 1]
          /\ buf' = [buf EXCEPT ![p] = b]
          /\ torn' = [torn EXCEPT ![b] = Users(b) # {}]
    /\ Goto(p, "lock")
    /\ UNCHANGED <<dirty, data, lru, owner, disk, want, io, held>>

(* bget recycles the free buffer that comes last in the list. *)
BgetMiss(p) ==
    /\ pc[p] = "bget" /\ Cached(want[p]) = {}
    /\ \E b \in Free(p) :
          /\ \E i \in 1 .. NBUF :
                lru[i] = b /\ \A j \in i + 1 .. NBUF : lru[j] \notin Free(p)
          /\ blockno' = [blockno EXCEPT ![b] = want[p]]
          /\ valid' = [valid EXCEPT ![b] = FALSE]
          /\ dirty' = [dirty EXCEPT ![b] = FALSE]
          /\ refcnt' = [refcnt EXCEPT ![b] = 1]
          /\ buf' = [buf EXCEPT ![p] = b]
          /\ torn' = [torn EXCEPT ![b] = Users(b) # {}]
    /\ Goto(p, "lock")
    /\ UNCHANGED <<data, lru, owner, disk, want, io, held>>

(* panic("bget: no buffers"): all of them are dirty or the caller's. *)
BgetPanics(p) ==
    /\ pc[p] = "bget" /\ Cached(want[p]) = {} /\ Free(p) = {}
    /\ Goto(p, "panic")
    /\ UNCHANGED <<blockno, valid, dirty, refcnt, data, lru, owner, disk, want, buf, io, held, torn>>

(* acquiresleep(&b->lock) *)
Lock(p) ==
    /\ pc[p] = "lock" /\ owner[buf[p]] = Nil
    /\ owner' = [owner EXCEPT ![buf[p]] = p]
    /\ held' = [held EXCEPT ![p] = @ \cup {<<buf[p], want[p]>>}]
    /\ Goto(p, "test")
    /\ UNCHANGED <<blockno, valid, dirty, refcnt, data, lru, disk, want, buf, io, torn>>

(* bread reads the block unless B_VALID is set. *)
Test(p) ==
    /\ pc[p] = "test"
    /\ Goto(p, IF valid[buf[p]] THEN "out" ELSE "start")
    /\ UNCHANGED <<blockno, valid, dirty, refcnt, data, lru, owner, disk, want, buf, io, held, torn>>

-----------------------------------------------------------------------------
(* What the callers do with a buffer they hold, and the disk. *)

(* The contents are changed, then log_write sets B_DIRTY. *)
LogWrite(p) ==
    /\ pc[p] = "out"
    /\ \E b \in Buf, v \in Val :
          /\ Has(p, b)
          /\ Cardinality({d \in Buf : dirty[d]} \cup {b}) <= MaxPinned
          /\ data' = [data EXCEPT ![b] = v]
          /\ dirty' = [dirty EXCEPT ![b] = TRUE]
    /\ UNCHANGED <<blockno, valid, refcnt, lru, owner, disk, pc, want, buf, io, held, torn>>

(* The contents are changed, then bwrite; it would panic for a buffer that *)
(* the process does not hold.                                              *)
Bwrite(p) ==
    /\ pc[p] = "out"
    /\ \E b \in Buf, v \in Val :
          /\ Has(p, b)
          /\ owner[b] = p
          /\ data' = [data EXCEPT ![b] = v]
          /\ dirty' = [dirty EXCEPT ![b] = TRUE]
          /\ buf' = [buf EXCEPT ![p] = b]
    /\ Goto(p, "start")
    /\ UNCHANGED <<blockno, valid, refcnt, lru, owner, disk, want, io, held, torn>>

(* sdrw: the block number is read when the request is started. *)
SdStart(p) ==
    /\ pc[p] = "start"
    /\ io' = [io EXCEPT ![p] = blockno[buf[p]]]
    /\ Goto(p, "io")
    /\ UNCHANGED <<blockno, valid, dirty, refcnt, data, lru, owner, disk, want, buf, held, torn>>

(* sdrw: the request is done, in the direction that B_DIRTY says. *)
SdDone(p) ==
    /\ pc[p] = "io"
    /\ IF dirty[buf[p]]
       THEN disk' = [disk EXCEPT ![io[p]] = data[buf[p]]] /\ UNCHANGED data
       ELSE data' = [data EXCEPT ![buf[p]] = disk[io[p]]] /\ UNCHANGED disk
    /\ valid' = [valid EXCEPT ![buf[p]] = TRUE]
    /\ dirty' = [dirty EXCEPT ![buf[p]] = FALSE]
    /\ io' = [io EXCEPT ![p] = Nil]
    /\ Goto(p, "out")
    /\ UNCHANGED <<blockno, refcnt, lru, owner, want, buf, held, torn>>

(* Buffer b is taken out of the list and put at its front. *)
ToFront(s, b) ==
    LET i == CHOOSE j \in 1 .. NBUF : s[j] = b
    IN  [j \in 1 .. NBUF |-> IF j = 1 THEN b ELSE IF j <= i THEN s[j - 1] ELSE s[j]]

(* brelse(b): the last reference moves the buffer to the front. *)
Brelse(p) ==
    /\ pc[p] = "out"
    /\ \E h \in held[p] :
          LET b == h[1] IN
          /\ owner[b] = p
          /\ owner' = [owner EXCEPT ![b] = Nil]
          /\ refcnt' = [refcnt EXCEPT ![b] = @ - 1]
          /\ lru' = IF refcnt[b] = 1 THEN ToFront(lru, b) ELSE lru
          /\ held' = [held EXCEPT ![p] = @ \ {h}]
    /\ buf' = [buf EXCEPT ![p] = Nil]
    /\ want' = [want EXCEPT ![p] = Nil]
    /\ UNCHANGED <<blockno, valid, dirty, data, disk, pc, io, torn>>

-----------------------------------------------------------------------------
(* A panic is the end. *)
Next ==
    \E p \in Proc :
        /\ \A q \in Proc : pc[q] # "panic"
        /\ \/ Call(p) \/ BgetHit(p) \/ BgetMiss(p) \/ BgetPanics(p) \/ Lock(p) \/ Test(p)
           \/ LogWrite(p) \/ Bwrite(p) \/ SdStart(p) \/ SdDone(p) \/ Brelse(p)

Spec == Init /\ [][Next]_vars

-----------------------------------------------------------------------------
(* A block has at most one buffer, so that there is one copy to lock, also *)
(* when buffers are taken away from their users: a search that finds none  *)
(* and the recycling of a buffer are not torn apart by another process.    *)
OneBufferPerBlock ==
    \A b, d \in Buf : blockno[b] = blockno[d] /\ blockno[b] # Nil => b = d

(* bread returns a locked buffer with the contents of the block that was   *)
(* asked for, and it stays that until brelse.  The only thing that can     *)
(* break it is that bget has given the buffer away under a user: no other  *)
(* interleaving of the calls does.                                         *)
BreadReturnsItsBlock ==
    /\ TypeOK
    /\ \A p \in Proc : \A h \in held[p] : LET b == h[1] IN
          /\ owner[b] = p
          /\ pc[p] = "out" /\ ~torn[b] =>
                blockno[b] = h[2] /\ valid[b] /\ (dirty[b] \/ data[b] = disk[h[2]])

(* The contents of a block, as bread would return them. *)
Contents(k) ==
    IF \E b \in Cached(k) : valid[b]
    THEN data[CHOOSE b \in Cached(k) : valid[b]] ELSE disk[k]

(* The cache is transparent: only the process that holds the buffer of a   *)
(* block changes what bread returns for it, whoever reads, recycles and    *)
(* writes back meanwhile; a change is lost, or one comes back, only with a *)
(* buffer that bget has given away under a user.                           *)
OnlyOwnerChanges ==
    [][\A k \in Blk : Contents(k)' # Contents(k) =>
          \E b \in Cached(k) :
             \/ torn[b]
             \/ \E p \in Proc : owner[b] = p /\ (LogWrite(p) \/ Bwrite(p))]_vars
=============================================================================
