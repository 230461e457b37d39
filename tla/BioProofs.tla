----------------------------- MODULE BioProofs ------------------------------
(* Theorems about Bio, for any number of processes, buffers and blocks. *)
EXTENDS Bio, FiniteSetTheorems, TLAPS

(* The search for a block and the recycling of a buffer are one step under *)
(* bcache.lock, so a buffer gets a block that no other buffer has.         *)
CacheInv ==
    /\ blockno \in [Buf -> Blk \cup {Nil}]
    /\ want \in [Proc -> Blk \cup {Nil}]
    /\ OneBufferPerBlock

(* No buffer names a block at first. *)
LEMMA CacheInvInit == Init => CacheInv
  BY DEF Init, CacheInv, OneBufferPerBlock

(* Only BgetMiss gives a buffer another block. *)
LEMMA CacheInvNext == CacheInv /\ [Next]_vars => CacheInv'
  <1> SUFFICES ASSUME CacheInv, [Next]_vars PROVE CacheInv'
    OBVIOUS
  <1> USE DEF CacheInv
  <1>1. ASSUME NEW p \in Proc, Call(p) PROVE CacheInv'
    BY <1>1 DEF Call, OneBufferPerBlock
  <1>2. ASSUME NEW p \in Proc, BgetMiss(p) PROVE CacheInv'
    <2>1. PICK b \in Free(p) : blockno' = [blockno EXCEPT ![b] = want[p]]
      BY <1>2 DEF BgetMiss
    <2>2. \A d \in Buf : blockno[d] # want[p]
      BY <1>2 DEF BgetMiss, Cached
    <2>3. UNCHANGED want
      BY <1>2 DEF BgetMiss
    <2>4. b \in Buf
      BY DEF Free
    <2> QED
      BY <2>1, <2>2, <2>3, <2>4 DEF OneBufferPerBlock
  <1>3. ASSUME NEW p \in Proc, Brelse(p) PROVE CacheInv'
    BY <1>3 DEF Brelse, OneBufferPerBlock
  <1>4. ASSUME NEW p \in Proc,
               \/ BgetHit(p) \/ BgetPanics(p) \/ Lock(p) \/ Test(p) \/ LogWrite(p)
               \/ Bwrite(p) \/ SdStart(p) \/ SdDone(p)
        PROVE  CacheInv'
    <2>1. UNCHANGED <<blockno, want>>
      BY <1>4 DEF BgetHit, BgetPanics, Lock, Test, LogWrite, Bwrite, SdStart, SdDone
    <2> QED
      BY <2>1 DEF OneBufferPerBlock
  <1>5. CASE UNCHANGED vars
    BY <1>5 DEF vars, OneBufferPerBlock
  <1> QED
    BY <1>1, <1>2, <1>3, <1>4, <1>5 DEF Next

(* For any number of processes, also when they take each other's buffers:  *)
(* bget never lets two buffers cache the same block.                       *)
THEOREM OneBuffer == Spec => []OneBufferPerBlock
  <1>1. CacheInv => OneBufferPerBlock
    BY DEF CacheInv
  <1> QED
    BY <1>1, CacheInvInit, CacheInvNext, PTL DEF Spec

-----------------------------------------------------------------------------
(* A buffer that is given to a block stays one of some block. *)
PlaceInv ==
    \A p \in Proc :
        /\ pc[p] \in {"bget", "lock"} => want[p] \in Blk
        /\ pc[p] \in {"lock", "test", "start", "io"} =>
              buf[p] \in Buf /\ blockno[buf[p]] \in Blk
        /\ pc[p] = "io" => io[p] \in Blk
        /\ \A h \in held[p] : blockno[h[1]] \in Blk

(* Locks: who has a buffer has its sleep lock, also when bget has given    *)
(* the buffer away, and a dirty buffer stays that of the block that is     *)
(* being written from it.                                                  *)
RefOf(p) ==
    /\ pc[p] \in {"test", "start", "io"} => owner[buf[p]] = p
    /\ pc[p] = "io" /\ dirty[buf[p]] => io[p] = blockno[buf[p]]
    /\ \A h \in held[p] : owner[h[1]] = p
    /\ \A g, h \in held[p] : g[1] = h[1] => g = h

RefInv ==
    /\ \A p \in Proc : RefOf(p)
    /\ \A b \in Buf : owner[b] # Nil => Has(owner[b], b)

(* Contents, of a buffer that nobody lost: when it is valid and clean it   *)
(* has the contents of its block; ...                                      *)
CopyOfBuf(b) ==
    ~torn[b] => /\ dirty[b] => valid[b]
                /\ valid[b] => blockno[b] \in Blk /\ (dirty[b] \/ data[b] = disk[blockno[b]])

(* ... it is the buffer of the block it was asked for, and who has it and  *)
(* is not about to read it has it valid.                                   *)
CopyOfProc(p) ==
    /\ pc[p] = "lock" /\ ~torn[buf[p]] => blockno[buf[p]] = want[p]
    /\ pc[p] = "io" /\ ~torn[buf[p]] => io[p] = blockno[buf[p]]
    /\ pc[p] \in {"start", "io"} /\ ~torn[buf[p]] => dirty[buf[p]] \/ ~valid[buf[p]]
    /\ \A h \in held[p] : ~torn[h[1]] =>
          /\ blockno[h[1]] = h[2]
          /\ valid[h[1]] \/ (pc[p] \in {"test", "start", "io"} /\ buf[p] = h[1])

CopyInv == (\A b \in Buf : CopyOfBuf(b)) /\ \A p \in Proc : CopyOfProc(p)

-----------------------------------------------------------------------------
(* Moving a buffer to the front leaves a list of all buffers. *)
LEMMA ToFrontIsList ==
    ASSUME NEW s, IsList(s), NEW b \in Buf
    PROVE  IsList(ToFront(s, b))
  <1> DEFINE i == CHOOSE j \in 1 .. NBUF : s[j] = b
  <1>0. NBUF \in Nat
    BY BioAssumption, FS_CardinalityType DEF NBUF
  <1>1. i \in 1 .. NBUF /\ s[i] = b
    BY DEF IsList
  <1>2. ToFront(s, b) = [j \in 1 .. NBUF |-> IF j = 1 THEN b ELSE IF j <= i THEN s[j - 1] ELSE s[j]]
    BY DEF ToFront
  <1> HIDE DEF i
  <1>3. ToFront(s, b) \in [1 .. NBUF -> Buf]
    BY <1>0, <1>1, <1>2 DEF IsList
  <1>4. ASSUME NEW d \in Buf PROVE \E j \in 1 .. NBUF : ToFront(s, b)[j] = d
    <2>1. PICK k \in 1 .. NBUF : s[k] = d
      BY DEF IsList
    <2>2. CASE d = b
      BY <1>0, <1>1, <1>2, <2>2
    <2>3. CASE k < i
      <3>1. k + 1 \in 1 .. NBUF /\ k + 1 # 1 /\ k + 1 <= i /\ (k + 1) - 1 = k
        BY <1>0, <1>1, <2>3
      <3>2. ToFront(s, b)[k + 1] = d
        BY <1>2, <2>1, <3>1
      <3> QED
        BY <3>1, <3>2
    <2>4. CASE k > i
      BY <1>0, <1>1, <1>2, <2>1, <2>4
    <2> QED
      BY <1>0, <1>1, <2>1, <2>2, <2>3, <2>4
  <1> QED
    BY <1>3, <1>4 DEF IsList

(* Types are kept, also when processes take each other's buffers.          *)
LEMMA PlaceInvNext == TypeOK /\ PlaceInv /\ [Next]_vars => TypeOK' /\ PlaceInv'
  <1> SUFFICES ASSUME TypeOK, PlaceInv, [Next]_vars PROVE TypeOK' /\ PlaceInv'
    OBVIOUS
  <1> USE BioAssumption DEF TypeOK, PlaceInv, PC, Goto
  <1>1. ASSUME NEW p \in Proc, Call(p) \/ BgetPanics(p) PROVE TypeOK' /\ PlaceInv'
    BY <1>1 DEF Call, BgetPanics
  <1>2. ASSUME NEW p \in Proc, BgetHit(p) PROVE TypeOK' /\ PlaceInv'
    <2>1. PICK b \in Cached(want[p]) : /\ refcnt' = [refcnt EXCEPT ![b] = @ + 1]
                                       /\ buf' = [buf EXCEPT ![p] = b]
      BY <1>2 DEF BgetHit
    <2>2. b \in Buf /\ blockno[b] = want[p] /\ want[p] \in Blk
      BY <1>2 DEF BgetHit, Cached
    <2> QED
      BY <1>2, <2>1, <2>2 DEF BgetHit
  <1>3. ASSUME NEW p \in Proc, BgetMiss(p) PROVE TypeOK' /\ PlaceInv'
    <2>1. PICK b \in Free(p) : /\ blockno' = [blockno EXCEPT ![b] = want[p]]
                               /\ valid' = [valid EXCEPT ![b] = FALSE]
                               /\ dirty' = [dirty EXCEPT ![b] = FALSE]
                               /\ refcnt' = [refcnt EXCEPT ![b] = 1]
                               /\ buf' = [buf EXCEPT ![p] = b]
                               /\ torn' = [torn EXCEPT ![b] = Users(b) # {}]
      BY <1>3 DEF BgetMiss
    <2>2. b \in Buf /\ want[p] \in Blk
      BY <1>3 DEF BgetMiss, Free
    <2> QED
      BY <1>3, <2>1, <2>2 DEF BgetMiss
  <1>4. ASSUME NEW p \in Proc, Lock(p) \/ Test(p) \/ SdStart(p) PROVE TypeOK' /\ PlaceInv'
    BY <1>4 DEF Lock, Test, SdStart
  <1>5. ASSUME NEW p \in Proc, LogWrite(p) PROVE TypeOK' /\ PlaceInv'
    BY <1>5 DEF LogWrite
  <1>6. ASSUME NEW p \in Proc, Bwrite(p) PROVE TypeOK' /\ PlaceInv'
    BY <1>6 DEF Bwrite, Has
  <1>7. ASSUME NEW p \in Proc, SdDone(p) PROVE TypeOK' /\ PlaceInv'
    <2>1. buf[p] \in Buf /\ io[p] \in Blk
      BY <1>7 DEF SdDone
    <2>2. disk' \in [Blk -> Val] /\ data' \in [Buf -> Val]
      BY <1>7, <2>1 DEF SdDone
    <2>3. /\ valid' = [valid EXCEPT ![buf[p]] = TRUE] /\ dirty' = [dirty EXCEPT ![buf[p]] = FALSE]
          /\ io' = [io EXCEPT ![p] = Nil] /\ pc' = [pc EXCEPT ![p] = "out"]
          /\ UNCHANGED <<blockno, refcnt, lru, owner, want, buf, held, torn>>
      BY <1>7 DEF SdDone
    <2> QED
      BY <2>1, <2>2, <2>3
  <1>8. ASSUME NEW p \in Proc, Brelse(p) PROVE TypeOK' /\ PlaceInv'
    <2>1. PICK h \in held[p] :
              /\ owner' = [owner EXCEPT ![h[1]] = Nil]
              /\ refcnt' = [refcnt EXCEPT ![h[1]] = @ - 1]
              /\ lru' = IF refcnt[h[1]] = 1 THEN ToFront(lru, h[1]) ELSE lru
              /\ held' = [held EXCEPT ![p] = @ \ {h}]
      BY <1>8 DEF Brelse
    <2>2. h[1] \in Buf
      OBVIOUS
    <2>3. IsList(lru')
      BY <2>1, <2>2, ToFrontIsList
    <2>4. /\ buf' = [buf EXCEPT ![p] = Nil] /\ want' = [want EXCEPT ![p] = Nil] /\ pc[p] = "out"
          /\ UNCHANGED <<blockno, valid, dirty, data, disk, pc, io, torn>>
      BY <1>8 DEF Brelse
    <2> QED
      BY <2>1, <2>2, <2>3, <2>4
  <1>9. CASE UNCHANGED vars
    BY <1>9 DEF vars, IsList
  <1> QED
    BY <1>1, <1>2, <1>3, <1>4, <1>5, <1>6, <1>7, <1>8, <1>9 DEF Next

(* Where the calls start from. *)
LEMMA PlaceInvInit == Init => TypeOK /\ PlaceInv
  BY DEF Init, TypeOK, PlaceInv, PC

(* The cache keeps its types, and each block is read into a buffer and     *)
(* written from one, for any number of processes.                          *)
THEOREM TypeCorrect == Spec => []TypeOK
  BY PlaceInvInit, PlaceInvNext, PTL DEF Spec

-----------------------------------------------------------------------------
(* Locks stay with those who took them. *)
LEMMA RefInvNext == TypeOK /\ PlaceInv /\ RefInv /\ [Next]_vars => RefInv'
  <1> SUFFICES ASSUME TypeOK, PlaceInv, RefInv, [Next]_vars PROVE RefInv'
    OBVIOUS
  <1> USE BioAssumption DEF Goto
  <1>0. /\ \A p \in Proc : RefOf(p)
        /\ \A b \in Buf : owner[b] # Nil => Has(owner[b], b)
        /\ pc \in [Proc -> PC] /\ buf \in [Proc -> Buf \cup {Nil}]
        /\ owner \in [Buf -> Proc \cup {Nil}] /\ held \in [Proc -> SUBSET (Buf \X Blk)]
        /\ blockno \in [Buf -> Blk \cup {Nil}] /\ dirty \in [Buf -> BOOLEAN]
        /\ io \in [Proc -> Blk \cup {Nil}]
    BY DEF TypeOK, RefInv
  <1>1. ASSUME NEW p \in Proc,
               \/ Call(p) \/ BgetPanics(p) \/ Test(p) \/ SdStart(p)
        PROVE  RefInv'
    <2>1. /\ UNCHANGED <<blockno, dirty, owner, buf, held>>
          /\ \A q \in Proc : q # p => UNCHANGED <<pc[q], io[q]>>
          /\ pc'[p] \in {"test", "start", "io"} => pc[p] \in {"test", "start", "io"}
          /\ pc'[p] = "io" => io'[p] = blockno[buf[p]]
      BY <1>0, <1>1 DEF Call, BgetPanics, Test, SdStart
    <2>2. \A q \in Proc : RefOf(q)'
      BY <1>0, <2>1 DEF RefOf
    <2> QED
      BY <1>0, <2>1, <2>2 DEF RefInv, Has
  <1>2. ASSUME NEW p \in Proc, SdDone(p) PROVE RefInv'
    <2>1. /\ pc[p] = "io" /\ pc' = [pc EXCEPT ![p] = "out"] /\ buf[p] \in Buf
          /\ dirty' = [dirty EXCEPT ![buf[p]] = FALSE] /\ io' = [io EXCEPT ![p] = Nil]
          /\ UNCHANGED <<blockno, owner, buf, held>>
      BY <1>2 DEF SdDone, PlaceInv
    <2>2. \A d \in Buf : dirty'[d] => dirty[d]
      BY <1>0, <2>1
    <2>3. \A q \in Proc : RefOf(q)'
      <3>1. RefOf(p)'
        BY <1>0, <2>1 DEF RefOf
      <3>2. ASSUME NEW q \in Proc, q # p PROVE RefOf(q)'
        BY <1>0, <2>1, <2>2, <3>2 DEF RefOf, PlaceInv
      <3> QED
        BY <3>1, <3>2
    <2> QED
      BY <1>0, <2>1, <2>3 DEF RefInv, Has
  <1>3. ASSUME NEW p \in Proc, LogWrite(p) \/ Bwrite(p) PROVE RefInv'
    <2>1. PICK b \in Buf : /\ Has(p, b)
                           /\ dirty' = [dirty EXCEPT ![b] = TRUE]
                           /\ \/ UNCHANGED <<pc, buf>>
                              \/ /\ pc' = [pc EXCEPT ![p] = "start"]
                                 /\ buf' = [buf EXCEPT ![p] = b]
      BY <1>3 DEF LogWrite, Bwrite
    <2>2. pc[p] = "out" /\ UNCHANGED <<blockno, owner, held, io>>
      BY <1>3 DEF LogWrite, Bwrite
    <2>3. owner[b] = p
      BY <1>0, <2>1 DEF Has, RefOf
    <2>4. \A q \in Proc : q # p /\ pc[q] \in {"test", "start", "io"} => buf[q] # b
      BY <1>0, <2>3 DEF RefOf
    <2>5. \A q \in Proc : RefOf(q)'
      <3>1. RefOf(p)'
        BY <1>0, <2>1, <2>2, <2>3 DEF RefOf
      <3>2. ASSUME NEW q \in Proc, q # p PROVE RefOf(q)'
        BY <1>0, <2>1, <2>2, <2>4, <3>2 DEF RefOf, PlaceInv
      <3> QED
        BY <3>1, <3>2
    <2> QED
      BY <1>0, <2>2, <2>5 DEF RefInv, Has
  <1>4. ASSUME NEW p \in Proc, BgetHit(p) PROVE RefInv'
    <2>1. /\ pc[p] = "bget" /\ pc' = [pc EXCEPT ![p] = "lock"]
          /\ UNCHANGED <<blockno, dirty, owner, held, io>>
          /\ \A q \in Proc : q # p => UNCHANGED <<pc[q], buf[q]>>
      BY <1>0, <1>4 DEF BgetHit
    <2>2. \A q \in Proc : RefOf(q)'
      BY <1>0, <2>1 DEF RefOf
    <2> QED
      BY <1>0, <2>1, <2>2 DEF RefInv, Has
  <1>5. ASSUME NEW p \in Proc, BgetMiss(p) PROVE RefInv'
    <2>1. PICK b \in Free(p) : /\ blockno' = [blockno EXCEPT ![b] = want[p]]
                               /\ dirty' = [dirty EXCEPT ![b] = FALSE]
                               /\ buf' = [buf EXCEPT ![p] = b]
      BY <1>5 DEF BgetMiss
    <2>2. /\ pc[p] = "bget" /\ pc' = [pc EXCEPT ![p] = "lock"] /\ b \in Buf
          /\ UNCHANGED <<owner, held, io>>
          /\ \A q \in Proc : q # p => UNCHANGED <<pc[q], buf[q]>>
      BY <1>0, <1>5, <2>1 DEF BgetMiss, Free
    <2>3. \A d \in Buf : dirty'[d] => dirty[d] /\ blockno'[d] = blockno[d]
      BY <1>0, <2>1, <2>2
    <2>4. \A q \in Proc : RefOf(q)'
      <3>1. RefOf(p)'
        BY <1>0, <2>1, <2>2 DEF RefOf
      <3>2. ASSUME NEW q \in Proc, q # p PROVE RefOf(q)'
        BY <1>0, <2>2, <2>3, <3>2 DEF RefOf, PlaceInv
      <3> QED
        BY <3>1, <3>2
    <2> QED
      BY <1>0, <2>2, <2>4 DEF RefInv, Has
  <1>6. ASSUME NEW p \in Proc, Lock(p) PROVE RefInv'
    <2>1. PICK b \in Buf : b = buf[p]
      BY <1>6 DEF Lock, PlaceInv
    <2>2. /\ pc[p] = "lock" /\ pc' = [pc EXCEPT ![p] = "test"]
          /\ owner[b] = Nil /\ owner' = [owner EXCEPT ![b] = p]
          /\ held' = [held EXCEPT ![p] = @ \cup {<<b, want[p]>>}]
          /\ UNCHANGED <<blockno, dirty, buf, io>>
      BY <1>6, <2>1 DEF Lock
    <2>3. \A q \in Proc : \A h \in held[q] : h[1] # b /\ h[1] \in Buf
      BY <1>0, <2>2 DEF RefOf
    <2>4. \A q \in Proc : RefOf(q)'
      <3>1. RefOf(p)'
        BY <1>0, <2>1, <2>2, <2>3 DEF RefOf
      <3>2. ASSUME NEW q \in Proc, q # p PROVE RefOf(q)'
        <4>1. pc[q] \in {"test", "start", "io"} => buf[q] # b
          BY <1>0, <2>2, <3>2 DEF RefOf
        <4> QED
          BY <1>0, <2>2, <2>3, <3>2, <4>1 DEF RefOf, PlaceInv
      <3> QED
        BY <3>1, <3>2
    <2>5. <<b, want[p]>> \in held'[p] /\ owner'[b] = p
      BY <1>0, <2>2
    <2>6. ASSUME NEW d \in Buf, owner'[d] # Nil, d # b PROVE Has(owner[d], d)'
      BY <1>0, <2>2, <2>6 DEF Has
    <2>7. \A d \in Buf : (owner[d] # Nil => Has(owner[d], d))'
      BY <2>5, <2>6 DEF Has
    <2> QED
      BY <2>4, <2>7 DEF RefInv
  <1>7. ASSUME NEW p \in Proc, Brelse(p) PROVE RefInv'
    <2>1. PICK h \in held[p] : /\ owner' = [owner EXCEPT ![h[1]] = Nil]
                               /\ held' = [held EXCEPT ![p] = @ \ {h}]
      BY <1>7 DEF Brelse
    <2>2. /\ pc[p] = "out" /\ buf' = [buf EXCEPT ![p] = Nil]
          /\ UNCHANGED <<blockno, dirty, pc, io>>
      BY <1>7 DEF Brelse
    <2>3. PICK b \in Buf : b = h[1] /\ owner[b] = p
      BY <1>0, <2>1 DEF RefOf
    <2>4. \A g \in held'[p] : g \in held[p] /\ g[1] # b
      BY <1>0, <2>1, <2>3 DEF RefOf
    <2>5. \A q \in Proc : RefOf(q)'
      <3>1. RefOf(p)'
        BY <1>0, <2>1, <2>2, <2>3, <2>4 DEF RefOf
      <3>2. ASSUME NEW q \in Proc, q # p PROVE RefOf(q)'
        BY <1>0, <2>1, <2>2, <2>3, <3>2 DEF RefOf, PlaceInv
      <3> QED
        BY <3>1, <3>2
    <2>6. \A d \in Buf : (owner[d] # Nil => Has(owner[d], d))'
      BY <1>0, <2>1, <2>3 DEF Has
    <2> QED
      BY <2>5, <2>6 DEF RefInv
  <1>8. CASE UNCHANGED vars
    BY <1>8 DEF vars, RefInv, RefOf, Has
  <1> QED
    BY <1>1, <1>2, <1>3, <1>4, <1>5, <1>6, <1>7, <1>8 DEF Next

(* binit leaves every buffer without a holder. *)
LEMMA RefInvInit == Init => RefInv
  BY DEF Init, RefInv, RefOf

-----------------------------------------------------------------------------
(* Valid buffers keep the contents of their blocks: only its holder reads  *)
(* or writes a buffer, no other buffer is of the same block, and a buffer  *)
(* that is recycled without a user is nobody's but the recycler's.         *)
LEMMA CopyInvNext ==
    TypeOK /\ PlaceInv /\ CacheInv /\ RefInv /\ CopyInv /\ [Next]_vars => CopyInv'
  <1> SUFFICES ASSUME TypeOK, PlaceInv, CacheInv, RefInv, CopyInv, [Next]_vars
               PROVE  CopyInv'
    OBVIOUS
  <1> USE BioAssumption DEF Goto
  <1>0. /\ \A p \in Proc : RefOf(p) /\ CopyOfProc(p)
        /\ \A b \in Buf : (owner[b] # Nil => Has(owner[b], b)) /\ CopyOfBuf(b)
        /\ pc \in [Proc -> PC] /\ buf \in [Proc -> Buf \cup {Nil}]
        /\ valid \in [Buf -> BOOLEAN] /\ dirty \in [Buf -> BOOLEAN] /\ torn \in [Buf -> BOOLEAN]
        /\ held \in [Proc -> SUBSET (Buf \X Blk)] /\ owner \in [Buf -> Proc \cup {Nil}]
        /\ blockno \in [Buf -> Blk \cup {Nil}] /\ data \in [Buf -> Val] /\ disk \in [Blk -> Val]
        /\ io \in [Proc -> Blk \cup {Nil}] /\ want \in [Proc -> Blk \cup {Nil}]
    BY DEF TypeOK, RefInv, CopyInv
  <1>1. ASSUME NEW p \in Proc, Call(p) \/ BgetHit(p) \/ BgetPanics(p) PROVE CopyInv'
    <2>1. /\ UNCHANGED <<blockno, valid, dirty, data, disk, held, io, torn>>
          /\ \A q \in Proc : q # p => UNCHANGED <<pc[q], buf[q], want[q]>>
          /\ pc[p] \in {"out", "bget"} /\ pc'[p] \in {"bget", "lock", "panic"}
          /\ pc'[p] = "lock" => blockno[buf'[p]] = want'[p]
      BY <1>0, <1>1 DEF Call, BgetHit, BgetPanics, Cached
    <2>2. \A q \in Proc : CopyOfProc(q)'
      BY <1>0, <2>1 DEF CopyOfProc
    <2> QED
      BY <1>0, <2>1, <2>2 DEF CopyInv, CopyOfBuf
  <1>2. ASSUME NEW p \in Proc, BgetMiss(p) PROVE CopyInv'
    <2>1. PICK b \in Free(p) : /\ blockno' = [blockno EXCEPT ![b] = want[p]]
                               /\ valid' = [valid EXCEPT ![b] = FALSE]
                               /\ dirty' = [dirty EXCEPT ![b] = FALSE]
                               /\ buf' = [buf EXCEPT ![p] = b]
                               /\ torn' = [torn EXCEPT ![b] = Users(b) # {}]
      BY <1>2 DEF BgetMiss
    <2>2. /\ pc[p] = "bget" /\ pc' = [pc EXCEPT ![p] = "lock"] /\ b \in Buf
          /\ UNCHANGED <<data, disk, held, io, want>>
      BY <1>2, <2>1 DEF BgetMiss, Free
    <2>3. \A d \in Buf : CopyOfBuf(d)'
      BY <1>0, <2>1, <2>2 DEF CopyOfBuf
    <2>4. ~torn'[b] => \A q \in Proc : /\ ~Has(q, b)
                                       /\ pc[q] \in {"lock", "test", "start", "io"} => buf[q] # b
      <3> SUFFICES ASSUME ~torn'[b], NEW q \in Proc
                   PROVE  /\ ~Has(q, b)
                          /\ pc[q] \in {"lock", "test", "start", "io"} => buf[q] # b
        OBVIOUS
      <3>1. q \notin Users(b)
        BY <1>0, <2>1, <2>2
      <3>2. ~Has(q, b) /\ (pc[q] = "lock" => buf[q] # b)
        BY <3>1 DEF Users
      <3>3. pc[q] \in {"test", "start", "io"} => owner[buf[q]] = q
        BY <1>0 DEF RefOf
      <3>4. owner[b] # q
        BY <1>0, <2>2, <3>2
      <3> QED
        BY <3>2, <3>3, <3>4
    <2>5. ~torn'[b] => \A q \in Proc : \A h \in held[q] : h[1] # b
      BY <2>4 DEF Has
    <2>6. CopyOfProc(p)'
      BY <1>0, <2>1, <2>2, <2>5 DEF CopyOfProc
    <2>7. ASSUME NEW q \in Proc, q # p PROVE CopyOfProc(q)'
      <3>1. /\ \A d \in Buf : d # b => UNCHANGED <<blockno[d], valid[d], dirty[d], torn[d]>>
            /\ pc'[q] = pc[q] /\ buf'[q] = buf[q] /\ want'[q] = want[q] /\ held'[q] = held[q]
        BY <1>0, <2>1, <2>2, <2>7
      <3>2. \A h \in held[q] : h[1] \in Buf
        BY <1>0
      <3> QED
        BY <1>0, <2>2, <2>4, <2>5, <3>1, <3>2 DEF CopyOfProc, PlaceInv
    <2> QED
      BY <2>3, <2>6, <2>7 DEF CopyInv
  <1>3. ASSUME NEW p \in Proc, Lock(p) PROVE CopyInv'
    <2>1. PICK b \in Buf : b = buf[p]
      BY <1>3 DEF Lock, PlaceInv
    <2>2. /\ held' = [held EXCEPT ![p] = @ \cup {<<b, want[p]>>}]
          /\ pc[p] = "lock" /\ pc' = [pc EXCEPT ![p] = "test"]
          /\ UNCHANGED <<blockno, valid, dirty, data, disk, buf, io, want, torn>>
      BY <1>3, <2>1 DEF Lock
    <2>3. CopyOfProc(p)'
      BY <1>0, <2>1, <2>2 DEF CopyOfProc
    <2>4. \A q \in Proc : q # p => CopyOfProc(q)'
      BY <1>0, <2>2 DEF CopyOfProc
    <2> QED
      BY <1>0, <2>2, <2>3, <2>4 DEF CopyInv, CopyOfBuf
  <1>4. ASSUME NEW p \in Proc, Test(p) \/ SdStart(p) PROVE CopyInv'
    <2>1. /\ UNCHANGED <<blockno, valid, dirty, data, disk, buf, held, want, torn>>
          /\ \A q \in Proc : q # p => pc'[q] = pc[q] /\ io'[q] = io[q]
          /\ \/ pc[p] = "test" /\ pc'[p] = "out" /\ valid[buf[p]]
             \/ pc[p] = "test" /\ pc'[p] = "start" /\ ~valid[buf[p]]
             \/ pc[p] = "start" /\ pc'[p] = "io" /\ io'[p] = blockno[buf[p]]
      BY <1>0, <1>4 DEF Test, SdStart
    <2>2. \A q \in Proc : CopyOfProc(q)'
      BY <1>0, <2>1 DEF CopyOfProc
    <2> QED
      BY <1>0, <2>1, <2>2 DEF CopyInv, CopyOfBuf
  <1>5. ASSUME NEW p \in Proc, LogWrite(p) \/ Bwrite(p) PROVE CopyInv'
    <2>1. PICK b \in Buf, v \in Val : /\ Has(p, b)
                                      /\ data' = [data EXCEPT ![b] = v]
                                      /\ dirty' = [dirty EXCEPT ![b] = TRUE]
                                      /\ \/ UNCHANGED <<pc, buf>>
                                         \/ /\ pc' = [pc EXCEPT ![p] = "start"]
                                            /\ buf' = [buf EXCEPT ![p] = b]
      BY <1>5 DEF LogWrite, Bwrite
    <2>2. pc[p] = "out" /\ UNCHANGED <<blockno, valid, disk, held, io, want, torn>>
      BY <1>5 DEF LogWrite, Bwrite
    <2>3. ~torn[b] => valid[b]
      BY <1>0, <2>1, <2>2 DEF Has, CopyOfProc
    <2>4. \A d \in Buf : CopyOfBuf(d)'
      BY <1>0, <2>1, <2>2, <2>3 DEF CopyOfBuf
    <2>5. CopyOfProc(p)'
      BY <1>0, <2>1, <2>2, <2>3 DEF CopyOfProc
    <2>6. ASSUME NEW q \in Proc, q # p PROVE CopyOfProc(q)'
      BY <1>0, <2>1, <2>2, <2>6 DEF CopyOfProc, PlaceInv
    <2> QED
      BY <2>4, <2>5, <2>6 DEF CopyInv
  <1>6. ASSUME NEW p \in Proc, SdDone(p) PROVE CopyInv'
    <2>1. PICK b \in Buf : b = buf[p]
      BY <1>6 DEF SdDone, PlaceInv
    <2>2. PICK k \in Blk : k = io[p]
      BY <1>6 DEF SdDone, PlaceInv
    <2>3. /\ pc[p] = "io" /\ owner[b] = p /\ blockno[b] \in Blk
          /\ dirty[b] \/ ~torn[b] => k = blockno[b]
          /\ valid' = [valid EXCEPT ![b] = TRUE] /\ dirty' = [dirty EXCEPT ![b] = FALSE]
          /\ pc' = [pc EXCEPT ![p] = "out"]
          /\ UNCHANGED <<blockno, buf, held, want, torn>>
          /\ \A q \in Proc : q # p => io'[q] = io[q]
      BY <1>0, <1>6, <2>1, <2>2 DEF SdDone, RefOf, CopyOfProc, PlaceInv
    <2>4. /\ ~torn[b] => data'[b] = disk'[blockno[b]]
          /\ \A d \in Buf : d # b => data'[d] = data[d]
          /\ \A j \in Blk : j # blockno[b] => disk'[j] = disk[j]
      BY <1>0, <1>6, <2>1, <2>2, <2>3 DEF SdDone
    <2>5. \A d \in Buf : d # b /\ blockno[d] \in Blk => blockno[d] # blockno[b]
      BY <2>3, BioAssumption DEF CacheInv, OneBufferPerBlock
    <2>6. \A d \in Buf : CopyOfBuf(d)'
      BY <1>0, <2>3, <2>4, <2>5 DEF CopyOfBuf
    <2>7. \A q \in Proc : q # p /\ pc[q] \in {"test", "start", "io"} => buf[q] # b
      BY <1>0, <2>3 DEF RefOf
    <2>8. CopyOfProc(p)'
      BY <1>0, <2>1, <2>3 DEF CopyOfProc
    <2>9. ASSUME NEW q \in Proc, q # p PROVE CopyOfProc(q)'
      BY <1>0, <2>3, <2>7, <2>9 DEF CopyOfProc, PlaceInv
    <2> QED
      BY <2>6, <2>8, <2>9 DEF CopyInv
  <1>7. ASSUME NEW p \in Proc, Brelse(p) PROVE CopyInv'
    <2>1. /\ pc[p] = "out" /\ \E h \in held[p] : held' = [held EXCEPT ![p] = @ \ {h}]
          /\ \A q \in Proc : q # p => UNCHANGED <<buf[q], want[q]>>
          /\ UNCHANGED <<blockno, valid, dirty, data, disk, pc, io, torn>>
      BY <1>0, <1>7 DEF Brelse
    <2>2. \A q \in Proc : held'[q] \subseteq held[q]
      BY <1>0, <2>1
    <2>3. CopyOfProc(p)'
      BY <1>0, <2>1, <2>2 DEF CopyOfProc
    <2>4. \A q \in Proc : q # p => CopyOfProc(q)'
      BY <1>0, <2>1, <2>2 DEF CopyOfProc
    <2> QED
      BY <1>0, <2>1, <2>3, <2>4 DEF CopyInv, CopyOfBuf
  <1>8. CASE UNCHANGED vars
    BY <1>8 DEF vars, CopyInv, CopyOfBuf, CopyOfProc
  <1> QED
    BY <1>1, <1>2, <1>3, <1>4, <1>5, <1>6, <1>7, <1>8 DEF Next

CacheOK == TypeOK /\ PlaceInv /\ CacheInv /\ RefInv /\ CopyInv

(* The empty cache satisfies it all. *)
LEMMA CacheOKInit == Init => CacheOK
  <1>1. Init => CopyInv
    BY DEF Init, CopyInv, CopyOfBuf, CopyOfProc
  <1> QED
    BY <1>1, PlaceInvInit, CacheInvInit, RefInvInit DEF CacheOK

(* Each part is kept with the help of the others. *)
LEMMA CacheOKNext == CacheOK /\ [Next]_vars => CacheOK'
  BY PlaceInvNext, CacheInvNext, RefInvNext, CopyInvNext DEF CacheOK

(* For any number of processes, also while they take buffers away from     *)
(* each other: locks, blocks and contents of the cache agree, but for the  *)
(* contents of a buffer that was taken away under a user.                  *)
THEOREM CacheInvariant == Spec => []CacheOK
  BY CacheOKInit, CacheOKNext, PTL DEF Spec

(* bread returns a locked buffer, with the contents of its block unless    *)
(* bget has given the buffer away under a user.                            *)
THEOREM BreadCorrect == Spec => []BreadReturnsItsBlock
  <1>1. CacheOK => BreadReturnsItsBlock
    <2> SUFFICES ASSUME CacheOK, NEW p \in Proc, NEW h \in held[p]
                 PROVE  /\ owner[h[1]] = p
                        /\ pc[p] = "out" /\ ~torn[h[1]] =>
                              /\ blockno[h[1]] = h[2] /\ valid[h[1]]
                              /\ dirty[h[1]] \/ data[h[1]] = disk[h[2]]
      BY DEF BreadReturnsItsBlock, CacheOK
    <2>1. h[1] \in Buf
      BY DEF CacheOK, TypeOK
    <2> QED
      BY <2>1 DEF CacheOK, RefInv, RefOf, CopyInv, CopyOfBuf, CopyOfProc
  <1> QED
    BY <1>1, CacheInvariant, PTL

-----------------------------------------------------------------------------
(* What bread returns for a block is in its valid buffer, or on the disk.  *)
LEMMA ContentsValue ==
    ASSUME CacheInv, NEW k \in Blk
    PROVE  /\ \A b \in Buf : blockno[b] = k /\ valid[b] => Contents(k) = data[b]
           /\ (\A b \in Buf : blockno[b] = k => ~valid[b]) => Contents(k) = disk[k]
  <1>1. ASSUME NEW b \in Buf, blockno[b] = k, valid[b] PROVE Contents(k) = data[b]
    <2> DEFINE c == CHOOSE d \in Cached(k) : valid[d]
    <2>1. b \in Cached(k)
      BY <1>1 DEF Cached
    <2>2. c \in Cached(k)
      BY <1>1, <2>1
    <2>3. c = b
      BY <1>1, <2>2, BioAssumption DEF Cached, CacheInv, OneBufferPerBlock
    <2>4. Contents(k) = data[c]
      BY <1>1, <2>1 DEF Contents
    <2> QED
      BY <2>3, <2>4
  <1> QED
    BY <1>1 DEF Contents, Cached

(* Recycling, reading and writing back leave a block as it was, unless its *)
(* buffer was given away under a user.                                     *)
LEMMA ContentsKept ==
    ASSUME CacheOK, CacheOK', NEW p \in Proc, NEW k \in Blk, \A b \in Cached(k) : ~torn[b],
           \/ Call(p) \/ BgetHit(p) \/ BgetMiss(p) \/ BgetPanics(p) \/ Lock(p) \/ Test(p)
           \/ SdStart(p) \/ SdDone(p) \/ Brelse(p)
    PROVE  Contents(k)' = Contents(k)
  <1> USE BioAssumption
  <1>0. /\ \A q \in Proc : RefOf(q) /\ CopyOfProc(q)
        /\ \A b \in Buf : CopyOfBuf(b) /\ (blockno[b] = k => ~torn[b])
        /\ valid \in [Buf -> BOOLEAN] /\ dirty \in [Buf -> BOOLEAN]
        /\ blockno \in [Buf -> Blk \cup {Nil}] /\ data \in [Buf -> Val] /\ disk \in [Blk -> Val]
        /\ CacheInv /\ CacheInv' /\ PlaceInv
    BY DEF TypeOK, CacheOK, RefInv, CopyInv, Cached
  <1>1. CASE Call(p) \/ BgetHit(p) \/ BgetPanics(p) \/ Lock(p) \/ Test(p) \/ SdStart(p) \/ Brelse(p)
    <2>1. UNCHANGED <<blockno, valid, data, disk>>
      BY <1>1 DEF Call, BgetHit, BgetPanics, Lock, Test, SdStart, Brelse
    <2> QED
      BY <2>1 DEF Contents, Cached
  <1>2. CASE BgetMiss(p)
    <2>1. PICK b \in Free(p) : /\ blockno' = [blockno EXCEPT ![b] = want[p]]
                               /\ valid' = [valid EXCEPT ![b] = FALSE]
      BY <1>2 DEF BgetMiss
    <2>2. /\ b \in Buf /\ ~dirty[b] /\ UNCHANGED <<data, disk>>
          /\ \A d \in Buf : blockno[d] # want[p]
      BY <1>2 DEF BgetMiss, Free, Cached
    <2>3. CASE k = want[p]
      <3>1. Contents(k) = disk[k]
        BY <1>0, <2>2, <2>3, ContentsValue
      <3>2. \A d \in Buf : blockno'[d] = k => ~valid'[d]
        BY <1>0, <2>1, <2>2, <2>3
      <3>3. Contents(k)' = disk'[k]
        BY <1>0, <3>2 DEF Contents, Cached
      <3> QED
        BY <2>2, <3>1, <3>3
    <2>4. CASE k # want[p] /\ \E d \in Buf : d # b /\ blockno[d] = k /\ valid[d]
      <3>1. PICK d \in Buf : d # b /\ blockno[d] = k /\ valid[d]
        BY <2>4
      <3>2. Contents(k) = data[d]
        BY <1>0, <3>1, ContentsValue
      <3>3. blockno'[d] = k /\ valid'[d] /\ \A c \in Buf : blockno'[c] = k => c = d
        BY <1>0, <2>1, <2>2, <3>1 DEF CacheInv, OneBufferPerBlock
      <3>4. Contents(k)' = data'[d]
        <4>1. \A c \in Cached(k)' : c = d
          BY <3>3 DEF Cached
        <4>2. d \in Cached(k)'
          BY <3>3 DEF Cached
        <4>3. (CHOOSE c \in Cached(k) : valid[c])' = d
          BY <3>3, <4>1, <4>2
        <4> QED
          BY <3>3, <4>2, <4>3 DEF Contents
      <3> QED
        BY <2>2, <3>2, <3>4
    <2>5. CASE k # want[p] /\ \A d \in Buf : d # b => ~(blockno[d] = k /\ valid[d])
      <3>1. Contents(k) = disk[k]
        <4>1. CASE blockno[b] = k /\ valid[b]
          BY <1>0, <2>2, <4>1, ContentsValue DEF CopyOfBuf
        <4>2. CASE ~(blockno[b] = k /\ valid[b])
          BY <1>0, <2>5, <4>2, ContentsValue
        <4> QED
          BY <4>1, <4>2
      <3>2. \A d \in Buf : blockno'[d] = k => ~valid'[d]
        BY <1>0, <2>1, <2>2, <2>5
      <3>3. Contents(k)' = disk'[k]
        BY <3>2 DEF Contents, Cached
      <3> QED
        BY <2>2, <3>1, <3>3
    <2> QED
      BY <2>3, <2>4, <2>5
  <1>3. CASE SdDone(p)
    <2>0. PICK b \in Buf : b = buf[p]
      BY <1>0, <1>3 DEF SdDone, PlaceInv
    <2>1. /\ pc[p] = "io" /\ io[p] \in Blk /\ blockno[b] \in Blk
          /\ dirty[b] \/ blockno[b] = k => io[p] = blockno[b]
          /\ valid' = [valid EXCEPT ![b] = TRUE] /\ blockno' = blockno
          /\ dirty' = [dirty EXCEPT ![b] = FALSE]
      BY <1>0, <1>3, <2>0 DEF SdDone, RefOf, CopyOfProc, PlaceInv
    <2>2. /\ blockno[b] = k => data'[b] = IF dirty[b] THEN data[b] ELSE disk[k]
          /\ \A d \in Buf : d # b => data'[d] = data[d]
          /\ \A j \in Blk : j # blockno[b] => disk'[j] = disk[j]
      BY <1>0, <1>3, <2>0, <2>1 DEF SdDone
    <2>3. CASE k = blockno[b]
      <3>1. \A c \in Buf : blockno[c] = k => c = b
        BY <1>0, <2>1, <2>3 DEF CacheInv, OneBufferPerBlock
      <3>2. Contents(k)' = data'[b]
        <4>1. \A c \in Cached(k)' : c = b
          BY <2>1, <3>1 DEF Cached
        <4>2. b \in Cached(k)' /\ valid'[b]
          BY <1>0, <2>1, <2>3 DEF Cached
        <4>3. (CHOOSE c \in Cached(k) : valid[c])' = b
          BY <4>1, <4>2
        <4> QED
          BY <4>2, <4>3 DEF Contents
      <3>3. CASE dirty[b]
        BY <1>0, <2>1, <2>2, <2>3, <3>2, <3>3, ContentsValue DEF CopyOfBuf
      <3>4. CASE ~dirty[b]
        <4>1. ~valid[b]
          BY <1>0, <2>0, <2>1, <2>3, <3>4 DEF CopyOfProc
        <4>2. Contents(k) = disk[k]
          BY <1>0, <3>1, <4>1, ContentsValue
        <4> QED
          BY <2>2, <2>3, <3>2, <3>4, <4>2
      <3> QED
        BY <3>3, <3>4
    <2>4. CASE k # blockno[b]
      <3>1. Cached(k)' = Cached(k) /\ b \notin Cached(k)
        BY <2>1, <2>4 DEF Cached
      <3>2. \A c \in Cached(k) : valid'[c] = valid[c] /\ data'[c] = data[c]
        BY <1>0, <2>1, <2>2, <3>1 DEF Cached
      <3>3. CASE \E c \in Cached(k) : valid[c]
        <4>1. PICK c \in Cached(k) : valid[c]
          BY <3>3
        <4>2. c \in Buf /\ blockno[c] = k /\ blockno'[c] = k /\ valid'[c]
          BY <2>1, <3>2, <4>1 DEF Cached
        <4>3. Contents(k) = data[c]
          BY <1>0, <4>1, <4>2, ContentsValue
        <4>4. \A d \in Cached(k)' : d = c
          BY <1>0, <3>1, <4>1, <4>2, BioAssumption DEF Cached, CacheInv, OneBufferPerBlock
        <4>5. (CHOOSE d \in Cached(k) : valid[d])' = c
          BY <3>1, <4>1, <4>2, <4>4
        <4>6. Contents(k)' = data'[c]
          BY <3>1, <4>1, <4>2, <4>5 DEF Contents
        <4> QED
          BY <3>2, <4>1, <4>3, <4>6
      <3>4. CASE \A c \in Cached(k) : ~valid[c]
        BY <2>2, <2>4, <3>1, <3>2, <3>4 DEF Contents
      <3> QED
        BY <3>3, <3>4
    <2> QED
      BY <2>3, <2>4
  <1> QED
    BY <1>1, <1>2, <1>3

(* Writing a buffer changes the block that it caches and no other. *)
LEMMA WriteChangesOne ==
    ASSUME CacheOK, NEW p \in Proc, LogWrite(p) \/ Bwrite(p), NEW k \in Blk,
           Contents(k)' # Contents(k)
    PROVE  \E b \in Cached(k) : owner[b] = p
  <1>0. /\ \A q \in Proc : RefOf(q)
        /\ data \in [Buf -> Val] /\ held \in [Proc -> SUBSET (Buf \X Blk)]
    BY DEF CacheOK, TypeOK, RefInv
  <1>1. PICK b \in Buf, v \in Val : Has(p, b) /\ data' = [data EXCEPT ![b] = v]
    BY DEF LogWrite, Bwrite
  <1>2. UNCHANGED <<blockno, valid, disk>>
    BY DEF LogWrite, Bwrite
  <1>3. owner[b] = p
    BY <1>0, <1>1 DEF Has, RefOf
  <1>4. Cached(k)' = Cached(k) /\ \A c \in Cached(k) : c \in Buf
    BY <1>2 DEF Cached
  <1>5. SUFFICES ASSUME b \notin Cached(k) PROVE FALSE
    BY <1>3
  <1>6. \A c \in Cached(k) : data'[c] = data[c]
    BY <1>0, <1>1, <1>4, <1>5
  <1> DEFINE c == CHOOSE d \in Cached(k) : valid[d]
  <1>7. CASE \E d \in Cached(k) : valid[d]
    <2>1. c \in Cached(k) /\ c' = c
      BY <1>2, <1>4, <1>7
    <2> HIDE DEF c
    <2>2. Contents(k) = data[c] /\ Contents(k)' = data'[c']
      BY <1>2, <1>4, <1>7 DEF Contents, c
    <2> QED
      BY <1>6, <2>1, <2>2
  <1>8. CASE \A d \in Cached(k) : ~valid[d]
    BY <1>2, <1>4, <1>8 DEF Contents
  <1> QED
    BY <1>7, <1>8

(* The cache is transparent: what bread returns for a block changes when a *)
(* process that holds its buffer writes it, and never because a buffer is  *)
(* recycled, read, written back or given back, unless bget has given the   *)
(* buffer of the block away under a user.                                  *)
THEOREM CacheTransparent == Spec => OnlyOwnerChanges
  <1> DEFINE Owned == \A k \in Blk : Contents(k)' # Contents(k) =>
                 \E b \in Cached(k) :
                    \/ torn[b]
                    \/ \E p \in Proc : owner[b] = p /\ (LogWrite(p) \/ Bwrite(p))
  <1>1. CacheOK /\ [Next]_vars => [Owned]_vars
    <2> SUFFICES ASSUME CacheOK, Next, NEW k \in Blk, Contents(k)' # Contents(k),
                        \A b \in Cached(k) : ~torn[b]
                 PROVE  \E b \in Cached(k) :
                            \E p \in Proc : owner[b] = p /\ (LogWrite(p) \/ Bwrite(p))
      OBVIOUS
    <2>1. CacheOK'
      BY CacheOKNext
    <2>2. PICK p \in Proc : LogWrite(p) \/ Bwrite(p)
      BY <2>1, ContentsKept DEF Next
    <2> QED
      BY <2>2, WriteChangesOne
  <1>2. Spec => [][Owned]_vars
    BY <1>1, CacheInvariant, PTL DEF Spec
  <1> QED
    BY <1>2 DEF OnlyOwnerChanges
=============================================================================
