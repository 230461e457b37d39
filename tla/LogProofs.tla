----------------------------- MODULE LogProofs ------------------------------
(***************************************************************************)
(* Theorems about Log, for any number of processes and blocks and any size *)
(* of the log.                                                             *)
(***************************************************************************)
EXTENDS Log, FiniteSetTheorems, TLAPS

(* Who is where: the calls in progress are counted, one process commits at *)
(* a time and alone, and after a crash nobody runs until the recovery ends.*)
CallInv ==
    /\ pc \in [Proc -> PC] /\ committing \in BOOLEAN /\ phase \in Phase
    /\ outstanding = Cardinality(Ops)
    /\ \A p \in Proc : pc[p] = "commit" => committing
    /\ \A p, q \in Proc : pc[p] = "commit" /\ pc[q] = "commit" => p = q
    /\ committing => Ops = {} /\ \A p \in Proc : pc[p] # "down"
    /\ phase = "boot" => \A p \in Proc : pc[p] = "down"
    /\ \A p, q \in Proc : pc[p] = "down" => pc[q] = "down"
    /\ phase # "idle" => committing \/ \A p \in Proc : pc[p] = "down"
    /\ (\E p \in Proc : pc[p] = "down") => phase \in {"boot", "install", "erase"}

(* The log is empty when no call is in progress and none commits. *)
EmptyInv ==
    /\ lh \in Seq(Blk) /\ head \in Seq(Blk)
    /\ phase = "erase" => lh = <<>>
    /\ phase = "idle" /\ Ops = {} => lh = <<>>

OpsInv == CallInv /\ EmptyInv /\ SleepersAreWoken

-----------------------------------------------------------------------------
(* The empty log. *)
LEMMA NoBlocks == <<>> \in Seq(Blk)
  OBVIOUS

(* Counting the calls in progress. *)
LEMMA OpsFinite == IsFiniteSet(Ops) /\ Cardinality(Ops) \in Nat
  BY LogAssumption, FS_Subset, FS_CardinalityType DEF Ops

(* begin_op adds one call. *)
LEMMA OpsBegin ==
    ASSUME NEW p \in Proc, p \notin Ops, Ops' = Ops \cup {p}
    PROVE  Cardinality(Ops') = Cardinality(Ops) + 1
  BY OpsFinite, FS_AddElement

(* end_op takes one call away, the last one when the count is one. *)
LEMMA OpsEnd ==
    ASSUME NEW p \in Ops, Ops' = Ops \ {p}
    PROVE  /\ Cardinality(Ops') = Cardinality(Ops) - 1
           /\ Cardinality(Ops) = 1 <=> Ops' = {}
  <1>1. Cardinality(Ops') = Cardinality(Ops) - 1
    BY OpsFinite, FS_RemoveElement
  <1>2. IsFiniteSet(Ops')
    BY OpsFinite, FS_RemoveElement
  <1> QED
    BY <1>1, <1>2, OpsFinite, FS_EmptySet

-----------------------------------------------------------------------------
(* The disk of mkfs satisfies the invariant. *)
LEMMA OpsInvInit == Init => OpsInv
  <1> SUFFICES ASSUME Init PROVE OpsInv
    OBVIOUS
  <1>1. Ops = {}
    BY DEF Init, Ops
  <1>2. outstanding = Cardinality(Ops)
    BY <1>1, FS_EmptySet DEF Init
  <1> QED
    BY <1>1, <1>2, NoBlocks DEF Init, OpsInv, CallInv, EmptyInv, SleepersAreWoken, PC, Phase

(* Every step of the calls preserves it ... *)
LEMMA OpsInvCall ==
    ASSUME OpsInv, NEW p \in Proc,
           Call(p) \/ BeginOp(p) \/ LogWrite(p) \/ WantFile(p) \/ FileAlloc(p)
    PROVE  OpsInv'
  <1> USE DEF OpsInv, CallInv, EmptyInv, SleepersAreWoken
  <1>1. CASE Call(p)
    <2>1. Ops' = Ops
      BY <1>1 DEF Call, Goto, Ops
    <2> QED
      BY <1>1, <2>1 DEF Call, Goto, PC
  <1>2. CASE BeginOp(p)
    <2>1. CASE committing \/ Len(lh) + (outstanding + 1) * MAXOPBLOCKS > LOGSIZE
      <3>1. Ops' = Ops /\ pc' = [pc EXCEPT ![p] = "asleep"]
            /\ UNCHANGED <<lh, head, outstanding, committing, phase>>
        BY <1>2, <2>1 DEF BeginOp, Goto, Ops
      <3>2. committing \/ outstanding > 0
        <4> SUFFICES ASSUME ~committing, ~(outstanding > 0) PROVE FALSE
          OBVIOUS
        <4>1. Ops = {} /\ outstanding = 0
          BY OpsFinite, FS_EmptySet
        <4>2. lh = <<>>
          BY <1>2, <4>1 DEF BeginOp
        <4> QED
          BY <2>1, <4>1, <4>2, LogAssumption
      <3> QED
        BY <1>2, <3>1, <3>2 DEF PC, BeginOp
    <2>2. CASE ~(committing \/ Len(lh) + (outstanding + 1) * MAXOPBLOCKS > LOGSIZE)
      <3>1. pc' = [pc EXCEPT ![p] = "op"] /\ outstanding' = outstanding + 1
            /\ pc[p] = "begin" /\ UNCHANGED <<lh, head, committing, phase>>
        BY <1>2, <2>2 DEF BeginOp, Goto
      <3>2. p \notin Ops /\ Ops' = Ops \cup {p}
        BY <3>1 DEF Ops
      <3>3. Cardinality(Ops') = Cardinality(Ops) + 1
        BY <3>2, OpsBegin
      <3> QED
        BY <2>2, <3>1, <3>2, <3>3, OpsFinite DEF PC
    <2> QED
      BY <2>1, <2>2
  <1>3. CASE LogWrite(p)
    <2>1. Ops' = Ops /\ Ops # {}
      BY <1>3 DEF LogWrite, Ops
    <2>2. lh' \in Seq(Blk)
      <3>1. PICK k \in Blk : lh' = lh \/ lh' = Append(lh, k)
        BY <1>3 DEF LogWrite
      <3> QED
        BY <3>1
    <2> QED
      BY <1>3, <2>1, <2>2 DEF LogWrite
  <1>4. CASE WantFile(p) \/ FileAlloc(p)
    <2>1. Ops' = Ops
      BY <1>4 DEF WantFile, FileAlloc, Goto, Ops
    <2> QED
      BY <1>4, <2>1 DEF WantFile, FileAlloc, Goto, PC
  <1> QED
    BY <1>1, <1>2, <1>3, <1>4

(* ... and of end_op, also with the commit that ends it ... *)
LEMMA OpsInvEnd ==
    ASSUME OpsInv, NEW p \in Proc, EndOp(p) \/ CommitEnd(p)
    PROVE  OpsInv'
  <1> USE DEF OpsInv, CallInv, EmptyInv, SleepersAreWoken
  <1>1. CASE EndOp(p)
    <2>1. p \in Ops /\ Ops' = Ops \ {p}
      BY <1>1 DEF EndOp, Ops, Woken, Goto
    <2>2. /\ Cardinality(Ops') = Cardinality(Ops) - 1
          /\ Cardinality(Ops) = 1 <=> Ops' = {}
      BY <2>1, OpsEnd
    <2>3. CASE outstanding = 1
      BY <1>1, <2>2, <2>3 DEF EndOp, Goto, PC, Phase
    <2>4. CASE outstanding # 1
      <3>1. outstanding' > 0
        <4>1. outstanding \in Nat /\ outstanding # 0
          BY <2>1, OpsFinite, FS_EmptySet
        <4> QED
          BY <1>1, <2>4, <4>1 DEF EndOp
      <3> QED
        BY <1>1, <2>2, <2>4, <3>1 DEF EndOp, Woken, PC
    <2> QED
      BY <2>3, <2>4
  <1>2. CASE CommitEnd(p)
    <2>1. Ops' = Ops
      BY <1>2 DEF CommitEnd, Ops, Woken
    <2> QED
      BY <1>2, <2>1 DEF CommitEnd, Woken, PC, Phase
  <1> QED
    BY <1>1, <1>2

(* ... and of commit, of a crash and of the recovery. *)
LEMMA OpsInvDisk ==
    ASSUME OpsInv, Flush \/ Crash \/ ReadHead \/ Recovered
    PROVE  OpsInv'
  <1> USE DEF OpsInv, CallInv, EmptyInv, SleepersAreWoken
  <1>1. CASE Flush
    <2>1. Ops' = Ops /\ UNCHANGED <<pc, committing, outstanding>>
      BY <1>1 DEF Flush, WriteLog, WriteHead, Install, Erase, Ops
    <2>2. /\ lh' \in Seq(Blk) /\ head' \in Seq(Blk)
          /\ phase' \in {"log", "head", "install", "erase"}
          /\ phase' = "erase" => lh' = <<>>
          /\ phase \in {"log", "head", "install"}
          /\ phase = "install" => phase' \in {"install", "erase"}
      BY <1>1, NoBlocks DEF Flush, WriteLog, WriteHead, Install, Erase
    <2> QED
      BY <2>1, <2>2 DEF Phase
  <1>2. CASE Crash
    <2>1. Ops' = {}
      BY <1>2 DEF Crash, Ops
    <2>2. outstanding' = Cardinality(Ops')
      BY <1>2, <2>1, FS_EmptySet DEF Crash
    <2> QED
      BY <1>2, <2>1, <2>2, NoBlocks DEF Crash, disk, PC, Phase
  <1>3. CASE ReadHead
    <2>1. Ops' = Ops
      BY <1>3 DEF ReadHead, Ops
    <2>2. \A p \in Proc : pc[p] = "down"
      BY <1>3, LogAssumption DEF ReadHead
    <2> QED
      BY <1>3, <2>1, <2>2 DEF ReadHead, Phase
  <1>4. CASE Recovered
    <2>1. Ops' = {} /\ Ops = {}
      BY <1>4 DEF Recovered, Ops
    <2> QED
      BY <1>4, <2>1, FS_EmptySet DEF Recovered, PC, Phase
  <1> QED
    BY <1>1, <1>2, <1>3, <1>4

(* Every step preserves it. *)
LEMMA OpsInvNext == OpsInv /\ [Next]_vars => OpsInv'
  <1>1. ASSUME OpsInv, UNCHANGED vars PROVE OpsInv'
    BY <1>1 DEF vars, OpsInv, CallInv, EmptyInv, SleepersAreWoken, Ops
  <1> QED
    BY <1>1, OpsInvCall, OpsInvEnd, OpsInvDisk DEF Next

(* The invariant holds in every reachable state. *)
THEOREM OpsInvariant == Spec => []OpsInv
  BY OpsInvInit, OpsInvNext, PTL DEF Spec

(* For any number of processes and any size of the log: nobody sleeps in   *)
(* begin_op unless a commit or a call that will wake it is in progress.    *)
THEOREM NobodyStranded == Spec => []SleepersAreWoken
  <1>1. OpsInv => SleepersAreWoken
    BY DEF OpsInv
  <1> QED
    BY <1>1, OpsInvariant, PTL

(* No call is in progress during a commit or a recovery. *)
THEOREM CommitsAlone == Spec => []CommitAlone
  <1>1. OpsInv => CommitAlone
    BY DEF OpsInv, CallInv, CommitAlone, Ops
  <1> QED
    BY <1>1, OpsInvariant, PTL

-----------------------------------------------------------------------------
(* The reservation: what each call may still write is kept free, while no  *)
(* call has written more than that.                                        *)
Pending ==
    {x \in Ops \X (1 .. MAXOPBLOCKS) : x[2] + wrote[x[1]] <= MAXOPBLOCKS}

SpaceInv ==
    /\ wrote \in [Proc -> 0 .. OPBLOCKS] /\ exceeded \in BOOLEAN
    /\ \A p \in Proc : p \notin Ops => wrote[p] = 0
    /\ ~exceeded => /\ \A p \in Proc : wrote[p] <= MAXOPBLOCKS
                    /\ Len(lh) + Cardinality(Pending) <= LOGSIZE
    /\ Len(head) <= LOGSIZE

(* The numbers of the blocks that a call may write. *)
LEMMA CallBlocks ==
    IsFiniteSet(1 .. MAXOPBLOCKS) /\ Cardinality(1 .. MAXOPBLOCKS) = MAXOPBLOCKS
  BY LogAssumption, FS_Interval

(* The blocks that may still be written are finitely many. *)
LEMMA PendingBound ==
    /\ IsFiniteSet(Pending) /\ Cardinality(Pending) \in Nat
    /\ Cardinality(Pending) <= Cardinality(Ops) * MAXOPBLOCKS
  <1>1. IsFiniteSet(1 .. MAXOPBLOCKS) /\ Cardinality(1 .. MAXOPBLOCKS) = MAXOPBLOCKS
    BY CallBlocks
  <1>2. /\ IsFiniteSet(Ops \X (1 .. MAXOPBLOCKS))
        /\ Cardinality(Ops \X (1 .. MAXOPBLOCKS)) = Cardinality(Ops) * MAXOPBLOCKS
    BY <1>1, OpsFinite, FS_Product
  <1>3. Pending \in SUBSET (Ops \X (1 .. MAXOPBLOCKS))
    BY DEF Pending
  <1> QED
    BY <1>2, <1>3, FS_Subset, FS_CardinalityType

(* A smaller set of pending blocks counts less. *)
LEMMA PendingShrinks ==
    ASSUME NEW P \in SUBSET Pending
    PROVE  Cardinality(P) \in Nat /\ Cardinality(P) <= Cardinality(Pending)
  BY PendingBound, FS_Subset, FS_CardinalityType

(* A block that a call writes is one less that it may still write. *)
LEMMA PendingTaken ==
    ASSUME NEW p \in Ops, Ops' = Ops, wrote \in [Proc -> Nat], wrote' \in [Proc -> Nat],
           \A q \in Proc : q # p => wrote'[q] = wrote[q],
           wrote'[p] = wrote[p] + 1, wrote'[p] <= MAXOPBLOCKS
    PROVE  Cardinality(Pending') <= Cardinality(Pending) - 1 /\ Cardinality(Pending') \in Nat
  <1>1. wrote[p] \in Nat /\ MAXOPBLOCKS \in Nat /\ p \in Proc
    BY LogAssumption DEF Ops
  <1>2. PICK m \in 1 .. MAXOPBLOCKS : m + wrote[p] = MAXOPBLOCKS
    <2>1. MAXOPBLOCKS - wrote[p] \in 1 .. MAXOPBLOCKS
      BY <1>1
    <2> QED
      BY <1>1, <2>1
  <1>3. ~(m + wrote'[p] <= MAXOPBLOCKS)
    BY <1>1, <1>2
  <1>4. <<p, m>> \in Pending
    BY <1>1, <1>2 DEF Pending
  <1>5. <<p, m>> \notin Pending'
    BY <1>3 DEF Pending
  <1>6. ASSUME NEW q \in Ops, NEW i \in 1 .. MAXOPBLOCKS, i + wrote'[q] <= MAXOPBLOCKS
        PROVE  i + wrote[q] <= MAXOPBLOCKS
    <2>1. q \in Proc /\ wrote[q] \in Nat /\ wrote'[q] \in Nat /\ wrote[q] <= wrote'[q]
      BY <1>1 DEF Ops
    <2> QED
      BY <1>1, <1>6, <2>1
  <1>7. Pending' \in SUBSET (Pending \ {<<p, m>>})
    BY <1>5, <1>6 DEF Pending
  <1>8. /\ IsFiniteSet(Pending \ {<<p, m>>})
        /\ Cardinality(Pending \ {<<p, m>>}) = Cardinality(Pending) - 1
    BY <1>4, PendingBound, FS_RemoveElement
  <1> QED
    BY <1>7, <1>8, FS_Subset, FS_CardinalityType

(* log_write records a block at the end of the log. *)
LEMMA ElemsAppend ==
    ASSUME NEW s \in Seq(Blk), NEW k \in Blk
    PROVE  Elems(Append(s, k)) = Elems(s) \cup {k}
  <1>1. Len(Append(s, k)) = Len(s) + 1 /\ Append(s, k)[Len(s) + 1] = k
    OBVIOUS
  <1>2. \A i \in 1 .. Len(s) : Append(s, k)[i] = s[i]
    OBVIOUS
  <1> QED
    BY <1>1, <1>2 DEF Elems

(* begin_op only lets a call in when its reservation fits, and what a call *)
(* then writes comes out of its reservation.                               *)
LEMMA SpaceInvNext ==
    ASSUME OpsInv, SpaceInv, [Next]_vars
    PROVE  SpaceInv'
  <1> USE LogAssumption DEF SpaceInv
  <1>0. /\ lh \in Seq(Blk) /\ Len(lh) \in Nat
        /\ head \in Seq(Blk) /\ Len(head) \in Nat
    BY DEF OpsInv, EmptyInv
  <1>1. ASSUME NEW p \in Proc, Call(p) \/ WantFile(p) \/ FileAlloc(p) \/ CommitEnd(p)
        PROVE  SpaceInv'
    <2>1. Ops' = Ops /\ UNCHANGED <<lh, head, wrote, exceeded>>
      BY <1>1 DEF Call, WantFile, FileAlloc, CommitEnd, Goto, Woken, Ops, OpsInv, CallInv
    <2>2. Pending' = Pending
      BY <2>1 DEF Pending
    <2> QED
      BY <2>1, <2>2
  <1>2. ASSUME NEW p \in Proc, BeginOp(p) PROVE SpaceInv'
    <2>1. CASE committing \/ Len(lh) + (outstanding + 1) * MAXOPBLOCKS > LOGSIZE
      <3>1. Ops' = Ops /\ UNCHANGED <<lh, head, wrote, exceeded>>
        BY <1>2, <2>1 DEF BeginOp, Goto, Ops, OpsInv, CallInv
      <3>2. Pending' = Pending
        BY <3>1 DEF Pending
      <3> QED
        BY <3>1, <3>2
    <2>2. CASE ~(committing \/ Len(lh) + (outstanding + 1) * MAXOPBLOCKS > LOGSIZE)
      <3>1. p \notin Ops /\ Ops' = Ops \cup {p} /\ UNCHANGED <<lh, head, wrote, exceeded>>
        BY <1>2, <2>2 DEF BeginOp, Goto, Ops, OpsInv, CallInv
      <3>2. Cardinality(Ops') = outstanding + 1 /\ outstanding \in Nat
        BY <3>1, OpsBegin, OpsFinite DEF OpsInv, CallInv
      <3>3. Cardinality(Pending') <= Cardinality(Ops') * MAXOPBLOCKS
            /\ Cardinality(Pending') \in Nat
        <4>1. IsFiniteSet(1 .. MAXOPBLOCKS) /\ Cardinality(1 .. MAXOPBLOCKS) = MAXOPBLOCKS
          BY CallBlocks
        <4>2. IsFiniteSet(Ops')
          BY <3>1, OpsFinite, FS_AddElement
        <4>3. /\ IsFiniteSet(Ops' \X (1 .. MAXOPBLOCKS))
              /\ Cardinality(Ops' \X (1 .. MAXOPBLOCKS)) = Cardinality(Ops') * MAXOPBLOCKS
          BY <4>1, <4>2, FS_Product
        <4>4. Pending' \in SUBSET (Ops' \X (1 .. MAXOPBLOCKS))
          BY DEF Pending
        <4> QED
          BY <4>3, <4>4, FS_Subset, FS_CardinalityType
      <3>4. Len(lh) + (outstanding + 1) * MAXOPBLOCKS <= LOGSIZE
        BY <2>2, <3>2, <1>0
      <3>5. Len(lh)' + Cardinality(Pending') <= LOGSIZE
        <4> DEFINE r == (outstanding + 1) * MAXOPBLOCKS
        <4>1. Cardinality(Pending') <= r /\ Len(lh) + r <= LOGSIZE /\ r \in Nat
          BY <3>2, <3>3, <3>4
        <4> HIDE DEF r
        <4> QED
          BY <4>1, <3>1, <3>3, <1>0
      <3> QED
        BY <3>1, <3>5
    <2> QED
      BY <2>1, <2>2
  <1>3. ASSUME NEW p \in Proc, LogWrite(p) PROVE SpaceInv'
    <2>1. PICK k \in Blk : IF k \in Elems(lh) THEN UNCHANGED <<lh, wrote>>
                           ELSE /\ wrote[p] < OPBLOCKS
                                /\ lh' = Append(lh, k)
                                /\ wrote' = [wrote EXCEPT ![p] = @ + 1]
      BY <1>3 DEF LogWrite
    <2>2. /\ p \in Ops /\ Ops' = Ops /\ head' = head
          /\ exceeded' = (exceeded \/ wrote'[p] > MAXOPBLOCKS)
      BY <1>3 DEF LogWrite, Ops
    <2>3. wrote' \in [Proc -> 0 .. OPBLOCKS] /\ \A q \in Proc : q # p => wrote'[q] = wrote[q]
      BY <2>1
    <2>4. exceeded' \in BOOLEAN
      BY <2>2
    <2>5. \A q \in Proc : q \notin Ops' => wrote'[q] = 0
      BY <2>2, <2>3
    <2>6. ASSUME ~exceeded'
          PROVE  /\ \A q \in Proc : wrote'[q] <= MAXOPBLOCKS
                 /\ Len(lh') + Cardinality(Pending') <= LOGSIZE
      <3>1. ~exceeded /\ ~(wrote'[p] > MAXOPBLOCKS)
        BY <2>2, <2>6
      <3>2. wrote'[p] \in Nat /\ wrote[p] \in Nat
        BY <2>3
      <3>3. \A q \in Proc : wrote'[q] <= MAXOPBLOCKS
        BY <2>3, <3>1, <3>2
      <3>4. CASE k \in Elems(lh)
        <4>1. Pending' = Pending
          BY <2>1, <2>2, <3>4 DEF Pending
        <4> QED
          BY <2>1, <3>1, <3>3, <3>4, <4>1
      <3>5. CASE k \notin Elems(lh)
        <4>1. wrote'[p] = wrote[p] + 1
          BY <2>1, <3>5
        <4>2. Cardinality(Pending') <= Cardinality(Pending) - 1 /\ Cardinality(Pending') \in Nat
          <5>1. wrote \in [Proc -> Nat] /\ wrote' \in [Proc -> Nat] /\ wrote'[p] <= MAXOPBLOCKS
            BY <2>3, <3>3
          <5> QED
            BY <2>2, <2>3, <4>1, <5>1, PendingTaken
        <4>3. Len(lh') = Len(lh) + 1
          BY <2>1, <3>5, <1>0
        <4> QED
          BY <3>1, <3>3, <4>2, <4>3, <1>0, PendingBound
      <3> QED
        BY <3>4, <3>5
    <2> QED
      BY <2>2, <2>3, <2>4, <2>5, <2>6
  <1>4. ASSUME NEW p \in Proc, EndOp(p) PROVE SpaceInv'
    <2>1. /\ Ops' = Ops \ {p} /\ lh' = lh /\ head' = head /\ exceeded' = exceeded
          /\ wrote' = [wrote EXCEPT ![p] = 0]
      BY <1>4 DEF EndOp, Goto, Woken, Ops, OpsInv, CallInv
    <2>2. Pending' \in SUBSET Pending
      BY <2>1 DEF Pending
    <2>3. ~exceeded => Len(lh') + Cardinality(Pending') <= LOGSIZE
      BY <2>1, <2>2, <1>0, PendingShrinks, PendingBound
    <2> QED
      BY <2>1, <2>3
  <1>5. CASE Next /\ Flush
    <2>1. Ops = {} /\ Ops' = Ops /\ wrote' = wrote /\ Len(lh) <= LOGSIZE
      BY <1>0, <1>5 DEF Next, Overrun, Flush, WriteLog, WriteHead, Install, Erase, Ops,
                        OpsInv, CallInv
    <2>2. /\ (lh' = lh /\ exceeded' = exceeded) \/ (lh' = <<>> /\ exceeded' = FALSE)
          /\ head' = head \/ head' = lh \/ head' = <<>>
      BY <1>5 DEF Flush, WriteLog, WriteHead, Install, Erase
    <2>3. Pending' = {}
      BY <2>1 DEF Pending
    <2>4. Cardinality(Pending') = 0
      BY <2>3, FS_EmptySet
    <2>5. \A p \in Proc : wrote[p] = 0
      BY <2>1
    <2>6. Len(lh') <= LOGSIZE /\ Len(lh') \in Nat /\ Len(head') <= LOGSIZE
      BY <2>1, <2>2, <1>0
    <2>7. Len(lh') + Cardinality(Pending') <= LOGSIZE
      BY <2>4, <2>6
    <2>8. exceeded' \in BOOLEAN
      BY <2>2
    <2>9. \A p \in Proc : wrote[p] <= MAXOPBLOCKS
      BY <2>5
    <2> QED
      BY <2>1, <2>5, <2>6, <2>7, <2>8, <2>9
  <1>6. CASE Crash
    <2>1. /\ Ops' = {} /\ wrote' = [p \in Proc |-> 0] /\ exceeded' = FALSE
          /\ lh' = <<>> /\ head' = head
      BY <1>6 DEF Crash, disk, Ops
    <2>2. Pending' = {}
      BY <2>1 DEF Pending
    <2>3. Cardinality(Pending') = 0
      BY <2>2, FS_EmptySet
    <2>4. Len(lh') + Cardinality(Pending') <= LOGSIZE
      BY <2>1, <2>3
    <2>5. wrote' \in [Proc -> 0 .. OPBLOCKS] /\ \A p \in Proc : wrote'[p] = 0 /\ wrote'[p] <= MAXOPBLOCKS
      BY <2>1
    <2>6. exceeded' \in BOOLEAN /\ Len(head') <= LOGSIZE
      BY <2>1
    <2> QED
      BY <2>4, <2>5, <2>6
  <1>7. CASE ReadHead
    <2>1. /\ Ops = {} /\ Ops' = Ops /\ lh' = head
          /\ UNCHANGED <<head, wrote, exceeded>>
      BY <1>7, LogAssumption DEF ReadHead, Ops, OpsInv, CallInv
    <2>2. Pending' = {}
      BY <2>1 DEF Pending
    <2>3. Cardinality(Pending') = 0
      BY <2>2, FS_EmptySet
    <2>4. \A p \in Proc : wrote[p] = 0
      BY <2>1
    <2> QED
      BY <2>1, <2>3, <2>4, <1>0
  <1>8. CASE Recovered
    <2>1. Ops' = {} /\ Ops = {} /\ UNCHANGED <<lh, head, wrote, exceeded>>
      BY <1>8 DEF Recovered, Ops
    <2>2. Pending' = {} /\ Pending = {}
      BY <2>1 DEF Pending
    <2> QED
      BY <2>1, <2>2
  <1>9. CASE UNCHANGED vars
    <2>1. Ops' = Ops /\ UNCHANGED <<lh, head, wrote, exceeded>>
      BY <1>9 DEF vars, Ops
    <2>2. Pending' = Pending
      BY <2>1 DEF Pending
    <2> QED
      BY <2>1, <2>2
  <1> QED
    BY <1>1, <1>2, <1>3, <1>4, <1>5, <1>6, <1>7, <1>8, <1>9 DEF Next

(* At the start nothing is reserved and the log is empty. *)
LEMMA SpaceInvInit == Init => SpaceInv
  <1> SUFFICES ASSUME Init PROVE SpaceInv
    OBVIOUS
  <1>1. Ops = {} /\ wrote = [p \in Proc |-> 0] /\ Len(lh) = 0 /\ Len(head) = 0
    BY DEF Init, Ops
  <1>2. Pending = {}
    BY <1>1 DEF Pending
  <1>3. Cardinality(Pending) = 0
    BY <1>2, FS_EmptySet
  <1>4. wrote \in [Proc -> 0 .. OPBLOCKS] /\ \A p \in Proc : wrote[p] = 0 /\ wrote[p] <= MAXOPBLOCKS
    BY <1>1, LogAssumption
  <1>5. Len(lh) + Cardinality(Pending) <= LOGSIZE /\ Len(head) <= LOGSIZE
    BY <1>1, <1>3, LogAssumption
  <1>6. exceeded \in BOOLEAN
    BY DEF Init
  <1> QED
    BY <1>4, <1>5, <1>6 DEF SpaceInv

(* It holds in every reachable state. *)
THEOREM SpaceInvariant == Spec => []SpaceInv
  BY SpaceInvInit, SpaceInvNext, OpsInvariant, PTL DEF Spec

(* For any number of processes and blocks, any size of the log and any     *)
(* number of blocks that a call may write: log.lh.block is written behind  *)
(* its end only in a transaction in which a call has written more than     *)
(* begin_op has reserved for it.                                           *)
THEOREM ReservationSuffices == Spec => []LogFits
  <1>1. OpsInv /\ SpaceInv => LogFits
    <2> SUFFICES ASSUME OpsInv, SpaceInv PROVE LogFits
      OBVIOUS
    <2>1. Len(lh) \in Nat
      BY DEF OpsInv, EmptyInv
    <2> QED
      BY <2>1, PendingBound, LogAssumption DEF SpaceInv, LogFits, Overrun
  <1> QED
    BY <1>1, SpaceInvariant, OpsInvariant, PTL

-----------------------------------------------------------------------------
(* The contents of the disk and the cache, and the loop of the commit,     *)
(* which ends at the last block of the log.                                *)
DataInv ==
    /\ home \in [Blk -> Val] /\ cache \in [Blk -> Val]
    /\ logged \in [1 .. LOGSIZE - 1 -> Val]
    /\ tail \in 1 .. LOGSIZE + 1
    /\ phase = "log" => tail <= Len(lh)
    /\ ftlock \in Proc \cup {Nil} /\ spoilt \in BOOLEAN

(* Every step keeps it: there is none once log.lh.block is overrun.        *)
LEMMA DataInvNext == OpsInv /\ DataInv /\ [Next]_vars => DataInv'
  <1> SUFFICES ASSUME OpsInv, DataInv, [Next]_vars PROVE DataInv'
    OBVIOUS
  <1> USE LogAssumption DEF DataInv
  <1>1. CASE UNCHANGED vars
    BY <1>1 DEF vars
  <1>2. CASE Next
    <2>0. /\ lh \in Seq(Blk) /\ Len(lh) \in Nat /\ Len(lh) <= LOGSIZE
          /\ lh # <<>> => Len(lh) >= 1
          /\ \A k \in 1 .. Len(lh) : lh[k] \in Blk
      BY <1>2 DEF OpsInv, EmptyInv, Next, Overrun
    <2>1. ASSUME NEW p \in Proc,
                 Call(p) \/ BeginOp(p) \/ WantFile(p) \/ FileAlloc(p) \/ CommitEnd(p)
          PROVE  DataInv'
      BY <2>1 DEF Call, BeginOp, WantFile, FileAlloc, CommitEnd, Return
    <2>2. ASSUME NEW p \in Proc, LogWrite(p) PROVE DataInv'
      <3>1. phase = "idle" /\ phase' = "idle" /\ UNCHANGED <<home, logged, tail, ftlock>>
        BY <2>2 DEF LogWrite, OpsInv, CallInv, Ops
      <3>2. cache' \in [Blk -> Val]
        BY <2>2 DEF LogWrite
      <3>3. spoilt' \in BOOLEAN
        BY <2>2 DEF LogWrite
      <3> QED
        BY <3>1, <3>2, <3>3
    <2>3. ASSUME NEW p \in Proc, EndOp(p) PROVE DataInv'
      BY <2>0, <2>3 DEF EndOp, Return
    <2>4. CASE WriteLog
      <3>1. tail \in 1 .. Len(lh) /\ tail \in 1 .. LOGSIZE
        BY <2>0, <2>4 DEF WriteLog
      <3>2. cache[lh[tail]] \in Val
        BY <2>0, <3>1
      <3>3. home' \in [Blk -> Val] /\ cache' \in [Blk -> Val]
            /\ logged' \in [1 .. LOGSIZE - 1 -> Val]
        BY <2>4, <3>1, <3>2 DEF WriteLog
      <3>4. spoilt' \in BOOLEAN
        BY <2>4 DEF WriteLog
      <3> QED
        BY <2>0, <2>4, <3>1, <3>3, <3>4 DEF WriteLog
    <2>5. CASE WriteHead
      BY <2>5 DEF WriteHead
    <2>6. CASE Install
      <3>1. tail \in 1 .. Len(lh) /\ tail \in 1 .. LOGSIZE
        BY <2>0, <2>6 DEF Install
      <3>2. (IF tail < LOGSIZE THEN logged[tail] ELSE cache[First]) \in Val
        BY <3>1
      <3> QED
        BY <2>0, <2>6, <3>1, <3>2 DEF Install
    <2>7. CASE Erase
      BY <2>7 DEF Erase
    <2>8. CASE Crash \/ ReadHead \/ Recovered
      BY <2>8 DEF Crash, ReadHead, Recovered, disk
    <2> QED
      BY <1>2, <2>1, <2>2, <2>3, <2>4, <2>5, <2>6, <2>7, <2>8 DEF Next, Flush
  <1> QED
    BY <1>1, <1>2

(* It holds in every reachable state. *)
THEOREM DataInvariant == Spec => []DataInv
  <1>1. Init => DataInv
    <2> SUFFICES ASSUME Init PROVE DataInv
      OBVIOUS
    <2>1. /\ home \in [Blk -> Val] /\ cache \in [Blk -> Val]
          /\ logged \in [1 .. LOGSIZE - 1 -> Val]
      BY LogAssumption DEF Init
    <2>2. tail \in 1 .. LOGSIZE + 1 /\ phase # "log" /\ ftlock = Nil
      BY LogAssumption DEF Init
    <2>3. spoilt \in BOOLEAN
      BY DEF Init
    <2> QED
      BY <2>1, <2>2, <2>3 DEF DataInv
  <1> QED
    BY <1>1, DataInvNext, OpsInvariant, PTL DEF Spec

(* The log, the disk and the calls keep their types, and the loops of a    *)
(* commit never leave log.lh.block, whatever the calls write.              *)
THEOREM TypeCorrect == Spec => []TypeOK
  <1>1. OpsInv /\ SpaceInv /\ DataInv => TypeOK
    <2> SUFFICES ASSUME OpsInv, SpaceInv, DataInv PROVE TypeOK
      OBVIOUS
    <2>1. Ops \in SUBSET Proc
      BY DEF Ops
    <2>2. outstanding \in 0 .. Cardinality(Proc)
      BY <2>1, LogAssumption, OpsFinite, FS_Subset, FS_CardinalityType DEF OpsInv, CallInv
    <2> QED
      BY <2>2 DEF TypeOK, OpsInv, CallInv, EmptyInv, SpaceInv, DataInv
  <1> QED
    BY <1>1, OpsInvariant, SpaceInvariant, DataInvariant, PTL

-----------------------------------------------------------------------------
(* No block is recorded twice in the log. *)
Distinct(s) == \A i, j \in 1 .. Len(s) : s[i] = s[j] => i = j

(* What the commit and the recovery have copied so far: the header is      *)
(* empty but during the installation, a block that is not recorded is the  *)
(* same in the cache and at home, and the others agree as far as the loop  *)
(* of the phase has come.  What goes to the log fits into its blocks.      *)
Copied ==
    /\ Distinct(lh) /\ Distinct(head)
    /\ Len(lh) <= LOGSIZE /\ Len(head) < LOGSIZE
    /\ phase \in {"head", "install"} => Len(lh) < LOGSIZE
    /\ phase \in {"idle", "log", "head", "erase"} => head = <<>>
    /\ phase = "boot" => lh = <<>>
    /\ \A k \in Blk \ Elems(lh) : cache[k] = home[k]
    /\ phase = "log" =>
          \A i \in 1 .. Len(lh) : i < tail => logged[i] = cache[lh[i]]
    /\ phase = "head" \/ (phase = "install" /\ committing) =>
          \A i \in 1 .. Len(lh) : logged[i] = cache[lh[i]]
    /\ phase = "install" =>
          /\ head = lh
          /\ \A i \in 1 .. Len(lh) :
                i < tail => home[lh[i]] = logged[i] /\ cache[lh[i]] = logged[i]

CopyInv == ~spoilt => Copied

(* Recording a block that is not there keeps the log without repetitions.  *)
LEMMA DistinctAppend ==
    ASSUME NEW s \in Seq(Blk), NEW k \in Blk, Distinct(s), k \notin Elems(s)
    PROVE  Distinct(Append(s, k))
  <1>1. Len(Append(s, k)) = Len(s) + 1 /\ Append(s, k)[Len(s) + 1] = k
    OBVIOUS
  <1>2. \A i \in 1 .. Len(s) : Append(s, k)[i] = s[i] /\ s[i] # k
    BY DEF Elems
  <1> QED
    BY <1>1, <1>2 DEF Distinct

(* The steps of the file system calls. *)
LEMMA CopiedCalls ==
    ASSUME OpsInv, DataInv, Copied, ~spoilt', NEW p \in Proc,
           \/ Call(p) \/ BeginOp(p) \/ LogWrite(p) \/ WantFile(p) \/ FileAlloc(p)
           \/ EndOp(p) \/ CommitEnd(p)
    PROVE  Copied'
  <1>1. CASE Call(p) \/ BeginOp(p) \/ WantFile(p) \/ FileAlloc(p)
    BY <1>1 DEF Call, BeginOp, WantFile, FileAlloc, Copied, Elems, Distinct
  <1>2. CASE LogWrite(p)
    <2>1. phase = "idle" /\ phase' = "idle" /\ head' = head /\ home' = home
      BY <1>2 DEF LogWrite, OpsInv, CallInv, Ops
    <2>2. PICK k \in Blk, v \in Val :
              /\ cache' = [cache EXCEPT ![k] = v]
              /\ lh' = IF k \in Elems(lh) THEN lh ELSE Append(lh, k)
      BY <1>2 DEF LogWrite
    <2>3. lh \in Seq(Blk)
      BY DEF OpsInv, EmptyInv
    <2>4. Elems(lh') = Elems(lh) \cup {k}
      BY <2>2, <2>3, ElemsAppend
    <2>5. Distinct(lh') /\ Distinct(head')
      BY <2>1, <2>2, <2>3, DistinctAppend DEF Copied
    <2>6. \A m \in Blk \ Elems(lh') : cache'[m] = home'[m]
      BY <2>1, <2>2, <2>4 DEF Copied, DataInv
    <2>7. Len(lh') <= LOGSIZE
      <3>1. ~(Len(lh') > LOGSIZE)
        BY <1>2 DEF LogWrite
      <3>2. Len(lh') \in Nat
        BY <2>2, <2>3
      <3> QED
        BY <3>1, <3>2, LogAssumption
    <2> QED
      BY <2>1, <2>5, <2>6, <2>7 DEF Copied
  <1>3. CASE EndOp(p)
    <2>1. phase = "idle" /\ phase' \in {"idle", "log"} /\ UNCHANGED <<lh, head, home, cache>>
      BY <1>3 DEF EndOp, OpsInv, CallInv, Ops
    <2>2. phase' = "log" => tail' = 1
      BY <1>3, <2>1 DEF EndOp
    <2> QED
      BY <2>1, <2>2 DEF Copied, Elems, Distinct
  <1>4. CASE CommitEnd(p)
    BY <1>4 DEF CommitEnd, Copied, Elems, Distinct
  <1> QED
    BY <1>1, <1>2, <1>3, <1>4

(* The steps of the commit, of the crash and of the recovery. *)
LEMMA CopiedDisk ==
    ASSUME OpsInv, DataInv, Copied, ~spoilt',
           Flush \/ Crash \/ ReadHead \/ Recovered \/ UNCHANGED vars
    PROVE  Copied'
  <1>0. /\ lh \in Seq(Blk) /\ Len(lh) \in Nat /\ Len(lh) <= LOGSIZE
        /\ \A k \in 1 .. Len(lh) : lh[k] \in Blk
    BY DEF OpsInv, EmptyInv, Copied
  <1> USE LogAssumption
  <1>1. CASE WriteLog
    <2>1. tail \in 1 .. Len(lh) /\ tail \in 1 .. LOGSIZE
      BY <1>0, <1>1 DEF WriteLog, DataInv
    <2>2. /\ UNCHANGED <<lh, head, home, cache, committing>> /\ tail' = tail + 1
          /\ logged' = [logged EXCEPT ![tail] = cache[lh[tail]]]
          /\ phase = "log" /\ phase' = IF tail = Len(lh) THEN "head" ELSE "log"
          /\ tail < LOGSIZE
      BY <1>1 DEF WriteLog
    <2>3. \A i \in 1 .. Len(lh) : i < tail' => logged'[i] = cache[lh[i]]
      BY <1>0, <2>1, <2>2 DEF Copied, DataInv
    <2>4. phase' = "head" => \A i \in 1 .. Len(lh) : i < tail'
      BY <1>0, <2>1, <2>2
    <2> QED
      BY <2>2, <2>3, <2>4 DEF Copied, Elems, Distinct
  <1>2. CASE WriteHead
    BY <1>0, <1>2 DEF WriteHead, Copied, Elems, Distinct
  <1>3. CASE Install
    <2>1. tail \in 1 .. Len(lh) /\ tail \in 1 .. LOGSIZE
      BY <1>0, <1>3 DEF Install, DataInv
    <2>2. /\ UNCHANGED <<lh, head, logged, phase, committing>> /\ tail' = tail + 1
          /\ home' = [home EXCEPT ![lh[tail]] = logged[tail]]
          /\ cache' = [cache EXCEPT ![lh[tail]] = logged[tail]]
          /\ phase = "install" /\ Len(lh) < LOGSIZE
      <3>1. phase = "install" /\ tail < LOGSIZE /\ Len(lh) < LOGSIZE
        BY <1>0, <1>3, <2>1 DEF Install, Copied
      <3> QED
        BY <1>3, <3>1 DEF Install
    <2>3. lh[tail] \in Blk /\ lh[tail] \in Elems(lh)
      BY <1>0, <2>1 DEF Elems
    <2>4. \A k \in Blk \ Elems(lh) : cache'[k] = home'[k]
      BY <2>2, <2>3 DEF Copied, DataInv
    <2>5. \A i \in 1 .. Len(lh) : i # tail => lh[i] # lh[tail]
      BY <2>1 DEF Copied, Distinct
    <2>6. /\ home'[lh[tail]] = logged[tail] /\ cache'[lh[tail]] = logged[tail]
          /\ \A i \in 1 .. Len(lh) : i # tail =>
                home'[lh[i]] = home[lh[i]] /\ cache'[lh[i]] = cache[lh[i]]
      BY <1>0, <2>2, <2>3, <2>5 DEF DataInv
    <2>7. \A i \in 1 .. Len(lh) :
              i < tail' => home'[lh[i]] = logged[i] /\ cache'[lh[i]] = logged[i]
      <3> TAKE i \in 1 .. Len(lh)
      <3>1. i < tail' => i = tail \/ (i # tail /\ i < tail)
        BY <1>0, <2>1, <2>2
      <3> QED
        BY <2>2, <2>6, <3>1 DEF Copied
    <2>8. committing => \A i \in 1 .. Len(lh) : logged[i] = cache'[lh[i]]
      BY <2>1, <2>2, <2>6 DEF Copied
    <2> QED
      BY <2>2, <2>4, <2>7, <2>8 DEF Copied, Elems, Distinct
  <1>4. CASE Erase
    <2>1. /\ lh' = <<>> /\ head' = <<>> /\ phase' = "erase"
          /\ UNCHANGED <<cache, home>> /\ phase = "install" /\ tail > Len(lh)
      BY <1>4 DEF Erase
    <2>2. \A i \in 1 .. Len(lh) : cache[lh[i]] = home[lh[i]]
      <3>1. \A i \in 1 .. Len(lh) : i < tail
        BY <1>0, <2>1 DEF DataInv
      <3> QED
        BY <2>1, <3>1 DEF Copied
    <2>3. \A k \in Blk : cache[k] = home[k]
      BY <2>2 DEF Copied, Elems
    <2> QED
      BY <2>1, <2>3 DEF Copied, Distinct
  <1>5. CASE Crash
    BY <1>5 DEF Crash, disk, Copied, Distinct
  <1>6. CASE ReadHead
    <2>1. /\ lh = <<>> /\ lh' = head /\ UNCHANGED <<head, cache, home, logged, committing>>
          /\ phase' = "install" /\ tail' = 1
      BY <1>6 DEF ReadHead, Copied
    <2>2. ~committing
      BY <1>6, LogAssumption DEF ReadHead, OpsInv, CallInv
    <2>3. \A k \in Blk : cache[k] = home[k]
      BY <2>1 DEF Copied, Elems
    <2> QED
      BY <2>1, <2>2, <2>3 DEF Copied, Distinct, OpsInv, EmptyInv
  <1>7. CASE Recovered \/ UNCHANGED vars
    BY <1>7 DEF Recovered, vars, Copied, Elems, Distinct
  <1> QED
    BY <1>1, <1>2, <1>3, <1>4, <1>5, <1>6, <1>7 DEF Flush

-----------------------------------------------------------------------------
(* A recorded block is recovered from the log, any other from its home. *)
LEMMA RecoverableValue ==
    ASSUME Distinct(head), Len(head) \in Nat, Len(head) < LOGSIZE
    PROVE  /\ \A k \in Blk \ Elems(head) : Recoverable[k] = home[k]
           /\ \A i \in 1 .. Len(head) : head[i] \in Blk => Recoverable[head[i]] = logged[i]
  <1>1. ASSUME NEW i \in 1 .. Len(head), head[i] \in Blk
        PROVE  Recoverable[head[i]] = logged[i]
    <2> DEFINE c == CHOOSE j \in 1 .. Len(head) : head[j] = head[i]
    <2>1. c \in 1 .. Len(head) /\ head[c] = head[i]
      OBVIOUS
    <2>2. c = i
      BY <2>1 DEF Distinct
    <2>3. c < LOGSIZE
      BY <2>1, LogAssumption
    <2>4. Recoverable[head[i]] = logged[c]
      BY <1>1, <2>3 DEF Recoverable, Elems
    <2> QED
      BY <2>2, <2>4
  <1> QED
    BY <1>1 DEF Recoverable

(* The contents after a recovery depend on the header, on the blocks of    *)
(* the log that it lists, and on the home of the other blocks, only.       *)
LEMMA RecoverableSame ==
    ASSUME Distinct(head), Len(head) \in Nat, Len(head) < LOGSIZE,
           \A i \in 1 .. Len(head) : head[i] \in Blk, head' = head, \A i \in 1 .. Len(head) : logged'[i] = logged[i],
           \A k \in Blk \ Elems(head) : home'[k] = home[k]
    PROVE  Recoverable' = Recoverable
  <1>1. \A k \in Blk \ Elems(head) : Recoverable'[k] = Recoverable[k]
    BY DEF Recoverable
  <1>2. ASSUME NEW k \in Elems(head) \cap Blk PROVE Recoverable'[k] = Recoverable[k]
    <2> DEFINE c == CHOOSE i \in 1 .. Len(head) : head[i] = k
    <2>1. \E i \in 1 .. Len(head) : head[i] = k
      BY <1>2 DEF Elems
    <2>2. c \in 1 .. Len(head)
      BY <2>1
    <2>3. c < LOGSIZE
      BY <2>2, LogAssumption
    <2>4. Recoverable[k] = logged[c] /\ Recoverable'[k] = logged'[c]
      BY <1>2, <2>3 DEF Recoverable
    <2> QED
      BY <2>2, <2>4
  <1> QED
    BY <1>1, <1>2 DEF Recoverable

(* Once the header is empty, the disk is its home blocks.                  *)
LEMMA RecoverableHome == head = <<>> /\ home \in [Blk -> Val] => Recoverable = home
  BY DEF Recoverable, Elems

RefineInv == OpsInv /\ DataInv /\ Copied

(* The blocks that a transaction changes. *)
Changed == IF phase \in {"idle", "log", "head"} THEN Elems(lh) ELSE {}

(* The log records as many blocks as it has places. *)
LEMMA DistinctCardinality ==
    ASSUME NEW s \in Seq(Blk), Distinct(s)
    PROVE  Cardinality(Elems(s)) = Len(s)
  <1>1. s \in Bijection(1 .. Len(s), Elems(s))
    <2>1. s \in [1 .. Len(s) -> Elems(s)]
      BY DEF Elems
    <2> QED
      BY <2>1 DEF Distinct, Elems, Bijection, Injection, Surjection, IsInjective
  <1>2. IsFiniteSet(1 .. Len(s)) /\ Cardinality(1 .. Len(s)) = Len(s)
    <2>1. Len(s) \in Nat
      OBVIOUS
    <2> QED
      BY <2>1, FS_Interval
  <1> QED
    BY <1>1, <1>2, FS_Bijection DEF ExistsBijection

(* A transaction becomes too large by the write of a call that finds       *)
(* log.lh.block full, or by a commit with all of its places.               *)
LEMMA TooLarge ==
    ASSUME RefineInv, ~spoilt, spoilt', [Next]_vars
    PROVE  [Atomic!Next]_(Atomic!vars)
  <1> USE DEF RefineInv
  <1>0. /\ lh \in Seq(Blk) /\ Len(lh) \in Nat /\ LOGSIZE \in Nat /\ tail \in 1 .. LOGSIZE + 1
        /\ Distinct(lh) /\ Len(lh) <= LOGSIZE
    BY LogAssumption DEF OpsInv, EmptyInv, DataInv, Copied
  <1>1. (\E p \in Proc : LogWrite(p)) \/ WriteLog
    BY DEF Next, vars, Call, BeginOp, WantFile, FileAlloc, EndOp, CommitEnd, Flush, WriteHead,
           Install, Erase, Crash, ReadHead, Recovered
  <1>2. Cardinality(Changed') > LOGSIZE - 1
    <2>1. ASSUME NEW p \in Proc, LogWrite(p) PROVE Cardinality(Changed') > LOGSIZE - 1
      <3>1. phase' = "idle" /\ Len(lh') > LOGSIZE
        BY <2>1 DEF LogWrite, OpsInv, CallInv, Ops
      <3>2. PICK k \in Blk : IF k \in Elems(lh) THEN lh' = lh ELSE lh' = Append(lh, k)
        BY <2>1 DEF LogWrite
      <3>3. k \notin Elems(lh) /\ lh' = Append(lh, k)
        BY <1>0, <3>1, <3>2
      <3>4. lh' \in Seq(Blk) /\ Distinct(lh') /\ Len(lh') \in Nat
        BY <1>0, <3>3, DistinctAppend
      <3>5. Cardinality(Elems(lh')) = Len(lh')
        BY <3>4, DistinctCardinality
      <3>6. Changed' = Elems(lh')
        BY <3>1 DEF Changed
      <3> QED
        BY <1>0, <3>1, <3>4, <3>5, <3>6
    <2>2. ASSUME WriteLog PROVE Cardinality(Changed') > LOGSIZE - 1
      <3>1. ~(tail < LOGSIZE) /\ phase = "log" /\ phase' \in {"log", "head"} /\ lh' = lh
        BY <2>2 DEF WriteLog
      <3>2. Len(lh) = LOGSIZE
        BY <1>0, <3>1 DEF DataInv
      <3>3. Changed' = Elems(lh)
        BY <3>1 DEF Changed
      <3>4. Cardinality(Elems(lh)) = Len(lh)
        BY <1>0, DistinctCardinality
      <3> QED
        BY <1>0, <3>2, <3>3, <3>4
    <2> QED
      BY <1>1, <2>1, <2>2
  <1>3. Atomic!Spoil
    BY <1>2 DEF Atomic!Spoil, Changed, Atomic!Cardinality, Cardinality
  <1> QED
    BY <1>3 DEF Atomic!Next

(* The calls: begin_op, log_write and end_op are the abstract Begin, Write *)
(* and End; a call that goes to sleep and the end of a commit change       *)
(* nothing.                                                                *)
LEMMA CallsRefine ==
    ASSUME RefineInv, ~spoilt, ~spoilt', NEW p \in Proc,
           \/ Call(p) \/ BeginOp(p) \/ LogWrite(p) \/ WantFile(p) \/ FileAlloc(p)
           \/ EndOp(p) \/ CommitEnd(p)
    PROVE  [Atomic!Next]_(Atomic!vars)
  <1> USE DEF RefineInv, OpsInv, CallInv
  <1>0. spoilt' = spoilt /\ lh \in Seq(Blk)
    BY DEF EmptyInv, DataInv, Call, BeginOp, LogWrite, WantFile, FileAlloc, EndOp, CommitEnd
  <1>1. Recoverable' = Recoverable
    <2>1. UNCHANGED <<home, logged, head>>
      BY DEF Call, BeginOp, LogWrite, WantFile, FileAlloc, EndOp, CommitEnd
    <2> QED
      BY <2>1 DEF Recoverable, Elems
  <1>2. (\E q \in Proc : pc'[q] = "down") <=> (\E q \in Proc : pc[q] = "down")
    BY DEF Call, BeginOp, LogWrite, WantFile, FileAlloc, EndOp, CommitEnd, Goto, Woken, PC
  <1>3. CASE Call(p) \/ WantFile(p) \/ FileAlloc(p) \/ CommitEnd(p)
    <2>1. Ops' = Ops /\ cache' = cache
      BY <1>3 DEF Call, WantFile, FileAlloc, CommitEnd, Ops, Goto, Woken
    <2>2. lh' = lh /\ (phase' = phase \/ (phase = "erase" /\ phase' = "idle"))
      BY <1>3 DEF Call, WantFile, FileAlloc, CommitEnd
    <2>3. phase = "erase" => Elems(lh) = {}
      BY DEF EmptyInv, Elems
    <2>4. Changed' = Changed
      BY <2>2, <2>3 DEF Changed, Elems
    <2> QED
      BY <1>0, <1>1, <1>2, <2>1, <2>4 DEF Visible, Atomic!vars, Changed
  <1>4. CASE BeginOp(p)
    <2>1. cache' = cache /\ (Ops' = Ops \/ (p \notin Ops /\ Ops' = Ops \cup {p}))
      BY <1>4 DEF BeginOp, Ops, Goto
    <2>2. Visible' = Visible
      BY <1>2, <1>1, <2>1 DEF Visible
    <2>3. Changed' = Changed
      BY <1>4 DEF BeginOp, Changed, Elems
    <2> QED
      BY <1>0, <1>1, <2>1, <2>2, <2>3 DEF Atomic!vars, Atomic!Next, Atomic!Begin, Changed
  <1>5. CASE LogWrite(p)
    <2>1. p \in Ops /\ Ops' = Ops
      BY <1>5 DEF LogWrite, Ops
    <2>2. PICK k \in Blk, v \in Val :
              /\ cache' = [cache EXCEPT ![k] = v]
              /\ lh' = IF k \in Elems(lh) THEN lh ELSE Append(lh, k)
      BY <1>5 DEF LogWrite
    <2>3. Visible = cache /\ Visible' = cache'
      BY <1>2, <1>5 DEF LogWrite, Visible
    <2>4. Changed' = Changed \cup {k}
      <3>1. phase = "idle" /\ phase' = "idle"
        BY <1>5, <2>1 DEF LogWrite
      <3>2. Elems(lh') = Elems(lh) \cup {k}
        BY <1>0, <2>2, ElemsAppend
      <3> QED
        BY <3>1, <3>2 DEF Changed
    <2>5. Atomic!Write(p, k, v)
      BY <1>0, <1>1, <2>1, <2>2, <2>3, <2>4 DEF Atomic!Write, Changed
    <2> QED
      BY <2>5 DEF Atomic!Next
  <1>6. CASE EndOp(p)
    <2>1. p \in Ops /\ Ops' = Ops \ {p} /\ cache' = cache
      BY <1>6 DEF EndOp, Ops, Goto, Woken
    <2>2. Visible' = Visible
      BY <1>2, <1>1, <2>1 DEF Visible
    <2>3. Changed' = Changed
      <3>1. phase = "idle" /\ phase' \in {"idle", "log"} /\ lh' = lh
        BY <1>6, <2>1 DEF EndOp
      <3> QED
        BY <3>1 DEF Changed, Elems
    <2>4. Atomic!End(p)
      BY <1>0, <1>1, <2>1, <2>2, <2>3 DEF Atomic!End, Changed
    <2> QED
      BY <2>4 DEF Atomic!Next
  <1> QED
    BY <1>3, <1>4, <1>5, <1>6

(* The disk: the write of the header is the abstract Commit and the loss   *)
(* of power the abstract Crash; no other write changes what a crash would  *)
(* leave, and no step of the recovery changes what it finds.               *)
LEMMA DiskRefines ==
    ASSUME RefineInv, ~spoilt, ~spoilt',
           Flush \/ Crash \/ ReadHead \/ Recovered \/ UNCHANGED vars
    PROVE  [Atomic!Next]_(Atomic!vars)
  <1> USE LogAssumption
  <1>0. /\ lh \in Seq(Blk) /\ head \in Seq(Blk) /\ Len(lh) \in Nat /\ Len(head) \in Nat
        /\ \A i \in 1 .. Len(lh) : lh[i] \in Blk
        /\ \A i \in 1 .. Len(head) : head[i] \in Blk
        /\ home \in [Blk -> Val] /\ cache \in [Blk -> Val]
        /\ logged \in [1 .. LOGSIZE - 1 -> Val] /\ Distinct(head)
        /\ Len(lh) <= LOGSIZE /\ Len(head) < LOGSIZE
        /\ tail \in 1 .. LOGSIZE + 1
    BY DEF RefineInv, OpsInv, EmptyInv, DataInv, Copied
  <1>00. spoilt' = spoilt
    BY DEF Flush, WriteLog, WriteHead, Install, Erase, Crash, ReadHead, Recovered, vars
  <1>1. CASE WriteLog
    <2>1. head = <<>> /\ head' = head /\ UNCHANGED <<home, cache, pc>>
      BY <1>0, <1>1 DEF WriteLog, RefineInv, Copied
    <2>2. Recoverable' = Recoverable
      BY <1>0, <1>00, <2>1, RecoverableSame
    <2>3. Changed' = Changed
      BY <1>1 DEF WriteLog, Changed, Elems
    <2> QED
      BY <1>0, <1>00, <2>1, <2>2, <2>3 DEF Visible, Ops, Atomic!vars, Changed
  <1>2. CASE WriteHead
    <2>1. /\ head' = lh /\ UNCHANGED <<home, cache, pc, logged, lh>> /\ phase = "head"
      BY <1>2 DEF WriteHead
    <2>2. Ops = {} /\ Ops' = {} /\ \A p \in Proc : pc[p] # "down"
      BY <2>1 DEF RefineInv, OpsInv, CallInv, Ops
    <2>3. Visible = cache /\ Visible' = cache
      BY <2>1, <2>2 DEF Visible
    <2>4. Recoverable' = cache
      <3>0. Len(lh) < LOGSIZE
        BY <2>1 DEF RefineInv, Copied
      <3>1. \A k \in Blk \ Elems(lh) : Recoverable'[k] = cache[k]
        BY <2>1 DEF Recoverable, RefineInv, Copied
      <3>2. ASSUME NEW k \in Blk \cap Elems(lh) PROVE Recoverable'[k] = cache[k]
        <4> DEFINE c == CHOOSE i \in 1 .. Len(lh) : lh[i] = k
        <4>1. c \in 1 .. Len(lh) /\ lh[c] = k
          BY <3>2 DEF Elems
        <4>2. c < LOGSIZE
          BY <1>0, <3>0, <4>1
        <4>3. Recoverable'[k] = logged[c]
          BY <2>1, <3>2, <4>2 DEF Recoverable
        <4> HIDE DEF c
        <4> QED
          BY <2>1, <4>1, <4>3 DEF RefineInv, Copied
      <3>3. Recoverable' = [k \in Blk |-> Recoverable'[k]]
        BY DEF Recoverable
      <3> QED
        BY <1>0, <3>1, <3>2, <3>3
    <2>5. Changed' = {}
      BY <1>2 DEF WriteHead, Changed
    <2>6. Atomic!Commit
      BY <1>0, <1>00, <2>2, <2>3, <2>4, <2>5 DEF Atomic!Commit, Changed
    <2> QED
      BY <2>6 DEF Atomic!Next
  <1>3. CASE Install
    <2>1. /\ head = lh /\ tail \in 1 .. Len(lh) /\ UNCHANGED <<logged, head, pc, lh>>
          /\ home' = [home EXCEPT ![lh[tail]] = logged[tail]]
          /\ cache' = [cache EXCEPT ![lh[tail]] = logged[tail]] /\ phase = "install"
          /\ phase' = phase
      <3>1. phase = "install" /\ tail \in 1 .. Len(lh) /\ tail < LOGSIZE
        BY <1>0, <1>3 DEF Install, RefineInv, Copied
      <3> QED
        BY <1>0, <1>3, <3>1 DEF Install, RefineInv, Copied
    <2>2. \A k \in Blk \ Elems(head) : home'[k] = home[k]
      BY <1>0, <1>00, <2>1 DEF Elems
    <2>3. Recoverable' = Recoverable
      BY <1>0, <1>00, <2>1, <2>2, RecoverableSame
    <2>4. committing => cache' = cache
      BY <1>0, <1>00, <2>1 DEF RefineInv, Copied
    <2>5. Visible' = Visible
      BY <2>1, <2>3, <2>4 DEF Visible, RefineInv, OpsInv, CallInv
    <2>6. Changed = {} /\ Changed' = {}
      BY <2>1 DEF Changed
    <2> QED
      BY <1>0, <1>00, <2>1, <2>3, <2>5, <2>6 DEF Ops, Atomic!vars, Changed
  <1>4. CASE Erase
    <2>1. /\ head' = <<>> /\ phase = "install" /\ tail > Len(lh)
          /\ head = lh /\ UNCHANGED <<home, cache, logged, pc>>
      BY <1>4 DEF Erase, RefineInv, Copied
    <2>2. \A i \in 1 .. Len(lh) : logged[i] = home[lh[i]]
      <3>1. \A i \in 1 .. Len(lh) : i < tail
        BY <1>0, <1>00, <2>1
      <3> QED
        BY <2>1, <3>1 DEF RefineInv, Copied
    <2>3. \A k \in Blk : Recoverable[k] = home[k]
      BY <1>0, <1>00, <2>1, <2>2, RecoverableValue DEF Elems
    <2>4. Recoverable = home
      <3>1. Recoverable = [k \in Blk |-> Recoverable[k]]
        BY DEF Recoverable
      <3> QED
        BY <1>0, <2>3, <3>1
    <2>5. Recoverable' = home
      BY <1>0, <1>00, <2>1 DEF Recoverable, Elems
    <2>6. Changed = {} /\ Changed' = {}
      BY <1>4 DEF Erase, Changed
    <2> QED
      BY <1>0, <1>00, <2>1, <2>4, <2>5, <2>6 DEF Visible, Ops, Atomic!vars, Changed
  <1>5. CASE Crash
    <2>1. Recoverable' = Recoverable
      BY <1>5 DEF Crash, disk, Recoverable, Elems
    <2>2. Ops' = {} /\ Visible' = Recoverable'
      BY <1>5 DEF Crash, Ops, Visible
    <2>3. Changed' = {}
      BY <1>5 DEF Crash, Changed
    <2>4. Atomic!Crash
      BY <1>0, <1>00, <2>1, <2>2, <2>3 DEF Atomic!Crash, Changed
    <2> QED
      BY <2>4 DEF Atomic!Next
  <1>6. CASE ReadHead
    <2>1. UNCHANGED <<Recoverable, pc, cache>>
      BY <1>6 DEF ReadHead, Recoverable, Elems
    <2>2. Changed = {} /\ Changed' = {}
      BY <1>6 DEF ReadHead, Changed
    <2> QED
      BY <1>0, <1>00, <2>1, <2>2 DEF Visible, Ops, Atomic!vars, Changed
  <1>7. CASE Recovered
    <2>1. /\ UNCHANGED <<Recoverable, cache, home>> /\ head = <<>> /\ Elems(lh) = {}
          /\ \A p \in Proc : pc[p] = "down" /\ pc'[p] = "out"
      BY <1>7 DEF Recovered, Recoverable, Elems, RefineInv, Copied, OpsInv, EmptyInv
    <2>2. Recoverable = home /\ cache = home
      BY <1>0, <1>00, <2>1, RecoverableHome DEF RefineInv, Copied
    <2>3. Visible' = Visible
      BY <2>1, <2>2 DEF Visible
    <2>4. Ops = {} /\ Ops' = {}
      BY <2>1 DEF Ops
    <2>5. Changed = {} /\ Changed' = {}
      BY <1>7, <2>1 DEF Recovered, Changed, Elems
    <2> QED
      BY <1>0, <1>00, <2>1, <2>3, <2>4, <2>5 DEF Atomic!vars, Changed
  <1>8. CASE UNCHANGED vars
    BY <1>8 DEF vars, Recoverable, Elems, Visible, Ops, Atomic!vars
  <1> QED
    BY <1>1, <1>2, <1>3, <1>4, <1>5, <1>6, <1>7, <1>8 DEF Flush

(* Steps keep the copies as they must be until a transaction is too large. *)
LEMMA CopyInvNext == OpsInv /\ DataInv /\ CopyInv /\ [Next]_vars => CopyInv'
  <1> SUFFICES ASSUME OpsInv, DataInv, CopyInv, [Next]_vars, ~spoilt' PROVE Copied'
    BY DEF CopyInv
  <1>1. ~spoilt
    BY DEF Next, vars, Call, BeginOp, LogWrite, WantFile, FileAlloc, EndOp, CommitEnd, Flush,
           WriteLog, WriteHead, Install, Erase, Crash, ReadHead, Recovered
  <1>2. Copied
    BY <1>1 DEF CopyInv
  <1> QED
    BY <1>2, CopiedCalls, CopiedDisk DEF Next

(* The log makes file system calls atomic with respect to crashes: for any *)
(* number of processes and blocks, any size of the log and whatever the    *)
(* calls write, every behaviour of the log, with crashes between any two   *)
(* writes, is one of AtomicDisk, which promises nothing from the first     *)
(* transaction on that is larger than the log without its header.          *)
THEOREM LogIsAtomic == Spec => ImplementsAtomicDisk
  <1>1. Init => CopyInv
    <2> SUFFICES ASSUME Init PROVE Copied
      BY DEF CopyInv
    <2>1. Len(lh) = 0 /\ Len(head) = 0
      BY DEF Init
    <2> QED
      BY <2>1, LogAssumption DEF Init, Copied, Distinct
  <1>2. Spec => [](OpsInv /\ DataInv /\ CopyInv)
    BY <1>1, CopyInvNext, OpsInvariant, DataInvariant, PTL DEF Spec
  <1>3. Init => Atomic!Init
    <2> SUFFICES ASSUME Init PROVE Atomic!Init
      OBVIOUS
    <2>1. \A p \in Proc : pc[p] = "out"
      BY DEF Init
    <2>2. Visible = cache /\ Recoverable = home /\ Ops = {} /\ Elems(lh) = {}
      BY <2>1, LogAssumption, RecoverableHome DEF Init, Visible, Ops, Elems
    <2> QED
      BY <2>2, LogAssumption DEF Init, Atomic!Init
  <1>4. OpsInv /\ DataInv /\ CopyInv /\ [Next]_vars => [Atomic!Next]_(Atomic!vars)
    <2> SUFFICES ASSUME OpsInv, DataInv, CopyInv, [Next]_vars
                 PROVE  [Atomic!Next]_(Atomic!vars)
      OBVIOUS
    <2>1. CASE spoilt
      <3>1. spoilt'
        BY <2>1 DEF Next, vars, Call, BeginOp, LogWrite, WantFile, FileAlloc, EndOp, CommitEnd,
                    Flush, WriteLog, WriteHead, Install, Erase, Crash, ReadHead, Recovered
      <3> QED
        BY <2>1, <3>1 DEF Atomic!Next
    <2>2. CASE ~spoilt
      <3>1. RefineInv
        BY <2>2 DEF CopyInv, RefineInv
      <3>2. CASE spoilt'
        BY <2>2, <3>1, <3>2, TooLarge
      <3>3. CASE ~spoilt'
        BY <2>2, <3>1, <3>3, CallsRefine, DiskRefines DEF Next
      <3> QED
        BY <3>2, <3>3
    <2> QED
      BY <2>1, <2>2
  <1> QED
    BY <1>2, <1>3, <1>4, PTL DEF Spec, ImplementsAtomicDisk, Atomic!Spec
=============================================================================
