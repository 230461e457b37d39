--------------------------- MODULE ConsoleProofs ----------------------------
(***************************************************************************)
(* Theorems about Console, for any number of readers, any set of ordinary  *)
(* characters and any size of the ring.                                    *)
(***************************************************************************)
EXTENDS Console, WellFoundedInduction, SequenceTheorems, TLAPS

(* conslock is held by the code that must hold it, and a reader that has   *)
(* found the ring empty keeps it so until it sleeps.                       *)
LockedInv ==
    /\ \A p \in Reader : pc[p] \in {"loop", "sleep"} <=> conslock = p
    /\ ipc \in {"getc", "wake"} <=> conslock = Intr
    /\ \A p \in Reader : pc[p] = "sleep" => r = w

ConsoleInv == TypeOK /\ LockedInv /\ NoInputSleptOver /\ FullRingIsReadable

-----------------------------------------------------------------------------
(* A set of indexes up to e has a greatest one. *)
LEMMA GreatestIndex ==
    ASSUME NEW a \in Nat, NEW b \in Nat, NEW S \in SUBSET (a .. b), S # {}
    PROVE  Max(S) \in S
  <1> DEFINE T == {b - k : k \in S}
  <1>1. T \in SUBSET Nat /\ T # {}
    OBVIOUS
  <1>2. PICK t \in T : \A u \in T : ~ (<<u, t>> \in OpToRel(<, Nat))
    BY <1>1, NatLessThanWellFounded, WFMin
  <1>3. \A u \in T : ~ (u < t)
    BY <1>1, <1>2 DEF OpToRel
  <1>4. PICK k \in S : t = b - k
    OBVIOUS
  <1>5. \A j \in S : k >= j
    <2> TAKE j \in S
    <2>1. b - j \in T /\ ~ (b - j < t)
      BY <1>3
    <2> QED
      BY <1>4, <2>1
  <1> QED
    BY <1>5 DEF Max

(* The ring is indexed inside its bounds. *)
LEMMA Wraps == \A i \in Nat : i % INPUT_BUF \in 0 .. INPUT_BUF - 1
  BY ConsoleAssumption

(* Every step of the readers keeps the invariant ... *)
LEMMA ConsoleInvRead ==
    ASSUME ConsoleInv, NEW p \in Reader, Call(p) \/ Acquire(p) \/ Read(p)
    PROVE  ConsoleInv'
  <1> USE ConsoleAssumption
          DEF ConsoleInv, TypeOK, LockedInv, NoInputSleptOver, FullRingIsReadable, Goto
  <1>1. CASE Call(p)
    BY <1>1 DEF Call
  <1>2. CASE Acquire(p)
    BY <1>2 DEF Acquire
  <1>3. CASE Done(p)
    BY <1>3 DEF Done, Return
  <1>4. CASE Empty(p)
    BY <1>4 DEF Empty
  <1>5. CASE TakeEOF(p)
    BY <1>5 DEF TakeEOF, Return
  <1>6. CASE Take(p)
    <2>1. At(r) \in Char
      <3>1. r % INPUT_BUF \in 0 .. INPUT_BUF - 1
        BY Wraps
      <3> QED
        BY <3>1 DEF At
    <2>2. CASE At(r) = NL
      <3>1. /\ pc[p] = "loop" /\ r' = r + 1 /\ r # w /\ conslock' = Nil
            /\ n' = [n EXCEPT ![p] = 0] /\ got' = [got EXCEPT ![p] = <<>>]
            /\ pc' = [pc EXCEPT ![p] = "out"]
            /\ UNCHANGED <<buf, w, e, ptable, ipc, dump>>
        BY <1>6, <2>2 DEF Take, Return
      <3> QED
        BY <3>1
    <2>3. CASE At(r) # NL
      <3>1. At(r) \in Ordinary
        BY <1>6, <2>1, <2>3 DEF Take, Char
      <3>2. got' = [got EXCEPT ![p] = Append(got[p], At(r))]
        BY <1>6, <2>3 DEF Take
      <3>3. Append(got[p], At(r)) \in Seq(Ordinary)
        BY <3>1
      <3>4. got' \in [Reader -> Seq(Ordinary)]
        BY <3>2, <3>3
      <3>5. /\ n[p] > 0 /\ n' = [n EXCEPT ![p] = @ - 1] /\ r' = r + 1 /\ r # w
            /\ pc[p] = "loop"
            /\ UNCHANGED <<conslock, pc, buf, w, e, ptable, ipc, dump>>
        BY <1>6, <2>3 DEF Take
      <3>6. n' \in [Reader -> 0 .. MaxRead]
        BY <3>5
      <3> QED
        BY <3>4, <3>5, <3>6
    <2> QED
      BY <2>2, <2>3
  <1>7. CASE Sleep(p)
    BY <1>7 DEF Sleep
  <1> QED
    BY <1>1, <1>2, <1>3, <1>4, <1>5, <1>6, <1>7 DEF Read

(* ... and every key and every other step of the handler, procdump         *)
(* included.                                                               *)
LEMMA ConsoleInvIntr ==
    ASSUME ConsoleInv,
           \/ IntrAcquire \/ IntrWake \/ IntrEnd \/ Procdump
           \/ DumpKey \/ KillKey \/ EraseKey \/ \E c \in Char : Key(c)
    PROVE  ConsoleInv'
  <1> USE ConsoleAssumption
          DEF ConsoleInv, TypeOK, LockedInv, NoInputSleptOver, FullRingIsReadable, Goto
  <1>1. CASE IntrAcquire
    BY <1>1 DEF IntrAcquire
  <1>2. CASE IntrWake
    BY <1>2 DEF IntrWake
  <1>3. CASE IntrEnd
    BY <1>3 DEF IntrEnd
  <1>4. CASE Procdump
    BY <1>4 DEF Procdump, DumpTitle, DumpAcquire, DumpPrint
  <1>5. CASE DumpKey
    BY <1>5 DEF DumpKey
  <1>6. CASE KillKey
    <2> DEFINE S == {k \in w .. e : k = w \/ At(k - 1) = NL}
    <2>1. w \in Nat /\ e \in Nat
      OBVIOUS
    <2>2. S \in SUBSET (w .. e) /\ S # {}
      <3>1. w \in w .. e
        BY <2>1
      <3>2. w \in S
        BY <3>1
      <3> QED
        BY <3>2
    <2>3. Max(S) \in S
      BY <2>1, <2>2, GreatestIndex
    <2>4. e' \in w .. e
      BY <1>6, <2>3 DEF KillKey
    <2> QED
      BY <1>6, <2>1, <2>4 DEF KillKey
  <1>7. CASE EraseKey
    BY <1>7 DEF EraseKey
  <1>8. ASSUME NEW c \in Char, Key(c) PROVE ConsoleInv'
    <2>1. e \in Nat /\ e % INPUT_BUF \in 0 .. INPUT_BUF - 1
      BY Wraps
    <2>2. buf' \in [0 .. INPUT_BUF - 1 -> Char]
      BY <1>8, <2>1 DEF Key, Store
    <2>3. /\ e' = e + 1 /\ e - r < INPUT_BUF /\ ipc = "getc"
          /\ IF c \in {NL, EOF} \/ e' = r + INPUT_BUF
             THEN w' = e' /\ ipc' = "wake" ELSE UNCHANGED <<w, ipc>>
          /\ UNCHANGED <<r, conslock, ptable, pc, n, got, dump>>
      BY <1>8 DEF Key, Store, Commit
    <2> QED
      BY <2>1, <2>2, <2>3
  <1> QED
    BY <1>1, <1>2, <1>3, <1>4, <1>5, <1>6, <1>7, <1>8

(* An empty ring that nobody reads. *)
LEMMA ConsoleInvInit == Init => ConsoleInv
  BY ConsoleAssumption
  DEF Init, ConsoleInv, TypeOK, LockedInv, NoInputSleptOver, FullRingIsReadable

(* The invariant holds in every reachable state. *)
THEOREM ConsoleInvariant == Spec => []ConsoleInv
  <1>1. ConsoleInv /\ [Next]_vars => ConsoleInv'
    <2>1. ASSUME ConsoleInv, UNCHANGED vars PROVE ConsoleInv'
      BY <2>1 DEF vars, ConsoleInv, TypeOK, LockedInv, NoInputSleptOver, FullRingIsReadable
    <2> QED
      BY <2>1, ConsoleInvRead, ConsoleInvIntr DEF Next
  <1> QED
    BY <1>1, ConsoleInvInit, PTL DEF Spec

(* For any number of readers and any size of the ring: the indexes stay    *)
(* inside the ring, no reader sleeps for input that is there, and a full   *)
(* ring can be read.                                                       *)
THEOREM InputFound == Spec => []InputReachesReaders
  <1>1. ConsoleInv => InputReachesReaders
    BY DEF ConsoleInv, InputReachesReaders
  <1> QED
    BY <1>1, ConsoleInvariant, PTL

-----------------------------------------------------------------------------
(* What lies in the ring b between two indexes. *)
Piece(b, i, j) == [k \in 1 .. j - i |-> b[(i + k - 1) % INPUT_BUF]]

Ring == [0 .. INPUT_BUF - 1 -> Char]

(* Indexes less than the size of the ring apart are different places. *)
LEMMA PlacesDiffer ==
    ASSUME NEW i \in Nat, NEW j \in Nat, i < j, j < i + INPUT_BUF
    PROVE  i % INPUT_BUF # j % INPUT_BUF
  <1>1. INPUT_BUF \in Nat /\ INPUT_BUF > 0
    BY ConsoleAssumption
  <1>2. PICK a \in Int : i = (INPUT_BUF * a) + (i % INPUT_BUF)
    <2>1. i \div INPUT_BUF \in Int
      BY <1>1
    <2>2. i = (INPUT_BUF * (i \div INPUT_BUF)) + (i % INPUT_BUF)
      BY <1>1
    <2> QED
      BY <2>1, <2>2
  <1>3. PICK c \in Int : j = (INPUT_BUF * c) + (j % INPUT_BUF)
    <2>1. j \div INPUT_BUF \in Int
      BY <1>1
    <2>2. j = (INPUT_BUF * (j \div INPUT_BUF)) + (j % INPUT_BUF)
      BY <1>1
    <2> QED
      BY <2>1, <2>2
  <1>4. SUFFICES ASSUME i % INPUT_BUF = j % INPUT_BUF PROVE FALSE
    OBVIOUS
  <1>5. INPUT_BUF * (c - a) = j - i
    BY <1>1, <1>2, <1>3, <1>4
  <1>6. c - a > 0 
    BY <1>1, <1>5
  <1>7. INPUT_BUF * (c - a) >= INPUT_BUF
    BY <1>1, <1>6
  <1> QED
    BY <1>1, <1>5, <1>7

(* A piece is a sequence of characters, *)
LEMMA PieceSeq ==
    ASSUME NEW b \in Ring, NEW i \in Nat, NEW j \in Nat, i <= j
    PROVE  /\ Piece(b, i, j) \in Seq(Char)
           /\ Len(Piece(b, i, j)) = j - i
           /\ \A k \in 1 .. j - i : Piece(b, i, j)[k] = b[(i + k - 1) % INPUT_BUF]
  <1>1. \A k \in 1 .. j - i : b[(i + k - 1) % INPUT_BUF] \in Char
    <2> TAKE k \in 1 .. j - i
    <2>1. (i + k - 1) % INPUT_BUF \in 0 .. INPUT_BUF - 1
      BY Wraps
    <2> QED
      BY <2>1 DEF Ring
  <1> QED
    BY <1>1 DEF Piece

(* with nothing between an index and itself, *)
LEMMA PieceEmpty ==
    ASSUME NEW b \in Ring, NEW i \in Nat
    PROVE  Piece(b, i, i) = <<>>
  BY PieceSeq, EmptySeq, SeqEqual

(* its oldest character at its first index, *)
LEMMA PieceHead ==
    ASSUME NEW b \in Ring, NEW i \in Nat, NEW j \in Nat, i < j
    PROVE  /\ Piece(b, i, j) # <<>>
           /\ Head(Piece(b, i, j)) = b[i % INPUT_BUF]
           /\ Tail(Piece(b, i, j)) = Piece(b, i + 1, j)
  <1>1. /\ Piece(b, i, j) \in Seq(Char) /\ Len(Piece(b, i, j)) = j - i
        /\ \A k \in 1 .. j - i : Piece(b, i, j)[k] = b[(i + k - 1) % INPUT_BUF]
    BY PieceSeq
  <1>2. /\ Piece(b, i + 1, j) \in Seq(Char) /\ Len(Piece(b, i + 1, j)) = j - i - 1
        /\ \A k \in 1 .. j - i - 1 : Piece(b, i + 1, j)[k] = b[(i + k) % INPUT_BUF]
    <2>1. i + 1 \in Nat /\ i + 1 <= j /\ j - (i + 1) = j - i - 1
      OBVIOUS
    <2>2. \A k \in 1 .. j - i - 1 : i + 1 + k - 1 = i + k
      OBVIOUS
    <2> HIDE DEF Piece
    <2> QED
      BY <2>1, <2>2, PieceSeq
  <1>3. Piece(b, i, j) # <<>>
    BY <1>1
  <1>4. /\ Tail(Piece(b, i, j)) \in Seq(Char) /\ Len(Tail(Piece(b, i, j))) = j - i - 1
        /\ \A k \in 1 .. j - i - 1 : Tail(Piece(b, i, j))[k] = Piece(b, i, j)[k + 1]
    BY <1>1, <1>3, HeadTailProperties
  <1>5. \A k \in 1 .. j - i - 1 : Tail(Piece(b, i, j))[k] = Piece(b, i + 1, j)[k]
    <2> TAKE k \in 1 .. j - i - 1
    <2>1. k + 1 \in 1 .. j - i /\ i + (k + 1) - 1 = i + k
      OBVIOUS
    <2> QED
      BY <2>1, <1>1, <1>2, <1>4
  <1>6. Tail(Piece(b, i, j)) = Piece(b, i + 1, j)
    BY <1>2, <1>4, <1>5, SeqEqual
  <1>7. Head(Piece(b, i, j)) = b[i % INPUT_BUF]
    BY <1>1, <1>3
  <1> QED
    BY <1>3, <1>6, <1>7

(* and its newest, which can be erased, before its last. *)
LEMMA PieceFront ==
    ASSUME NEW b \in Ring, NEW i \in Nat, NEW j \in Nat, i < j
    PROVE  SubSeq(Piece(b, i, j), 1, Len(Piece(b, i, j)) - 1) = Piece(b, i, j - 1)
  <1> DEFINE s == Piece(b, i, j)
             t == Piece(b, i, j - 1)
  <1>1. /\ s \in Seq(Char) /\ Len(s) = j - i
        /\ \A k \in 1 .. j - i : s[k] = b[(i + k - 1) % INPUT_BUF]
    BY PieceSeq
  <1>2. /\ t \in Seq(Char) /\ Len(t) = j - 1 - i
        /\ \A k \in 1 .. j - 1 - i : t[k] = b[(i + k - 1) % INPUT_BUF]
    <2>1. j - 1 \in Nat /\ i <= j - 1
      OBVIOUS
    <2> HIDE DEF Piece
    <2> QED
      BY <2>1, PieceSeq
  <1> HIDE DEF s, t
  <1>3. \A k \in 1 .. j - 1 - i : s[k] \in Char /\ s[k] = t[k]
    BY <1>1, <1>2
  <1>4. /\ SubSeq(s, 1, j - i - 1) \in Seq(Char) /\ Len(SubSeq(s, 1, j - i - 1)) = j - i - 1
        /\ \A k \in 1 .. j - i - 1 : SubSeq(s, 1, j - i - 1)[k] = s[k]
    BY <1>1, <1>3
  <1>5. SubSeq(s, 1, j - i - 1) = t
    BY <1>2, <1>3, <1>4, SeqEqual
  <1> QED
    BY <1>1, <1>5 DEF s, t

(* A character stored behind a piece extends it ... *)
LEMMA PieceStore ==
    ASSUME NEW b \in Ring, NEW i \in Nat, NEW j \in Nat, NEW c \in Char,
           i <= j, j < i + INPUT_BUF
    PROVE  /\ [b EXCEPT ![j % INPUT_BUF] = c] \in Ring
           /\ Piece([b EXCEPT ![j % INPUT_BUF] = c], i, j + 1) = Append(Piece(b, i, j), c)
           /\ \A k \in i .. j : 
                 Piece([b EXCEPT ![j % INPUT_BUF] = c], i, k) = Piece(b, i, k)
  <1> DEFINE d == [b EXCEPT ![j % INPUT_BUF] = c]
  <1>1. j % INPUT_BUF \in 0 .. INPUT_BUF - 1
    BY Wraps
  <1>2. d \in Ring /\ d[j % INPUT_BUF] = c
    BY <1>1 DEF Ring
  <1>3. ASSUME NEW k \in i .. j - 1 PROVE d[k % INPUT_BUF] = b[k % INPUT_BUF]
    <2>1. k % INPUT_BUF # j % INPUT_BUF
      <3>1. k \in Nat /\ k < j /\ j < k + INPUT_BUF
        BY ConsoleAssumption
      <3> QED
        BY <3>1, PlacesDiffer
    <2>2. k % INPUT_BUF \in 0 .. INPUT_BUF - 1
      BY Wraps
    <2> QED
      BY <2>1, <2>2 DEF Ring
  <1> HIDE DEF d
  <1>4. ASSUME NEW k \in i .. j PROVE Piece(d, i, k) = Piece(b, i, k)
    <2>0. k \in Nat /\ i <= k
      OBVIOUS
    <2>1. /\ Piece(d, i, k) \in Seq(Char) /\ Len(Piece(d, i, k)) = k - i
          /\ \A l \in 1 .. k - i : Piece(d, i, k)[l] = d[(i + l - 1) % INPUT_BUF]
      BY <2>0, <1>2, PieceSeq
    <2>2. /\ Piece(b, i, k) \in Seq(Char) /\ Len(Piece(b, i, k)) = k - i
          /\ \A l \in 1 .. k - i : Piece(b, i, k)[l] = b[(i + l - 1) % INPUT_BUF]
      BY <2>0, PieceSeq
    <2>3. \A l \in 1 .. k - i : Piece(d, i, k)[l] = Piece(b, i, k)[l]
      <3> TAKE l \in 1 .. k - i
      <3>1. i + l - 1 \in i .. j - 1
        OBVIOUS
      <3> QED
        BY <3>1, <1>3, <2>1, <2>2
    <2> QED
      BY <2>1, <2>2, <2>3, SeqEqual
  <1>5. Piece(d, i, j + 1) = Append(Piece(b, i, j), c)
    <2>1. /\ Piece(d, i, j + 1) \in Seq(Char) /\ Len(Piece(d, i, j + 1)) = j + 1 - i
          /\ \A l \in 1 .. j + 1 - i : Piece(d, i, j + 1)[l] = d[(i + l - 1) % INPUT_BUF]
      <3> DEFINE m == j + 1
      <3>1. m \in Nat /\ i <= m /\ d \in Ring
        BY <1>2
      <3> HIDE DEF m
      <3>2. /\ Piece(d, i, m) \in Seq(Char) /\ Len(Piece(d, i, m)) = m - i
            /\ \A l \in 1 .. m - i : Piece(d, i, m)[l] = d[(i + l - 1) % INPUT_BUF]
        BY <3>1, PieceSeq
      <3> QED
        BY <3>2 DEF m
    <2>2. /\ Piece(b, i, j) \in Seq(Char) /\ Len(Piece(b, i, j)) = j - i
          /\ \A l \in 1 .. j - i : Piece(b, i, j)[l] = b[(i + l - 1) % INPUT_BUF]
      BY PieceSeq
    <2>3. /\ Append(Piece(b, i, j), c) \in Seq(Char)
          /\ Len(Append(Piece(b, i, j), c)) = j + 1 - i
          /\ \A l \in 1 .. j - i : Append(Piece(b, i, j), c)[l] = Piece(b, i, j)[l]
          /\ Append(Piece(b, i, j), c)[j + 1 - i] = c
      BY <2>2
    <2>4. \A l \in 1 .. j + 1 - i : Piece(d, i, j + 1)[l] = Append(Piece(b, i, j), c)[l]
      <3> TAKE l \in 1 .. j + 1 - i
      <3>1. CASE l = j + 1 - i
        <4>1. i + l - 1 = j
          BY <3>1
        <4> QED
          BY <3>1, <4>1, <1>2, <2>1, <2>3
      <3>2. CASE l # j + 1 - i
        <4>1. i + l - 1 \in i .. j - 1 /\ l \in 1 .. j - i
          BY <3>2
        <4> QED
          BY <4>1, <1>3, <2>1, <2>2, <2>3
      <3> QED
        BY <3>1, <3>2
    <2> QED
      BY <2>1, <2>3, <2>4, SeqEqual
  <1> QED
    BY <1>2, <1>4, <1>5 DEF d

(* ... and adjacent pieces make one. *)
LEMMA PieceConcat ==
    ASSUME NEW b \in Ring, NEW i \in Nat, NEW j \in Nat, NEW k \in Nat, i <= j, j <= k
    PROVE  Piece(b, i, j) \o Piece(b, j, k) = Piece(b, i, k)
  <1> DEFINE s == Piece(b, i, j)
             t == Piece(b, j, k)
             u == Piece(b, i, k)
  <1>1. /\ s \in Seq(Char) /\ Len(s) = j - i
        /\ \A l \in 1 .. j - i : s[l] = b[(i + l - 1) % INPUT_BUF]
    BY PieceSeq
  <1>2. /\ t \in Seq(Char) /\ Len(t) = k - j
        /\ \A l \in 1 .. k - j : t[l] = b[(j + l - 1) % INPUT_BUF]
    BY PieceSeq
  <1>3. /\ u \in Seq(Char) /\ Len(u) = k - i
        /\ \A l \in 1 .. k - i : u[l] = b[(i + l - 1) % INPUT_BUF]
    BY PieceSeq
  <1> HIDE DEF s, t, u
  <1>4. /\ s \o t \in Seq(Char) /\ Len(s \o t) = k - i
        /\ \A l \in 1 .. k - i : (s \o t)[l] = IF l <= j - i THEN s[l] ELSE t[l - (j - i)]
    BY <1>1, <1>2, ConcatProperties
  <1>5. \A l \in 1 .. k - i : (s \o t)[l] = u[l]
    <2> TAKE l \in 1 .. k - i
    <2>1. CASE l <= j - i
      <3>1. l \in 1 .. j - i
        BY <2>1
      <3> QED
        BY <2>1, <3>1, <1>1, <1>3, <1>4
    <2>2. CASE l > j - i
      <3>1. l - (j - i) \in 1 .. k - j /\ j + (l - (j - i)) - 1 = i + l - 1
        BY <2>2
      <3> QED
        BY <2>2, <3>1, <1>2, <1>3, <1>4
    <2>3. l <= j - i \/ l > j - i
      OBVIOUS
    <2> QED
      BY <2>1, <2>2, <2>3
  <1> QED
    BY <1>3, <1>4, <1>5, SeqEqual DEF s, t, u

-----------------------------------------------------------------------------
(* What is being typed is one line. *)
OneLine == \A k \in w .. e - 1 : At(k) \notin {NL, EOF}

QueueInv == ConsoleInv /\ OneLine

(* The queue is made of pieces of the ring. *)
LEMMA QueueState ==
    ASSUME ConsoleInv
    PROVE  /\ buf \in Ring /\ r \in Nat /\ w \in Nat /\ e \in Nat
           /\ r <= w /\ w <= e /\ e <= r + INPUT_BUF
           /\ Segment(r, w) = Piece(buf, r, w) /\ Segment(w, e) = Piece(buf, w, e)
  BY DEF ConsoleInv, TypeOK, Ring, Segment, At, Piece

(* ^U removes what is being typed, back to the last complete line. *)
LEMMA KillsLine ==
    ASSUME QueueInv, KillKey
    PROVE  e' = w /\ UNCHANGED <<buf, r, w, conslock, ptable, pc, n, got, ipc, dump>>
  <1> DEFINE S == {k \in w .. e : k = w \/ At(k - 1) = NL}
  <1>1. w \in Nat /\ e \in Nat /\ w <= e
    BY QueueState DEF QueueInv
  <1>2. w \in S /\ S \in SUBSET (w .. e)
    BY <1>1
  <1>3. Max(S) \in S
    BY <1>1, <1>2, GreatestIndex
  <1>4. ASSUME NEW k \in S PROVE k = w
    <2>1. SUFFICES ASSUME k # w PROVE FALSE
      OBVIOUS
    <2>2. k - 1 \in w .. e - 1 /\ At(k - 1) = NL
      BY <1>1, <2>1
    <2> QED
      BY <2>2 DEF QueueInv, OneLine
  <1> QED
    BY <1>3, <1>4 DEF KillKey

(* A key adds a character to the line, or ends it. *)
LEMMA KeyStores ==
    ASSUME ConsoleInv, NEW c \in Char, Key(c)
    PROVE  /\ e' = e + 1 /\ e < r + INPUT_BUF
           /\ Piece(buf', r, w) = Piece(buf, r, w)
           /\ Piece(buf', w, e + 1) = Append(Piece(buf, w, e), c)
           /\ buf' \in Ring
           /\ \A k \in w .. e - 1 : buf'[k % INPUT_BUF] = buf[k % INPUT_BUF]
           /\ buf'[e % INPUT_BUF] = c
           /\ IF c \in {NL, EOF} \/ e + 1 = r + INPUT_BUF
              THEN w' = e + 1 /\ ipc' = "wake" ELSE UNCHANGED <<w, ipc>>
           /\ UNCHANGED <<r, conslock, ptable, pc, n, got, dump>>
  <1>1. /\ buf \in Ring /\ r \in Nat /\ w \in Nat /\ e \in Nat
        /\ r <= w /\ w <= e /\ INPUT_BUF \in Nat
    BY QueueState, ConsoleAssumption
  <1>2. /\ e' = e + 1 /\ e - r < INPUT_BUF
        /\ buf' = [buf EXCEPT ![e % INPUT_BUF] = c]
        /\ IF c \in {NL, EOF} \/ e' = r + INPUT_BUF
           THEN w' = e' /\ ipc' = "wake" ELSE UNCHANGED <<w, ipc>>
        /\ UNCHANGED <<r, conslock, ptable, pc, n, got, dump>>
    BY DEF Key, Store, Commit
  <1>3. e < r + INPUT_BUF /\ e < w + INPUT_BUF /\ w \in r .. e
    BY <1>1, <1>2
  <1>4. buf' \in Ring /\ Piece(buf', r, w) = Piece(buf, r, w)
    <2> DEFINE d == [buf EXCEPT ![e % INPUT_BUF] = c]
    <2>1. r <= e
      BY <1>1
    <2>2. d \in Ring /\ \A k \in r .. e : Piece(d, r, k) = Piece(buf, r, k)
      BY <1>1, <1>3, <2>1, PieceStore
    <2> QED
      BY <1>2, <1>3, <2>2
  <1>5. Piece(buf', w, e + 1) = Append(Piece(buf, w, e), c)
    BY <1>1, <1>2, <1>3, PieceStore
  <1>6. e % INPUT_BUF \in 0 .. INPUT_BUF - 1
    BY <1>1, Wraps
  <1>7. ASSUME NEW k \in w .. e - 1
        PROVE  buf'[k % INPUT_BUF] = buf[k % INPUT_BUF]
    <2>1. k \in Nat /\ k < e /\ e < k + INPUT_BUF
      BY <1>1, <1>3
    <2>2. k % INPUT_BUF # e % INPUT_BUF /\ k % INPUT_BUF \in 0 .. INPUT_BUF - 1
      BY <1>1, <2>1, PlacesDiffer, Wraps
    <2> QED
      BY <1>1, <1>2, <2>2 DEF Ring
  <1>8. buf'[e % INPUT_BUF] = c
    BY <1>1, <1>2, <1>6 DEF Ring
  <1> QED
    BY <1>2, <1>3, <1>4, <1>5, <1>7, <1>8

(* The line stays one line. *)
LEMMA QueueInvNext ==
    ASSUME QueueInv, [Next]_vars
    PROVE  QueueInv'
  <1>1. ConsoleInv'
    <2>1. ASSUME UNCHANGED vars PROVE ConsoleInv'
      BY <2>1 DEF vars, QueueInv, ConsoleInv, TypeOK, LockedInv, NoInputSleptOver,
                  FullRingIsReadable
    <2> QED
      BY <2>1, ConsoleInvRead, ConsoleInvIntr DEF Next, QueueInv
  <1>2. r \in Nat /\ w \in Nat /\ e \in Nat /\ w <= e
    BY QueueState DEF QueueInv
  <1>3. ASSUME UNCHANGED <<buf, w, e>> PROVE OneLine'
    BY <1>3 DEF QueueInv, OneLine, At
  <1>4. ASSUME KillKey PROVE OneLine'
    BY <1>2, <1>4, KillsLine DEF OneLine
  <1>5. ASSUME EraseKey PROVE OneLine'
    BY <1>2, <1>5 DEF EraseKey, QueueInv, OneLine, At
  <1>6. ASSUME NEW c \in Char, Key(c) PROVE OneLine'
    <2>1. /\ e' = e + 1 /\ \A k \in w .. e - 1 : buf'[k % INPUT_BUF] = buf[k % INPUT_BUF]
          /\ buf'[e % INPUT_BUF] = c
          /\ w' = e + 1 \/ (w' = w /\ c \notin {NL, EOF})
      BY <1>6, KeyStores DEF QueueInv
    <2>2. CASE w' = e + 1
      BY <1>2, <2>1, <2>2 DEF OneLine
    <2>3. CASE w' = w /\ c \notin {NL, EOF}
      <3> SUFFICES ASSUME NEW k \in w .. e PROVE buf'[k % INPUT_BUF] \notin {NL, EOF}
        BY <1>2, <2>1, <2>3 DEF OneLine, At
      <3>1. CASE k = e
        BY <3>1, <2>1, <2>3
      <3>2. CASE k # e
        <4>1. k \in w .. e - 1
          BY <1>2, <3>2
        <4> QED
          BY <4>1, <2>1 DEF QueueInv, OneLine, At
      <3> QED
        BY <3>1, <3>2
    <2> QED
      BY <2>1, <2>2, <2>3
  <1> QED
    BY <1>1, <1>3, <1>4, <1>5, <1>6
       DEF Next, vars, Call, Acquire, Read, Done, Empty, TakeEOF, Take, Sleep, IntrAcquire,
           IntrWake, IntrEnd, Procdump, DumpTitle, DumpAcquire, DumpPrint, DumpKey, QueueInv

-----------------------------------------------------------------------------
(* Who is in a read, for the queue. *)
reading == {p \in Reader : pc[p] # "out"}

(* A step that moves no input and lets no one in or out is not seen. *)
LEMMA QueueStutters ==
    ASSUME UNCHANGED <<buf, r, w, e, n, got, reading>>
    PROVE  UNCHANGED Queue!vars
  BY DEF Queue!vars, Segment, At, reading

(* Every step of a reader is a step of the queue, or none. *)
LEMMA ReadRefines ==
    ASSUME QueueInv, QueueInv', NEW p \in Reader, Call(p) \/ Acquire(p) \/ Read(p)
    PROVE  [Queue!Next]_Queue!vars
  <1>1. /\ buf \in Ring /\ r \in Nat /\ w \in Nat /\ e \in Nat
        /\ r <= w /\ w <= e
        /\ Segment(r, w) = Piece(buf, r, w) /\ Segment(w, e) = Piece(buf, w, e)
    BY QueueState DEF QueueInv
  <1>2. Segment(r, w)' = Piece(buf', r', w') /\ Segment(w, e)' = Piece(buf', w', e')
    BY DEF Segment, At, Piece
  <1>3. /\ pc \in [Reader -> {"out", "acquire", "loop", "sleep", "asleep"}]
        /\ n \in [Reader -> 0 .. MaxRead] /\ got \in [Reader -> Seq(Ordinary)]
        /\ n' \in [Reader -> 0 .. MaxRead]
    BY DEF QueueInv, ConsoleInv, TypeOK
  <1>4. CASE Call(p)
    <2>1. /\ pc[p] = "out" /\ pc' = [pc EXCEPT ![p] = "acquire"]
          /\ \E k \in 0 .. MaxRead : n' = [n EXCEPT ![p] = k]
          /\ UNCHANGED <<buf, r, w, e, got>>
      BY <1>4 DEF Call, Goto
    <2>2. reading' = reading \cup {p} /\ p \notin reading
      BY <1>3, <2>1 DEF reading
    <2>3. Queue!Call(p)
      BY <1>2, <2>1, <2>2, <1>1 DEF Queue!Call, reading
    <2> QED
      BY <2>3 DEF Queue!Next
  <1>5. CASE Acquire(p)
    <2>1. reading' = reading
      BY <1>3, <1>5 DEF Acquire, Goto, reading
    <2> QED
      BY <1>5, <2>1, QueueStutters DEF Acquire
  <1>6. CASE Done(p)
    <2>1. /\ pc[p] = "loop" /\ n[p] = 0 /\ pc' = [pc EXCEPT ![p] = "out"]
          /\ n' = [n EXCEPT ![p] = 0] /\ got' = [got EXCEPT ![p] = <<>>]
          /\ UNCHANGED <<buf, r, w, e>>
      BY <1>6 DEF Done, Return, Goto
    <2>2. reading' = reading \ {p} /\ p \in reading
      BY <1>3, <2>1 DEF reading
    <2>3. Queue!Full(p)
      BY <1>1, <1>2, <2>1, <2>2 DEF Queue!Full, Queue!Return, reading
    <2> QED
      BY <2>3 DEF Queue!Next
  <1>7. CASE Empty(p)
    <2>1. reading' = reading
      BY <1>3, <1>7 DEF Empty, Goto, reading
    <2> QED
      BY <1>7, <2>1, QueueStutters DEF Empty
  <1>8. CASE TakeEOF(p)
    <2>1. /\ pc[p] = "loop" /\ n[p] > 0 /\ r # w /\ At(r) = EOF
          /\ r' = (IF got[p] = <<>> THEN r + 1 ELSE r)
          /\ pc' = [pc EXCEPT ![p] = "out"]
          /\ n' = [n EXCEPT ![p] = 0] /\ got' = [got EXCEPT ![p] = <<>>]
          /\ UNCHANGED <<buf, w, e>>
      BY <1>8 DEF TakeEOF, Return, Goto
    <2>2. reading' = reading \ {p} /\ p \in reading
      BY <1>3, <2>1 DEF reading
    <2>3. /\ Segment(r, w) # <<>> /\ Head(Segment(r, w)) = EOF
          /\ Tail(Segment(r, w)) = Piece(buf, r + 1, w)
      <3>1. r < w
        BY <1>1, <2>1
      <3>2. /\ Piece(buf, r, w) # <<>> /\ Head(Piece(buf, r, w)) = At(r)
            /\ Tail(Piece(buf, r, w)) = Piece(buf, r + 1, w)
        BY <1>1, <3>1, PieceHead DEF At
      <3> QED
        BY <1>1, <2>1, <3>2
    <2>4. Segment(r, w)' = IF got[p] = <<>> THEN Tail(Segment(r, w)) ELSE Segment(r, w)
      BY <1>1, <1>2, <2>1, <2>3
    <2>5. Segment(w, e)' = Segment(w, e)
      BY <1>1, <1>2, <2>1
    <2>6. Queue!EndOfFile(p)
      BY <2>1, <2>2, <2>3, <2>4, <2>5 DEF Queue!EndOfFile, Queue!Return, reading
    <2> QED
      BY <2>6 DEF Queue!Next
  <1>9. CASE Take(p)
    <2>1. /\ pc[p] = "loop" /\ n[p] > 0 /\ r # w /\ At(r) # EOF
          /\ r' = r + 1 /\ UNCHANGED <<buf, w, e>>
      BY <1>9 DEF Take
    <2>2. /\ Segment(r, w) # <<>> /\ Head(Segment(r, w)) = At(r)
          /\ Tail(Segment(r, w)) = Segment(r, w)'
      <3>1. r < w
        BY <1>1, <2>1
      <3>2. /\ Piece(buf, r, w) # <<>> /\ Head(Piece(buf, r, w)) = At(r)
            /\ Tail(Piece(buf, r, w)) = Piece(buf, r + 1, w)
        BY <1>1, <3>1, PieceHead DEF At
      <3> QED
        BY <1>1, <1>2, <2>1, <3>2
    <2>3. Segment(w, e)' = Segment(w, e)
      BY <1>1, <1>2, <2>1
    <2>4. CASE At(r) = NL
      <3>1. /\ pc' = [pc EXCEPT ![p] = "out"]
            /\ n' = [n EXCEPT ![p] = 0] /\ got' = [got EXCEPT ![p] = <<>>]
        BY <1>9, <2>4 DEF Take, Return, Goto
      <3>2. reading' = reading \ {p} /\ p \in reading
        BY <1>3, <2>1, <3>1 DEF reading
      <3>3. Queue!Take(p)
        BY <2>1, <2>2, <2>3, <2>4, <3>1, <3>2 DEF Queue!Take, Queue!Return, reading
      <3> QED
        BY <3>3 DEF Queue!Next
    <2>5. CASE At(r) # NL
      <3>1. /\ n' = [n EXCEPT ![p] = n[p] - 1]
            /\ got' = [got EXCEPT ![p] = Append(got[p], At(r))]
            /\ pc' = pc
        BY <1>9, <2>5 DEF Take
      <3>2. reading' = reading /\ p \in reading
        BY <2>1, <3>1 DEF reading
      <3>3. Queue!Take(p)
        BY <2>1, <2>2, <2>3, <2>5, <3>1, <3>2 DEF Queue!Take, reading
      <3> QED
        BY <3>3 DEF Queue!Next
    <2> QED
      BY <2>4, <2>5
  <1>10. CASE Sleep(p)
    <2>1. reading' = reading
      BY <1>3, <1>10 DEF Sleep, Goto, reading
    <2> QED
      BY <1>10, <2>1, QueueStutters DEF Sleep
  <1> QED
    BY <1>4, <1>5, <1>6, <1>7, <1>8, <1>9, <1>10 DEF Read

(* So is every key, and the rest of the handler and procdump are not seen. *)
LEMMA IntrRefines ==
    ASSUME QueueInv, QueueInv',
           \/ IntrAcquire \/ IntrWake \/ IntrEnd \/ Procdump
           \/ DumpKey \/ KillKey \/ EraseKey \/ \E c \in Char : Key(c)
    PROVE  [Queue!Next]_Queue!vars
  <1>1. /\ buf \in Ring /\ r \in Nat /\ w \in Nat /\ e \in Nat
        /\ r <= w /\ w <= e
        /\ Segment(r, w) = Piece(buf, r, w) /\ Segment(w, e) = Piece(buf, w, e)
    BY QueueState DEF QueueInv
  <1>2. Segment(r, w)' = Piece(buf', r', w') /\ Segment(w, e)' = Piece(buf', w', e')
    BY DEF Segment, At, Piece
  <1>3. CASE IntrAcquire \/ IntrEnd \/ Procdump \/ DumpKey
    <2>1. UNCHANGED <<buf, r, w, e, n, got, pc>>
      BY <1>3 DEF IntrAcquire, IntrEnd, Procdump, DumpTitle, DumpAcquire, DumpPrint, DumpKey
    <2> QED
      BY <2>1, QueueStutters DEF reading
  <1>4. CASE IntrWake
    <2>1. reading' = reading
      BY <1>4 DEF IntrWake, reading
    <2> QED
      BY <1>4, <2>1, QueueStutters DEF IntrWake
  <1>5. CASE KillKey
    <2>1. e' = w /\ UNCHANGED <<buf, r, w, pc, n, got>>
      BY <1>5, KillsLine
    <2>2. Segment(w, e)' = <<>> /\ Segment(r, w)' = Segment(r, w)
      BY <1>1, <1>2, <2>1, PieceEmpty
    <2>3. Queue!EraseLine
      BY <2>1, <2>2 DEF Queue!EraseLine
    <2> QED
      BY <2>3 DEF Queue!Next
  <1>6. CASE EraseKey
    <2>1. e # w /\ e' = e - 1 /\ UNCHANGED <<buf, r, w, pc, n, got>>
      BY <1>6 DEF EraseKey
    <2>2. Segment(r, w)' = Segment(r, w)
      BY <1>1, <1>2, <2>1
    <2>3. Segment(w, e) # <<>>
      BY <1>1, <2>1, PieceHead
    <2>4. Segment(w, e)' = SubSeq(Segment(w, e), 1, Len(Segment(w, e)) - 1)
      BY <1>1, <1>2, <2>1, PieceFront
    <2>5. Queue!Erase
      BY <2>1, <2>2, <2>3, <2>4 DEF Queue!Erase
    <2> QED
      BY <2>5 DEF Queue!Next
  <1>7. ASSUME NEW c \in Char, Key(c) PROVE Queue!Next
    <2>1. /\ e' = e + 1 /\ e < r + INPUT_BUF
          /\ Piece(buf', r, w) = Segment(r, w)
          /\ Piece(buf', w, e + 1) = Append(Segment(w, e), c)
          /\ buf' \in Ring
          /\ IF c \in {NL, EOF} \/ e + 1 = r + INPUT_BUF
             THEN w' = e + 1 ELSE w' = w
          /\ UNCHANGED <<r, pc, n, got>>
      BY <1>1, <1>7, KeyStores DEF QueueInv
    <2>2. /\ Segment(r, w) \in Seq(Char) /\ Len(Segment(r, w)) = w - r
          /\ Segment(w, e) \in Seq(Char) /\ Len(Segment(w, e)) = e - w
      BY <1>1, PieceSeq
    <2>3. /\ Append(Segment(w, e), c) \in Seq(Char)
          /\ Len(Append(Segment(w, e), c)) = e + 1 - w
      BY <1>1, <2>2
    <2>4. /\ Len(Segment(r, w)) + Len(Segment(w, e)) < INPUT_BUF
          /\ Len(Segment(r, w)) + Len(Append(Segment(w, e), c)) = INPUT_BUF
                <=> e + 1 = r + INPUT_BUF
      BY <1>1, <2>1, <2>2, <2>3, ConsoleAssumption
    <2>5. CASE c \in {NL, EOF} \/ e + 1 = r + INPUT_BUF
      <3>1. Segment(w, e)' = <<>>
        BY <1>1, <1>2, <2>1, <2>5, PieceEmpty
      <3>2. Segment(r, w)' = Piece(buf', r, w) \o Piece(buf', w, e + 1)
        <4>1. e + 1 \in Nat /\ w <= e + 1
          BY <1>1
        <4>2. Piece(buf', r, w) \o Piece(buf', w, e + 1) = Piece(buf', r, e + 1)
          BY <1>1, <2>1, <4>1, PieceConcat
        <4> QED
          BY <1>2, <2>1, <2>5, <4>2
      <3>3. Queue!Type(c)
        BY <2>1, <2>4, <2>5, <3>1, <3>2 DEF Queue!Type
      <3> QED
        BY <3>3 DEF Queue!Next
    <2>6. CASE ~(c \in {NL, EOF} \/ e + 1 = r + INPUT_BUF)
      <3>1. /\ Segment(r, w)' = Segment(r, w)
            /\ Segment(w, e)' = Append(Segment(w, e), c)
        BY <1>1, <1>2, <2>1, <2>6
      <3>2. Queue!Type(c)
        BY <2>1, <2>4, <2>6, <3>1 DEF Queue!Type
      <3> QED
        BY <3>2 DEF Queue!Next
    <2> QED
      BY <2>5, <2>6
  <1> QED
    BY <1>3, <1>4, <1>5, <1>6, <1>7

(* For any number of readers, any characters and any size of the ring:     *)
(* the console is a queue of lines.  However the ring wraps around and     *)
(* readers and handler interleave, no input is lost, repeated, reordered   *)
(* or split between reads other than at the end of a line, and each ^D     *)
(* ends one read.                                                          *)
THEOREM ConsoleIsQueue == Spec => ImplementsConsoleQueue
  <1>1. Init => QueueInv
    <2> SUFFICES ASSUME Init PROVE QueueInv
      OBVIOUS
    <2>1. OneLine
      BY DEF Init, OneLine
    <2> QED
      BY <2>1, ConsoleInvInit DEF QueueInv
  <1>2. QueueInv /\ [Next]_vars => QueueInv'
    BY QueueInvNext
  <1>3. Init => Queue!Init
    <2> SUFFICES ASSUME Init PROVE Queue!Init
      OBVIOUS
    <2>1. buf \in Ring /\ r = 0 /\ w = 0 /\ e = 0
      BY DEF Init, Ring
    <2>2. Piece(buf, 0, 0) = <<>>
      BY <2>1, PieceEmpty
    <2>3. Segment(r, w) = <<>> /\ Segment(w, e) = <<>>
      BY <2>1, <2>2 DEF Segment, At, Piece
    <2> QED
      BY <2>3 DEF Init, Queue!Init
  <1>4. QueueInv /\ QueueInv' /\ [Next]_vars => [Queue!Next]_Queue!vars
    <2> SUFFICES ASSUME QueueInv, QueueInv', [Next]_vars PROVE [Queue!Next]_Queue!vars
      OBVIOUS
    <2>1. CASE UNCHANGED vars
      BY <2>1, QueueStutters DEF vars, reading
    <2>2. CASE Next
      BY <2>2, ReadRefines, IntrRefines DEF Next
    <2> QED
      BY <2>1, <2>2
  <1> QED
    BY <1>1, <1>2, <1>3, <1>4, PTL DEF Spec, ImplementsConsoleQueue, Queue!Spec
=============================================================================
